# A TLA+ development of the WiFi optimizer

The program under `src/` keeps a two-device HaLow bridge usable. A server (FastAPI,
APScheduler, PostgreSQL) polls an AP and an STA over SSH, decides when a radio should change
its channel, sends the change, checks that it took, and reboots a device whose radio is down.
On each device a shell script, `wifi-agent.sh`, does the work over OpenWrt's safe apply.

Nobody is at the devices. A wrong channel cuts the link over which it would be corrected, so
what matters is what happens when calls overlap, answers are lost, a device restarts half way
or the server acts on what it read some awaits ago. That is what is modelled here.

## 1. Inventory

### Components

| Component | State it keeps | Operations | Talks to |
|---|---|---|---|
| Command life cycle (`main.py`, `optimizer.py`) | `commands` rows: param, target, status, `applied_at`; `optimizer_state.enabled` | optimizer insert, `apply_pending_commands`, `check_in_flight_commands`, reboot button, kill switch | the devices through `ssh_client.run`; the optimizer reads its outcomes |
| Safe apply (`wifi-agent.sh apply`, `verify-confirm`) | uci staged and committed option, rpcd's timer and snapshot, the radio, the radio lock | `cmd_apply`, `cmd_verify_confirm` | rpcd, netifd; started by SSH calls |
| Radio lock (`wifi-agent.sh`) | `/tmp/wifi-agent-radio.lock`, its `started_at` | `acquire_radio_lock`, `release_radio_lock` | shared by `cmd_apply` and `recover-radio` |
| Radio watchdog (`main.py`) | per device: down-poll streak, reboot count, exhausted flag, last reboot | `poll_telemetry`, `_maybe_auto_recover_radio`, `_reset_auto_recovery` | collects and reboots over SSH, alerts |
| Optimizer rules (`optimizer.py`, `halow_channel_plan.py`) | none of its own; reads settings, telemetry, commands | `run_optimizer_pass` for the HaLow and the 2.4 GHz link | inserts commands |
| Telemetry ingestion (`main.py`) | cumulative counters per radio and client, telemetry rows | `_ingest_collect`, counter deltas, channel-change events | feeds the optimizer and the dashboard |
| On-device recovery (`wifi-agent.sh recover-radio`, boot hook, cron) | two reboot counters on flash, the disable marker, the crontab line | chip reset, module reload, reboot | takes the radio lock; races with rpcd's rollback and with the radio's own bring-up |
| Device event log (`wifi-agent.sh`, `events.py`) | log file, sequence file; `device_events` | append, trim, collect, ingest with deduplication | collected at every poll |
| Offline alerts (`main.py`, `notify.py`) | `offline_alerted`, `last_seen` | `check_device_liveness`, `_get_or_create_device` | the liveness job races with the poll |
| SSH pool (`ssh_client.py`) | one connection per host, one lock for all | `run` with one retry, `put_bytes`, `close_all` | every job and request |
| Settings (`main.py`, `db.py`) | `app_settings`, the scheduler's intervals, the retention policy | `update_app_settings`, start-up | changes what the jobs do |
| Backups and restore (`main.py`, `device_client.py`) | backup rows, the archive on its way, a file in the device's `/tmp` | `poll_backups` with pruning, delete, `restore_backup` | SSH; shares the file with provisioning |
| Provisioning, dashboard and API, database, deployment | device targets; read-only queries; schema | fixed lists of remote commands, queries, migrations | |

The server is one asyncio process: jobs and requests interleave at every `await` and nowhere
else. APScheduler starts no second instance of a job while one runs, so a job is one actor.
On a device there is no such order: SSH calls, cron and rpcd's timer overlap freely.

### What is hard, and what makes each part correct

* *Command life cycle.* Rows are read, then awaited over, then written by id alone; the
  optimizer's check and its INSERT are apart; an answer may be lost although the command ran;
  the server may restart between the device's answer and its record. Correct means: no row is
  written over, a parameter has one change in flight, outcomes come in the order of the ledger,
  a sent command gets an outcome, and `unknown` is not written before the device's window ends.
* *Safe apply.* Any step may fail, a call may be killed, a second apply may come while the
  first one's timer runs, the device may restart. Correct means: an unconfirmed change is under
  a timer that returns to the confirmed option, and a staged change never leaks into a reload.
* *Radio lock.* Check, compare and remove are separate shell commands. Correct means:
  exclusion, no endless wait, and reclaiming after a death.
* *Watchdog.* What the row says lags behind what was sent; the job may end between a reboot and
  its record. Correct means: bounded and spaced reboots, only after a real streak, and exactly
  one alert when it gives up.
* *Optimizer.* Each guard is a query of its own, and channel numbers depend on the bandwidth.
  Correct means: a reverted channel stays out, changes keep their distance, a number is taken
  from the right tier's list, and the round robin reaches every channel.
* *On-device recovery.* Two failure signatures with counters of their own alternate over reboots
  and power cuts; the option it compares with may roll back under it. Correct means: its own
  reboots are capped, a radio on its channel is left alone, a bad one is recovered or reported.
* *Event log.* Every line is sent again by every poll, the counter file may be emptied by a power
  failure. Correct means: no row twice, no event refused as another's duplicate, none lost unless
  newer ones pushed it out.
* *Offline alerts.* The liveness job writes a flag for rows it read some awaits before, while a
  poll clears it, and a push that fails is swallowed. Correct means: one flag an outage, the last page
  is true unless one was lost, no flag stays.
* *Telemetry.* Counters restart with the device and are missing without a peer. Correct means: no
  stored throughput exceeds what was carried, the rate of retries is the true quotient as long as no
  counter restarted, the intervals of the rows meet, the log of channel changes leads to the newest
  channel.
* *SSH pool.* A task drops whatever the table holds by then. Correct means: no connection outlives
  its place in the table, a retry gets a fresh one, every call ends.
* *Settings and backups.* Rows are committed before what depends on them follows, and a part that
  fails may only be logged. Correct means: saved settings are in force but for a failure that was
  logged, the version just stored survives the pruning, "ok" means installed.

The hazards are listed one by one, with source lines, in `PROJECT.json`.

## 2. Modules

| Module | What it is |
|---|---|
| `CommandLedger` | abstract: what the `commands` table promises of each row: issued once, forward only, settled at most once |
| `CommandJobs` | the three jobs and the operator over the table; refines `CommandLedger` |
| `SafeChannel` | abstract: the channel option changes only under a timer that leads back, the radio moves only to the option or off the air |
| `SafeApply` | one device: apply and verify calls over rpcd and the radio; refines `SafeChannel`, and `ExclusiveLock` by its use of the lock |
| `CommandSystem` | `CommandJobs` and `SafeApply`, whose variables and actions it extends, joined by SSH |
| `ExclusiveLock` | abstract: a lock taken in one step and given back by who took it |
| `RadioLock` | the lock directory, reading and changing it in steps of their own; refines `ExclusiveLock` |
| `RadioRecovery` | `recover-radio` under the boot hook and cron, over a radio that strays |
| `RadioWatchdog` | the telemetry poll and the auto-recovery |
| `Optimizer` | one optimizer pass after another, query by query |
| `EventTrail` | abstract: an event is recorded, then shown or, once enough newer ones exist, lost; for good |
| `EventLog` | the log file, the counter file, the polls and the unique index; refines `EventTrail` |
| `Alerts` | the flag `offline_alerted` between the poll and the liveness job; the uptime query |
| `Telemetry` | counters, rates, rows and channel events of one radio |
| `SshPool` | `run`, `put_bytes` and `close_all` over the connection table and its lock |
| `Upkeep` | settings, backups, restore and the install step of provisioning |
| `CommandJobsProofs` | theorems about `CommandJobs` |
| `CommandSystemProofs` | theorems about `SafeApply` and `CommandSystem`, from those of `CommandJobsProofs` |
| `AgentProofs` | theorems about `RadioRecovery` and `RadioLock` |
| `PollProofs` | theorems about `Alerts` and `Telemetry` |
| `UpkeepProofs` | theorems about `SshPool` and `Upkeep` |
| `RadioWatchdogProofs`, `OptimizerProofs`, `EventLogProofs` | theorems about the module each extends |
| `MC*` | constants of the small instances TLC checks |

Modules that are composed, or proved about together, keep their names apart: `JobsInit`,
`DeviceNext`, `LockSpec`, `telemetryVars` are what `Init`, `Next`, `Spec` and `vars` are in a module
by itself.

A definition whose comment says "mutant" is a plausible bug in the definition below it. It is
never part of a specification: it is there to show that a property notices.

### State and actions against the code

**CommandJobs.** `status`, `serial` and `age` are a row's status, its place in `created_at`
order and the time since `applied_at`. Each job has a program counter and the rows it fetched.
`applyPc = "ssh"` is the await in `device_client`, `applyTry` the attempt of `ssh_client.run`.
`ApplyLost` is an exception in `run`: the first leads to a second try, the second to the
job's own `except`. `ApplyWrite` and `CheckWrite` are the UPDATE after the await, which trusts
the row fetched before it. `checkAge` is `elapsed`, computed from a `now` taken before the SSH
calls. `Verdict` is the three-way branch of `check_in_flight_commands`. A failing database call
ends its job (`OptAborts`, `ApplyAborts`, `CheckAborts`); a restart ends all three. Whether
the optimizer wants a change is open here (`OptDecide` or `OptSkip`).

**SafeApply.** `staged` is what `uci set` left in `/tmp`, `uci` the committed option, `armed`,
`left` and `snapshot` rpcd's timer. `cmd_apply` is `AcquireLock`, `Stage`, `Arm` or `ArmFails`
then `RevertStaged`, `Reload`; `cmd_verify_confirm` is `VerifyRead` or `VerifyFails`, then
`Confirm`, which confirms whatever timer runs. Every exit passes through the EXIT trap (`Exit`
frees the lock) unless the call is killed. `good` is a history variable: the option as last
confirmed. `littered` and `exposed` record the two faults the device cannot repair: a killed
call that had staged a change, and a reboot while a timer ran.

**CommandSystem.** A dialled command occupies a call slot of the device, `Returns` hands its
exit status to the job that waits for it, `Lost` drops the answer while the call runs on. `owner`
and `awaited` are histories that tie the device's timer to the command, and to the call, that
started it; `covered` is the history of the commands whose apply ever started one.

**RadioLock.** `mkdir`, the read of `started_at`, `rm -rf` and the stamp are steps of their
own, so a process can act on a lock that has been replaced since. The lock of `SafeApply`
is this protocol taken as one step; both implement `ExclusiveLock`, as long as no owner is killed.
`FindStale` is the `cat`, `date` and `test` of `wifi-agent.sh:146-148` in one step: no tick falls
between them. `lockPc` is where a process is, `attempts` the script's `attempt`.

**RadioWatchdog.** One action per statement group between awaits of `_maybe_auto_recover_radio`
and `_reset_auto_recovery`. `radio` and `link` are the world; `ReportsUp` is `collect_halow`'s
`radio_up`, which needs a peer. `sent`, `streak`, `gap` and `alerts` are histories of what
really happened, against which the row's counters are judged. `alerts` counts the alerts that were
attempted: `notify.py:21-24` swallows a push that fails, with the flag and the
`auto_recovery_exhausted` event already written, and nothing sends it again. `Heal` is the device's own
`recover-radio`.

**Optimizer.** `pc` is the query the pass comes to; `After` gives the order of the guards,
which differs between the links. `bad` stands for the average being over its threshold and
`KeepBandwidth` for the utilisation saying nothing; both may change at any moment.
`Acked`, `Reverted` and `NeverLearnt` are the outcomes `CommandJobs` computes. Between apply and outcome
the radio already runs the target, and `Report` may store it. `Misreport` is
the channel 0 or missing channel of a radio in trouble.

**RadioRecovery.** `pc` follows `verify_and_recover_radio`; channel and country are read in steps
of their own, as the script reads them. `live` is a channel, `Drifted` (a fallback channel),
`Corrupt` (the chip's defaults, country included) or `Absent` (no interface, which answers neither
question and so looks corrupt). `count` is the two files, `hook` the boot script's place, `cron`
the crontab line. `spent` counts the reboots that really happened since the last confirmation.
The lock is one step, so one run goes at a time; `Rollback` and `VerifyConfirm` ask for no lock.

**EventLog.** `ReadSeq`, `Truncate`, `Number`, `Append`, `Trim` are the commands of the agent's
`record_event`; `PowerCut` may come between any two. `Collect` takes all lines, `Ingest` inserts
those whose number is not stored yet, `Fails` loses the answer.

**Alerts.** The poll is `Collect`, `Register` or `Select`, `Seen`, `ClearFlag`, `PageOnline`; the
liveness job `Fetch`, `SetFlag`, `PageOffline`. `Page` is the push, which may fail unnoticed; `lost`
says that since the last page that went out one did not, because its push failed or its job ended
first. `PollAborts` and `LivenessAborts` are a failed database call, `Restart` ends both jobs. `age`
is the time since `last_seen`. `Downtime` is the gap analysis of `_uptime_pct`, read off a set of
readings: `WithBounds` is the CTE of that name, `PrevTime` its `LAG`, `Excess` what is summed.

**Telemetry.** `kept` is what the counter tables hold for the next poll, `rates` what the newest
rows say, each with the truth it stands for. The rate of retries is the quotient that is stored, as
a fraction: the retries' difference over the packets', whatever the two are of. `Ingest` is the one
transaction of a poll.

**SshPool.** A task is at `get` (waits for the lock), `dial`, `command` or `failed`. `Share`,
`Dial`, `Dialed`, `DialFails` are `_get_connection`; `Raises`, `DropStale` and `NextTry` the
`except` and the second attempt of `run`.

**Upkeep.** `savePc` is a save between its UPDATE, the scheduler and the retention policy.
`EnsureRetentionPolicies` is the one statement about a table, which start-up runs as well: it adds a
policy where there is none, removes one for 0 days, leaves one of other days alone, and may fail,
which is only logged. Two histories tell what `policy` should be: `asked`, the days with which
retention was last turned on, and `lapse`, whether a statement has failed since the policy was last
removed. `requestPc` a restore or an install between upload and unpacking; `pollPc` the backup job
between its awaits. `crossed` is a history: two saves, or two installs, were in progress at once.

## 3. Runs

| Run | Shows | States |
|---|---|---|
| `CommandJobs` | `SingleFlight`, refinement of the ledger, `UnknownAfterWindow`, `AppliedSettles` | 290,236 |
| `SafeApply` | `ChangeIsCovered`, refinement of `SafeChannel`, `RollbackHappens` under killed calls and reboots | 308,208 |
| `CommandSystem` | `AppliedWasArmed`, `UnknownIsOver` with dials that fail, apply answers lost, one server fault and a reboot command that restarts the device | 1,939,144 |
| `RadioLock` | `Exclusion`, refinement of the lock in one step, `WaitEnds`, `StampedIsReclaimed` with one killed owner | 12,355 |
| `RadioRecovery` | `RebootsAreCapped`, `HealthyIsLeftAlone`, `BadIsReported` | 227,256 |
| `RadioWatchdog` | `RebootsAreBounded`, `AlertedOnce`, `RebootsAreDue`, `OutageIsAlerted` | 7,476 |
| `Optimizer` | `FailedStaysOut`, `ChangesAreSpaced`, `OneTierAtATime`, `CycleVisitsAll` | 146,968 |
| `EventLog` | `NothingIsSwallowed`, refinement of the trail, `LoggedIsShown` | 29,888 |
| `Alerts` | `OncePerOutage`, `SilenceIsPaged`, `ReturnIsNoticed`, `UptimeAgrees` | 6,908 |
| `Telemetry` | `RatesAreReal`, `IntervalsMeet`, `LogFollowsChannel` | 1,968,384 |
| `SshPool` | `NothingLeaks`, `RetryIsFresh`, `CallsEnd` | 73,502 |
| `Upkeep` | `SettingsInForce`, `NewestIsKept`, `OkIsInstalled` | 4,097,452 |

The runs check what may be wrong; the type invariants, and the intermediate invariants
`RowsAreFresh`, `JobsInv`, `StagedIsOwned`, `LockInv` and `ShownOnce`, are proved (section 4).
`LiveIsCovered` (implied by `CallsKeepPromise` and `ChangeIsCovered` together) holds in TLC on the
instance of `SafeApply` too, and is proved.

### Disagreements between the code and what it says of itself

They are visible in the modules. Where a promise fails, the property is stated for what the code
does keep, and the reason is here.

* *Recovery.* The loop of `verify_and_recover_radio` ends after the third chip reset without reading
  the channel again, so a radio that this reset cured is rebooted all the same, while
  `wifi-agent.sh:480` logs "still not on channel ... after 3 chip-reset attempts" (`Reset`). "The
  periodic cron check runs against an already-stable system" (`wifi-agent-boot.init:53-56`): the
  crontab line outlives a boot, so cron may check a radio that is still coming up (`CronRuns` before
  `Settle`), read no country and reboot. An interface that is absent at the start of a run is
  neither reset nor reported, run after run (`NoInterface`): for `BadIsReported` a run that ends so
  has reported, though only the log knows. A recovery that reboots inside a rollback window makes
  the unconfirmed option permanent (as `exposed` in `SafeApply`), and one that overlaps a rollback
  compares with the option it read before it.
* *Verify.* The status of `uci confirm` is ignored (`wifi-agent.sh:740`): a verify that reads the
  target just before or after the rollback answers "confirmed", so a command may be acked although
  nothing was kept (`device_client.py:47-48` says otherwise); and a confirm has no target, so it may
  keep another command's change. A confirm whose answer is lost may be retried, fail, and be
  recorded as `reverted` although the change was kept.
* *Commands.* `src/README.md:91-92` names a status `expired` that nothing writes; a pending command
  whose apply keeps failing is retried for ever. `src/README.md:372-374` says an unreachable command
  becomes `reverted`, the code writes `unknown`. A reboot is acked although it may never have been
  sent. The kill switch is read once per pass. An apply whose answer was lost, or that a restart
  forgot, may arm its timer after its command became `unknown`. `command_verify_delay_seconds` may
  be set beyond the rollback window: every verify then comes too late.
* *Alerts.* `src/README.md:370-371`, "sends a follow-up 'back online' notice": the flag is committed
  before the push of the page is awaited (`main.py:168-169`), so a poll in between clears it and
  may send the follow-up first. The last page then says that a device is offline which is back.
  A push that fails is logged (`notify.py:21-24`) after the flag was committed: nobody hears of that
  outage, or that return, and no later pass tries again. `SilenceIsPaged` excuses it by `lost`.
* *Lock.* After a killed owner, two waiters that both found its lock stale may end up inside
  together (`wifi-agent.sh:150`); a lock whose owner died before its stamp is never reclaimed.
* *Watchdog.* `radio_up` needs a peer, so a healthy device is rebooted because its peer is away.
* *Optimizer.* When all other channels have reverted the round robin wraps to the current one and
  commands it. A channel whose outcome was `unknown` is tried again. An unknown bandwidth ends the
  pass before the 2.4 GHz link.
* *SSH.* `run` survives one fault: a second connection that breaks ends the call
  (`ssh_client.py:53-55` reads as if any stale connection were replaced).
* *Telemetry.* `main.py:216-218` says that a counter reset gives no rate "instead of a nonsense
  negative or huge value". It gives 0.0 or, where the new counters have already passed the old ones,
  a mixed difference, of which only the numerator is bounded: with 0 retries of 1 packet kept, a
  reset and 2 of 2 sent since, the stored rate is 2/1, 200 %. `RatesAreReal` states the exact
  quotient only for intervals without a reset, and after one that it is not negative and not more
  than the retries. A channel change across a row without a channel is not logged as one.
* *Settings.* A retention changed from one nonzero value to another is not applied (`db.py:45-47`),
  while `main.py:997-1000` calls the statement so that a change takes effect immediately. A statement
  that fails is logged (`db.py:60-61`), the save answers 204 and the old policy stays, until another
  save or a restart of the server makes it good. `SettingsInForce` names both: the days are those with
  which retention was last turned on, and only where no statement failed. Two saves that cross may
  leave the scheduler on the older intervals.
* *Restore.* The unpacking removes the archive and restarts the network, so a lost answer makes
  the second try fail: "restore failed" although it took place. Two installs at once share one file.

### Bounds, and why they are enough

* `CommandJobs`: two HaLow changes and one reboot, so that the optimizer can overlap two changes
  of one parameter and a job holds more than one row; ticks stand for tens of seconds, with
  `VerifyDelay` 1, ttl 2, `Grace` 1, so every order of delay, window and grace occurs. Ages stop
  at `MaxAge` 3, the end of the last window. One fault, at any step.
* `SafeApply`: two calls are the fewest that overlap; two plausible channels and one that
  `is_plausible_channel` refuses; a window of two ticks, so a call can act before, inside and
  after it. The lock lets one apply through, so a third call adds only waiters.
* `CommandSystem`: one change and one reboot command, two interchangeable calls (the first and the
  repeated one; symmetry), a window of one tick, one server fault. `MayLose` says which job's
  answers may be lost once the call has begun; a dial may always fail.
* `RadioLock`: three processes, the owner and two waiters; age limit 2; two attempts; one kill.
* `RadioRecovery`: two channels, so the option can move; two resets a run, caps of 1 and 2 (they
  differ, and each counter is seen below, at and past its cap); one power cut. The instance with
  the script's own 3, 2 and 4 passes as well, in three and a half minutes.
* `RadioWatchdog`: the rules treat devices alike and a row belongs to one device, so one device
  is enough; the peer shows as the link that fades. Streak, reboots and cooldown of 2 let each
  counter pass through below, at and past its limit.
* `Optimizer`: three tiers of one HaLow channel each, a lower, a middle and an upper one; the
  round robin is exercised on the three channels of the 2.4 GHz list. One link per deployment: the
  links share only `on` and the order of evaluation.
* `EventLog`: a log of two lines and five events, so that lines are pushed out twice over; two
  power failures, one of which may empty the counter while the other comes later.
* `Alerts`: three outages, a threshold of two ticks, one restart or failed database call; any push may
  fail. `UptimeAgrees` compares the query
  with a count of uncovered ticks over every set of readings of a window of seven.
* `Telemetry`: two channels, three packets, two resets: a reset can come before, between and after
  the packets of two polls.
* `SshPool`: two tasks on one device, one on another, two broken connections, four connection
  names (more are never alive at once). The system stops at `close_all`: deadlock is not checked.
* `Upkeep`: two archives, which are alike (symmetry), two stored rows at most, one restore, one
  install, one restart; three saves, of 30, 0 and 7 days, the first done before the server started, so
  that retention can be turned off, on again, and from one number of days to another, and each of
  their statements may fail.

Deadlock is checked in every other run: there is always a job to start or a clock to advance.

### Fairness

* `CommandJobs`: weak fairness of the two SSH jobs and the clock. APScheduler runs the jobs at
  their interval as long as the server is up, and `run`'s timeouts end every await. None for
  the optimizer or the operator.
* `SafeApply`: weak fairness of the clock and of rpcd's rollback only; no call is assumed to end.
* `RadioLock`: weak fairness of each process's own steps, of starting again (cron runs every 15
  minutes) and of the clock.
* `RadioRecovery`: weak fairness of the run, the boot hook, cron, a device that comes up and a
  bring-up that ends. Nothing is assumed to heal, and nobody to enable or disable anything.
* `RadioWatchdog`: weak fairness of the poll, the clock and of boots that end; strong fairness
  of a successful collect and of storing it, because a device that answers again and again is
  in the end met while it answers. `OutageIsAlerted` asks for such answers explicitly; a device
  that never answers is the business of the offline alert.
* `Optimizer`: weak fairness of the pass, the clock, the poll and of outcomes (that every
  applied command gets one is `AppliedSettles`). `CycleVisitsAll` supposes a link that stays
  degraded with its switch on and is reported on a listed channel; nothing is assumed to heal.
* `EventLog`: weak fairness of the poll's collect, strong fairness of ingesting its answer: a poll
  may fail again and again, not always. None for the device.
* `Alerts`: weak fairness of the two jobs and of the clock.
* `SshPool`: strong fairness of taking the lock (asyncio's lock is first come, first served), weak
  fairness of ending what was begun (timeouts of dial and command) and of noticing a connection that
  broke (keepalive). `put_bytes`, which has no timeout, ends by the last.

## 4. Proofs

TLAPS proves, for every value of the constants that satisfies the named assumptions:

* **CommandJobsProofs**: `JobsTypeOK`; the inductive invariant `JobsInv`; from it `RowsAreFresh`,
  `SingleFlight`, `UnknownAfterWindow`, and that `CommandJobs` implements `CommandLedger`.
  `SingleFlight` is not inductive alone: between its check and its INSERT the optimizer holds
  `optCmd`, and `OptimizerHeld` says that nothing of that parameter came in flight meanwhile,
  which holds because no other job issues a tuned command except by hand (`ByHand`, which `Tuned`
  excludes). `RowsHeld` ties each job's place to its row, so that a row in hand has the status
  with which it was fetched: each job moves only rows of its own status. `UnknownAfterWindow`
  needs `checkAge[c] <= age[c]`: the stale elapsed time is a lower bound.
* **CommandSystemProofs**, the device: `DeviceTypeOK`, `ChangeIsCovered` (inductive by itself) and
  `StagedIsOwned` (with the types).
* **Safe apply as a promise.** `SafeChannel` says what may happen to the option and the radio under
  the calls. `CallsKeep` (CommandSystemProofs): a reload by the lock's owner or by the recovery
  finds nothing staged but what a killed call left (`ReloadsCommitted`, from `StagedIsOwned`), so
  only `uci apply`, `uci confirm`, the timer and a reboot move the option, one change at a time, and
  the radio follows it. `LiveIsCovered` is read off the promise and `ChangeIsCovered`: where no
  timer runs the radio follows an option that is the confirmed one. A rollback leaves the radio
  free, because rpcd's own reload may see what another call has just staged.
* **CommandSystemProofs**, the composition. `Composes`: every step of `CommandSystem` is a step of
  `CommandJobs` or leaves its variables alone, and the same for `SafeApply`, so what is proved of
  either holds in the composition and need not be proved again (`KeptTogether`, the settling of due
  rows and the measure of a pass included). On top of `JobsInv` and
  `StagedIsOwned` comes `SystemInv`, in three parts. `CallsInv`: the apply the server waits for
  was made for the row in hand, and no other job waits for it. `CoverInv`: a call that has passed
  `uci apply` belongs to a command whose apply has started a timer, and only such a call exits 0.
  `TimerInv`: while a timer runs that was started by a call the server waited for, its command is
  neither forgotten nor given up, and the time since it was applied and the time left on the timer
  are not more than the timeout together. `AppliedWasArmed` follows from the first two, for
  `ApplyReturns` reads the exit status of its own call. `UnknownIsOver` follows from the third,
  although `CheckWrite` acts on an elapsed time that is stale: that time is a lower bound
  (`RowsHeld`), and the server waits 15 s longer than the timeout it sent. This last is
  `WindowAssumption`: `apply_command` passes the row's `ttl_seconds` as the timeout of `uci
  apply`, and the grace is not zero.
* **AgentProofs**, the lock: `LockTypeOK`, and `Exclusion` under `HoldsShort` for any number of
  processes. `LockInv` is the inductive form: while nobody was killed the directory has a living
  owner whose stamp is young, so nobody reaches `rm -rf` but the owner.
* **The lock as one step**, which `SafeApply` takes for granted, by two refinements of
  `ExclusiveLock`. `LockImplements` (AgentProofs): under `LockInv` only `mkdir` and the owner's
  exit change who holds the lock or who is inside, and each changes both at once.
  `CallsImplement` (CommandSystemProofs): a call is inside exactly while it owns the lock
  (`StagedIsOwned` one way, `OwnerIsInside` the other). In both, a killed process ends the promise.
* **AgentProofs**, the recovery: `TypeOK`, `RebootsAreCapped` and `HealthyIsLeftAlone`, for any
  caps, resets, channels and power cuts. `CountsInv` says what the counter files are worth at each
  place of the run: a reboot is in its file before it happens, and what a path has spent is in its
  file or was wiped from it. `FitInv`: a run that has seen nothing but a radio on its channel
  compares with that very channel and has judged nothing.
* **RadioWatchdogProofs**: `TypeOK`, `RebootsAreBounded`, `AlertedOnce`, `RebootsAreDue`, for any
  number of devices and any limits. The row lags behind the history between a collect and the
  writes it causes; `WatchdogInv` says by how much at each place of the job (one reboot in hand at
  `record`, one lost per fault, the streak ahead of the counter).
* **OptimizerProofs**: `TypeOK`, `FailedStaysOut`, `ChangesAreSpaced`, `OneTierAtATime`, for any
  tiers and channel plan. `PassInv` carries each query's answer to the INSERT: outcomes may empty
  `target` and the clock may only raise `age`, and a channel fails only through a command in
  flight, of which the pass has checked there is none.
* **EventLogProofs**: `TypeOK`, `ShownOnce`, `NothingIsSwallowed`, and that `EventLog` implements
  `EventTrail`, for any log size and any number of power failures. The trail keeps a set of what was
  shown; that no line is shown twice is `ShownOnce`. The invariant says that until a
  failure empties the counter file the numbers grow with the lines and the file is not behind the
  last one, and that a line which left the log is at least `MaxLines` lines old; it splits by the
  step of `record_event` at which the power may fail.
* **PollProofs**, the alerts: `TypeOK` and `OncePerOutage`, for any threshold and any number of
  restarts and failed calls. The invariant ties the flag to a silence that has been counted, at
  every place of the two jobs. `FlagMeansPage`: a flagged device was paged about or is being, or the
  page was lost, and "back online" goes out only if the page of the outage is out, on its way or lost;
  more than that does not hold (section 3). Both rest on a tick being longer than a job's database
  calls and its push (`Tick`).
* **PollProofs**, the uptime query: `UptimeAgrees`, for any window and expected interval. The
  query is a sum along the window, a recursive function, and the library's induction theorems take
  an operator the provers cannot instantiate. `Least` (every set of numbers that is not empty has a
  least element, from the well-foundedness of `<`) does instead: `GapsAreCounted` gives the sum in
  closed form, the uncovered ticks up to the last reading so far, and two functions that satisfy
  the recursion cannot differ at a least argument. `GapIs` is the step from one reading to the next.
  `ClampsIdle`: the result never leaves the window, so the clamps to 0 and 100 % never act.
* **PollProofs**, the telemetry: `TelemetryTypeOK`, `RatesAreReal`, `IntervalsMeet`,
  `LogFollowsChannel`, for any channels and any number of packets and resets. Nothing on the server
  says whether two readings count from the same reset, so `RatesAreReal` needs what the readings are
  of: `Dated` says that a reading, collected or kept, counts from the device's last reset or is
  older than it, and `Follows` that of two successive ones either both count from one reset, and
  then their difference is exact and so is the quotient, or the newer counts only what came after
  the older, and then no difference exceeds what was carried (`AtLeastOnce`: a quotient of whole
  numbers is not more than its numerator, which is all that holds of the retries). `Before` also
  carries that no more packets are retried than sent, without which the 0.0 stored for an interval
  without packets would not be exact.
* **UpkeepProofs**, the pool: `TypeOK`, `NothingLeaks` and `RetryIsFresh`, for any tasks, devices,
  connections and faults. The invariant: who dials holds the lock and its device has no usable
  connection; who asks a second time has seen its first connection closed.
* **UpkeepProofs**, the rest: `UpkeepTypeOK`, `SettingsInForce`, `NewestIsKept`, `OkIsInstalled`,
  for any configs, requests, saves and retention counts. `SaveInv`: the save in progress is the one
  that wrote `app_settings`, that its statement, if it does not fail, makes of the policy what was
  asked for, and what `lapse` leaves true of the policy if one has failed. `PassInv`: a pass that
  has stored its archive prunes to one version at least, so pruning the oldest never reaches it,
  whatever count was saved meanwhile. `InstallInv`: what lies uploaded when an install unpacks, or
  tries to a second time, is its own.

* **What the liveness properties rest on.** Liveness itself stays with TLC, but what the fairness
  assumptions cannot give is proved for every value of the constants: that what has begun runs down.
  A measure in the naturals gets smaller with every step of a call of the SSH pool (`CallsRunDown`),
  of a pass of the two SSH jobs (`PassesRunDown`), of a wait for the radio lock (`WaitRunsDown`) and
  of a run of the recovery (`RunRunsDown`), and no step of anybody else makes it larger, so nothing
  that happens meanwhile prolongs them. The one exception is visible: a reclaim of the lock counts
  as no attempt, and `LockInv` shows that there is none until an owner is killed. `PassSettlesDue`
  is the rest of `AppliedSettles`: a verify pass that runs to its end leaves no row in flight whose
  retry window was over when the pass began (`NoneOverlooked`, which needs `JobsInv`). So what is
  left to TLC is that fair jobs and processes take their steps, and that time passes.

The assumptions are the `ASSUME`s of the modules: types of the constants, `MaxAge` beyond every
window, the server's grace and the timeout it sends (`WindowAssumption`), distinct tiers whose plan
lists channels of that bandwidth, sensible limits.

Model-checked only: every liveness property, since liveness under fairness and `ENABLED` are
outside the prover's reach. Every other property of a run is proved. No module uses a RECURSIVE
operator.

## 5. Abstractions

SSH, asyncpg, rpcd, netifd, the chip and the radios are external and modelled from how the code uses
them. A target value is a channel, an archive a model value; JSON, messages and the wording of
notifications are left out. Averages are over or under their threshold. `device_targets` is
constant. `SafeApply`'s `RecoverRadio` and `RadioWatchdog`'s `Heal` stand for what `RadioRecovery`
does to the radio, as its `Apply`, `Rollback` and `VerifyConfirm` stand for the calls: each module
takes the other's part in one step, and what it may rely on of the calls is `SafeChannel`, which
`SafeApply` is proved to implement. What a chip reset or a bring-up leaves of the radio is the
world's to choose, so of the recovery no such promise is stated. The one-step lock of `SafeApply`
and `RadioRecovery` stands for `RadioLock`, of which it is the proved abstraction while no owner is
killed and every owner is quicker than the age limit. Of the two tables with a retention policy one
stands for both. The two counter files of the recovery are removed in one step. A rollback during a
chip reset has the outcome of one before or after it.

## 6. Not modelled

* *Dashboard and API*: queries and forms. Every write that reaches the rest is an action of another
  module: kill switch and reboot (`CommandJobs`), settings, delete, restore, provision (`Upkeep`).
* *Settings* other than `app_settings`: one validated UPDATE each; constants of the models.
* *Provisioning* but for the install of a backup: a fixed list of remote commands, one after another.
* *Telemetry*: the label that tells a commanded change of channel from a spontaneous one, the
  averages the optimizer reads, signal values.
* *Two rows for one role*: `_get_device_targets` assumes one device per role; so do the models.
* *Database*: migrations run once, in order, in the database container.
* *Deployment*: build and configuration files.

## 7. Plan

1. `RadioRecovery` and `SafeApply` in one module, step by step, beyond the promise both keep.
2. The label of channel changes, as a relation between `CommandJobs` and `Telemetry`.
