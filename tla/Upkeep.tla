------------------------------- MODULE Upkeep -------------------------------
(***************************************************************************)
(* What the dashboard lets a person do beside watching: save the settings, *)
(* keep, delete and restore a device's config backups, and provision it.   *)
(* poll_backups stores a new version and prunes the oldest ones by a count *)
(* it read before it dialled; a save writes app_settings and then moves    *)
(* the scheduler and the retention policy; a restore and a provisioning    *)
(* both leave the archive in the same file on the device and unpack it.    *)
(* Requests, jobs and a restart of the server interleave at every await.   *)
(*                                                                         *)
(* One device; a config stands for what `tar` packs and unpacks.  Of the    *)
(* two tables with a retention policy one: each is treated alike, in a      *)
(* `try` of its own, and nothing relates them.                             *)
(***************************************************************************)
EXTENDS Naturals, Sequences

CONSTANTS
    Configs,
    Restores,    \* requests to restore_backup
    Provisions,  \* requests to provision_device that restore a backup, too
    Saves,       \* requests to update_app_settings
    KeepOf,      \* a save's backup_retention_count, 0 for all
    DaysOf,      \* a save's telemetry_retention_days, 0 for ever
    FirstSave,   \* one that was done before the server started
    MaxRows,     \* bound: rows of device_backups
    MaxRestarts, \* bound
    Nothing

VARIABLES
    config,     \* the device's configuration
    upload,     \* its /tmp/restore.tar.gz, or Nothing
    backups,    \* device_backups, oldest first
    pollPc,     \* poll_backups: where it is
    keepRead,   \* its backup_retention_count
    archive,    \* what it fetched
    requestPc,  \* each restore and provisioning: where it is
    chosen,     \* the archive it is to install
    savePc,     \* each save: where it is
    settings,   \* app_settings: the save that wrote it
    schedule,   \* the save whose intervals the scheduler runs
    policy,     \* the days of the table's retention policy, 0 when there is none
    asked,      \* history: the days with which app_settings last turned retention
                \* on, 0 while it is off
    lapse,      \* history: did a policy statement fail? "none" since the policy was
                \* last removed, "last" was the last one, "past" an earlier one
    fetched,    \* history: what the last complete pass of poll_backups had fetched
    deleted,    \* history: since the last fetch a version was deleted by hand, or
                \* the pass was cut off
    crossed,    \* history: "save", "install": two of them were in progress together
    restarts

device  == <<config, upload>>
job     == <<pollPc, keepRead, archive>>
install == <<requestPc, chosen>>
saves   == <<savePc, settings, schedule, policy, asked, lapse>>
history == <<fetched, deleted, crossed>>
upkeepVars == <<device, backups, job, install, saves, history, restarts>>

Requests == Restores \cup Provisions

ASSUME UpkeepAssumption ==
    /\ Nothing \notin Configs
    /\ FirstSave \in Saves
    /\ KeepOf \in [Saves -> Nat] /\ DaysOf \in [Saves -> Nat]
    /\ MaxRows \in Nat /\ MaxRestarts \in Nat

UpkeepInit ==
    /\ config \in Configs /\ upload = Nothing /\ backups = <<>>
    /\ pollPc = "idle" /\ keepRead = 0 /\ archive = Nothing
    /\ requestPc = [r \in Requests |-> "new"] /\ chosen = [r \in Requests |-> Nothing]
    /\ savePc = [s \in Saves |-> IF s = FirstSave THEN "done" ELSE "new"]
    /\ settings = FirstSave /\ schedule = FirstSave
    /\ policy = DaysOf[FirstSave] /\ asked = DaysOf[FirstSave] /\ lapse = "none"
    /\ fetched = Nothing /\ deleted = FALSE /\ crossed = {} /\ restarts = 0

-----------------------------------------------------------------------------
(* poll_backups.                                                            *)

ReadCount ==
    /\ pollPc = "idle" /\ Len(backups) < MaxRows
    /\ keepRead' = KeepOf[settings] /\ pollPc' = "fetch"
    /\ UNCHANGED <<device, backups, archive, install, saves, history, restarts>>

Fetch ==
    /\ pollPc = "fetch"
    /\ \/ archive' = config /\ pollPc' = "compare" /\ deleted' = FALSE /\ UNCHANGED keepRead
       \/ archive' = Nothing /\ pollPc' = "idle" /\ keepRead' = 0 /\ UNCHANGED deleted
    /\ UNCHANGED <<device, backups, install, saves, fetched, crossed, restarts>>

PassEnds ==
    /\ pollPc' = "idle" /\ archive' = Nothing /\ keepRead' = 0
    /\ fetched' = archive

Newest == IF backups = <<>> THEN Nothing ELSE backups[Len(backups)]

Compare ==
    /\ pollPc = "compare"
    /\ IF Newest = archive THEN PassEnds
       ELSE pollPc' = "insert" /\ UNCHANGED <<archive, keepRead, fetched>>
    /\ UNCHANGED <<device, backups, install, saves, deleted, crossed, restarts>>

Insert ==
    /\ pollPc = "insert"
    /\ backups' = Append(backups, archive)
    /\ IF keepRead > 0 THEN pollPc' = "prune" /\ UNCHANGED <<archive, keepRead, fetched>>
                       ELSE PassEnds
    /\ UNCHANGED <<device, install, saves, deleted, crossed, restarts>>

PruneNewest ==  \* mutant: ORDER BY created_at ASC
    /\ pollPc = "prune"
    /\ backups' = IF Len(backups) > keepRead THEN SubSeq(backups, 1, keepRead) ELSE backups
    /\ PassEnds
    /\ UNCHANGED <<device, install, saves, deleted, crossed, restarts>>

Prune ==
    /\ pollPc = "prune"
    /\ backups' = IF Len(backups) > keepRead
                    THEN SubSeq(backups, Len(backups) + 1 - keepRead, Len(backups))
                    ELSE backups
    /\ PassEnds
    /\ UNCHANGED <<device, install, saves, deleted, crossed, restarts>>

Delete ==
    /\ \E i \in 1..Len(backups) :
          backups' = SubSeq(backups, 1, i - 1) \o SubSeq(backups, i + 1, Len(backups))
    /\ deleted' = TRUE
    /\ UNCHANGED <<device, job, install, saves, fetched, crossed, restarts>>

-----------------------------------------------------------------------------
(* restore_backup and provision_device: the archive is read from the table,  *)
(* uploaded to /tmp/restore.tar.gz, unpacked over / and removed.  run sends  *)
(* the tar a second time when its answer is lost; provisioning does not.     *)

Busy == {r \in Requests : requestPc[r] \in {"upload", "unpack", "again"}}

Choose(r) ==
    /\ r \notin Busy
    /\ \E i \in 1..Len(backups) : chosen' = [chosen EXCEPT ![r] = backups[i]]
    /\ requestPc' = [requestPc EXCEPT ![r] = "upload"]
    /\ crossed' = IF Busy # {} THEN crossed \cup {"install"} ELSE crossed
    /\ UNCHANGED <<device, backups, job, saves, fetched, deleted, restarts>>

Tar == upload # Nothing /\ config' = upload /\ upload' = Nothing

Answers(r, outcome) ==
    /\ requestPc' = [requestPc EXCEPT ![r] = outcome]
    /\ chosen' = [chosen EXCEPT ![r] = IF outcome = "again" THEN @ ELSE Nothing]

AnswerLost(r) ==
    Answers(r, IF requestPc[r] = "unpack" /\ r \in Restores THEN "again" ELSE "failed")

UploadAnyhow(r) ==  \* mutant: a failed upload is not noticed
    /\ requestPc[r] = "upload"
    /\ requestPc' = [requestPc EXCEPT ![r] = "unpack"]
    /\ upload' \in {chosen[r], upload}
    /\ UNCHANGED <<config, backups, job, chosen, saves, history, restarts>>

Upload(r) ==
    /\ requestPc[r] = "upload"
    /\ \/ /\ upload' = chosen[r] /\ UNCHANGED chosen
          /\ requestPc' = [requestPc EXCEPT ![r] = "unpack"]
       \/ Answers(r, "failed") /\ UNCHANGED upload
    /\ UNCHANGED <<config, backups, job, saves, history, restarts>>

Unpack(r) ==
    /\ requestPc[r] \in {"unpack", "again"}
    /\ \/ Tar /\ (Answers(r, "ok") \/ AnswerLost(r))
       \/ upload = Nothing /\ Answers(r, "failed") /\ UNCHANGED device
       \/ AnswerLost(r) /\ UNCHANGED device
    /\ UNCHANGED <<backups, job, saves, history, restarts>>

Edit ==
    /\ config' \in Configs \ {config}
    /\ UNCHANGED <<upload, backups, job, install, saves, history, restarts>>

-----------------------------------------------------------------------------
(* update_app_settings.                                                     *)

Saving == {s \in Saves : savePc[s] \in {"written", "scheduled"}}

Write(s) ==
    /\ savePc[s] = "new"
    /\ settings' = s
    /\ asked' = IF DaysOf[s] = 0 \/ asked = 0 THEN DaysOf[s] ELSE asked
    /\ savePc' = [savePc EXCEPT ![s] = "written"]
    /\ crossed' = IF Saving # {} THEN crossed \cup {"save"} ELSE crossed
    /\ UNCHANGED <<device, backups, job, install, schedule, policy, lapse, fetched,
                   deleted, restarts>>

Reschedule(s) ==
    /\ savePc[s] = "written"
    /\ schedule' = s
    /\ savePc' = [savePc EXCEPT ![s] = "scheduled"]
    /\ UNCHANGED <<device, backups, job, install, settings, policy, asked, lapse, history,
                   restarts>>

PolicyAddOnly(days) ==  \* mutant: 0 adds no policy and removes none
    IF days = 0 \/ policy > 0 THEN policy ELSE days

(* ensure_retention_policies: if_not_exists leaves a policy that is there.   *)
PolicyAfter(days) == IF days = 0 THEN 0 ELSE IF policy > 0 THEN policy ELSE days

(* A statement that fails is logged and forgotten.                          *)
EnsureRetentionPolicies(days) ==
    \/ /\ policy' = PolicyAfter(days)
       /\ lapse' = IF days = 0 \/ lapse = "none" THEN "none" ELSE "past"
    \/ UNCHANGED policy /\ lapse' = "last"

EnsurePolicy(s) ==
    /\ savePc[s] = "scheduled"
    /\ EnsureRetentionPolicies(DaysOf[s])
    /\ savePc' = [savePc EXCEPT ![s] = "done"]
    /\ UNCHANGED <<device, backups, job, install, settings, schedule, asked, history, restarts>>

(* lifespan: the policy and the jobs follow app_settings, whatever request   *)
(* was cut off.                                                             *)
Restart ==
    /\ restarts < MaxRestarts /\ restarts' = restarts + 1
    /\ EnsureRetentionPolicies(DaysOf[settings])
    /\ schedule' = settings
    /\ savePc' = [s \in Saves |-> IF savePc[s] = "new" THEN "new" ELSE "done"]
    /\ requestPc' = [r \in Requests |-> IF r \in Busy THEN "failed" ELSE requestPc[r]]
    /\ chosen' = [r \in Requests |-> Nothing]
    /\ pollPc' = "idle" /\ archive' = Nothing /\ keepRead' = 0
    /\ deleted' = (deleted \/ pollPc # "idle")
    /\ UNCHANGED <<device, backups, settings, asked, fetched, crossed>>

PollBackups == ReadCount \/ Fetch \/ Compare \/ Insert \/ Prune

UpkeepNext ==
    \/ PollBackups \/ Delete \/ Edit \/ Restart
    \/ \E r \in Requests : Choose(r) \/ Upload(r) \/ Unpack(r)
    \/ \E s \in Saves : Write(s) \/ Reschedule(s) \/ EnsurePolicy(s)

UpkeepSpec == UpkeepInit /\ [][UpkeepNext]_upkeepVars
-----------------------------------------------------------------------------
UpkeepTypeOK ==
    /\ config \in Configs /\ upload \in Configs \cup {Nothing} /\ backups \in Seq(Configs)
    /\ pollPc \in {"idle", "fetch", "compare", "insert", "prune"}
    /\ keepRead \in Nat /\ archive \in Configs \cup {Nothing}
    /\ requestPc \in [Requests -> {"new", "upload", "unpack", "again", "ok", "failed"}]
    /\ chosen \in [Requests -> Configs \cup {Nothing}]
    /\ savePc \in [Saves -> {"new", "written", "scheduled", "done"}]
    /\ settings \in Saves /\ schedule \in Saves /\ policy \in Nat
    /\ asked \in Nat /\ lapse \in {"none", "last", "past"}
    /\ fetched \in Configs \cup {Nothing} /\ deleted \in BOOLEAN
    /\ crossed \subseteq {"save", "install"}
    /\ restarts \in 0..MaxRestarts

(* Once no save is in progress, and if no two ever crossed, the scheduler    *)
(* runs what app_settings says; a table has a retention policy exactly if    *)
(* app_settings asks for one, unless the last statement about it failed,     *)
(* which a save or a restart that succeeds makes good; and the policy is     *)
(* of the days with which retention was last turned on, unless a statement   *)
(* has failed since it was off.  That is all a change comes to: one number   *)
(* of days does not replace another (db.py:45-47), whatever "a change here   *)
(* takes effect immediately" (main.py:997-1000) says.                       *)
SettingsInForce ==
    "save" \notin crossed /\ Saving = {}
      => /\ schedule = settings
         /\ lapse # "last" => (policy = 0 <=> DaysOf[settings] = 0)
         /\ lapse = "none" => policy = asked

(* poll_backups, "unchanged since the last stored version": what the last    *)
(* complete pass fetched is the newest version, whatever it pruned and       *)
(* whenever the count changed, unless a version was deleted by hand since.   *)
NewestIsKept == pollPc = "idle" /\ fetched # Nothing /\ ~deleted => Newest = fetched

(* A request that answers "ok" has put the very version it was asked for on  *)
(* the device, over lost answers, failed uploads and restarts before it, if  *)
(* no two were in progress together.                                        *)
OkIsInstalled ==
    [][\A r \in Requests :
          requestPc[r] # "ok" /\ requestPc'[r] = "ok" /\ "install" \notin crossed
            => config' = chosen[r]]_upkeepVars
=============================================================================
