---------------------------- MODULE SafeChannel ----------------------------
(***************************************************************************)
(* What safe apply promises of a radio's channel, whoever acts on the      *)
(* device: the option changes only under a timer, one change at a time,    *)
(* and from there it is kept or goes back to what it was; the radio moves  *)
(* only to the option, or off the air.  SafeApply, the calls with the      *)
(* recovery as one step, is shown to implement this module.                *)
(***************************************************************************)
CONSTANTS Channels, Nowhere

VARIABLES
    option,   \* the channel that is configured
    back,     \* the one a change that is not kept returns to
    pending,  \* a change is neither kept nor undone
    radio,    \* the channel the radio is on, or Nowhere
    loose     \* a call died with a change half made: the radio may follow it

SafeInit ==
    /\ option \in Channels /\ back = option /\ pending = FALSE
    /\ radio \in {option, Nowhere} /\ loose = FALSE

Follows == radio' \in {radio, option', Nowhere} \/ loose

Put(c) ==
    /\ ~pending /\ pending'
    /\ option' = c /\ back' = option
    /\ Follows

(* Confirmed, or the timer was lost with the device's memory.                *)
Keep ==
    /\ pending /\ ~pending'
    /\ option' = option /\ back' = option
    /\ Follows

(* rpcd's reload may see what another call has just staged.                  *)
Undo ==
    /\ pending /\ ~pending'
    /\ option' = back /\ back' = back

Move ==
    /\ UNCHANGED <<option, back, pending>>
    /\ Follows

SafeNext ==
    /\ radio' \in Channels \cup {Nowhere}
    /\ loose => loose'
    /\ Keep \/ Undo \/ Move \/ \E c \in Channels : Put(c)

SafeSpec == SafeInit /\ [][SafeNext]_<<option, back, pending, radio, loose>>
=============================================================================
