----------------------------- MODULE EventTrail -----------------------------
(***************************************************************************)
(* What the dashboard's activity log promises about the events a device    *)
(* records on its own, with no file, no sequence number and no poll:       *)
(* events are counted in the order they were recorded, a shown event stays *)
(* shown, and an event that was never shown is given up only after         *)
(* Capacity newer ones.  EventLog is shown to implement this module.       *)
(***************************************************************************)
EXTENDS Naturals

CONSTANT Capacity   \* the events the device keeps for the server

VARIABLES
    recorded,   \* how many events the device has recorded
    shown,      \* those the dashboard shows
    lost        \* those it never will

TrailInit == recorded = 0 /\ shown = {} /\ lost = {}

Record ==
    /\ recorded' = recorded + 1
    /\ UNCHANGED <<shown, lost>>

Resolve ==
    /\ recorded' = recorded
    /\ shown \subseteq shown' /\ shown' \subseteq 1..recorded
    /\ lost \subseteq lost' /\ shown' \cap lost' = {}
    /\ \A e \in lost' \ lost : e + Capacity <= recorded

TrailNext == Record \/ Resolve

TrailSpec == TrailInit /\ [][TrailNext]_<<recorded, shown, lost>>
=============================================================================
