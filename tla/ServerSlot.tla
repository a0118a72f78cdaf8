----------------------------- MODULE ServerSlot -----------------------------
(***************************************************************************)
(* What one supervisor process promises to the host it runs on: a slot     *)
(* that one Minecraft process group occupies at a time, that is filled     *)
(* again only while the crash budget lasts, and that is empty for good once *)
(* the supervisor has given up.  Supervisor implements it (SlotSpec there). *)
(***************************************************************************)
EXTENDS Naturals

CONSTANTS
    MaxCrashes,     \* crashes that close the slot (cfg.MaxCrashLoop)
    MaxLaunches     \* bound: servers launched into the slot

VARIABLES
    slot,           \* "empty", "occupied" or "closed"
    launches,       \* servers launched so far
    recent          \* crashes held against the budget

slotVars == <<slot, launches, recent>>

SlotInit == slot = "empty" /\ launches = 0 /\ recent = 0

Launch ==
    /\ slot = "empty" /\ recent < MaxCrashes /\ launches < MaxLaunches
    /\ slot' = "occupied" /\ launches' = launches + 1
    /\ UNCHANGED recent

\* The last process of the group is gone.
Vacate ==
    /\ slot = "occupied" /\ slot' = "empty"
    /\ UNCHANGED <<launches, recent>>

\* A crash is charged once the slot is empty.
Charge ==
    /\ slot = "empty" /\ recent < MaxCrashes
    /\ recent' = recent + 1
    /\ UNCHANGED <<slot, launches>>

Forget ==
    /\ recent > 0 /\ recent' = recent - 1
    /\ UNCHANGED <<slot, launches>>

Close ==
    /\ slot = "empty" /\ slot' = "closed"
    /\ UNCHANGED <<launches, recent>>

SlotNext == Launch \/ Vacate \/ Charge \/ Forget \/ Close

Spec == SlotInit /\ [][SlotNext]_slotVars
=============================================================================
