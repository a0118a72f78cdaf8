----------------------------- MODULE MCScheduler -----------------------------
(* A calendar rule and an interval, with opposite policies. *)
EXTENDS Scheduler

Announce == [on |-> TRUE, at |-> {1, 2}, every |-> 0, action |-> "console",
             missed |-> "skip", conflict |-> "skip", offline |-> "wait"]
Nightly == [on |-> TRUE, at |-> {}, every |-> 1, action |-> "lifecycle",
            missed |-> "run_once", conflict |-> "retry", offline |-> "skip"]
Archive == [Announce EXCEPT !.action = "backup", !.at = {1}]
StartFirst == [Nightly EXCEPT !.action = "console", !.offline = "start"]
Paused == [Archive EXCEPT !.on = FALSE, !.action = "console", !.offline = "skip"]

Various == {Announce, Nightly, StartFirst, Paused, Archive}
=============================================================================
