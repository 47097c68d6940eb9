----------------------------- MODULE Occurrence -----------------------------
(***************************************************************************)
(* What the run queue promises for one planned occurrence of a prompt      *)
(* (docs/TASKS_SCHEDULER.md, decisions 13 and 14), without workers,        *)
(* leases, clocks or retry counters: it is sent to a provider again only   *)
(* after a call that is known to have failed, an answer that was paid for  *)
(* is never reported as a failure or asked for again, and what has been    *)
(* settled stays settled.  RunQueue implements this specification.         *)
(***************************************************************************)
CONSTANT Items

VARIABLE occ  \* [Items -> Occ]

\* call is the state of the occurrence's latest call.
Occ == [stage : {"absent", "open", "done", "dropped"},
        call  : {"none", "pending", "failed", "answered", "unknown"}]

Unplanned == [stage |-> "absent", call |-> "none"]

Init == occ = [i \in Items |-> Unplanned]

-----------------------------------------------------------------------------
(* The moves of one occurrence, from o to p *)

Planned(o, p) == o.stage = "absent" /\ p = [o EXCEPT !.stage = "open"]

Called(o, p) ==
  o.stage = "open" /\ o.call \in {"none", "failed"} /\ p = [o EXCEPT !.call = "pending"]

Returned(o, p) ==
  /\ o.stage = "open" /\ o.call = "pending"
  /\ p \in {[o EXCEPT !.call = "failed"], [o EXCEPT !.call = "answered"]}

\* Nobody will ever know what became of the call.
GivenUp(o, p) ==
  o.stage = "open" /\ o.call = "pending" /\ p = [stage |-> "dropped", call |-> "unknown"]

Finished(o, p) ==
  o.stage = "open" /\ o.call = "answered" /\ p = [o EXCEPT !.stage = "done"]

Dropped(o, p) ==
  o.stage = "open" /\ o.call \in {"none", "failed"} /\ p = [o EXCEPT !.stage = "dropped"]

Move(o, p) ==
  \/ Planned(o, p) \/ Called(o, p) \/ Returned(o, p)
  \/ GivenUp(o, p) \/ Finished(o, p) \/ Dropped(o, p)

\* One sweep may move many occurrences at once.
Next ==
  /\ occ' \in [Items -> Occ]
  /\ \A i \in Items : occ'[i] = occ[i] \/ Move(occ[i], occ'[i])

Spec == Init /\ [][Next]_occ
=============================================================================
