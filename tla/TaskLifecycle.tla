--------------------------- MODULE TaskLifecycle ---------------------------
(***************************************************************************)
(* What the queue promises for each task, whatever processes and Redis     *)
(* structures stand behind it: a task is in one state, leaves it only along *)
(* the arrows below, and stays done once it is done.                       *)
(*                                                                         *)
(*   new -> held -> queued -> leased -> done                               *)
(*           ^ \       ^         |                                         *)
(*           |  > dead  +--------+  (reclaimed)                            *)
(*           +------+   held <---+  (released or exhausted)                *)
(*                                                                         *)
(* "held" is a task in the memory of one process, between two structures.   *)
(***************************************************************************)
CONSTANTS Task, Lossy   \* Lossy: processes may fail while they hold a task

VARIABLE st

TypeOK == st \in [Task -> {"new", "held", "queued", "leased", "done", "dead", "lost"}]

Init == st = [t \in Task |-> "new"]

Move(t, from, to) == st[t] \in from /\ st' = [st EXCEPT ![t] = to]

Accept(t) == Move(t, {"new"}, "held")
Queue(t) == Move(t, {"held"}, "queued")
Lease(t) == Move(t, {"queued"}, "leased")
Complete(t) == Move(t, {"leased"}, "done")
Release(t) == Move(t, {"leased"}, "held")
Reclaim(t) == Move(t, {"leased"}, "queued")
Bury(t) == Move(t, {"held"}, "dead")
Redrive(t) == Move(t, {"dead"}, "held")

\* The tasks a failing process holds are lost together; a release whose reply
\* is lost loses the task it released.
Lose(S) == /\ Lossy
           /\ S # {} /\ \A t \in S : st[t] \in {"held", "leased"}
           /\ st' = [t \in Task |-> IF t \in S THEN "lost" ELSE st[t]]

Next == \/ \E t \in Task : \/ Accept(t) \/ Queue(t) \/ Lease(t) \/ Complete(t)
                           \/ Release(t) \/ Reclaim(t) \/ Bury(t) \/ Redrive(t)
        \/ \E S \in SUBSET Task : Lose(S)

Spec == Init /\ [][Next]_st
=============================================================================
