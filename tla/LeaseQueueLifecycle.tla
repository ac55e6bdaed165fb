------------------------ MODULE LeaseQueueLifecycle ------------------------
(* LeaseQueue implements TaskLifecycle: the state of a task is read off the  *)
(* structures and the processes' memories.                                  *)
EXTENDS LeaseQueue

StateOf(t) ==
    CASE t \in processing -> "leased"
      [] t \in ready \cup delayed -> "queued"
      [] Buried(t) -> "dead"
      [] Carried(t) -> "held"
      [] rec[t].status = "completed" -> "done"
      [] t \in dropped -> "lost"
      [] OTHER -> "new"

lifecycle == [t \in Task |-> StateOf(t)]

Abstract == INSTANCE TaskLifecycle WITH st <- lifecycle, Lossy <- Faults # {}

\* Every step of the queue moves a task along the promised life cycle or leaves
\* it where it is; without faults no task is ever lost.
Lifecycle == Abstract!Spec
=============================================================================
