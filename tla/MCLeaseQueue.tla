--------------------------- MODULE MCLeaseQueue ---------------------------
(* LeaseQueue on small instances: the first goroutines share a node.        *)
EXTENDS LeaseQueueLifecycle, TLC

CONSTANTS n1, n2, w1, w2, w3, c1, c2, t1, t2

\* w1 and w2 are goroutines of n1, w3 is one of n2.
MCNodeOf == [w \in Worker |-> IF w = w3 THEN n2 ELSE n1]

\* Each client submits a task of its own.
MCIdOf == [c \in Client |-> IF c = c2 THEN t2 ELSE t1]

\* t2 has the higher priority.
MCPriority == [t \in Task |-> IF t = t2 THEN 1 ELSE 0]

Symmetry == Permutations(Reaper) \cup Permutations(Worker \ {w3})
=============================================================================
