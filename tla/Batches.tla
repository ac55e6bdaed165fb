------------------------------ MODULE Batches ------------------------------
(* How a handler of the submission panel cuts its tasks into chunks.        *)
EXTENDS Naturals

CONSTANTS
    MaxRuns,       \* bound on the handlers that are started
    BatchSize,     \* the tasks of a batch
    CONCURRENCY,   \* the requests of a chunk
    MaxFailures    \* bound on the requests that fail

ASSUME BatchAssumption ==
    /\ MaxRuns \in Nat /\ MaxFailures \in Nat
    /\ BatchSize \in Nat \ {0} /\ CONCURRENCY \in Nat \ {0}

Run == 1..MaxRuns
NoRun == 0

Kind == {"submit", "batch", "flush"}

Size(k) == IF k = "batch" THEN BatchSize ELSE 1

\* The tasks of the chunk after the first n.
ChunkAfter(n, k) == {i \in 1..Size(k) : n < i /\ i <= n + CONCURRENCY}

\* The number of tasks up to the end of that chunk.
SentAfter(n, k) == IF n + CONCURRENCY < Size(k) THEN n + CONCURRENCY ELSE Size(k)
=============================================================================
