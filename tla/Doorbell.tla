----------------------------- MODULE Doorbell -----------------------------
(***************************************************************************)
(* The ready doorbell: producers push wake-up tokens onto a capped list,    *)
(* idle workers block on it.  Tasks, tokens and workers are interchangeable *)
(* here, so the state counts them: a worker is busy, about to claim because *)
(* a token woke it (woken) or for any other reason (awake), or idle, which  *)
(* is everything from an empty Dequeue to the return of BLPOP.              *)
(***************************************************************************)
EXTENDS Integers

CONSTANTS
    Workers,   \* number of worker goroutines of the cluster
    Cap,       \* SignalCap
    Tasks,     \* number of tasks that become ready
    MaxBatch,  \* most tasks one promote.lua or reclaim.lua call makes ready
    Faults     \* "signal": a ring may get lost; "claim": a claim may fail

ASSUME DoorbellAssumption ==
    /\ Workers \in Nat /\ Cap \in Nat /\ Tasks \in Nat /\ MaxBatch \in Nat

VARIABLES
    toCome,    \* tasks that will still become ready
    ready,     \* tasks in the ready set
    ringing,   \* producers between their ZADD and their Signal
    tokens,    \* length of the signal list
    idle, woken, awake, busy,  \* workers in each phase of Pool.worker
    missed     \* auxiliary: rings lost and tokens spent on claims that failed

workers == <<idle, woken, awake, busy>>
vars == <<toCome, ready, ringing, tokens, workers, missed>>

TypeOK ==
    /\ toCome \in Nat /\ ready \in Nat /\ ringing \in Nat
    /\ tokens \in 0..Cap
    /\ idle \in Nat /\ woken \in Nat /\ awake \in Nat /\ busy \in Nat
    /\ idle + woken + awake + busy = Workers
    /\ missed \in Nat

Init ==
    /\ toCome = Tasks
    /\ ready = 0 /\ ringing = 0 /\ tokens = 0
    /\ idle = 0 /\ woken = 0 /\ awake = Workers /\ busy = 0
    /\ missed = 0
-----------------------------------------------------------------------------
\* Mutant: the list is kept one token long, whoever waits.
PushOne(k) == IF tokens = 0 /\ k > 0 /\ Cap > 0 THEN 1 ELSE tokens

\* Mutant: signal.lua without its guard.
PushUncapped(k) == tokens + k

\* Length of the list after k pushes, each only while it is below the cap.
Pushed(k) == IF tokens + k <= Cap THEN tokens + k ELSE Cap

\* PriorityQueue.Enqueue: ZADD, then Signal.
Enqueue ==
    /\ toCome > 0
    /\ toCome' = toCome - 1
    /\ ready' = ready + 1
    /\ ringing' = ringing + 1
    /\ UNCHANGED <<tokens, workers, missed>>

Signal ==
    /\ ringing > 0
    /\ ringing' = ringing - 1
    /\ tokens' = Pushed(1)
    /\ UNCHANGED <<toCome, ready, workers, missed>>

\* The error of Signal is ignored, or the producer dies before it.
SignalLost ==
    /\ "signal" \in Faults
    /\ ringing > 0
    /\ ringing' = ringing - 1
    /\ missed' = missed + 1
    /\ UNCHANGED <<toCome, ready, tokens, workers>>

\* promote.lua with a batch of k, reclaim.lua with k = 1: ZADD and RPUSH are one
\* atomic step.
MakeReady(k) ==
    /\ k <= toCome
    /\ toCome' = toCome - k
    /\ ready' = ready + k
    /\ tokens' = Pushed(k)
    /\ UNCHANGED <<ringing, workers, missed>>

\* A worker runs dequeue.lua: it has a task or goes to wait on the doorbell.
ClaimWoken ==
    /\ woken > 0
    /\ woken' = woken - 1
    /\ IF ready > 0 THEN ready' = ready - 1 /\ busy' = busy + 1 /\ UNCHANGED idle
                    ELSE idle' = idle + 1 /\ UNCHANGED <<ready, busy>>
    /\ UNCHANGED <<toCome, ringing, tokens, awake, missed>>

ClaimAwake ==
    /\ awake > 0
    /\ awake' = awake - 1
    /\ IF ready > 0 THEN ready' = ready - 1 /\ busy' = busy + 1 /\ UNCHANGED idle
                    ELSE idle' = idle + 1 /\ UNCHANGED <<ready, busy>>
    /\ UNCHANGED <<toCome, ringing, tokens, woken, missed>>

\* BLPOP returns a token.
WakeUp ==
    /\ idle > 0 /\ tokens > 0
    /\ idle' = idle - 1
    /\ tokens' = tokens - 1
    /\ woken' = woken + 1
    /\ UNCHANGED <<toCome, ready, ringing, awake, busy, missed>>

\* Mutant: the worker blocks until a token comes, without the fallback poll.
BlockForever == FALSE

\* BLPOP returns without a token after signalBlock, or with an error.
BlockEnds == idle > 0

FallBack ==
    /\ BlockEnds
    /\ idle' = idle - 1
    /\ awake' = awake + 1
    /\ UNCHANGED <<toCome, ready, ringing, tokens, woken, busy, missed>>

\* Execute returns.
Finish ==
    /\ busy > 0
    /\ busy' = busy - 1
    /\ awake' = awake + 1
    /\ UNCHANGED <<toCome, ready, ringing, tokens, idle, woken, missed>>

\* Dequeue fails after the token was spent: the worker sleeps pollInterval.
ClaimFails ==
    /\ "claim" \in Faults
    /\ woken > 0
    /\ woken' = woken - 1
    /\ awake' = awake + 1
    /\ missed' = missed + 1
    /\ UNCHANGED <<toCome, ready, ringing, tokens, idle, busy>>

Next == \/ Enqueue \/ Signal \/ SignalLost
        \/ \E k \in 1..MaxBatch : MakeReady(k)
        \/ ClaimWoken \/ ClaimAwake \/ WakeUp \/ FallBack \/ Finish \/ ClaimFails

Spec == Init /\ [][Next]_vars

(* A worker claims, a handler returns and a block times out.                *)
FairSpec == Spec /\ WF_vars(ClaimWoken) /\ WF_vars(ClaimAwake)
                 /\ WF_vars(FallBack) /\ WF_vars(Finish)
-----------------------------------------------------------------------------
\* Never does a worker sleep beside a ready task with no wake-up on its way (a
\* token in the list, a producer about to ring or a woken worker about to claim),
\* unless a ring got lost or a token was spent on a failed claim.  A token dropped
\* at the cap and the gap between an empty Dequeue and BLPOP do not break it as long
\* as the cap is not below the number of workers.
NoMissedWakeUp == ready > 0 /\ idle > 0 => tokens + ringing + woken + missed > 0

Least(x, y) == IF x <= y THEN x ELSE y

\* Each failure costs one wake-up and no more: the waiting workers that the ready
\* tasks could occupy are covered one by one, but for those missed.
EnoughWakeUps == Least(ready, idle + woken) <= tokens + ringing + woken + missed

\* A lost ring or a spent token costs latency, never a task: every task that
\* becomes ready is claimed, whatever the cap.
EveryTaskClaimed == <>[](toCome = 0) => <>[](ready = 0)
=============================================================================
