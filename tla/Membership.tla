---------------------------- MODULE Membership ----------------------------
(***************************************************************************)
(* Cluster membership and failure detection: nodes announce themselves with *)
(* a registry entry and a heartbeat key that expires, the reaper reads both, *)
(* marks a silent node dead, reclaims its in-flight tasks and prunes it     *)
(* after a grace window.  A node comes back, drains or dies at any point of *)
(* a reaper's pass.                                                         *)
(*                                                                         *)
(* A pipeline of a few short commands reaches Redis in one read and is run  *)
(* without another client's command in between, some time after it was sent. *)
(***************************************************************************)
CONSTANTS
    Node, Task,
    Reaper,   \* processes running the reaper loop
    Faults,   \* which of "stall", "crash", "shutdown" and "reaper" may happen
    None      \* no node

ASSUME NoneIsNoNode == None \notin Node

VARIABLES
    registry,   \* the set of registered node IDs
    beating,    \* the nodes whose heartbeat key exists
    tomb,       \* dead tombstones: none, fresh, or older than the grace window
    inFlight,   \* node -> its in-flight SET
    lease,      \* task -> the owner of its lease, or None
    phase,      \* a node: starting, up, draining, left (deregistered) or gone
                \* (dead without a farewell)
    stalled,    \* the nodes that do not run for a while
    running,    \* node -> the tasks its goroutines execute
    sent,       \* the nodes whose Register or Heartbeat is on its way
    rpc,        \* a reaper: its next call
    listed,     \* the node IDs of its pass it has not handled
    target,     \* the node it is handling
    todo        \* the in-flight tasks of the target still to be reclaimed

keys == <<registry, beating, tomb, inFlight>>
nodes == <<phase, stalled, running, sent>>
reapers == <<rpc, listed, target, todo>>
vars == <<keys, lease, nodes, reapers>>

TypeOK ==
    /\ registry \subseteq Node /\ beating \subseteq Node
    /\ tomb \in [Node -> {"none", "fresh", "old"}]
    /\ inFlight \in [Node -> SUBSET Task]
    /\ lease \in [Task -> Node \cup {None}]
    /\ phase \in [Node -> {"starting", "up", "draining", "left", "gone"}]
    /\ stalled \subseteq Node
    /\ running \in [Node -> SUBSET Task]
    /\ sent \subseteq Node
    /\ rpc \in [Reaper -> {"idle", "scan", "mark", "owned", "reclaim", "since", "remove"}]
    /\ listed \in [Reaper -> SUBSET Node]
    /\ target \in [Reaper -> Node \cup {None}]
    /\ \A r \in Reaper : rpc[r] \in {"owned", "reclaim", "since", "remove"} => target[r] # None
    /\ todo \in [Reaper -> SUBSET Task]

Init ==
    /\ registry = {} /\ beating = {}
    /\ tomb = [n \in Node |-> "none"]
    /\ inFlight = [n \in Node |-> {}]
    /\ lease = [t \in Task |-> None]
    /\ phase = [n \in Node |-> "starting"]
    /\ stalled = {}
    /\ running = [n \in Node |-> {}]
    /\ sent = Node
    /\ rpc = [r \in Reaper |-> "idle"]
    /\ listed = [r \in Reaper |-> {}]
    /\ target = [r \in Reaper |-> None]
    /\ todo = [r \in Reaper |-> {}]
-----------------------------------------------------------------------------
Awake(n) == n \notin stalled

\* Mutant: the heartbeat refreshes the key only.
KeyOnly(n) == beating' = beating \cup {n} /\ UNCHANGED <<registry, tomb>>

\* The pipeline of Register and Heartbeat (the descriptor the dashboard reads is
\* left out).
Announce(n) ==
    /\ registry' = registry \cup {n}
    /\ beating' = beating \cup {n}
    /\ tomb' = [tomb EXCEPT ![n] = "none"]

\* The pipeline of Deregister and Remove.
Erase(n) ==
    /\ registry' = registry \ {n}
    /\ beating' = beating \ {n}
    /\ tomb' = [tomb EXCEPT ![n] = "none"]
    /\ inFlight' = [inFlight EXCEPT ![n] = {}]

\* What was sent reaches Redis, also from a node that stalls or dies.
Beat(n) ==
    /\ n \in sent
    /\ Announce(n)
    /\ sent' = sent \ {n}
    /\ UNCHANGED <<inFlight, lease, phase, stalled, running, reapers>>

\* Register returned, with or without an error: the worker pool starts.
Started(n) ==
    /\ phase[n] = "starting" /\ Awake(n)
    /\ n \notin sent
    /\ phase' = [phase EXCEPT ![n] = "up"]
    /\ UNCHANGED <<keys, lease, stalled, running, sent, reapers>>

\* The heartbeat ticker.
Heartbeat(n) ==
    /\ phase[n] = "up" /\ Awake(n)
    /\ sent' = sent \cup {n}
    /\ UNCHANGED <<keys, lease, phase, stalled, running, reapers>>

\* dequeue.lua and what the executor does at the end of a task.
Take(n, t) ==
    /\ phase[n] = "up" /\ Awake(n)
    /\ lease[t] = None
    /\ lease' = [lease EXCEPT ![t] = n]
    /\ inFlight' = [inFlight EXCEPT ![n] = @ \cup {t}]
    /\ running' = [running EXCEPT ![n] = @ \cup {t}]
    /\ UNCHANGED <<registry, beating, tomb, phase, stalled, sent, reapers>>

Finish(n, t) ==
    /\ phase[n] \in {"up", "draining"} /\ Awake(n)
    /\ t \in running[n]
    /\ running' = [running EXCEPT ![n] = @ \ {t}]
    /\ IF lease[t] = n
       THEN /\ lease' = [lease EXCEPT ![t] = None]
            /\ inFlight' = [inFlight EXCEPT ![n] = @ \ {t}]
       ELSE UNCHANGED <<lease, inFlight>>
    /\ UNCHANGED <<registry, beating, tomb, phase, stalled, sent, reapers>>

\* SIGTERM: heartbeats stop at once, the pool drains.
Shutdown(n) ==
    /\ "shutdown" \in Faults
    /\ phase[n] = "up" /\ Awake(n)
    /\ phase' = [phase EXCEPT ![n] = "draining"]
    /\ UNCHANGED <<keys, lease, stalled, running, sent, reapers>>

\* Mutant: the last heartbeat is not waited for.
PoolDrained(n) == running[n] = {}

\* The pool has drained and the heartbeat loop has returned.
Drained(n) == running[n] = {} /\ n \notin sent

Deregister(n) ==
    /\ phase[n] = "draining" /\ Awake(n)
    /\ Drained(n)
    /\ Erase(n)
    /\ phase' = [phase EXCEPT ![n] = "left"]
    /\ UNCHANGED <<lease, stalled, running, sent, reapers>>

Stall(n) ==
    /\ "stall" \in Faults
    /\ phase[n] = "up" /\ Awake(n)
    /\ stalled' = stalled \cup {n}
    /\ UNCHANGED <<keys, lease, phase, running, sent, reapers>>

Resume(n) ==
    /\ n \in stalled
    /\ stalled' = stalled \ {n}
    /\ UNCHANGED <<keys, lease, phase, running, sent, reapers>>

\* The process dies, with whatever it has sent already applied or not.
Crash(n) ==
    /\ "crash" \in Faults
    /\ phase[n] \in {"starting", "up", "draining"}
    /\ phase' = [phase EXCEPT ![n] = "gone"]
    /\ stalled' = stalled \ {n}
    /\ running' = [running EXCEPT ![n] = {}]
    /\ sent' \in {sent, sent \ {n}}
    /\ UNCHANGED <<keys, lease, reapers>>

\* The key outlives three beats: it expires only when its node does not beat.
Lapse(n) ==
    /\ n \in beating
    /\ phase[n] \in {"draining", "left", "gone"} \/ n \in stalled
    /\ beating' = beating \ {n}
    /\ UNCHANGED <<registry, tomb, inFlight, lease, nodes, reapers>>

\* The grace window of a tombstone ends.
Age(n) ==
    /\ tomb[n] = "fresh"
    /\ tomb' = [tomb EXCEPT ![n] = "old"]
    /\ UNCHANGED <<registry, beating, inFlight, lease, nodes, reapers>>
-----------------------------------------------------------------------------
(* The reaper.                                                              *)

\* DeadNodeIDs: the registry, then a pipeline of EXISTS.
ListRegistered(r) ==
    /\ rpc[r] = "idle"
    /\ registry # {}
    /\ listed' = [listed EXCEPT ![r] = registry]
    /\ rpc' = [rpc EXCEPT ![r] = "scan"]
    /\ UNCHANGED <<keys, lease, nodes, target, todo>>

Silent(r) == {n \in listed[r] : n \notin beating}

ScanHeartbeats(r) ==
    /\ rpc[r] = "scan"
    /\ listed' = [listed EXCEPT ![r] = Silent(r)]
    /\ rpc' = [rpc EXCEPT ![r] = IF Silent(r) = {} THEN "idle" ELSE "mark"]
    /\ UNCHANGED <<keys, lease, nodes, target, todo>>

\* MarkDead: SET NX.
Mark(r) ==
    /\ rpc[r] = "mark"
    /\ \E n \in listed[r] :
         /\ target' = [target EXCEPT ![r] = n]
         /\ listed' = [listed EXCEPT ![r] = @ \ {n}]
         /\ IF tomb[n] = "none"
            THEN tomb' = [tomb EXCEPT ![n] = "fresh"] /\ rpc' = [rpc EXCEPT ![r] = "owned"]
            ELSE UNCHANGED tomb /\ rpc' = [rpc EXCEPT ![r] = "since"]
    /\ UNCHANGED <<registry, beating, inFlight, lease, nodes, todo>>

\* Mutant: the loop does not advance.
NextNodeStuck(r) == target' = [target EXCEPT ![r] = None] /\ UNCHANGED rpc

NextNode(r) ==
    /\ rpc' = [rpc EXCEPT ![r] = IF listed[r] = {} THEN "idle" ELSE "mark"]
    /\ target' = [target EXCEPT ![r] = None]

\* OwnedTaskIDs.
ListOwned(r) ==
    /\ rpc[r] = "owned"
    /\ LET owned == inFlight[target[r]] IN
         /\ todo' = [todo EXCEPT ![r] = owned]
         /\ IF owned = {} THEN NextNode(r)
            ELSE rpc' = [rpc EXCEPT ![r] = "reclaim"] /\ UNCHANGED target
    /\ UNCHANGED <<keys, lease, nodes, listed>>

\* reclaim.lua, whoever has the lease by now.
EndLease(t) ==
    /\ lease' = [lease EXCEPT ![t] = None]
    /\ inFlight' = [n \in Node |-> IF n = lease[t] THEN inFlight[n] \ {t} ELSE inFlight[n]]

ReclaimOwned(r) ==
    /\ rpc[r] = "reclaim"
    /\ \E t \in todo[r] :
         /\ todo' = [todo EXCEPT ![r] = @ \ {t}]
         /\ EndLease(t)
         /\ IF todo[r] = {t} THEN NextNode(r) ELSE UNCHANGED <<rpc, target>>
    /\ UNCHANGED <<registry, beating, tomb, nodes, listed>>

\* Mutant: the age of the tombstone is compared the wrong way round.
Young(n) == tomb[n] = "fresh"

\* DeadSince: no tombstone any more, or one older than the grace window.
Prunable(n) == tomb[n] # "fresh"

DeadSince(r) ==
    /\ rpc[r] = "since"
    /\ IF Prunable(target[r])
       THEN rpc' = [rpc EXCEPT ![r] = "remove"] /\ UNCHANGED target
       ELSE NextNode(r)
    /\ UNCHANGED <<keys, lease, nodes, listed, todo>>

Remove(r) ==
    /\ rpc[r] = "remove"
    /\ Erase(target[r])
    /\ NextNode(r)
    /\ UNCHANGED <<lease, nodes, listed, todo>>

\* Mutant: reap passes over the leases of unregistered nodes.
LeaseOfMember(t) == lease[t] \in registry

LeaseOut(t) == lease[t] # None

\* reap: the deadline of a lease has passed, whoever the owner is.
ReapExpired(t) ==
    /\ LeaseOut(t)
    /\ EndLease(t)
    /\ UNCHANGED <<registry, beating, tomb, nodes, reapers>>

\* The reaper dies, loses the lead or gets an error: the rest of its pass is
\* forgotten.
ReaperFails(r) ==
    /\ "reaper" \in Faults
    /\ rpc[r] # "idle"
    /\ rpc' = [rpc EXCEPT ![r] = "idle"]
    /\ listed' = [listed EXCEPT ![r] = {}]
    /\ target' = [target EXCEPT ![r] = None]
    /\ todo' = [todo EXCEPT ![r] = {}]
    /\ UNCHANGED <<keys, lease, nodes>>

ReaperStep(r) == \/ ListRegistered(r) \/ ScanHeartbeats(r) \/ Mark(r) \/ ListOwned(r)
                 \/ ReclaimOwned(r) \/ DeadSince(r) \/ Remove(r)

NodeStep(n) == \/ Started(n) \/ Heartbeat(n) \/ Deregister(n)
               \/ \E t \in Task : Finish(n, t)

NodeFault(n) == Shutdown(n) \/ Stall(n) \/ Resume(n) \/ Crash(n)

Next ==
    \/ \E n \in Node : Beat(n) \/ Lapse(n) \/ Age(n)
    \/ \E n \in Node : NodeStep(n) \/ NodeFault(n) \/ \E t \in Task : Take(n, t)
    \/ \E r \in Reaper : ReaperStep(r) \/ ReaperFails(r)
    \/ \E t \in Task : ReapExpired(t)

Spec == Init /\ [][Next]_vars

(* Sent commands arrive, keys expire, tickers fire and handlers return.     *)
FairSpec ==
    /\ Spec
    /\ \A n \in Node : /\ WF_vars(Beat(n)) /\ WF_vars(Heartbeat(n)) /\ WF_vars(Started(n))
                       /\ WF_vars(Lapse(n)) /\ WF_vars(Age(n))
    /\ \A r \in Reaper : WF_vars(ReaperStep(r))
    /\ \A t \in Task : WF_vars(ReapExpired(t))
-----------------------------------------------------------------------------
\* A node that deregistered stays out of the registry and leaves no heartbeat
\* behind: its last heartbeat never lands after its farewell.
LeavesCleanly ==
    \A n \in Node : phase[n] = "left" => n \notin registry \cup beating

\* A node that keeps running is in the end taken for alive for good, whatever
\* passes of a reaper saw it silent before.
RejoinsForGood ==
    \A n \in Node :
        <>[](phase[n] = "up" /\ Awake(n)) =>
            <>[](n \in registry /\ n \in beating /\ tomb[n] = "none")

\* A node that died is in the end forgotten, also when its last heartbeat lands
\* after its death or after a prune, as long as some pass of the reaper gets through.
GoneIsForgotten ==
    \A n \in Node :
        <>[](phase[n] = "gone") /\ <>[][~\E r \in Reaper : ReaperFails(r)]_vars =>
            <>[](n \notin registry \cup beating)

\* No task stays with a dead node, also when its in-flight set was pruned or the
\* reaper failed between marking the node and reclaiming its tasks.
GoneHoldsNothing ==
    \A n \in Node, t \in Task : phase[n] = "gone" ~> lease[t] # n
=============================================================================
