------------------------- MODULE MembershipProofs -------------------------
(* Theorems about Membership, for any nodes, tasks and reapers.             *)
EXTENDS Membership, TLAPS

\* The next node of a pass, from any call that ends the handling of one.
LEMMA NextNodeTyped ==
    ASSUME TypeOK, NEW r \in Reaper, NextNode(r)
    PROVE  /\ rpc' \in [Reaper -> {"idle", "scan", "mark", "owned", "reclaim", "since", "remove"}]
           /\ target' \in [Reaper -> Node \cup {None}]
           /\ \A q \in Reaper : rpc'[q] \in {"owned", "reclaim", "since", "remove"} => target'[q] # None
  BY DEF NextNode, TypeOK

\* The reaper never handles a node it does not know of, and a reaper in the middle
\* of a node has one: whatever fails, dies or comes back between two of its calls.
THEOREM MembershipTyped == Spec => []TypeOK
<1>1. Init => TypeOK
  BY NoneIsNoNode DEF Init, TypeOK
<1>2. TypeOK /\ [Next]_vars => TypeOK'
  <2> SUFFICES ASSUME TypeOK, [Next]_vars PROVE TypeOK'
    OBVIOUS
  <2> USE NoneIsNoNode DEF TypeOK
  <2>1. ASSUME NEW n \in Node, Beat(n) PROVE TypeOK'
    BY <2>1 DEF Beat, Announce, reapers
  <2>2. ASSUME NEW n \in Node, Lapse(n) \/ Age(n) PROVE TypeOK'
    BY <2>2 DEF Lapse, Age, nodes, reapers
  <2>3. ASSUME NEW n \in Node, Started(n) \/ Heartbeat(n) PROVE TypeOK'
    BY <2>3 DEF Started, Heartbeat, keys, reapers
  <2>4. ASSUME NEW n \in Node, NEW t \in Task, Take(n, t) \/ Finish(n, t) PROVE TypeOK'
    BY <2>4 DEF Take, Finish, reapers
  <2>5. ASSUME NEW n \in Node, Deregister(n) PROVE TypeOK'
    BY <2>5 DEF Deregister, Erase, reapers
  <2>6. ASSUME NEW n \in Node, Shutdown(n) \/ Stall(n) \/ Resume(n) PROVE TypeOK'
    BY <2>6 DEF Shutdown, Stall, Resume, keys, reapers
  <2>7. ASSUME NEW n \in Node, Crash(n) PROVE TypeOK'
    BY <2>7 DEF Crash, keys, reapers
  <2>8. ASSUME NEW r \in Reaper, ListRegistered(r) \/ ScanHeartbeats(r) \/ ReaperFails(r) PROVE TypeOK'
    BY <2>8 DEF ListRegistered, ScanHeartbeats, Silent, ReaperFails, keys, nodes
  <2>9. ASSUME NEW r \in Reaper, Mark(r) PROVE TypeOK'
    BY <2>9 DEF Mark, nodes
  <2>10. ASSUME NEW r \in Reaper, ListOwned(r) PROVE TypeOK'
    <3>1. target[r] \in Node
      BY <2>10 DEF ListOwned
    <3>2. CASE NextNode(r)
      BY <2>10, <3>1, <3>2, NextNodeTyped DEF ListOwned, keys, nodes
    <3>3. CASE rpc' = [rpc EXCEPT ![r] = "reclaim"] /\ UNCHANGED target
      BY <2>10, <3>1, <3>3 DEF ListOwned, keys, nodes
    <3> QED
      BY <2>10, <3>2, <3>3 DEF ListOwned
  <2>11. ASSUME NEW r \in Reaper, ReclaimOwned(r) PROVE TypeOK'
    <3>1. PICK t \in todo[r] : /\ todo' = [todo EXCEPT ![r] = @ \ {t}]
                               /\ EndLease(t)
                               /\ NextNode(r) \/ UNCHANGED <<rpc, target>>
      BY <2>11 DEF ReclaimOwned
    <3>2. lease' \in [Task -> Node \cup {None}] /\ inFlight' \in [Node -> SUBSET Task]
      BY <3>1 DEF EndLease
    <3>3. /\ rpc' \in [Reaper -> {"idle", "scan", "mark", "owned", "reclaim", "since", "remove"}]
          /\ target' \in [Reaper -> Node \cup {None}]
          /\ \A q \in Reaper : rpc'[q] \in {"owned", "reclaim", "since", "remove"} => target'[q] # None
      BY <3>1, NextNodeTyped
    <3> QED
      BY <2>11, <3>1, <3>2, <3>3 DEF ReclaimOwned, nodes
  <2>12. ASSUME NEW r \in Reaper, DeadSince(r) PROVE TypeOK'
    <3>1. CASE NextNode(r)
      BY <2>12, <3>1, NextNodeTyped DEF DeadSince, keys, nodes
    <3>2. CASE rpc' = [rpc EXCEPT ![r] = "remove"] /\ UNCHANGED target
      BY <2>12, <3>2 DEF DeadSince, keys, nodes
    <3> QED
      BY <2>12, <3>1, <3>2 DEF DeadSince
  <2>13. ASSUME NEW r \in Reaper, Remove(r) PROVE TypeOK'
    BY <2>13, NextNodeTyped DEF Remove, Erase, nodes
  <2>14. ASSUME NEW t \in Task, ReapExpired(t) PROVE TypeOK'
    BY <2>14 DEF ReapExpired, EndLease, nodes, reapers
  <2>15. CASE UNCHANGED vars
    BY <2>15 DEF vars, keys, nodes, reapers
  <2> QED
    BY <2>1, <2>2, <2>3, <2>4, <2>5, <2>6, <2>7, <2>8, <2>9, <2>10, <2>11, <2>12, <2>13, <2>14, <2>15
    DEF Next, NodeStep, NodeFault, ReaperStep
<1> QED
  BY <1>1, <1>2, PTL DEF Spec

\* Inductive: a node that left is in neither set and has no heartbeat under way.
Gone(n) == phase[n] = "left" => n \notin registry /\ n \notin beating /\ n \notin sent

PhaseTyped == phase \in [Node -> {"starting", "up", "draining", "left", "gone"}]

AllGone == PhaseTyped /\ \A n \in Node : Gone(n)

\* The wait for the heartbeat loop is what keeps a node that deregistered out of
\* the registry: no late heartbeat, stale reaper pass or prune brings it back.
THEOREM FarewellIsFinal == Spec => []LeavesCleanly
<1>1. Init => AllGone
  BY DEF Init, AllGone, Gone, PhaseTyped
<1>2. AllGone /\ [Next]_vars => AllGone'
  <2> SUFFICES ASSUME AllGone, [Next]_vars PROVE AllGone'
    OBVIOUS
  <2> USE DEF AllGone, Gone, PhaseTyped
  <2>1. CASE \E n \in Node : Beat(n)
    BY <2>1 DEF Beat, Announce
  <2>2. CASE \E n \in Node : Started(n)
    BY <2>2 DEF Started, keys
  <2>3. CASE \E n \in Node : Heartbeat(n)
    BY <2>3 DEF Heartbeat, keys
  <2>4. CASE \E n \in Node, t \in Task : Take(n, t) \/ Finish(n, t)
    BY <2>4 DEF Take, Finish
  <2>5. CASE \E n \in Node : Deregister(n)
    BY <2>5 DEF Deregister, Drained, Erase
  <2>6. CASE \E n \in Node : Shutdown(n)
    BY <2>6 DEF Shutdown, keys
  <2>7. CASE \E n \in Node : Stall(n) \/ Resume(n)
    BY <2>7 DEF Stall, Resume, keys
  <2>8. CASE \E n \in Node : Crash(n)
    BY <2>8 DEF Crash, keys
  <2>9. CASE \E n \in Node : Lapse(n) \/ Age(n)
    BY <2>9 DEF Lapse, Age, nodes
  <2>10. CASE \E r \in Reaper : ListRegistered(r) \/ ScanHeartbeats(r) \/ ListOwned(r)
    BY <2>10 DEF ListRegistered, ScanHeartbeats, ListOwned, keys, nodes
  <2>11. CASE \E r \in Reaper : Mark(r) \/ ReclaimOwned(r)
    BY <2>11 DEF Mark, ReclaimOwned, nodes
  <2>12. CASE \E r \in Reaper : DeadSince(r) \/ ReaperFails(r)
    BY <2>12 DEF DeadSince, ReaperFails, keys, nodes
  <2>13. CASE \E r \in Reaper : Remove(r)
    BY <2>13 DEF Remove, Erase, nodes
  <2>14. CASE \E t \in Task : ReapExpired(t)
    BY <2>14 DEF ReapExpired, nodes
  <2>15. CASE UNCHANGED vars
    BY <2>15 DEF vars, keys, nodes
  <2> QED
    BY <2>1, <2>2, <2>3, <2>4, <2>5, <2>6, <2>7, <2>8, <2>9, <2>10, <2>11, <2>12, <2>13, <2>14, <2>15
    DEF Next, NodeStep, NodeFault, ReaperStep
<1>3. AllGone => LeavesCleanly
  BY DEF AllGone, Gone, LeavesCleanly
<1> QED
  BY <1>1, <1>2, <1>3, PTL DEF Spec

\* What a running process may rely on: its entry and its key are there, no tombstone
\* was put up, and its in-flight set lists what it has leased.
Trusted(n) ==
    /\ n \in registry /\ n \in beating /\ tomb[n] = "none"
    /\ \A t \in Task : lease[t] = n => t \in inFlight[n]

\* Inductive: until its first announcement a node is unknown, and from then on every
\* scan of a pass finds its key, so that no pass gets as far as to mark it.
Unsuspected(n) ==
    /\ n \in registry \cup sent
    /\ phase[n] = "up" => n \in registry
    /\ n \in registry => n \in beating
    /\ tomb[n] = "none"
    /\ \A t \in Task : lease[t] = n => t \in inFlight[n]
    /\ \A r \in Reaper : target[r] # n /\ (n \in listed[r] => rpc[r] = "scan" /\ n \in registry)

NoneSuspected ==
    /\ TypeOK /\ stalled = {}
    /\ \A n \in Node : phase[n] \in {"starting", "up"} => Unsuspected(n)

\* The failure detector is accurate: where no node stalls, a running node is never
\* taken for dead, marked, pruned or robbed of its in-flight set, however many others
\* crash or drain beside it and wherever reapers fail in their passes.
THEOREM RunningNodesTrusted ==
    ASSUME "stall" \notin Faults
    PROVE  Spec => [](\A n \in Node : phase[n] = "up" => Trusted(n))
<1>1. Init => NoneSuspected
  BY NoneIsNoNode DEF Init, TypeOK, NoneSuspected, Unsuspected
<1>2. NoneSuspected /\ TypeOK' /\ [Next]_vars => NoneSuspected'
  <2> SUFFICES ASSUME NoneSuspected, TypeOK', [Next]_vars
               PROVE  /\ stalled' = {}
                      /\ \A n \in Node : phase'[n] \in {"starting", "up"} => Unsuspected(n)'
    BY DEF NoneSuspected
  <2> USE NoneIsNoNode DEF NoneSuspected, Unsuspected, TypeOK
  <2>1. CASE \E n \in Node : Beat(n)
    BY <2>1 DEF Beat, Announce, reapers
  <2>2. CASE \E n \in Node : Started(n)
    BY <2>2 DEF Started, keys, reapers
  <2>3. CASE \E n \in Node : Heartbeat(n)
    BY <2>3 DEF Heartbeat, keys, reapers
  <2>4. ASSUME NEW n \in Node, NEW t \in Task, Take(n, t) PROVE NoneSuspected'
    BY <2>4 DEF Take, reapers
  <2>5. ASSUME NEW n \in Node, NEW t \in Task, Finish(n, t) PROVE NoneSuspected'
    BY <2>5 DEF Finish, reapers
  <2>6. CASE \E n \in Node : Deregister(n)
    BY <2>6 DEF Deregister, Erase, reapers
  <2>7. CASE \E n \in Node : Shutdown(n)
    BY <2>7 DEF Shutdown, keys, reapers
  <2>8. CASE \E n \in Node : Stall(n) \/ Resume(n)
    BY <2>8 DEF Stall, Resume
  <2>9. CASE \E n \in Node : Crash(n)
    BY <2>9 DEF Crash, keys, reapers
  <2>10. CASE \E n \in Node : Lapse(n) \/ Age(n)
    BY <2>10 DEF Lapse, Age, nodes, reapers
  <2>11. CASE \E r \in Reaper : ListRegistered(r)
    BY <2>11 DEF ListRegistered, keys, nodes
  <2>12. CASE \E r \in Reaper : ScanHeartbeats(r)
    BY <2>12 DEF ScanHeartbeats, Silent, keys, nodes
  <2>13. ASSUME NEW r \in Reaper, Mark(r) PROVE NoneSuspected'
    BY <2>13 DEF Mark, nodes
  <2>14. ASSUME NEW r \in Reaper, ListOwned(r) PROVE NoneSuspected'
    BY <2>14 DEF ListOwned, NextNode, keys, nodes
  <2>15. ASSUME NEW r \in Reaper, ReclaimOwned(r) PROVE NoneSuspected'
    BY <2>15 DEF ReclaimOwned, EndLease, NextNode, nodes
  <2>16. CASE \E r \in Reaper : DeadSince(r) \/ ReaperFails(r)
    BY <2>16 DEF DeadSince, ReaperFails, NextNode, keys, nodes
  <2>17. ASSUME NEW r \in Reaper, Remove(r) PROVE NoneSuspected'
    BY <2>17 DEF Remove, Erase, NextNode, nodes
  <2>18. CASE \E t \in Task : ReapExpired(t)
    BY <2>18 DEF ReapExpired, EndLease, nodes, reapers
  <2>19. CASE UNCHANGED vars
    BY <2>19 DEF vars, keys, nodes, reapers
  <2> QED
    BY <2>1, <2>2, <2>3, <2>4, <2>5, <2>6, <2>7, <2>8, <2>9, <2>10, <2>11, <2>12, <2>13,
       <2>14, <2>15, <2>16, <2>17, <2>18, <2>19
    DEF Next, NodeStep, NodeFault, ReaperStep
<1>3. NoneSuspected => \A n \in Node : phase[n] = "up" => Trusted(n)
  BY DEF NoneSuspected, Unsuspected, Trusted
<1> QED
  BY <1>1, <1>2, <1>3, MembershipTyped, PTL DEF Spec
=============================================================================
