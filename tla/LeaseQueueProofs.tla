------------------------- MODULE LeaseQueueProofs -------------------------
(* Theorems about LeaseQueue, for every value of the constants.             *)
EXTENDS LeaseQueue, TLAPS

USE DEF redis, worker, reaper, admin

\* What the scripts write of a record keeps its type.
LEMMA RecordTyped ==
    ASSUME NEW r \in Record, NEW s \in Status, NEW n \in Node \cup {None}
    PROVE  [r EXCEPT !.status = s, !.owner = n] \in Record
BY DEF Record

\* A worker that is done with a task, and one that leases one.
LEMMA IdleTyped ==
    ASSUME TypeOK, NEW w \in Worker, Idle(w)
    PROVE  /\ wpc' \in [Worker -> {"idle", "hydrate", "work", "ack", "nack", "save",
                                   "schedule", "bury", "dead"}]
           /\ held' \in [Worker -> Copy]
           /\ \A v \in Worker : wpc'[v] \notin {"idle", "dead"} => held'[v].id \in Task
<1>1. NoCopy \in Copy
  BY TypesOfConstants DEF NoCopy, Copy
<1> QED
  BY <1>1 DEF Idle, TypeOK

LEMMA LeaseTyped ==
    ASSUME TypeOK, NEW w \in Worker, NEW t \in Best, Lease(w, t)
    PROVE  /\ rec' \in [Task -> Record] /\ nodeTasks' \in [Node -> SUBSET Task]
           /\ holder' \in [Task -> Worker \cup {None}]
           /\ ready' \subseteq Task /\ processing' \subseteq Task /\ expired' \subseteq processing'
<1>1. t \in Task
  BY DEF TypeOK, Best
<1>2. rec' \in [Task -> Record]
  <2>1. rec[t] \in Record /\ NodeOf[w] \in Node
    BY <1>1, TypesOfConstants DEF TypeOK
  <2>2. [rec[t] EXCEPT !.status = "processing", !.owner = NodeOf[w]] \in Record
    BY <2>1, RecordTyped DEF Status
  <2>3. rec' = [rec EXCEPT ![t] = [rec[t] EXCEPT !.status = "processing", !.owner = NodeOf[w]]]
    BY <1>1 DEF TypeOK, Lease
  <2> QED
    BY <1>1, <2>2, <2>3 DEF TypeOK
<1> QED
  BY <1>1, <1>2, TypesOfConstants DEF TypeOK, Lease

\* Every reachable state is well typed; no retry counter passes max_retries.
THEOREM TypeCorrect == Spec => []TypeOK
<1>1. Init => TypeOK
  BY TypesOfConstants DEF Init, TypeOK, Record, Status, Absent, Copy, NoCopy, Entry, NoEntry
<1>2. TypeOK /\ [Next]_vars => TypeOK'
  <2> SUFFICES ASSUME TypeOK, [Next]_vars PROVE TypeOK'
    OBVIOUS
  <2> USE TypesOfConstants DEF TypeOK, Record, Status, Absent, Fresh, Copy, NoCopy, Entry, NoEntry
  <2>1. ASSUME NEW c \in Client, SubmitExists(c) PROVE TypeOK'
    BY <2>1 DEF SubmitExists
  <2>2. ASSUME NEW c \in Client, SubmitSave(c) PROVE TypeOK'
    BY <2>2 DEF SubmitSave
  <2>3. ASSUME NEW c \in Client, SubmitEnqueue(c) PROVE TypeOK'
    BY <2>3 DEF SubmitEnqueue
  <2>4. ASSUME NEW c \in Client, SubmitSchedule(c) PROVE TypeOK'
    BY <2>4 DEF SubmitSchedule
  <2>5. ASSUME NEW c \in Client, SubmitFails(c) PROVE TypeOK'
    BY <2>5 DEF SubmitFails
  <2>6. ASSUME NEW t \in Task, Promote(t) PROVE TypeOK'
    BY <2>6 DEF Promote
  <2>7. ASSUME NEW t \in Task, Expire(t) PROVE TypeOK'
    BY <2>7 DEF Expire
  <2>8. ASSUME NEW w \in Worker, Dequeue(w) PROVE TypeOK'
    <3>1. PICK t \in Best : Lease(w, t) /\ held' = [held EXCEPT ![w] = [NoCopy EXCEPT !.id = t]]
      BY <2>8 DEF Dequeue
    <3>0. t \in Task
      BY DEF Best
    <3>2. [NoCopy EXCEPT !.id = t] \in Copy /\ [NoCopy EXCEPT !.id = t].id = t
      BY <3>0
    <3>3. held' \in [Worker -> Copy] /\ held'[w].id = t /\ \A v \in Worker \ {w} : held'[v] = held[v]
      BY <3>1, <3>2
    <3>4. wpc' = [wpc EXCEPT ![w] = "hydrate"] /\ UNCHANGED <<delayed, dlq, reaper, cpc, admin, dropped>>
      BY <2>8 DEF Dequeue
    <3> QED
      BY <3>0, <3>1, <3>3, <3>4, LeaseTyped
  <2>9. ASSUME NEW w \in Worker, Hydrate(w) PROVE TypeOK'
    BY <2>9 DEF Hydrate
  <2>10. ASSUME NEW w \in Worker, Work(w) PROVE TypeOK'
    BY <2>10 DEF Work
  <2>11. ASSUME NEW w \in Worker, Ack(w) PROVE TypeOK'
    <3>1. held[w].id \in Task
      BY <2>11 DEF Ack
    <3>2. [rec[held[w].id] EXCEPT !.status = "completed", !.owner = None] \in Record
      <4>1. rec[held[w].id] \in Record
        BY <3>1
      <4> HIDE DEF TypeOK, Record, Copy
      <4> QED
        BY <4>1, RecordTyped
    <3>3. rec' = [rec EXCEPT ![held[w].id] = [@ EXCEPT !.status = "completed", !.owner = None]]
      BY <2>11, <3>1 DEF Ack
    <3>4. rec' \in [Task -> Record]
      BY <3>1, <3>2, <3>3
    <3> QED
      BY <2>11, <3>1, <3>4, IdleTyped DEF Ack, Unlease
  <2>12. ASSUME NEW w \in Worker, Nack(w) PROVE TypeOK'
    BY <2>12 DEF Nack, LeaseHeld, Unlease
  <2>13. ASSUME NEW w \in Worker, LeaseNotHeld(w) PROVE TypeOK'
    BY <2>13, IdleTyped DEF LeaseNotHeld
  <2>14. CASE \E w \in Worker : SaveRetry(w)
    <3> PICK w \in Worker : SaveRetry(w)
      BY <2>14
    <3>1. held[w] \in Copy /\ held[w].id \in Task
      BY DEF SaveRetry
    <3>2. held[w].retries + 1 \in 0..MaxRetries
      BY <3>1 DEF SaveRetry, CanRetry
    <3>3. held' \in [Worker -> Copy] /\ \A v \in Worker : held'[v].id = held[v].id
      BY <3>1, <3>2 DEF SaveRetry
    <3>4. rec' \in [Task -> Record]
      BY <3>1, <3>2 DEF SaveRetry
    <3> QED
      BY <3>1, <3>3, <3>4 DEF SaveRetry
  <2>15. CASE \E w \in Worker : SaveFailed(w)
    <3> PICK w \in Worker : SaveFailed(w)
      BY <2>15
    <3>1. held[w] \in Copy /\ held[w].id \in Task
      BY DEF SaveFailed
    <3>2. rec' \in [Task -> Record]
      BY <3>1 DEF SaveFailed
    <3> QED
      BY <3>1, <3>2 DEF SaveFailed
  <2>16. ASSUME NEW w \in Worker, ScheduleRetry(w) PROVE TypeOK'
    BY <2>16, IdleTyped DEF ScheduleRetry
  <2>17. ASSUME NEW w \in Worker, Bury(w) PROVE TypeOK'
    <3>1. held[w] \in Copy /\ held[w].id \in Task
      BY <2>17 DEF Bury
    <3>2. dlq' \subseteq Entry /\ \A e \in dlq' : e.id \in Task
      BY <2>17, <3>1 DEF Bury
    <3> QED
      BY <2>17, <3>2, IdleTyped DEF Bury
  <2>18. ASSUME NEW w \in Worker, DequeueReplyLost(w) PROVE TypeOK'
    BY <2>18, LeaseTyped DEF DequeueReplyLost
  <2>19. ASSUME NEW w \in Worker, CallFails(w) PROVE TypeOK'
    BY <2>19, IdleTyped DEF CallFails
  <2>20. ASSUME NEW w \in Worker, NackReplyLost(w) PROVE TypeOK'
    <3>1. held[w].id \in Task /\ rec' \in [Task -> Record]
      BY <2>20 DEF NackReplyLost
    <3> QED
      BY <2>20, <3>1, IdleTyped DEF NackReplyLost, Unlease, Drop
  <2>21. CASE \E w \in Worker : SaveFails(w)
    <3> PICK w \in Worker : SaveFails(w)
      BY <2>21
    <3>1. held[w] \in Copy /\ held[w].id \in Task
      BY DEF SaveFails
    <3>2. held' \in [Worker -> Copy] /\ \A v \in Worker : held'[v].id = held[v].id
      <4>1. CASE CanRetry(held[w].retries)
        <5>1. held[w].retries + 1 \in 0..MaxRetries
          BY <3>1, <4>1 DEF CanRetry
        <5>2. held' = [held EXCEPT ![w].retries = @ + 1]
          BY <4>1, Zenon DEF SaveFails
        <5> QED
          BY <3>1, <5>1, <5>2
      <4>2. CASE ~CanRetry(held[w].retries)
        BY <4>2 DEF SaveFails
      <4> QED
        BY <4>1, <4>2
    <3>3. wpc' = [wpc EXCEPT ![w] = "schedule"] \/ wpc' = [wpc EXCEPT ![w] = "bury"]
      BY DEF SaveFails
    <3>4. UNCHANGED <<redis, reaper, cpc, admin, dropped, holder>>
      BY DEF SaveFails
    <3>5. \A v \in Worker : wpc'[v] \notin {"idle", "dead"} => held'[v].id \in Task
      <4>1. \A v \in Worker : v = w \/ wpc'[v] = wpc[v]
        BY <3>3
      <4> QED
        BY <3>1, <3>2, <4>1
    <3>6. wpc' \in [Worker -> {"idle", "hydrate", "work", "ack", "nack", "save",
                              "schedule", "bury", "dead"}]
      BY <3>3
    <3> QED
      BY <3>2, <3>4, <3>5, <3>6
  <2>22. ASSUME NEW w \in Worker, RouteFails(w) PROVE TypeOK'
    BY <2>22, IdleTyped DEF RouteFails, Drop
  <2>41. ASSUME NEW w \in Worker, DrainTimeout(w) PROVE TypeOK'
    BY <2>41, IdleTyped DEF DrainTimeout, Routing
  <2>23. ASSUME NEW r \in Reaper, ScanLeases(r) PROVE TypeOK'
    BY <2>23 DEF ScanLeases, Scan
  <2>24. ASSUME NEW r \in Reaper, ReaperGet(r) PROVE TypeOK'
    BY <2>24 DEF ReaperGet
  <2>25. ASSUME NEW r \in Reaper, LostRace(r) PROVE TypeOK'
    BY <2>25 DEF LostRace, NextId
  <2>26. ASSUME NEW r \in Reaper, Reclaim(r) PROVE TypeOK'
    BY <2>26 DEF Reclaim, CanRetry, Unlease, NextId
  <2>27. CASE \E r \in Reaper : DeadLetter(r)
    <3> PICK r \in Reaper : DeadLetter(r)
      BY <2>27
    <3>1. snap[r].id \in Task /\ rec[snap[r].id] \in Record
      BY DEF DeadLetter
    <3>2. MarkFailed(rec[snap[r].id]) \in Record
      BY <3>1 DEF MarkFailed
    <3>3. rec' \in [Task -> Record]
      BY <3>1, <3>2 DEF DeadLetter
    <3> QED
      BY <3>1, <3>3 DEF DeadLetter, Unlease
  <2>28. ASSUME NEW r \in Reaper, ReaperPush(r) PROVE TypeOK'
    BY <2>28 DEF ReaperPush, NextId
  <2>29. ASSUME NEW r \in Reaper, CrashReaper(r) PROVE TypeOK'
    BY <2>29 DEF CrashReaper
  <2>30. ASSUME NEW r \in Reaper, ReaperCallFails(r) PROVE TypeOK'
    BY <2>30 DEF ReaperCallFails, NextId
  <2>31. ASSUME NEW r \in Reaper, NEW n \in Node, ScanNode(r, n) PROVE TypeOK'
    BY <2>31 DEF ScanNode, Scan
  <2>32. CASE \E n \in Node : CrashNode(n)
    <3> PICK n \in Node : CrashNode(n)
      BY <2>32
    <3>1. /\ wpc' = [w \in Worker |-> IF NodeOf[w] = n THEN "dead" ELSE wpc[w]]
          /\ held' = [w \in Worker |-> IF NodeOf[w] = n THEN NoCopy ELSE held[w]]
      BY Zenon DEF CrashNode
    <3>2. dropped' \subseteq Task
      BY DEF CrashNode, Routing
    <3>3. NoCopy \in Copy
      OBVIOUS
    <3>4. held' \in [Worker -> Copy]
      BY <3>1, <3>3
    <3>5. \A w \in Worker : wpc'[w] \notin {"idle", "dead"} => held'[w].id \in Task
      BY <3>1
    <3> QED
      BY <3>1, <3>2, <3>4, <3>5 DEF CrashNode
  <2>33. ASSUME NEW n \in Node, PruneNode(n) PROVE TypeOK'
    BY <2>33 DEF PruneNode
  <2>34. ASSUME NEW a \in Admin, DrainPop(a) PROVE TypeOK'
    BY <2>34 DEF DrainPop
  <2>35. ASSUME NEW a \in Admin, DrainEnd(a) PROVE TypeOK'
    BY <2>35 DEF DrainEnd
  <2>36. ASSUME NEW a \in Admin, RedriveSave(a) PROVE TypeOK'
    BY <2>36 DEF RedriveSave
  <2>37. ASSUME NEW a \in Admin, RedriveEnqueue(a) PROVE TypeOK'
    BY <2>37 DEF RedriveEnqueue, NextEntry
  <2>38. ASSUME NEW a \in Admin, RedriveFails(a) PROVE TypeOK'
    BY <2>38 DEF RedriveFails
  <2>39. ASSUME NEW a \in Admin, RedriveSkips(a) PROVE TypeOK'
    BY <2>39 DEF RedriveSkips, NextEntry, Drop
  <2>40. CASE UNCHANGED vars
    BY <2>40 DEF vars
  <2> QED
    BY <2>1, <2>2, <2>3, <2>4, <2>5, <2>6, <2>7, <2>8, <2>9, <2>10, <2>11, <2>12, <2>13, <2>14,
       <2>15, <2>16, <2>17, <2>18, <2>19, <2>20, <2>21, <2>22, <2>23, <2>24, <2>25, <2>26, <2>27,
       <2>28, <2>29, <2>30, <2>31, <2>32, <2>33, <2>34, <2>35, <2>36, <2>37, <2>38, <2>39, <2>40, <2>41
    DEF Next, SubmitStep, WorkerStep, WorkerFault, ReaperStep, RedriveStep
<1> QED
  BY <1>1, <1>2, PTL DEF Spec

-----------------------------------------------------------------------------
\* A task that is not finished is in a structure, in a live process's hands, or
\* was in the hands of a process that failed: no interleaving loses one.
THEOREM TasksConserved == Spec => []Conservation
<1>1. Init => Conservation
  BY DEF Init, Conservation, Absent
<1>2. TypeOK /\ Conservation /\ [Next]_vars => Conservation'
  <2> SUFFICES ASSUME TypeOK, Conservation, [Next]_vars PROVE Conservation'
    OBVIOUS
  <2> SUFFICES ASSUME NEW t \in Task, rec'[t].status \notin {"none", "completed"}
               PROVE  Somewhere(t)'
    BY DEF Conservation
  <2> USE TypesOfConstants DEF TypeOK, Record, Copy, Entry
  <2>1. ASSUME NEW c \in Client, SubmitExists(c) PROVE Somewhere(t)'
    BY <2>1 DEF Conservation, Somewhere, Carried, Buried, Routing, SubmitExists
  <2>2. CASE \E c \in Client : SubmitSave(c)
    <3> PICK c \in Client : SubmitSave(c)
      BY <2>2
    <3>1. CASE t = IdOf[c]
      BY <3>1 DEF SubmitSave, Fresh, Somewhere, Carried, Buried, Routing
    <3>2. CASE t # IdOf[c]
      <4>1. rec'[t] = rec[t]
        BY <3>2 DEF SubmitSave, Fresh
      <4>2. Somewhere(t)
        BY <4>1 DEF Conservation
      <4>3. Carried(t) => Carried(t)'
        BY <3>2 DEF SubmitSave, Fresh, Carried, Routing
      <4> QED
        BY <3>2, <4>2, <4>3 DEF SubmitSave, Fresh, Somewhere, Buried
    <3> QED
      BY <3>1, <3>2
  <2>3. ASSUME NEW c \in Client, SubmitEnqueue(c) PROVE Somewhere(t)'
    BY <2>3 DEF Conservation, Somewhere, Carried, Buried, Routing, SubmitEnqueue
  <2>4. ASSUME NEW c \in Client, SubmitSchedule(c) PROVE Somewhere(t)'
    BY <2>4 DEF Conservation, Somewhere, Carried, Buried, Routing, SubmitSchedule
  <2>5. ASSUME NEW c \in Client, SubmitFails(c) PROVE Somewhere(t)'
    BY <2>5 DEF Conservation, Somewhere, Carried, Buried, Routing, SubmitFails
  <2>6. ASSUME NEW u \in Task, Promote(u) PROVE Somewhere(t)'
    BY <2>6 DEF Conservation, Somewhere, Carried, Buried, Routing, Promote
  <2>7. ASSUME NEW u \in Task, Expire(u) PROVE Somewhere(t)'
    BY <2>7 DEF Conservation, Somewhere, Carried, Buried, Routing, Expire
  <2>8. CASE \E w \in Worker : Dequeue(w)
    <3> PICK w \in Worker, x \in Best : Lease(w, x) /\ Dequeue(w)
      BY <2>8 DEF Dequeue
    <3>1. CASE t = x
      BY <3>1 DEF Lease, Best, Somewhere
    <3>2. CASE t # x
      <4>1. rec'[t] = rec[t]
        BY <3>2 DEF Lease
      <4>2. Somewhere(t)
        BY <4>1 DEF Conservation
      <4>3. Carried(t) => Carried(t)'
        BY DEF Dequeue, Carried, Routing
      <4>4. UNCHANGED <<delayed, dlq, dropped>>
        BY DEF Dequeue
      <4> QED
        BY <3>2, <4>2, <4>3, <4>4 DEF Lease, Somewhere, Buried
    <3> QED
      BY <3>1, <3>2
  <2>9. ASSUME NEW w \in Worker, Hydrate(w) PROVE Somewhere(t)'
    BY <2>9 DEF Conservation, Somewhere, Carried, Buried, Routing, Hydrate
  <2>10. ASSUME NEW w \in Worker, Work(w) PROVE Somewhere(t)'
    BY <2>10 DEF Conservation, Somewhere, Carried, Buried, Routing, Work
  <2>11. ASSUME NEW w \in Worker, Ack(w) PROVE Somewhere(t)'
    <3>0. held[w].id \in Task
      BY <2>11 DEF Ack
    <3>1. held[w].id # t /\ rec'[t] = rec[t]
      BY <2>11, <3>0 DEF Ack
    <3>2. Somewhere(t)
      BY <3>1 DEF Conservation
    <3>3. Carried(t) => Carried(t)'
      BY <2>11, <3>0, <3>1 DEF Ack, Idle, Carried, Routing
    <3> QED
      BY <2>11, <3>0, <3>1, <3>2, <3>3 DEF Ack, Unlease, Somewhere, Buried
  <2>12. CASE \E w \in Worker : Nack(w)
    <3> PICK w \in Worker : Nack(w)
      BY <2>12
    <3>1. CASE t = held[w].id
      BY <3>1 DEF Nack, LeaseHeld, Unlease, Somewhere, Carried, Buried, Routing
    <3>2. CASE t # held[w].id
      <4>1. rec'[t] = rec[t]
        BY <3>2 DEF Nack, LeaseHeld, Unlease
      <4>2. Somewhere(t)
        BY <4>1 DEF Conservation
      <4>3. Carried(t) => Carried(t)'
        BY <3>2 DEF Nack, LeaseHeld, Unlease, Carried, Routing
      <4> QED
        BY <3>2, <4>2, <4>3 DEF Nack, LeaseHeld, Unlease, Somewhere, Buried
    <3> QED
      BY <3>1, <3>2
  <2>13. ASSUME NEW w \in Worker, LeaseNotHeld(w) PROVE Somewhere(t)'
    BY <2>13 DEF Conservation, Somewhere, Carried, Buried, Routing, LeaseNotHeld, Idle
  <2>14. CASE \E w \in Worker : SaveRetry(w)
    <3> PICK w \in Worker : SaveRetry(w)
      BY <2>14
    <3>1. CASE t = held[w].id
      BY <3>1 DEF SaveRetry, CanRetry, Somewhere, Carried, Buried, Routing
    <3>2. CASE t # held[w].id
      <4>1. rec'[t] = rec[t]
        BY <3>2 DEF SaveRetry, CanRetry
      <4>2. Somewhere(t)
        BY <4>1 DEF Conservation
      <4>3. Carried(t) => Carried(t)'
        BY <3>2 DEF SaveRetry, CanRetry, Carried, Routing
      <4> QED
        BY <3>2, <4>2, <4>3 DEF SaveRetry, CanRetry, Somewhere, Buried
    <3> QED
      BY <3>1, <3>2
  <2>15. CASE \E w \in Worker : SaveFailed(w)
    <3> PICK w \in Worker : SaveFailed(w)
      BY <2>15
    <3>1. CASE t = held[w].id
      BY <3>1 DEF SaveFailed, CanRetry, Somewhere, Carried, Buried, Routing
    <3>2. CASE t # held[w].id
      <4>1. rec'[t] = rec[t]
        BY <3>2 DEF SaveFailed, CanRetry
      <4>2. Somewhere(t)
        BY <4>1 DEF Conservation
      <4>3. Carried(t) => Carried(t)'
        BY <3>2 DEF SaveFailed, CanRetry, Carried, Routing
      <4> QED
        BY <3>2, <4>2, <4>3 DEF SaveFailed, CanRetry, Somewhere, Buried
    <3> QED
      BY <3>1, <3>2
  <2>16. ASSUME NEW w \in Worker, ScheduleRetry(w) PROVE Somewhere(t)'
    BY <2>16 DEF Conservation, Somewhere, Carried, Buried, Routing, ScheduleRetry, Idle
  <2>17. CASE \E w \in Worker : Bury(w)
    <3> PICK w \in Worker : Bury(w)
      BY <2>17
    <3>1. CASE t = held[w].id
      <4> DEFINE e == [id |-> held[w].id, owner |-> held[w].owner]
      <4>1. e \in dlq' /\ e.id = t
        BY <3>1 DEF Bury
      <4> QED
        BY <4>1 DEF Buried, Somewhere
    <3>2. CASE t # held[w].id
      <4>1. rec'[t] = rec[t]
        BY <3>2 DEF Bury, Idle
      <4>2. Somewhere(t)
        BY <4>1 DEF Conservation
      <4>3. Carried(t) => Carried(t)'
        BY <3>2 DEF Bury, Idle, Carried, Routing
      <4> QED
        BY <3>2, <4>2, <4>3 DEF Bury, Idle, Somewhere, Buried
    <3> QED
      BY <3>1, <3>2
  <2>18. CASE \E w \in Worker : DequeueReplyLost(w)
    <3> PICK w \in Worker, x \in Best : Lease(w, x) /\ DequeueReplyLost(w)
      BY <2>18 DEF DequeueReplyLost
    <3>1. CASE t = x
      BY <3>1 DEF Lease, Best, Somewhere
    <3>2. CASE t # x
      <4>1. rec'[t] = rec[t]
        BY <3>2 DEF Lease
      <4>2. Somewhere(t)
        BY <4>1 DEF Conservation
      <4>3. Carried(t) => Carried(t)'
        BY DEF DequeueReplyLost, Carried, Routing
      <4>4. UNCHANGED <<delayed, dlq, dropped>>
        BY DEF DequeueReplyLost
      <4> QED
        BY <3>2, <4>2, <4>3, <4>4 DEF Lease, Somewhere, Buried
    <3> QED
      BY <3>1, <3>2
  <2>19. ASSUME NEW w \in Worker, CallFails(w) PROVE Somewhere(t)'
    BY <2>19 DEF Conservation, Somewhere, Carried, Buried, Routing, CallFails, Idle
  <2>20. CASE \E w \in Worker : NackReplyLost(w)
    <3> PICK w \in Worker : NackReplyLost(w)
      BY <2>20
    <3>1. CASE t = held[w].id
      BY <3>1 DEF NackReplyLost, LeaseHeld, Unlease, Drop, Idle, Somewhere, Carried, Buried, Routing
    <3>2. CASE t # held[w].id
      <4>1. rec'[t] = rec[t]
        BY <3>2 DEF NackReplyLost, LeaseHeld, Unlease, Drop, Idle
      <4>2. Somewhere(t)
        BY <4>1 DEF Conservation
      <4>3. Carried(t) => Carried(t)'
        BY <3>2 DEF NackReplyLost, LeaseHeld, Unlease, Drop, Idle, Carried, Routing
      <4> QED
        BY <3>2, <4>2, <4>3 DEF NackReplyLost, LeaseHeld, Unlease, Drop, Idle, Somewhere, Buried
    <3> QED
      BY <3>1, <3>2
  <2>21. CASE \E w \in Worker : SaveFails(w)
    <3> PICK w \in Worker : SaveFails(w)
      BY <2>21
    <3>1. CASE t = held[w].id
      BY <3>1 DEF SaveFails, CanRetry, Somewhere, Carried, Buried, Routing
    <3>2. CASE t # held[w].id
      <4>1. rec'[t] = rec[t]
        BY <3>2 DEF SaveFails, CanRetry
      <4>2. Somewhere(t)
        BY <4>1 DEF Conservation
      <4>3. Carried(t) => Carried(t)'
        BY <3>2 DEF SaveFails, CanRetry, Carried, Routing
      <4> QED
        BY <3>2, <4>2, <4>3 DEF SaveFails, CanRetry, Somewhere, Buried
    <3> QED
      BY <3>1, <3>2
  <2>22. ASSUME NEW w \in Worker, RouteFails(w) PROVE Somewhere(t)'
    BY <2>22 DEF Conservation, Somewhere, Carried, Buried, Routing, RouteFails, Drop, Idle
  <2>41. ASSUME NEW w \in Worker, DrainTimeout(w) PROVE Somewhere(t)'
    BY <2>41 DEF Conservation, Somewhere, Carried, Buried, Routing, DrainTimeout, Idle
  <2>23. ASSUME NEW r \in Reaper, ScanLeases(r) PROVE Somewhere(t)'
    BY <2>23 DEF Conservation, Somewhere, Carried, Buried, Routing, ScanLeases, Scan
  <2>24. ASSUME NEW r \in Reaper, ReaperGet(r) PROVE Somewhere(t)'
    BY <2>24 DEF Conservation, Somewhere, Carried, Buried, Routing, ReaperGet
  <2>25. ASSUME NEW r \in Reaper, LostRace(r) PROVE Somewhere(t)'
    BY <2>25 DEF Conservation, Somewhere, Carried, Buried, Routing, LostRace, NextId
  <2>26. CASE \E r \in Reaper : Reclaim(r)
    <3> PICK r \in Reaper : Reclaim(r)
      BY <2>26
    <3>1. CASE t = snap[r].id
      BY <3>1 DEF Reclaim, CanRetry, Unlease, NextId, Somewhere, Carried, Buried, Routing
    <3>2. CASE t # snap[r].id
      <4>1. rec'[t] = rec[t]
        BY <3>2 DEF Reclaim, CanRetry, Unlease, NextId
      <4>2. Somewhere(t)
        BY <4>1 DEF Conservation
      <4>3. Carried(t) => Carried(t)'
        BY <3>2 DEF Reclaim, CanRetry, Unlease, NextId, Carried, Routing
      <4> QED
        BY <3>2, <4>2, <4>3 DEF Reclaim, CanRetry, Unlease, NextId, Somewhere, Buried
    <3> QED
      BY <3>1, <3>2
  <2>27. CASE \E r \in Reaper : DeadLetter(r)
    <3> PICK r \in Reaper : DeadLetter(r)
      BY <2>27
    <3>1. CASE t = snap[r].id
      BY <3>1 DEF DeadLetter, CanRetry, Unlease, MarkFailed, Somewhere, Carried, Buried, Routing
    <3>2. CASE t # snap[r].id
      <4>1. rec'[t] = rec[t]
        BY <3>2 DEF DeadLetter, CanRetry, Unlease, MarkFailed
      <4>2. Somewhere(t)
        BY <4>1 DEF Conservation
      <4>3. Carried(t) => Carried(t)'
        BY <3>2 DEF DeadLetter, CanRetry, Unlease, MarkFailed, Carried, Routing
      <4> QED
        BY <3>2, <4>2, <4>3 DEF DeadLetter, CanRetry, Unlease, MarkFailed, Somewhere, Buried
    <3> QED
      BY <3>1, <3>2
  <2>28. ASSUME NEW r \in Reaper, ReaperPush(r) PROVE Somewhere(t)'
    BY <2>28 DEF Conservation, Somewhere, Carried, Buried, Routing, ReaperPush, NextId
  <2>29. ASSUME NEW r \in Reaper, CrashReaper(r) PROVE Somewhere(t)'
    BY <2>29 DEF Conservation, Somewhere, Carried, Buried, Routing, CrashReaper
  <2>30. ASSUME NEW r \in Reaper, ReaperCallFails(r) PROVE Somewhere(t)'
    BY <2>30 DEF Conservation, Somewhere, Carried, Buried, Routing, ReaperCallFails, NextId
  <2>31. ASSUME NEW r \in Reaper, NEW n \in Node, ScanNode(r, n) PROVE Somewhere(t)'
    BY <2>31 DEF Conservation, Somewhere, Carried, Buried, Routing, ScanNode, Scan
  <2>32. CASE \E n \in Node : CrashNode(n)
    <3> PICK n \in Node : CrashNode(n)
      BY <2>32
    <3>1. UNCHANGED <<redis, reaper, cpc, admin>> /\ dropped \subseteq dropped'
      BY DEF CrashNode
    <3>2. Somewhere(t)
      BY <3>1 DEF Conservation
    <3>3. ASSUME NEW w \in Worker, Routing(w), held[w].id = t
          PROVE  t \in dropped' \/ Carried(t)'
      <4>1. CASE NodeOf[w] = n
        BY <3>3, <4>1 DEF CrashNode
      <4>2. CASE NodeOf[w] # n
        <5>1. wpc'[w] = wpc[w] /\ held'[w] = held[w]
          BY <4>2 DEF CrashNode
        <5> QED
          BY <3>3, <5>1 DEF Routing, Carried
      <4> QED
        BY <4>1, <4>2
    <3>4. Carried(t) => t \in dropped' \/ Carried(t)'
      BY <3>1, <3>3 DEF Carried
    <3> QED
      BY <3>1, <3>2, <3>4 DEF Somewhere, Buried
  <2>33. ASSUME NEW n \in Node, PruneNode(n) PROVE Somewhere(t)'
    BY <2>33 DEF Conservation, Somewhere, Carried, Buried, Routing, PruneNode
  <2>34. CASE \E a \in Admin : DrainPop(a)
    <3> PICK a \in Admin, e \in dlq :
               /\ DrainPop(a)
               /\ dlq' = dlq \ {e}
               /\ batch' = [batch EXCEPT ![a] = @ \cup {e}]
      BY <2>34 DEF DrainPop
    <3>1. UNCHANGED <<rec, ready, delayed, processing, worker, reaper, cpc, dropped>>
      BY DEF DrainPop
    <3>2. Somewhere(t)
      BY <3>1 DEF Conservation
    <3>3. Carried(t) => Carried(t)'
      BY <3>1 DEF Carried, Routing
    <3>4. Buried(t) => Buried(t)' \/ Carried(t)'
      BY DEF Buried, Carried
    <3> QED
      BY <3>1, <3>2, <3>3, <3>4 DEF Somewhere
  <2>35. ASSUME NEW a \in Admin, DrainEnd(a) PROVE Somewhere(t)'
    BY <2>35 DEF Conservation, Somewhere, Carried, Buried, Routing, DrainEnd
  <2>36. CASE \E a \in Admin : RedriveSave(a)
    <3> PICK a \in Admin : RedriveSave(a)
      BY <2>36
    <3> PICK e \in batch[a] : rec' = [rec EXCEPT ![e.id] = [Fresh EXCEPT !.owner = e.owner]]
      BY DEF RedriveSave
    <3>1. UNCHANGED <<ready, delayed, processing, dlq, worker, reaper, cpc, batch, dropped>>
      BY DEF RedriveSave
    <3>2. Carried(t) => Carried(t)'
      BY <3>1 DEF Carried, Routing
    <3>3. CASE t = e.id
      BY <3>2, <3>3 DEF Somewhere, Carried
    <3>4. CASE t # e.id
      <4>1. rec'[t] = rec[t]
        BY <3>4
      <4>2. Somewhere(t)
        BY <4>1 DEF Conservation
      <4> QED
        BY <3>1, <3>2, <4>2 DEF Somewhere, Buried
    <3> QED
      BY <3>3, <3>4
  <2>37. CASE \E a \in Admin : RedriveEnqueue(a)
    <3> PICK a \in Admin : RedriveEnqueue(a)
      BY <2>37
    <3>1. CASE t = cur[a].id
      BY <3>1 DEF RedriveEnqueue, NextEntry, Somewhere, Carried, Buried, Routing
    <3>2. CASE t # cur[a].id
      <4>1. rec'[t] = rec[t]
        BY <3>2 DEF RedriveEnqueue, NextEntry
      <4>2. Somewhere(t)
        BY <4>1 DEF Conservation
      <4>3. Carried(t) => Carried(t)'
        BY <3>2 DEF RedriveEnqueue, NextEntry, Carried, Routing
      <4> QED
        BY <3>2, <4>2, <4>3 DEF RedriveEnqueue, NextEntry, Somewhere, Buried
    <3> QED
      BY <3>1, <3>2
  <2>38. CASE \E a \in Admin : RedriveFails(a)
    <3> PICK a \in Admin : RedriveFails(a)
      BY <2>38
    <3>1. /\ UNCHANGED <<redis, worker, reaper, cpc>>
          /\ batch' = [batch EXCEPT ![a] = {}]
          /\ dropped' = dropped \cup {e.id : e \in batch[a]}
      BY DEF RedriveFails
    <3>2. Somewhere(t)
      BY <3>1 DEF Conservation
    <3>3. Carried(t) => t \in dropped' \/ Carried(t)'
      BY <3>1 DEF Carried, Routing
    <3> QED
      BY <3>1, <3>2, <3>3 DEF Somewhere, Buried
  <2>39. CASE \E a \in Admin : RedriveSkips(a)
    <3> PICK a \in Admin : RedriveSkips(a)
      BY <2>39
    <3> PICK e \in batch[a] : Drop(e.id) /\ NextEntry(a, e)
      BY DEF RedriveSkips
    <3>1. /\ UNCHANGED <<redis, worker, reaper, cpc>>
          /\ batch' = [batch EXCEPT ![a] = @ \ {e}]
          /\ dropped' = dropped \cup {e.id}
      BY DEF RedriveSkips, Drop, NextEntry
    <3>2. Somewhere(t)
      BY <3>1 DEF Conservation
    <3>3. Carried(t) => t \in dropped' \/ Carried(t)'
      BY <3>1 DEF Carried, Routing
    <3> QED
      BY <3>1, <3>2, <3>3 DEF Somewhere, Buried
  <2>40. CASE UNCHANGED vars
    BY <2>40 DEF vars, Conservation, Somewhere, Carried, Buried, Routing
  <2> QED
    BY <2>1, <2>2, <2>3, <2>4, <2>5, <2>6, <2>7, <2>8, <2>9, <2>10, <2>11, <2>12, <2>13, <2>14,
       <2>15, <2>16, <2>17, <2>18, <2>19, <2>20, <2>21, <2>22, <2>23, <2>24, <2>25, <2>26, <2>27,
       <2>28, <2>29, <2>30, <2>31, <2>32, <2>33, <2>34, <2>35, <2>36, <2>37, <2>38, <2>39, <2>40, <2>41
    DEF Next, SubmitStep, WorkerStep, WorkerFault, ReaperStep, RedriveStep
<1> QED
  BY <1>1, <1>2, TypeCorrect, PTL DEF Spec

\* No call of the code removes a record, but for FlushData: a request that has saved
\* its task finds it recorded ever after.
Recorded == \A c \in Client : cpc[c] \in {"queue", "created"} => rec[IdOf[c]].status # "none"

LEMMA RecordsRemain ==
    ASSUME TypeOK, [Next]_vars, NEW t \in Task, rec[t].status # "none"
    PROVE  rec'[t].status # "none"
<1> USE TypesOfConstants DEF TypeOK, Record
<1>1. CASE UNCHANGED rec
  BY <1>1
<1>2. ASSUME NEW u \in Task, NEW new, new.status # "none", rec' = [rec EXCEPT ![u] = new]
      PROVE  rec'[t].status # "none"
  BY <1>2
<1>3. ASSUME NEW w \in Worker, NEW u \in Task, Lease(w, u) PROVE rec'[t].status # "none"
  BY <1>3 DEF Lease
<1>4. ASSUME NEW w \in Worker, Ack(w) \/ SaveRetry(w) \/ SaveFailed(w)
      PROVE  rec'[t].status # "none"
  <2>1. held[w].id \in Task
    BY <1>4 DEF Ack, SaveRetry, SaveFailed
  <2>2. CASE Ack(w)
    BY <2>1, <2>2 DEF Ack
  <2>3. CASE SaveRetry(w)
    BY <1>2, <2>1, <2>3 DEF SaveRetry
  <2>4. CASE SaveFailed(w)
    BY <1>2, <2>1, <2>4 DEF SaveFailed
  <2> QED
    BY <1>4, <2>2, <2>3, <2>4
<1>5. ASSUME NEW w \in Worker, WorkerStep(w) \/ WorkerFault(w) PROVE rec'[t].status # "none"
  BY <1>1, <1>3, <1>4, <1>5
  DEF WorkerStep, Dequeue, Hydrate, Work, Nack, LeaseNotHeld, ScheduleRetry, Bury, Best, WorkerFault,
      DequeueReplyLost, CallFails, NackReplyLost, SaveFails, RouteFails, DrainTimeout, redis
<1>6. ASSUME NEW r \in Reaper, ReaperStep(r) \/ CrashReaper(r) \/ ReaperCallFails(r)
      PROVE  rec'[t].status # "none"
  <2>1. CASE Reclaim(r)
    BY <2>1 DEF Reclaim
  <2>2. CASE DeadLetter(r)
    BY <2>2 DEF DeadLetter, MarkFailed
  <2>3. CASE UNCHANGED rec
    BY <1>1, <2>3
  <2> QED
    BY <1>6, <2>1, <2>2, <2>3 DEF ReaperStep, ScanLeases, Scan, ReaperGet, LostRace, ReaperPush,
       CrashReaper, ReaperCallFails, redis
<1>7. ASSUME NEW a \in Admin, RedriveStep(a) \/ RedriveFails(a) \/ RedriveSkips(a)
      PROVE  rec'[t].status # "none"
  <2>1. CASE RedriveSave(a)
    BY <2>1 DEF RedriveSave, Fresh
  <2>2. CASE UNCHANGED rec
    BY <1>1, <2>2
  <2> QED
    BY <1>7, <2>1, <2>2 DEF RedriveStep, DrainPop, DrainEnd, RedriveEnqueue, RedriveFails, RedriveSkips,
       redis
<1>10. ASSUME NEW c \in Client, SubmitStep(c) \/ SubmitFails(c) PROVE rec'[t].status # "none"
  <2>1. CASE SubmitSave(c)
    BY <2>1 DEF SubmitSave, Fresh
  <2>2. CASE UNCHANGED rec
    BY <1>1, <2>2
  <2> QED
    BY <1>10, <2>1, <2>2 DEF SubmitStep, SubmitExists, SubmitEnqueue, SubmitSchedule, SubmitFails, redis
<1>8. ASSUME NEW u \in Task, Promote(u) \/ Expire(u) PROVE rec'[t].status # "none"
  BY <1>8 DEF Promote, Expire
<1>9. ASSUME NEW n \in Node, CrashNode(n) \/ PruneNode(n) \/ \E r \in Reaper : ScanNode(r, n)
      PROVE  rec'[t].status # "none"
  BY <1>9 DEF CrashNode, PruneNode, ScanNode, Scan, redis
<1> QED
  BY <1>1, <1>5, <1>6, <1>7, <1>8, <1>9, <1>10 DEF Next, vars, redis

LEMMA SavedIsRecorded == Spec => []Recorded
<1>1. Init => Recorded
  BY DEF Init, Recorded
<1>2. TypeOK /\ Recorded /\ [Next]_vars => Recorded'
  <2> SUFFICES ASSUME TypeOK, Recorded, [Next]_vars, NEW c \in Client, cpc'[c] \in {"queue", "created"}
               PROVE  rec'[IdOf[c]].status # "none"
    BY DEF Recorded
  <2>1. IdOf[c] \in Task
    BY TypesOfConstants
  <2>2. CASE cpc[c] \in {"queue", "created"}
    BY <2>1, <2>2, RecordsRemain DEF Recorded
  <2>3. CASE cpc[c] \notin {"queue", "created"}
    <3>1. cpc' # cpc
      BY <2>3
    <3>2. PICK d \in Client : SubmitStep(d) \/ SubmitFails(d)
      <4>1. ASSUME NEW w \in Worker, WorkerStep(w) \/ WorkerFault(w) PROVE FALSE
        BY <3>1, <4>1 DEF WorkerStep, Dequeue, Hydrate, Work, Ack, Nack, LeaseNotHeld, SaveRetry,
           SaveFailed, ScheduleRetry, Bury, WorkerFault, DequeueReplyLost, CallFails, NackReplyLost,
           SaveFails, RouteFails, DrainTimeout
      <4>2. ASSUME NEW r \in Reaper, ReaperStep(r) \/ CrashReaper(r) \/ ReaperCallFails(r) PROVE FALSE
        BY <3>1, <4>2 DEF ReaperStep, ScanLeases, Scan, ReaperGet, LostRace, Reclaim, DeadLetter,
           ReaperPush, CrashReaper, ReaperCallFails
      <4>3. ASSUME NEW a \in Admin, RedriveStep(a) \/ RedriveFails(a) \/ RedriveSkips(a) PROVE FALSE
        BY <3>1, <4>3 DEF RedriveStep, DrainPop, DrainEnd, RedriveSave, RedriveEnqueue, RedriveFails,
           RedriveSkips
      <4>4. ASSUME NEW t \in Task, Promote(t) \/ Expire(t) PROVE FALSE
        BY <3>1, <4>4 DEF Promote, Expire
      <4>5. ASSUME NEW n \in Node, CrashNode(n) \/ PruneNode(n) \/ \E r \in Reaper : ScanNode(r, n)
            PROVE  FALSE
        BY <3>1, <4>5 DEF CrashNode, PruneNode, ScanNode, Scan
      <4> QED
        BY <3>1, <4>1, <4>2, <4>3, <4>4, <4>5 DEF Next, vars
    <3>3. SubmitSave(c)
      BY <2>3, <3>2 DEF TypeOK, SubmitStep, SubmitExists, SubmitSave, SubmitEnqueue, SubmitSchedule,
         SubmitFails
    <3> QED
      BY <2>1, <3>3 DEF SubmitSave, Fresh, TypeOK
  <2> QED
    BY <2>2, <2>3
<1> QED
  BY <1>1, <1>2, TypeCorrect, PTL DEF Spec

\* An accepted task is completed, somewhere a process can take it from, or was dropped.
LostOnlyInHands ==
    \A c \in Client :
        cpc[c] = "created" =>
            \/ rec[IdOf[c]].status = "completed"
            \/ Places(IdOf[c]) # {}
            \/ IdOf[c] \in dropped

\* Losses have no other cause than a process that failed with the task in hand.
THEOREM LossesWereInHand == Spec => []LostOnlyInHands
<1>1. ASSUME NEW t \in Task, Somewhere(t) PROVE t \in dropped \/ Places(t) # {}
  <2>1. t \in ready \cup delayed \cup processing => Places(t) # {}
    <3>1. ASSUME NEW q \in {"ready", "delayed", "processing"},
                 t \in CASE q = "ready" -> ready [] q = "delayed" -> delayed [] OTHER -> processing
          PROVE  <<"queue", q>> \in Places(t)
      BY <3>1 DEF Places
    <3> QED
      BY <3>1
  <2>2. Buried(t) => Places(t) # {}
    BY DEF Buried, Places
  <2>3. Carried(t) => Places(t) # {}
    <3>1. ASSUME NEW w \in Worker, Routing(w), held[w].id = t PROVE <<"worker", w>> \in Places(t)
      BY <3>1 DEF Places
    <3>2. ASSUME NEW r \in Reaper, rpc[r] = "push", snap[r].id = t PROVE <<"reaper", r>> \in Places(t)
      BY <3>2 DEF Places
    <3>3. ASSUME NEW c \in Client, cpc[c] = "queue", IdOf[c] = t PROVE <<"client", c>> \in Places(t)
      BY <3>3 DEF Places
    <3>4. ASSUME NEW a \in Admin, NEW e \in batch[a], e.id = t PROVE <<"admin", a, e>> \in Places(t)
      BY <3>4 DEF Places
    <3> QED
      BY <3>1, <3>2, <3>3, <3>4 DEF Carried
  <2> QED
    BY <1>1, <2>1, <2>2, <2>3 DEF Somewhere
<1>2. Recorded /\ Conservation => LostOnlyInHands
  BY <1>1, TypesOfConstants DEF Recorded, Conservation, LostOnlyInHands
<1> QED
  BY <1>2, SavedIsRecorded, TasksConserved, PTL

\* What the documentation promises, "no task is ever lost", holds as long as no
\* process dies, no call to Redis fails and no handler outlasts its deadline; a node
\* may stall, be taken for dead and lose its leases all the same.
THEOREM NothingLostWithoutFailures ==
    ASSUME Faults \subseteq {"stall"}
    PROVE  Spec => []AcceptedNeverLost
<1>1. Init => dropped = {}
  BY DEF Init
<1>2. dropped = {} /\ [Next]_vars => (dropped = {})'
  <2> SUFFICES ASSUME [Next]_vars PROVE UNCHANGED dropped
    OBVIOUS
  <2>1. "crash" \notin Faults /\ "redis" \notin Faults /\ "slow" \notin Faults
    OBVIOUS
  <2>2. ASSUME NEW c \in Client, SubmitStep(c) \/ SubmitFails(c) PROVE UNCHANGED dropped
    BY <2>1, <2>2 DEF SubmitStep, SubmitExists, SubmitSave, SubmitEnqueue, SubmitSchedule, SubmitFails
  <2>3. ASSUME NEW w \in Worker, WorkerStep(w) PROVE UNCHANGED dropped
    BY <2>3 DEF WorkerStep, Dequeue, Hydrate, Work, Ack, Nack, LeaseNotHeld, SaveRetry, SaveFailed,
       ScheduleRetry, Bury
  <2>4. ASSUME NEW w \in Worker, WorkerFault(w) PROVE FALSE
    BY <2>1, <2>4 DEF WorkerFault, DequeueReplyLost, CallFails, NackReplyLost, SaveFails, RouteFails,
       DrainTimeout
  <2>5. ASSUME NEW r \in Reaper, ReaperStep(r) \/ CrashReaper(r) \/ ReaperCallFails(r)
        PROVE  UNCHANGED dropped
    BY <2>1, <2>5 DEF ReaperStep, ScanLeases, Scan, ReaperGet, LostRace, Reclaim, DeadLetter,
       ReaperPush, CrashReaper, ReaperCallFails
  <2>6. ASSUME NEW a \in Admin, RedriveStep(a) \/ RedriveFails(a) \/ RedriveSkips(a)
        PROVE  UNCHANGED dropped
    BY <2>1, <2>6 DEF RedriveStep, DrainPop, DrainEnd, RedriveSave, RedriveEnqueue, RedriveFails,
       RedriveSkips
  <2>7. ASSUME NEW t \in Task, Promote(t) \/ Expire(t) PROVE UNCHANGED dropped
    BY <2>7 DEF Promote, Expire
  <2>8. ASSUME NEW n \in Node, CrashNode(n) \/ PruneNode(n) \/ \E r \in Reaper : ScanNode(r, n)
        PROVE  UNCHANGED dropped
    BY <2>1, <2>8 DEF CrashNode, PruneNode, ScanNode, Scan
  <2> QED
    BY <2>2, <2>3, <2>4, <2>5, <2>6, <2>7, <2>8 DEF Next, vars
<1>3. LostOnlyInHands /\ dropped = {} => AcceptedNeverLost
  BY DEF LostOnlyInHands, AcceptedNeverLost
<1> QED
  BY <1>1, <1>2, <1>3, LossesWereInHand, PTL DEF Spec
=============================================================================
