---------------------------- MODULE CronProofs ----------------------------
(* Theorems about Cron, for any jobs, schedules, edits and failures.        *)
EXTENDS Cron, FiniteSetTheorems, TLAPS

\* The part of the type invariant that the end of a job touches.
LEMMA NextJobTyped ==
  ASSUME TypeOK, NEW m \in Leader, NextJob(m)
  PROVE  /\ mpc' \in [Leader -> {"idle", "list", "exists", "save", "enqueue", "get", "put"}]
         /\ cur' \in [Leader -> {{}} \cup {{i} : i \in Instance}]
         /\ copy' \in [Leader -> CronJob]
         /\ \A n \in Leader : cur'[n] = {} <=> mpc'[n] \in {"idle", "list", "exists"}
<1>1. mpc'[m] \in {"idle", "exists"} /\ cur'[m] = {}
  BY DEF TypeOK, NextJob
<1>2. \A n \in Leader \ {m} : mpc'[n] = mpc[n] /\ cur'[n] = cur[n]
  BY DEF TypeOK, NextJob
<1>3. \A n \in Leader : cur'[n] = {} <=> mpc'[n] \in {"idle", "list", "exists"}
  BY <1>1, <1>2 DEF TypeOK
<1>4. NoJob \in CronJob
  BY CronAssumption DEF NoJob, CronJob
<1> QED
  BY <1>3, <1>4 DEF TypeOK, NextJob

\* Every reachable state of the materializers and the job store is well typed.
THEOREM CronTyped == Spec => []TypeOK
<1> USE CronAssumption DEF TypeOK, Instance, CronJob, NoJob
<1>1. Init => TypeOK
  BY DEF Init
<1>2. TypeOK /\ [Next]_vars => TypeOK'
  <2> SUFFICES ASSUME TypeOK, [Next]_vars PROVE TypeOK'
    OBVIOUS
  <2>1. CASE Tick
    BY <2>1 DEF Tick, materializer
  <2>2. ASSUME NEW j \in Job, DeleteCron(j) PROVE TypeOK'
    BY <2>2 DEF DeleteCron, Edit, materializer
  <2>3. ASSUME NEW j \in Job, NEW e \in BOOLEAN, CreateCron(j, e) PROVE TypeOK'
    BY <2>3 DEF CreateCron, Edit, materializer
  <2>4. ASSUME NEW i \in Instance, Run(i) PROVE TypeOK'
    BY <2>4 DEF Run, materializer
  <2>5. ASSUME NEW m \in Leader, Wake(m) PROVE TypeOK'
    BY <2>5 DEF Wake
  <2>6. ASSUME NEW m \in Leader, List(m) PROVE TypeOK'
    BY <2>6 DEF List, Due
  <2>7. ASSUME NEW m \in Leader, Exists(m) PROVE TypeOK'
    <3>1. PICK i \in todo[m] :
            /\ todo' = [todo EXCEPT ![m] = @ \ {i}]
            /\ cur' = [cur EXCEPT ![m] = {i}]
            /\ mpc' = [mpc EXCEPT ![m] = IF AlreadyThere(i) THEN Skip(m, i) ELSE "save"]
      BY <2>7 DEF Exists
    <3>2. i \in Instance
      OBVIOUS
    <3>3. mpc'[m] \in {"get", "save"} /\ cur'[m] = {i}
      BY <3>1 DEF Skip
    <3>4. \A l \in Leader : l # m => mpc'[l] = mpc[l] /\ cur'[l] = cur[l]
      BY <3>1
    <3>5. \A l \in Leader : cur'[l] = {} <=> mpc'[l] \in {"idle", "list", "exists"}
      BY <3>3, <3>4
    <3>6. mpc' \in [Leader -> {"idle", "list", "exists", "save", "enqueue", "get", "put"}]
      BY <3>1 DEF Skip
    <3>7. cur' \in [Leader -> {{}} \cup {{x} : x \in Instance}]
      BY <3>1, <3>2
    <3>8. todo' \in [Leader -> SUBSET Instance]
      BY <3>1
    <3> QED
      BY <2>7, <3>5, <3>6, <3>7, <3>8 DEF Exists
  <2>8. ASSUME NEW m \in Leader, Save(m) PROVE TypeOK'
    <3>1. mpc' = [mpc EXCEPT ![m] = "enqueue"] /\ mpc[m] = "save" /\ cur' = cur
      BY <2>8 DEF Save
    <3>2. cur[m] \subseteq Instance
      OBVIOUS
    <3> QED
      BY <2>8, <3>1, <3>2 DEF Save
  <2>9. ASSUME NEW m \in Leader, Enqueue(m) PROVE TypeOK'
    <3>1. fired' \in [Instance -> Nat] /\ ready' \subseteq Instance
      BY <2>9 DEF Enqueue
    <3>2. mpc' = [mpc EXCEPT ![m] = "get"] /\ mpc[m] = "enqueue"
      BY <2>9 DEF Enqueue
    <3> QED
      BY <2>9, <3>1, <3>2 DEF Enqueue
  <2>10. ASSUME NEW m \in Leader, CursorGet(m) PROVE TypeOK'
    <3>1. PICK i \in cur[m] :
             IF jobs[i[1]].present
             THEN /\ copy' = [copy EXCEPT ![m] = jobs[i[1]]]
                  /\ mpc' = [mpc EXCEPT ![m] = "put"]
                  /\ UNCHANGED cur
             ELSE NextJob(m)
      BY <2>10 DEF CursorGet
    <3>2. i[1] \in Job /\ jobs[i[1]] \in CronJob
      BY <3>1
    <3>3. CASE jobs[i[1]].present
      BY <2>10, <3>1, <3>2, <3>3 DEF CursorGet
    <3>4. CASE ~jobs[i[1]].present
      BY <2>10, <3>1, <3>4, NextJobTyped DEF CursorGet
    <3> QED
      BY <3>3, <3>4
  <2>11. ASSUME NEW m \in Leader, CursorSave(m) PROVE TypeOK'
    <3>1. PICK i \in cur[m] : jobs' = [jobs EXCEPT ![i[1]] = [copy[m] EXCEPT !.cursor = i[2]]]
      BY <2>11 DEF CursorSave
    <3>2. i[1] \in Job /\ i[2] \in 0..Horizon
      BY <3>1
    <3>3. copy[m] \in CronJob
      OBVIOUS
    <3>4. [copy[m] EXCEPT !.cursor = i[2]] \in CronJob
      BY <3>2, <3>3, Zenon DEF CronJob
    <3>5. jobs' \in [Job -> CronJob]
      BY <3>1, <3>2, <3>4
    <3> QED
      BY <2>11, <3>5 DEF CursorSave, NextJob
  <2>12. ASSUME NEW m \in Leader, CallFails(m) PROVE TypeOK'
    <3>1. lost' \subseteq Instance
      BY <2>12 DEF CallFails, Drop
    <3>2. mishaps' \in 0..MaxMishaps
      BY <2>12 DEF CallFails, Mishap
    <3> QED
      BY <2>12, <3>1, <3>2, NextJobTyped DEF CallFails
  <2>13. ASSUME NEW m \in Leader, Crash(m) PROVE TypeOK'
    BY <2>13 DEF Crash, Mishap, Drop
  <2>14. CASE UNCHANGED vars
    BY <2>14 DEF vars, materializer
  <2>15. CASE \E m \in Leader : Step(m) \/ CallFails(m) \/ Crash(m)
    BY <2>5, <2>6, <2>7, <2>8, <2>9, <2>10, <2>11, <2>12, <2>13, <2>15, Zenon DEF Step
  <2>16. CASE \E j \in Job : DeleteCron(j) \/ \E enabled \in BOOLEAN : CreateCron(j, enabled)
    <3> PICK j \in Job : DeleteCron(j) \/ \E enabled \in BOOLEAN : CreateCron(j, enabled)
      BY <2>16
    <3>1. CASE DeleteCron(j)
      BY <2>2, <3>1
    <3>2. ASSUME NEW enabled \in BOOLEAN, CreateCron(j, enabled) PROVE TypeOK'
      BY <2>3, <3>2
    <3> QED
      BY <3>1, <3>2
  <2>17. CASE \E i \in Instance : Run(i)
    BY <2>4, <2>17, Zenon
  <2> QED
    BY <2>1, <2>14, <2>15, <2>16, <2>17, Zenon DEF Next
<1> QED
  BY <1>1, <1>2, PTL DEF Spec

\* Every API request writes a whole job whose cursor is zero.
LEMMA EditsReset ==
  ASSUME NEW j \in Job, clock \in 0..Horizon,
         DeleteCron(j) \/ \E enabled \in BOOLEAN : CreateCron(j, enabled)
  PROVE  \E job \in CronJob : job.cursor = 0 /\ Edit(j, job)
<1>1. NoJob \in CronJob /\ NoJob.cursor = 0
  BY CronAssumption DEF NoJob, CronJob
<1>2. CASE DeleteCron(j)
  BY <1>1, <1>2 DEF DeleteCron
<1>3. ASSUME NEW enabled \in BOOLEAN, CreateCron(j, enabled)
      PROVE  \E job \in CronJob : job.cursor = 0 /\ Edit(j, job)
  <2> DEFINE new == [enabled |-> enabled, created |-> clock, cursor |-> 0, present |-> TRUE]
  <2>1. new \in CronJob /\ new.cursor = 0
    BY CronAssumption DEF CronJob
  <2> QED
    BY <1>3, <2>1 DEF CreateCron
<1> QED
  BY <1>2, <1>3

\* The leaders that found instance i without a record and have not queued it yet.
Firing(i) == {m \in Leader : i \in cur[m] /\ mpc[m] \in {"save", "enqueue"}}

\* A record is all that keeps an instance from being fired: who saw none may still
\* fire, and nobody joins them once there is one.
Recorded ==
    /\ \A i \in Instance : fired[i] > 0 => i \in records
    /\ \A m \in Leader : mpc[m] = "enqueue" => cur[m] \subseteq records

\* What a step does to a recorded instance: one of those who may fire it does, or
\* it is not fired and they do not become more.
FiringShrinks(i) ==
    \/ fired'[i] = fired[i] /\ Firing(i)' \subseteq Firing(i)
    \/ \E m \in Firing(i) : fired'[i] = fired[i] + 1 /\ Firing(i)' = Firing(i) \ {m}

LEMMA FiringStep ==
  ASSUME TypeOK, Recorded, [Next]_vars
  PROVE  /\ Recorded'
         /\ \A i \in records : FiringShrinks(i)
         /\ \A i \in Instance \ records : fired'[i] = 0
<1> DEFINE Goal == /\ Recorded'
                   /\ \A i \in records : FiringShrinks(i)
                   /\ \A i \in Instance \ records : fired'[i] = 0
<1> SUFFICES Goal
  OBVIOUS
<1> USE DEF Recorded, FiringShrinks, Firing
<1> mpc \in [Leader -> {"idle", "list", "exists", "save", "enqueue", "get", "put"}]
  BY DEF TypeOK
<1> cur \in [Leader -> SUBSET Instance] /\ records \subseteq Instance
  BY DEF TypeOK
<1> fired \in [Instance -> Nat] /\ jobs \in [Job -> CronJob] /\ todo \in [Leader -> SUBSET Instance]
  BY DEF TypeOK
<1> \A m \in Leader : \A i, k \in cur[m] : i = k
  BY DEF TypeOK
<1>1. CASE Tick
  BY <1>1 DEF Tick, materializer
<1>2. ASSUME NEW j \in Job, NEW job \in CronJob, job.cursor = 0, Edit(j, job) PROVE Goal
  BY <1>2 DEF Edit, materializer
<1>3. ASSUME NEW i \in Instance, Run(i) PROVE Goal
  BY <1>3 DEF Run, materializer
<1>4. ASSUME NEW m \in Leader, Wake(m) PROVE Goal
  BY <1>4 DEF Wake
<1>5. ASSUME NEW m \in Leader, List(m) PROVE Goal
  BY <1>5 DEF List
<1>6. ASSUME NEW m \in Leader, Exists(m) PROVE Goal
  BY <1>6 DEF Exists, AlreadyThere, Skip
<1>7. ASSUME NEW m \in Leader, Save(m) PROVE Goal
  BY <1>7 DEF Save
<1>8. ASSUME NEW m \in Leader, Enqueue(m) PROVE Goal
  <2>1. mpc[m] = "enqueue" /\ mpc' = [mpc EXCEPT ![m] = "get"] /\ UNCHANGED <<cur, records>>
    BY <1>8 DEF Enqueue
  <2>2. \A i \in Instance : fired'[i] = IF i \in cur[m] THEN fired[i] + 1 ELSE fired[i]
    BY <1>8 DEF Enqueue
  <2>3. Recorded' /\ \A i \in Instance \ records : fired'[i] = 0
    BY <2>1, <2>2
  <2>4. ASSUME NEW i \in records PROVE FiringShrinks(i)
    <3>1. Firing(i)' = Firing(i) \ {m}
      BY <2>1
    <3>2. i \in cur[m] => m \in Firing(i)
      BY <2>1
    <3> QED
      BY <2>2, <3>1, <3>2
  <2> QED
    BY <2>3, <2>4
<1>9. ASSUME NEW m \in Leader, CursorGet(m) PROVE Goal
  BY <1>9 DEF CursorGet, NextJob
<1>10. ASSUME NEW m \in Leader, CursorSave(m) PROVE Goal
  BY <1>10 DEF CursorSave, NextJob
<1>11. ASSUME NEW m \in Leader, CallFails(m) PROVE Goal
  BY <1>11 DEF CallFails, Drop, NextJob
<1>12. ASSUME NEW m \in Leader, Crash(m) PROVE Goal
  BY <1>12 DEF Crash, Drop
<1>13. CASE UNCHANGED vars
  BY <1>13 DEF vars, materializer
<1>14. CASE Next
  <2>1. CASE \E j \in Job : DeleteCron(j) \/ \E enabled \in BOOLEAN : CreateCron(j, enabled)
    <3> PICK j \in Job : DeleteCron(j) \/ \E enabled \in BOOLEAN : CreateCron(j, enabled)
      BY <2>1
    <3>1. PICK job \in CronJob : job.cursor = 0 /\ Edit(j, job)
      BY EditsReset, Zenon DEF TypeOK
    <3> QED
      BY <1>2, <3>1
  <2>2. CASE \E m \in Leader : Step(m) \/ CallFails(m) \/ Crash(m)
    BY <1>4, <1>5, <1>6, <1>7, <1>8, <1>9, <1>10, <1>11, <1>12, <2>2, Zenon DEF Step
  <2>3. CASE \E i \in Instance : Run(i)
    BY <1>3, <2>3, Zenon
  <2> QED
    BY <1>1, <1>14, <2>1, <2>2, <2>3, Zenon DEF Next
<1> QED
  BY <1>13, <1>14, Zenon

\* What a slot was queued, and what its leaders are still going to queue it.
FiredBound ==
    Recorded /\ \A i \in Instance : fired[i] + Cardinality(Firing(i)) <= Cardinality(Leader)

\* However many leaders overlap, and whatever crashes, fails, is edited or is created
\* again under the same ID, each of them queues a slot at most once.
THEOREM SlotFiresOnce ==
  ASSUME IsFiniteSet(Leader)
  PROVE  Spec => []FiredOncePerLeader
<1> USE DEF FiredBound
<1>1. ASSUME NEW S \in SUBSET Leader
      PROVE  IsFiniteSet(S) /\ Cardinality(S) \in Nat /\ Cardinality(S) <= Cardinality(Leader)
  BY <1>1, FS_Subset, FS_CardinalityType
<1>2. \A i : Firing(i) \subseteq Leader /\ Firing(i)' \subseteq Leader
  BY DEF Firing
<1>3. Cardinality(Leader) \in Nat
  BY FS_CardinalityType
<1>4. Init => FiredBound
  <2> SUFFICES ASSUME Init, NEW i \in Instance PROVE 0 + Cardinality(Firing(i)) <= Cardinality(Leader)
    BY DEF Init, Recorded
  <2> QED
    BY <1>1, <1>2
<1>5. TypeOK /\ FiredBound /\ [Next]_vars => FiredBound'
  <2> SUFFICES ASSUME TypeOK, FiredBound, [Next]_vars PROVE FiredBound'
    OBVIOUS
  <2>1. /\ Recorded'
        /\ \A i \in records : FiringShrinks(i)
        /\ \A i \in Instance \ records : fired'[i] = 0
    BY FiringStep
  <2>2. fired \in [Instance -> Nat]
    BY DEF TypeOK
  <2>3. ASSUME NEW i \in Instance
        PROVE  fired'[i] + Cardinality(Firing(i)') <= Cardinality(Leader)
    <3>1. ASSUME i \in records, fired'[i] = fired[i], Firing(i)' \subseteq Firing(i)
          PROVE  fired'[i] + Cardinality(Firing(i)') <= Cardinality(Leader)
      <4>1. Cardinality(Firing(i)') <= Cardinality(Firing(i))
        BY <1>1, <1>2, <3>1, FS_Subset
      <4> QED
        BY <1>1, <1>2, <1>3, <2>2, <3>1, <4>1
    <3>2. ASSUME i \in records, NEW m \in Firing(i),
                 fired'[i] = fired[i] + 1, Firing(i)' = Firing(i) \ {m}
          PROVE  fired'[i] + Cardinality(Firing(i)') <= Cardinality(Leader)
      <4>1. Cardinality(Firing(i)') = Cardinality(Firing(i)) - 1
        BY <1>1, <1>2, <3>2, FS_RemoveElement
      <4> QED
        BY <1>1, <1>2, <1>3, <2>2, <3>2, <4>1
    <3>3. CASE i \notin records
      BY <1>1, <1>2, <2>1, <3>3
    <3> QED
      BY <2>1, <3>1, <3>2, <3>3 DEF FiringShrinks
  <2> QED
    BY <2>1, <2>3
<1>6. TypeOK /\ FiredBound => FiredOncePerLeader
  <2> SUFFICES ASSUME TypeOK, FiredBound, NEW i \in Instance PROVE fired[i] <= Cardinality(Leader)
    BY DEF FiredOncePerLeader
  <2>1. fired[i] \in Nat /\ Cardinality(Firing(i)) \in Nat
    BY <1>1, <1>2 DEF TypeOK
  <2> QED
    BY <1>3, <2>1
<1> QED
  BY <1>4, <1>5, <1>6, CronTyped, PTL DEF Spec

\* Inductive: a recorded instance is covered, and cursors stand on recorded ones.
Covered(i) == fired[i] > 0 \/ i \in lost \/ \E m \in Leader : About(i, m)

RecordsCovered ==
    /\ \A i \in records : Covered(i)
    /\ \A i \in Instance : jobs[i[1]].cursor = i[2] => i \in records
    /\ \A m \in Leader : mpc[m] \in {"enqueue", "get", "put"} => cur[m] \subseteq records

\* A cursor never stands on a slot that was silently skipped, however many
\* leaders overlap.
THEOREM CursorCovered == Spec => []SlotCovered
<1>1. Init => RecordsCovered
  BY DEF Init, RecordsCovered, Instance, NoJob
<1>2. TypeOK /\ RecordsCovered /\ [Next]_vars => RecordsCovered'
  <2> SUFFICES ASSUME TypeOK, RecordsCovered, [Next]_vars PROVE RecordsCovered'
    OBVIOUS
  <2> mpc \in [Leader -> {"idle", "list", "exists", "save", "enqueue", "get", "put"}]
    BY DEF TypeOK
  <2> cur \in [Leader -> SUBSET Instance] /\ records \subseteq Instance
    BY DEF TypeOK
  <2> fired \in [Instance -> Nat] /\ jobs \in [Job -> CronJob] /\ todo \in [Leader -> SUBSET Instance]
    BY DEF TypeOK
  <2> \A m \in Leader : \A i, k \in cur[m] : i = k
    BY DEF TypeOK
  <2> USE DEF RecordsCovered, Covered, About, Instance
  <2>1. CASE Tick
    BY <2>1 DEF Tick, materializer
  <2>2. ASSUME NEW j \in Job, NEW job \in CronJob, job.cursor = 0, Edit(j, job) PROVE RecordsCovered'
    BY <2>2 DEF Edit, materializer
  <2>3. ASSUME NEW i \in Instance, Run(i) PROVE RecordsCovered'
    BY <2>3 DEF Run, materializer
  <2>4. ASSUME NEW m \in Leader, Wake(m) PROVE RecordsCovered'
    BY <2>4 DEF Wake
  <2>5. ASSUME NEW m \in Leader, List(m) PROVE RecordsCovered'
    BY <2>5 DEF List
  <2>6. ASSUME NEW m \in Leader, Exists(m) PROVE RecordsCovered'
    BY <2>6 DEF Exists, AlreadyThere, Skip
  <2>7. ASSUME NEW m \in Leader, Save(m) PROVE RecordsCovered'
    BY <2>7 DEF Save
  <2>8. ASSUME NEW m \in Leader, Enqueue(m) PROVE RecordsCovered'
    BY <2>8 DEF Enqueue
  <2>9. ASSUME NEW m \in Leader, CursorGet(m) PROVE RecordsCovered'
    BY <2>9 DEF CursorGet, NextJob
  <2>10. ASSUME NEW m \in Leader, CursorSave(m) PROVE RecordsCovered'
    <3>1. PICK i \in cur[m] : jobs' = [jobs EXCEPT ![i[1]] = [copy[m] EXCEPT !.cursor = i[2]]]
      BY <2>10 DEF CursorSave
    <3>2. i \in records /\ i[1] \in Job /\ i = <<i[1], i[2]>>
      BY <2>10, <3>1 DEF CursorSave
    <3>3. copy[m] \in CronJob
      BY DEF TypeOK
    <3>4. \A k \in Instance : jobs'[k[1]].cursor = k[2] => k \in records
      <4> SUFFICES ASSUME NEW k \in Instance, jobs'[k[1]].cursor = k[2] PROVE k \in records
        OBVIOUS
      <4>1. CASE k[1] = i[1]
        <5>1. jobs'[k[1]].cursor = i[2]
          BY <3>1, <3>2, <3>3, <4>1 DEF CronJob
        <5> QED
          BY <3>2, <4>1, <5>1
      <4>2. CASE k[1] # i[1]
        BY <3>1, <4>2
      <4> QED
        BY <4>1, <4>2
    <3> QED
      BY <2>10, <3>4 DEF CursorSave, NextJob
  <2>11. ASSUME NEW m \in Leader, CallFails(m) PROVE RecordsCovered'
    BY <2>11 DEF CallFails, Drop, NextJob
  <2>12. ASSUME NEW m \in Leader, Crash(m) PROVE RecordsCovered'
    BY <2>12 DEF Crash, Drop
  <2>13. CASE UNCHANGED vars
    BY <2>13 DEF vars, materializer
  <2>14. CASE Next
    <3>1. CASE \E j \in Job : DeleteCron(j) \/ \E enabled \in BOOLEAN : CreateCron(j, enabled)
      <4> PICK j \in Job : DeleteCron(j) \/ \E enabled \in BOOLEAN : CreateCron(j, enabled)
        BY <3>1
      <4>1. PICK job \in CronJob : job.cursor = 0 /\ Edit(j, job)
        BY EditsReset, Zenon DEF TypeOK
      <4> QED
        BY <2>2, <4>1
    <3>2. CASE \E m \in Leader : Step(m) \/ CallFails(m) \/ Crash(m)
      BY <2>4, <2>5, <2>6, <2>7, <2>8, <2>9, <2>10, <2>11, <2>12, <3>2, Zenon DEF Step
    <3>3. CASE \E i \in Instance : Run(i)
      BY <2>3, <3>3, Zenon
    <3> QED
      BY <2>1, <2>14, <3>1, <3>2, <3>3, Zenon DEF Next
  <2> QED
    BY <2>13, <2>14, Zenon
<1>3. RecordsCovered => SlotCovered
  BY DEF RecordsCovered, Covered, SlotCovered
<1> QED
  BY <1>1, <1>2, <1>3, CronTyped, PTL DEF Spec

\* The order of Save, Enqueue and UpdateCursor: what is recorded was queued, unless
\* its leader is about to queue it, and a cursor follows an instance that was queued.
QueuedFirst ==
    /\ \A i \in records, m \in Leader : fired[i] > 0 \/ About(i, m)
    /\ \A m \in Leader : mpc[m] \in {"get", "put"} => \A i \in cur[m] : fired[i] > 0
    /\ \A i \in Instance : jobs[i[1]].cursor = i[2] => fired[i] > 0

\* The comment of the materializer is right where nothing fails and one leader is at
\* work: both are needed, as a leader that fails between Save and Enqueue, or another
\* one that finds the record meanwhile, marks a slot that is not queued.
THEOREM MarkedOnceQueued ==
  ASSUME NEW leader, Leader = {leader}, MaxMishaps = 0
  PROVE  Spec => []NeverMarkedUnqueued
<1>1. Init => QueuedFirst
  BY DEF Init, QueuedFirst, Instance, NoJob
<1>2. TypeOK /\ QueuedFirst /\ [Next]_vars => QueuedFirst'
  <2> SUFFICES ASSUME TypeOK, QueuedFirst, [Next]_vars PROVE QueuedFirst'
    OBVIOUS
  <2> mpc \in [Leader -> {"idle", "list", "exists", "save", "enqueue", "get", "put"}]
    BY DEF TypeOK
  <2> cur \in [Leader -> SUBSET Instance] /\ records \subseteq Instance
    BY DEF TypeOK
  <2> fired \in [Instance -> Nat] /\ jobs \in [Job -> CronJob] /\ todo \in [Leader -> SUBSET Instance]
    BY DEF TypeOK
  <2> \A m \in Leader : \A i, k \in cur[m] : i = k
    BY DEF TypeOK
  <2> USE DEF QueuedFirst, About, Instance
  <2>1. CASE Tick
    BY <2>1 DEF Tick, materializer
  <2>2. ASSUME NEW j \in Job, NEW job \in CronJob, job.cursor = 0, Edit(j, job) PROVE QueuedFirst'
    BY <2>2 DEF Edit, materializer
  <2>3. ASSUME NEW i \in Instance, Run(i) PROVE QueuedFirst'
    BY <2>3 DEF Run, materializer
  <2>4. ASSUME NEW m \in Leader, Wake(m) PROVE QueuedFirst'
    BY <2>4 DEF Wake
  <2>5. ASSUME NEW m \in Leader, List(m) PROVE QueuedFirst'
    BY <2>5 DEF List
  <2>6. ASSUME NEW m \in Leader, Exists(m) PROVE QueuedFirst'
    BY <2>6 DEF Exists, AlreadyThere, Skip
  <2>7. ASSUME NEW m \in Leader, Save(m) PROVE QueuedFirst'
    BY <2>7 DEF Save
  <2>8. ASSUME NEW m \in Leader, Enqueue(m) PROVE QueuedFirst'
    BY <2>8 DEF Enqueue
  <2>9. ASSUME NEW m \in Leader, CursorGet(m) PROVE QueuedFirst'
    BY <2>9 DEF CursorGet, NextJob
  <2>10. ASSUME NEW m \in Leader, CursorSave(m) PROVE QueuedFirst'
    <3>1. PICK i \in cur[m] : jobs' = [jobs EXCEPT ![i[1]] = [copy[m] EXCEPT !.cursor = i[2]]]
      BY <2>10 DEF CursorSave
    <3>2. fired[i] > 0 /\ i[1] \in Job /\ i = <<i[1], i[2]>>
      BY <2>10, <3>1 DEF CursorSave
    <3>3. copy[m] \in CronJob
      BY DEF TypeOK
    <3>4. \A k \in Instance : jobs'[k[1]].cursor = k[2] => fired[k] > 0
      <4> SUFFICES ASSUME NEW k \in Instance, jobs'[k[1]].cursor = k[2] PROVE fired[k] > 0
        OBVIOUS
      <4>1. CASE k[1] = i[1]
        <5>1. jobs'[k[1]].cursor = i[2]
          BY <3>1, <3>2, <3>3, <4>1 DEF CronJob
        <5> QED
          BY <3>2, <4>1, <5>1
      <4>2. CASE k[1] # i[1]
        BY <3>1, <4>2
      <4> QED
        BY <4>1, <4>2
    <3> QED
      BY <2>10, <3>4 DEF CursorSave, NextJob
  <2>11. ASSUME NEW m \in Leader, CallFails(m) \/ Crash(m) PROVE FALSE
    BY <2>11 DEF CallFails, Crash, Mishap, TypeOK
  <2>12. CASE UNCHANGED vars
    BY <2>12 DEF vars, materializer
  <2>13. CASE Next
    <3>1. CASE \E j \in Job : DeleteCron(j) \/ \E enabled \in BOOLEAN : CreateCron(j, enabled)
      <4> PICK j \in Job : DeleteCron(j) \/ \E enabled \in BOOLEAN : CreateCron(j, enabled)
        BY <3>1
      <4>1. PICK job \in CronJob : job.cursor = 0 /\ Edit(j, job)
        BY EditsReset, Zenon DEF TypeOK
      <4> QED
        BY <2>2, <4>1
    <3>2. CASE \E m \in Leader : Step(m) \/ CallFails(m) \/ Crash(m)
      BY <2>4, <2>5, <2>6, <2>7, <2>8, <2>9, <2>10, <2>11, <3>2, Zenon DEF Step
    <3>3. CASE \E i \in Instance : Run(i)
      BY <2>3, <3>3, Zenon
    <3> QED
      BY <2>1, <2>13, <3>1, <3>2, <3>3, Zenon DEF Next
  <2> QED
    BY <2>12, <2>13, Zenon
<1>3. QueuedFirst => NeverMarkedUnqueued
  BY DEF QueuedFirst, NeverMarkedUnqueued
<1> QED
  BY <1>1, <1>2, <1>3, CronTyped, PTL DEF Spec
=============================================================================
