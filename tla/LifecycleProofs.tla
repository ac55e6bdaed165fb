-------------------------- MODULE LifecycleProofs --------------------------
(***************************************************************************)
(* Theorems about where the tasks of LeaseQueue are, for every value of    *)
(* the constants: a task is in one place, a lease's record names its       *)
(* holder, a completed task stays completed, and LeaseQueue implements     *)
(* TaskLifecycle.                                                          *)
(*                                                                         *)
(* The argument has two halves.  The first reads off the code what a step  *)
(* does to the places of the tasks (Step, lemma StepMoves): it takes one   *)
(* task along an arrow or a failing process loses what it holds, and every *)
(* other task stays as it is.  The second derives each theorem from that.  *)
(***************************************************************************)
EXTENDS LeaseQueueLifecycle, LeaseQueueProofs

USE DEF redis, worker, reaper, admin

\* The window of SubmitTask is not raced: no two requests with one ID are between
\* Exists and Save at once.  The server's own IDs are unique, and a client that
\* sends its request again after an answer finds the record.  Two that race make
\* two copies of the task, and none of what follows holds of those.
NoSubmitRace ==
    \A c, d \in Client : cpc[c] = "save" /\ cpc[d] = "save" /\ IdOf[c] = IdOf[d] => c = d

\* Requests with IDs of their own never race: all that follows holds of them.
LEMMA UniqueIDs ==
    ASSUME \A c, d \in Client : IdOf[c] = IdOf[d] => c = d PROVE Spec => []NoSubmitRace
<1>1. NoSubmitRace
  BY DEF NoSubmitRace
<1> QED
  BY <1>1, PTL

-----------------------------------------------------------------------------
(* The inductive invariant.                                                 *)

\* A task with no record is nowhere, but for the request that is to save it.
NewIsNowhere ==
    \A t \in Task : rec[t].status = "none" =>
        \A p \in Places(t) : \E c \in Client : p = <<"client", c>>

\* Between Exists and Save a request's task has no record, then it has one.
ClientKnows ==
    \A c \in Client : cpc[c] \in {"save", "queue"} =>
        (cpc[c] = "save" <=> rec[IdOf[c]].status = "none")

\* What a failing process dropped is gone for good.
DroppedIsNowhere ==
    \A t \in dropped : Places(t) = {} /\ rec[t].status \notin {"none", "completed"}

PlaceInv == OnePlace /\ NewIsNowhere /\ ClientKnows /\ DroppedIsNowhere

-----------------------------------------------------------------------------
(* Places as a predicate, which the provers reason about better.            *)

Ready == <<"queue", "ready">>
Delayed == <<"queue", "delayed">>
Processing == <<"queue", "processing">>

At(t, p) ==
    \/ p = Ready /\ t \in ready
    \/ p = Delayed /\ t \in delayed
    \/ p = Processing /\ t \in processing
    \/ \E e \in dlq : p = <<"dlq", e>> /\ e.id = t
    \/ \E w \in Worker : p = <<"worker", w>> /\ Routing(w) /\ held[w].id = t
    \/ \E r \in Reaper : p = <<"reaper", r>> /\ rpc[r] = "push" /\ snap[r].id = t
    \/ \E c \in Client : p = <<"client", c>> /\ cpc[c] \in {"save", "queue"} /\ IdOf[c] = t
    \/ \E a \in Admin : \E e \in batch[a] : p = <<"admin", a, e>> /\ e.id = t

Alone(t, p) == \A x : At(t, x) <=> x = p
Nowhere(t) == \A x : ~At(t, x)

\* The carriers of LeaseQueue's Carried.
Hand(p) ==
    \/ \E w \in Worker : p = <<"worker", w>>
    \/ \E r \in Reaper : p = <<"reaper", r>>
    \/ \E c \in Client : p = <<"client", c>> /\ cpc[c] = "queue"
    \/ \E a \in Admin, e \in Entry : p = <<"admin", a, e>>

\* PlaceInv in those terms, for one task and for all.
TaskInv(t) ==
    /\ \A p, q : At(t, p) /\ At(t, q) => p = q
    /\ rec[t].status = "completed" => Nowhere(t)
    /\ rec[t].status = "none" => \A p : At(t, p) => \E c \in Client : p = <<"client", c>>
    /\ t \in dropped => Nowhere(t) /\ rec[t].status \notin {"none", "completed"}

AtInv == (\A t \in Task : TaskInv(t)) /\ ClientKnows

\* At is membership in Places.
LEMMA PlacesAt == \A t, p : p \in Places(t) <=> At(t, p)
  BY DEF Places, At, Ready, Delayed, Processing

\* The two forms of the invariant say the same.
LEMMA PlaceInvAt == TypeOK => (PlaceInv <=> AtInv)
<1>1. \A t : Places(t) = {} <=> Nowhere(t)
  BY PlacesAt DEF Nowhere
<1> QED
  BY <1>1, PlacesAt DEF TypeOK, PlaceInv, AtInv, TaskInv, OnePlace, NewIsNowhere, DroppedIsNowhere

-----------------------------------------------------------------------------
(* What a step does to the tasks.                                           *)

\* t is about to enter the dead-letter list, or is in it.
Doomed(t) == \/ Buried(t)
             \/ \E w \in Worker : wpc[w] = "bury" /\ held[w].id = t
             \/ \E r \in Reaper : rpc[r] = "push" /\ snap[r].id = t

\* The step does nothing to t.
Still(t) ==
    /\ \A x : At(t, x)' <=> At(t, x)
    /\ rec'[t] = rec[t] /\ holder'[t] = holder[t]
    /\ t \in dropped' <=> t \in dropped
    /\ Doomed(t)' => Doomed(t) \/ "redis" \in Faults

Others(t) == \A u \in Task \ {t} : Still(u)

\* The step takes t, and no other task, from place p to place q.
Moves(t, p, q) ==
    /\ Alone(t, p) /\ Alone(t, q)'
    /\ t \notin dropped'
    /\ Others(t)

\* A request found no record of t and will save one, gave up before it did, or
\* saved it.
Claim(t) == \E c \in Client :
    /\ IdOf[c] = t
    /\ rec[t].status = "none" /\ rec'[t] = rec[t]
    /\ Nowhere(t) /\ Alone(t, <<"client", c>>)'
    /\ cpc' = [cpc EXCEPT ![c] = "save"]
    /\ t \notin dropped'
    /\ Others(t)

Withdraw(t) == \E c \in Client :
    /\ rec'[t] = rec[t]
    /\ Alone(t, <<"client", c>>) /\ Nowhere(t)'
    /\ cpc[c] = "save" /\ cpc' = [cpc EXCEPT ![c] = "failed"]
    /\ t \notin dropped'
    /\ Others(t)

Accept(t) == \E c \in Client :
    /\ Moves(t, <<"client", c>>, <<"client", c>>)
    /\ rec[t].status = "none" /\ rec'[t].status = "pending"
    /\ cpc[c] = "save" /\ cpc' = [cpc EXCEPT ![c] = "queue"]

\* A carrier saves the record of the task it holds, and keeps the task.
Rewrite(t) == \E p :
    /\ Moves(t, p, p) /\ Hand(p) /\ Hand(p)'
    /\ rec'[t].status \in {"pending", "failed"}
    /\ Doomed(t)' => rec'[t].status = "failed"

\* A carrier puts its task into ready or delayed; a delayed one becomes ready.
Enlist(t) == \E p, q :
    /\ Moves(t, p, q) /\ (Hand(p) \/ p = Delayed) /\ q \in {Ready, Delayed}
    /\ rec'[t] = rec[t]

\* A worker leases t, completes it, or releases it to route it; a reaper returns
\* it to ready or takes it to dead letter it.
Take(t) == \E w \in Worker :
    /\ Moves(t, Ready, Processing)
    /\ rec'[t].status = "processing" /\ rec'[t].owner = NodeOf[w] /\ holder'[t] = w

Finish(t) ==
    /\ Alone(t, Processing) /\ Nowhere(t)'
    /\ rec'[t].status = "completed"
    /\ t \notin dropped'
    /\ Others(t)

Release(t) == \E p :
    /\ Moves(t, Processing, p) /\ Hand(p)'
    /\ \/ rec'[t] = rec[t] /\ ~Doomed(t)'
       \/ rec'[t].status = "failed"

Return(t) == Moves(t, Processing, Ready) /\ rec'[t].status = "pending"

\* A carrier dead letters t; a redrive takes it out again.
Inter(t) == \E p, e :
    /\ Moves(t, p, <<"dlq", e>>) /\ Hand(p) /\ e \in dlq'
    /\ rec'[t] = rec[t] /\ Doomed(t)

Exhume(t) == \E a \in Admin, e \in dlq :
    /\ Moves(t, <<"dlq", e>>, <<"admin", a, e>>)
    /\ rec'[t] = rec[t]

\* A failing process loses the tasks of S, the ones it carried or released.
Lose(S) ==
    /\ Faults # {} /\ S # {}
    /\ \A t \in S : /\ \E p : Alone(t, p) /\ (Hand(p) \/ p = Processing)
                    /\ Nowhere(t)'
                    /\ rec'[t] = rec[t]
                    /\ t \in dropped'
    /\ \A u \in Task \ S : Still(u)

\* No request begins or ends its window between Exists and Enqueue, but to leave it.
ClientsGoOn == \A c \in Client : cpc'[c] \in {"save", "queue"} => cpc'[c] = cpc[c]

Step ==
    \/ \E t \in Task : Claim(t) \/ Accept(t)
    \/ /\ ClientsGoOn
       /\ \/ \A t \in Task : Still(t)
          \/ \E t \in Task : \/ Withdraw(t) \/ Rewrite(t) \/ Enlist(t) \/ Take(t)
                             \/ Finish(t) \/ Release(t) \/ Return(t) \/ Inter(t) \/ Exhume(t)
          \/ \E S \in SUBSET Task : Lose(S)

\* A hand-over that leaves p for q, with nothing else about t, is a move.
LEMMA MoveFrom ==
    ASSUME AtInv, NEW t \in Task, NEW p, NEW q,
           At(t, p), At(t, q)', \A x : At(t, x)' => x = q \/ (At(t, x) /\ x # p),
           dropped' = dropped, Others(t)
    PROVE  Moves(t, p, q)
  BY DEF AtInv, TaskInv, Moves, Alone, Nowhere

\* A process that fails with t in its hands, or after it released t, loses t.
LEMMA LoseOne ==
    ASSUME AtInv, NEW t \in Task, NEW p, At(t, p), Hand(p) \/ p = Processing,
           \A x : At(t, x)' => At(t, x) /\ x # p,
           rec'[t] = rec[t], t \in dropped', Others(t), Faults # {}
    PROVE  Lose({t})
  BY DEF AtInv, TaskInv, Lose, Alone, Nowhere, Others

\* A doomed task is dead lettered, with a worker that buries it or with a reaper.
LEMMA DoomedPlace ==
    \A t : Doomed(t) => \E p : /\ At(t, p)
                               /\ \/ \E e \in dlq : p = <<"dlq", e>>
                                  \/ \E w \in Worker : p = <<"worker", w>> /\ wpc[w] = "bury"
                                  \/ \E r \in Reaper : p = <<"reaper", r>>
  BY DEF Doomed, Buried, At, Routing

\* The same of the next state.
LEMMA DoomedPlaceNext ==
    (\A t : Doomed(t) => \E p : /\ At(t, p)
                                /\ \/ \E e \in dlq : p = <<"dlq", e>>
                                   \/ \E w \in Worker : p = <<"worker", w>> /\ wpc[w] = "bury"
                                   \/ \E r \in Reaper : p = <<"reaper", r>>)'
  BY DoomedPlace, PTL

\* What a worker's steps do to the tasks.
LEMMA WorkerMoves ==
    ASSUME TypeOK, AtInv, NEW o \in Worker, WorkerStep(o)
    PROVE  Step
<1>1. ASSUME NEW w \in Worker, Dequeue(w) PROVE Step
  <2> PICK t \in Best : Lease(w, t)
    BY <1>1 DEF Dequeue
  <2> t \in Task /\ t \in ready
    BY DEF Best, TypeOK
  <2> DEFINE p == Ready
  <2> PICK q : q = Processing
    OBVIOUS
  <2>1. At(t, p)
    BY <1>1 DEF Dequeue, Lease, At, TypeOK
  <2>2. At(t, q)'
    BY <1>1 DEF Dequeue, Lease, At, TypeOK
  <2>3. ASSUME NEW x, At(t, x)' PROVE x = q \/ (At(t, x) /\ x # p)
    BY <1>1, <2>3 DEF Dequeue, Lease, At, Ready, Delayed, Routing
  <2>4. Others(t) /\ ClientsGoOn /\ dropped' = dropped
    BY <1>1 DEF Dequeue, Lease, At, Routing, TypeOK, Others, Still, Doomed, Buried, ClientsGoOn
  <2>5. Moves(t, p, q)
    BY <2>1, <2>2, <2>3, <2>4, MoveFrom
  <2>6. Take(t)
    BY <1>1, <2>5 DEF Dequeue, Lease, Take, TypeOK
  <2> QED
    BY <2>4, <2>6 DEF Step
<1>2. ASSUME NEW w \in Worker, Hydrate(w) PROVE ClientsGoOn /\ \A t \in Task : Still(t)
  BY <1>2 DEF Hydrate, At, Routing, Still, Doomed, Buried, ClientsGoOn
<1>3. ASSUME NEW w \in Worker, Work(w) PROVE ClientsGoOn /\ \A t \in Task : Still(t)
  BY <1>3 DEF Work, At, Routing, Still, Doomed, Buried, ClientsGoOn
<1>4. ASSUME NEW w \in Worker, Ack(w) PROVE Step
  <2> PICK t \in Task : t = held[w].id
    BY <1>4 DEF Ack, TypeOK
  <2>1. At(t, Processing)
    BY <1>4 DEF Ack, LeaseHeld, At
  <2>2. ASSUME NEW x, At(t, x)' PROVE At(t, x) /\ x # Processing
    BY <1>4, <2>2 DEF Ack, Unlease, Idle, At, Ready, Delayed, Processing, Routing
  <2>3. Others(t) /\ ClientsGoOn /\ dropped' = dropped
    BY <1>4 DEF Ack, Unlease, Idle, At, Routing, TypeOK, Others, Still, Doomed, Buried, ClientsGoOn
  <2>4. Finish(t)
    BY <1>4, <2>1, <2>2, <2>3 DEF Ack, Finish, AtInv, TaskInv, Alone, Nowhere, TypeOK
  <2> QED
    BY <2>3, <2>4 DEF Step
<1>5. ASSUME NEW w \in Worker, Nack(w) PROVE Step
  <2> PICK t \in Task : t = held[w].id
    BY <1>5 DEF Nack, LeaseHeld, Unlease, TypeOK
  <2> DEFINE p == Processing
  <2> PICK q : q = <<"worker", w>>
    OBVIOUS
  <2>1. At(t, p)
    BY <1>5 DEF Nack, LeaseHeld, At, TypeOK
  <2>2. At(t, q)'
    BY <1>5 DEF Nack, At, Routing, TypeOK
  <2>3. ASSUME NEW x, At(t, x)' PROVE x = q \/ (At(t, x) /\ x # p)
    BY <1>5, <2>3 DEF Nack, Unlease, At, Ready, Delayed, Processing, Routing
  <2>4. Others(t) /\ ClientsGoOn /\ dropped' = dropped
    BY <1>5 DEF Nack, Unlease, At, Routing, Others, Still, Doomed, Buried, ClientsGoOn
  <2>5. Moves(t, p, q)
    BY <2>1, <2>2, <2>3, <2>4, MoveFrom
  <2>6. Release(t)
    <3>1. ~Doomed(t)'
      BY <1>5, <2>5, DoomedPlaceNext DEF Nack, Moves, Alone, TypeOK
    <3> QED
      BY <1>5, <2>5, <3>1 DEF Nack, Release, Hand
  <2> QED
    BY <2>4, <2>6 DEF Step
<1>6. ASSUME NEW w \in Worker, LeaseNotHeld(w) PROVE ClientsGoOn /\ \A t \in Task : Still(t)
  BY <1>6 DEF LeaseNotHeld, Idle, At, Routing, Still, Doomed, Buried, ClientsGoOn
<1>7. ASSUME NEW w \in Worker, SaveRetry(w) PROVE Step
  <2> PICK t \in Task : t = held[w].id
    BY <1>7 DEF SaveRetry, TypeOK, Copy, Entry
  <2> DEFINE p == <<"worker", w>>
  <2> PICK q : q = <<"worker", w>>
    OBVIOUS
  <2>1. At(t, p)
    BY <1>7 DEF SaveRetry, At, Routing, TypeOK
  <2>2. At(t, q)'
    BY <1>7 DEF SaveRetry, At, Routing, TypeOK
  <2>3. ASSUME NEW x, At(t, x)' PROVE x = q \/ (At(t, x) /\ x # p)
    BY <1>7, <2>3 DEF SaveRetry, At, Routing, TypeOK
  <2>4. Others(t) /\ ClientsGoOn /\ dropped' = dropped
    BY <1>7 DEF SaveRetry, At, Routing, Others, Still, Doomed, Buried, ClientsGoOn
  <2>5. Moves(t, p, q)
    BY <2>1, <2>2, <2>3, <2>4, MoveFrom
  <2>6. Rewrite(t)
    <3>1. ~Doomed(t)'
      BY <1>7, <2>5, DoomedPlaceNext DEF SaveRetry, Moves, Alone, TypeOK
    <3> QED
      BY <1>7, <2>5, <3>1 DEF SaveRetry, Rewrite, Hand, TypeOK
  <2> QED
    BY <2>4, <2>6 DEF Step
<1>8. ASSUME NEW w \in Worker, SaveFailed(w) PROVE Step
  <2> PICK t \in Task : t = held[w].id
    BY <1>8 DEF SaveFailed, TypeOK, Copy, Entry
  <2> DEFINE p == <<"worker", w>>
  <2> PICK q : q = <<"worker", w>>
    OBVIOUS
  <2>1. At(t, p)
    BY <1>8 DEF SaveFailed, At, Routing, TypeOK
  <2>2. At(t, q)'
    BY <1>8 DEF SaveFailed, At, Routing, TypeOK
  <2>3. ASSUME NEW x, At(t, x)' PROVE x = q \/ (At(t, x) /\ x # p)
    BY <1>8, <2>3 DEF SaveFailed, At, Routing, TypeOK
  <2>4. Others(t) /\ ClientsGoOn /\ dropped' = dropped
    BY <1>8 DEF SaveFailed, At, Routing, Others, Still, Doomed, Buried, ClientsGoOn
  <2>5. Moves(t, p, q)
    BY <2>1, <2>2, <2>3, <2>4, MoveFrom
  <2>6. Rewrite(t)
    BY <1>8, <2>5 DEF SaveFailed, Rewrite, Hand, TypeOK
  <2> QED
    BY <2>4, <2>6 DEF Step
<1>9. ASSUME NEW w \in Worker, ScheduleRetry(w) PROVE Step
  <2> PICK t \in Task : t = held[w].id
    BY <1>9 DEF ScheduleRetry, Idle, NoCopy, TypeOK
  <2> DEFINE p == <<"worker", w>>
  <2> PICK q : q = Delayed
    OBVIOUS
  <2>1. At(t, p)
    BY <1>9 DEF ScheduleRetry, At, Routing, TypeOK
  <2>2. At(t, q)'
    BY <1>9 DEF ScheduleRetry, Idle, At, TypeOK
  <2>3. ASSUME NEW x, At(t, x)' PROVE x = q \/ (At(t, x) /\ x # p)
    BY <1>9, <2>3 DEF ScheduleRetry, Idle, At, Ready, Processing, Routing, TypeOK
  <2>4. Others(t) /\ ClientsGoOn /\ dropped' = dropped
    BY <1>9 DEF ScheduleRetry, Idle, At, Routing, TypeOK, Others, Still, Doomed, Buried, ClientsGoOn
  <2>5. Moves(t, p, q)
    BY <2>1, <2>2, <2>3, <2>4, MoveFrom
  <2>6. Enlist(t)
    BY <1>9, <2>5 DEF ScheduleRetry, Idle, Enlist, Hand
  <2> QED
    BY <2>4, <2>6 DEF Step
<1>10. ASSUME NEW w \in Worker, Bury(w) PROVE Step
  <2> PICK t \in Task : t = held[w].id
    BY <1>10 DEF Bury, Idle, NoCopy, TypeOK
  <2> DEFINE p == <<"worker", w>>
  <2> PICK q : q = <<"dlq", [id |-> t, owner |-> held[w].owner]>>
    OBVIOUS
  <2>1. At(t, p)
    BY <1>10 DEF Bury, At, Routing, TypeOK
  <2>2. At(t, q)'
    BY <1>10 DEF Bury, Idle, At, TypeOK
  <2>3. ASSUME NEW x, At(t, x)' PROVE x = q \/ (At(t, x) /\ x # p)
    BY <1>10, <2>3 DEF Bury, Idle, At, Ready, Delayed, Processing, Routing, TypeOK
  <2>4. Others(t) /\ ClientsGoOn /\ dropped' = dropped
    BY <1>10 DEF Bury, Idle, At, Routing, TypeOK, Others, Still, Doomed, Buried, ClientsGoOn
  <2>5. Moves(t, p, q)
    BY <2>1, <2>2, <2>3, <2>4, MoveFrom
  <2>6. Inter(t)
    BY <1>10, <2>5 DEF Bury, Inter, Hand, Doomed
  <2> QED
    BY <2>4, <2>6 DEF Step
<1> QED
  BY <1>1, <1>2, <1>3, <1>4, <1>5, <1>6, <1>7, <1>8, <1>9, <1>10 DEF Step, WorkerStep

\* What a submit request does to the tasks.
LEMMA SubmitMoves ==
    ASSUME TypeOK, AtInv, NoSubmitRace', NEW b \in Client, SubmitStep(b)
    PROVE  Step
<1>1. ASSUME NEW c \in Client, SubmitExists(c) PROVE Step
  <2> PICK t \in Task : t = IdOf[c]
    BY TypesOfConstants
  <2>1. CASE rec[t].status # "none"
    <3>1. ClientsGoOn /\ \A u \in Task : Still(u)
      BY <1>1, <2>1 DEF SubmitExists, At, Routing, Still, Doomed, Buried, ClientsGoOn
    <3> QED
      BY <3>1 DEF Step
  <2>2. CASE rec[t].status = "none"
    <3>1. Nowhere(t)
      <4> SUFFICES ASSUME NEW d \in Client, At(t, <<"client", d>>) PROVE FALSE
        BY <2>2 DEF AtInv, TaskInv, Nowhere
      <4>1. IdOf[d] = t /\ cpc[d] = "save"
        BY <2>2 DEF AtInv, ClientKnows, At, Ready, Delayed, Processing
      <4> QED
        BY <1>1, <2>2, <4>1 DEF SubmitExists, NoSubmitRace, TypeOK
    <3>2. Alone(t, <<"client", c>>)'
      BY <1>1, <2>2, <3>1 DEF SubmitExists, Alone, Nowhere, At, Routing, TypeOK
    <3>3. Others(t)
      BY <1>1, <2>2 DEF SubmitExists, At, Routing, Others, Still, Doomed, Buried
    <3>4. t \notin dropped'
      BY <1>1, <2>2 DEF SubmitExists, AtInv, TaskInv
    <3>5. Claim(t)
      BY <1>1, <2>2, <3>1, <3>2, <3>3, <3>4 DEF SubmitExists, Claim
    <3> QED
      BY <3>5 DEF Step
  <2> QED
    BY <2>1, <2>2
<1>2. ASSUME NEW c \in Client, SubmitSave(c) PROVE Step
  <2> PICK t \in Task : t = IdOf[c]
    BY TypesOfConstants
  <2> PICK p : p = <<"client", c>>
    OBVIOUS
  <2>1. At(t, p)
    BY <1>2 DEF SubmitSave, At, Ready, Routing
  <2>2. At(t, p)'
    BY <1>2 DEF SubmitSave, At, Routing, TypeOK
  <2>3. ASSUME NEW x, At(t, x)' PROVE x = p \/ (At(t, x) /\ x # p)
    BY <1>2, <2>3 DEF SubmitSave, At, Routing, TypeOK
  <2>4. Others(t) /\ dropped' = dropped
    BY <1>2 DEF SubmitSave, At, Routing, Others, Still, Doomed, Buried
  <2>5. Moves(t, p, p)
    BY <2>1, <2>2, <2>3, <2>4, MoveFrom
  <2>6. Accept(t)
    BY <1>2, <2>5 DEF SubmitSave, Accept, AtInv, TaskInv, ClientKnows, Fresh, TypeOK
  <2> QED
    BY <2>6 DEF Step
<1>3. ASSUME NEW c \in Client, SubmitEnqueue(c) PROVE Step
  <2> PICK t \in Task : t = IdOf[c]
    BY TypesOfConstants
  <2> DEFINE p == <<"client", c>>
  <2> PICK q : q = Ready
    OBVIOUS
  <2>1. At(t, p)
    BY <1>3 DEF SubmitEnqueue, At, Routing, TypeOK
  <2>2. At(t, q)'
    BY <1>3 DEF SubmitEnqueue, At, Routing, TypeOK
  <2>3. ASSUME NEW x, At(t, x)' PROVE x = q \/ (At(t, x) /\ x # p)
    BY <1>3, <2>3 DEF SubmitEnqueue, At, Delayed, Processing, Routing, TypeOK
  <2>4. Others(t) /\ ClientsGoOn /\ dropped' = dropped
    BY <1>3 DEF SubmitEnqueue, At, Routing, Others, Still, Doomed, Buried, ClientsGoOn
  <2>5. Moves(t, p, q)
    BY <2>1, <2>2, <2>3, <2>4, MoveFrom
  <2>6. Enlist(t)
    BY <1>3, <2>5 DEF SubmitEnqueue, Enlist, Hand
  <2> QED
    BY <2>4, <2>6 DEF Step
<1>4. ASSUME NEW c \in Client, SubmitSchedule(c) PROVE Step
  <2> PICK t \in Task : t = IdOf[c]
    BY TypesOfConstants
  <2> DEFINE p == <<"client", c>>
  <2> PICK q : q = Delayed
    OBVIOUS
  <2>1. At(t, p)
    BY <1>4 DEF SubmitSchedule, At, Routing, TypeOK
  <2>2. At(t, q)'
    BY <1>4 DEF SubmitSchedule, At, Routing, TypeOK
  <2>3. ASSUME NEW x, At(t, x)' PROVE x = q \/ (At(t, x) /\ x # p)
    BY <1>4, <2>3 DEF SubmitSchedule, At, Ready, Processing, Routing, TypeOK
  <2>4. Others(t) /\ ClientsGoOn /\ dropped' = dropped
    BY <1>4 DEF SubmitSchedule, At, Routing, Others, Still, Doomed, Buried, ClientsGoOn
  <2>5. Moves(t, p, q)
    BY <2>1, <2>2, <2>3, <2>4, MoveFrom
  <2>6. Enlist(t)
    BY <1>4, <2>5 DEF SubmitSchedule, Enlist, Hand
  <2> QED
    BY <2>4, <2>6 DEF Step
<1> QED
  BY <1>1, <1>2, <1>3, <1>4 DEF Step, SubmitStep

\* What the scheduler and the passing of time do to the tasks.
LEMMA QueueMoves ==
    ASSUME TypeOK, AtInv, NEW v \in Task, Promote(v) \/ Expire(v)
    PROVE  Step
<1>1. ASSUME NEW t \in Task, Promote(t) PROVE Step
  <2> DEFINE p == Delayed
  <2> PICK q : q = Ready
    OBVIOUS
  <2>1. At(t, p)
    BY <1>1 DEF Promote, At, Routing, TypeOK
  <2>2. At(t, q)'
    BY <1>1 DEF Promote, At, Routing, TypeOK
  <2>3. ASSUME NEW x, At(t, x)' PROVE x = q \/ (At(t, x) /\ x # p)
    BY <1>1, <2>3 DEF Promote, At, Delayed, Processing, Routing
  <2>4. Others(t) /\ ClientsGoOn /\ dropped' = dropped
    BY <1>1 DEF Promote, At, Routing, Others, Still, Doomed, Buried, ClientsGoOn
  <2>5. Moves(t, p, q)
    BY <2>1, <2>2, <2>3, <2>4, MoveFrom
  <2>6. Enlist(t)
    BY <1>1, <2>5 DEF Promote, Enlist, Hand
  <2> QED
    BY <2>4, <2>6 DEF Step
<1>2. ASSUME NEW e \in Task, Expire(e) PROVE ClientsGoOn /\ \A t \in Task : Still(t)
  BY <1>2 DEF Expire, At, Routing, Still, Doomed, Buried, ClientsGoOn
<1> QED
  BY <1>1, <1>2 DEF Step

\* What a reaper's steps do to the tasks.
LEMMA ReaperMoves ==
    ASSUME TypeOK, AtInv, NEW s \in Reaper, ReaperStep(s) \/ \E n \in Node : ScanNode(s, n)
    PROVE  Step
<1>1. ASSUME NEW r \in Reaper, ScanLeases(r) PROVE ClientsGoOn /\ \A t \in Task : Still(t)
  BY <1>1 DEF ScanLeases, Scan, At, Routing, Still, Doomed, Buried, ClientsGoOn
<1>2. ASSUME NEW r \in Reaper, ReaperGet(r) PROVE ClientsGoOn /\ \A t \in Task : Still(t)
  BY <1>2 DEF ReaperGet, At, Routing, Still, Doomed, Buried, ClientsGoOn
<1>3. ASSUME NEW r \in Reaper, LostRace(r) PROVE ClientsGoOn /\ \A t \in Task : Still(t)
  BY <1>3 DEF LostRace, NextId, At, Routing, Still, Doomed, Buried, ClientsGoOn
<1>4. ASSUME NEW r \in Reaper, Reclaim(r) PROVE Step
  <2> PICK t \in Task : t = snap[r].id
    BY <1>4 DEF Reclaim, Unlease, NextId, TypeOK
  <2> DEFINE p == Processing
  <2> PICK q : q = Ready
    OBVIOUS
  <2>1. At(t, p)
    BY <1>4 DEF Reclaim, NextId, At, TypeOK
  <2>2. At(t, q)'
    BY <1>4 DEF Reclaim, NextId, At, TypeOK
  <2>3. ASSUME NEW x, At(t, x)' PROVE x = q \/ (At(t, x) /\ x # p)
    BY <1>4, <2>3 DEF Reclaim, Unlease, NextId, At, Delayed, Processing, Routing
  <2>4. Others(t) /\ ClientsGoOn /\ dropped' = dropped
    BY <1>4 DEF Reclaim, Unlease, NextId, At, Routing, Others, Still, Doomed, Buried, ClientsGoOn
  <2>5. Moves(t, p, q)
    BY <2>1, <2>2, <2>3, <2>4, MoveFrom
  <2>6. Return(t)
    BY <1>4, <2>5 DEF Reclaim, Return, TypeOK
  <2> QED
    BY <2>4, <2>6 DEF Step
<1>5. ASSUME NEW r \in Reaper, DeadLetter(r) PROVE Step
  <2> PICK t \in Task : t = snap[r].id
    BY <1>5 DEF DeadLetter, Unlease, TypeOK, Entry
  <2> DEFINE p == Processing
  <2> PICK q : q = <<"reaper", r>>
    OBVIOUS
  <2>1. At(t, p)
    BY <1>5 DEF DeadLetter, Unlease, At, TypeOK
  <2>2. At(t, q)'
    BY <1>5 DEF DeadLetter, Unlease, At, TypeOK
  <2>3. ASSUME NEW x, At(t, x)' PROVE x = q \/ (At(t, x) /\ x # p)
    BY <1>5, <2>3 DEF DeadLetter, Unlease, At, Ready, Delayed, Processing, Routing
  <2>4. Others(t) /\ ClientsGoOn /\ dropped' = dropped
    BY <1>5 DEF DeadLetter, Unlease, At, Routing, Others, Still, Doomed, Buried, ClientsGoOn
  <2>5. Moves(t, p, q)
    BY <2>1, <2>2, <2>3, <2>4, MoveFrom
  <2>6. Release(t)
    BY <1>5, <2>5 DEF DeadLetter, MarkFailed, Release, Hand, TypeOK
  <2> QED
    BY <2>4, <2>6 DEF Step
<1>6. ASSUME NEW r \in Reaper, ReaperPush(r) PROVE Step
  <2> PICK t \in Task : t = snap[r].id
    BY <1>6 DEF ReaperPush, NextId, NoEntry, TypeOK
  <2> DEFINE p == <<"reaper", r>>
  <2> PICK q : q = <<"dlq", snap[r]>>
    OBVIOUS
  <2>1. At(t, p)
    BY <1>6 DEF ReaperPush, NextId, At, TypeOK
  <2>2. At(t, q)'
    BY <1>6 DEF ReaperPush, NextId, At, TypeOK
  <2>3. ASSUME NEW x, At(t, x)' PROVE x = q \/ (At(t, x) /\ x # p)
    BY <1>6, <2>3 DEF ReaperPush, NextId, At, Ready, Delayed, Processing, Routing, TypeOK
  <2>4. Others(t) /\ ClientsGoOn /\ dropped' = dropped
    BY <1>6 DEF ReaperPush, NextId, At, Routing, TypeOK, Others, Still, Doomed, Buried, ClientsGoOn
  <2>5. Moves(t, p, q)
    BY <2>1, <2>2, <2>3, <2>4, MoveFrom
  <2>6. Inter(t)
    BY <1>6, <2>5 DEF ReaperPush, Inter, Hand, Doomed
  <2> QED
    BY <2>4, <2>6 DEF Step
<1>7. ASSUME NEW r \in Reaper, \E n \in Node : ScanNode(r, n)
      PROVE  ClientsGoOn /\ \A t \in Task : Still(t)
  BY <1>7 DEF ScanNode, Scan, At, Routing, Still, Doomed, Buried, ClientsGoOn
<1> QED
  BY <1>1, <1>2, <1>3, <1>4, <1>5, <1>6, <1>7 DEF Step, ReaperStep

\* What a redrive does to the tasks.
LEMMA RedriveMoves ==
    ASSUME TypeOK, AtInv, NEW b \in Admin, RedriveStep(b)
    PROVE  Step
<1>1. ASSUME NEW a \in Admin, DrainPop(a) PROVE Step
  <2> PICK e \in dlq : dlq' = dlq \ {e} /\ batch' = [batch EXCEPT ![a] = batch[a] \cup {e}]
    BY <1>1 DEF DrainPop
  <2> PICK t \in Task : t = e.id
    BY DEF TypeOK
  <2> PICK p, q : p = <<"dlq", e>> /\ q = <<"admin", a, e>>
    OBVIOUS
  <2>1. At(t, p)
    BY DEF At
  <2>2. At(t, q)'
    BY <1>1 DEF At, Ready, Routing, TypeOK
  <2>3. ASSUME NEW x, At(t, x)' PROVE x = q \/ (At(t, x) /\ x # p)
    BY <1>1, <2>3 DEF DrainPop, At, Ready, Delayed, Processing, Routing
  <2>4. Others(t) /\ ClientsGoOn /\ dropped' = dropped
    BY <1>1 DEF DrainPop, At, Routing, Others, Still, Doomed, Buried, ClientsGoOn
  <2>5. Moves(t, p, q)
    BY <2>1, <2>2, <2>3, <2>4, MoveFrom
  <2>6. Exhume(t)
    BY <1>1, <2>5 DEF DrainPop, Exhume, Hand, TypeOK
  <2> QED
    BY <2>4, <2>6 DEF Step
<1>2. ASSUME NEW a \in Admin, DrainEnd(a) PROVE ClientsGoOn /\ \A t \in Task : Still(t)
  BY <1>2 DEF DrainEnd, At, Routing, Still, Doomed, Buried, ClientsGoOn
<1>3. ASSUME NEW a \in Admin, RedriveSave(a) PROVE Step
  <2> PICK e \in batch[a] : rec' = [rec EXCEPT ![e.id] = [Fresh EXCEPT !.owner = e.owner]]
    BY <1>3 DEF RedriveSave
  <2> PICK t \in Task : t = e.id
    BY DEF TypeOK
  <2> PICK p : p = <<"admin", a, e>>
    OBVIOUS
  <2>1. At(t, p)
    BY DEF At
  <2>2. At(t, p)'
    BY <1>3 DEF RedriveSave, At, Ready, Routing
  <2>3. ASSUME NEW x, At(t, x)' PROVE x = p \/ (At(t, x) /\ x # p)
    BY <1>3, <2>3 DEF RedriveSave, At, Ready, Routing
  <2>4. Others(t) /\ ClientsGoOn /\ dropped' = dropped
    BY <1>3 DEF RedriveSave, At, Routing, Others, Still, Doomed, Buried, ClientsGoOn
  <2>5. Moves(t, p, p)
    BY <2>1, <2>2, <2>3, <2>4, MoveFrom
  <2>6. Rewrite(t)
    <3>1. ~Doomed(t)'
      BY <2>5, DoomedPlaceNext DEF Moves, Alone
    <3> QED
      BY <2>5, <3>1 DEF RedriveSave, Fresh, Rewrite, Hand, TypeOK
  <2> QED
    BY <2>4, <2>6 DEF Step
<1>4. ASSUME NEW a \in Admin, RedriveEnqueue(a) PROVE Step
  <2> PICK t \in Task : t = cur[a].id
    BY <1>4 DEF RedriveEnqueue, NextEntry, NoEntry, TypeOK
  <2> DEFINE p == <<"admin", a, cur[a]>>
  <2> PICK q : q = Ready
    OBVIOUS
  <2>1. At(t, p)
    BY <1>4 DEF RedriveEnqueue, NextEntry, At, TypeOK
  <2>2. At(t, q)'
    BY <1>4 DEF RedriveEnqueue, NextEntry, At, TypeOK
  <2>3. ASSUME NEW x, At(t, x)' PROVE x = q \/ (At(t, x) /\ x # p)
    BY <1>4, <2>3 DEF RedriveEnqueue, NextEntry, At, Delayed, Processing, Routing, TypeOK
  <2>4. Others(t) /\ ClientsGoOn /\ dropped' = dropped
    BY <1>4 DEF RedriveEnqueue, NextEntry, At, Routing, Others, Still, Doomed, Buried, ClientsGoOn
  <2>5. Moves(t, p, q)
    BY <2>1, <2>2, <2>3, <2>4, MoveFrom
  <2>6. Enlist(t)
    BY <1>4, <2>5 DEF RedriveEnqueue, Enlist, Hand, TypeOK
  <2> QED
    BY <2>4, <2>6 DEF Step
<1> QED
  BY <1>1, <1>2, <1>3, <1>4 DEF Step, RedriveStep

\* What the end of a request, or of a reaper's call, does to the tasks.
LEMMA SubmitLosses ==
    ASSUME TypeOK, AtInv, NEW b \in Client, SubmitFails(b)
    PROVE  Step
<1>1. ASSUME NEW c \in Client, SubmitFails(c), cpc[c] = "start"
      PROVE  ClientsGoOn /\ \A t \in Task : Still(t)
  BY <1>1 DEF SubmitFails, At, Routing, Still, Doomed, Buried, ClientsGoOn
<1>2. ASSUME NEW c \in Client, SubmitFails(c), cpc[c] = "save" PROVE Step
  <2> PICK t \in Task : t = IdOf[c]
    BY TypesOfConstants
  <2>1. At(t, <<"client", c>>)
    BY <1>2 DEF At
  <2>2. ASSUME NEW x, At(t, x)' PROVE At(t, x) /\ x # <<"client", c>>
    BY <1>2, <2>2 DEF SubmitFails, At, Ready, Delayed, Processing, Routing, TypeOK
  <2>3. Others(t) /\ ClientsGoOn /\ dropped' = dropped
    BY <1>2 DEF SubmitFails, At, Routing, Others, Still, Doomed, Buried, ClientsGoOn
  <2>4. Withdraw(t)
    BY <1>2, <2>1, <2>2, <2>3 DEF SubmitFails, Withdraw, AtInv, TaskInv, Alone, Nowhere
  <2> QED
    BY <2>3, <2>4 DEF Step
<1>3. ASSUME NEW c \in Client, SubmitFails(c), cpc[c] = "queue" PROVE Step
  <2> PICK t \in Task : t = IdOf[c]
    BY TypesOfConstants
  <2> PICK p : p = <<"client", c>>
    OBVIOUS
  <2>1. At(t, p) /\ (Hand(p) \/ p = Processing)
    BY <1>3 DEF SubmitFails, At, TypeOK, Hand
  <2>2. ASSUME NEW x, At(t, x)' PROVE At(t, x) /\ x # p
    BY <1>3, <2>2 DEF SubmitFails, At, Ready, Delayed, Processing, Routing, TypeOK
  <2>3. Others(t) /\ ClientsGoOn
    BY <1>3 DEF SubmitFails, At, Routing, Others, Still, Doomed, Buried, ClientsGoOn
  <2>4. rec'[t] = rec[t] /\ t \in dropped' /\ Faults # {}
    BY <1>3 DEF SubmitFails
  <2>5. Lose({t})
    BY <2>1, <2>2, <2>3, <2>4, LoseOne
  <2> QED
    BY <2>3, <2>5 DEF Step
<1> QED
  BY <1>1, <1>2, <1>3 DEF Step, SubmitFails

\* What a failing reaper does to the tasks.
LEMMA ReaperLosses ==
    ASSUME TypeOK, AtInv, NEW s \in Reaper, CrashReaper(s) \/ ReaperCallFails(s)
    PROVE  Step
<1>1. ASSUME NEW r \in Reaper, CrashReaper(r), rpc[r] # "push"
      PROVE  ClientsGoOn /\ \A t \in Task : Still(t)
  BY <1>1 DEF CrashReaper, At, Routing, Still, Doomed, Buried, ClientsGoOn
<1>2. ASSUME NEW r \in Reaper, CrashReaper(r), rpc[r] = "push" PROVE Step
  <2> PICK t \in Task : t = snap[r].id
    BY <1>2 DEF CrashReaper, NoEntry, TypeOK, Entry
  <2> PICK p : p = <<"reaper", r>>
    OBVIOUS
  <2>1. At(t, p) /\ (Hand(p) \/ p = Processing)
    BY <1>2 DEF CrashReaper, At, TypeOK, Hand
  <2>2. ASSUME NEW x, At(t, x)' PROVE At(t, x) /\ x # p
    BY <1>2, <2>2 DEF CrashReaper, At, Ready, Delayed, Processing, Routing, TypeOK
  <2>3. Others(t) /\ ClientsGoOn
    BY <1>2 DEF CrashReaper, At, Routing, TypeOK, Others, Still, Doomed, Buried, ClientsGoOn
  <2>4. rec'[t] = rec[t] /\ t \in dropped' /\ Faults # {}
    BY <1>2 DEF CrashReaper, NoEntry
  <2>5. Lose({t})
    BY <2>1, <2>2, <2>3, <2>4, LoseOne
  <2> QED
    BY <2>3, <2>5 DEF Step
<1>3. ASSUME NEW r \in Reaper, ReaperCallFails(r), rpc[r] # "push"
      PROVE  ClientsGoOn /\ \A t \in Task : Still(t)
  BY <1>3 DEF ReaperCallFails, NextId, At, Routing, Still, ClientsGoOn
<1>4. ASSUME NEW r \in Reaper, ReaperCallFails(r), rpc[r] = "push" PROVE Step
  <2> PICK t \in Task : t = snap[r].id
    BY <1>4 DEF ReaperCallFails, NextId, NoEntry, TypeOK
  <2> PICK p : p = <<"reaper", r>>
    OBVIOUS
  <2>1. At(t, p) /\ (Hand(p) \/ p = Processing)
    BY <1>4 DEF ReaperCallFails, NextId, At, Hand
  <2>2. ASSUME NEW x, At(t, x)' PROVE At(t, x) /\ x # p
    BY <1>4, <2>2 DEF ReaperCallFails, NextId, At, Ready, Delayed, Processing, Routing, TypeOK
  <2>3. Others(t) /\ ClientsGoOn
    BY <1>4 DEF ReaperCallFails, NextId, At, Routing, TypeOK, Others, Still, ClientsGoOn
  <2>4. rec'[t] = rec[t] /\ t \in dropped' /\ Faults # {}
    BY <1>4 DEF ReaperCallFails, NextId, NoEntry
  <2>5. Lose({t})
    BY <2>1, <2>2, <2>3, <2>4, LoseOne
  <2> QED
    BY <2>3, <2>5 DEF Step
<1> QED
  BY <1>1, <1>2, <1>3, <1>4 DEF Step

\* What a failing redrive does to the tasks.
LEMMA RedriveLosses ==
    ASSUME TypeOK, AtInv, NEW b \in Admin, RedriveFails(b) \/ RedriveSkips(b)
    PROVE  Step
<1>1. ASSUME NEW a \in Admin, RedriveFails(a) PROVE Step
  <2> DEFINE S == {e.id : e \in batch[a]}
  <2>1. ClientsGoOn /\ S \in SUBSET Task /\ Faults # {}
    BY <1>1 DEF RedriveFails, ClientsGoOn, TypeOK, Entry
  <2>2. ASSUME NEW u \in Task, \A e \in batch[a] : u # e.id PROVE Still(u)
    BY <1>1, <2>2 DEF RedriveFails, At, Routing, Still, Doomed, Buried
  <2>3. ASSUME NEW t \in Task, NEW e \in batch[a], t = e.id
        PROVE  /\ \E p : Alone(t, p) /\ (Hand(p) \/ p = Processing)
               /\ Nowhere(t)' /\ rec'[t] = rec[t] /\ t \in dropped'
    <3> PICK p : p = <<"admin", a, e>>
      OBVIOUS
    <3>1. At(t, p) /\ Hand(p)
      BY <2>3 DEF At, Hand, TypeOK, Entry
    <3>2. Alone(t, p)
      BY <3>1 DEF AtInv, TaskInv, Alone
    <3>3. ASSUME NEW x, At(t, x)' PROVE At(t, x) /\ x # p
      BY <1>1, <2>3, <3>3 DEF RedriveFails, At, Ready, Delayed, Processing, Routing, TypeOK
    <3>4. rec'[t] = rec[t] /\ t \in dropped'
      BY <1>1, <2>3 DEF RedriveFails
    <3> QED
      BY <3>1, <3>2, <3>3, <3>4 DEF Alone, Nowhere
  <2>4. (\A t \in Task : Still(t)) \/ Lose(S)
    BY <2>1, <2>2, <2>3 DEF Lose
  <2> QED
    BY <2>1, <2>4 DEF Step
<1>2. ASSUME NEW a \in Admin, RedriveSkips(a) PROVE Step
  <2> PICK e \in batch[a] : (apc[a] = "enqueue" => e = cur[a]) /\ Drop(e.id) /\ NextEntry(a, e)
    BY <1>2 DEF RedriveSkips
  <2> PICK t \in Task : t = e.id
    BY DEF TypeOK
  <2> PICK p : p = <<"admin", a, e>>
    OBVIOUS
  <2>1. At(t, p) /\ (Hand(p) \/ p = Processing)
    BY <1>2 DEF RedriveSkips, Drop, NextEntry, At, TypeOK, Hand
  <2>2. ASSUME NEW x, At(t, x)' PROVE At(t, x) /\ x # p
    BY <1>2, <2>2 DEF RedriveSkips, Drop, NextEntry, At, Ready, Delayed, Processing, Routing, TypeOK
  <2>3. Others(t) /\ ClientsGoOn
    BY <1>2 DEF RedriveSkips, Drop, NextEntry, At, Routing, Others, Still, ClientsGoOn
  <2>4. rec'[t] = rec[t] /\ t \in dropped' /\ Faults # {}
    BY <1>2 DEF RedriveSkips, Drop, NextEntry, NoEntry
  <2>5. Lose({t})
    BY <2>1, <2>2, <2>3, <2>4, LoseOne
  <2> QED
    BY <2>3, <2>5 DEF Step
<1> QED
  BY <1>1, <1>2 DEF Step

\* What a failing worker does to the tasks.
LEMMA WorkerLosses ==
    ASSUME TypeOK, AtInv, NEW o \in Worker, WorkerFault(o)
    PROVE  Step
<1>1. ASSUME NEW w \in Worker, DequeueReplyLost(w) PROVE Step
  <2> PICK t \in Best : Lease(w, t)
    BY <1>1 DEF DequeueReplyLost
  <2> t \in Task /\ t \in ready
    BY DEF Best, TypeOK
  <2> DEFINE p == Ready
  <2> PICK q : q = Processing
    OBVIOUS
  <2>1. At(t, p)
    BY <1>1 DEF DequeueReplyLost, Lease, At, TypeOK
  <2>2. At(t, q)'
    BY <1>1 DEF DequeueReplyLost, Lease, At, TypeOK
  <2>3. ASSUME NEW x, At(t, x)' PROVE x = q \/ (At(t, x) /\ x # p)
    BY <1>1, <2>3 DEF DequeueReplyLost, Lease, At, Ready, Delayed, Routing
  <2>4. Others(t) /\ ClientsGoOn /\ dropped' = dropped
    BY <1>1 DEF DequeueReplyLost, Lease, At, Routing, TypeOK, Others, Still, ClientsGoOn
  <2>5. Moves(t, p, q)
    BY <2>1, <2>2, <2>3, <2>4, MoveFrom
  <2>6. Take(t)
    BY <1>1, <2>5 DEF DequeueReplyLost, Lease, Take, TypeOK
  <2> QED
    BY <2>4, <2>6 DEF Step
<1>2. ASSUME NEW w \in Worker, CallFails(w) PROVE ClientsGoOn /\ \A t \in Task : Still(t)
  BY <1>2 DEF CallFails, Idle, At, Routing, Still, ClientsGoOn
<1>3. ASSUME NEW w \in Worker, NackReplyLost(w) PROVE Step
  <2> PICK t \in Task : t = held[w].id
    BY <1>3 DEF NackReplyLost, LeaseHeld, Drop, TypeOK
  <2> PICK p : p = Processing
    OBVIOUS
  <2>1. At(t, p) /\ (Hand(p) \/ p = Processing)
    BY <1>3 DEF NackReplyLost, LeaseHeld, Drop, At, Hand
  <2>2. ASSUME NEW x, At(t, x)' PROVE At(t, x) /\ x # p
    BY <1>3, <2>2 DEF NackReplyLost, Unlease, Drop, Idle, At, Ready, Delayed, Processing, Routing
  <2>3. Others(t) /\ ClientsGoOn
    BY <1>3 DEF NackReplyLost, Unlease, Drop, Idle, At, Routing, Others, Still, ClientsGoOn
  <2>4. rec'[t] = rec[t] /\ t \in dropped' /\ Faults # {}
    BY <1>3 DEF NackReplyLost, LeaseHeld, Unlease, Drop
  <2>5. Lose({t})
    BY <2>1, <2>2, <2>3, <2>4, LoseOne
  <2> QED
    BY <2>3, <2>5 DEF Step
<1>4. ASSUME NEW w \in Worker, SaveFails(w) PROVE ClientsGoOn /\ \A t \in Task : Still(t)
  <2>1. Routing(w) /\ (wpc' = [wpc EXCEPT ![w] = "schedule"] \/ wpc' = [wpc EXCEPT ![w] = "bury"])
    BY <1>4 DEF SaveFails, Routing
  <2>2. \A v \in Worker : held'[v].id = held[v].id
    BY <1>4 DEF SaveFails, TypeOK, Copy, Entry
  <2>3. \A v \in Worker : Routing(v)' <=> Routing(v)
    BY <2>1 DEF Routing, TypeOK
  <2> QED
    BY <1>4, <2>2, <2>3 DEF SaveFails, At, Still, ClientsGoOn
<1>5. ASSUME NEW w \in Worker, RouteFails(w) PROVE Step
  <2> PICK t \in Task : t = held[w].id
    BY <1>5 DEF RouteFails, Drop, Idle, TypeOK
  <2> PICK p : p = <<"worker", w>>
    OBVIOUS
  <2>1. At(t, p) /\ (Hand(p) \/ p = Processing)
    BY <1>5 DEF RouteFails, Drop, At, Routing, Hand
  <2>2. ASSUME NEW x, At(t, x)' PROVE At(t, x) /\ x # p
    BY <1>5, <2>2 DEF RouteFails, Drop, Idle, At, Ready, Delayed, Processing, Routing, TypeOK
  <2>3. Others(t) /\ ClientsGoOn
    BY <1>5 DEF RouteFails, Drop, Idle, At, Routing, TypeOK, Others, Still, ClientsGoOn
  <2>4. rec'[t] = rec[t] /\ t \in dropped' /\ Faults # {}
    BY <1>5 DEF RouteFails, Drop, Idle, NoCopy
  <2>5. Lose({t})
    BY <2>1, <2>2, <2>3, <2>4, LoseOne
  <2> QED
    BY <2>3, <2>5 DEF Step
<1>6. ASSUME NEW w \in Worker, DrainTimeout(w), ~Routing(w)
      PROVE  ClientsGoOn /\ \A t \in Task : Still(t)
  BY <1>6 DEF DrainTimeout, Idle, At, Routing, Still, Doomed, Buried, ClientsGoOn
<1>7. ASSUME NEW w \in Worker, DrainTimeout(w), Routing(w) PROVE Step
  <2> PICK t \in Task : t = held[w].id
    BY <1>7 DEF DrainTimeout, Idle, NoCopy, TypeOK
  <2> PICK p : p = <<"worker", w>>
    OBVIOUS
  <2>1. At(t, p) /\ (Hand(p) \/ p = Processing)
    BY <1>7 DEF DrainTimeout, At, TypeOK, Hand
  <2>2. ASSUME NEW x, At(t, x)' PROVE At(t, x) /\ x # p
    BY <1>7, <2>2 DEF DrainTimeout, Idle, At, Ready, Delayed, Processing, Routing, TypeOK
  <2>3. Others(t) /\ ClientsGoOn
    BY <1>7 DEF DrainTimeout, Idle, At, Routing, TypeOK, Others, Still, Doomed, Buried, ClientsGoOn
  <2>4. rec'[t] = rec[t] /\ t \in dropped' /\ Faults # {}
    BY <1>7 DEF DrainTimeout, Idle, NoCopy
  <2>5. Lose({t})
    BY <2>1, <2>2, <2>3, <2>4, LoseOne
  <2> QED
    BY <2>3, <2>5 DEF Step
<1> QED
  BY <1>1, <1>2, <1>3, <1>4, <1>5, <1>6, <1>7 DEF Step, WorkerFault

\* What the death of a node, or its removal, does to the tasks.
LEMMA NodeLosses ==
    ASSUME TypeOK, AtInv, NEW m \in Node, CrashNode(m) \/ PruneNode(m)
    PROVE  Step
<1>1. ASSUME NEW n \in Node, CrashNode(n) PROVE Step
  <2> DEFINE Gone(t) == \E w \in Worker : NodeOf[w] = n /\ Routing(w) /\ held[w].id = t
             S == {t \in Task : Gone(t)}
  <2>1. /\ wpc' = [w \in Worker |-> IF NodeOf[w] = n THEN "dead" ELSE wpc[w]]
        /\ held' = [w \in Worker |-> IF NodeOf[w] = n THEN NoCopy ELSE held[w]]
        /\ UNCHANGED <<redis, reaper, cpc, admin, holder>>
        /\ Faults # {}
    BY <1>1, Zenon DEF CrashNode
  <2>2. \A t \in Task : t \in dropped' <=> t \in dropped \/ Gone(t)
    BY <1>1 DEF CrashNode
  <2>3. ASSUME NEW u \in Task, ~Gone(u) PROVE Still(u)
    <3>1. \A w \in Worker : Routing(w)' /\ held'[w].id = u <=> Routing(w) /\ held[w].id = u
      BY <2>1, <2>3 DEF Routing, NoCopy
    <3>2. (u \in dropped' <=> u \in dropped) /\ rec'[u] = rec[u] /\ holder'[u] = holder[u]
      BY <2>1, <2>2, <2>3
    <3>3. \A x : At(u, x)' <=> At(u, x)
      BY <2>1, <3>1 DEF At
    <3>4. Doomed(u)' => Doomed(u)
      BY <2>1 DEF Doomed, Buried
    <3> QED
      BY <3>2, <3>3, <3>4 DEF Still
  <2>4. ASSUME NEW t \in Task, NEW w \in Worker, NodeOf[w] = n, Routing(w), held[w].id = t
        PROVE  /\ \E p : Alone(t, p) /\ (Hand(p) \/ p = Processing)
               /\ Nowhere(t)' /\ rec'[t] = rec[t] /\ t \in dropped'
    <3> PICK p : p = <<"worker", w>>
      OBVIOUS
    <3>1. At(t, p) /\ Hand(p)
      BY <2>4 DEF At, Hand
    <3>2. Alone(t, p)
      BY <3>1 DEF AtInv, TaskInv, Alone
    <3>3. ASSUME NEW x, At(t, x)' PROVE At(t, x) /\ x # p
      <4>1. \A v \in Worker : Routing(v)' => NodeOf[v] # n /\ Routing(v) /\ held'[v] = held[v]
        BY <2>1 DEF Routing
      <4> QED
        BY <2>1, <2>4, <3>3, <4>1 DEF At, Ready, Delayed, Processing
    <3>4. rec'[t] = rec[t] /\ t \in dropped'
      BY <2>1, <2>2, <2>4
    <3> QED
      BY <3>1, <3>2, <3>3, <3>4 DEF Alone, Nowhere
  <2>5. (\A t \in Task : Still(t)) \/ Lose(S)
    BY <2>1, <2>3, <2>4 DEF Lose
  <2>6. ClientsGoOn
    BY <2>1 DEF ClientsGoOn
  <2> QED
    BY <2>5, <2>6 DEF Step
<1>2. ASSUME NEW n \in Node, PruneNode(n) PROVE ClientsGoOn /\ \A t \in Task : Still(t)
  BY <1>2 DEF PruneNode, At, Routing, Still, Doomed, Buried, ClientsGoOn
<1> QED
  BY <1>1, <1>2 DEF Step

\* Every step does one of these things to the tasks.
LEMMA StepMoves ==
    ASSUME NoSubmitRace', TypeOK, AtInv, [Next]_vars
    PROVE  Step
<1>1. CASE UNCHANGED vars
  <2>1. ClientsGoOn /\ \A t \in Task : Still(t)
    BY <1>1 DEF vars, ClientsGoOn, Still, At, Routing, Doomed, Buried
  <2> QED
    BY <2>1 DEF Step
<1>2. CASE Next
  BY <1>2, SubmitMoves, SubmitLosses, QueueMoves, WorkerMoves, WorkerLosses, ReaperMoves,
     ReaperLosses, NodeLosses, RedriveMoves, RedriveLosses
  DEF Next
<1> QED
  BY <1>1, <1>2

-----------------------------------------------------------------------------
(* A task is in one place.                                                  *)

\* A task the step leaves alone keeps the invariant.
LEMMA StillKeeps ==
    ASSUME NEW t \in Task, TaskInv(t), Still(t)
    PROVE  TaskInv(t)'
  BY DEF TaskInv, Still, Nowhere

\* Every step keeps the invariant.
LEMMA StepKeeps ==
    ASSUME TypeOK, AtInv, Step
    PROVE  AtInv'
<1>1. ASSUME NEW t \in Task, Others(t), TaskInv(t)'
      PROVE  \A u \in Task : TaskInv(u)'
  BY <1>1, StillKeeps DEF Others, AtInv
<1>2. ASSUME ClientsGoOn,
             \A c \in Client : cpc[c] \in {"save", "queue"} /\ At(IdOf[c], <<"client", c>>)'
                 => (rec'[IdOf[c]].status = "none" <=> rec[IdOf[c]].status = "none")
      PROVE  ClientKnows'
  BY <1>2 DEF ClientsGoOn, ClientKnows, AtInv, At
<1>3. ASSUME NEW t \in Task, Claim(t) PROVE AtInv'
  <2>1. TaskInv(t)'
    BY <1>3 DEF Claim, TaskInv, Alone
  <2>2. ClientKnows'
    BY <1>3, TypesOfConstants DEF Claim, ClientKnows, AtInv, Others, Still, Nowhere
  <2> QED
    BY <1>1, <1>3, <2>1, <2>2 DEF Claim, AtInv
<1>4. ASSUME NEW t \in Task, Accept(t) PROVE AtInv'
  <2>1. TaskInv(t)'
    BY <1>4 DEF Accept, Moves, TaskInv, Alone
  <2>2. ASSUME NEW d \in Client, cpc'[d] \in {"save", "queue"}
        PROVE  cpc'[d] = "save" <=> rec'[IdOf[d]].status = "none"
    <3> PICK c \in Client : /\ Moves(t, <<"client", c>>, <<"client", c>>)
                            /\ rec'[t].status = "pending" /\ cpc[c] = "save"
                            /\ cpc' = [cpc EXCEPT ![c] = "queue"]
      BY <1>4 DEF Accept
    <3>1. CASE d = c
      <4>1. At(t, <<"client", c>>)
        BY DEF Moves, Alone
      <4>2. IdOf[c] = t
        BY <4>1 DEF At, Ready, Delayed, Processing
      <4> QED
        BY <3>1, <4>2 DEF TypeOK
    <3>2. CASE d # c
      <4>1. cpc'[d] = cpc[d] /\ At(IdOf[d], <<"client", d>>)
        BY <2>2, <3>2 DEF At
      <4>2. IdOf[d] # t
        BY <3>2, <4>1 DEF Moves, Alone
      <4> QED
        BY <2>2, <4>1, <4>2, TypesOfConstants DEF Moves, Others, Still, AtInv, ClientKnows
    <3> QED
      BY <3>1, <3>2
  <2> QED
    BY <1>1, <1>4, <2>1, <2>2 DEF Accept, Moves, AtInv, ClientKnows
<1>5. ASSUME \A t \in Task : Still(t), ClientsGoOn PROVE AtInv'
  <2>1. ClientKnows'
    BY <1>2, <1>5, TypesOfConstants DEF Still
  <2> QED
    BY <1>5, <2>1, StillKeeps DEF AtInv
<1>6. ASSUME NEW t \in Task, ClientsGoOn, Withdraw(t) PROVE AtInv'
  <2>1. TaskInv(t)'
    BY <1>6 DEF Withdraw, TaskInv, Nowhere, AtInv
  <2>2. ClientKnows'
    BY <1>2, <1>6, TypesOfConstants DEF Withdraw, Others, Still
  <2> QED
    BY <1>1, <1>6, <2>1, <2>2 DEF Withdraw, AtInv
<1>7. ASSUME NEW t \in Task, ClientsGoOn, NEW p, NEW q, Moves(t, p, q),
             rec'[t].status \notin {"none", "completed"},
             p # q \/ rec[t].status # "none"
      PROVE  AtInv'
  <2>1. TaskInv(t)'
    BY <1>7 DEF Moves, TaskInv, Alone
  <2>2. ASSUME NEW c \in Client, q = <<"client", c>>
        PROVE  p = q
    BY <1>7, <2>2 DEF Moves, Alone, At, ClientsGoOn, Ready, Delayed, Processing
  <2>3. ClientKnows'
    BY <1>2, <1>7, <2>2, TypesOfConstants DEF Moves, Alone, Others, Still
  <2> QED
    BY <1>1, <1>7, <2>1, <2>3 DEF Moves, AtInv
<1>8. ASSUME NEW t \in Task, NEW p, At(t, p),
             Hand(p) \/ p \in {Ready, Delayed, Processing} \/ \E e : p = <<"dlq", e>>
      PROVE  rec[t].status \notin {"none", "completed"}
  BY <1>8 DEF AtInv, TaskInv, Nowhere, ClientKnows, Hand, At, Ready, Delayed, Processing
<1>9. ASSUME NEW t \in Task, ClientsGoOn, Rewrite(t) PROVE AtInv'
  BY <1>7, <1>8, <1>9 DEF Rewrite, Moves, Alone
<1>10. ASSUME NEW t \in Task, ClientsGoOn, Enlist(t) PROVE AtInv'
  BY <1>7, <1>8, <1>10 DEF Enlist, Moves, Alone, Ready
<1>11. ASSUME NEW t \in Task, ClientsGoOn, Take(t) PROVE AtInv'
  BY <1>7, <1>11 DEF Take, Ready, Processing
<1>12. ASSUME NEW t \in Task, ClientsGoOn, Finish(t) PROVE AtInv'
  <2>1. TaskInv(t)'
    BY <1>12 DEF Finish, TaskInv, Nowhere
  <2>2. ClientKnows'
    BY <1>2, <1>12, TypesOfConstants DEF Finish, Nowhere, Others, Still
  <2> QED
    BY <1>1, <1>12, <2>1, <2>2 DEF Finish, AtInv
<1>13. ASSUME NEW t \in Task, ClientsGoOn, Release(t) PROVE AtInv'
  <2> PICK p : /\ Moves(t, Processing, p) /\ Hand(p)'
               /\ rec'[t] = rec[t] \/ rec'[t].status = "failed"
    BY <1>13 DEF Release
  <2>1. rec'[t].status \notin {"none", "completed"}
    BY <1>8 DEF Moves, Alone
  <2>2. p # Processing
    BY DEF Hand, Processing
  <2> QED
    BY <1>7, <1>13, <2>1, <2>2
<1>14. ASSUME NEW t \in Task, ClientsGoOn, Return(t) PROVE AtInv'
  BY <1>7, <1>14 DEF Return, Ready, Processing
<1>15. ASSUME NEW t \in Task, ClientsGoOn, Inter(t) PROVE AtInv'
  BY <1>7, <1>8, <1>15 DEF Inter, Moves, Alone
<1>16. ASSUME NEW t \in Task, ClientsGoOn, Exhume(t) PROVE AtInv'
  BY <1>7, <1>8, <1>16 DEF Exhume, Moves, Alone, Hand
<1>17. ASSUME ClientsGoOn, NEW S \in SUBSET Task, Lose(S) PROVE AtInv'
  <2>1. \A t \in S : TaskInv(t)'
    BY <1>8, <1>17 DEF Lose, Alone, Nowhere, TaskInv
  <2>2. ClientKnows'
    BY <1>2, <1>17, TypesOfConstants DEF Lose, Still
  <2> QED
    BY <1>17, <2>1, <2>2, StillKeeps DEF Lose, AtInv
<1> QED
  BY <1>3, <1>4, <1>5, <1>6, <1>9, <1>10, <1>11, <1>12, <1>13, <1>14, <1>15, <1>16, <1>17
  DEF Step

\* The invariant that places, leases and the life cycle rest on.
THEOREM PlacesInvariant ==
    Spec /\ []NoSubmitRace => [](TypeOK /\ AtInv)
<1>1. Init => AtInv
  BY DEF Init, AtInv, TaskInv, ClientKnows, Nowhere, At, Absent, Routing
<1>2. TypeOK /\ AtInv /\ NoSubmitRace' /\ [Next]_vars => AtInv'
  BY StepMoves, StepKeeps
<1> QED
  BY <1>1, <1>2, TypeCorrect, PTL DEF Spec

\* Every hand-over moves a task: a task is in one queue, one lease or one carrier's
\* hands, and a completed one is nowhere, unless two requests with one ID race
\* between Exists and Save.
THEOREM TaskInOnePlace ==
    Spec /\ []NoSubmitRace => []OnePlace
<1>1. TypeOK /\ AtInv => OnePlace
  BY PlaceInvAt DEF PlaceInv
<1> QED
  BY <1>1, PlacesInvariant, PTL

\* The view of one task: the step leaves it alone or does one thing to it.
LEMMA StepOfTask ==
    ASSUME Step, NEW t \in Task
    PROVE  \/ Still(t)
           \/ Claim(t) \/ Accept(t) \/ Withdraw(t) \/ Rewrite(t) \/ Enlist(t) \/ Take(t)
           \/ Finish(t) \/ Release(t) \/ Return(t) \/ Inter(t) \/ Exhume(t)
           \/ \E S \in SUBSET Task : t \in S /\ Lose(S)
<1>1. ASSUME NEW u \in Task, Others(u) PROVE u = t \/ Still(t)
  BY <1>1 DEF Others
<1> QED
  BY <1>1 DEF Step, Claim, Accept, Withdraw, Rewrite, Enlist, Take, Finish, Release, Return, Inter,
     Exhume, Moves, Lose

\* Completion is final: the only writers of a task's record are where the task is,
\* and a completed task is nowhere.
THEOREM CompletionIsFinal ==
    Spec /\ []NoSubmitRace => CompletedIsFinal
<1>1. ASSUME AtInv, Step, NEW t \in Task, rec[t].status = "completed"
      PROVE  rec'[t].status = "completed"
  <2>1. Nowhere(t)
    BY <1>1 DEF AtInv, TaskInv
  <2> QED
    BY <1>1, <2>1, StepOfTask DEF Still, Claim, Accept, Withdraw, Rewrite, Enlist, Take, Finish,
       Release, Return, Inter, Exhume, Lose, Moves, Alone, Nowhere
<1>2. TypeOK /\ AtInv /\ NoSubmitRace' /\ [Next]_vars
          => \A t \in Task : rec[t].status = "completed" => rec'[t].status = "completed"
  BY <1>1, StepMoves
<1> QED
  BY <1>2, PlacesInvariant, PTL DEF Spec, CompletedIsFinal

\* The owner field names the node of the goroutine that took the lease, whatever
\* late saves are under way.
THEOREM LeaseNamesHolder ==
    Spec /\ []NoSubmitRace => []OwnerIsHolder
<1>1. Init => OwnerIsHolder
  BY DEF Init, OwnerIsHolder
<1>2. ASSUME AtInv, Step, OwnerIsHolder, NEW t \in Task, t \in processing'
      PROVE  /\ rec'[t].status = "processing" /\ holder'[t] # None
             /\ rec'[t].owner = NodeOf[holder'[t]]
  <2>1. At(t, Processing)'
    BY <1>2 DEF At
  <2>2. CASE Still(t)
    <3>1. At(t, Processing)
      BY <2>1, <2>2 DEF Still
    <3>2. t \in processing
      BY <3>1 DEF At, Processing, Ready, Delayed
    <3> QED
      BY <1>2, <2>2, <3>2 DEF Still, OwnerIsHolder
  <2>3. CASE Take(t)
    BY <2>3, TypesOfConstants DEF Take
  <2>4. ASSUME NEW p, NEW q, Moves(t, p, q) PROVE q = Processing
    BY <2>1, <2>4 DEF Moves, Alone
  <2>5. ~Nowhere(t)' /\ ~\E c \in Client : Alone(t, <<"client", c>>)'
    BY <2>1 DEF Nowhere, Alone, Processing
  <2>6. ~Hand(Processing) /\ ~Hand(Processing)'
    BY DEF Hand, Processing
  <2>7. ~(Claim(t) \/ Accept(t) \/ Withdraw(t) \/ Finish(t)
         \/ \E S \in SUBSET Task : t \in S /\ Lose(S))
    BY <2>5 DEF Claim, Accept, Moves, Withdraw, Finish, Lose
  <2>8. ~(Rewrite(t) \/ Enlist(t) \/ Release(t) \/ Return(t) \/ Inter(t) \/ Exhume(t))
    BY <2>4, <2>6 DEF Rewrite, Enlist, Release, Return, Inter, Exhume, Processing, Ready, Delayed
  <2> QED
    BY <1>2, <2>2, <2>3, <2>7, <2>8, StepOfTask
<1>3. TypeOK /\ TypeOK' /\ AtInv /\ NoSubmitRace' /\ OwnerIsHolder /\ [Next]_vars => OwnerIsHolder'
  BY <1>2, StepMoves DEF TypeOK, OwnerIsHolder
<1> QED
  BY <1>1, <1>3, PlacesInvariant, PTL DEF Spec

\* What is dead lettered, or about to be, is recorded as failed, as long as no save
\* of the record is lost.
THEOREM DeadLettersFailed ==
    ASSUME "redis" \notin Faults
    PROVE  Spec /\ []NoSubmitRace => []BuriedIsFailed
<1> DEFINE DoomedIsFailed == \A t \in Task : Doomed(t) => rec[t].status = "failed"
<1>1. Init => DoomedIsFailed
  BY DEF Init, Doomed, Buried
<1>2. ASSUME AtInv, Step, DoomedIsFailed, NEW t \in Task, Doomed(t)'
      PROVE  rec'[t].status = "failed"
  <2>1. CASE Still(t)
    BY <1>2, <2>1 DEF Still
  <2>2. CASE Rewrite(t) \/ Release(t)
    BY <1>2, <2>2 DEF Rewrite, Release
  <2>3. CASE Inter(t)
    BY <1>2, <2>3 DEF Inter
  <2>4. PICK p : /\ At(t, p)'
                 /\ \/ \E e : p = <<"dlq", e>>
                    \/ \E w \in Worker : p = <<"worker", w>>
                    \/ \E r \in Reaper : p = <<"reaper", r>>
    BY <1>2, DoomedPlaceNext
  <2>5. ~(Claim(t) \/ Accept(t) \/ Withdraw(t) \/ Finish(t)
         \/ \E S \in SUBSET Task : t \in S /\ Lose(S))
    BY <2>4 DEF Claim, Accept, Moves, Withdraw, Finish, Lose, Alone, Nowhere
  <2>6. ~(Enlist(t) \/ Take(t) \/ Return(t) \/ Exhume(t))
    BY <2>4 DEF Enlist, Take, Return, Exhume, Moves, Alone, Ready, Delayed, Processing
  <2> QED
    BY <1>2, <2>1, <2>2, <2>3, <2>5, <2>6, StepOfTask
<1>3. TypeOK /\ AtInv /\ NoSubmitRace' /\ DoomedIsFailed /\ [Next]_vars => DoomedIsFailed'
  BY <1>2, StepMoves
<1>4. DoomedIsFailed => BuriedIsFailed
  BY DEF Doomed, BuriedIsFailed
<1> QED
  BY <1>1, <1>3, <1>4, PlacesInvariant, PTL DEF Spec

\* Nothing but the worker processes moves a worker.
LEMMA WorkersMoveAlone ==
    ASSUME [Next]_vars, ~UNCHANGED wpc
    PROVE  \/ \E v \in Worker : WorkerStep(v) \/ WorkerFault(v)
           \/ \E n \in Node : CrashNode(n)
<1>1. ~UNCHANGED vars
  BY DEF vars
<1>2. \A c \in Client : ~SubmitStep(c) /\ ~SubmitFails(c)
  BY DEF SubmitStep, SubmitExists, SubmitSave, SubmitEnqueue, SubmitSchedule, SubmitFails
<1>3. \A t \in Task : ~Promote(t) /\ ~Expire(t)
  BY DEF Promote, Expire
<1>4. \A r \in Reaper : ~ReaperStep(r) /\ ~CrashReaper(r) /\ ~ReaperCallFails(r)
  BY DEF ReaperStep, ScanLeases, Scan, ReaperGet, LostRace, Reclaim, DeadLetter, ReaperPush,
     CrashReaper, ReaperCallFails
<1>5. /\ \A r \in Reaper, n \in Node : ~ScanNode(r, n)
      /\ \A n \in Node : ~PruneNode(n)
  BY DEF ScanNode, Scan, PruneNode
<1>6. \A a \in Admin : ~RedriveStep(a) /\ ~RedriveFails(a) /\ ~RedriveSkips(a)
  BY DEF RedriveStep, DrainPop, DrainEnd, RedriveSave, RedriveEnqueue, RedriveFails, RedriveSkips
<1> QED
  BY <1>1, <1>2, <1>3, <1>4, <1>5, <1>6 DEF Next

\* A lease that Ack or Nack ends was taken by a goroutine of the same node.
THEOREM LeasesFenced ==
    Spec /\ []NoSubmitRace => FencedByNode
<1> DEFINE Ends(w) == /\ wpc[w] \in {"ack", "nack"} /\ wpc'[w] # wpc[w]
                      /\ held[w].id \in processing \ processing'
<1>1. ASSUME TypeOK, [Next]_vars, NEW w \in Worker, Ends(w)
      PROVE  LeaseHeld(w)
  <2>1. ~UNCHANGED wpc /\ ~UNCHANGED processing
    BY <1>1
  <2>2. \A n \in Node : ~CrashNode(n)
    BY <2>1 DEF CrashNode
  <2>3. PICK v \in Worker : WorkerStep(v) \/ WorkerFault(v)
    BY <1>1, <2>1, <2>2, WorkersMoveAlone
  <2>4. Ack(v) \/ Nack(v) \/ NackReplyLost(v)
    BY <1>1, <2>1, <2>3 DEF WorkerStep, WorkerFault, Dequeue, Lease, Hydrate, Work, LeaseNotHeld,
       SaveRetry, SaveFailed, ScheduleRetry, Bury, DequeueReplyLost, CallFails, SaveFails,
       RouteFails, DrainTimeout, TypeOK
  <2> QED
    BY <1>1, <2>4 DEF Ack, Nack, NackReplyLost, Idle, TypeOK
<1>2. ASSUME TypeOK, OwnerIsHolder, NEW w \in Worker, LeaseHeld(w)
      PROVE  NodeOf[holder[held[w].id]] = NodeOf[w]
  BY <1>2 DEF LeaseHeld, OwnerIsHolder
<1>3. TypeOK /\ OwnerIsHolder /\ [Next]_vars
          => \A w \in Worker :
                wpc[w] \in {"ack", "nack"} /\ held[w].id \in processing \ processing'
                       /\ wpc'[w] # wpc[w]
                   => NodeOf[holder[held[w].id]] = NodeOf[w]
  BY <1>1, <1>2
<1> QED
  BY <1>3, TypeCorrect, LeaseNamesHolder, PTL DEF Spec, FencedByNode

\* The fence is as fine as the node: with one goroutine for each node, a goroutine that
\* routes a failed task has released the lease it took itself.  With more the comment
\* of the executor is wrong (RoutesOwnLease fails for two goroutines of a node).
THEOREM SoleGoroutineRoutesItsOwn ==
    ASSUME \A v, w \in Worker : NodeOf[v] = NodeOf[w] => v = w
    PROVE  Spec /\ []NoSubmitRace => RoutesOwnLease
<1>1. ASSUME TypeOK, OwnerIsHolder, [Next]_vars, NEW w \in Worker, wpc[w] = "nack", wpc'[w] = "save"
      PROVE  holder[held[w].id] = w
  <2>1. ~UNCHANGED wpc
    BY <1>1
  <2>2. \A n \in Node : ~CrashNode(n)
    BY <1>1 DEF CrashNode
  <2>3. PICK v \in Worker : WorkerStep(v) \/ WorkerFault(v)
    BY <1>1, <2>1, <2>2, WorkersMoveAlone
  <2>4. Nack(w)
    BY <1>1, <2>3 DEF TypeOK, WorkerStep, WorkerFault, Dequeue, Hydrate, Work, Ack, Nack, LeaseNotHeld,
       SaveRetry, SaveFailed, ScheduleRetry, Bury, DequeueReplyLost, CallFails, NackReplyLost, SaveFails,
       RouteFails, DrainTimeout, Idle, worker
  <2>5. held[w].id \in processing /\ rec[held[w].id].owner = NodeOf[w]
    BY <2>4 DEF Nack, LeaseHeld
  <2>6. holder[held[w].id] \in Worker /\ NodeOf[holder[held[w].id]] = NodeOf[w]
    BY <1>1, <2>5 DEF OwnerIsHolder, TypeOK
  <2> QED
    BY <2>6
<1>2. TypeOK /\ OwnerIsHolder /\ [Next]_vars
          => \A w \in Worker : wpc[w] = "nack" /\ wpc'[w] = "save" => holder[held[w].id] = w
  BY <1>1
<1> QED
  BY <1>2, TypeCorrect, LeaseNamesHolder, PTL DEF Spec, RoutesOwnLease

-----------------------------------------------------------------------------
(* LeaseQueue implements TaskLifecycle.                                     *)

\* The state of the life cycle follows from the place.
StateAt(t) ==
    /\ At(t, Processing) => StateOf(t) = "leased"
    /\ At(t, Ready) \/ At(t, Delayed) => StateOf(t) = "queued"
    /\ (\E e : At(t, <<"dlq", e>>)) => StateOf(t) = "dead"
    /\ (\E p : Hand(p) /\ At(t, p)) => StateOf(t) = "held"
    /\ (\E c \in Client : cpc[c] = "save" /\ At(t, <<"client", c>>)) => StateOf(t) = "new"
    /\ Nowhere(t) => StateOf(t) = IF rec[t].status = "completed" THEN "done"
                                  ELSE IF t \in dropped THEN "lost" ELSE "new"

\* In a reachable state the place of a task and its record tell its state.
LEMMA StateByPlace == TypeOK /\ AtInv => \A t \in Task : StateAt(t)
<1> SUFFICES ASSUME TypeOK, AtInv, NEW t \in Task PROVE StateAt(t)
  OBVIOUS
<1>1. /\ t \in processing <=> At(t, Processing)
      /\ t \in ready \cup delayed <=> At(t, Ready) \/ At(t, Delayed)
  BY DEF At, Ready, Delayed, Processing
<1>2. Buried(t) <=> \E e : At(t, <<"dlq", e>>)
  BY DEF Buried, At, Ready, Delayed, Processing
<1>3. Carried(t) <=> \E p : Hand(p) /\ At(t, p)
  <2>1. ASSUME Carried(t) PROVE \E p : Hand(p) /\ At(t, p)
    <3>1. ASSUME NEW a \in Admin, NEW e \in batch[a], e.id = t PROVE \E p : Hand(p) /\ At(t, p)
      <4>1. Hand(<<"admin", a, e>>) /\ At(t, <<"admin", a, e>>)
        BY <3>1 DEF Hand, At, TypeOK
      <4> QED
        BY <4>1
    <3>2. ASSUME NEW c \in Client, cpc[c] = "queue", IdOf[c] = t PROVE \E p : Hand(p) /\ At(t, p)
      <4>1. Hand(<<"client", c>>) /\ At(t, <<"client", c>>)
        BY <3>2 DEF Hand, At
      <4> QED
        BY <4>1
    <3>3. ASSUME NEW r \in Reaper, rpc[r] = "push", snap[r].id = t PROVE \E p : Hand(p) /\ At(t, p)
      <4>1. Hand(<<"reaper", r>>) /\ At(t, <<"reaper", r>>)
        BY <3>3 DEF Hand, At
      <4> QED
        BY <4>1
    <3>4. ASSUME NEW w \in Worker, Routing(w), held[w].id = t PROVE \E p : Hand(p) /\ At(t, p)
      <4>1. Hand(<<"worker", w>>) /\ At(t, <<"worker", w>>)
        BY <3>4 DEF Hand, At
      <4> QED
        BY <4>1
    <3> QED
      BY <2>1, <3>1, <3>2, <3>3, <3>4 DEF Carried
  <2>2. ASSUME NEW p, Hand(p), At(t, p) PROVE Carried(t)
    BY <2>2 DEF Carried, Hand, At, Ready, Delayed, Processing
  <2> QED
    BY <2>1, <2>2
<1>4. \A p, q : At(t, p) /\ At(t, q) => p = q
  BY DEF AtInv, TaskInv
<1>5. /\ \A p : At(t, p) => rec[t].status # "completed" /\ t \notin dropped
      /\ ~(rec[t].status = "completed" /\ t \in dropped)
  BY DEF AtInv, TaskInv, Nowhere
<1>6. /\ ~Hand(Processing) /\ ~Hand(Ready) /\ ~Hand(Delayed)
      /\ \A e : ~Hand(<<"dlq", e>>)
      /\ \A c \in Client : cpc[c] = "save" => ~Hand(<<"client", c>>)
  BY DEF Hand, Ready, Delayed, Processing
<1>7. At(t, Processing) => StateOf(t) = "leased"
  <2> SUFFICES ASSUME At(t, Processing) PROVE StateOf(t) = "leased"
    OBVIOUS
  <2>1. ~(At(t, Ready) \/ At(t, Delayed)) /\ ~(\E e : At(t, <<"dlq", e>>))
    BY <1>4 DEF Ready, Delayed, Processing
  <2>2. ~\E p : Hand(p) /\ At(t, p)
    BY <1>4, <1>6
  <2> QED
    BY <1>1, <1>2, <1>3, <1>5, <2>1, <2>2 DEF StateOf
<1>8. At(t, Ready) \/ At(t, Delayed) => StateOf(t) = "queued"
  <2> SUFFICES ASSUME At(t, Ready) \/ At(t, Delayed) PROVE StateOf(t) = "queued"
    OBVIOUS
  <2>1. ~At(t, Processing) /\ ~(\E e : At(t, <<"dlq", e>>))
    BY <1>4 DEF Ready, Delayed, Processing
  <2>2. ~\E p : Hand(p) /\ At(t, p)
    BY <1>4, <1>6
  <2> QED
    BY <1>1, <1>2, <1>3, <1>5, <2>1, <2>2 DEF StateOf
<1>9. (\E e : At(t, <<"dlq", e>>)) => StateOf(t) = "dead"
  <2> SUFFICES ASSUME NEW e, At(t, <<"dlq", e>>) PROVE StateOf(t) = "dead"
    OBVIOUS
  <2>1. ~At(t, Processing) /\ ~(At(t, Ready) \/ At(t, Delayed))
    BY <1>4 DEF Ready, Delayed, Processing
  <2>2. ~\E p : Hand(p) /\ At(t, p)
    BY <1>4, <1>6
  <2> QED
    BY <1>1, <1>2, <1>3, <1>5, <2>1, <2>2 DEF StateOf
<1>10. (\E p : Hand(p) /\ At(t, p)) => StateOf(t) = "held"
  <2> SUFFICES ASSUME NEW p, Hand(p), At(t, p) PROVE StateOf(t) = "held"
    OBVIOUS
  <2>1. ~At(t, Processing) /\ ~(At(t, Ready) \/ At(t, Delayed)) /\ ~(\E e : At(t, <<"dlq", e>>))
    BY <1>4, <1>6
  <2> QED
    BY <1>1, <1>2, <1>3, <1>5, <2>1 DEF StateOf
<1>11. (\E c \in Client : cpc[c] = "save" /\ At(t, <<"client", c>>)) => StateOf(t) = "new"
  BY <1>1, <1>2, <1>3, <1>4, <1>5, <1>6 DEF StateOf, Ready, Delayed, Processing
<1>12. Nowhere(t) => StateOf(t) = IF rec[t].status = "completed" THEN "done"
                                  ELSE IF t \in dropped THEN "lost" ELSE "new"
  <2> SUFFICES ASSUME Nowhere(t)
               PROVE  StateOf(t) = IF rec[t].status = "completed" THEN "done"
                                   ELSE IF t \in dropped THEN "lost" ELSE "new"
    OBVIOUS
  <2>1. t \notin processing /\ t \notin ready \cup delayed /\ ~Buried(t) /\ ~Carried(t)
    BY <1>1, <1>2, <1>3 DEF Nowhere
  <2>2. CASE rec[t].status = "completed"
    BY <1>5, <2>1, <2>2 DEF StateOf
  <2>3. CASE rec[t].status # "completed" /\ t \in dropped
    BY <2>1, <2>3 DEF StateOf
  <2>4. CASE rec[t].status # "completed" /\ t \notin dropped
    BY <2>1, <2>4 DEF StateOf
  <2> QED
    BY <2>2, <2>3, <2>4
<1> QED
  BY <1>7, <1>8, <1>9, <1>10, <1>11, <1>12 DEF StateAt

\* The same of the next state.
LEMMA StateByPlaceNext == (TypeOK /\ AtInv => \A t \in Task : StateAt(t))'
  BY StateByPlace, PTL

\* A task the step leaves alone keeps its state.
LEMMA StillSameState ==
    ASSUME TypeOK, AtInv, TypeOK', AtInv', NEW t \in Task, Still(t)
    PROVE  StateOf(t)' = StateOf(t)
<1>1. StateAt(t) /\ StateAt(t)'
  BY StateByPlace, StateByPlaceNext
<1>2. CASE Nowhere(t)
  BY <1>1, <1>2 DEF StateAt, Still, Nowhere
<1>3. ASSUME NEW c \in Client, At(t, <<"client", c>>) PROVE StateOf(t)' = StateOf(t)
  <2>1. At(t, <<"client", c>>)'
    BY <1>3 DEF Still
  <2>2. IdOf[c] = t /\ cpc[c] \in {"save", "queue"} /\ cpc'[c] \in {"save", "queue"}
    BY <1>3, <2>1 DEF At, Ready, Delayed, Processing
  <2>3. cpc'[c] = cpc[c]
    BY <2>2 DEF AtInv, ClientKnows, Still
  <2>4. CASE cpc[c] = "save"
    BY <1>1, <1>3, <2>1, <2>3, <2>4 DEF StateAt
  <2>5. CASE cpc[c] = "queue"
    <3>1. Hand(<<"client", c>>) /\ Hand(<<"client", c>>)'
      BY <2>3, <2>5 DEF Hand
    <3> QED
      BY <1>1, <1>3, <2>1, <3>1 DEF StateAt
  <2> QED
    BY <2>2, <2>4, <2>5
<1>4. ASSUME NEW p, At(t, p), \A c \in Client : p # <<"client", c>>
      PROVE  StateOf(t)' = StateOf(t)
  <2>1. At(t, p)'
    BY <1>4 DEF Still
  <2>2. p \in {Processing, Ready, Delayed} \/ (\E e : p = <<"dlq", e>>) \/ (Hand(p) /\ Hand(p)')
    BY <1>4 DEF At, Hand, TypeOK
  <2>3. CASE p \in {Processing, Ready, Delayed}
    BY <1>1, <1>4, <2>1, <2>3 DEF StateAt
  <2>4. ASSUME NEW e, p = <<"dlq", e>> PROVE StateOf(t)' = StateOf(t)
    <3>1. At(t, <<"dlq", e>>) /\ At(t, <<"dlq", e>>)'
      BY <1>4, <2>1, <2>4
    <3>2. StateOf(t) = "dead"
      BY <1>1, <3>1 DEF StateAt
    <3>3. StateOf(t)' = "dead"
      BY <1>1, <3>1 DEF StateAt
    <3> QED
      BY <3>2, <3>3
  <2>5. CASE Hand(p) /\ Hand(p)'
    BY <1>1, <1>4, <2>1, <2>5 DEF StateAt
  <2> QED
    BY <2>2, <2>3, <2>4, <2>5
<1> QED
  BY <1>2, <1>3, <1>4 DEF Nowhere

\* Every step of the queue is a step of the life cycle of one task, the loss of the
\* tasks a failing process held, or no step of the life cycle.
LEMMA StepRefines ==
    ASSUME TypeOK, AtInv, TypeOK', AtInv', Step
    PROVE  Abstract!Next \/ UNCHANGED lifecycle
<1> USE DEF Abstract!Move
<1>1. \A t \in Task : StateAt(t) /\ StateAt(t)'
  BY StateByPlace, StateByPlaceNext
<1>2. ASSUME NEW t \in Task, Others(t)
      PROVE  lifecycle' = [lifecycle EXCEPT ![t] = StateOf(t)']
  BY <1>2, StillSameState DEF lifecycle, Others
<1>3. ASSUME NEW t \in Task, Others(t), StateOf(t)' = StateOf(t)
      PROVE  UNCHANGED lifecycle
  BY <1>2, <1>3 DEF lifecycle
<1>4. CASE \A t \in Task : Still(t)
  BY <1>4, StillSameState DEF lifecycle
<1>5. ASSUME NEW t \in Task, Claim(t) PROVE UNCHANGED lifecycle
  <2> PICK c \in Client : /\ rec[t].status = "none" /\ Nowhere(t) /\ Alone(t, <<"client", c>>)'
                          /\ cpc' = [cpc EXCEPT ![c] = "save"]
    BY <1>5 DEF Claim
  <2>1. StateOf(t) = "new"
    BY <1>1 DEF StateAt, AtInv, TaskInv
  <2>2. At(t, <<"client", c>>)' /\ cpc'[c] = "save"
    BY DEF Alone, TypeOK
  <2>3. StateOf(t)' = "new"
    BY <1>1, <2>2 DEF StateAt
  <2> QED
    BY <1>3, <1>5, <2>1, <2>3 DEF Claim
<1>6. ASSUME NEW t \in Task, Withdraw(t) PROVE UNCHANGED lifecycle
  <2> PICK c \in Client : /\ Alone(t, <<"client", c>>) /\ cpc[c] = "save"
                          /\ rec'[t] = rec[t] /\ Nowhere(t)' /\ t \notin dropped'
    BY <1>6 DEF Withdraw
  <2>1. At(t, <<"client", c>>) /\ StateOf(t) = "new"
    BY <1>1 DEF Alone, StateAt
  <2>2. rec[t].status # "completed"
    BY <2>1 DEF AtInv, TaskInv, Nowhere
  <2>3. StateOf(t)' = "new"
    BY <1>1, <2>2 DEF StateAt
  <2> QED
    BY <1>3, <1>6, <2>1, <2>3 DEF Withdraw
<1>7. ASSUME NEW t \in Task, Accept(t) PROVE Abstract!Accept(t)
  <2> PICK c \in Client : /\ Moves(t, <<"client", c>>, <<"client", c>>)
                          /\ cpc[c] = "save" /\ cpc' = [cpc EXCEPT ![c] = "queue"]
    BY <1>7 DEF Accept
  <2>1. At(t, <<"client", c>>) /\ At(t, <<"client", c>>)' /\ cpc'[c] = "queue"
    BY DEF Moves, Alone, TypeOK
  <2>2. Hand(<<"client", c>>)'
    BY <2>1 DEF Hand
  <2>3. StateOf(t) = "new" /\ StateOf(t)' = "held"
    BY <1>1, <2>1, <2>2 DEF StateAt
  <2> QED
    BY <1>2, <2>3 DEF Moves, Abstract!Accept, lifecycle
<1>8. ASSUME NEW t \in Task, NEW p, NEW q, Moves(t, p, q), StateOf(t)' = StateOf(t)
      PROVE  UNCHANGED lifecycle
  BY <1>3, <1>8 DEF Moves
<1>9. ASSUME NEW t \in Task, NEW p, NEW q, Moves(t, p, q)
      PROVE  At(t, p) /\ At(t, q)' /\ lifecycle' = [lifecycle EXCEPT ![t] = StateOf(t)']
  BY <1>2, <1>9 DEF Moves, Alone
<1>10. ASSUME NEW t \in Task, Rewrite(t) PROVE UNCHANGED lifecycle
  <2> PICK p : Moves(t, p, p) /\ Hand(p) /\ Hand(p)'
    BY <1>10 DEF Rewrite
  <2>1. StateOf(t) = "held" /\ StateOf(t)' = "held"
    BY <1>1, <1>9 DEF StateAt
  <2> QED
    BY <1>8, <2>1
<1>11. ASSUME NEW t \in Task, Enlist(t) PROVE Abstract!Queue(t) \/ UNCHANGED lifecycle
  <2> PICK p, q : Moves(t, p, q) /\ (Hand(p) \/ p = Delayed) /\ q \in {Ready, Delayed}
    BY <1>11 DEF Enlist
  <2>1. StateOf(t)' = "queued" /\ StateOf(t) \in {"held", "queued"}
    BY <1>1, <1>9 DEF StateAt
  <2>2. CASE StateOf(t) = "held"
    BY <1>9, <2>1, <2>2 DEF Abstract!Queue, lifecycle
  <2>3. CASE StateOf(t) = "queued"
    BY <1>8, <2>1, <2>3
  <2> QED
    BY <2>1, <2>2, <2>3
<1>12. ASSUME NEW t \in Task, Take(t) PROVE Abstract!Lease(t)
  <2>1. Moves(t, Ready, Processing)
    BY <1>12 DEF Take
  <2>2. StateOf(t) = "queued" /\ StateOf(t)' = "leased"
    BY <1>1, <1>9, <2>1 DEF StateAt
  <2> QED
    BY <1>9, <2>1, <2>2 DEF Abstract!Lease, lifecycle
<1>13. ASSUME NEW t \in Task, Finish(t) PROVE Abstract!Complete(t)
  <2>1. At(t, Processing) /\ Nowhere(t)' /\ rec'[t].status = "completed"
    BY <1>13 DEF Finish, Alone
  <2>2. StateOf(t) = "leased" /\ StateOf(t)' = "done"
    BY <1>1, <2>1 DEF StateAt
  <2> QED
    BY <1>2, <1>13, <2>2 DEF Finish, Abstract!Complete, lifecycle
<1>14. ASSUME NEW t \in Task, Release(t) PROVE Abstract!Release(t)
  <2> PICK p : Moves(t, Processing, p) /\ Hand(p)'
    BY <1>14 DEF Release
  <2>1. StateOf(t) = "leased" /\ StateOf(t)' = "held"
    BY <1>1, <1>9 DEF StateAt
  <2> QED
    BY <1>9, <2>1 DEF Abstract!Release, lifecycle
<1>15. ASSUME NEW t \in Task, Return(t) PROVE Abstract!Reclaim(t)
  <2>1. Moves(t, Processing, Ready)
    BY <1>15 DEF Return
  <2>2. StateOf(t) = "leased" /\ StateOf(t)' = "queued"
    BY <1>1, <1>9, <2>1 DEF StateAt
  <2> QED
    BY <1>9, <2>1, <2>2 DEF Abstract!Reclaim, lifecycle
<1>16. ASSUME NEW t \in Task, Inter(t) PROVE Abstract!Bury(t)
  <2> PICK p, e : Moves(t, p, <<"dlq", e>>) /\ Hand(p)
    BY <1>16 DEF Inter
  <2>1. StateOf(t) = "held" /\ StateOf(t)' = "dead"
    BY <1>1, <1>9 DEF StateAt
  <2> QED
    BY <1>9, <2>1 DEF Abstract!Bury, lifecycle
<1>17. ASSUME NEW t \in Task, Exhume(t) PROVE Abstract!Redrive(t)
  <2> PICK a \in Admin, e \in dlq : Moves(t, <<"dlq", e>>, <<"admin", a, e>>)
    BY <1>17 DEF Exhume
  <2>1. Hand(<<"admin", a, e>>)'
    BY DEF Hand, TypeOK
  <2>2. StateOf(t) = "dead" /\ StateOf(t)' = "held"
    BY <1>1, <1>9, <2>1 DEF StateAt
  <2> QED
    BY <1>9, <2>2 DEF Abstract!Redrive, lifecycle
<1>18. ASSUME NEW S \in SUBSET Task, Lose(S) PROVE Abstract!Lose(S)
  <2>1. ASSUME NEW t \in S PROVE StateOf(t) \in {"held", "leased"} /\ StateOf(t)' = "lost"
    <3> PICK p : Alone(t, p) /\ (Hand(p) \/ p = Processing)
      BY <1>18, <2>1 DEF Lose
    <3>1. At(t, p) /\ Nowhere(t)' /\ rec'[t] = rec[t] /\ t \in dropped'
      BY <1>18, <2>1 DEF Lose, Alone
    <3>2. StateOf(t) \in {"held", "leased"}
      BY <1>1, <3>1 DEF StateAt
    <3>3. rec'[t].status # "completed"
      BY <3>1 DEF AtInv, TaskInv, Nowhere
    <3> QED
      BY <1>1, <3>1, <3>2, <3>3 DEF StateAt
  <2>2. \A u \in Task \ S : StateOf(u)' = StateOf(u)
    BY <1>18, StillSameState DEF Lose
  <2> QED
    BY <1>18, <2>1, <2>2 DEF Lose, Abstract!Lose, lifecycle
<1> QED
  BY <1>4, <1>5, <1>6, <1>7, <1>10, <1>11, <1>12, <1>13, <1>14, <1>15, <1>16, <1>17, <1>18
  DEF Step, Abstract!Next

\* The queue keeps the promise of TaskLifecycle, faults included: a task leaves its
\* state only along the arrows, completed is final, and only a process that fails
\* while it holds a task, or releases it, loses it.
THEOREM QueueImplementsLifecycle ==
    Spec /\ []NoSubmitRace => Lifecycle
<1>1. Init => Abstract!Init
  <2> SUFFICES ASSUME Init, NEW t \in Task PROVE StateOf(t) = "new"
    BY DEF Abstract!Init, lifecycle
  <2>1. rec[t].status = "none" /\ t \notin dropped /\ ~Buried(t) /\ ~Carried(t)
    BY DEF Init, Absent, Buried, Carried, Routing
  <2> QED
    BY <2>1 DEF Init, StateOf
<1>2. TypeOK /\ AtInv /\ TypeOK' /\ AtInv' /\ NoSubmitRace' /\ [Next]_vars
          => [Abstract!Next]_lifecycle
  BY StepMoves, StepRefines
<1> QED
  BY <1>1, <1>2, PlacesInvariant, PTL DEF Spec, Lifecycle, Abstract!Spec
=============================================================================
