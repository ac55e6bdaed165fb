-------------------------- MODULE DoorbellProofs --------------------------
(* Theorems about Doorbell, for any number of workers and tasks.            *)
EXTENDS Doorbell, TLAPS

\* Every reachable state is well typed: no count is negative, the list stays
\* within its cap, and every worker is in exactly one phase.
THEOREM DoorbellTyped == Spec => []TypeOK
<1> USE DoorbellAssumption DEF TypeOK, workers
<1>1. Init => TypeOK
  BY DEF Init
<1>2. TypeOK /\ [Next]_vars => TypeOK'
  <2> SUFFICES ASSUME TypeOK, [Next]_vars PROVE TypeOK'
    OBVIOUS
  <2>1. CASE Enqueue
    BY <2>1 DEF Enqueue
  <2>2. CASE Signal
    BY <2>2 DEF Signal, Pushed
  <2>3. CASE SignalLost
    BY <2>3 DEF SignalLost
  <2>4. ASSUME NEW k \in 1..MaxBatch, MakeReady(k) PROVE TypeOK'
    BY <2>4 DEF MakeReady, Pushed
  <2>5. CASE ClaimWoken
    BY <2>5 DEF ClaimWoken
  <2>6. CASE ClaimAwake
    <3>1. CASE ready > 0
      BY <2>6, <3>1 DEF ClaimAwake
    <3>2. CASE ~(ready > 0)
      BY <2>6, <3>2 DEF ClaimAwake
    <3> QED
      BY <3>1, <3>2
  <2>7. CASE WakeUp \/ FallBack
    BY <2>7 DEF WakeUp, FallBack, BlockEnds
  <2>8. CASE Finish \/ ClaimFails
    BY <2>8 DEF Finish, ClaimFails
  <2>9. CASE UNCHANGED vars
    BY <2>9 DEF vars
  <2> QED
    BY <2>1, <2>2, <2>3, <2>4, <2>5, <2>6, <2>7, <2>8, <2>9 DEF Next
<1> QED
  BY <1>1, <1>2, PTL DEF Spec

\* A cap of at least the number of workers is enough: no worker sleeps beside a
\* ready task with no wake-up on its way, but for a lost ring or a failed claim.
THEOREM NoWorkerOversleeps ==
  ASSUME Workers <= Cap
  PROVE  Spec => []NoMissedWakeUp
<1> USE DoorbellAssumption DEF TypeOK, workers
<1>1. Init => EnoughWakeUps
  BY DEF Init, EnoughWakeUps, Least
<1>2. TypeOK /\ EnoughWakeUps /\ [Next]_vars => EnoughWakeUps'
  <2> SUFFICES ASSUME TypeOK, EnoughWakeUps, [Next]_vars PROVE EnoughWakeUps'
    OBVIOUS
  <2> USE DEF EnoughWakeUps, Least
  <2>1. CASE Enqueue
    BY <2>1 DEF Enqueue
  <2>2. CASE Signal
    BY <2>2 DEF Signal, Pushed
  <2>3. ASSUME NEW k \in 1..MaxBatch, MakeReady(k) PROVE EnoughWakeUps'
    BY <2>3 DEF MakeReady, Pushed
  <2>4. CASE ClaimWoken
    BY <2>4 DEF ClaimWoken
  <2>5. CASE ClaimAwake
    BY <2>5 DEF ClaimAwake
  <2>6. CASE WakeUp
    BY <2>6 DEF WakeUp
  <2>7. CASE FallBack
    BY <2>7 DEF FallBack, BlockEnds
  <2>8. CASE Finish
    BY <2>8 DEF Finish
  <2>9. CASE SignalLost
    BY <2>9 DEF SignalLost
  <2>10. CASE ClaimFails
    BY <2>10 DEF ClaimFails
  <2>11. CASE UNCHANGED vars
    BY <2>11 DEF vars
  <2> QED
    BY <2>1, <2>2, <2>3, <2>4, <2>5, <2>6, <2>7, <2>8, <2>9, <2>10, <2>11 DEF Next
<1>3. TypeOK /\ EnoughWakeUps => NoMissedWakeUp
  BY DEF EnoughWakeUps, Least, NoMissedWakeUp
<1> QED
  BY <1>1, <1>2, <1>3, DoorbellTyped, PTL DEF Spec
=============================================================================
