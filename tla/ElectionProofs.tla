-------------------------- MODULE ElectionProofs --------------------------
(* Theorems about Election, for every set of nodes and every TTL.           *)
EXTENDS Election, TLAPS

\* The renewal period is positive and shorter than the TTL.
LEMMA RenewIntBounds == RenewInt \in Nat /\ RenewInt > 0 /\ RenewInt < TTL
  BY ElectionAssumption DEF RenewInt

\* With prompt calls the lease outlasts a period and two calls.
LEMMA PromptBounds == Prompt \in Nat /\ RenewInt + Prompt + Prompt < TTL
  BY ElectionAssumption DEF RenewInt, Prompt

\* Every reachable state is well typed.
THEOREM ElectionTypeCorrect == Spec => []TypeOK
<1> USE ElectionAssumption, RenewIntBounds DEF TypeOK
<1>1. Init => TypeOK
  BY DEF Init, HeadlessCap
<1>2. TypeOK /\ [Next]_vars => TypeOK'
  <2> SUFFICES ASSUME TypeOK, [Next]_vars PROVE TypeOK'
    OBVIOUS
  <2>1. CASE Tick
    <3>1. spent' \in [Node -> 0..MaxCall]
      <4> SUFFICES ASSUME NEW n \in Node
                   PROVE  (IF Awake(n) /\ Waiting(n) THEN spent[n] + 1 ELSE spent[n]) \in 0..MaxCall
        BY <2>1 DEF Tick
      <4>1. Awake(n) /\ Waiting(n) => spent[n] < MaxCall
        BY <2>1 DEF Tick
      <4> QED
        BY <4>1
    <3>2. timer' \in [Node -> 1..RenewInt] /\ stale' \in [Node -> Nat]
      BY <2>1 DEF Tick
    <3>3. key' \in Node \cup {None} /\ left' \in 0..TTL /\ (key' # None => left' > 0)
      BY <2>1 DEF Tick, KeyAges
    <3>4. headless' \in 0..HeadlessCap
      BY <2>1 DEF Tick, HeadlessCap
    <3>5. ticked' \subseteq Node /\ late' \subseteq Node /\ UNCHANGED <<mode, call, wire, paused>>
      BY <2>1 DEF Tick
    <3> QED
      BY <3>1, <3>2, <3>3, <3>4, <3>5
  <2>2. ASSUME NEW n \in Node, NodeStep(n) PROVE TypeOK'
    BY <2>2 DEF NodeStep, Acquire, Begin, Renew, RenewRefused, Release, ExitUnreleased,
                Take, StepDown, OwnsKey, Due, Leading, Waiting, calls, HeadlessCap
  <2>3. ASSUME NEW n \in Node, CallEnds(n) PROVE TypeOK'
    BY <2>3 DEF CallEnds, Answered, CallFails, CallOver, Abdicate, StepDown, Leading, Waiting, HeadlessCap
  <2>4. ASSUME NEW n \in Node, NodeFault(n) PROVE TypeOK'
    <3>1. CASE Shutdown(n) \/ Crash(n)
      BY <3>1 DEF Shutdown, Crash, CallOver
    <3>2. CASE Pause(n) \/ Resume(n)
      BY <3>2 DEF Pause, Resume, calls
    <3>3. CASE CallHangs(n)
      BY <3>3 DEF CallHangs, Command, Due, Waiting
    <3>4. CASE SetLands(n) \/ RenewLands(n)
      BY <3>4 DEF SetLands, RenewLands, Heard, Take, OwnsKey, HeadlessCap
    <3> QED
      BY <2>4, <3>1, <3>2, <3>3, <3>4 DEF NodeFault
  <2>5. CASE UNCHANGED vars
    BY <2>5 DEF vars, calls
  <2> QED
    BY <2>1, <2>2, <2>3, <2>4, <2>5 DEF Next
<1> QED
  BY <1>1, <1>2, PTL DEF Spec

-----------------------------------------------------------------------------
\* What makes the lease exclusive: the key of a node that has neither stalled nor
\* waited too long has a TTL, less the time since the node was last told so, less
\* the time since its ticker should have been served.
Covered(n) ==
    /\ call[n] = "yes" => key = n /\ left >= TTL - spent[n] /\ left >= TTL - Prompt
    /\ mode[n] = "elected" => key = n /\ left >= TTL - Prompt
    /\ Leading(n) =>
         /\ key = n
         /\ Waiting(n) => left >= TTL - Prompt - RenewInt - spent[n]
         /\ ~Waiting(n) /\ n \in ticked => left >= TTL - Prompt - RenewInt
         /\ ~Waiting(n) /\ n \notin ticked => left >= TTL - Prompt - RenewInt + timer[n]

LeaseCovers ==
    /\ paused \subseteq late
    /\ \A n \in Node : ~Waiting(n) => spent[n] = 0
    /\ \A n \in Node \ late : Covered(n)

\* Two nodes lead at once only if one of them has stalled, or has waited for a call
\* for too long, since it took the key: failing calls, replies that are lost, calls
\* that are repeated or land late, crashes and shutdowns never make two leaders.
THEOREM OneLeaderUnlessLate == Spec => []SingleLeader
<1> USE ElectionAssumption, RenewIntBounds, PromptBounds
<1>1. Init => LeaseCovers
  BY DEF Init, LeaseCovers, Covered, Leading, Waiting
<1>2. TypeOK /\ LeaseCovers /\ [Next]_vars => LeaseCovers'
  <2> SUFFICES ASSUME TypeOK, LeaseCovers, [Next]_vars PROVE LeaseCovers'
    OBVIOUS
  <2> USE DEF TypeOK, LeaseCovers, Covered, Leading, Waiting
  <2>1. CASE Tick
    <3>1. (paused \subseteq late)' /\ (\A n \in Node : ~Waiting(n) => spent[n] = 0)'
      BY <2>1 DEF Tick
    <3>2. ASSUME NEW n \in Node \ late' PROVE Covered(n)'
      <4>1. n \in Node \ late /\ Awake(n) /\ (Waiting(n) => spent[n] < Prompt)
        BY <2>1 DEF Tick, Awake
      <4>2. /\ mode'[n] = mode[n] /\ call'[n] = call[n] /\ mode[n] # "elected"
            /\ Leading(n) /\ ~Waiting(n) => n \notin ticked
            /\ spent'[n] = IF Waiting(n) THEN spent[n] + 1 ELSE spent[n]
        BY <2>1, <4>1 DEF Tick, Due
      <4>3. Leading(n) => /\ timer'[n] = IF timer[n] > 1 THEN timer[n] - 1 ELSE RenewInt
                          /\ n \in ticked' <=> n \in ticked \/ timer[n] = 1
        BY <2>1 DEF Tick, Ticks
      <4>4. key = n /\ left > 1 => key' = n /\ left' = left - 1
        BY <2>1 DEF Tick, KeyAges
      <4>5. call[n] = "yes" \/ Leading(n) => key = n /\ left > 1
        BY <4>1, <4>2
      <4> QED
        BY <4>1, <4>2, <4>3, <4>4, <4>5
    <3> QED
      BY <3>1, <3>2
  <2>2. ASSUME NEW n \in Node, NodeStep(n) PROVE LeaseCovers'
    BY <2>2 DEF NodeStep, Acquire, Begin, Renew, RenewRefused, Release, ExitUnreleased,
                Take, StepDown, OwnsKey, Due, Awake, calls
  <2>3. ASSUME NEW n \in Node, CallEnds(n) PROVE LeaseCovers'
    BY <2>3 DEF CallEnds, Answered, CallFails, CallOver, Abdicate, StepDown, Awake
  <2>4. ASSUME NEW n \in Node, NodeFault(n) PROVE LeaseCovers'
    <3>1. CASE Shutdown(n) \/ Crash(n)
      BY <3>1 DEF Shutdown, Crash, CallOver
    <3>2. CASE Pause(n) \/ Resume(n)
      BY <3>2 DEF Pause, Resume, calls
    <3>3. CASE CallHangs(n)
      BY <3>3 DEF CallHangs, Due, Awake
    <3>4. CASE SetLands(n)
      <4>1. /\ UNCHANGED <<mode, timer, ticked, spent, paused>>
            /\ call'[n] = call[n] \/ (call[n] = "asked" /\ call'[n] = IF key = None THEN "yes" ELSE "no")
            /\ \A m \in Node : m # n => call'[m] = call[m]
        BY <3>4 DEF SetLands, Heard
      <4>2. CASE key # None
        BY <3>4, <4>1, <4>2 DEF SetLands
      <4>3. CASE key = None
        <5>1. key' = n /\ left' = TTL /\ late' = IF n \notin paused THEN late \ {n} ELSE late
          BY <3>4, <4>3 DEF SetLands, Take, Awake
        <5>2. \A m \in Node \ late : call[m] # "yes" /\ mode[m] # "elected" /\ ~Leading(m)
          BY <4>3
        <5> QED
          BY <4>1, <4>3, <5>1, <5>2
      <4> QED
        BY <4>2, <4>3
    <3>5. CASE RenewLands(n)
      BY <3>5 DEF RenewLands, Heard, OwnsKey, Command
    <3> QED
      BY <2>4, <3>1, <3>2, <3>3, <3>4, <3>5 DEF NodeFault
  <2>5. CASE UNCHANGED vars
    BY <2>5 DEF vars, calls
  <2> QED
    BY <2>1, <2>2, <2>3, <2>4, <2>5 DEF Next
<1>3. LeaseCovers => SingleLeader
  BY DEF LeaseCovers, Covered, SingleLeader
<1> QED
  BY <1>1, <1>2, <1>3, ElectionTypeCorrect, PTL DEF Spec

\* No two leaders at all, where the client gives a call up in time and no process
\* stalls: with RenewInt a third of the TTL, within a third of the TTL.
THEOREM OneLeaderIfPrompt ==
    ASSUME "pause" \notin Faults, MaxCall <= Prompt
    PROVE  Spec => [](\A m, n \in Node : Leading(m) /\ Leading(n) => m = n)
<1> DEFINE InTime == late = {} /\ paused = {}
<1>1. Init => InTime
  BY DEF Init
<1>2. TypeOK /\ InTime /\ [Next]_vars => InTime'
  <2> SUFFICES ASSUME TypeOK, InTime, [Next]_vars PROVE InTime'
    OBVIOUS
  <2>1. CASE Tick
    <3>1. \A n \in Node : Waiting(n) => spent[n] < Prompt
      BY <2>1, ElectionAssumption, PromptBounds DEF Tick, Awake, TypeOK
    <3>2. \A n \in Node : Waiting(n) => ~(spent[n] >= Prompt)
      BY <3>1, ElectionAssumption, PromptBounds DEF TypeOK
    <3> QED
      BY <2>1, <3>2 DEF Tick
  <2>2. ASSUME NEW n \in Node, NodeStep(n) PROVE InTime'
    BY <2>2 DEF NodeStep, Acquire, Begin, Renew, RenewRefused, Release, ExitUnreleased
  <2>3. ASSUME NEW n \in Node, CallEnds(n) \/ NodeFault(n) PROVE InTime'
    BY <2>3 DEF CallEnds, Answered, CallFails, NodeFault, Shutdown, Crash, Pause, Resume,
                CallHangs, SetLands, RenewLands, Awake
  <2>4. CASE UNCHANGED vars
    BY <2>4 DEF vars
  <2> QED
    BY <2>1, <2>2, <2>3, <2>4 DEF Next
<1>3. InTime /\ SingleLeader => \A m, n \in Node : Leading(m) /\ Leading(n) => m = n
  BY DEF SingleLeader
<1> QED
  BY <1>1, <1>2, <1>3, ElectionTypeCorrect, OneLeaderUnlessLate, PTL DEF Spec

-----------------------------------------------------------------------------
\* What bounds a stale leader: the time it has led without the key, the rest of the
\* call or period it is in, and the call that then tells it, fit into the window.
Longest == IF MaxCall > RenewInt THEN MaxCall ELSE RenewInt

Overdue(n) ==
    /\ stale[n] <= Longest + MaxCall
    /\ Leading(n) /\ key # n =>
         /\ call[n] \in {"asked", "no"} => stale[n] <= Longest + spent[n]
         /\ call[n] = "yes" => stale[n] + MaxCall <= Longest + spent[n]
         /\ ~Waiting(n) => stale[n] <= Longest
         /\ call[n] \in {"yes", "none"} /\ n \notin ticked => stale[n] + timer[n] <= Longest

\* Whatever fails, hangs, lands late or stalls, a former leader runs the singleton
\* loops for at most a call or a period, and a call more, of its own running time.
THEOREM StaleLeaderStops == Spec => []StaleBound
<1> DEFINE Bounded == \A n \in Node : Overdue(n) /\ (~Leading(n) => stale[n] = 0)
<1>0. Longest \in Nat /\ Longest >= MaxCall /\ Longest >= RenewInt /\ Window = Longest + MaxCall
  BY ElectionAssumption, RenewIntBounds DEF Longest, Window
<1> USE ElectionAssumption, RenewIntBounds, <1>0
<1>1. Init => Bounded
  <2> SUFFICES ASSUME Init, NEW n \in Node PROVE Overdue(n) /\ (~Leading(n) => stale[n] = 0)
    OBVIOUS
  <2>1. stale[n] = 0 /\ ~Leading(n)
    BY DEF Init, Leading
  <2>2. 0 <= Longest + MaxCall
    BY <1>0
  <2> QED
    BY <2>1, <2>2 DEF Overdue
<1>2. TypeOK /\ Bounded /\ [Next]_vars => Bounded'
  <2> SUFFICES ASSUME TypeOK, Bounded, [Next]_vars PROVE Bounded'
    OBVIOUS
  <2> USE DEF TypeOK, Overdue, Leading, Waiting
  <2>1. CASE Tick
    <3> SUFFICES ASSUME NEW n \in Node PROVE Overdue(n)' /\ (~Leading(n) => stale[n] = 0)'
      OBVIOUS
    <3>1. mode'[n] = mode[n] /\ call'[n] = call[n]
      BY <2>1 DEF Tick
    <3>2. CASE ~Leading(n) \/ key = n
      <4>1. stale'[n] = 0
        BY <2>1, <3>2 DEF Tick
      <4>2. timer'[n] \in 1..RenewInt /\ spent'[n] \in 0..MaxCall /\ spent'[n] >= 0
        BY <2>1 DEF Tick
      <4> QED
        BY <3>1, <4>1, <4>2
    <3>3. CASE Leading(n) /\ key # n
      <4>1. /\ stale'[n] = IF Awake(n) THEN stale[n] + 1 ELSE stale[n]
            /\ spent'[n] = IF Awake(n) /\ Waiting(n) THEN spent[n] + 1 ELSE spent[n]
            /\ timer'[n] = IF timer[n] > 1 THEN timer[n] - 1 ELSE RenewInt
            /\ n \in ticked' <=> n \in ticked \/ timer[n] = 1
        BY <2>1, <3>3 DEF Tick, Ticks
      <4>2. Awake(n) => /\ ~Waiting(n) => n \notin ticked
                        /\ Waiting(n) => spent[n] < MaxCall
        BY <2>1, <3>3 DEF Tick, Due
      <4> QED
        BY <3>1, <3>3, <4>1, <4>2
    <3> QED
      BY <3>2, <3>3
  <2>2. ASSUME NEW n \in Node, NodeStep(n) PROVE Bounded'
    BY <2>2 DEF NodeStep, Acquire, Begin, Renew, RenewRefused, Release, ExitUnreleased,
                Take, StepDown, OwnsKey, Due, calls
  <2>3. ASSUME NEW n \in Node, CallEnds(n) PROVE Bounded'
    BY <2>3 DEF CallEnds, Answered, CallFails, CallOver, Abdicate, StepDown
  <2>4. ASSUME NEW n \in Node, NodeFault(n) PROVE Bounded'
    <3>1. CASE Shutdown(n) \/ Crash(n)
      BY <3>1 DEF Shutdown, Crash, CallOver
    <3>2. CASE Pause(n) \/ Resume(n)
      BY <3>2 DEF Pause, Resume, calls
    <3>3. CASE CallHangs(n)
      BY <3>3 DEF CallHangs, Due
    <3>4. CASE SetLands(n)
      BY <3>4 DEF SetLands, Heard, Take, Command
    <3>5. CASE RenewLands(n)
      BY <3>5 DEF RenewLands, Heard, OwnsKey, Command
    <3> QED
      BY <2>4, <3>1, <3>2, <3>3, <3>4, <3>5 DEF NodeFault
  <2>5. CASE UNCHANGED vars
    BY <2>5 DEF vars, calls
  <2> QED
    BY <2>1, <2>2, <2>3, <2>4, <2>5 DEF Next
<1>3. Bounded => StaleBound
  BY DEF StaleBound, Overdue
<1> QED
  BY <1>1, <1>2, <1>3, ElectionTypeCorrect, PTL DEF Spec

\* No operation of one node ends or extends the lease of another, however late it
\* lands: the scripts look at the owner when they run.
THEOREM OwnerOnly == Spec => LeaseIsTheOwners
<1> DEFINE Owners == \A n \in Node : key = n =>
                       /\ key' # n => (left = 1 /\ mode' = mode) \/ mode[n] = "releasing"
                       /\ left' > left => (Leading(n) /\ Due(n)) \/ "renew" \in wire[n]
<1>1. ASSUME TypeOK, [Next]_vars, NEW n \in Node, key = n
      PROVE  /\ key' # n => (left = 1 /\ mode' = mode) \/ mode[n] = "releasing"
             /\ left' > left => (Leading(n) /\ Due(n)) \/ "renew" \in wire[n]
  <2> USE <1>1, ElectionAssumption DEF TypeOK
  <2>1. CASE Tick
    BY <2>1 DEF Tick, KeyAges
  <2>2. ASSUME NEW m \in Node, NodeStep(m)
        PROVE  /\ key' # n => mode[n] = "releasing"
               /\ left' > left => Leading(n) /\ Due(n)
    BY <2>2 DEF NodeStep, Acquire, Begin, Renew, RenewRefused, Release, ExitUnreleased, OwnsKey
  <2>3. ASSUME NEW m \in Node, CallEnds(m) PROVE key' = key /\ left' = left
    BY <2>3 DEF CallEnds, Answered, CallFails
  <2>4. ASSUME NEW m \in Node, NodeFault(m)
        PROVE  key' = key /\ (left' > left => "renew" \in wire[n])
    BY <2>4 DEF NodeFault, Shutdown, Crash, Pause, Resume, CallHangs, SetLands, RenewLands, OwnsKey
  <2>5. CASE UNCHANGED vars
    BY <2>5 DEF vars
  <2> QED
    BY <2>1, <2>2, <2>3, <2>4, <2>5 DEF Next
<1>2. TypeOK /\ [Next]_vars => [Owners]_vars
  BY <1>1
<1> QED
  BY <1>2, ElectionTypeCorrect, PTL DEF Spec, LeaseIsTheOwners

-----------------------------------------------------------------------------
\* What bounds a failover: while the key of a failed leader lives, the time without
\* a leader and the rest of the lease fit into one TTL; once the key is gone, that
\* time and the rest of any standby's polling period fit into one period more.
CrownReturns ==
    /\ \A n \in Node : mode[n] \in {"elected", "leading"} => headless = 0
    /\ key # None => headless + left <= TTL
    /\ key = None => \A n \in Node : mode[n] = "standby" /\ ~Waiting(n) /\ n \notin ticked
                                       => headless + timer[n] < TTL + RenewInt

\* A leader that fails at the worst moment costs less than a TTL and a polling period
\* without a leader, counted from the last call that hung and the last stall.
THEOREM FailoverIsBounded == Spec => []FailoverBound
<1> USE ElectionAssumption, RenewIntBounds
<1> DEFINE Inv == CrownReturns /\ FailoverBound
<1>1. Init => Inv
  BY DEF Init, CrownReturns, FailoverBound
<1>2. TypeOK /\ Inv /\ [Next]_vars => Inv'
  <2> SUFFICES ASSUME TypeOK, Inv, [Next]_vars PROVE Inv'
    OBVIOUS
  <2> USE DEF TypeOK, CrownReturns, FailoverBound, Waiting
  <2>1. CASE Tick
    <3>1. CASE headless' = 0
      <4>1. left' \in 0..TTL
        BY <2>1 DEF Tick, KeyAges
      <4>2. \A n \in Node : timer'[n] \in 1..RenewInt
        BY <2>1 DEF Tick
      <4> QED
        BY <3>1, <4>1, <4>2
    <3>2. CASE headless' # 0
      <4>1. /\ \A n \in Node : Awake(n) /\ ~Waiting(n) /\ ~Leading(n)
            /\ \E n \in Node : mode[n] \notin {"releasing", "down"}
            /\ headless' \in {headless, headless + 1}
        BY <2>1, <3>2 DEF Tick
      <4>2. \A n \in Node : mode[n] # "elected" /\ (mode[n] = "standby" => n \notin ticked)
        BY <2>1, <4>1 DEF Tick, Due
      <4>3. PICK n \in Node : mode[n] = "standby"
        BY <4>1, <4>2 DEF Leading
      <4>4. \A m \in Node : mode[m] = "standby" /\ m \notin ticked' =>
                              timer[m] > 1 /\ timer'[m] = timer[m] - 1
        BY <2>1, <4>2 DEF Tick, Ticks
      <4>5. UNCHANGED <<mode, call>>
        BY <2>1 DEF Tick
      <4>6. CASE key # None /\ left > 1
        <5>1. key' = key /\ left' = left - 1
          BY <2>1, <4>6 DEF Tick, KeyAges
        <5>2. headless + left <= TTL /\ headless \in Nat
          BY <4>6 DEF HeadlessCap
        <5>3. \A h \in {headless, headless + 1}, l \in {left - 1} :
                h + l <= TTL /\ h < TTL + RenewInt
          BY <4>6, <5>2
        <5>4. headless' + left' <= TTL /\ headless' < TTL + RenewInt
          BY <4>1, <5>1, <5>3
        <5> QED
          BY <4>1, <4>2, <4>5, <4>6, <5>1, <5>4 DEF Leading
      <4>7. CASE key # None /\ ~(left > 1)
        <5>1. key' = None /\ headless' <= TTL
          BY <2>1, <4>1, <4>7 DEF Tick, KeyAges
        <5> QED
          BY <4>1, <4>2, <4>4, <4>5, <5>1 DEF Leading
      <4>8. CASE key = None
        <5>1. key' = None
          BY <2>1, <4>8 DEF Tick, KeyAges
        <5>2. \A m \in Node : mode[m] = "standby" => headless + timer[m] < TTL + RenewInt
          BY <4>1, <4>2, <4>8
        <5>3. headless' < TTL + RenewInt
          <6>1. headless + timer[n] < TTL + RenewInt /\ timer[n] \in Nat /\ timer[n] >= 1
            BY <5>2, <4>3
          <6>2. TTL \in Nat /\ RenewInt \in Nat /\ headless \in Nat
            BY DEF HeadlessCap
          <6> QED
            BY ONLY <4>1, <6>1, <6>2
        <5> QED
          BY <4>1, <4>2, <4>4, <4>5, <5>1, <5>2, <5>3 DEF Leading
      <4> QED
        BY <4>6, <4>7, <4>8
    <3> QED
      BY <3>1, <3>2
  <2>2. ASSUME NEW n \in Node, NodeStep(n) PROVE Inv'
    BY <2>2 DEF NodeStep, Acquire, Begin, Renew, RenewRefused, Release, ExitUnreleased,
                Take, StepDown, OwnsKey, Leading, Due, calls
  <2>3. ASSUME NEW n \in Node, CallEnds(n) PROVE Inv'
    <3>1. headless' = 0 /\ key' = key /\ left' = left
      BY <2>3 DEF CallEnds, Answered, CallFails
    <3>2. \A m \in Node : timer'[m] \in 1..RenewInt
      BY <2>3 DEF CallEnds, Answered, CallFails, Abdicate, StepDown
    <3> QED
      BY <3>1, <3>2
  <2>4. ASSUME NEW n \in Node, NodeFault(n) PROVE Inv'
    <3>1. CASE Shutdown(n) \/ Crash(n)
      BY <3>1 DEF Shutdown, Crash, CallOver
    <3>2. CASE Pause(n) \/ Resume(n)
      BY <3>2 DEF Pause, Resume, calls
    <3>3. CASE CallHangs(n)
      BY <3>3 DEF CallHangs
    <3>4. CASE SetLands(n) \/ RenewLands(n)
      BY <3>4 DEF SetLands, RenewLands, Take
    <3> QED
      BY <2>4, <3>1, <3>2, <3>3, <3>4 DEF NodeFault
  <2>5. CASE UNCHANGED vars
    BY <2>5 DEF vars, calls
  <2> QED
    BY <2>1, <2>2, <2>3, <2>4, <2>5 DEF Next
<1> QED
  BY <1>1, <1>2, ElectionTypeCorrect, PTL DEF Spec
=============================================================================
