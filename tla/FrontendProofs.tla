--------------------------- MODULE FrontendProofs ---------------------------
(***************************************************************************)
(* Theorems about the dashboard as a whole: it is well typed whichever part  *)
(* is followed, what follows the pointer, the page and the window is drawn   *)
(* where it is, the landing diagram tells the life cycle of a task, the form *)
(* is wrong about exactly the schedules it overlooks, and the promises of    *)
(* the parts hold of the composition.                                        *)
(***************************************************************************)
EXTENDS Frontend, Integers, TLAPS, FiniteSetTheorems

\* The theorems of a part, which the composition takes over.
SP == INSTANCE SubmissionProofs

\* Bounds are numbers, and the server has a name for a job.
BoundsAreNumbers ==
    /\ MaxOutages \in Nat /\ MaxPos \in Nat
    /\ Len(History) \in Nat /\ JobId # {}

-----------------------------------------------------------------------------
(* Panels.                                                                  *)

Endpoint == {"nodes", "leader", "events", "cluster", "queues", "failed", "enhanced"}

Call == [stage : {"free", "asked", "answered", "failed"},
         of : Endpoint \cup {"nothing"}, at : 0..now]

\* A poller shows, and waits for, versions the server has had.
Poller == [data : [of : Endpoint \cup {"nothing"}, at : 0..now], error : BOOLEAN,
           calls : [Slot -> Call]]

PanelsTyped ==
    /\ panel \in P!PagePanels /\ mounted \in BOOLEAN
    /\ now \in DOMAIN History /\ mode \in {"all", "cluster"}
    /\ outages \in 0..MaxOutages
    /\ pollers \in [DOMAIN P!Polls(panel, "all") -> Poller]

\* The operations on a poller make one of it: its page is mounted.
LEMMA PollerStarts ==
    ASSUME now \in Nat, NEW endpoint \in Endpoint PROVE P!Mounted(endpoint) \in Poller
<1>1. P!Idle \in Poller
  BY DEF P!Idle, P!Nothing, P!Free, Poller, Call, Endpoint
<1>2. P!Asked(endpoint) \in Call
  BY DEF P!Asked, Call
<1> QED
  BY <1>1, <1>2 DEF P!Mounted, P!Poll, Poller

\* The interval fires.
LEMMA PollerPolls ==
    ASSUME now \in Nat, NEW p \in Poller, NEW endpoint \in Endpoint
    PROVE  P!Poll(p, endpoint) \in Poller
<1>2. P!Asked(endpoint) \in Call
  BY DEF P!Asked, Call
<1> QED
  BY <1>2 DEF P!Poll, Poller

\* A request is served, or fails.
LEMMA PollerServes ==
    ASSUME now \in Nat, NEW p \in Poller, NEW s \in Slot, NEW outcome
    PROVE  P!Serve(p, s, outcome, now) \in Poller
<1>1. ASSUME NEW c \in Call, NEW n \in 0..now
      PROVE  /\ [c EXCEPT !.stage = "answered", !.at = n] \in Call
             /\ [c EXCEPT !.stage = "failed"] \in Call
  BY DEF Call
<1>0. now \in 0..now /\ 0 \in 0..now
  OBVIOUS
<1>2. ASSUME NEW c \in Call PROVE P!GetJson(c, outcome, now) \in Call
  BY <1>0, <1>1 DEF P!GetJson
<1>3. ASSUME NEW c \in Call PROVE P!GetLeader(c, outcome, now) \in Call
  BY <1>0, <1>1, <1>2 DEF P!GetLeader
<1>4. p.calls \in [Slot -> Call]
  BY DEF Poller
<1> QED
  BY <1>2, <1>3, <1>4 DEF P!Serve, Poller

\* An answer is delivered.
LEMMA PollerSettles ==
    ASSUME now \in Nat, NEW p \in Poller, NEW s \in Slot PROVE P!Settle(p, s) \in Poller
<1>1. P!Free \in Call
  BY DEF P!Free, Call
<1>2. p.calls[s] \in Call
  BY DEF Poller
<1> QED
  BY <1>1, <1>2 DEF P!Settle, Poller, Call

\* The endpoints of a panel, and how many there are, whatever the tab of the log.
LEMMA PollsEndpoints ==
    ASSUME NEW p \in P!PagePanels, NEW m \in {"all", "cluster"}
    PROVE  /\ DOMAIN P!Polls(p, m) = DOMAIN P!Polls(p, "all")
           /\ \A k \in DOMAIN P!Polls(p, m) : P!Polls(p, m)[k] \in Endpoint
BY DEF P!PagePanels, P!Polls, P!LogEndpoint, Endpoint

\* A page that opens gives each endpoint of its panel a poller.
LEMMA FreshPollers ==
    ASSUME now \in Nat, NEW p \in P!PagePanels, NEW m \in {"all", "cluster"}
    PROVE  P!Fresh(p, m) \in [DOMAIN P!Polls(p, m) -> Poller]
BY PollerStarts, PollsEndpoints DEF P!Fresh

\* Every step of the panels keeps their pollers typed.
LEMMA PanelsStep ==
    ASSUME PanelsTyped, P!Next, Len(History) \in Nat, MaxOutages \in Nat PROVE PanelsTyped'
<1> DEFINE D == DOMAIN P!Polls(panel, "all")
<1>0. /\ now \in Nat /\ now \in 1..Len(History) /\ DOMAIN History = 1..Len(History)
      /\ DOMAIN pollers = D /\ DOMAIN P!Polls(panel, mode) = D
  BY HistoryIsTyped, PollsEndpoints DEF PanelsTyped
<1> USE <1>0
<1>1. CASE P!Advance
  <2>1. Poller \subseteq Poller'
    BY <1>1 DEF P!Advance, Poller, Call
  <2> QED
    BY <1>1, <2>1 DEF P!Advance, PanelsTyped
<1>2. ASSUME NEW m \in {"all", "cluster"}, P!SetMode(m) PROVE PanelsTyped'
  BY <1>2 DEF P!SetMode, PanelsTyped, Poller, Call
<1>3. CASE P!Leave
  <2>1. P!Idle \in Poller
    BY DEF P!Idle, P!Nothing, P!Free, Poller, Call
  <2> QED
    BY <1>3, <2>1 DEF P!Leave, PanelsTyped, Poller, Call
<1>4. CASE P!Return
  <2>1. P!Fresh(panel, mode) \in [D -> Poller]
    BY FreshPollers DEF PanelsTyped
  <2> QED
    BY <1>4, <2>1 DEF P!Return, PanelsTyped, Poller, Call
<1>5. ASSUME NEW k \in D PROVE pollers[k] \in Poller /\ P!Polls(panel, mode)[k] \in Endpoint
  BY PollsEndpoints DEF PanelsTyped
<1>6. ASSUME NEW k \in D, NEW p \in Poller, pollers' = [pollers EXCEPT ![k] = p],
             UNCHANGED <<panel, mounted, now, mode>>, outages' \in 0..MaxOutages
      PROVE  PanelsTyped'
  BY <1>6 DEF PanelsTyped, Poller, Call
<1>7. ASSUME NEW k \in D, P!Tick(k) PROVE PanelsTyped'
  <2>1. P!Poll(pollers[k], P!Polls(panel, mode)[k]) \in Poller
    BY <1>5, PollerPolls
  <2> QED
    BY <1>6, <1>7, <2>1 DEF P!Tick, PanelsTyped
<1>8. ASSUME NEW k \in D, P!Deliver(k) PROVE PanelsTyped'
  <2>1. PICK s \in P!Arrived(pollers[k]) : pollers' = [pollers EXCEPT ![k] = P!Settle(@, s)]
    BY <1>8 DEF P!Deliver
  <2>2. P!Settle(pollers[k], s) \in Poller
    BY <1>5, PollerSettles DEF P!Arrived
  <2> QED
    BY <1>6, <1>8, <2>1, <2>2 DEF P!Deliver, PanelsTyped
<1>9. ASSUME NEW k \in D, NEW outcome, P!Answer(k, outcome) PROVE PanelsTyped'
  <2>1. PICK s \in P!Waiting(pollers[k]) :
              pollers' = [pollers EXCEPT ![k] = P!Serve(@, s, outcome, now)]
    BY <1>9 DEF P!Answer
  <2>2. P!Serve(pollers[k], s, outcome, now) \in Poller
    BY <1>5, PollerServes DEF P!Waiting
  <2>3. outages' \in 0..MaxOutages
    BY <1>9 DEF P!Answer, PanelsTyped
  <2> QED
    BY <1>6, <1>9, <2>1, <2>2, <2>3 DEF P!Answer
<1> QED
  BY <1>1, <1>2, <1>3, <1>4, <1>7, <1>8, <1>9 DEF P!Next

-----------------------------------------------------------------------------
(* The cron panel.                                                          *)

\* Requests that change in other ways than by a creation's start or end.
LEMMA CreatingStays ==
    ASSUME C!TypeOK, requests' \in [Slot -> C!Request], busy' = busy,
           \A s \in Slot :
             /\ requests'[s].here /\ requests'[s].does = "create"
                  <=> requests[s].here /\ requests[s].does = "create"
             /\ requests'[s].stage = "free" => ~requests'[s].here,
           mounted' \in BOOLEAN, jobs' \subseteq JobId, cronTimers' \in Nat,
           outages' \in 0..MaxOutages, cronToast' \in {"none", "success", "error"}
    PROVE  C!TypeOK'
<1>1. C!Creating' = C!Creating
  BY DEF C!Creating
<1>2. \A s \in C!Unused' : ~requests'[s].here
  BY DEF C!Unused
<1>3. \A s, t \in C!Creating' : s = t
  BY <1>1 DEF C!TypeOK
<1>4. busy' = (C!Creating' # {}) /\ busy' \in BOOLEAN
  BY <1>1 DEF C!TypeOK
<1> QED
  BY <1>2, <1>3, <1>4 DEF C!TypeOK

\* Every step of the cron panel keeps it typed, the busy flag with the form, and the form
\* with the page.
LEMMA CronStep ==
    ASSUME C!TypeOK, busy => mounted, C!Next, JobId # {}, MaxOutages \in Nat
    PROVE  C!TypeOK' /\ (busy' => mounted')
<1>0. /\ C!NoRequest \in C!Request
      /\ C!NoRequest.stage = "free" /\ C!NoRequest.here = FALSE /\ C!NoRequest.does = "delete"
  BY DEF C!NoRequest, C!Request
<1>1. /\ mounted \in BOOLEAN /\ busy \in BOOLEAN /\ jobs \subseteq JobId
      /\ requests \in [Slot -> C!Request]
      /\ \A s \in Slot : requests[s].stage = "free" => ~requests[s].here
      /\ cronToast \in {"none", "success", "error"}
      /\ cronTimers \in Nat /\ outages \in 0..MaxOutages
  BY DEF C!TypeOK, C!Unused
<1>2. ASSUME UNCHANGED <<requests, busy>> PROVE C!TypeOK'
  <2>1. /\ mounted' \in BOOLEAN /\ jobs' \subseteq JobId /\ cronTimers' \in Nat
        /\ outages' \in 0..MaxOutages /\ cronToast' \in {"none", "success", "error"}
    <3>1. ASSUME C!Tick \/ C!Deliver
          PROVE  UNCHANGED <<mounted, jobs, cronTimers, cronToast, outages>>
      BY <3>1 DEF C!Tick, C!Deliver
    <3>6. ASSUME C!TimerFires
          PROVE  /\ UNCHANGED <<mounted, jobs, outages>>
                 /\ cronTimers' \in Nat /\ cronToast' = "none"
      BY <1>1, <3>6 DEF C!TimerFires
    <3>7. ASSUME C!Leave \/ C!Return
          PROVE  /\ UNCHANGED <<jobs, outages>>
                 /\ mounted' \in BOOLEAN /\ cronTimers' = 0 /\ cronToast' = "none"
      BY <3>7 DEF C!Leave, C!Return, C!FreshPage
    <3>2. ASSUME NEW outcome, C!Answer(outcome)
          PROVE  /\ UNCHANGED <<mounted, jobs, cronTimers, cronToast>>
                 /\ outages' \in 0..MaxOutages
      BY <1>1, <3>2 DEF C!Answer
    <3>3. ASSUME NEW j \in JobId, C!Create(j) \/ C!Delete(j)
          PROVE  UNCHANGED <<mounted, jobs, cronTimers, cronToast, outages>>
      BY <3>3 DEF C!Create, C!Delete
    <3>4. ASSUME NEW s \in Slot, C!CreateEnds(s) \/ C!DeleteEnds(s)
          PROVE  /\ UNCHANGED <<mounted, jobs, outages>>
                 /\ cronTimers' \in Nat /\ cronToast' \in {"success", "error"}
      BY <1>1, <3>4 DEF C!CreateEnds, C!DeleteEnds, C!Ends, C!showToast
    <3>5. ASSUME NEW s \in Slot, NEW outcome, C!Reach(s, outcome)
          PROVE  /\ UNCHANGED <<mounted, cronTimers, cronToast>>
                 /\ jobs' \subseteq JobId /\ outages' \in 0..MaxOutages
      BY <1>1, <3>5 DEF C!Reach, C!Apply, C!Request
    <3> QED
      BY <1>1, <3>1, <3>2, <3>3, <3>4, <3>5, <3>6, <3>7 DEF C!Next
  <2>2. /\ requests' \in [Slot -> C!Request] /\ busy' = busy
        /\ \A s \in Slot : /\ requests'[s].here /\ requests'[s].does = "create"
                                <=> requests[s].here /\ requests[s].does = "create"
                           /\ requests'[s].stage = "free" => ~requests'[s].here
    BY <1>1, <1>2
  <2> QED
    BY <2>1, <2>2, CreatingStays
<1>3. ASSUME NEW j \in JobId, C!Create(j) PROVE C!TypeOK'
  <2>1. PICK s \in C!Unused : requests' = [requests EXCEPT ![s] =
                                [does |-> "create", id |-> j, stage |-> "asked", here |-> TRUE]]
    BY <1>3 DEF C!Create, C!Send, C!Clicks
  <2>2. s \in Slot /\ C!Creating = {}
    BY <1>3, <2>1 DEF C!Create, C!Unused, C!TypeOK
  <2>3. requests' \in [Slot -> C!Request]
    BY <1>1, <2>1, <2>2 DEF C!Request
  <2>4. C!Creating' = {s}
    BY <1>1, <2>1, <2>2 DEF C!Creating
  <2>5. \A t \in C!Unused' : ~requests'[t].here
    BY <1>1, <2>1, <2>2 DEF C!Unused
  <2> QED
    BY <1>1, <1>3, <2>3, <2>4, <2>5 DEF C!TypeOK, C!Create
<1>4. ASSUME NEW j \in JobId, C!Delete(j) PROVE C!TypeOK'
  <2>1. PICK s \in C!Unused : requests' = [requests EXCEPT ![s] =
                                [does |-> "delete", id |-> j, stage |-> "asked", here |-> TRUE]]
    BY <1>4 DEF C!Delete, C!Send, C!Clicks
  <2>2. s \in Slot /\ ~requests[s].here
    BY <2>1 DEF C!Unused, C!TypeOK
  <2>3. requests' \in [Slot -> C!Request]
    BY <1>1, <2>1, <2>2 DEF C!Request
  <2>4. \A t \in Slot : /\ requests'[t].here /\ requests'[t].does = "create"
                             <=> requests[t].here /\ requests[t].does = "create"
                        /\ requests'[t].stage = "free" => ~requests'[t].here
    BY <1>1, <2>1, <2>2
  <2> QED
    BY <1>1, <1>4, <2>3, <2>4, CreatingStays DEF C!Delete
<1>5. ASSUME NEW s \in Slot, NEW outcome, C!Reach(s, outcome) PROVE C!TypeOK'
  <2>1. requests' \in [Slot -> C!Request]
    <3>1. [requests[s] EXCEPT !.stage = C!StageAfter(outcome)] \in C!Request
      BY <1>1 DEF C!Request, C!StageAfter
    <3> QED
      BY <1>0, <1>1, <1>5, <3>1 DEF C!Reach
  <2>2. requests'[s].here = requests[s].here
        /\ (requests[s].here => /\ requests'[s].does = requests[s].does
                                /\ requests'[s].stage # "free")
    BY <1>0, <1>1, <1>5 DEF C!Reach, C!StageAfter, C!Request
  <2>3. \A t \in Slot : t # s => requests'[t] = requests[t]
    BY <1>1, <1>5 DEF C!Reach
  <2>4. \A t \in Slot : /\ requests'[t].here /\ requests'[t].does = "create"
                             <=> requests[t].here /\ requests[t].does = "create"
                        /\ requests'[t].stage = "free" => ~requests'[t].here
    BY <1>1, <2>2, <2>3
  <2>5. jobs' \subseteq JobId /\ outages' \in 0..MaxOutages
        /\ UNCHANGED <<mounted, busy, cronTimers, cronToast>>
    BY <1>1, <1>5 DEF C!Reach, C!Apply, C!Request
  <2> QED
    BY <1>1, <2>1, <2>4, <2>5, CreatingStays
<1>6. ASSUME NEW s \in Slot, C!CreateEnds(s) PROVE C!TypeOK'
  <2>1. requests' = [requests EXCEPT ![s] = C!NoRequest] /\ s \in C!Creating
    BY <1>6 DEF C!CreateEnds, C!Ends, C!Creating
  <2>2. requests' \in [Slot -> C!Request]
    BY <1>0, <1>1, <2>1
  <2>3. C!Creating' = {}
    BY <1>0, <1>1, <2>1 DEF C!Creating, C!TypeOK
  <2>4. \A t \in C!Unused' : ~requests'[t].here
    BY <1>0, <1>1, <2>1 DEF C!Unused
  <2>5. /\ UNCHANGED <<mounted, jobs, outages>> /\ busy' = FALSE
        /\ cronTimers' \in Nat /\ cronToast' \in {"success", "error"}
    BY <1>1, <1>6 DEF C!CreateEnds, C!Ends, C!showToast
  <2> QED
    BY <1>1, <2>2, <2>3, <2>4, <2>5 DEF C!TypeOK
<1>7. ASSUME NEW s \in Slot, C!DeleteEnds(s) PROVE C!TypeOK'
  <2>1. requests' = [requests EXCEPT ![s] = C!NoRequest] /\ requests[s].does = "delete"
    BY <1>7 DEF C!DeleteEnds, C!Ends
  <2>2. requests' \in [Slot -> C!Request]
    BY <1>0, <1>1, <2>1
  <2>3. \A t \in Slot : /\ requests'[t].here /\ requests'[t].does = "create"
                             <=> requests[t].here /\ requests[t].does = "create"
                        /\ requests'[t].stage = "free" => ~requests'[t].here
    BY <1>0, <1>1, <2>1
  <2>4. /\ UNCHANGED <<mounted, jobs, outages, busy>>
        /\ cronTimers' \in Nat /\ cronToast' \in {"success", "error"}
    BY <1>1, <1>7 DEF C!DeleteEnds, C!Ends, C!showToast
  <2> QED
    BY <1>1, <2>2, <2>3, <2>4, CreatingStays
<1>8. ASSUME C!Leave PROVE C!TypeOK'
  <2>1. requests' \in [Slot -> C!Request]
    <3>1. \A s \in Slot : [requests[s] EXCEPT !.here = FALSE] \in C!Request
      BY <1>1 DEF C!Request
    <3> QED
      BY <1>0, <1>8, <3>1 DEF C!Leave
  <2>2. \A s \in Slot : ~requests'[s].here
    BY <1>0, <1>1, <1>8 DEF C!Leave, C!Request
  <2>3. C!Creating' = {} /\ \A s \in C!Unused' : ~requests'[s].here
    BY <2>2 DEF C!Creating, C!Unused
  <2>4. /\ mounted' \in BOOLEAN /\ busy' = FALSE /\ cronToast' = "none" /\ cronTimers' = 0
        /\ jobs' = jobs /\ outages' = outages
    BY <1>8 DEF C!Leave
  <2> QED
    BY <1>1, <2>1, <2>3, <2>4 DEF C!TypeOK
<1>9. ASSUME C!Tick \/ C!Deliver \/ C!TimerFires \/ C!Return PROVE C!TypeOK'
  <2>1. UNCHANGED <<requests, busy>>
    BY <1>1, <1>9 DEF C!Tick, C!Deliver, C!TimerFires, C!Return, C!FreshPage
  <2> QED
    BY <1>2, <2>1
<1>10. ASSUME NEW outcome, C!Answer(outcome) PROVE UNCHANGED <<requests, busy>>
  BY <1>10 DEF C!Answer
<1>11. C!TypeOK'
  BY <1>2, <1>3, <1>4, <1>5, <1>6, <1>7, <1>8, <1>9, <1>10 DEF C!Next
<1>12. busy' => mounted'
  <2>1. CASE C!Tick \/ C!Deliver \/ C!TimerFires \/ C!Leave \/ C!Return
    BY <2>1 DEF C!Tick, C!Deliver, C!TimerFires, C!Leave, C!Return, C!FreshPage
  <2>2. ASSUME NEW outcome, C!Answer(outcome) PROVE UNCHANGED <<mounted, busy>>
    BY <2>2 DEF C!Answer
  <2>3. ASSUME NEW j \in JobId, C!Create(j) \/ C!Delete(j) PROVE mounted'
    BY <2>3 DEF C!Create, C!Delete
  <2>4. ASSUME NEW s \in Slot, C!CreateEnds(s) \/ C!DeleteEnds(s)
        PROVE  UNCHANGED mounted /\ (busy' => busy)
    BY <2>4 DEF C!CreateEnds, C!DeleteEnds, C!Ends
  <2>5. ASSUME NEW s \in Slot, NEW outcome, C!Reach(s, outcome) PROVE UNCHANGED <<mounted, busy>>
    BY <2>5 DEF C!Reach
  <2> QED
    BY <2>1, <2>2, <2>3, <2>4, <2>5 DEF C!Next
<1> QED
  BY <1>11, <1>12

-----------------------------------------------------------------------------
(* The followers of the scroll position and the pointer.                    *)

\* The widget's flag is up while the browser is going to call back; a page that
\* is closed has nothing asked for and no answer open.
FollowersInv ==
    /\ F!TypeOK
    /\ focus # "follower" => ~queued /\ ~untold /\ open = {}
    /\ focus = "follower" /\ mounted => (frame <=> queued)
    /\ focus = "follower" /\ ~mounted => ~queued /\ ~untold /\ open = {}
    /\ (mounted \/ focus # "follower") /\ F!Follows /\ ~queued =>
         drawn.pos = pos /\ (untold \/ drawn.open = open)

\* Every step of the widgets keeps their invariant.
LEMMA FollowersStep ==
    ASSUME FollowersInv, OnFollowers, F!Next, MaxPos \in Nat PROVE FollowersInv'
<1> USE DEF FollowersInv, F!TypeOK, F!Follows, OnFollowers
<1>1. CASE F!Draw
  BY <1>1 DEF F!Draw, F!Seen
<1>2. CASE F!Leave
  BY <1>2 DEF F!Leave
<1>3. CASE F!Return
  <2>1. [pos |-> 0, open |-> {}] \in [pos : 0..MaxPos, open : SUBSET Question]
    OBVIOUS
  <2>2. drawn' = [pos |-> 0, open |-> {}] /\ pos' = 0 /\ open' = open /\ mounted' = TRUE
        /\ frame' = FALSE /\ queued' = queued /\ untold' = untold /\ ~mounted
    BY <1>3 DEF F!Return
  <2>3. UNCHANGED <<widget, fine>>
    BY <1>3 DEF F!Return
  <2> QED
    BY <2>1, <2>2, <2>3
<1>4. ASSUME NEW p \in 0..MaxPos, F!Move(p) PROVE FollowersInv'
  BY <1>4 DEF F!Move, F!AskForFrame
<1>5. ASSUME NEW q \in Question, F!Toggle(q) PROVE FollowersInv'
  BY <1>5 DEF F!Toggle
<1> QED
  BY <1>1, <1>2, <1>3, <1>4, <1>5 DEF F!Next

-----------------------------------------------------------------------------
(* The landing diagram.                                                     *)

\* What was measured at another size of the window, or drawn for the other
\* orientation, has an event on its way that will say so; the cursor is one frame
\* ahead of what is shown.
DiagramInv ==
    /\ T!TypeOK
    /\ (mounted \/ focus # "diagram") /\ pending \cap {"resize", "observe"} = {} =>
         measured = window /\ boxAt = window
    /\ (mounted \/ focus # "diagram") /\ "media" \notin pending =>
         orientation = T!OrientationAt(window)
    /\ focus = "diagram" /\ ~mounted => pending = {} /\ frameIdx = 0
    /\ focus = "diagram" /\ mounted /\ ~reduce => i = (frameIdx + 1) % 10

\* Every step of the diagram keeps its invariant.
LEMMA DiagramStep == ASSUME DiagramInv, OnTutorial, T!Next PROVE DiagramInv'
<1>0. Len(T!TIMELINE) = 10 /\ 0 \in 0..9
  BY DEF T!TIMELINE
<1> USE <1>0 DEF DiagramInv, T!TypeOK, T!OrientationAt, T!Event, OnTutorial
<1>1. CASE T!Tick
  BY <1>1 DEF T!Tick, T!NextIndex
<1>2. CASE T!MediaChange
  BY <1>2 DEF T!MediaChange, T!Measure
<1>3. CASE T!Leave
  <2>1. T!TypeOK'
    <3>1. frameIdx' \in 0..9 /\ i' \in 0..9
      BY <1>3 DEF T!Leave
    <3>2. /\ mounted' \in BOOLEAN /\ pending' = {}
          /\ UNCHANGED <<reduce, window, orientation, measured, boxAt>>
      BY <1>3 DEF T!Leave
    <3> QED
      BY <3>1, <3>2
  <2>2. focus' = "diagram" /\ ~mounted' /\ pending' = {} /\ frameIdx' = 0
    BY <1>3 DEF T!Leave
  <2> QED
    BY <2>1, <2>2
<1>4. CASE T!Return
  BY <1>4 DEF T!Return, T!Measure
<1>5. ASSUME NEW size \in WindowSize, T!Resize(size) PROVE DiagramInv'
  BY <1>5 DEF T!Resize
<1>6. ASSUME NEW e \in T!Event, T!Resized(e) PROVE DiagramInv'
  BY <1>6 DEF T!Resized, T!Measure
<1> QED
  BY <1>1, <1>2, <1>3, <1>4, <1>5, <1>6 DEF T!Next

-----------------------------------------------------------------------------
(* What the landing diagram tells.                                          *)

\* A token that is shown, and what of it tells its task's state.
Shown(def, place, state, st, lease, expiring) ==
    /\ ~def.hidden /\ def.place = place /\ T!StateOf(def) = state
    /\ def.st = st /\ def.lease = lease /\ def.expiring = expiring

\* What every token the frames are made of shows.
LEMMA TokensShow ==
    /\ \A s : Shown(T!InQueue(s), T!QueueSlot(s), "queued", "queued", 0, FALSE)
    /\ \A st, lease : \A w \in T!Worker :
         Shown(T!Leased(w, st, lease), T!Dock(w), "leased", st, lease, FALSE)
    /\ \A st : \A w \in T!Worker : Shown(T!Placed(T!Dock(w), st), T!Dock(w), "leased", st, 0, FALSE)
    /\ Shown(T!Submitted, T!Dock("producer"), "held", "queued", 0, FALSE)
    /\ Shown(T!Done, T!Dock("done"), "done", "succeeded", 0, FALSE)
    /\ Shown(T!DeadLetter, T!Dock("dead"), "dead", "failed", 0, FALSE)
    /\ Shown(T!Expiring(T!Leased("C", "leased", 6)), T!Dock("C"), "leased", "leased", 6, TRUE)
    /\ \A s :
         Shown(T!Placed(T!QueueSlot(s), "retrying"), T!QueueSlot(s), "queued", "retrying", 0, FALSE)
    /\ T!Submitted.jump /\ T!Hidden(T!Done).hidden /\ T!Hidden(T!DeadLetter).hidden
BY DEF Shown, T!Submitted, T!Done, T!DeadLetter, T!InQueue, T!Expiring, T!Hidden, T!Leased, T!Dock,
       T!QueueSlot, T!Placed, T!StateOf, T!IsWorker, T!Worker

\* A frame about three tasks, or one.
Three(f, step, reaper, workers) ==
    /\ f.step = step /\ f.reaper = reaper /\ f.workers = workers
    /\ DOMAIN f.tokens = T!Token
    /\ ~f.tokens["q1"].hidden /\ ~f.tokens["q2"].hidden /\ ~f.tokens["a"].hidden

One(f, reaper, workers) ==
    /\ f.step = 4 /\ f.reaper = reaper /\ f.workers = workers
    /\ DOMAIN f.tokens = T!Token
    /\ f.tokens["q1"].hidden /\ f.tokens["q2"].hidden /\ ~f.tokens["a"].hidden

\* The timeline has ten frames.
LEMMA Frames == Len(T!TIMELINE) = 10
BY DEF T!TIMELINE

\* What the frames show, one after the other.
LEMMA Frame1 ==
    /\ Three(T!TIMELINE[1], 0, FALSE, T!AllIdle)
    /\ Shown(T!TIMELINE[1].tokens["q1"], T!QueueSlot(0), "queued", "queued", 0, FALSE)
    /\ Shown(T!TIMELINE[1].tokens["q2"], T!QueueSlot(1), "queued", "queued", 0, FALSE)
    /\ Shown(T!TIMELINE[1].tokens["a"], T!Dock("producer"), "held", "queued", 0, FALSE)
    /\ T!TIMELINE[1].tokens["a"].jump
<1>1. T!TIMELINE[1] = T!Frame(0, FALSE, T!AllIdle, T!InQueue(0), T!InQueue(1), T!Submitted)
  BY DEF T!TIMELINE
<1>2. /\ Shown(T!InQueue(0), T!QueueSlot(0), "queued", "queued", 0, FALSE)
      /\ Shown(T!InQueue(1), T!QueueSlot(1), "queued", "queued", 0, FALSE)
      /\ Shown(T!Submitted, T!Dock("producer"), "held", "queued", 0, FALSE)
  BY TokensShow DEF T!Worker
<1> QED
  BY <1>1, <1>2, TokensShow DEF Three, T!Frame, T!Token, Shown

LEMMA Frame2 ==
    /\ Three(T!TIMELINE[2], 1, FALSE, T!AllIdle)
    /\ Shown(T!TIMELINE[2].tokens["q1"], T!QueueSlot(0), "queued", "queued", 0, FALSE)
    /\ Shown(T!TIMELINE[2].tokens["q2"], T!QueueSlot(1), "queued", "queued", 0, FALSE)
    /\ Shown(T!TIMELINE[2].tokens["a"], T!QueueSlot(2), "queued", "queued", 0, FALSE)
<1>1. T!TIMELINE[2] = T!Frame(1, FALSE, T!AllIdle, T!InQueue(0), T!InQueue(1), T!InQueue(2))
  BY DEF T!TIMELINE
<1>2. /\ Shown(T!InQueue(0), T!QueueSlot(0), "queued", "queued", 0, FALSE)
      /\ Shown(T!InQueue(1), T!QueueSlot(1), "queued", "queued", 0, FALSE)
      /\ Shown(T!InQueue(2), T!QueueSlot(2), "queued", "queued", 0, FALSE)
  BY TokensShow DEF T!Worker
<1> QED
  BY <1>1, <1>2 DEF Three, T!Frame, T!Token, Shown

LEMMA Frame3 ==
    /\ Three(T!TIMELINE[3], 2, FALSE, T!Working(T!Only("A", "leased")))
    /\ Shown(T!TIMELINE[3].tokens["q1"], T!Dock("A"), "leased", "leased", 100, FALSE)
    /\ Shown(T!TIMELINE[3].tokens["q2"], T!QueueSlot(0), "queued", "queued", 0, FALSE)
    /\ Shown(T!TIMELINE[3].tokens["a"], T!QueueSlot(1), "queued", "queued", 0, FALSE)
<1>1. T!TIMELINE[3] = T!Frame(2, FALSE, T!Working(T!Only("A", "leased")),
                               T!Leased("A", "leased", 100), T!InQueue(0), T!InQueue(1))
  BY DEF T!TIMELINE
<1>2. /\ Shown(T!Leased("A", "leased", 100), T!Dock("A"), "leased", "leased", 100, FALSE)
      /\ Shown(T!InQueue(0), T!QueueSlot(0), "queued", "queued", 0, FALSE)
      /\ Shown(T!InQueue(1), T!QueueSlot(1), "queued", "queued", 0, FALSE)
  BY TokensShow DEF T!Worker
<1> QED
  BY <1>1, <1>2 DEF Three, T!Frame, T!Token, Shown

LEMMA Frame4 ==
    /\ Three(T!TIMELINE[4], 3, FALSE, [w \in T!Worker |-> IF w = "C" THEN "idle" ELSE "running"])
    /\ Shown(T!TIMELINE[4].tokens["q1"], T!Dock("A"), "leased", "running", 0, FALSE)
    /\ Shown(T!TIMELINE[4].tokens["q2"], T!Dock("B"), "leased", "running", 0, FALSE)
    /\ Shown(T!TIMELINE[4].tokens["a"], T!QueueSlot(0), "queued", "queued", 0, FALSE)
<1>1. T!TIMELINE[4] = T!Frame(3, FALSE, [w \in T!Worker |-> IF w = "C" THEN "idle" ELSE "running"],
                               T!Placed(T!Dock("A"), "running"), T!Placed(T!Dock("B"), "running"),
                               T!InQueue(0))
  BY DEF T!TIMELINE
<1>2. /\ Shown(T!Placed(T!Dock("A"), "running"), T!Dock("A"), "leased", "running", 0, FALSE)
      /\ Shown(T!Placed(T!Dock("B"), "running"), T!Dock("B"), "leased", "running", 0, FALSE)
      /\ Shown(T!InQueue(0), T!QueueSlot(0), "queued", "queued", 0, FALSE)
  BY TokensShow DEF T!Worker
<1> QED
  BY <1>1, <1>2 DEF Three, T!Frame, T!Token, Shown

LEMMA Frame5 ==
    /\ Three(T!TIMELINE[5], 3, FALSE, T!AllIdle)
    /\ Shown(T!TIMELINE[5].tokens["q1"], T!Dock("done"), "done", "succeeded", 0, FALSE)
    /\ Shown(T!TIMELINE[5].tokens["q2"], T!Dock("dead"), "dead", "failed", 0, FALSE)
    /\ Shown(T!TIMELINE[5].tokens["a"], T!QueueSlot(0), "queued", "queued", 0, FALSE)
<1>1. T!TIMELINE[5] = T!Frame(3, FALSE, T!AllIdle, T!Done, T!DeadLetter, T!InQueue(0))
  BY DEF T!TIMELINE
<1>2. /\ Shown(T!Done, T!Dock("done"), "done", "succeeded", 0, FALSE)
      /\ Shown(T!DeadLetter, T!Dock("dead"), "dead", "failed", 0, FALSE)
      /\ Shown(T!InQueue(0), T!QueueSlot(0), "queued", "queued", 0, FALSE)
  BY TokensShow DEF T!Worker
<1> QED
  BY <1>1, <1>2 DEF Three, T!Frame, T!Token, Shown

LEMMA Frame6 ==
    /\ One(T!TIMELINE[6], FALSE, T!Working(T!Only("C", "leased")))
    /\ Shown(T!TIMELINE[6].tokens["a"], T!Dock("C"), "leased", "leased", 100, FALSE)
<1>1. T!TIMELINE[6] = T!About(FALSE, T!Working(T!Only("C", "leased")), T!Leased("C", "leased", 100))
  BY DEF T!TIMELINE
<1>2. /\ Shown(T!Leased("C", "leased", 100), T!Dock("C"), "leased", "leased", 100, FALSE)
      /\ T!Hidden(T!Done).hidden /\ T!Hidden(T!DeadLetter).hidden
  BY TokensShow DEF T!Worker
<1> QED
  BY <1>1, <1>2 DEF One, T!About, T!Frame, T!Token, Shown

LEMMA Frame7 ==
    /\ One(T!TIMELINE[7], FALSE, T!Working(T!Only("C", "running")))
    /\ Shown(T!TIMELINE[7].tokens["a"], T!Dock("C"), "leased", "running", 35, FALSE)
<1>1. T!TIMELINE[7] = T!About(FALSE, T!Working(T!Only("C", "running")),
                               T!Leased("C", "running", 35))
  BY DEF T!TIMELINE
<1>2. /\ Shown(T!Leased("C", "running", 35), T!Dock("C"), "leased", "running", 35, FALSE)
      /\ T!Hidden(T!Done).hidden /\ T!Hidden(T!DeadLetter).hidden
  BY TokensShow DEF T!Worker
<1> QED
  BY <1>1, <1>2 DEF One, T!About, T!Frame, T!Token, Shown

LEMMA Frame8 ==
    /\ One(T!TIMELINE[8], TRUE, T!Working(T!Only("C", "dead")))
    /\ Shown(T!TIMELINE[8].tokens["a"], T!Dock("C"), "leased", "leased", 6, TRUE)
<1>1. T!TIMELINE[8] = T!About(TRUE, T!Working(T!Only("C", "dead")),
                               T!Expiring(T!Leased("C", "leased", 6)))
  BY DEF T!TIMELINE
<1>2. /\ Shown(T!Expiring(T!Leased("C", "leased", 6)), T!Dock("C"), "leased", "leased", 6, TRUE)
      /\ T!Hidden(T!Done).hidden /\ T!Hidden(T!DeadLetter).hidden
  BY TokensShow DEF T!Worker
<1> QED
  BY <1>1, <1>2 DEF One, T!About, T!Frame, T!Token, Shown

LEMMA Frame9 ==
    /\ One(T!TIMELINE[9], TRUE, T!Working(T!Only("C", "dead")))
    /\ Shown(T!TIMELINE[9].tokens["a"], T!QueueSlot(0), "queued", "retrying", 0, FALSE)
<1>1. T!TIMELINE[9] = T!About(TRUE, T!Working(T!Only("C", "dead")),
                               T!Placed(T!QueueSlot(0), "retrying"))
  BY DEF T!TIMELINE
<1>2. /\ Shown(T!Placed(T!QueueSlot(0), "retrying"), T!QueueSlot(0), "queued", "retrying", 0, FALSE)
      /\ T!Hidden(T!Done).hidden /\ T!Hidden(T!DeadLetter).hidden
  BY TokensShow DEF T!Worker
<1> QED
  BY <1>1, <1>2 DEF One, T!About, T!Frame, T!Token, Shown

LEMMA Frame10 ==
    /\ One(T!TIMELINE[10], FALSE, T!AllIdle)
    /\ Shown(T!TIMELINE[10].tokens["a"], T!QueueSlot(0), "queued", "queued", 0, FALSE)
<1>1. T!TIMELINE[10] = T!About(FALSE, T!AllIdle, T!InQueue(0))
  BY DEF T!TIMELINE
<1>2. /\ Shown(T!InQueue(0), T!QueueSlot(0), "queued", "queued", 0, FALSE)
      /\ T!Hidden(T!Done).hidden /\ T!Hidden(T!DeadLetter).hidden
  BY TokensShow DEF T!Worker
<1> QED
  BY <1>1, <1>2 DEF One, T!About, T!Frame, T!Token, Shown

\* The caption is told consistently where the lit step fits what is shown.
LEMMA CaptionReads ==
    ASSUME ~reduce, T!Scene.step \in 0..4,
           T!Scene.step = 0 <=> \E t \in T!Visible : T!StateOf(T!Scene.tokens[t]) = "held",
           T!Scene.step = 2 => \E t \in T!Visible : T!TokenDot(T!Scene.tokens[t]).st = "leased",
           T!Scene.reaper => T!Scene.step = 4
    PROVE  T!CaptionTold
<1>1. DOMAIN T!STEPS = 1..5 /\ T!STEPS[1] = "Submit" /\ T!STEPS[2] = "Queue" /\ T!STEPS[3] = "Lease"
      /\ T!STEPS[4] \notin {"Submit", "Lease", "Recover"} /\ T!STEPS[5] = "Recover"
  BY DEF T!STEPS
<1>a. /\ T!Scene.step + 1 \in DOMAIN T!STEPS
      /\ T!STEPS[T!Scene.step + 1] = "Submit" <=> T!Scene.step = 0
      /\ T!STEPS[T!Scene.step + 1] = "Lease" <=> T!Scene.step = 2
      /\ T!STEPS[T!Scene.step + 1] = "Recover" <=> T!Scene.step = 4
  <2>1. CASE T!Scene.step = 0
    BY <1>1, <2>1
  <2>2. CASE T!Scene.step = 1
    BY <1>1, <2>2
  <2>3. CASE T!Scene.step = 2
    BY <1>1, <2>3
  <2>4. CASE T!Scene.step = 3
    BY <1>1, <2>4
  <2>5. CASE T!Scene.step = 4
    BY <1>1, <2>5
  <2> QED
    BY <2>1, <2>2, <2>3, <2>4, <2>5
<1>2. T!Caption # {} /\ T!StaticLegend = <<>>
  BY DEF T!Caption, T!StaticLegend
<1>3. ASSUME NEW c \in T!Caption
      PROVE  /\ c.step + 1 \in DOMAIN T!STEPS
             /\ T!ACTIVE_STAGE(c.step) \in c.near
             /\ T!STEPS[c.step + 1] = "Submit" <=>
                  \E t \in T!Visible : T!StateOf(T!Scene.tokens[t]) = "held"
             /\ T!STEPS[c.step + 1] = "Lease" =>
                  \E t \in T!Visible : T!TokenDot(T!Scene.tokens[t]).st = "leased"
             /\ T!Scene.reaper => T!STEPS[c.step + 1] = "Recover"
  <2>1. c.step = T!Scene.step /\ c.near = T!StepAnchors(T!Scene.step)
    BY DEF T!Caption
  <2>2. T!ACTIVE_STAGE(T!Scene.step) \in T!StepAnchors(T!Scene.step)
    BY DEF T!ACTIVE_STAGE, T!StepAnchors
  <2> QED
    BY <1>a, <2>1, <2>2
<1> QED
  BY <1>2, <1>3 DEF T!CaptionTold

\* Every frame of the timeline is told consistently.
LEMMA TimelineTold ==
    ASSUME ~reduce, frameIdx \in 0..9 PROVE T!SceneConsistent
<1>0. T!Scene = T!TIMELINE[frameIdx + 1]
  BY DEF T!Scene
<1>1. CASE frameIdx = 0
  <2>1. T!Scene = T!TIMELINE[1]
    BY <1>0, <1>1
  <2>2. T!Visible = {"q1", "q2", "a"}
    BY <2>1, Frame1 DEF Three, T!Visible, T!tokenPos, T!Token
  <2>3. T!TokensTold
    BY <2>1, <2>2, Frame1 DEF Shown, T!TokenDot, T!tokenPos, T!TokensTold, T!Dock, T!QueueSlot
  <2>4. T!QueueTold
    BY <2>1, <2>2, Frame1 DEF Shown, T!QueueTold, T!Dock, T!QueueSlot
  <2>5. T!WorkersTold
    BY <2>1, <2>2, Frame1
       DEF Three, Shown, T!TokenDot, T!WorkersTold, T!WorkerNode, T!Worker, T!Dock, T!QueueSlot,
           T!AllIdle, T!Working, T!Only
  <2>6. T!CaptionTold
    BY <2>1, <2>2, Frame1, CaptionReads DEF Three, Shown, T!TokenDot
  <2> QED
    BY <2>3, <2>4, <2>5, <2>6 DEF T!SceneConsistent
<1>2. CASE frameIdx = 1
  <2>1. T!Scene = T!TIMELINE[2]
    BY <1>0, <1>2
  <2>2. T!Visible = {"q1", "q2", "a"}
    BY <2>1, Frame2 DEF Three, T!Visible, T!tokenPos, T!Token
  <2>3. T!TokensTold
    BY <2>1, <2>2, Frame2 DEF Shown, T!TokenDot, T!tokenPos, T!TokensTold, T!Dock, T!QueueSlot
  <2>4. T!QueueTold
    BY <2>1, <2>2, Frame2 DEF Shown, T!QueueTold, T!Dock, T!QueueSlot
  <2>5. T!WorkersTold
    BY <2>1, <2>2, Frame2
       DEF Three, Shown, T!TokenDot, T!WorkersTold, T!WorkerNode, T!Worker, T!Dock, T!QueueSlot,
           T!AllIdle, T!Working, T!Only
  <2>6. T!CaptionTold
    BY <2>1, <2>2, Frame2, CaptionReads DEF Three, Shown, T!TokenDot
  <2> QED
    BY <2>3, <2>4, <2>5, <2>6 DEF T!SceneConsistent
<1>3. CASE frameIdx = 2
  <2>1. T!Scene = T!TIMELINE[3]
    BY <1>0, <1>3
  <2>2. T!Visible = {"q1", "q2", "a"}
    BY <2>1, Frame3 DEF Three, T!Visible, T!tokenPos, T!Token
  <2>3. T!TokensTold
    BY <2>1, <2>2, Frame3 DEF Shown, T!TokenDot, T!tokenPos, T!TokensTold, T!Dock, T!QueueSlot
  <2>4. T!QueueTold
    BY <2>1, <2>2, Frame3 DEF Shown, T!QueueTold, T!Dock, T!QueueSlot
  <2>5. T!WorkersTold
    BY <2>1, <2>2, Frame3
       DEF Three, Shown, T!TokenDot, T!WorkersTold, T!WorkerNode, T!Worker, T!Dock, T!QueueSlot,
           T!AllIdle, T!Working, T!Only
  <2>6. T!CaptionTold
    BY <2>1, <2>2, Frame3, CaptionReads DEF Three, Shown, T!TokenDot
  <2> QED
    BY <2>3, <2>4, <2>5, <2>6 DEF T!SceneConsistent
<1>4. CASE frameIdx = 3
  <2>1. T!Scene = T!TIMELINE[4]
    BY <1>0, <1>4
  <2>2. T!Visible = {"q1", "q2", "a"}
    BY <2>1, Frame4 DEF Three, T!Visible, T!tokenPos, T!Token
  <2>3. T!TokensTold
    BY <2>1, <2>2, Frame4 DEF Shown, T!TokenDot, T!tokenPos, T!TokensTold, T!Dock, T!QueueSlot
  <2>4. T!QueueTold
    BY <2>1, <2>2, Frame4 DEF Shown, T!QueueTold, T!Dock, T!QueueSlot
  <2>5. T!WorkersTold
    BY <2>1, <2>2, Frame4
       DEF Three, Shown, T!TokenDot, T!WorkersTold, T!WorkerNode, T!Worker, T!Dock, T!QueueSlot,
           T!AllIdle, T!Working, T!Only
  <2>6. T!CaptionTold
    BY <2>1, <2>2, Frame4, CaptionReads DEF Three, Shown, T!TokenDot
  <2> QED
    BY <2>3, <2>4, <2>5, <2>6 DEF T!SceneConsistent
<1>5. CASE frameIdx = 4
  <2>1. T!Scene = T!TIMELINE[5]
    BY <1>0, <1>5
  <2>2. T!Visible = {"q1", "q2", "a"}
    BY <2>1, Frame5 DEF Three, T!Visible, T!tokenPos, T!Token
  <2>3. T!TokensTold
    BY <2>1, <2>2, Frame5 DEF Shown, T!TokenDot, T!tokenPos, T!TokensTold, T!Dock, T!QueueSlot
  <2>4. T!QueueTold
    BY <2>1, <2>2, Frame5 DEF Shown, T!QueueTold, T!Dock, T!QueueSlot
  <2>5. T!WorkersTold
    BY <2>1, <2>2, Frame5
       DEF Three, Shown, T!TokenDot, T!WorkersTold, T!WorkerNode, T!Worker, T!Dock, T!QueueSlot,
           T!AllIdle, T!Working, T!Only
  <2>6. T!CaptionTold
    BY <2>1, <2>2, Frame5, CaptionReads DEF Three, Shown, T!TokenDot
  <2> QED
    BY <2>3, <2>4, <2>5, <2>6 DEF T!SceneConsistent
<1>6. CASE frameIdx = 5
  <2>1. T!Scene = T!TIMELINE[6]
    BY <1>0, <1>6
  <2>2. T!Visible = {"a"}
    BY <2>1, Frame6 DEF One, T!Visible, T!tokenPos, T!Token
  <2>3. T!TokensTold
    BY <2>1, <2>2, Frame6 DEF Shown, T!TokenDot, T!tokenPos, T!TokensTold, T!Dock, T!QueueSlot
  <2>4. T!QueueTold
    BY <2>1, <2>2, Frame6 DEF Shown, T!QueueTold, T!Dock, T!QueueSlot
  <2>5. T!WorkersTold
    BY <2>1, <2>2, Frame6
       DEF One, Shown, T!TokenDot, T!WorkersTold, T!WorkerNode, T!Worker, T!Dock, T!QueueSlot,
           T!AllIdle, T!Working, T!Only
  <2>6. T!CaptionTold
    BY <2>1, <2>2, Frame6, CaptionReads DEF One, Shown, T!TokenDot
  <2> QED
    BY <2>3, <2>4, <2>5, <2>6 DEF T!SceneConsistent
<1>7. CASE frameIdx = 6
  <2>1. T!Scene = T!TIMELINE[7]
    BY <1>0, <1>7
  <2>2. T!Visible = {"a"}
    BY <2>1, Frame7 DEF One, T!Visible, T!tokenPos, T!Token
  <2>3. T!TokensTold
    BY <2>1, <2>2, Frame7 DEF Shown, T!TokenDot, T!tokenPos, T!TokensTold, T!Dock, T!QueueSlot
  <2>4. T!QueueTold
    BY <2>1, <2>2, Frame7 DEF Shown, T!QueueTold, T!Dock, T!QueueSlot
  <2>5. T!WorkersTold
    BY <2>1, <2>2, Frame7
       DEF One, Shown, T!TokenDot, T!WorkersTold, T!WorkerNode, T!Worker, T!Dock, T!QueueSlot,
           T!AllIdle, T!Working, T!Only
  <2>6. T!CaptionTold
    BY <2>1, <2>2, Frame7, CaptionReads DEF One, Shown, T!TokenDot
  <2> QED
    BY <2>3, <2>4, <2>5, <2>6 DEF T!SceneConsistent
<1>8. CASE frameIdx = 7
  <2>1. T!Scene = T!TIMELINE[8]
    BY <1>0, <1>8
  <2>2. T!Visible = {"a"}
    BY <2>1, Frame8 DEF One, T!Visible, T!tokenPos, T!Token
  <2>3. T!TokensTold
    BY <2>1, <2>2, Frame8 DEF Shown, T!TokenDot, T!tokenPos, T!TokensTold, T!Dock, T!QueueSlot
  <2>4. T!QueueTold
    BY <2>1, <2>2, Frame8 DEF Shown, T!QueueTold, T!Dock, T!QueueSlot
  <2>5. T!WorkersTold
    BY <2>1, <2>2, Frame8
       DEF One, Shown, T!TokenDot, T!WorkersTold, T!WorkerNode, T!Worker, T!Dock, T!QueueSlot,
           T!AllIdle, T!Working, T!Only
  <2>6. T!CaptionTold
    BY <2>1, <2>2, Frame8, CaptionReads DEF One, Shown, T!TokenDot
  <2> QED
    BY <2>3, <2>4, <2>5, <2>6 DEF T!SceneConsistent
<1>9. CASE frameIdx = 8
  <2>1. T!Scene = T!TIMELINE[9]
    BY <1>0, <1>9
  <2>2. T!Visible = {"a"}
    BY <2>1, Frame9 DEF One, T!Visible, T!tokenPos, T!Token
  <2>3. T!TokensTold
    BY <2>1, <2>2, Frame9 DEF Shown, T!TokenDot, T!tokenPos, T!TokensTold, T!Dock, T!QueueSlot
  <2>4. T!QueueTold
    BY <2>1, <2>2, Frame9 DEF Shown, T!QueueTold, T!Dock, T!QueueSlot
  <2>5. T!WorkersTold
    BY <2>1, <2>2, Frame9
       DEF One, Shown, T!TokenDot, T!WorkersTold, T!WorkerNode, T!Worker, T!Dock, T!QueueSlot,
           T!AllIdle, T!Working, T!Only
  <2>6. T!CaptionTold
    BY <2>1, <2>2, Frame9, CaptionReads DEF One, Shown, T!TokenDot
  <2> QED
    BY <2>3, <2>4, <2>5, <2>6 DEF T!SceneConsistent
<1>10. CASE frameIdx = 9
  <2>1. T!Scene = T!TIMELINE[10]
    BY <1>0, <1>10
  <2>2. T!Visible = {"a"}
    BY <2>1, Frame10 DEF One, T!Visible, T!tokenPos, T!Token
  <2>3. T!TokensTold
    BY <2>1, <2>2, Frame10 DEF Shown, T!TokenDot, T!tokenPos, T!TokensTold, T!Dock, T!QueueSlot
  <2>4. T!QueueTold
    BY <2>1, <2>2, Frame10 DEF Shown, T!QueueTold, T!Dock, T!QueueSlot
  <2>5. T!WorkersTold
    BY <2>1, <2>2, Frame10
       DEF One, Shown, T!TokenDot, T!WorkersTold, T!WorkerNode, T!Worker, T!Dock, T!QueueSlot,
           T!AllIdle, T!Working, T!Only
  <2>6. T!CaptionTold
    BY <2>1, <2>2, Frame10, CaptionReads DEF One, Shown, T!TokenDot
  <2> QED
    BY <2>3, <2>4, <2>5, <2>6 DEF T!SceneConsistent
<1> QED
  BY <1>1, <1>2, <1>3, <1>4, <1>5, <1>6, <1>7, <1>8, <1>9, <1>10

\* So is the frame that is drawn where less motion is asked for.
LEMMA StaticTold == ASSUME reduce PROVE T!SceneConsistent
<1>1. T!Scene = T!STATIC_FRAME
  BY DEF T!Scene
<1>2. /\ T!Scene.workers =
           [w \in T!Worker |->
              CASE w = "A" -> "leased" [] w = "B" -> "running" [] w = "C" -> "dead"]
      /\ DOMAIN T!Scene.tokens = {"sq0", "sq1", "sq2", "sl", "sr", "ss", "sf"}
      /\ T!Scene.tokens["sq0"] = T!InQueue(0) /\ T!Scene.tokens["sq1"] = T!InQueue(1)
      /\ T!Scene.tokens["sq2"] = T!Placed(T!QueueSlot(2), "retrying")
      /\ T!Scene.tokens["sl"] = T!Leased("A", "leased", 60)
      /\ T!Scene.tokens["sr"] = T!Placed(T!Dock("B"), "running")
      /\ T!Scene.tokens["ss"] = T!Done /\ T!Scene.tokens["sf"] = T!DeadLetter
  BY <1>1 DEF T!STATIC_FRAME
<1>3. /\ Shown(T!Scene.tokens["sq0"], T!QueueSlot(0), "queued", "queued", 0, FALSE)
      /\ Shown(T!Scene.tokens["sq1"], T!QueueSlot(1), "queued", "queued", 0, FALSE)
      /\ Shown(T!Scene.tokens["sq2"], T!QueueSlot(2), "queued", "retrying", 0, FALSE)
      /\ Shown(T!Scene.tokens["sl"], T!Dock("A"), "leased", "leased", 60, FALSE)
      /\ Shown(T!Scene.tokens["sr"], T!Dock("B"), "leased", "running", 0, FALSE)
      /\ Shown(T!Scene.tokens["ss"], T!Dock("done"), "done", "succeeded", 0, FALSE)
      /\ Shown(T!Scene.tokens["sf"], T!Dock("dead"), "dead", "failed", 0, FALSE)
  <2>1. /\ Shown(T!InQueue(0), T!QueueSlot(0), "queued", "queued", 0, FALSE)
        /\ Shown(T!InQueue(1), T!QueueSlot(1), "queued", "queued", 0, FALSE)
        /\ Shown(T!Placed(T!QueueSlot(2), "retrying"), T!QueueSlot(2), "queued", "retrying",
                 0, FALSE)
        /\ Shown(T!Leased("A", "leased", 60), T!Dock("A"), "leased", "leased", 60, FALSE)
        /\ Shown(T!Placed(T!Dock("B"), "running"), T!Dock("B"), "leased", "running", 0, FALSE)
    BY TokensShow DEF T!Worker
  <2> QED
    BY <1>2, <2>1, TokensShow
<1>4. T!Visible = {"sq0", "sq1", "sq2", "sl", "sr", "ss", "sf"}
  BY <1>2, <1>3 DEF T!Visible, T!tokenPos, Shown
<1>5. T!TokensTold
  BY <1>3, <1>4 DEF Shown, T!TokenDot, T!tokenPos, T!TokensTold, T!Dock, T!QueueSlot
<1>6. T!QueueTold
  BY <1>3, <1>4 DEF Shown, T!QueueTold, T!Dock, T!QueueSlot
<1>7. T!WorkersTold
  BY <1>2, <1>3, <1>4
     DEF Shown, T!TokenDot, T!WorkersTold, T!WorkerNode, T!Worker, T!Dock, T!QueueSlot
<1>8. T!CaptionTold
  BY DEF T!CaptionTold, T!Caption, T!StaticLegend, T!STEPS
<1> QED
  BY <1>5, <1>6, <1>7, <1>8 DEF T!SceneConsistent

\* From every frame to the next, the last before the first, every token that stays
\* the same task moves as a task does.
LEMMA Moves ==
    ASSUME ~reduce, ~reduce', frameIdx \in 0..9, frameIdx' = (frameIdx + 1) % 10
    PROVE  \A t \in T!Token : T!SameTask(t) => T!MovesAsTask(t)
<1>0. T!Scene = T!TIMELINE[frameIdx + 1] /\ T!Scene' = T!TIMELINE[frameIdx' + 1]
  BY DEF T!Scene
<1>1. CASE frameIdx = 0
  <2>1. T!Scene = T!TIMELINE[1] /\ T!Scene' = T!TIMELINE[2]
    BY <1>0, <1>1
  <2>2. T!Visible = {"q1", "q2", "a"} /\ T!Visible' = {"q1", "q2", "a"}
    BY <2>1, Frame1, Frame2 DEF Three, T!Visible, T!tokenPos, T!Token
  <2>3. ASSUME NEW t \in T!Token, T!SameTask(t) PROVE T!MovesAsTask(t)
    BY <2>1, <2>2, <2>3, Frame1, Frame2
       DEF Three, Shown, T!SameTask, T!MovesAsTask, T!Arrow, T!Dock, T!QueueSlot
  <2> QED
    BY <2>3
<1>2. CASE frameIdx = 1
  <2>1. T!Scene = T!TIMELINE[2] /\ T!Scene' = T!TIMELINE[3]
    BY <1>0, <1>2
  <2>2. T!Visible = {"q1", "q2", "a"} /\ T!Visible' = {"q1", "q2", "a"}
    BY <2>1, Frame2, Frame3 DEF Three, T!Visible, T!tokenPos, T!Token
  <2>3. ASSUME NEW t \in T!Token, T!SameTask(t) PROVE T!MovesAsTask(t)
    BY <2>1, <2>2, <2>3, Frame2, Frame3
       DEF Three, Shown, T!SameTask, T!MovesAsTask, T!Arrow, T!Dock, T!QueueSlot
  <2> QED
    BY <2>3
<1>3. CASE frameIdx = 2
  <2>1. T!Scene = T!TIMELINE[3] /\ T!Scene' = T!TIMELINE[4]
    BY <1>0, <1>3
  <2>2. T!Visible = {"q1", "q2", "a"} /\ T!Visible' = {"q1", "q2", "a"}
    BY <2>1, Frame3, Frame4 DEF Three, T!Visible, T!tokenPos, T!Token
  <2>3. ASSUME NEW t \in T!Token, T!SameTask(t) PROVE T!MovesAsTask(t)
    BY <2>1, <2>2, <2>3, Frame3, Frame4
       DEF Three, Shown, T!SameTask, T!MovesAsTask, T!Arrow, T!Dock, T!QueueSlot
  <2> QED
    BY <2>3
<1>4. CASE frameIdx = 3
  <2>1. T!Scene = T!TIMELINE[4] /\ T!Scene' = T!TIMELINE[5]
    BY <1>0, <1>4
  <2>2. T!Visible = {"q1", "q2", "a"} /\ T!Visible' = {"q1", "q2", "a"}
    BY <2>1, Frame4, Frame5 DEF Three, T!Visible, T!tokenPos, T!Token
  <2>3. ASSUME NEW t \in T!Token, T!SameTask(t) PROVE T!MovesAsTask(t)
    BY <2>1, <2>2, <2>3, Frame4, Frame5
       DEF Three, Shown, T!SameTask, T!MovesAsTask, T!Arrow, T!Dock, T!QueueSlot
  <2> QED
    BY <2>3
<1>5. CASE frameIdx = 4
  <2>1. T!Scene = T!TIMELINE[5] /\ T!Scene' = T!TIMELINE[6]
    BY <1>0, <1>5
  <2>2. T!Visible = {"q1", "q2", "a"} /\ T!Visible' = {"a"}
    BY <2>1, Frame5, Frame6 DEF Three, One, T!Visible, T!tokenPos, T!Token
  <2>3. ASSUME NEW t \in T!Token, T!SameTask(t) PROVE T!MovesAsTask(t)
    BY <2>1, <2>2, <2>3, Frame5, Frame6
       DEF Three, One, Shown, T!SameTask, T!MovesAsTask, T!Arrow, T!Dock, T!QueueSlot
  <2> QED
    BY <2>3
<1>6. CASE frameIdx = 5
  <2>1. T!Scene = T!TIMELINE[6] /\ T!Scene' = T!TIMELINE[7]
    BY <1>0, <1>6
  <2>2. T!Visible = {"a"} /\ T!Visible' = {"a"}
    BY <2>1, Frame6, Frame7 DEF One, T!Visible, T!tokenPos, T!Token
  <2>3. ASSUME NEW t \in T!Token, T!SameTask(t) PROVE T!MovesAsTask(t)
    BY <2>1, <2>2, <2>3, Frame6, Frame7
       DEF One, Shown, T!SameTask, T!MovesAsTask, T!Arrow, T!Dock, T!QueueSlot
  <2> QED
    BY <2>3
<1>7. CASE frameIdx = 6
  <2>1. T!Scene = T!TIMELINE[7] /\ T!Scene' = T!TIMELINE[8]
    BY <1>0, <1>7
  <2>2. T!Visible = {"a"} /\ T!Visible' = {"a"}
    BY <2>1, Frame7, Frame8 DEF One, T!Visible, T!tokenPos, T!Token
  <2>3. ASSUME NEW t \in T!Token, T!SameTask(t) PROVE T!MovesAsTask(t)
    BY <2>1, <2>2, <2>3, Frame7, Frame8
       DEF One, Shown, T!SameTask, T!MovesAsTask, T!Arrow, T!Dock, T!QueueSlot
  <2> QED
    BY <2>3
<1>8. CASE frameIdx = 7
  <2>1. T!Scene = T!TIMELINE[8] /\ T!Scene' = T!TIMELINE[9]
    BY <1>0, <1>8
  <2>2. T!Visible = {"a"} /\ T!Visible' = {"a"}
    BY <2>1, Frame8, Frame9 DEF One, T!Visible, T!tokenPos, T!Token
  <2>3. ASSUME NEW t \in T!Token, T!SameTask(t) PROVE T!MovesAsTask(t)
    BY <2>1, <2>2, <2>3, Frame8, Frame9
       DEF One, Shown, T!SameTask, T!MovesAsTask, T!Arrow, T!Dock, T!QueueSlot
  <2> QED
    BY <2>3
<1>9. CASE frameIdx = 8
  <2>1. T!Scene = T!TIMELINE[9] /\ T!Scene' = T!TIMELINE[10]
    BY <1>0, <1>9
  <2>2. T!Visible = {"a"} /\ T!Visible' = {"a"}
    BY <2>1, Frame9, Frame10 DEF One, T!Visible, T!tokenPos, T!Token
  <2>3. ASSUME NEW t \in T!Token, T!SameTask(t) PROVE T!MovesAsTask(t)
    BY <2>1, <2>2, <2>3, Frame9, Frame10
       DEF One, Shown, T!SameTask, T!MovesAsTask, T!Arrow, T!Dock, T!QueueSlot
  <2> QED
    BY <2>3
<1>10. CASE frameIdx = 9
  <2>1. T!Scene = T!TIMELINE[10] /\ T!Scene' = T!TIMELINE[1]
    BY <1>0, <1>10
  <2>2. T!Visible = {"a"} /\ T!Visible' = {"q1", "q2", "a"}
    BY <2>1, Frame10, Frame1 DEF One, Three, T!Visible, T!tokenPos, T!Token
  <2>3. ASSUME NEW t \in T!Token, T!SameTask(t) PROVE T!MovesAsTask(t)
    BY <2>1, <2>2, <2>3, Frame10, Frame1
       DEF One, Three, Shown, T!SameTask, T!MovesAsTask, T!Arrow, T!Dock, T!QueueSlot
  <2> QED
    BY <2>3
<1> QED
  BY <1>1, <1>2, <1>3, <1>4, <1>5, <1>6, <1>7, <1>8, <1>9, <1>10

-----------------------------------------------------------------------------
(* The learning pages.                                                      *)

\* A page with an article is the page of a chapter.
LEMMA ArticleIsChapter == ASSUME NEW p, L!Article(p) PROVE p \in L!Slug
BY DEF L!Article, L!Rendered, L!Known, L!Slug

\* Every reachable state is well typed, for every curriculum and any tabs.
THEOREM LearnTypeCorrect == L!Spec => []L!TypeOK
<1>1. L!Init => L!TypeOK
  BY DEF L!Init, L!TypeOK, L!Pages
<1>2. L!TypeOK /\ [L!Next]_(L!vars) => L!TypeOK'
  <2> SUFFICES ASSUME L!TypeOK, [L!Next]_(L!vars) PROVE L!TypeOK'
    OBVIOUS
  <2>1. ASSUME NEW t \in Tab, NEW p \in L!Pages, L!Draw(t, p) PROVE L!TypeOK'
    BY <2>1, ArticleIsChapter DEF L!Draw, L!TypeOK
  <2>2. ASSUME NEW t \in Tab, L!Close(t) PROVE L!TypeOK'
    BY <2>2 DEF L!Close, L!TypeOK
  <2>3. ASSUME NEW t \in Tab, L!RunEffects(t) PROVE L!TypeOK'
    <3>1. L!Marks(page[t]) \subseteq L!Slug
      BY ArticleIsChapter DEF L!Marks
    <3>2. UNCHANGED <<storage, page, opened>> /\ ran' \subseteq Tab
      BY <2>3 DEF L!RunEffects, L!TypeOK
    <3>3. store' \subseteq L!Slug /\ notices' \subseteq Tab /\ readSlugs' \in [Tab -> SUBSET L!Slug]
      BY <2>3, <3>1 DEF L!RunEffects, L!MarkChapterRead, L!Sync, L!TypeOK
    <3> QED
      BY <3>2, <3>3 DEF L!TypeOK
  <2>4. ASSUME NEW t \in Tab, L!StorageEvent(t) PROVE L!TypeOK'
    BY <2>4 DEF L!StorageEvent, L!Hear, L!TypeOK
  <2>5. CASE UNCHANGED L!vars
    BY <2>5 DEF L!vars, L!TypeOK
  <2> QED
    BY <2>1, <2>2, <2>3, <2>4, <2>5 DEF L!Next, L!Address, L!Follow
<1> QED
  BY <1>1, <1>2, PTL DEF L!Spec
-----------------------------------------------------------------------------
\* The article a tab shows was opened, what is stored was opened, and a tab has
\* read no more than what is stored.
Progress ==
    /\ \A t \in Tab : L!Article(page[t]) => page[t] \in opened
    /\ store \subseteq opened
    /\ \A t \in Tab : readSlugs[t] \subseteq store

\* Pages, effects and storage events keep it so.
LEMMA ProgressInvariant == L!Spec => []Progress
<1>1. L!Init => Progress
  BY DEF L!Init, Progress, L!Article, L!IsReader
<1>2. L!TypeOK /\ Progress /\ [L!Next]_(L!vars) => Progress'
  <2> SUFFICES ASSUME L!TypeOK, Progress, [L!Next]_(L!vars) PROVE Progress'
    OBVIOUS
  <2>1. ASSUME NEW t \in Tab, NEW p \in L!Pages, L!Draw(t, p) PROVE Progress'
    <3>1. store' = store /\ opened \subseteq opened' /\ (L!Article(p) => p \in opened')
      BY <2>1 DEF L!Draw
    <3>2. \A u \in Tab : page'[u] = IF u = t THEN p ELSE page[u]
      BY <2>1 DEF L!Draw, L!TypeOK
    <3>3. \A u \in Tab : readSlugs'[u] \subseteq readSlugs[u]
      BY <2>1 DEF L!Draw, L!TypeOK
    <3>4. \A u \in Tab : L!Article(page'[u]) => page'[u] \in opened'
      BY <3>1, <3>2 DEF Progress
    <3> QED
      BY <3>1, <3>3, <3>4 DEF Progress, L!Article, L!IsReader
  <2>2. ASSUME NEW t \in Tab, L!Close(t) PROVE Progress'
    <3>1. \A u \in Tab : page'[u] = IF u = t THEN "closed" ELSE page[u]
      BY <2>2 DEF L!Close, L!TypeOK
    <3>2. \A u \in Tab : readSlugs'[u] \subseteq readSlugs[u]
      BY <2>2 DEF L!Close, L!TypeOK
    <3>3. store' = store /\ opened' = opened /\ ~L!Article("closed")
      BY <2>2 DEF L!Close, L!Article, L!IsReader
    <3>4. \A u \in Tab : L!Article(page'[u]) => page'[u] \in opened'
      BY <3>1, <3>3 DEF Progress
    <3> QED
      BY <3>2, <3>3, <3>4 DEF Progress, L!Article, L!IsReader
  <2>3. ASSUME NEW t \in Tab, L!RunEffects(t) PROVE Progress'
    <3>1. page' = page /\ opened' = opened
      BY <2>3 DEF L!RunEffects
    <3>2. L!Marks(page[t]) \subseteq opened
      BY DEF L!Marks, Progress
    <3>3. CASE L!MarkChapterRead(t)
      BY <3>1, <3>2, <3>3 DEF L!MarkChapterRead, Progress, L!Article, L!IsReader
    <3>4. CASE L!Sync(t)
      BY <3>1, <3>4 DEF L!Sync, Progress, L!Article, L!IsReader, L!TypeOK
    <3> QED
      BY <2>3, <3>3, <3>4 DEF L!RunEffects
  <2>4. ASSUME NEW t \in Tab, L!StorageEvent(t) PROVE Progress'
    BY <2>4 DEF L!StorageEvent, L!Hear, Progress, L!Article, L!IsReader, L!TypeOK
  <2>5. CASE UNCHANGED L!vars
    BY <2>5 DEF L!vars, Progress, L!Article, L!IsReader
  <2> QED
    BY <2>1, <2>2, <2>3, <2>4, <2>5 DEF L!Next, L!Address, L!Follow
<1> QED
  BY <1>1, <1>2, LearnTypeCorrect, PTL DEF L!Spec

\* A chapter counts as read, in the storage and in any tab, only if its article
\* was opened: for every curriculum, any tabs, and whenever the storage fails.
LEMMA EarnedByTabs == L!Spec => []L!BadgeMeansOpened
<1>1. Progress => L!BadgeMeansOpened
  BY DEF Progress, L!BadgeMeansOpened, L!Badge
<1> QED
  BY <1>1, ProgressInvariant, PTL

-----------------------------------------------------------------------------
(* The submission panel.                                                    *)

\* The part and the module its theorems are about are the same.
LEMMA SameSubmission == S!Spec => SP!Spec
<1> USE DEF
      S!handlers, SP!handlers, S!flags, SP!flags, S!vars, SP!vars, S!ReqState, SP!ReqState,
      S!Reply, SP!Reply, S!Ask, SP!Ask, S!Start, SP!Start, S!Covered, SP!Covered, S!FormEnabled,
      SP!FormEnabled, S!Submit, SP!Submit, S!OpenDialog, SP!OpenDialog, S!Cancel, SP!Cancel,
      S!Confirm, SP!Confirm, S!Faded, SP!Faded, S!ShowToast, SP!ShowToast, S!Finally, SP!Finally,
      S!Chunk, SP!Chunk, S!ChunkSettled, SP!ChunkSettled, S!ChunkSucceeded, SP!ChunkSucceeded,
      S!ChunkFailed, SP!ChunkFailed, S!SentNext, SP!SentNext, S!NextChunk, SP!NextChunk,
      S!Succeed, SP!Succeed, S!Fail, SP!Fail, S!TimerFires, SP!TimerFires, S!Leave, SP!Leave,
      S!Return, SP!Return, S!Next, SP!Next, S!Init, SP!Init, S!TasksOf, SP!TasksOf, S!NoProgress,
      SP!NoProgress, S!NoToast, SP!NoToast, S!Accepted, SP!Accepted, S!Awaiting, SP!Awaiting,
      S!Run, SP!Run, S!NoRun, SP!NoRun, S!Kind, SP!Kind, S!Size, SP!Size, S!ChunkAfter,
      SP!ChunkAfter, S!SentAfter, SP!SentAfter
<1>1. S!Init => SP!Init
  OBVIOUS
<1>2. S!Next => SP!Next
  BY Zenon
<1>3. UNCHANGED S!vars <=> UNCHANGED SP!vars
  OBVIOUS
<1> QED
  BY <1>1, <1>2, <1>3, PTL DEF S!Spec, SP!Spec

\* What the part promises, of the state the composition sees.
Promise == S!TypeOK /\ TellsTheTruth /\ OverlapsAreConfirmed

\* The theorems of the part, about a behaviour that follows it.
LEMMA SubmissionPromise == S!Spec => []Promise
<1>1. SP!TypeOK => S!TypeOK
  BY DEF S!TypeOK, SP!TypeOK, S!Run, SP!Run, S!Kind, SP!Kind, S!NoRun, SP!NoRun, S!ReqState,
         SP!ReqState
<1>2. SP!TellsTheTruth => TellsTheTruth
  BY DEF SP!TellsTheTruth, TellsTheTruth, SP!TasksOf, TasksOf, SP!Accepted, Accepted, SP!Size,
         Size, SP!NoRun, NoRun
<1>3. SP!OverlapsAreConfirmed => OverlapsAreConfirmed
  <2>1. SP!Running = Running
    BY DEF SP!Running, Running, SP!Run, Run, SP!Awaiting, Awaiting
  <2>2. SP!Cardinality(SP!Running) = Cardinality(Running)
    BY <2>1, Zenon DEF SP!Cardinality, Cardinality
  <2> QED
    BY <2>1, <2>2 DEF SP!OverlapsAreConfirmed, OverlapsAreConfirmed
<1> QED
  BY <1>1, <1>2, <1>3, SameSubmission, BatchAssumption, SP!SubmissionTypeCorrect,
     SP!ThePanelIsHonest,
     SP!OnlyConfirmationsOverlap, PTL DEF Promise

\* A panel that is not followed has promised nothing yet.
LEMMA SubmissionStarts == S!Init => Promise
<1> SUFFICES ASSUME S!Init PROVE Promise
  OBVIOUS
<1> USE BatchAssumption DEF S!Init, S!Run, S!Kind, S!NoRun, S!ReqState, S!NoProgress, S!NoToast
<1>1. /\ stage \in [S!Run -> {"new", "open", "ended"}] /\ kind \in [S!Run -> S!Kind]
      /\ sent \in [S!Run -> Nat]
  OBVIOUS
<1>2. req \in [S!Run -> [1..BatchSize -> S!ReqState]]
  BY Zenon
<1>3. dialog \in [{"batch", "flush"} -> {"closed", "open", "fading"}]
  BY Zenon
<1>4. /\ mounted \in BOOLEAN /\ here \subseteq S!Run /\ submitting \in BOOLEAN
      /\ again \in Nat /\ timers \in Nat /\ failures \in Nat
      /\ progress \in [run : S!Run \cup {S!NoRun}, n : Nat]
      /\ toast \in [type : {"none", "success", "error"}, run : S!Run \cup {S!NoRun}]
  OBVIOUS
<1>5. S!TypeOK
  BY <1>1, <1>2, <1>3, <1>4 DEF S!TypeOK
<1>6. TellsTheTruth /\ OverlapsAreConfirmed
  <2>1. Running = {}
    BY DEF Running, Awaiting, Run
  <2> QED
    BY <2>1, FS_EmptySet DEF TellsTheTruth, OverlapsAreConfirmed, NoRun
<1> QED
  BY <1>5, <1>6 DEF Promise

-----------------------------------------------------------------------------
(* The composition.                                                         *)

\* A job is being created only where the cron panel is followed and its page is open.
CronInv == C!TypeOK /\ (busy => focus = "cron" /\ mounted)

Inv ==
    /\ focus \in Part
    /\ PanelsTyped /\ CronInv /\ FollowersInv /\ DiagramInv

\* A part that is not followed sees its page open and close, and nothing else.
LEMMA Bystanders ==
    ASSUME Inv, focus' = focus, mounted' \in BOOLEAN, outages' \in 0..MaxOutages
    PROVE  /\ UNCHANGED panelVars => PanelsTyped'
           /\ UNCHANGED cronVars /\ (focus = "cron" => mounted' = mounted) => CronInv'
           /\ UNCHANGED followerVars /\ (focus = "follower" => mounted' = mounted) => FollowersInv'
           /\ UNCHANGED diagramVars /\ (focus = "diagram" => mounted' = mounted) => DiagramInv'
<1>1. ASSUME UNCHANGED panelVars PROVE PanelsTyped'
  BY <1>1 DEF Inv, panelVars, PanelsTyped, Poller, Call
<1>2. ASSUME UNCHANGED cronVars, focus = "cron" => mounted' = mounted PROVE CronInv'
  BY <1>2 DEF Inv, CronInv, cronVars, C!TypeOK, C!Unused, C!Creating
<1>3. ASSUME UNCHANGED followerVars, focus = "follower" => mounted' = mounted PROVE FollowersInv'
  BY <1>3 DEF Inv, followerVars, FollowersInv, F!TypeOK, F!Follows
<1>4. ASSUME UNCHANGED diagramVars, focus = "diagram" => mounted' = mounted PROVE DiagramInv'
  BY <1>4 DEF Inv, diagramVars, DiagramInv, T!TypeOK, T!OrientationAt
<1> QED
  BY <1>1, <1>2, <1>3, <1>4

\* The invariant of the composition: each part by its own step, the others as
\* bystanders.
LEMMA SiteInvariant == ASSUME BoundsAreNumbers PROVE Spec => []Inv
<1> USE DEF BoundsAreNumbers
<1>1. Init => Inv
  <2> SUFFICES ASSUME Init PROVE Inv
    OBVIOUS
  <2>1. PanelsTyped
    <3>1. now \in Nat /\ now \in DOMAIN History
      BY HistoryIsTyped DEF Init, P!Init
    <3> QED
      BY <3>1, FreshPollers DEF Init, P!Init, PanelsTyped
  <2>2. CronInv
    <3>1. C!Init
      BY DEF Init
    <3>2. requests \in [Slot -> C!Request] /\ \A s \in Slot : ~requests[s].here
      BY <3>1 DEF C!Init, C!NoRequest, C!Request
    <3>3. C!Creating = {} /\ (\A s \in C!Unused : ~requests[s].here) /\ busy = FALSE
      BY <3>1, <3>2 DEF C!Init, C!Creating, C!Unused
    <3>4. /\ mounted \in BOOLEAN /\ jobs \subseteq JobId /\ cronToast \in {"none", "success", "error"}
          /\ cronTimers \in Nat /\ outages \in 0..MaxOutages
      BY <3>1 DEF C!Init
    <3> QED
      BY <3>2, <3>3, <3>4 DEF CronInv, C!TypeOK
  <2>3. FollowersInv
    <3>1. [pos |-> 0, open |-> {}] \in [pos : 0..MaxPos, open : SUBSET Question]
      OBVIOUS
    <3> QED
      BY <3>1 DEF Init, F!Init, FollowersInv, F!TypeOK
  <2>4. DiagramInv
    <3>1. Len(T!TIMELINE) = 10 /\ 0 \in 0..9 /\ 1 \in 0..9
      BY DEF T!TIMELINE
    <3>2. T!Init
      BY DEF Init
    <3> QED
      BY <3>1, <3>2 DEF T!Init, DiagramInv, T!TypeOK, T!OrientationAt
  <2> QED
    BY <2>1, <2>2, <2>3, <2>4 DEF Init, Inv
<1>2. Inv /\ [Next]_vars => Inv'
  <2> SUFFICES ASSUME Inv, [Next]_vars PROVE Inv'
    OBVIOUS
  <2>0. mounted \in BOOLEAN /\ outages \in 0..MaxOutages
    BY DEF Inv, PanelsTyped
  <2>1. ASSUME OnPanels, P!Next PROVE Inv'
    <3>1. PanelsTyped'
      BY <2>1, PanelsStep DEF Inv
    <3> QED
      BY <2>1, <3>1, Bystanders DEF OnPanels, PanelsTyped, Inv
  <2>2. ASSUME OnCronForm PROVE Inv'
    BY <2>0, <2>2, Bystanders DEF OnCronForm, Inv
  <2>3. ASSUME OnCronPanel, C!Next PROVE Inv'
    <3>1. CronInv'
      BY <2>3, CronStep DEF Inv, CronInv, OnCronPanel
    <3>2. mounted' \in BOOLEAN /\ outages' \in 0..MaxOutages
      BY <3>1 DEF CronInv, C!TypeOK
    <3> QED
      BY <2>3, <3>1, <3>2, Bystanders DEF OnCronPanel, Inv
  <2>4. ASSUME OnSubmission, S!Next PROVE Inv'
    <3>1. mounted' \in BOOLEAN
      BY <2>0, <2>4
         DEF S!Next, S!TimerFires, S!Leave, S!Return, S!OpenDialog, S!Cancel, S!Faded, S!Confirm,
                        S!Submit, S!Start, S!NextChunk, S!Succeed, S!Fail, S!Reply
    <3> QED
      BY <2>0, <2>4, <3>1, Bystanders DEF OnSubmission, Inv
  <2>5. ASSUME OnLearn PROVE Inv'
    BY <2>0, <2>5, Bystanders DEF OnLearn, Inv
  <2>6. ASSUME OnFollowers, F!Next PROVE Inv'
    <3>1. FollowersInv'
      BY <2>6, FollowersStep DEF Inv
    <3>2. mounted' \in BOOLEAN
      BY <3>1 DEF FollowersInv, F!TypeOK
    <3> QED
      BY <2>0, <2>6, <3>1, <3>2, Bystanders DEF OnFollowers, Inv
  <2>7. ASSUME OnTutorial, T!Next PROVE Inv'
    <3>1. DiagramInv'
      BY <2>7, DiagramStep DEF Inv
    <3>2. mounted' \in BOOLEAN
      BY <3>1 DEF DiagramInv, T!TypeOK
    <3> QED
      BY <2>0, <2>7, <3>1, <3>2, Bystanders DEF OnTutorial, Inv
  <2>8. CASE UNCHANGED vars
    BY <2>0, <2>8, Bystanders DEF vars, Inv
  <2> QED
    BY <2>1, <2>2, <2>3, <2>4, <2>5, <2>6, <2>7, <2>8 DEF Next
<1> QED
  BY <1>1, <1>2, PTL DEF Spec

\* The submission panel is followed all along, by its own theorems, or never.
LEMMA PromiseKept == ASSUME BoundsAreNumbers PROVE Spec => []Promise
<1>1. Init => Promise
  BY SubmissionStarts DEF Init
<1>2. Inv' /\ Promise /\ ~(focus = "submission") /\ [Next]_vars => Promise'
  <2> SUFFICES ASSUME Inv', Promise, focus # "submission", [Next]_vars PROVE Promise'
    OBVIOUS
  <2>1. UNCHANGED submissionVars
    BY DEF Next, OnPanels, OnCronForm, OnCronPanel, OnSubmission, OnLearn, OnFollowers, OnTutorial,
           vars
  <2>2. mounted' \in BOOLEAN
    BY DEF Inv, PanelsTyped
  <2>3. S!TypeOK'
    BY <2>1, <2>2 DEF Promise, submissionVars, S!TypeOK
  <2>4. TellsTheTruth'
    BY <2>1 DEF Promise, submissionVars, TellsTheTruth, Accepted, TasksOf
  <2>5. OverlapsAreConfirmed'
    BY <2>1 DEF Promise, submissionVars, OverlapsAreConfirmed, Running, Awaiting
  <2> QED
    BY <2>3, <2>4, <2>5 DEF Promise
<1>3. focus = "submission" /\ [Next]_vars => [S!Next]_(S!vars)
  BY DEF Next, OnPanels, OnCronForm, OnCronPanel, OnSubmission, OnLearn, OnFollowers, OnTutorial,
         vars, submissionVars, S!vars, S!handlers, S!flags
<1>4. [Next]_vars => ((focus = "submission")' <=> focus = "submission")
  BY DEF Next, OnPanels, OnCronForm, OnCronPanel, OnSubmission, OnLearn, OnFollowers, OnTutorial,
         vars
<1>5. Init => S!Init
  BY DEF Init
<1>6. Spec => []Inv
  BY SiteInvariant
<1> QED
  BY <1>1, <1>2, <1>3, <1>4, <1>5, <1>6, SubmissionPromise, PTL DEF Spec, S!Spec

\* The learning pages share nothing with the other parts.
LEMMA LearnGoesOn == Spec => L!Spec
<1>1. Init => L!Init
  BY DEF Init
<1>2. [Next]_vars => [L!Next]_(L!vars)
  BY DEF Next, OnPanels, OnCronForm, OnCronPanel, OnSubmission, OnLearn, OnFollowers, OnTutorial,
         vars, learnVars, L!vars
<1> QED
  BY <1>1, <1>2, PTL DEF Spec, L!Spec

\* Every reachable state of the dashboard is well typed, whichever part is
\* followed: pollers and forms, handlers, tabs, followers and diagram.
THEOREM SiteTypeCorrect == ASSUME BoundsAreNumbers PROVE Spec => []TypeOK
<1>1. Inv /\ Promise /\ L!TypeOK => TypeOK
  <2>1. PanelsTyped => P!TypeOK
    BY PollsEndpoints DEF PanelsTyped, P!TypeOK, Poller, Call
  <2> QED
    BY <2>1 DEF Inv, CronInv, Promise, TypeOK, FollowersInv, DiagramInv
<1>2. Spec => []Inv /\ []Promise
  BY SiteInvariant, PromiseKept
<1> QED
  BY <1>1, <1>2, LearnGoesOn, LearnTypeCorrect, PTL

\* The bar, the spot and the diagram are drawn where the page, the pointer and the
\* boxes are, unless an event or a frame is on its way: for pages of every length
\* and windows of every size, however often they are left and opened again.
THEOREM NothingStaysBehind == ASSUME BoundsAreNumbers PROVE Spec => []DrawnFollows
<1>1. Inv => DrawnFollows
  <2> SUFFICES ASSUME Inv PROVE DrawnFollows
    OBVIOUS
  <2>1. F!FollowsClosely
    BY DEF Inv, FollowersInv, F!TypeOK, F!FollowsClosely
  <2>2. T!DiagramInPlace
    BY DEF Inv, DiagramInv, T!TypeOK, T!DiagramInPlace, T!OrientationAt, T!TokenDot, T!tokenPos,
           T!Connectors, T!Caption
  <2> QED
    BY <2>1, <2>2 DEF DrawnFollows
<1>2. Spec => []Inv
  BY SiteInvariant
<1> QED
  BY <1>1, <1>2, PTL

\* Whatever is shown of the landing diagram, a frame of the timeline or the still
\* that stands in for it where less motion is asked for, is a state the queue can be
\* in, told consistently by tokens, workers and caption.
THEOREM DiagramIsTruthful == ASSUME BoundsAreNumbers PROVE Spec => []SceneConsistent
<1>1. Inv => SceneConsistent
  <2> SUFFICES ASSUME Inv PROVE T!SceneConsistent
    BY DEF SceneConsistent
  <2>1. reduce \in BOOLEAN /\ frameIdx \in 0..9
    BY Frames DEF Inv, DiagramInv, T!TypeOK
  <2> QED
    BY <2>1, TimelineTold, StaticTold
<1>2. Spec => []Inv
  BY SiteInvariant
<1> QED
  BY <1>1, <1>2, PTL

\* From frame to frame, round and round, and however often the page is left and
\* opened again, the tokens of the landing page move as the queue moves tasks.
THEOREM DiagramMovesAsQueue == ASSUME BoundsAreNumbers PROVE Spec => ShowsLifecycle
<1>1. ASSUME Inv, [Next]_vars, frameIdx' # frameIdx, mounted', ~reduce
      PROVE  \A t \in T!Token : T!SameTask(t) => T!MovesAsTask(t)
  <2>1. OnTutorial /\ T!Next
    BY <1>1 DEF Next, OnPanels, OnCronForm, OnCronPanel, OnSubmission, OnLearn, OnFollowers,
                vars, diagramVars
  <2>2. T!Tick
    BY <1>1, <2>1 DEF T!Next, T!MediaChange, T!Leave, T!Return, T!Resize, T!Resized
  <2>3. frameIdx \in 0..9 /\ frameIdx' = (frameIdx + 1) % 10
    BY <1>1, <2>1, <2>2, Frames DEF Inv, DiagramInv, T!TypeOK, T!Tick, OnTutorial
  <2>4. ~reduce'
    BY <1>1, <2>2 DEF T!Tick
  <2> QED
    BY <1>1, <2>3, <2>4, Moves
<1>2. Inv /\ [Next]_vars => [frameIdx' # frameIdx /\ mounted' /\ ~reduce =>
                              \A t \in T!Token : T!SameTask(t) => T!MovesAsTask(t)]_(T!vars)
  BY <1>1
<1>3. Spec => []Inv
  BY SiteInvariant
<1> QED
  BY <1>2, <1>3, PTL DEF Spec, ShowsLifecycle, T!ShowsLifecycle

\* In the dashboard too, a toast and a count claim only what the server has
\* accepted, and handlers of a page overlap only by a confirmation in a fading dialog.
THEOREM SiteIsHonest ==
    ASSUME BoundsAreNumbers PROVE Spec => [](TellsTheTruth /\ OverlapsAreConfirmed)
<1>1. Promise => TellsTheTruth /\ OverlapsAreConfirmed
  BY DEF Promise
<1>2. Spec => []Promise
  BY PromiseKept
<1> QED
  BY <1>1, <1>2, PTL

\* In the dashboard too, no chapter wears a badge whose article was never opened:
\* for every curriculum and any tabs, and whenever the storage fails.
THEOREM BadgesAreEarned == Spec => []BadgeMeansOpened
<1>1. L!BadgeMeansOpened => BadgeMeansOpened
  BY DEF L!BadgeMeansOpened, BadgeMeansOpened, L!Badge, Badge, L!InSeq, InSeq, L!Available,
         Available
<1> QED
  BY <1>1, EarnedByTabs, LearnGoesOn, PTL

-----------------------------------------------------------------------------
(* The form.                                                                *)

\* A field of a schedule: any value, one value, or every n-th.
Field == {W!Star} \cup {W!At(n) : n \in Nat} \cup {W!Every(n) : n \in Nat \ {0}}

\* The step divides the next larger unit, so that a count of it ends at midnight.
Divides(text) ==
    /\ text.unit \in {"seconds", "minutes"} => 60 % text.n = 0
    /\ text.unit = "hours" => 24 % text.n = 0

\* The arithmetic of remainders: no multiple of n lies between 0 and n,
LEMMA NoneBetween == ASSUME NEW n \in Nat \ {0}, NEW k \in Int, 0 <= n * k, n * k < n PROVE k = 0
<1>1. ASSUME k >= 1 PROVE FALSE
  <2>1. n * k >= n
    BY <1>1
  <2> QED
    BY <2>1
<1>2. ASSUME k <= -1 PROVE FALSE
  <2>1. n * k <= -n
    BY <1>2
  <2> QED
    BY <2>1
<1> QED
  BY <1>1, <1>2

\* to leave no remainder is to be a multiple,
LEMMA Multiples ==
    ASSUME NEW n \in Nat \ {0}, NEW a \in Nat
    PROVE  a % n = 0 <=> \E q \in Nat : a = n * q
<1>1. PICK d \in Nat, r \in 0..n-1 : a = n * d + r /\ r = a % n
  <2>1. a \div n \in Nat /\ a % n \in 0..n-1 /\ a = n * (a \div n) + (a % n)
    OBVIOUS
  <2> QED
    BY <2>1
<1>2. ASSUME NEW q \in Nat, a = n * q PROVE r = 0
  <2>1. r = n * (q - d)
    <3>1. n * (q - d) = n * q - n * d
      OBVIOUS
    <3> QED
      BY <1>1, <1>2, <3>1
  <2>2. q - d = 0
    BY <2>1, NoneBetween
  <2> QED
    BY <2>1, <2>2
<1>3. r = 0 => a = n * d
  BY <1>1
<1> QED
  BY <1>1, <1>2, <1>3

\* a is k times n and s over.
Parts(a, n, k, s) ==
    a \in Nat /\ n \in Nat \ {0} /\ k \in Nat /\ s \in Nat /\ a = n * k + s

\* whole multiples do not change a remainder,
LEMMA Shift ==
    ASSUME NEW n, NEW k, NEW s, NEW a, Parts(a, n, k, s)
    PROVE  a % n = 0 <=> s % n = 0
<1> USE DEF Parts
<1>1. ASSUME NEW q \in Nat, s = n * q PROVE a = n * (k + q)
  BY <1>1
<1>2. ASSUME NEW q \in Nat, a = n * q PROVE s = n * (q - k) /\ q - k \in Nat
  <2>1. s = n * (q - k)
    BY <1>2
  <2>2. ASSUME q - k <= -1 PROVE FALSE
    <3>1. n * (q - k) <= -n
      BY <2>2
    <3> QED
      BY <2>1, <3>1
  <2> QED
    BY <2>1, <2>2
<1>3. a % n = 0 => s % n = 0
  BY <1>2, Multiples
<1>4. ASSUME s % n = 0 PROVE a % n = 0
  <2>1. PICK q \in Nat : s = n * q
    BY <1>4, Multiples
  <2>2. k + q \in Nat /\ a = n * (k + q)
    BY <1>1, <2>1
  <2> QED
    BY <2>2, Multiples
<1> QED
  BY <1>3, <1>4

\* and n times a unit divides a when the unit leaves nothing over and n divides the rest.
LEMMA Carry ==
    ASSUME NEW n, NEW u, NEW x, NEW r, NEW a, NEW b,
           Parts(a, u, x, r), r < u, Parts(b, n, u, 0)
    PROVE  a % b = 0 <=> r = 0 /\ x % n = 0
<1> USE DEF Parts
<1>0. b \in Nat \ {0} /\ b = n * u
  OBVIOUS
<1>1. ASSUME NEW q \in Nat, a = b * q PROVE r = 0 /\ x = n * q
  <2>1. b * q = u * (n * q) /\ n * q \in Nat
    BY <1>0
  <2>2. r = u * (n * q - x)
    BY <1>1, <2>1
  <2>3. n * q - x = 0
    BY <2>1, <2>2, NoneBetween
  <2> QED
    BY <2>1, <2>2, <2>3
<1>2. ASSUME NEW q \in Nat, r = 0, x = n * q PROVE a = b * q
  BY <1>0, <1>2
<1>3. ASSUME a % b = 0 PROVE r = 0 /\ x % n = 0
  <2>1. PICK q \in Nat : a = b * q
    BY <1>0, <1>3, Multiples
  <2>2. r = 0 /\ x = n * q
    BY <1>1, <2>1
  <2> QED
    BY <2>2, Multiples
<1>4. ASSUME r = 0, x % n = 0 PROVE a % b = 0
  <2>1. PICK q \in Nat : x = n * q
    BY <1>4, Multiples
  <2>2. a = b * q
    BY <1>2, <1>4, <2>1
  <2> QED
    BY <1>0, <2>2, Multiples
<1> QED
  BY <1>3, <1>4

\* What the fields say of a moment is what a count from midnight says: every n
\* seconds, every n minutes on the minute, every n hours on the hour of a clock that
\* starts anew.
OnSecond(n, h, m, s) == s % n = 0 <=> (3600 * h + 60 * m + s) % n = 0

OnMinute(n, h, m, s) == s = 0 /\ m % n = 0 <=> (3600 * h + 60 * m + s) % (n * 60) = 0

OnHour(n, h, m, s) ==
    s = 0 /\ m = 0 /\ (h % 24) % n = 0 <=> (3600 * h + 60 * m + s) % (n * 3600) = 0

\* They agree at every moment exactly when n divides the minute, the hour or the day.
LEMMA EverySecond ==
    ASSUME NEW n \in Nat \ {0}
    PROVE  (\A h \in 0..24, m \in 0..59, s \in 0..59 : OnSecond(n, h, m, s)) <=> 60 % n = 0
<1>1. ASSUME 60 % n = 0, NEW h \in 0..24, NEW m \in 0..59, NEW s \in 0..59
      PROVE  OnSecond(n, h, m, s)
  <2>1. PICK q \in Nat : 60 = n * q
    BY <1>1, Multiples
  <2>2. PICK x \in Nat : x = 60 * h + m
    OBVIOUS
  <2>3. Parts(3600 * h + 60 * m + s, n, q * x, s)
    <3>1. n * (q * x) = (n * q) * x /\ q * x \in Nat
      OBVIOUS
    <3> QED
      BY <2>1, <2>2, <3>1 DEF Parts
  <2> QED
    BY <2>3, Shift DEF OnSecond
<1>2. ASSUME \A h \in 0..24, m \in 0..59, s \in 0..59 : OnSecond(n, h, m, s)
      PROVE  60 % n = 0
  <2>1. OnSecond(n, 0, 1, 0)
    <3>1. 0 \in 0..24 /\ 0 \in 0..59 /\ 1 \in 0..59
      OBVIOUS
    <3> QED
      BY <1>2, <3>1
  <2>2. 0 % n = 0
    OBVIOUS
  <2> QED
    BY <2>1, <2>2 DEF OnSecond
<1> QED
  BY <1>1, <1>2

LEMMA EveryMinute ==
    ASSUME NEW n \in Nat \ {0}
    PROVE  (\A h \in 0..24, m \in 0..59, s \in 0..59 : OnMinute(n, h, m, s)) <=> 60 % n = 0
<1>1. ASSUME NEW h \in 0..24, NEW m \in 0..59, NEW s \in 0..59
      PROVE  OnMinute(n, h, m, s) <=> (s = 0 => (m % n = 0 <=> (60 * h + m) % n = 0))
  <2>1. PICK a \in Nat, b \in Nat, u \in Nat, x \in Nat :
          a = 3600 * h + 60 * m + s /\ b = n * 60 /\ u = 60 /\ x = 60 * h + m
    OBVIOUS
  <2>2. Parts(a, u, x, s) /\ s < u /\ Parts(b, n, u, 0)
    BY <2>1 DEF Parts
  <2>3. a % b = 0 <=> s = 0 /\ x % n = 0
    BY <2>2, Carry
  <2> QED
    BY <2>1, <2>3 DEF OnMinute
<1>2. ASSUME 60 % n = 0, NEW h \in 0..24, NEW m \in 0..59
      PROVE  m % n = 0 <=> (60 * h + m) % n = 0
  <2>1. PICK q \in Nat : 60 = n * q
    BY <1>2, Multiples
  <2>2. Parts(60 * h + m, n, q * h, m)
    <3>1. n * (q * h) = (n * q) * h /\ q * h \in Nat
      OBVIOUS
    <3> QED
      BY <2>1, <3>1 DEF Parts
  <2> QED
    BY <2>2, Shift
<1>3. ASSUME 60 % n = 0, NEW h \in 0..24, NEW m \in 0..59, NEW s \in 0..59
      PROVE  OnMinute(n, h, m, s)
  BY <1>1, <1>2, <1>3
<1>4. ASSUME \A h \in 0..24, m \in 0..59, s \in 0..59 : OnMinute(n, h, m, s)
      PROVE  60 % n = 0
  <2>1. 1 \in 0..24 /\ 0 \in 0..59
    OBVIOUS
  <2>2. OnMinute(n, 1, 0, 0)
    BY <1>4, <2>1
  <2>3. 0 % n = 0 <=> (60 * 1 + 0) % n = 0
    BY <1>1, <2>1, <2>2
  <2>4. 0 % n = 0
    OBVIOUS
  <2> QED
    BY <2>3, <2>4
<1> QED
  BY <1>3, <1>4

\* The same when the schedule chooses hours.
OnMinuteOf(n, hours, h, m, s) ==
    W!Matches(hours, h % 24) /\ s = 0 /\ m % n = 0 <=> (3600 * h + 60 * m + s) % (n * 60) = 0

LEMMA EveryMinuteOf ==
    ASSUME NEW n \in Nat \ {0}, NEW hours
    PROVE  (\A h \in 0..24, m \in 0..59, s \in 0..59 : OnMinuteOf(n, hours, h, m, s))
             <=> W!FitsHours(n, hours)
<1> DEFINE On(h) == W!Matches(hours, h % 24)
           AtMinute(h, m) == On(h) /\ m % n = 0 <=> (60 * h + m) % n = 0
<1>1. ASSUME NEW h \in 0..24, NEW m \in 0..59, NEW s \in 0..59
      PROVE  OnMinuteOf(n, hours, h, m, s) <=> (s = 0 => AtMinute(h, m))
  <2>1. PICK a \in Nat, b \in Nat, u \in Nat, x \in Nat :
          a = 3600 * h + 60 * m + s /\ b = n * 60 /\ u = 60 /\ x = 60 * h + m
    OBVIOUS
  <2>2. Parts(a, u, x, s) /\ s < u /\ Parts(b, n, u, 0)
    BY <2>1 DEF Parts
  <2>3. a % b = 0 <=> s = 0 /\ x % n = 0
    BY <2>2, Carry
  <2> QED
    BY <2>1, <2>3 DEF OnMinuteOf
<1>2. (\A h \in 0..24, m \in 0..59, s \in 0..59 : OnMinuteOf(n, hours, h, m, s))
        <=> \A h \in 0..24, m \in 0..59 : AtMinute(h, m)
  <2> HIDE DEF AtMinute
  <2>1. 0 \in 0..59
    OBVIOUS
  <2> QED
    BY <1>1, <2>1
<1>3. 0 % n = 0 /\ n % n = 0 /\ \A m \in 0..59 : n > m => m % n = m
  <2>1. n = n * 1 /\ 1 \in Nat
    OBVIOUS
  <2> QED
    BY <2>1, Multiples
<1>4. ASSUME 60 % n = 0, NEW h \in 0..24, NEW m \in 0..59
      PROVE  m % n = 0 <=> (60 * h + m) % n = 0
  <2>1. PICK q \in Nat : 60 = n * q
    BY <1>4, Multiples
  <2>2. Parts(60 * h + m, n, q * h, m)
    <3>1. n * (q * h) = (n * q) * h /\ q * h \in Nat
      OBVIOUS
    <3> QED
      BY <2>1, <3>1 DEF Parts
  <2> QED
    BY <2>2, Shift
<1>5. ASSUME n % 60 = 0, NEW h \in 0..24, NEW m \in 0..59
      PROVE  (60 * h + m) % n = 0 <=> m = 0 /\ (60 * h) % n = 0
  <2>1. PICK j \in Nat \ {0} : n = j * 60
    <3>1. PICK q \in Nat : n = 60 * q
      BY <1>5, Multiples
    <3> QED
      BY <3>1
  <2>2. PICK u \in Nat, a \in Nat, c \in Nat : u = 60 /\ a = 60 * h + m /\ c = 60 * h
    OBVIOUS
  <2>3. Parts(a, u, h, m) /\ m < u /\ Parts(n, j, u, 0) /\ Parts(c, u, h, 0) /\ 0 < u
    BY <2>1, <2>2 DEF Parts
  <2>4. (a % n = 0 <=> m = 0 /\ h % j = 0) /\ (c % n = 0 <=> 0 = 0 /\ h % j = 0)
    BY <2>3, Carry
  <2> QED
    BY <2>2, <2>4
<1>6. ASSUME W!FitsHours(n, hours), NEW h \in 0..24, NEW m \in 0..59 PROVE AtMinute(h, m)
  <2>1. On(h) <=> (60 * h) % n = 0
    BY <1>6 DEF W!FitsHours
  <2>2. CASE 60 % n = 0
    <3>1. (60 * h) % n = 0
      BY <1>3, <1>4, <2>2
    <3> QED
      BY <1>4, <2>1, <2>2, <3>1
  <2>3. CASE n % 60 = 0
    <3>1. m % n = 0 <=> m = 0
      <4>1. n >= 60
        BY <2>3
      <4> QED
        BY <1>3, <4>1
    <3> QED
      BY <1>5, <2>1, <2>3, <3>1
  <2> QED
    BY <1>6, <2>2, <2>3 DEF W!FitsHours
<1>7. ASSUME \A h \in 0..24, m \in 0..59 : AtMinute(h, m) PROVE W!FitsHours(n, hours)
  <2>1. \A h \in 0..24 : On(h) <=> (60 * h) % n = 0
    <3> SUFFICES ASSUME NEW h \in 0..24 PROVE On(h) <=> (60 * h) % n = 0
      OBVIOUS
    <3>1. AtMinute(h, 0)
      <4>1. 0 \in 0..59
        OBVIOUS
      <4> QED
        BY <1>7, <4>1
    <3>2. 60 * h + 0 = 60 * h
      OBVIOUS
    <3> QED
      BY <1>3, <3>1, <3>2
  <2>2. ASSUME 60 % n # 0 PROVE n % 60 = 0
    <3>1. \A m \in 0..59 : (60 + m) % n # 0
      <4> SUFFICES ASSUME NEW m \in 0..59 PROVE (60 + m) % n # 0
        OBVIOUS
      <4>1. 60 * 1 = 60 /\ 60 * 1 + m = 60 + m /\ 1 \in 0..24
        OBVIOUS
      <4>2. ~On(1)
        BY <2>1, <2>2, <4>1
      <4>3. AtMinute(1, m)
        BY <1>7, <4>1
      <4> QED
        BY <4>1, <4>2, <4>3
    <3>2. n > 60
      <4> SUFFICES ASSUME n <= 60 PROVE FALSE
        OBVIOUS
      <4>1. PICK d \in Nat, r \in 0 .. n - 1 : 60 = n * d + r /\ r # 0
        <5>1. 60 \div n \in Nat /\ 60 % n \in 0 .. n - 1 /\ 60 = n * (60 \div n) + (60 % n)
          OBVIOUS
        <5> QED
          BY <2>2, <5>1
      <4>2. n - r \in 0..59 /\ 60 + (n - r) = n * (d + 1) /\ d + 1 \in Nat
        BY <4>1
      <4>3. (60 + (n - r)) % n = 0
        BY <4>2, Multiples
      <4> QED
        BY <3>1, <4>2, <4>3
    <3>3. n <= 1440
      <4>1. 60 * 0 = 0 /\ 0 % 24 = 0 /\ 24 % 24 = 0 /\ 60 * 24 = 1440 /\ 0 \in 0..24 /\ 24 \in 0..24
        OBVIOUS
      <4>2. 1440 % n = 0
        BY <1>3, <2>1, <4>1
      <4>3. PICK q \in Nat : 1440 = n * q
        BY <4>2, Multiples
      <4> QED
        BY <4>3
    <3>4. PICK h \in 0..24, m \in 0..59 : n = 60 * h + m
      <4>1. n \div 60 \in 0..24 /\ n % 60 \in 0..59 /\ n = 60 * (n \div 60) + (n % 60)
        BY <3>2, <3>3
      <4> QED
        BY <4>1
    <3>5. m % n = 0
      BY <1>3, <1>7, <3>4
    <3>6. m = 0
      BY <1>3, <3>2, <3>5
    <3> QED
      BY <3>4, <3>6
  <2> QED
    BY <2>1, <2>2 DEF W!FitsHours
<1> QED
  <2> HIDE DEF AtMinute
  <2> QED
    BY <1>2, <1>6, <1>7

LEMMA EveryHour ==
    ASSUME NEW n \in Nat \ {0}
    PROVE  (\A h \in 0..24, m \in 0..59, s \in 0..59 : OnHour(n, h, m, s)) <=> 24 % n = 0
<1>1. ASSUME NEW h \in 0..24, NEW m \in 0..59, NEW s \in 0..59
      PROVE  OnHour(n, h, m, s) <=> (s = 0 /\ m = 0 => ((h % 24) % n = 0 <=> h % n = 0))
  <2>1. PICK a \in Nat, b \in Nat, u \in Nat, r \in Nat :
          a = 3600 * h + 60 * m + s /\ b = n * 3600 /\ u = 3600 /\ r = 60 * m + s
    OBVIOUS
  <2>2. Parts(a, u, h, r) /\ r < u /\ Parts(b, n, u, 0) /\ (r = 0 <=> s = 0 /\ m = 0)
    BY <2>1 DEF Parts
  <2>3. a % b = 0 <=> r = 0 /\ h % n = 0
    BY <2>2, Carry
  <2> QED
    BY <2>1, <2>2, <2>3 DEF OnHour
<1>2. ASSUME 24 % n = 0, NEW h \in 0..24 PROVE (h % 24) % n = 0 <=> h % n = 0
  <2>1. CASE h = 24
    <3>1. h % 24 = 0 /\ 0 % n = 0
      BY <2>1
    <3> QED
      BY <1>2, <2>1, <3>1
  <2>2. CASE h # 24
    <3>1. h % 24 = h
      BY <2>2
    <3> QED
      BY <3>1
  <2> QED
    BY <2>1, <2>2
<1>3. ASSUME 24 % n = 0, NEW h \in 0..24, NEW m \in 0..59, NEW s \in 0..59
      PROVE  OnHour(n, h, m, s)
  BY <1>1, <1>2, <1>3
<1>4. ASSUME \A h \in 0..24, m \in 0..59, s \in 0..59 : OnHour(n, h, m, s)
      PROVE  24 % n = 0
  <2>1. 24 \in 0..24 /\ 0 \in 0..59
    OBVIOUS
  <2>2. OnHour(n, 24, 0, 0)
    BY <1>4, <2>1
  <2>3. (24 % 24) % n = 0 <=> 24 % n = 0
    BY <1>1, <2>1, <2>2
  <2>4. 24 % 24 = 0 /\ 0 % n = 0
    OBVIOUS
  <2> QED
    BY <2>3, <2>4
<1> QED
  BY <1>3, <1>4

\* The three shapes of a field, and what each of them matches.
LEMMA FieldShapes ==
    ASSUME NEW f \in Field
    PROVE  /\ W!IsEvery(f) => /\ f.n \in Nat \ {0} /\ f # W!Star /\ f # W!At(0)
                              /\ \A v : W!Matches(f, v) <=> v % f.n = 0
           /\ f = W!Star => ~W!IsEvery(f) /\ f # W!At(0) /\ \A v : W!Matches(f, v)
           /\ f = W!At(0) => ~W!IsEvery(f) /\ f # W!Star /\ \A v : W!Matches(f, v) <=> v = 0
BY DEF Field, W!IsEvery, W!Star, W!At, W!Every, W!Matches

\* A text in a unit is right for a schedule that fires at the multiples in its field
\* exactly when the step divides.
LEMMA SaysSeconds ==
    ASSUME NEW p, NEW n \in Nat \ {0}, W!describeSchedule(p) = W!Says("seconds", n), W!OpenDays(p),
           \A h, m, s : W!FiresAt(p, h, m, s) <=> s % n = 0
    PROVE  W!TextHolds(p) <=> Divides(W!Says("seconds", n))
<1>0. ASSUME NEW h \in 0..24, NEW m, NEW s
      PROVE  W!RightAt(p, W!Says("seconds", n), h, m, s) <=> OnSecond(n, h, m, s)
  BY DEF W!RightAt, W!Says, W!UnitSeconds, OnSecond
<1>1. W!TextHolds(p) <=> \A h \in 0..24, m \in 0..59, s \in 0..59 : OnSecond(n, h, m, s)
  <2>1. W!TextHolds(p) <=> \A h \in 0..24, m \in 0..59, s \in 0..59 :
                              W!RightAt(p, W!Says("seconds", n), h, m, s)
    BY DEF W!TextHolds, W!Says
  <2> QED
    BY <1>0, <2>1
<1>2. Divides(W!Says("seconds", n)) <=> 60 % n = 0
  BY DEF Divides, W!Says
<1> QED
  BY <1>1, <1>2, EverySecond

LEMMA SaysMinutes ==
    ASSUME NEW p, NEW n \in Nat \ {0}, W!describeSchedule(p) = W!Says("minutes", n), W!OpenDays(p),
           \A h, s : \A m \in 0..59 : W!FiresAt(p, h, m, s) <=> s = 0 /\ m % n = 0
    PROVE  W!TextHolds(p) <=> Divides(W!Says("minutes", n))
<1>0. ASSUME NEW h \in 0..24, NEW m \in 0..59, NEW s
      PROVE  W!RightAt(p, W!Says("minutes", n), h, m, s) <=> OnMinute(n, h, m, s)
  BY DEF W!RightAt, W!Says, W!UnitSeconds, OnMinute
<1>1. W!TextHolds(p) <=> \A h \in 0..24, m \in 0..59, s \in 0..59 : OnMinute(n, h, m, s)
  <2>1. W!TextHolds(p) <=> \A h \in 0..24, m \in 0..59, s \in 0..59 :
                              W!RightAt(p, W!Says("minutes", n), h, m, s)
    BY DEF W!TextHolds, W!Says
  <2> QED
    BY <1>0, <2>1
<1>2. Divides(W!Says("minutes", n)) <=> 60 % n = 0
  BY DEF Divides, W!Says
<1> QED
  BY <1>1, <1>2, EveryMinute

LEMMA SaysMinutesOf ==
    ASSUME NEW p, NEW hours, NEW n \in Nat \ {0}, W!describeSchedule(p) = W!Says("minutes", n),
           W!OpenDays(p), \A h, s : \A m \in 0..59 :
             W!FiresAt(p, h, m, s) <=> W!Matches(hours, h) /\ s = 0 /\ m % n = 0
    PROVE  W!TextHolds(p) <=> W!FitsHours(n, hours)
<1>0. ASSUME NEW h \in 0..24, NEW m \in 0..59, NEW s
      PROVE  W!RightAt(p, W!Says("minutes", n), h, m, s) <=> OnMinuteOf(n, hours, h, m, s)
  BY DEF W!RightAt, W!Says, W!UnitSeconds, OnMinuteOf
<1>1. W!TextHolds(p) <=>
        \A h \in 0..24, m \in 0..59, s \in 0..59 : OnMinuteOf(n, hours, h, m, s)
  <2>1. W!TextHolds(p) <=> \A h \in 0..24, m \in 0..59, s \in 0..59 :
                              W!RightAt(p, W!Says("minutes", n), h, m, s)
    BY DEF W!TextHolds, W!Says
  <2> QED
    BY <1>0, <2>1
<1> QED
  BY <1>1, EveryMinuteOf

LEMMA SaysHours ==
    ASSUME NEW p, NEW n \in Nat \ {0}, W!describeSchedule(p) = W!Says("hours", n), W!OpenDays(p),
           \A m, s : \A h \in 0..23 : W!FiresAt(p, h, m, s) <=> s = 0 /\ m = 0 /\ h % n = 0
    PROVE  W!TextHolds(p) <=> Divides(W!Says("hours", n))
<1>0. ASSUME NEW h \in 0..24, NEW m, NEW s
      PROVE  W!RightAt(p, W!Says("hours", n), h, m, s) <=> OnHour(n, h, m, s)
  BY DEF W!RightAt, W!Says, W!UnitSeconds, OnHour
<1>1. W!TextHolds(p) <=> \A h \in 0..24, m \in 0..59, s \in 0..59 : OnHour(n, h, m, s)
  <2>1. W!TextHolds(p) <=> \A h \in 0..24, m \in 0..59, s \in 0..59 :
                              W!RightAt(p, W!Says("hours", n), h, m, s)
    BY DEF W!TextHolds, W!Says
  <2> QED
    BY <1>0, <2>1
<1>2. Divides(W!Says("hours", n)) <=> 24 % n = 0
  BY DEF Divides, W!Says
<1> QED
  BY <1>1, <1>2, EveryHour

\* Days that are wild are open.
LEMMA WildDaysAreOpen == ASSUME NEW p, W!Wild(p) PROVE W!OpenDays(p)
BY DEF W!Wild, W!OpenDays

\* The English beside a schedule of six fields is when the backend fires the job,
\* exactly when the step of the text divides the next larger unit: not for "*/7".
THEOREM SixFieldsExact ==
    ASSUME NEW a \in Field, NEW b \in Field, NEW c \in Field,
           NEW d \in Field, NEW e \in Field, NEW f \in Field,
           NEW p, p = <<a, b, c, d, e, f>>
    PROVE  W!TextHolds(p) <=> Divides(W!describeSchedule(p))
<1> USE WildDaysAreOpen
<1>a. Len(p) = 6 /\ p[1] = a /\ p[2] = b /\ p[3] = c /\ p[4] = d /\ p[5] = e /\ p[6] = f
  OBVIOUS
<1>0. /\ W!describeSchedule(p) = W!DescribeSix(p)
      /\ p[1] = a /\ p[2] = b /\ p[3] = c
      /\ \A h, m, s : W!FiresAt(p, h, m, s) <=>
                         W!Matches(a, s) /\ W!Matches(b, m) /\ W!Matches(c, h)
  BY <1>a DEF W!describeSchedule, W!FiresAt, W!SixFields
<1>1. CASE W!describeSchedule(p) = W!Says("custom", 0)
  <2>0. W!describeSchedule(p).unit = "custom"
    BY <1>1 DEF W!Says
  <2>1. W!TextHolds(p)
    BY <2>0 DEF W!TextHolds
  <2>2. Divides(W!describeSchedule(p))
    BY <1>1 DEF Divides, W!Says
  <2> QED
    BY <2>1, <2>2
<1>2. CASE W!Wild(p) /\ W!IsEvery(a) /\ b = W!Star /\ c = W!Star
  <2>1. W!describeSchedule(p) = W!Says("seconds", a.n)
    BY <1>0, <1>2, FieldShapes DEF W!DescribeSix
  <2> QED
    BY <1>0, <1>2, <2>1, FieldShapes, SaysSeconds
<1>3. CASE W!Wild(p) /\ a = W!At(0) /\ W!IsEvery(b) /\ c = W!Star
  <2>1. W!describeSchedule(p) = W!Says("minutes", b.n)
    BY <1>0, <1>3, FieldShapes DEF W!DescribeSix
  <2> QED
    <3>1. \A h, s : \A m \in 0..59 : W!FiresAt(p, h, m, s) <=> s = 0 /\ m % b.n = 0
      BY <1>0, <1>3, FieldShapes
    <3>2. PICK n \in Nat \ {0} : n = b.n
      BY <1>3, FieldShapes
    <3> QED
      BY <1>3, <2>1, <3>1, <3>2, SaysMinutes
<1>4. CASE W!Wild(p) /\ a = W!At(0) /\ b = W!At(0) /\ W!IsEvery(c)
  <2>1. W!describeSchedule(p) = W!Says("hours", c.n)
    BY <1>0, <1>4, FieldShapes DEF W!DescribeSix
  <2> QED
    BY <1>0, <1>4, <2>1, FieldShapes, SaysHours
<1>5. CASE W!Wild(p) /\ a = W!At(0) /\ b = W!Star /\ c = W!Star
  <2>1. W!describeSchedule(p) = W!Says("minutes", 1)
    BY <1>0, <1>5, FieldShapes DEF W!DescribeSix
  <2> QED
    BY <1>0, <1>5, <2>1, FieldShapes, SaysMinutes
<1>6. CASE W!Wild(p) /\ a = W!At(0) /\ b = W!At(0) /\ c = W!Star
  <2>1. W!describeSchedule(p) = W!Says("hours", 1)
    BY <1>0, <1>6, FieldShapes DEF W!DescribeSix
  <2> QED
    BY <1>0, <1>6, <2>1, FieldShapes, SaysHours
<1>7. CASE W!Wild(p) /\ a = W!At(0) /\ b = W!At(0) /\ c = W!At(0)
  <2>1. W!describeSchedule(p) = W!Says("hours", 24)
    BY <1>0, <1>7, FieldShapes DEF W!DescribeSix
  <2> QED
    BY <1>0, <1>7, <2>1, FieldShapes, SaysHours
<1>8. \/ W!describeSchedule(p) = W!Says("custom", 0)
      \/ W!Wild(p) /\ W!IsEvery(a) /\ b = W!Star /\ c = W!Star
      \/ W!Wild(p) /\ a = W!At(0) /\ W!IsEvery(b) /\ c = W!Star
      \/ W!Wild(p) /\ a = W!At(0) /\ b = W!At(0) /\ W!IsEvery(c)
      \/ W!Wild(p) /\ a = W!At(0) /\ b = W!Star /\ c = W!Star
      \/ W!Wild(p) /\ a = W!At(0) /\ b = W!At(0) /\ c = W!Star
      \/ W!Wild(p) /\ a = W!At(0) /\ b = W!At(0) /\ c = W!At(0)
  BY <1>0 DEF W!DescribeSix
<1> QED
  BY <1>1, <1>2, <1>3, <1>4, <1>5, <1>6, <1>7, <1>8

\* Six fields, one by one.
LEMMA UnevenSix ==
    ASSUME NEW a \in Field, NEW b \in Field, NEW c \in Field,
           NEW d \in Field, NEW e \in Field, NEW f \in Field,
           NEW p, p = <<a, b, c, d, e, f>>
    PROVE  W!WrongWords(p) <=> ~Divides(W!describeSchedule(p))
<1>1. Len(p) = 6 /\ p[1] = a /\ p[2] = b /\ p[3] = c /\ p[4] = d /\ p[5] = e /\ p[6] = f
  OBVIOUS
<1>2. W!WrongWords(p) <=>
        \/ W!IsEvery(a) /\ 60 % a.n # 0 /\ b = W!Star /\ c = W!Star /\ W!Wild(p)
        \/ a = W!At(0) /\ W!IsEvery(b) /\ 60 % b.n # 0 /\ c = W!Star /\ W!Wild(p)
        \/ a = W!At(0) /\ b = W!At(0) /\ W!IsEvery(c) /\ 24 % c.n # 0 /\ W!Wild(p)
  <2>1. W!Wild(p) <=> d = W!Star /\ e = W!Star /\ f = W!Star
    BY <1>1 DEF W!Wild
  <2> DEFINE Uneven(k) == /\ \A x \in 1 .. k - 1 : p[x] = W!At(0)
                          /\ W!IsEvery(p[k]) /\ <<60, 60, 24>>[k] % p[k].n # 0
                          /\ \A x \in k + 1 .. 6 : p[x] = W!Star
  <2>2. Uneven(1) <=> W!IsEvery(a) /\ 60 % a.n # 0 /\ b = W!Star /\ c = W!Star /\ W!Wild(p)
    BY <1>1, <2>1
  <2>3. Uneven(2) <=> a = W!At(0) /\ W!IsEvery(b) /\ 60 % b.n # 0 /\ c = W!Star /\ W!Wild(p)
    BY <1>1, <2>1
  <2>4. Uneven(3) <=> a = W!At(0) /\ b = W!At(0) /\ W!IsEvery(c) /\ 24 % c.n # 0 /\ W!Wild(p)
    BY <1>1, <2>1
  <2>5. W!WrongWords(p) <=> \E k \in 1..3 : Uneven(k)
    BY <1>1 DEF W!WrongWords, W!UnevenStep
  <2>6. (\E k \in 1..3 : Uneven(k)) <=> Uneven(1) \/ Uneven(2) \/ Uneven(3)
    <3> HIDE DEF Uneven
    <3>1. \A k \in 1..3 : k = 1 \/ k = 2 \/ k = 3
      OBVIOUS
    <3> QED
      BY <3>1
  <2> QED
    BY <2>2, <2>3, <2>4, <2>5, <2>6
<1>3. W!describeSchedule(p) = W!DescribeSix(p)
  BY <1>1 DEF W!describeSchedule
<1>4. /\ \A n : Divides(W!Says("seconds", n)) <=> 60 % n = 0
      /\ \A n : Divides(W!Says("minutes", n)) <=> 60 % n = 0
      /\ \A n : Divides(W!Says("hours", n)) <=> 24 % n = 0
      /\ Divides(W!Says("custom", 0))
  BY DEF Divides, W!Says
<1>5. 60 % 1 = 0 /\ 24 % 1 = 0 /\ 24 % 24 = 0
  OBVIOUS
<1> QED
  <2> HIDE DEF Divides
  <2> QED
    BY <1>1, <1>2, <1>3, <1>4, <1>5, FieldShapes DEF W!DescribeSix

\* The English beside a schedule of five fields is when the backend fires the job, exactly
\* when it has no step that does not divide, and no day or hour that is not read.
THEOREM FiveFieldsExact ==
    ASSUME NEW a \in Field, NEW b \in Field, NEW c \in Field, NEW d \in Field, NEW e \in Field,
           NEW p, p = <<a, b, c, d, e>>
    PROVE  W!TextHolds(p) <=> ~W!WrongFive(p)
<1>a. Len(p) = 5 /\ p[1] = a /\ p[2] = b
  OBVIOUS
<1>b. /\ Len(<<W!At(0)>> \o p) = 6
      /\ (<<W!At(0)>> \o p)[1] = W!At(0)
      /\ (<<W!At(0)>> \o p)[2] = a /\ (<<W!At(0)>> \o p)[3] = b
  OBVIOUS
<1>0. /\ W!describeSchedule(p) = W!DescribeFive(p)
      /\ p[1] = a /\ p[2] = b
      /\ \A h, m, s : W!FiresAt(p, h, m, s) <=>
                         W!Matches(W!At(0), s) /\ W!Matches(a, m) /\ W!Matches(b, h)
  BY <1>a, <1>b DEF W!describeSchedule, W!FiresAt, W!SixFields
<1> W!At(0) \in Field
  BY DEF Field
<1> DEFINE Worded == W!IsEvery(a) \/ a = W!Star \/ (a = W!At(0) /\ (b = W!Star \/ W!IsEvery(b)))
<1>1. CASE ~Worded
  <2>1. W!describeSchedule(p).unit = "custom"
    BY <1>0, <1>1 DEF W!DescribeFive, W!Says
  <2>2. ~W!WrongFive(p)
    BY <1>0, <1>1 DEF W!WrongFive
  <2> QED
    BY <2>1, <2>2 DEF W!TextHolds
<1>2. CASE Worded /\ ~W!OpenDays(p)
  <2>1. W!describeSchedule(p).unit # "custom"
    BY <1>0, <1>2 DEF W!DescribeFive, W!Says
  <2>2. W!WrongFive(p)
    BY <1>0, <1>2 DEF W!WrongFive
  <2> QED
    BY <1>2, <2>1, <2>2 DEF W!TextHolds
<1>3. CASE W!OpenDays(p) /\ W!IsEvery(a)
  <2>1. W!describeSchedule(p) = W!Says("minutes", a.n)
    BY <1>0, <1>3, FieldShapes DEF W!DescribeFive
  <2>2. PICK n \in Nat \ {0} : n = a.n
    BY <1>3, FieldShapes
  <2>3. \A h, s : \A m \in 0..59 :
          W!FiresAt(p, h, m, s) <=> W!Matches(b, h) /\ s = 0 /\ m % n = 0
    BY <1>0, <1>3, <2>2, FieldShapes
  <2>4. W!TextHolds(p) <=> W!FitsHours(n, b)
    BY <1>3, <2>1, <2>2, <2>3, SaysMinutesOf
  <2>5. W!WrongFive(p) <=> ~W!FitsHours(n, b)
    BY <1>0, <1>3, <2>2, FieldShapes DEF W!WrongFive
  <2> QED
    BY <2>4, <2>5
<1>4. CASE W!OpenDays(p) /\ a = W!Star
  <2>1. W!describeSchedule(p) = W!Says("minutes", 1)
    BY <1>0, <1>4, FieldShapes DEF W!DescribeFive
  <2>2. \A h, s : \A m \in 0..59 :
          W!FiresAt(p, h, m, s) <=> W!Matches(b, h) /\ s = 0 /\ m % 1 = 0
    BY <1>0, <1>4, FieldShapes
  <2>3. W!TextHolds(p) <=> W!FitsHours(1, b)
    BY <1>4, <2>1, <2>2, SaysMinutesOf
  <2>4. W!WrongFive(p) <=> ~W!FitsHours(1, b)
    BY <1>0, <1>4, FieldShapes DEF W!WrongFive
  <2> QED
    BY <2>3, <2>4
<1>5. CASE W!OpenDays(p) /\ a = W!At(0) /\ W!IsEvery(b)
  <2>1. W!describeSchedule(p) = W!Says("hours", b.n)
    BY <1>0, <1>5, FieldShapes DEF W!DescribeFive
  <2>2. W!TextHolds(p) <=> 24 % b.n = 0
    BY <1>0, <1>5, <2>1, FieldShapes, SaysHours DEF Divides, W!Says
  <2>3. W!WrongFive(p) <=> 24 % b.n # 0
    BY <1>0, <1>5, FieldShapes DEF W!WrongFive
  <2> QED
    BY <2>2, <2>3
<1>6. CASE W!OpenDays(p) /\ a = W!At(0) /\ b = W!Star
  <2>1. W!describeSchedule(p) = W!Says("hours", 1)
    BY <1>0, <1>6, FieldShapes DEF W!DescribeFive
  <2>2. W!TextHolds(p)
    BY <1>0, <1>6, <2>1, FieldShapes, SaysHours DEF Divides, W!Says
  <2>3. ~W!WrongFive(p)
    BY <1>0, <1>6, FieldShapes DEF W!WrongFive
  <2> QED
    BY <2>2, <2>3
<1> QED
  BY <1>1, <1>2, <1>3, <1>4, <1>5, <1>6

\* What is typed is a schedule of six fields or of five.
SixOrFive(p) ==
    \/ \E a, b, c, d, e, f \in Field : p = <<a, b, c, d, e, f>>
    \/ \E a, b, c, d, e \in Field : p = <<a, b, c, d, e>>

\* What is claimed of such a schedule, and that the buttons hold such schedules.
LEMMA WordsAreExact == ASSUME NEW p, SixOrFive(p) PROVE W!TextHolds(p) <=> ~W!WrongWords(p)
<1>1. ASSUME NEW a \in Field, NEW b \in Field, NEW c \in Field,
             NEW d \in Field, NEW e \in Field, NEW f \in Field, p = <<a, b, c, d, e, f>>
      PROVE  W!TextHolds(p) <=> ~W!WrongWords(p)
  <2>1. W!TextHolds(p) <=> Divides(W!describeSchedule(p))
    BY <1>1, SixFieldsExact
  <2>2. W!WrongWords(p) <=> ~Divides(W!describeSchedule(p))
    BY <1>1, UnevenSix
  <2> QED
    BY <2>1, <2>2
<1>2. ASSUME NEW a \in Field, NEW b \in Field, NEW c \in Field, NEW d \in Field, NEW e \in Field,
             p = <<a, b, c, d, e>>
      PROVE  W!TextHolds(p) <=> ~W!WrongWords(p)
  <2>1. W!WrongWords(p) <=> W!WrongFive(p)
    BY <1>2 DEF W!WrongWords
  <2> QED
    BY <1>2, <2>1, FiveFieldsExact
<1> QED
  BY <1>1, <1>2 DEF SixOrFive

LEMMA PresetsHaveSix == ASSUME NEW p \in W!PRESETS PROVE SixOrFive(p)
<1>1. W!Star \in Field /\ W!At(0) \in Field /\ \A n \in {5, 10, 30} : W!Every(n) \in Field
  BY DEF Field
<1> QED
  BY <1>1 DEF W!PRESETS, SixOrFive

\* Whatever schedule of six or five fields is typed into the form, the English beside it
\* is when the backend fires the job, but for the uneven steps, the days and the hours
\* it does not read: there, and only there, it is wrong.
THEOREM FormSpeaksExactly ==
    ASSUME \A p \in Typed : SixOrFive(p) PROVE Spec => []DescribesExactly
<1> DEFINE Held == schedule \in W!PRESETS \cup Typed
<1>1. Init => Held
  BY DEF Init, W!Init, W!PRESETS
<1>2. Held /\ [Next]_vars => Held'
  <2>1. CASE OnCronForm /\ W!Next
    BY <2>1 DEF W!Next, W!setSchedule
  <2>2. CASE UNCHANGED schedule
    BY <2>2
  <2> QED
    BY <2>1, <2>2
       DEF Next, OnPanels, OnCronPanel, OnSubmission, OnLearn, OnFollowers, OnTutorial, vars
<1>3. Held => DescribesExactly
  BY PresetsHaveSix, WordsAreExact DEF DescribesExactly, W!DescribesExactly
<1> QED
  BY <1>1, <1>2, <1>3, PTL DEF Spec
=============================================================================
