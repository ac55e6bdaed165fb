------------------------------- MODULE Panels -------------------------------
(***************************************************************************)
(* The read-only panels of the playground: each polls one or two endpoints   *)
(* on timers of its own and draws what the last answer said.  Panels share   *)
(* no state in the browser, so a behaviour follows one of them, while the    *)
(* cluster it looks at changes, requests fail, answers overtake each other   *)
(* and the user leaves the page and comes back.                              *)
(***************************************************************************)
EXTENDS FiniteSets, SequencesExt, ApiTypes, Polling

CONSTANTS
    MaxOutages    \* bound on the polls that fail

VARIABLES
    panel,     \* the panel this behaviour follows
    mounted,   \* its page is open
    now,       \* the version of the server's state
    mode,      \* the log's filter, "all" or "cluster"
    pollers,   \* the pollers of the panel
    outages    \* polls that failed so far

vars == <<panel, mounted, now, mode, pollers, outages>>

\* The panels of the page that only read.
PagePanels == {"flow", "metrics", "nodes", "queues", "log", "failed"}

\* Mutant: the first fetcher is polled for ever.
LogEndpointOfFirstRender(m) == "events"

LogEndpoint(m) == IF m = "cluster" THEN "cluster" ELSE "events"

\* The endpoints of a panel, one poller each.
Polls(p, m) ==
    CASE p = "nodes" -> <<"nodes", "leader">>
      [] p = "log" -> <<LogEndpoint(m)>>
      [] p = "queues" -> <<"queues">>
      [] p = "failed" -> <<"failed">>
      [] p \in {"flow", "metrics"} -> <<"enhanced">>

Fresh(p, m) == [k \in DOMAIN Polls(p, m) |-> Mounted(Polls(p, m)[k])]

TypeOK ==
    /\ panel \in PagePanels /\ mounted \in BOOLEAN
    /\ now \in DOMAIN History /\ mode \in {"all", "cluster"}
    /\ outages \in 0..MaxOutages
    /\ DOMAIN pollers = DOMAIN Polls(panel, mode)
    /\ \A k \in DOMAIN pollers :
         /\ pollers[k].error \in BOOLEAN
         /\ pollers[k].data.at \in 0..now
         /\ \A s \in Slot : pollers[k].calls[s].at \in 0..now

Init ==
    /\ panel \in PagePanels /\ mounted = TRUE
    /\ now = 1 /\ mode = "all" /\ outages = 0
    /\ pollers = Fresh(panel, mode)
-----------------------------------------------------------------------------
\* The cluster moves on.
Advance ==
    /\ now < Len(History)
    /\ now' = now + 1
    /\ UNCHANGED <<panel, mounted, mode, pollers, outages>>

\* The interval fires, whatever is still out.
Tick(k) ==
    /\ mounted
    /\ FreeSlots(pollers[k]) # {}
    /\ pollers' = [pollers EXCEPT ![k] = Poll(@, Polls(panel, mode)[k])]
    /\ UNCHANGED <<panel, mounted, now, mode, outages>>

\* A request reaches the server, or is lost: only the moment of the read counts.
Answer(k, outcome) ==
    /\ outcome # "ok" => outages < MaxOutages
    /\ \E s \in Waiting(pollers[k]) :
         pollers' = [pollers EXCEPT ![k] = Serve(@, s, outcome, now)]
    /\ outages' = IF outcome = "ok" THEN outages ELSE outages + 1
    /\ UNCHANGED <<panel, mounted, now, mode>>

Deliver(k) ==
    /\ \E s \in Arrived(pollers[k]) : pollers' = [pollers EXCEPT ![k] = Settle(@, s)]
    /\ UNCHANGED <<panel, mounted, now, mode, outages>>

\* A click on a tab of the log.  Requests of the other tab stay out.
SetMode(m) ==
    /\ panel = "log" /\ mounted
    /\ mode' = m
    /\ UNCHANGED <<panel, mounted, now, pollers, outages>>

\* Another page opens: the timer is cleared, and what is still out sets the
\* state of a component that is gone.
Leave ==
    /\ mounted
    /\ mounted' = FALSE
    /\ mode' = "all"
    /\ pollers' = [k \in DOMAIN pollers |-> Idle]
    /\ UNCHANGED <<panel, now, outages>>

Return ==
    /\ ~mounted
    /\ mounted' = TRUE
    /\ pollers' = Fresh(panel, mode)
    /\ UNCHANGED <<panel, now, mode, outages>>

Next ==
    \/ Advance \/ Leave \/ Return
    \/ \E m \in {"all", "cluster"} : SetMode(m)
    \/ \E k \in DOMAIN pollers :
         \/ Tick(k) \/ Deliver(k)
         \/ \E outcome \in {"ok", "refused", "garbled"} : Answer(k, outcome)

Spec == Init /\ [][Next]_vars
-----------------------------------------------------------------------------
(* What the panels draw.                                                    *)

Data(k) == pollers[k].data

\* The answer an endpoint's data stands for, or what the panel takes instead.
Payload(k, field, default) ==
    IF Data(k).at = 0 THEN default ELSE History[Data(k).at][field]

\* The panels that look at the error put it before the data they still hold.
Shows ==
    CASE pollers[1].error -> "unavailable"
      [] ~pollers[1].error /\ Data(1) = Nothing -> "skeleton"
      [] OTHER -> "content"

StatCards(m) ==
    <<m.total_processed, m.total_failed, m.total_retries, m.queue_size, m.active_workers,
      m.delayed_queue_size, m.dead_letter_size, m.total_submitted, m.success_rate>>

FlowStages(m) ==
    [stages |-> <<m.total_submitted, m.delayed_queue_size, m.queue_size, m.active_workers>>,
     outcomes |-> <<m.total_processed, m.total_retries, m.dead_letter_size>>]

FailedRows(list) ==
    [i \in DOMAIN list |-> [id |-> list[i].task.id,
                            attempts |-> list[i].task.retries + 1,
                            of |-> list[i].task.max_retries + 1]]

QueueRows(q) == [ready |-> [i \in DOMAIN q.ready |-> q.ready[i].id],
                 delayed |-> [i \in DOMAIN q.delayed |-> q.delayed[i].task.id]]

MAX_DOTS == 12
AtMost(a, b) == IF a < b THEN a ELSE b

\* A dot for each executor up to MAX_DOTS, the busy ones first.
WorkerSlots(capacity, inFlight) ==
    [busy |-> AtMost(inFlight, capacity),
     dots |-> [i \in 1..AtMost(capacity, MAX_DOTS) |-> i <= AtMost(inFlight, capacity)],
     more |-> IF capacity > MAX_DOTS THEN capacity - MAX_DOTS ELSE 0]

NodeCard(n, isLeader) ==
    [id |-> n.id, crown |-> isLeader /\ n.alive, badge |-> IF n.alive THEN "alive" ELSE "dead",
     slots |-> WorkerSlots(IF n.alive THEN n.capacity ELSE 0, n.in_flight_tasks),
     line |-> CASE n.alive -> "workers"
                [] ~n.alive /\ n.in_flight_tasks > 0 -> "reclaiming"
                [] OTHER -> "awaiting reap"]

\* Alive first, then by ID.
SortedNodes(nodes) ==
    SetToSortSeq(nodes, LAMBDA a, b : IF a.alive # b.alive THEN a.alive ELSE a.id < b.id)

NodeBusy(n) ==
    IF ~n.alive THEN 0
    ELSE AtMost(n.in_flight_tasks, IF n.capacity = 0 THEN n.in_flight_tasks ELSE n.capacity)

NodePanel(nodes, leaderId) ==
    [cards |-> [i \in 1..Cardinality(nodes) |->
                  LET n == SortedNodes(nodes)[i] IN
                  NodeCard(n, leaderId # 0 /\ n.id = leaderId)],
     alive |-> Cardinality({n \in nodes : n.alive}),
     busy |-> FoldSet(LAMBDA n, sum : sum + NodeBusy(n), 0, nodes)]

\* Event IDs may collide: a repeated one gets the number of its occurrence.
RowKeys(events) ==
    [i \in DOMAIN events |->
        <<events[i].id, Cardinality({j \in 1..i : events[j].id = events[i].id})>>]
-----------------------------------------------------------------------------
(* What the cluster looks like, and what a panel must come to show of it.   *)

Truth == History[now]

NodesMatch ==
    LET drawn == NodePanel(Payload(1, "nodes", {}), Payload(2, "leader", 0))
        cards == ToSet(drawn.cards)
    IN /\ {c.id : c \in cards} = {n.id : n \in Truth.nodes}
       /\ {c.id : c \in {c \in cards : c.crown}} =
              {n.id : n \in {n \in Truth.nodes : n.alive /\ n.id = Truth.leader}}
       /\ \A i, j \in DOMAIN drawn.cards :
            drawn.cards[i].badge = "dead" /\ drawn.cards[j].badge = "alive" => j < i
       /\ drawn.busy = FoldSet(LAMBDA c, sum : sum + c.slots.busy, 0, cards)
       /\ \A c \in cards :
            \A n \in Truth.nodes : c.id = n.id =>
              (c.line = "reclaiming" <=> ~n.alive /\ n.in_flight_tasks > 0)

LogMatches ==
    LET events == Payload(1, Data(1).of, <<>>) IN
       /\ events = IF mode = "cluster" THEN Truth.cluster ELSE Truth.events
       /\ IsInjective(RowKeys(events))

NumbersMatch ==
    /\ Shows = "content"
    /\ panel = "metrics" =>
         StatCards(Payload(1, "enhanced", Truth.enhanced)) = StatCards(Truth.enhanced)
    /\ panel = "flow" =>
         FlowStages(Payload(1, "enhanced", Truth.enhanced)) = FlowStages(Truth.enhanced)
    /\ panel = "failed" =>
         FailedRows(Payload(1, "failed", <<>>)) = FailedRows(Truth.failed)

\* A panel shows the cluster as it is.
Faithful ==
    CASE panel = "nodes" -> NodesMatch
      [] panel = "log" -> LogMatches
      [] panel = "queues" ->
           QueueRows(Payload(1, "queues", [ready |-> <<>>, delayed |-> <<>>])) = QueueRows(Truth.queues)
      [] OTHER -> NumbersMatch

\* However answers overtook each other, requests failed and the page was left,
\* a panel that stays open comes to show the cluster as it is and goes on doing
\* so: no late answer, old error or answer to the other tab stays on the screen.
PanelsSettle ==
    \A m \in {"all", "cluster"} : <>[](mounted /\ mode = m) => <>[]Faithful
=============================================================================
