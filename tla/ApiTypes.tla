------------------------------ MODULE ApiTypes ------------------------------
(***************************************************************************)
(* The types of the read API as the dashboard declares them, down to the     *)
(* fields that decide what is drawn, and what the endpoints answer while the *)
(* cluster changes.                                                          *)
(***************************************************************************)
EXTENDS Naturals, Sequences

CONSTANTS
    History   \* the answers of the endpoints, version after version

Elements(list) == {list[i] : i \in DOMAIN list}

ID == Nat \ {0}

TaskInfo == [id : ID, priority : 1..10, retries : Nat, max_retries : Nat]

TaskFailure == [task : TaskInfo, reason : STRING]

TaskEvent == [id : ID, type : {"submitted", "started", "completed", "failed", "retrying",
                               "dead_lettered", "promoted", "reclaimed", "node_joined",
                               "node_dead", "redriven"}]

NodeInfo == [id : ID, capacity : Nat, alive : BOOLEAN, in_flight_tasks : Nat]

QueueSnapshot == [ready : Seq(TaskInfo), delayed : Seq([task : TaskInfo, execute_at : Nat])]

EnhancedMetrics ==
    [total_processed : Nat, total_failed : Nat, total_retries : Nat, queue_size : Nat,
     active_workers : Nat, success_rate : 0..100, delayed_queue_size : Nat,
     dead_letter_size : Nat, total_submitted : Nat]

\* "leader" is 0 when nobody leads.
Snapshot == [nodes : SUBSET NodeInfo, leader : Nat, events : Seq(TaskEvent),
             cluster : Seq(TaskEvent), enhanced : EnhancedMetrics, queues : QueueSnapshot,
             failed : Seq(TaskFailure)]

ASSUME HistoryIsTyped ==
    /\ DOMAIN History = 1..Len(History) /\ Len(History) > 0
    /\ \A v \in DOMAIN History :
         /\ DOMAIN History[v] = {"nodes", "leader", "events", "cluster", "enhanced", "queues", "failed"}
         /\ \A n \in History[v].nodes : n \in NodeInfo
         /\ \A n, m \in History[v].nodes : n.id = m.id => n = m
         /\ \A e \in Elements(History[v].events) \cup Elements(History[v].cluster) : e \in TaskEvent
         /\ History[v].leader \in Nat
         /\ History[v].enhanced \in EnhancedMetrics
         /\ History[v].queues \in QueueSnapshot
         /\ \A f \in Elements(History[v].failed) : f \in TaskFailure
=============================================================================
