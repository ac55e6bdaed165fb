---------------------------- MODULE LeaseQueue ----------------------------
(***************************************************************************)
(* The lease-based task queue: the Redis structures every process shares   *)
(* (task records, the ready, delayed and processing sets, the per-node     *)
(* in-flight sets and the dead-letter list) and the processes that move a  *)
(* task between them: worker goroutines, reapers, the delayed scheduler,   *)
(* submitting clients and the redrive endpoint.                            *)
(*                                                                         *)
(* One action is one Redis round trip: a Lua script is atomic, and two     *)
(* calls of one Go function are two actions with every interleaving        *)
(* between them.  Time is abstracted: a lease may pass its deadline at any *)
(* moment (Expire), a delay may elapse at any moment (Promote).            *)
(***************************************************************************)
EXTENDS Integers

CONSTANTS
    Task,        \* task identifiers
    Node,        \* broker node identities, one for each process
    Worker,      \* worker goroutines
    Reaper,      \* processes running the reaper loop (two: split brain)
    Client,      \* submit requests
    Admin,       \* redrive requests
    NodeOf,      \* the node a worker goroutine belongs to
    IdOf,        \* the task ID a submit request carries
    Priority,    \* the priority of a task (its score is -priority)
    MaxRetries,  \* max_retries of the tasks
    Faults,      \* which of "crash", "redis", "slow" and "stall" may happen
    None         \* no task, no node, no worker: the empty string of the code

ASSUME TypesOfConstants ==
    /\ NodeOf \in [Worker -> Node]
    /\ IdOf \in [Client -> Task]
    /\ Priority \in [Task -> Int]
    /\ MaxRetries \in Nat
    /\ None \notin Task \cup Node \cup Worker

VARIABLES
    rec,         \* the task hashes: status, retries and owner
    ready,       \* the ready ZSET
    delayed,     \* the delayed ZSET
    processing,  \* the processing ZSET
    expired,     \* the leases in processing whose deadline has passed
    nodeTasks,   \* node -> its in-flight SET
    dlq,         \* the dead-letter list: snapshots of failed tasks
    wpc, held,   \* a worker: its next call and its copy of the task
    rpc, todo, snap,  \* a reaper: next call, IDs left, copy of the record
    cpc,         \* a submit request: its next call
    apc, batch, cur,  \* a redrive: next call, drained entries, current one
    dropped,     \* auxiliary: tasks whose carrier failed holding them
    holder       \* auxiliary: the worker that took a task's current lease

redis == <<rec, ready, delayed, processing, expired, nodeTasks, dlq>>
worker == <<wpc, held>>
reaper == <<rpc, todo, snap>>
admin == <<apc, batch, cur>>
vars == <<redis, worker, reaper, cpc, admin, dropped, holder>>
-----------------------------------------------------------------------------
Status == {"none", "pending", "processing", "completed", "failed"}
Record == [status : Status, retries : 0..MaxRetries, owner : Node \cup {None}]
Absent == [status |-> "none", retries |-> 0, owner |-> None]
Fresh == [status |-> "pending", retries |-> 0, owner |-> None]

\* The worker's in-memory model.Task.
Copy == [id : Task \cup {None}, retries : 0..MaxRetries, owner : Node \cup {None}]
NoCopy == [id |-> None, retries |-> 0, owner |-> None]

\* A dead-letter entry, and the record a reaper or a redrive works from.
Entry == [id : Task \cup {None}, owner : Node \cup {None}]
NoEntry == [id |-> None, owner |-> None]

TypeOK ==
    /\ rec \in [Task -> Record]
    /\ ready \subseteq Task /\ delayed \subseteq Task
    /\ processing \subseteq Task /\ expired \subseteq processing
    /\ nodeTasks \in [Node -> SUBSET Task]
    /\ dlq \subseteq Entry
    /\ wpc \in [Worker -> {"idle", "hydrate", "work", "ack", "nack", "save",
                            "schedule", "bury", "dead"}]
    /\ held \in [Worker -> Copy]
    /\ \A w \in Worker : wpc[w] \notin {"idle", "dead"} => held[w].id \in Task
    /\ rpc \in [Reaper -> {"idle", "get", "script", "push", "dead"}]
    /\ todo \in [Reaper -> SUBSET Task]
    /\ snap \in [Reaper -> Entry]
    /\ \A r \in Reaper : rpc[r] \in {"script", "push"} => snap[r].id \in Task
    /\ cpc \in [Client -> {"start", "save", "queue", "created", "conflict", "failed"}]
    /\ apc \in [Admin -> {"idle", "drain", "save", "enqueue"}]
    /\ batch \in [Admin -> SUBSET Entry]
    /\ cur \in [Admin -> Entry]
    /\ \A a \in Admin : apc[a] = "enqueue" => cur[a] \in batch[a]
    /\ \A e \in dlq : e.id \in Task
    /\ \A a \in Admin : \A e \in batch[a] : e.id \in Task
    /\ dropped \subseteq Task
    /\ holder \in [Task -> Worker \cup {None}]

Init ==
    /\ rec = [t \in Task |-> Absent]
    /\ ready = {} /\ delayed = {} /\ processing = {} /\ expired = {}
    /\ nodeTasks = [n \in Node |-> {}]
    /\ dlq = {}
    /\ wpc = [w \in Worker |-> "idle"] /\ held = [w \in Worker |-> NoCopy]
    /\ rpc = [r \in Reaper |-> "idle"] /\ todo = [r \in Reaper |-> {}]
    /\ snap = [r \in Reaper |-> NoEntry]
    /\ cpc = [c \in Client |-> "start"]
    /\ apc = [a \in Admin |-> "idle"] /\ batch = [a \in Admin |-> {}]
    /\ cur = [a \in Admin |-> NoEntry]
    /\ dropped = {}
    /\ holder = [t \in Task |-> None]
-----------------------------------------------------------------------------
(* SubmitTask: Exists, Save, then Enqueue or Schedule.                      *)

SubmitExists(c) ==
    /\ cpc[c] = "start"
    /\ cpc' = [cpc EXCEPT ![c] =
                 IF rec[IdOf[c]].status = "none" THEN "save" ELSE "conflict"]
    /\ UNCHANGED <<redis, worker, reaper, admin, dropped, holder>>

SubmitSave(c) ==
    /\ cpc[c] = "save"
    /\ rec' = [rec EXCEPT ![IdOf[c]] = Fresh]
    /\ cpc' = [cpc EXCEPT ![c] = "queue"]
    /\ UNCHANGED <<ready, delayed, processing, expired, nodeTasks, dlq, worker,
                   reaper, admin, dropped, holder>>

SubmitEnqueue(c) ==
    /\ cpc[c] = "queue"
    /\ ready' = ready \cup {IdOf[c]}
    /\ cpc' = [cpc EXCEPT ![c] = "created"]
    /\ UNCHANGED <<rec, delayed, processing, expired, nodeTasks, dlq, worker,
                   reaper, admin, dropped, holder>>

SubmitSchedule(c) ==
    /\ cpc[c] = "queue"
    /\ delayed' = delayed \cup {IdOf[c]}
    /\ cpc' = [cpc EXCEPT ![c] = "created"]
    /\ UNCHANGED <<rec, ready, processing, expired, nodeTasks, dlq, worker,
                   reaper, admin, dropped, holder>>

\* promote.lua, one iteration of its loop: which of the delayed tasks are due
\* is left open, and so is how many of them one tick takes.
Promote(t) ==
    /\ t \in delayed
    /\ delayed' = delayed \ {t}
    /\ ready' = ready \cup {t}
    /\ UNCHANGED <<rec, processing, expired, nodeTasks, dlq, worker, reaper, cpc,
                   admin, dropped, holder>>
-----------------------------------------------------------------------------
(* A worker goroutine: Dequeue, Execute, Ack or Nack, handleFailure.        *)

\* ZPOPMIN: among the tasks of the highest priority the code takes the
\* smallest ID; the model takes any.
Best == {t \in ready : \A u \in ready : Priority[u] <= Priority[t]}

\* Mutant: the pop of PriorityQueue.Dequeue, which leases nothing.
LeaseNothing(w, t) ==
    /\ ready' = ready \ {t}
    /\ rec' = [rec EXCEPT ![t].status = "processing", ![t].owner = NodeOf[w]]
    /\ nodeTasks' = [nodeTasks EXCEPT ![NodeOf[w]] = @ \cup {t}]
    /\ holder' = [holder EXCEPT ![t] = w]
    /\ UNCHANGED <<processing, expired>>

\* Mutant: the owner field is left to the in-flight set of the node.
LeaseUnowned(w, t) ==
    /\ ready' = ready \ {t}
    /\ processing' = processing \cup {t}
    /\ expired' = expired \ {t}
    /\ rec' = [rec EXCEPT ![t].status = "processing"]
    /\ nodeTasks' = [nodeTasks EXCEPT ![NodeOf[w]] = @ \cup {t}]
    /\ holder' = [holder EXCEPT ![t] = w]

\* dequeue.lua with w as the caller: t leaves ready for processing.
Lease(w, t) ==
    /\ ready' = ready \ {t}
    /\ processing' = processing \cup {t}
    /\ expired' = expired \ {t}
    /\ rec' = [rec EXCEPT ![t].status = "processing", ![t].owner = NodeOf[w]]
    /\ nodeTasks' = [nodeTasks EXCEPT ![NodeOf[w]] = @ \cup {t}]
    /\ holder' = [holder EXCEPT ![t] = w]

Idle(w) == /\ wpc' = [wpc EXCEPT ![w] = "idle"]
           /\ held' = [held EXCEPT ![w] = NoCopy]

Dequeue(w) ==
    /\ wpc[w] = "idle"
    /\ \E t \in Best :
         /\ Lease(w, t)
         /\ held' = [held EXCEPT ![w] = [NoCopy EXCEPT !.id = t]]
    /\ wpc' = [wpc EXCEPT ![w] = "hydrate"]
    /\ UNCHANGED <<delayed, dlq, reaper, cpc, admin, dropped>>

\* tasks.Get after the script; the record may have changed in between.
Hydrate(w) ==
    /\ wpc[w] = "hydrate"
    /\ LET t == held[w].id IN
         held' = [held EXCEPT ![w] =
                    [id |-> t, retries |-> rec[t].retries, owner |-> rec[t].owner]]
    /\ wpc' = [wpc EXCEPT ![w] = "work"]
    /\ UNCHANGED <<redis, reaper, cpc, admin, dropped, holder>>

\* The handler returns, with or without an error.
Work(w) ==
    /\ wpc[w] = "work"
    /\ \E next \in {"ack", "nack"} : wpc' = [wpc EXCEPT ![w] = next]
    /\ UNCHANGED <<redis, held, reaper, cpc, admin, dropped, holder>>

\* Mutants: the scripts without the owner fence, and without any guard.
LeaseAnyones(w) == held[w].id \in processing
LeaseAssumed(w) == TRUE

\* The guard ack.lua and nack.lua share: the lease exists and is this node's.
LeaseHeld(w) == /\ held[w].id \in processing
                /\ rec[held[w].id].owner = NodeOf[w]

\* Mutant: the ZREM is forgotten.
UnleaseIndexOnly(t, n) ==
    /\ nodeTasks' = [m \in Node |-> IF m = n THEN nodeTasks[m] \ {t} ELSE nodeTasks[m]]
    /\ holder' = [holder EXCEPT ![t] = None]
    /\ UNCHANGED <<processing, expired>>

\* What ack.lua, nack.lua and reclaim.lua all do first: t leaves processing
\* and the in-flight set of node n (no set when n is the empty owner).
Unlease(t, n) ==
    /\ processing' = processing \ {t}
    /\ expired' = expired \ {t}
    /\ nodeTasks' = [m \in Node |-> IF m = n THEN nodeTasks[m] \ {t} ELSE nodeTasks[m]]
    /\ holder' = [holder EXCEPT ![t] = None]

Ack(w) ==
    /\ wpc[w] = "ack"
    /\ LeaseHeld(w)
    /\ Unlease(held[w].id, NodeOf[w])
    /\ rec' = [rec EXCEPT ![held[w].id].status = "completed", ![held[w].id].owner = None]
    /\ Idle(w)
    /\ UNCHANGED <<ready, delayed, dlq, reaper, cpc, admin, dropped>>

Nack(w) ==
    /\ wpc[w] = "nack"
    /\ LeaseHeld(w)
    /\ Unlease(held[w].id, NodeOf[w])
    /\ wpc' = [wpc EXCEPT ![w] = "save"]
    /\ UNCHANGED <<rec, ready, delayed, dlq, held, reaper, cpc, admin, dropped>>

\* Either script returned 0: ErrLeaseNotHeld, no routing.
LeaseNotHeld(w) ==
    /\ wpc[w] \in {"ack", "nack"}
    /\ ~LeaseHeld(w)
    /\ Idle(w)
    /\ UNCHANGED <<redis, reaper, cpc, admin, dropped, holder>>

\* Mutant: one retry too many.
CanRetryOnceMore(retries) == retries <= MaxRetries

CanRetry(retries) == retries < MaxRetries

\* handleFailure decides on the copy read at dequeue, and saves it whole.
SaveRetry(w) ==
    /\ wpc[w] = "save"
    /\ CanRetry(held[w].retries)
    /\ held' = [held EXCEPT ![w].retries = @ + 1]
    /\ rec' = [rec EXCEPT ![held[w].id] =
                 [status |-> "pending", retries |-> held[w].retries + 1,
                  owner |-> held[w].owner]]
    /\ wpc' = [wpc EXCEPT ![w] = "schedule"]
    /\ UNCHANGED <<ready, delayed, processing, expired, nodeTasks, dlq, reaper, cpc,
                   admin, dropped, holder>>

SaveFailed(w) ==
    /\ wpc[w] = "save"
    /\ ~CanRetry(held[w].retries)
    /\ rec' = [rec EXCEPT ![held[w].id] =
                 [status |-> "failed", retries |-> held[w].retries,
                  owner |-> held[w].owner]]
    /\ wpc' = [wpc EXCEPT ![w] = "bury"]
    /\ UNCHANGED <<ready, delayed, processing, expired, nodeTasks, dlq, held, reaper,
                   cpc, admin, dropped, holder>>

ScheduleRetry(w) ==
    /\ wpc[w] = "schedule"
    /\ delayed' = delayed \cup {held[w].id}
    /\ Idle(w)
    /\ UNCHANGED <<rec, ready, processing, expired, nodeTasks, dlq, reaper, cpc,
                   admin, dropped, holder>>

Bury(w) ==
    /\ wpc[w] = "bury"
    /\ dlq' = dlq \cup {[id |-> held[w].id, owner |-> held[w].owner]}
    /\ Idle(w)
    /\ UNCHANGED <<rec, ready, delayed, processing, expired, nodeTasks, reaper, cpc,
                   admin, dropped, holder>>
-----------------------------------------------------------------------------
(* The reaper: scan, then for each ID a read of the record and reclaim.lua. *)

\* A lease's deadline passes.
Expire(t) ==
    /\ t \in processing \ expired
    /\ expired' = expired \cup {t}
    /\ UNCHANGED <<rec, ready, delayed, processing, nodeTasks, dlq, worker, reaper,
                   cpc, admin, dropped, holder>>

Scan(r, ids) ==
    /\ rpc[r] = "idle"
    /\ ids # {}
    /\ todo' = [todo EXCEPT ![r] = ids]
    /\ rpc' = [rpc EXCEPT ![r] = "get"]
    /\ UNCHANGED <<redis, worker, snap, cpc, admin, dropped, holder>>

\* Mutant: a scan that overlooks the tasks with no retry left.
ScanRetryable(r) == Scan(r, {t \in expired : rec[t].retries < MaxRetries})

\* reap: ZRANGEBYSCORE processing -inf now.
ScanLeases(r) == Scan(r, expired)

\* reapDeadNodes on the first sight of n's lapsed heartbeat: a stall or a
\* network fault may make any node miss its heartbeat TTL.
ScanNode(r, n) == "stall" \in Faults /\ Scan(r, nodeTasks[n])

\* NodeStore.Remove after the grace window, and Deregister: the in-flight set
\* of n is deleted.
PruneNode(n) ==
    /\ "stall" \in Faults
    /\ nodeTasks[n] # {}
    /\ nodeTasks' = [nodeTasks EXCEPT ![n] = {}]
    /\ UNCHANGED <<rec, ready, delayed, processing, expired, dlq, worker, reaper, cpc,
                   admin, dropped, holder>>

ReaperGet(r) ==
    /\ rpc[r] = "get"
    /\ \E t \in todo[r] :
         /\ todo' = [todo EXCEPT ![r] = @ \ {t}]
         /\ snap' = [snap EXCEPT ![r] = [id |-> t, owner |-> rec[t].owner]]
    /\ rpc' = [rpc EXCEPT ![r] = "script"]
    /\ UNCHANGED <<redis, worker, cpc, admin, dropped, holder>>

\* reclaimTask is over: on to the next ID of the scan.
NextId(r) ==
    /\ rpc' = [rpc EXCEPT ![r] = IF todo[r] = {} THEN "idle" ELSE "get"]
    /\ snap' = [snap EXCEPT ![r] = NoEntry]
    /\ UNCHANGED todo

LostRace(r) ==
    /\ rpc[r] = "script"
    /\ snap[r].id \notin processing
    /\ NextId(r)
    /\ UNCHANGED <<redis, worker, cpc, admin, dropped, holder>>

\* The script checks membership in processing, not the deadline nor the owner;
\* the in-flight set it clears is that of the owner read by ReaperGet.
Reclaim(r) ==
    LET t == snap[r].id IN
    /\ rpc[r] = "script"
    /\ t \in processing
    /\ CanRetry(rec[t].retries)
    /\ Unlease(t, snap[r].owner)
    /\ rec' = [rec EXCEPT ![t] = [status |-> "pending", retries |-> @.retries + 1,
                                  owner |-> None]]
    /\ ready' = ready \cup {t}
    /\ NextId(r)
    /\ UNCHANGED <<delayed, dlq, worker, cpc, admin, dropped>>

\* Mutant: the record is released and not marked.
MarkReleased(record) == [record EXCEPT !.owner = None]

MarkFailed(record) == [record EXCEPT !.status = "failed", !.owner = None]

DeadLetter(r) ==
    LET t == snap[r].id IN
    /\ rpc[r] = "script"
    /\ t \in processing
    /\ ~CanRetry(rec[t].retries)
    /\ Unlease(t, snap[r].owner)
    /\ rec' = [rec EXCEPT ![t] = MarkFailed(@)]
    /\ rpc' = [rpc EXCEPT ![r] = "push"]
    /\ UNCHANGED <<ready, delayed, dlq, worker, todo, snap, cpc, admin, dropped>>

ReaperPush(r) ==
    /\ rpc[r] = "push"
    /\ dlq' = dlq \cup {snap[r]}
    /\ NextId(r)
    /\ UNCHANGED <<rec, ready, delayed, processing, expired, nodeTasks, worker, cpc,
                   admin, dropped, holder>>
-----------------------------------------------------------------------------
(* RedriveFailed: DrainAll pops every entry, then Save and Enqueue each.    *)

DrainPop(a) ==
    /\ apc[a] \in {"idle", "drain"}
    /\ \E e \in dlq :
         /\ dlq' = dlq \ {e}
         /\ batch' = [batch EXCEPT ![a] = @ \cup {e}]
    /\ apc' = [apc EXCEPT ![a] = "drain"]
    /\ UNCHANGED <<rec, ready, delayed, processing, expired, nodeTasks, worker, reaper,
                   cpc, cur, dropped, holder>>

DrainEnd(a) ==
    /\ apc[a] = "drain"
    /\ dlq = {}
    /\ apc' = [apc EXCEPT ![a] = "save"]
    /\ UNCHANGED <<redis, worker, reaper, cpc, batch, cur, dropped, holder>>

RedriveSave(a) ==
    /\ apc[a] = "save"
    /\ \E e \in batch[a] :
         /\ rec' = [rec EXCEPT ![e.id] = [Fresh EXCEPT !.owner = e.owner]]
         /\ cur' = [cur EXCEPT ![a] = e]
    /\ apc' = [apc EXCEPT ![a] = "enqueue"]
    /\ UNCHANGED <<ready, delayed, processing, expired, nodeTasks, dlq, worker, reaper,
                   cpc, batch, dropped, holder>>

\* The entry is done with: on to the next one of the batch.
NextEntry(a, e) ==
    /\ batch' = [batch EXCEPT ![a] = @ \ {e}]
    /\ apc' = [apc EXCEPT ![a] = IF batch[a] = {e} THEN "idle" ELSE "save"]
    /\ cur' = [cur EXCEPT ![a] = NoEntry]

RedriveEnqueue(a) ==
    /\ apc[a] = "enqueue"
    /\ ready' = ready \cup {cur[a].id}
    /\ NextEntry(a, cur[a])
    /\ UNCHANGED <<rec, delayed, processing, expired, nodeTasks, dlq, worker, reaper,
                   cpc, dropped, holder>>
-----------------------------------------------------------------------------
(* What goes wrong.  A process dies ("crash"), a Redis call returns an      *)
(* error ("redis": the connection broke or the request context of the API   *)
(* ended), a handler outlasts the drain timeout ("slow") or a node misses   *)
(* its heartbeats ("stall").  A task the failing process carried between    *)
(* two calls is in no queue any more: it is dropped.                        *)

\* The worker has released the lease and not yet queued the task again.
Routing(w) == wpc[w] \in {"save", "schedule", "bury"}
Drop(t) == dropped' = dropped \cup {t}

\* The worker process dies; a restarted one has a new node ID.
CrashNode(n) ==
    LET mine == {w \in Worker : NodeOf[w] = n} IN
    /\ "crash" \in Faults
    /\ \E w \in mine : wpc[w] # "dead"
    /\ wpc' = [w \in Worker |-> IF w \in mine THEN "dead" ELSE wpc[w]]
    /\ held' = [w \in Worker |-> IF w \in mine THEN NoCopy ELSE held[w]]
    /\ dropped' = dropped \cup {held[w].id : w \in {v \in mine : Routing(v)}}
    /\ UNCHANGED <<redis, reaper, cpc, admin, holder>>

\* The leader dies; the next one is another process.
CrashReaper(r) ==
    /\ "crash" \in Faults
    /\ rpc[r] # "dead"
    /\ rpc' = [rpc EXCEPT ![r] = "dead"]
    /\ todo' = [todo EXCEPT ![r] = {}]
    /\ snap' = [snap EXCEPT ![r] = NoEntry]
    /\ dropped' = IF rpc[r] = "push" THEN dropped \cup {snap[r].id} ELSE dropped
    /\ UNCHANGED <<redis, worker, cpc, admin, holder>>

\* A submit request ends early: a call failed, the client went away or the
\* server died.
SubmitFails(c) ==
    /\ Faults \cap {"crash", "redis"} # {}
    /\ cpc[c] \in {"start", "save", "queue"}
    /\ cpc' = [cpc EXCEPT ![c] = "failed"]
    /\ dropped' = IF cpc[c] = "queue" THEN dropped \cup {IdOf[c]} ELSE dropped
    /\ UNCHANGED <<redis, worker, reaper, admin, holder>>

\* The redrive request ends early: what it drained is gone.
RedriveFails(a) ==
    /\ Faults \cap {"crash", "redis"} # {}
    /\ apc[a] # "idle"
    /\ apc' = [apc EXCEPT ![a] = "idle"]
    /\ batch' = [batch EXCEPT ![a] = {}]
    /\ cur' = [cur EXCEPT ![a] = NoEntry]
    /\ dropped' = dropped \cup {e.id : e \in batch[a]}
    /\ UNCHANGED <<redis, worker, reaper, cpc, holder>>

\* Save or Enqueue of one redriven entry fails: on to the next entry.
RedriveSkips(a) ==
    /\ "redis" \in Faults
    /\ apc[a] \in {"save", "enqueue"}
    /\ \E e \in batch[a] :
         /\ apc[a] = "enqueue" => e = cur[a]
         /\ Drop(e.id)
         /\ NextEntry(a, e)
    /\ UNCHANGED <<redis, worker, reaper, cpc, holder>>

\* The reply of dequeue.lua is lost, or the worker's context was cancelled:
\* the task is leased and nobody runs it.
DequeueReplyLost(w) ==
    /\ "redis" \in Faults
    /\ wpc[w] = "idle"
    /\ \E t \in Best : Lease(w, t)
    /\ UNCHANGED <<delayed, dlq, worker, reaper, cpc, admin, dropped>>

\* Hydration, Ack or Nack failed before it was applied: the lease stays.
CallFails(w) ==
    /\ "redis" \in Faults
    /\ wpc[w] \in {"hydrate", "ack", "nack"}
    /\ Idle(w)
    /\ UNCHANGED <<redis, reaper, cpc, admin, dropped, holder>>

\* nack.lua ran and its reply was lost: "we don't own the task".
NackReplyLost(w) ==
    /\ "redis" \in Faults
    /\ wpc[w] = "nack"
    /\ LeaseHeld(w)
    /\ Unlease(held[w].id, NodeOf[w])
    /\ Drop(held[w].id)
    /\ Idle(w)
    /\ UNCHANGED <<rec, ready, delayed, dlq, reaper, cpc, admin>>

\* Save fails: logged, and the routing goes on without it.
SaveFails(w) ==
    /\ "redis" \in Faults
    /\ wpc[w] = "save"
    /\ IF CanRetry(held[w].retries)
       THEN /\ held' = [held EXCEPT ![w].retries = @ + 1]
            /\ wpc' = [wpc EXCEPT ![w] = "schedule"]
       ELSE /\ wpc' = [wpc EXCEPT ![w] = "bury"]
            /\ UNCHANGED held
    /\ UNCHANGED <<redis, reaper, cpc, admin, dropped, holder>>

\* Schedule or Push fails: logged, and the task is gone.
RouteFails(w) ==
    /\ "redis" \in Faults
    /\ wpc[w] \in {"schedule", "bury"}
    /\ Drop(held[w].id)
    /\ Idle(w)
    /\ UNCHANGED <<redis, reaper, cpc, admin, holder>>

\* The context of Execute, made before the handler is called, has expired: every
\* call that is left fails, and the lease stays unless it was released.
DrainTimeout(w) ==
    /\ "slow" \in Faults
    /\ wpc[w] \in {"work", "ack", "nack", "save", "schedule", "bury"}
    /\ dropped' = IF Routing(w) THEN dropped \cup {held[w].id} ELSE dropped
    /\ Idle(w)
    /\ UNCHANGED <<redis, reaper, cpc, admin, holder>>

\* The reaper's Get, script or Push fails; a failed Push drops the task.
ReaperCallFails(r) ==
    /\ "redis" \in Faults
    /\ rpc[r] \in {"script", "push"}
    /\ dropped' = IF rpc[r] = "push" THEN dropped \cup {snap[r].id} ELSE dropped
    /\ NextId(r)
    /\ UNCHANGED <<redis, worker, cpc, admin, holder>>
-----------------------------------------------------------------------------
SubmitStep(c) == \/ SubmitExists(c) \/ SubmitSave(c)
                 \/ SubmitEnqueue(c) \/ SubmitSchedule(c)

WorkerStep(w) == \/ Dequeue(w) \/ Hydrate(w) \/ Work(w)
                 \/ Ack(w) \/ Nack(w) \/ LeaseNotHeld(w)
                 \/ SaveRetry(w) \/ SaveFailed(w) \/ ScheduleRetry(w) \/ Bury(w)

ReaperStep(r) == \/ ScanLeases(r) \/ ReaperGet(r) \/ LostRace(r)
                 \/ Reclaim(r) \/ DeadLetter(r) \/ ReaperPush(r)

RedriveStep(a) == \/ DrainPop(a) \/ DrainEnd(a) \/ RedriveSave(a) \/ RedriveEnqueue(a)

WorkerFault(w) == \/ DequeueReplyLost(w) \/ CallFails(w) \/ NackReplyLost(w)
                  \/ SaveFails(w) \/ RouteFails(w) \/ DrainTimeout(w)

Next ==
    \/ \E c \in Client : SubmitStep(c) \/ SubmitFails(c)
    \/ \E t \in Task : Promote(t) \/ Expire(t)
    \/ \E w \in Worker : WorkerStep(w) \/ WorkerFault(w)
    \/ \E r \in Reaper : ReaperStep(r) \/ CrashReaper(r) \/ ReaperCallFails(r)
    \/ \E r \in Reaper, n \in Node : ScanNode(r, n)
    \/ \E n \in Node : CrashNode(n) \/ PruneNode(n)
    \/ \E a \in Admin : RedriveStep(a) \/ RedriveFails(a) \/ RedriveSkips(a)

Spec == Init /\ [][Next]_vars

(* The code's loops never stop on their own: workers poll, the scheduler   *)
(* and the reaper tick, a request runs to its end, a handler honours its    *)
(* deadline and time passes every lease's deadline.                         *)
Fairness ==
    /\ \A c \in Client : WF_vars(SubmitStep(c))
    /\ \A t \in Task : WF_vars(Promote(t)) /\ WF_vars(Expire(t))
    /\ \A w \in Worker : WF_vars(WorkerStep(w))
    /\ \A r \in Reaper : WF_vars(ReaperStep(r))
    /\ \A a \in Admin : WF_vars(RedriveStep(a))

FairSpec == Spec /\ Fairness
-----------------------------------------------------------------------------
(* Properties.                                                              *)

\* A process holds t between taking it from one structure and putting it in
\* the next.
Carried(t) ==
    \/ \E w \in Worker : Routing(w) /\ held[w].id = t
    \/ \E r \in Reaper : rpc[r] = "push" /\ snap[r].id = t
    \/ \E c \in Client : cpc[c] = "queue" /\ IdOf[c] = t
    \/ \E a \in Admin : \E e \in batch[a] : e.id = t

Buried(t) == \E e \in dlq : e.id = t

Somewhere(t) ==
    t \in ready \cup delayed \cup processing \cup dropped \/ Buried(t) \/ Carried(t)

\* Where t is, one element for each occurrence.
Places(t) ==
    {<<"queue", q>> : q \in {x \in {"ready", "delayed", "processing"} :
        t \in CASE x = "ready" -> ready [] x = "delayed" -> delayed [] OTHER -> processing}}
    \cup {<<"dlq", e>> : e \in {x \in dlq : x.id = t}}
    \cup {<<"worker", w>> : w \in {x \in Worker : Routing(x) /\ held[x].id = t}}
    \cup {<<"reaper", r>> : r \in {x \in Reaper : rpc[x] = "push" /\ snap[x].id = t}}
    \cup {<<"client", c>> : c \in {x \in Client : cpc[x] \in {"save", "queue"} /\ IdOf[x] = t}}
    \cup UNION {{<<"admin", a, e>> : e \in {x \in batch[a] : x.id = t}} : a \in Admin}

\* Every hand-over moves a task, none copies it: whatever the interleaving of
\* workers, reapers and redrives, a stale one included, a task is in one queue,
\* in one lease or in one carrier's hands, and a completed one is nowhere, provided
\* that no two concurrent requests submit one ID.
OnePlace ==
    \A t \in Task :
        /\ \A p, q \in Places(t) : p = q
        /\ rec[t].status = "completed" => Places(t) = {}

\* A task that was submitted and is not completed is in a queue, leased, dead
\* lettered or in the hands of a live process, unless a process failed while it
\* carried the task: the carriers' windows are the only places where the code
\* can lose work.
Conservation ==
    \A t \in Task : rec[t].status \notin {"none", "completed"} => Somewhere(t)

\* The owner field, the fence of ack.lua and nack.lua, names the node that took
\* the lease: no late Save of another process overwrites it while the task is
\* leased, so a goroutine of another node can never end the lease.
OwnerIsHolder ==
    \A t \in processing :
        /\ rec[t].status = "processing"
        /\ holder[t] # None /\ rec[t].owner = NodeOf[holder[t]]

\* docs: "a stale worker cannot clobber the new owner's lease": a lease ended by
\* Ack or Nack was taken by a goroutine of the same node.
FencedByNode ==
    [][\A w \in Worker :
         wpc[w] \in {"ack", "nack"} /\ held[w].id \in processing \ processing'
                /\ wpc'[w] # wpc[w]
            => NodeOf[holder[held[w].id]] = NodeOf[w]]_vars

\* A dead-lettered task is recorded as failed until a redrive has it.
BuriedIsFailed == \A t \in Task : Buried(t) => rec[t].status = "failed"

\* Completion is final: no retry, reclaim, redrive or late Save of a process
\* that worked on an earlier lease reopens a completed task.
CompletedIsFinal ==
    [][\A t \in Task : rec[t].status = "completed" => rec'[t].status = "completed"]_vars

Finished(t) == rec[t].status = "completed" \/ Buried(t)

\* Every submitted task ends completed or dead lettered, however its leases
\* expire and its goroutines race, provided a worker and a reaper survive and
\* no carrier died with it.
EventuallyFinished ==
    []((\E w \in Worker : wpc[w] # "dead") /\ (\E r \in Reaper : rpc[r] # "dead")) =>
        \A t \in Task : rec[t].status = "pending" ~> (Finished(t) \/ t \in dropped)
-----------------------------------------------------------------------------
(* Claims of the documentation and the comments.                            *)

\* docs: "No task is ever lost. From the moment a task is submitted, it will
\* eventually reach a terminal state": an accepted task is completed or
\* somewhere a process can still take it from.
AcceptedNeverLost ==
    \A c \in Client :
        cpc[c] = "created" =>
            rec[IdOf[c]].status = "completed" \/ Places(IdOf[c]) # {}

\* executor: "If the reaper already reclaimed it, skip retry routing": a
\* goroutine that routes a failed task has released the lease it took itself.
RoutesOwnLease ==
    [][\A w \in Worker : wpc[w] = "nack" /\ wpc'[w] = "save" => holder[held[w].id] = w]_vars
=============================================================================
