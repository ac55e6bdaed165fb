------------------------------- MODULE Cron -------------------------------
(***************************************************************************)
(* The cron materializer: on every tick the leader lists the jobs, and for  *)
(* each one whose latest slot is due writes a task record, queues it and    *)
(* advances the job's cursor, one Redis call after the other.  A second     *)
(* leader (a stalled one that has not noticed yet), a crash and the edits   *)
(* of the API may come between any two calls.                               *)
(*                                                                         *)
(* Time is counted in slots; the task of slot s of job j is <<j, s>>.       *)
(***************************************************************************)
EXTENDS Integers, FiniteSets

CONSTANTS
    Job,         \* job IDs
    Leader,      \* processes that act as leader (two: split brain)
    Schedule,    \* job -> the times its schedule fires at
    Horizon,     \* bound on the clock
    MaxEdits,    \* bound on the API requests
    MaxMishaps   \* bound on crashes and failed calls

ASSUME CronAssumption ==
    /\ Horizon \in Nat /\ MaxEdits \in Nat /\ MaxMishaps \in Nat
    /\ Schedule \in [Job -> SUBSET (1..Horizon)]

Instance == Job \X (1..Horizon)

VARIABLES
    clock,     \* the time
    jobs,      \* the cron hash
    records,   \* the instances with a task record
    ready,     \* the instances in the ready set
    mpc,       \* a materializer: its next call
    mnow,      \* the time its tick began
    todo,      \* the due instances of this tick it has not handled
    cur,       \* the one it is handling (a set of at most one)
    copy,      \* the job as UpdateCursor read it
    edits, mishaps,   \* counters of API requests and of failures
    fired,     \* auxiliary: how often an instance was queued
    lost       \* auxiliary: instances dropped between Save and Enqueue

materializer == <<mpc, mnow, todo, cur, copy>>
vars == <<clock, jobs, records, ready, materializer, edits, mishaps, fired, lost>>

CronJob == [enabled : BOOLEAN, created : 0..Horizon, cursor : 0..Horizon, present : BOOLEAN]
NoJob == [enabled |-> FALSE, created |-> 0, cursor |-> 0, present |-> FALSE]

TypeOK ==
    /\ clock \in 0..Horizon
    /\ jobs \in [Job -> CronJob]
    /\ records \subseteq Instance /\ ready \subseteq Instance
    /\ mpc \in [Leader -> {"idle", "list", "exists", "save", "enqueue", "get", "put"}]
    /\ mnow \in [Leader -> 0..Horizon]
    /\ todo \in [Leader -> SUBSET Instance]
    /\ cur \in [Leader -> {{}} \cup {{i} : i \in Instance}]
    /\ \A m \in Leader : cur[m] = {} <=> mpc[m] \in {"idle", "list", "exists"}
    /\ copy \in [Leader -> CronJob]
    /\ edits \in 0..MaxEdits /\ mishaps \in 0..MaxMishaps
    /\ fired \in [Instance -> Nat]
    /\ lost \subseteq Instance

Init ==
    /\ clock = 0
    /\ jobs = [j \in Job |-> NoJob]
    /\ records = {} /\ ready = {}
    /\ mpc = [m \in Leader |-> "idle"] /\ mnow = [m \in Leader |-> 0]
    /\ todo = [m \in Leader |-> {}] /\ cur = [m \in Leader |-> {}]
    /\ copy = [m \in Leader |-> NoJob]
    /\ edits = 0 /\ mishaps = 0
    /\ fired = [i \in Instance |-> 0]
    /\ lost = {}
-----------------------------------------------------------------------------
(* The API and the rest of the system.                                      *)

Edit(j, job) ==
    /\ edits < MaxEdits
    /\ edits' = edits + 1
    /\ jobs' = [jobs EXCEPT ![j] = job]
    /\ UNCHANGED <<clock, records, ready, materializer, mishaps, fired, lost>>

\* CreateCron overwrites whatever is stored under the ID.
CreateCron(j, enabled) ==
    Edit(j, [enabled |-> enabled, created |-> clock, cursor |-> 0, present |-> TRUE])

DeleteCron(j) == Edit(j, NoJob)

Tick ==
    /\ clock < Horizon
    /\ clock' = clock + 1
    /\ UNCHANGED <<jobs, records, ready, materializer, edits, mishaps, fired, lost>>

\* A worker takes the task and runs it to its end.
Run(i) ==
    /\ i \in ready
    /\ ready' = ready \ {i}
    /\ UNCHANGED <<clock, jobs, records, materializer, edits, mishaps, fired, lost>>
-----------------------------------------------------------------------------
(* materialize.                                                             *)

Wake(m) ==
    /\ mpc[m] = "idle"
    /\ mpc' = [mpc EXCEPT ![m] = "list"]
    /\ mnow' = [mnow EXCEPT ![m] = clock]
    /\ UNCHANGED <<clock, jobs, records, ready, todo, cur, copy, edits, mishaps,
                   fired, lost>>

\* The slots from the cursor, or from the creation of a job that never fired,
\* up to now.
Pending(j, now) ==
    LET start == IF jobs[j].cursor # 0 THEN jobs[j].cursor ELSE jobs[j].created
    IN  {s \in Schedule[j] : start < s /\ s <= now}

\* Skip-to-latest: only the last pending slot of an enabled job is due.
Due(now) ==
    {i \in Instance : /\ jobs[i[1]].enabled
                      /\ i[2] \in Pending(i[1], now)
                      /\ \A s \in Pending(i[1], now) : s <= i[2]}

List(m) ==
    /\ mpc[m] = "list"
    /\ todo' = [todo EXCEPT ![m] = Due(mnow[m])]
    /\ mpc' = [mpc EXCEPT ![m] = IF Due(mnow[m]) = {} THEN "idle" ELSE "exists"]
    /\ UNCHANGED <<clock, jobs, records, ready, mnow, cur, copy, edits, mishaps,
                   fired, lost>>

\* Mutants: the existence check is skipped, or inverted.
NeverThere(i) == FALSE
NotThere(i) == i \notin records

AlreadyThere(i) == i \in records

\* Mutant: an existing instance is skipped and the cursor left where it is.
LeaveCursor(m, i) == IF todo[m] = {i} THEN "idle" ELSE "exists"

\* What follows for an instance that exists: its job's cursor is advanced.
Skip(m, i) == "get"

\* An instance that exists is not fired again, only the cursor advances.
Exists(m) ==
    /\ mpc[m] = "exists"
    /\ \E i \in todo[m] :
         /\ todo' = [todo EXCEPT ![m] = @ \ {i}]
         /\ cur' = [cur EXCEPT ![m] = {i}]
         /\ mpc' = [mpc EXCEPT ![m] = IF AlreadyThere(i) THEN Skip(m, i) ELSE "save"]
    /\ UNCHANGED <<clock, jobs, records, ready, mnow, copy, edits, mishaps,
                   fired, lost>>

Save(m) ==
    /\ mpc[m] = "save"
    /\ records' = records \cup cur[m]
    /\ mpc' = [mpc EXCEPT ![m] = "enqueue"]
    /\ UNCHANGED <<clock, jobs, ready, mnow, todo, cur, copy, edits, mishaps,
                   fired, lost>>

Enqueue(m) ==
    /\ mpc[m] = "enqueue"
    /\ ready' = ready \cup cur[m]
    /\ fired' = [i \in Instance |-> IF i \in cur[m] THEN fired[i] + 1 ELSE fired[i]]
    /\ mpc' = [mpc EXCEPT ![m] = "get"]
    /\ UNCHANGED <<clock, jobs, records, mnow, todo, cur, copy, edits, mishaps,
                   lost>>

\* Mutant: the materializer forgets that it is done with the job.
NextJobKept(m) ==
    /\ mpc' = [mpc EXCEPT ![m] = IF todo[m] = {} THEN "idle" ELSE "exists"]
    /\ UNCHANGED <<cur, copy>>

\* On to the next due job of the tick.
NextJob(m) ==
    /\ mpc' = [mpc EXCEPT ![m] = IF todo[m] = {} THEN "idle" ELSE "exists"]
    /\ cur' = [cur EXCEPT ![m] = {}]
    /\ copy' = [copy EXCEPT ![m] = NoJob]

\* UpdateCursor reads the whole job ...
CursorGet(m) ==
    /\ mpc[m] = "get"
    /\ \E i \in cur[m] :
         IF jobs[i[1]].present
         THEN /\ copy' = [copy EXCEPT ![m] = jobs[i[1]]]
              /\ mpc' = [mpc EXCEPT ![m] = "put"]
              /\ UNCHANGED cur
         ELSE NextJob(m)
    /\ UNCHANGED <<clock, jobs, records, ready, mnow, todo, edits, mishaps,
                   fired, lost>>

\* ... and writes the whole job back.
CursorSave(m) ==
    /\ mpc[m] = "put"
    /\ \E i \in cur[m] : jobs' = [jobs EXCEPT ![i[1]] = [copy[m] EXCEPT !.cursor = i[2]]]
    /\ NextJob(m)
    /\ UNCHANGED <<clock, records, ready, mnow, todo, edits, mishaps, fired, lost>>

\* The carrier of a saved instance gives up before queueing it.
Drop(m) == lost' = IF mpc[m] = "enqueue" THEN lost \cup cur[m] ELSE lost
Mishap == mishaps < MaxMishaps /\ mishaps' = mishaps + 1

\* A call for the current job fails: logged, on to the next job.
CallFails(m) ==
    /\ Mishap
    /\ mpc[m] \in {"save", "enqueue", "get", "put"}
    /\ Drop(m)
    /\ NextJob(m)
    /\ UNCHANGED <<clock, jobs, records, ready, mnow, todo, edits, fired>>

\* The leader dies or its loops are cancelled; the successor starts a new tick.
Crash(m) ==
    /\ Mishap
    /\ mpc[m] # "idle"
    /\ Drop(m)
    /\ mpc' = [mpc EXCEPT ![m] = "idle"]
    /\ todo' = [todo EXCEPT ![m] = {}]
    /\ cur' = [cur EXCEPT ![m] = {}]
    /\ copy' = [copy EXCEPT ![m] = NoJob]
    /\ UNCHANGED <<clock, jobs, records, ready, mnow, edits, fired>>

Step(m) == \/ Wake(m) \/ List(m) \/ Exists(m) \/ Save(m) \/ Enqueue(m)
           \/ CursorGet(m) \/ CursorSave(m)

Next ==
    \/ Tick
    \/ \E j \in Job : DeleteCron(j) \/ \E enabled \in BOOLEAN : CreateCron(j, enabled)
    \/ \E i \in Instance : Run(i)
    \/ \E m \in Leader : Step(m) \/ CallFails(m) \/ Crash(m)

Spec == Init /\ [][Next]_vars

(* Time passes, a materializer's ticker fires and its calls return.         *)
FairSpec == Spec /\ WF_vars(Tick) /\ \A m \in Leader : WF_vars(Step(m))
-----------------------------------------------------------------------------
\* README: "a failover mid-fire never double-fires": a slot is queued once where
\* leaders follow each other, and never more often than leaders overlap.
FiredOncePerLeader == \A i \in Instance : fired[i] <= Cardinality(Leader)

About(i, m) == i \in cur[m] /\ mpc[m] = "enqueue"

\* The cursor stands on a slot only when its task was queued, is about to be, or
\* was lost by a leader that failed between Save and Enqueue.
SlotCovered ==
    \A i \in Instance :
        jobs[i[1]].cursor = i[2] =>
            fired[i] > 0 \/ i \in lost \/ \E m \in Leader : About(i, m)

\* An enabled job is never left behind: whatever crashed, was retried or raced,
\* its cursor comes to stand on the last slot of its schedule.
CatchesUp ==
    \A j \in Job :
        LET last == CHOOSE s \in Schedule[j] : \A x \in Schedule[j] : x <= s
        IN  <>[](jobs[j].enabled /\ jobs[j].created < last) => <>[](jobs[j].cursor = last)
-----------------------------------------------------------------------------
(* A claim of the materializer's comment.                                   *)

\* materializer: "a crash before this leaves the slot to be recomputed (and
\* deduped by Exists), never marked done before it was enqueued".
NeverMarkedUnqueued ==
    \A i \in Instance : jobs[i[1]].cursor = i[2] => fired[i] > 0
=============================================================================
