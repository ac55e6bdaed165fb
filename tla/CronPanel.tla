----------------------------- MODULE CronPanel -----------------------------
(***************************************************************************)
(* The panel of cron jobs: a list that polls, a form that creates a job and  *)
(* a button on each row that deletes it, one toast for both.  Answers of     *)
(* polls made before a change arrive after it, replies get lost, and what    *)
(* was sent reaches the server also after its page has closed.              *)
(***************************************************************************)
EXTENDS FiniteSets, Polling

CONSTANTS
    JobId,        \* the IDs jobs are given, by the user or by the server
    MaxOutages,   \* bound on requests that fail
    MaxTimers     \* bound on the toasts of the last seconds and those to come

VARIABLES
    mounted,     \* the page is open
    jobs,        \* the jobs the server has
    list,        \* the poller of the jobs
    requests,    \* what the form and the rows have asked for, at most one a slot
    busy,
    toast,       \* "none", "success" or "error"
    timers,      \* toasts' timers that are running
    outages

page == <<list, requests, busy, toast, timers>>
vars == <<mounted, jobs, page, outages>>

\* A request knows whether its page is still open: here.
Request == [does : {"create", "delete"}, id : JobId,
            stage : {"free", "asked", "done", "failed"}, here : BOOLEAN]

NoRequest == [does |-> "delete", id |-> CHOOSE j \in JobId : TRUE, stage |-> "free", here |-> FALSE]

Unused == {s \in Slot : requests[s].stage = "free"}

Creating == {s \in Slot : requests[s].here /\ requests[s].does = "create"}

TypeOK ==
    /\ mounted \in BOOLEAN /\ busy \in BOOLEAN
    /\ jobs \subseteq JobId
    /\ requests \in [Slot -> Request]
    /\ \A s \in Unused : ~requests[s].here
    /\ \A s, t \in Creating : s = t
    /\ busy = (Creating # {})
    /\ toast \in {"none", "success", "error"}
    /\ timers \in Nat /\ outages \in 0..MaxOutages

\* The state of a page that has just opened.
FreshPage ==
    /\ list' = Mounted("cron")
    /\ busy' = FALSE /\ toast' = "none" /\ timers' = 0

Init ==
    /\ mounted = TRUE /\ jobs = {} /\ outages = 0
    /\ list = Mounted("cron")
    /\ requests = [s \in Slot |-> NoRequest]
    /\ busy = FALSE /\ toast = "none" /\ timers = 0
-----------------------------------------------------------------------------
(* The list.                                                                *)

Tick ==
    /\ mounted
    /\ FreeSlots(list) # {}
    /\ list' = Poll(list, "cron")
    /\ UNCHANGED <<mounted, jobs, requests, busy, toast, timers, outages>>

Answer(outcome) ==
    /\ outcome # "ok" => outages < MaxOutages
    /\ \E s \in Waiting(list) : list' = Serve(list, s, outcome, jobs)
    /\ outages' = IF outcome = "ok" THEN outages ELSE outages + 1
    /\ UNCHANGED <<mounted, jobs, requests, busy, toast, timers>>

Deliver ==
    /\ \E s \in Arrived(list) : list' = Settle(list, s)
    /\ UNCHANGED <<mounted, jobs, requests, busy, toast, timers, outages>>

\* The rows: nothing yet is no job; an error keeps the list.
Rows == IF list.data.of = "nothing" THEN {} ELSE list.data.at
-----------------------------------------------------------------------------
(* The form and the rows' buttons.                                          *)

\* The user clicks only so often: the toasts to come and those of the last seconds
\* are bounded.
Clicks ==
    /\ Unused # {}
    /\ timers + Cardinality({s \in Slot : requests[s].here}) < MaxTimers

Send(does, j) ==
    requests' = [requests EXCEPT ![CHOOSE s \in Unused : TRUE] =
                   [does |-> does, id |-> j, stage |-> "asked", here |-> TRUE]]

\* The button is disabled while a creation is under way.
Create(j) ==
    /\ mounted /\ Clicks
    /\ ~busy
    /\ busy' = TRUE
    /\ Send("create", j)
    /\ UNCHANGED <<mounted, jobs, list, toast, timers, outages>>

\* The button of a row that is drawn, also of a job that is gone by now, and again
\* while it is being deleted: it has no guard.
Delete(j) ==
    /\ mounted /\ Clicks
    /\ j \in Rows
    /\ Send("delete", j)
    /\ UNCHANGED <<mounted, jobs, list, busy, toast, timers, outages>>

\* The server upserts a job under its ID and deletes one whether it is there.
Apply(does, j) == jobs' = IF does = "create" THEN jobs \cup {j} ELSE jobs \ {j}

StageAfter(outcome) == IF outcome = "done" THEN "done" ELSE "failed"

\* What becomes of a request: done, refused before it changed anything, or done
\* with the reply lost.  One of a page that has closed is for nobody.
Reach(s, outcome) ==
    /\ requests[s].stage = "asked"
    /\ outcome # "done" => outages < MaxOutages
    /\ IF outcome = "refused" THEN UNCHANGED jobs ELSE Apply(requests[s].does, requests[s].id)
    /\ outages' = IF outcome = "done" THEN outages ELSE outages + 1
    /\ requests' = [requests EXCEPT ![s] = IF @.here THEN [@ EXCEPT !.stage = StageAfter(outcome)]
                                           ELSE NoRequest]
    /\ UNCHANGED <<mounted, list, busy, toast, timers>>

\* A toast replaces the one before it and starts a timer of its own.
showToast(stage) ==
    /\ toast' = IF stage = "done" THEN "success" ELSE "error"
    /\ timers' = timers + 1

\* A handler is resumed.
Ends(s, does) ==
    /\ requests[s].here /\ requests[s].does = does
    /\ requests[s].stage \in {"done", "failed"}
    /\ showToast(requests[s].stage)
    /\ requests' = [requests EXCEPT ![s] = NoRequest]

\* Mutant: the form is given back on success only.
CreateEndsOnSuccess(s) ==
    /\ Ends(s, "create")
    /\ busy' = (requests[s].stage = "failed")
    /\ UNCHANGED <<mounted, jobs, list, outages>>

\* The rest of handleCreate, its finally included.
CreateEnds(s) ==
    /\ Ends(s, "create")
    /\ busy' = FALSE
    /\ UNCHANGED <<mounted, jobs, list, outages>>

\* The rest of handleDelete: the row stays until a poll brings the list without it.
DeleteEnds(s) ==
    /\ Ends(s, "delete")
    /\ UNCHANGED <<mounted, jobs, list, busy, outages>>

\* Any timer takes down the toast there is, also a later one's.
TimerFires ==
    /\ timers > 0
    /\ timers' = timers - 1
    /\ toast' = "none"
    /\ UNCHANGED <<mounted, jobs, list, requests, busy, outages>>

\* The page closes: what is on its way stays so, what came back is for nobody.
Leave ==
    /\ mounted
    /\ mounted' = FALSE
    /\ list' = Idle
    /\ requests' = [s \in Slot |-> IF requests[s].stage = "asked"
                                   THEN [requests[s] EXCEPT !.here = FALSE] ELSE NoRequest]
    /\ busy' = FALSE /\ toast' = "none" /\ timers' = 0
    /\ UNCHANGED <<jobs, outages>>

Return ==
    /\ ~mounted
    /\ mounted' = TRUE
    /\ FreshPage
    /\ UNCHANGED <<jobs, requests, outages>>

Next ==
    \/ Tick \/ Deliver \/ TimerFires \/ Leave \/ Return
    \/ \E outcome \in {"ok", "refused"} : Answer(outcome)
    \/ \E j \in JobId : Create(j) \/ Delete(j)
    \/ \E s \in Slot : CreateEnds(s) \/ DeleteEnds(s)
    \/ \E s \in Slot, outcome \in {"done", "refused", "lost"} : Reach(s, outcome)

Spec == Init /\ [][Next]_vars
-----------------------------------------------------------------------------
\* The list of a panel that stays open comes to show the jobs the server has,
\* whatever answers were on their way when they changed.
JobsSettle ==
    <>[]mounted /\ <>[][jobs' = jobs]_vars => <>[](Rows = jobs)

\* The form is given back after every outcome, and every toast goes away.
CronComesBack ==
    /\ []<>~busy
    /\ []<>(toast = "none")
=============================================================================
