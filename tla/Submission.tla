----------------------------- MODULE Submission -----------------------------
(***************************************************************************)
(* The submission panel: a form that submits one task, dialogs that confirm  *)
(* a batch or a flush, and one set of flags (submitting, progress, toast)    *)
(* that every handler sets and clears.  A handler is asynchronous: it sends  *)
(* the requests of a chunk together, goes on when they have all succeeded    *)
(* or when the first has failed, and goes on also when its page has closed.  *)
(***************************************************************************)
EXTENDS SubmissionState

handlers == <<stage, kind, here, sent, req>>
flags == <<submitting, progress, toast, timers, dialog, again>>
vars == <<mounted, handlers, flags, failures>>

\* Of a request: the server acted on it ("ok", and "lost" when the reply never
\* came back), or refused it, or never saw it.
ReqState == {"unsent", "asked", "ok", "refused", "lost"}

TypeOK ==
    /\ mounted \in BOOLEAN
    /\ stage \in [Run -> {"new", "open", "ended"}]
    /\ kind \in [Run -> Kind]
    /\ here \subseteq Run
    /\ sent \in [Run -> Nat]
    /\ req \in [Run -> [1..BatchSize -> ReqState]]
    /\ submitting \in BOOLEAN
    /\ progress \in [run : Run \cup {NoRun}, n : Nat]
    /\ toast \in [type : {"none", "success", "error"}, run : Run \cup {NoRun}]
    /\ timers \in Nat
    /\ dialog \in [{"batch", "flush"} -> {"closed", "open", "fading"}]
    /\ again \in Nat
    /\ failures \in Nat

Init ==
    /\ mounted = TRUE
    /\ stage = [r \in Run |-> "new"]
    /\ kind = [r \in Run |-> "submit"]
    /\ here = {}
    /\ sent = [r \in Run |-> 0]
    /\ req = [r \in Run |-> [i \in 1..BatchSize |-> "unsent"]]
    /\ submitting = FALSE /\ progress = NoProgress /\ toast = NoToast /\ timers = 0
    /\ dialog = [d \in {"batch", "flush"} |-> "closed"]
    /\ again = 0
    /\ failures = 0
-----------------------------------------------------------------------------
(* The server.                                                              *)

\* A request comes back, to a handler that still waits for it or not.
Reply(r, i, outcome) ==
    /\ req[r][i] = "asked"
    /\ outcome # "ok" => failures < MaxFailures
    /\ req' = [req EXCEPT ![r][i] = outcome]
    /\ failures' = IF outcome = "ok" THEN failures ELSE failures + 1
    /\ UNCHANGED <<mounted, stage, kind, here, sent, flags>>
-----------------------------------------------------------------------------
(* The handlers.                                                            *)

Ask(r, tasks) == [req EXCEPT ![r] = [i \in 1..BatchSize |-> IF i \in tasks THEN "asked" ELSE @[i]]]

\* A handler starts: it disables the controls and sends its first chunk.
Start(r, k) ==
    /\ stage[r] = "new" /\ \A q \in Run : q < r => stage[q] # "new"
    /\ stage' = [stage EXCEPT ![r] = "open"]
    /\ kind' = [kind EXCEPT ![r] = k]
    /\ here' = here \cup {r}
    /\ req' = Ask(r, ChunkAfter(0, k))
    /\ submitting' = TRUE
    /\ progress' = IF k = "batch" THEN [run |-> r, n |-> 0] ELSE progress
    /\ UNCHANGED <<mounted, sent, toast, timers, failures>>

\* The dialogs are modal: nothing under one can be clicked.
Covered == \E d \in {"batch", "flush"} : dialog[d] # "closed"

\* Mutant: the button of the form does not look at the flag.
FormAlwaysEnabled == mounted /\ ~Covered

\* The button of the form.
FormEnabled == mounted /\ ~submitting /\ ~Covered

\* handleSubmit.
Submit(r) ==
    /\ FormEnabled
    /\ Start(r, "submit")
    /\ UNCHANGED <<dialog, again>>

\* The batch sizes and the flush button.
OpenDialog(d) ==
    /\ mounted /\ ~submitting /\ ~Covered
    /\ dialog' = [dialog EXCEPT ![d] = "open"]
    /\ UNCHANGED <<mounted, handlers, submitting, progress, toast, timers, again, failures>>

Cancel(d) ==
    /\ dialog[d] = "open"
    /\ dialog' = [dialog EXCEPT ![d] = "fading"]
    /\ UNCHANGED <<mounted, handlers, submitting, progress, toast, timers, again, failures>>

\* The confirming button has no guard, and is still there while its dialog fades
\* out: executeBatch and handleFlush.
Confirm(r, d) ==
    /\ dialog[d] \in {"open", "fading"}
    /\ Start(r, d)
    /\ dialog' = [dialog EXCEPT ![d] = "fading"]
    /\ again' = IF submitting THEN again + 1 ELSE again

\* The content of a closed dialog goes away when its animation ends.
Faded(d) ==
    /\ dialog[d] = "fading"
    /\ dialog' = [dialog EXCEPT ![d] = "closed"]
    /\ UNCHANGED <<mounted, handlers, submitting, progress, toast, timers, again, failures>>

\* showToast, by a handler whose page is there to show it.
ShowToast(r, type) ==
    IF r \in here
    THEN toast' = [type |-> type, run |-> r] /\ timers' = timers + 1
    ELSE UNCHANGED <<toast, timers>>

\* The finally of a handler; only a batch has progress to clear.
Finally(r) ==
    /\ stage' = [stage EXCEPT ![r] = "ended"]
    /\ submitting' = IF r \in here THEN FALSE ELSE submitting
    /\ progress' = IF r \in here /\ kind[r] = "batch" THEN NoProgress ELSE progress

Chunk(r) == ChunkAfter(sent[r], kind[r])

\* Mutant: a chunk is over when all its requests came back.
ChunkSettled(r) == \A i \in Chunk(r) : req[r][i] \in {"ok", "refused", "lost"}

\* Promise.all: every request of the chunk succeeded.
ChunkSucceeded(r) == \A i \in Chunk(r) : req[r][i] = "ok"

\* Promise.all: the first that fails ends the handler, the others stay out.
ChunkFailed(r) == \E i \in Chunk(r) : req[r][i] \in {"refused", "lost"}

SentNext(r) == SentAfter(sent[r], kind[r])

\* A chunk went through: the next one is sent in the same turn.
NextChunk(r) ==
    /\ stage[r] = "open"
    /\ ChunkSucceeded(r)
    /\ SentNext(r) < Size(kind[r])
    /\ sent' = [sent EXCEPT ![r] = SentNext(r)]
    /\ req' = Ask(r, ChunkAfter(SentNext(r), kind[r]))
    /\ progress' = IF r \in here THEN [run |-> r, n |-> SentNext(r)] ELSE progress
    /\ UNCHANGED <<mounted, stage, kind, here, submitting, toast, timers, dialog, again, failures>>

Succeed(r) ==
    /\ stage[r] = "open"
    /\ ChunkSucceeded(r)
    /\ SentNext(r) = Size(kind[r])
    /\ sent' = [sent EXCEPT ![r] = SentNext(r)]
    /\ ShowToast(r, "success")
    /\ Finally(r)
    /\ UNCHANGED <<mounted, kind, here, req, dialog, again, failures>>

Fail(r) ==
    /\ stage[r] = "open"
    /\ ChunkFailed(r)
    /\ ShowToast(r, "error")
    /\ Finally(r)
    /\ UNCHANGED <<mounted, kind, here, sent, req, dialog, again, failures>>

\* Any timer takes down the toast there is, also a later one's.
TimerFires ==
    /\ timers > 0
    /\ timers' = timers - 1
    /\ toast' = NoToast
    /\ UNCHANGED <<mounted, handlers, submitting, progress, dialog, again, failures>>

\* The page closes and opens again with a new panel; the handlers of the old one
\* go on.
Leave ==
    /\ mounted
    /\ mounted' = FALSE
    /\ here' = {}
    /\ submitting' = FALSE /\ progress' = NoProgress /\ toast' = NoToast /\ timers' = 0
    /\ dialog' = [d \in {"batch", "flush"} |-> "closed"]
    /\ again' = 0
    /\ UNCHANGED <<stage, kind, sent, req, failures>>

Return ==
    /\ ~mounted
    /\ mounted' = TRUE
    /\ UNCHANGED <<handlers, flags, failures>>

Resume(r) == NextChunk(r) \/ Succeed(r) \/ Fail(r)

Next ==
    \/ TimerFires \/ Leave \/ Return
    \/ \E d \in {"batch", "flush"} :
         OpenDialog(d) \/ Cancel(d) \/ Faded(d) \/ \E r \in Run : Confirm(r, d)
    \/ \E r \in Run : Submit(r) \/ NextChunk(r) \/ Succeed(r) \/ Fail(r)
    \/ \E r \in Run, i \in 1..BatchSize, outcome \in {"ok", "refused", "lost"} : Reply(r, i, outcome)

Spec == Init /\ [][Next]_vars
-----------------------------------------------------------------------------
\* A batch never has more requests out than a chunk, those included that a
\* failure left behind.
BoundedInFlight ==
    \A r \in Run : Cardinality({i \in 1..BatchSize : req[r][i] = "asked"}) <= CONCURRENCY

\* The controls come back after every outcome, and every toast goes away.
PanelComesBack ==
    /\ []<>~submitting
    /\ []<>(toast = NoToast)
=============================================================================
