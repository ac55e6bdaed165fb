-------------------------- MODULE SubmissionState --------------------------
(* What the submission panel keeps, and what it promises the user.          *)
EXTENDS Batches, FiniteSets

VARIABLES
    mounted,      \* the page is open
    stage,        \* a handler: new, open (before its finally) or ended
    kind,         \* what it does
    here,         \* the handlers whose page has been open ever since
    sent,         \* the tasks of its chunks that went through
    req,          \* its requests, one for each task
    submitting, progress, toast,
    timers,       \* toasts' timers that are running
    dialog,       \* the two dialogs: closed, open or fading out
    again,        \* confirmations beside a running handler since the page opened
    failures

TasksOf(r) == 1..Size(kind[r])

NoProgress == [run |-> NoRun, n |-> 0]
NoToast == [type |-> "none", run |-> NoRun]

\* What the server has done for a run.
Accepted(r) == {i \in 1..BatchSize : req[r][i] \in {"ok", "lost"}}
-----------------------------------------------------------------------------
Awaiting(r) == stage[r] = "open" /\ r \in here

\* What the panel says is so: a toast of success means that the server acted on
\* every request of its handler, also on those of the chunks before, and the
\* progress of a batch counts only tasks the server has taken.
TellsTheTruth ==
    /\ toast.type = "success" => TasksOf(toast.run) \subseteq Accepted(toast.run)
    /\ progress.run # NoRun => 1..progress.n \subseteq Accepted(progress.run)

\* The handlers the panel waits for.
Running == {r \in Run : Awaiting(r)}

\* Handlers overlap only by a dialog that is confirmed again while it fades out: each
\* such confirmation lets one more run beside the others, also after the first of
\* them to end has enabled the controls.  Without one they take turns, and the
\* controls are disabled exactly while one runs.
OverlapsAreConfirmed ==
    /\ Cardinality(Running) <= IF submitting THEN again + 1 ELSE again
    /\ submitting => Running # {}
=============================================================================
