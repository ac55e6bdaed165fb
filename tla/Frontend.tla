------------------------------ MODULE Frontend ------------------------------
(***************************************************************************)
(* The parts of the dashboard together.  They share neither state nor calls  *)
(* in the browser (each panel polls for itself, a created job reaches the    *)
(* list through the server), so a behaviour follows one of them ("focus")    *)
(* and the others stand still: their interleavings would tell nothing more.  *)
(***************************************************************************)
EXTENDS ApiTypes, SubmissionState, LearnState

CONSTANTS
    Slot, MaxOutages,                 \* polling
    Typed, JobId, MaxTimers,          \* CronForm, CronPanel
    MaxPos, Question,                 \* Followers
    WindowSize, Wide                  \* Tutorial

\* Those of the submission panel and the learning pages come with their modules.
VARIABLES
    focus,
    outages,                                                    \* of the followed part
    panel, now, mode, pollers,                                  \* Panels
    schedule,                                                   \* CronForm
    jobs, list, requests, busy, cronToast, cronTimers,   \* CronPanel
    widget, fine, pos, open, frame, queued, drawn, untold,      \* Followers
    reduce, frameIdx, i, window, orientation, measured, boxAt, pending   \* Tutorial

P == INSTANCE Panels WITH NoAnswer <- 0
C == INSTANCE CronPanel WITH NoAnswer <- {}, toast <- cronToast, timers <- cronTimers
S == INSTANCE Submission
W == INSTANCE CronForm
L == INSTANCE Learn
F == INSTANCE Followers
T == INSTANCE Tutorial

panelVars == <<panel, now, mode, pollers>>
cronVars == <<jobs, list, requests, busy, cronToast, cronTimers>>
submissionVars == <<stage, kind, here, sent, req, submitting, progress, toast, timers, dialog, again, failures>>
followerVars == <<widget, fine, pos, open, frame, queued, drawn, untold>>
diagramVars == <<reduce, frameIdx, i, window, orientation, measured, boxAt, pending>>
learnVars == <<storage, store, page, ran, readSlugs, notices, opened>>
vars == <<focus, mounted, outages, panelVars, schedule, cronVars, submissionVars, learnVars, followerVars, diagramVars>>

Part == {"panels", "form", "cron", "submission", "learn", "follower", "diagram"}

\* A part that is not followed stands in one of its initial states.
Init ==
    /\ focus \in Part
    /\ P!Init /\ W!Init /\ C!Init /\ S!Init /\ L!Init /\ F!Init /\ T!Init
    /\ focus # "panels" => panel = "flow"
    /\ focus # "learn" => storage
    /\ focus # "follower" => widget = "bar" /\ fine
    /\ focus # "diagram" => ~reduce /\ window = CHOOSE size \in WindowSize : TRUE

\* A step of the followed part, which leaves the others alone.
OnPanels ==
    /\ focus = "panels"
    /\ UNCHANGED <<focus, schedule, cronVars, submissionVars, learnVars, followerVars, diagramVars>>

OnCronForm ==
    /\ focus = "form"
    /\ UNCHANGED <<focus, mounted, outages, panelVars, cronVars, submissionVars, learnVars, followerVars, diagramVars>>

OnCronPanel ==
    /\ focus = "cron"
    /\ UNCHANGED <<focus, schedule, panelVars, submissionVars, learnVars, followerVars, diagramVars>>

OnSubmission ==
    /\ focus = "submission"
    /\ UNCHANGED <<focus, schedule, outages, panelVars, cronVars, learnVars, followerVars, diagramVars>>

OnLearn ==
    /\ focus = "learn"
    /\ UNCHANGED <<focus, schedule, mounted, outages, panelVars, cronVars, submissionVars, followerVars, diagramVars>>

OnFollowers ==
    /\ focus = "follower"
    /\ UNCHANGED <<focus, schedule, outages, panelVars, cronVars, submissionVars, learnVars, diagramVars>>

OnTutorial ==
    /\ focus = "diagram"
    /\ UNCHANGED <<focus, schedule, outages, panelVars, cronVars, submissionVars, learnVars, followerVars>>

Next ==
    \/ OnPanels /\ P!Next
    \/ OnCronForm /\ W!Next
    \/ OnCronPanel /\ C!Next
    \/ OnSubmission /\ S!Next
    \/ OnLearn /\ L!Next
    \/ OnFollowers /\ F!Next
    \/ OnTutorial /\ T!Next

\* Intervals and timeouts fire, a request that is answered is delivered and one
\* attempt after the other gets an answer in the end; effects run and storage
\* events arrive.  Nothing is promised of a single request: an answer of one
\* poll may stay out for ever while others come.
Fairness ==
    /\ \A k \in 1..2 :
         /\ WF_vars(OnPanels /\ k \in DOMAIN pollers /\ P!Tick(k))
         /\ WF_vars(OnPanels /\ k \in DOMAIN pollers /\ P!Answer(k, "ok"))
         /\ WF_vars(OnPanels /\ k \in DOMAIN pollers /\ P!Deliver(k))
    /\ WF_vars(OnCronPanel /\ C!Tick) /\ WF_vars(OnCronPanel /\ C!Answer("ok")) /\ WF_vars(OnCronPanel /\ C!Deliver)
    /\ WF_vars(OnCronPanel /\ \E s \in C!Creating : C!Reach(s, "done"))
    /\ WF_vars(OnCronPanel /\ \E s \in Slot : C!CreateEnds(s))
    /\ WF_vars(OnCronPanel /\ C!TimerFires)
    /\ WF_vars(OnSubmission /\ S!TimerFires)
    /\ \A r \in Run : /\ WF_vars(OnSubmission /\ S!Resume(r))
                      /\ WF_vars(OnSubmission /\ \E task \in 1..BatchSize : S!Reply(r, task, "ok"))
    /\ \A t \in Tab : WF_vars(OnLearn /\ L!RunEffects(t)) /\ WF_vars(OnLearn /\ L!StorageEvent(t))

Spec == Init /\ [][Next]_vars

FairSpec == Spec /\ Fairness
-----------------------------------------------------------------------------
(* The properties, each in the module of its part; two parts that make the    *)
(* same promise share one.                                                   *)

TypeOK ==
    /\ focus \in Part
    /\ P!TypeOK /\ C!TypeOK /\ S!TypeOK /\ L!TypeOK /\ F!TypeOK /\ T!TypeOK

\* However answers overtake each other and requests fail, a panel that stays open
\* comes to show the cluster, and the list of cron jobs the jobs, as they are.
PanelsSettle == (focus = "panels" => P!PanelsSettle) /\ (focus = "cron" => C!JobsSettle)

\* The controls of both forms come back after every outcome, and toasts go away.
ComesBack == (focus = "submission" => S!PanelComesBack) /\ (focus = "cron" => C!CronComesBack)

\* The English beside the schedule in the form is when the job fires.
DescribesExactly == focus = "form" => W!DescribesExactly

\* Every chapter read comes to wear its badge in every open index.
BadgesCatchUp == focus = "learn" => L!BadgesCatchUp

\* The tokens of the landing page move as the queue moves tasks.
ShowsLifecycle == T!ShowsLifecycle

\* Every frame of the diagram is a state the queue can be in, told consistently.
SceneConsistent == focus = "diagram" => T!SceneConsistent

\* What follows the scroll position, the pointer or the window's size is where
\* they are unless an event or a frame is on its way.
DrawnFollows == F!FollowsClosely /\ T!DiagramInPlace
=============================================================================
