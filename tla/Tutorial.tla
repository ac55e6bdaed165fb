------------------------------ MODULE Tutorial ------------------------------
(***************************************************************************)
(* The animated diagram of the landing page.  One timeline of frames drives  *)
(* the tokens, the workers' boxes, the caption and the reaper's arrow; the   *)
(* diagram measures where its boxes are and moves the tokens there, while    *)
(* the window changes size.  What it tells is the life cycle of a task.      *)
(***************************************************************************)
EXTENDS Integers, Sequences

CONSTANTS
    WindowSize,   \* the sizes of the window
    Wide          \* those above the breakpoint

Worker == {"A", "B", "C"}
Token == {"q1", "q2", "a"}

\* A place of the diagram: a slot of the queue, or a dock.
QueueSlot(s) == [at |-> "queue", slot |-> s]
Dock(name) == [at |-> name, slot |-> 0]

\* A token of a frame; "lease" is the percentage of its bar, 0 for no bar.
Placed(place, st) ==
    [place |-> place, st |-> st, lease |-> 0, expiring |-> FALSE, hidden |-> FALSE, jump |-> FALSE]
Leased(w, st, lease) == [Placed(Dock(w), st) EXCEPT !.lease = lease]
Expiring(def) == [def EXCEPT !.expiring = TRUE]
Hidden(def) == [def EXCEPT !.hidden = TRUE]

\* The state of every worker when all but some are idle.
Working(some) == [w \in Worker |-> IF w \in DOMAIN some THEN some[w] ELSE "idle"]
Only(w, state) == [x \in {w} |-> state]
AllIdle == Working(<<>>)

Frame(step, reaper, workers, q1, q2, a) ==
    [step |-> step, reaper |-> reaper, workers |-> workers,
     tokens |-> [t \in Token |-> CASE t = "q1" -> q1 [] t = "q2" -> q2 [] OTHER -> a]]

InQueue(s) == Placed(QueueSlot(s), "queued")
Submitted == [Placed(Dock("producer"), "queued") EXCEPT !.jump = TRUE]
Done == Placed(Dock("done"), "succeeded")
DeadLetter == Placed(Dock("dead"), "failed")

\* A frame about a alone.
About(reaper, workers, a) == Frame(4, reaper, workers, Hidden(Done), Hidden(DeadLetter), a)

\* Mutant: the reaped task does not pass through the expired lease.
TimelineWithoutExpiry ==
    <<Frame(0, FALSE, AllIdle, InQueue(0), InQueue(1),
            Submitted),
      About(FALSE, Working(Only("C", "running")), Leased("C", "running", 35)),
      About(TRUE, Working(Only("C", "dead")), Placed(QueueSlot(0), "retrying"))>>

TIMELINE ==
    <<Frame(0, FALSE, AllIdle, InQueue(0), InQueue(1),
            Submitted),
      Frame(1, FALSE, AllIdle, InQueue(0), InQueue(1), InQueue(2)),
      Frame(2, FALSE, Working(Only("A", "leased")), Leased("A", "leased", 100), InQueue(0), InQueue(1)),
      Frame(3, FALSE, [w \in Worker |-> IF w = "C" THEN "idle" ELSE "running"],
            Placed(Dock("A"), "running"), Placed(Dock("B"), "running"), InQueue(0)),
      Frame(3, FALSE, AllIdle, Done, DeadLetter, InQueue(0)),
      About(FALSE, Working(Only("C", "leased")), Leased("C", "leased", 100)),
      About(FALSE, Working(Only("C", "running")), Leased("C", "running", 35)),
      About(TRUE, Working(Only("C", "dead")), Expiring(Leased("C", "leased", 6))),
      About(TRUE, Working(Only("C", "dead")), Placed(QueueSlot(0), "retrying")),
      About(FALSE, AllIdle, InQueue(0))>>

\* What is drawn instead where less motion is asked for.
STATIC_FRAME ==
    [step |-> -1, reaper |-> FALSE,
     workers |-> [w \in Worker |-> CASE w = "A" -> "leased" [] w = "B" -> "running" [] w = "C" -> "dead"],
     tokens |-> [t \in {"sq0", "sq1", "sq2", "sl", "sr", "ss", "sf"} |->
         CASE t = "sq0" -> InQueue(0)
           [] t = "sq1" -> InQueue(1)
           [] t = "sq2" -> Placed(QueueSlot(2), "retrying")
           [] t = "sl" -> Leased("A", "leased", 60)
           [] t = "sr" -> Placed(Dock("B"), "running")
           [] t = "ss" -> Done
           [] t = "sf" -> DeadLetter]]

STEPS == <<"Submit", "Queue", "Lease", "Process & ack", "Recover">>
-----------------------------------------------------------------------------
VARIABLES
    mounted,
    reduce,        \* less motion is asked for; read when the page opens
    frameIdx, i,   \* the frame that is shown, and the timeline's next one
    window,        \* the size of the window
    orientation,
    measured,      \* the size at which the anchors and slots were measured
    boxAt,         \* the size at which the workers' box was looked up
    pending        \* events of the browser that are on their way

vars == <<mounted, reduce, frameIdx, i, window, orientation, measured, boxAt, pending>>

Event == {"media", "resize", "observe"}

OrientationAt(size) == IF size \in Wide THEN "horizontal" ELSE "vertical"

TypeOK ==
    /\ mounted \in BOOLEAN /\ reduce \in BOOLEAN
    /\ frameIdx \in 0..Len(TIMELINE) - 1 /\ i \in 0..Len(TIMELINE) - 1
    /\ window \in WindowSize /\ measured \in WindowSize /\ boxAt \in WindowSize
    /\ orientation \in {"horizontal", "vertical"}
    /\ pending \subseteq Event

\* The effects of a page just opened: the first frame, the orientation, the first
\* measurement.
Init ==
    /\ mounted = TRUE
    /\ reduce \in BOOLEAN
    /\ frameIdx = 0 /\ i = IF reduce THEN 0 ELSE 1
    /\ window \in WindowSize
    /\ orientation = OrientationAt(window) /\ measured = window /\ boxAt = window
    /\ pending = {}
-----------------------------------------------------------------------------
\* Mutant: the timeline runs past its end.
NextIndexUnwrapped == i + 1

NextIndex == (i + 1) % Len(TIMELINE)

\* The timer of a frame runs out.
Tick ==
    /\ mounted /\ ~reduce
    /\ frameIdx' = i
    /\ i' = NextIndex
    /\ boxAt' = window
    /\ UNCHANGED <<mounted, reduce, window, orientation, measured, pending>>

\* The window changes: the listeners hear of it one after the other.
Resize(size) ==
    /\ size # window
    /\ window' = size
    /\ pending' =
         IF mounted
         THEN pending \cup {"resize", "observe"}
                      \cup {e \in {"media"} : (size \in Wide) # (window \in Wide)}
         ELSE {}
    /\ UNCHANGED <<mounted, reduce, frameIdx, i, orientation, measured, boxAt>>

\* Mutant: the anchors are measured once.
MeasureOnce == UNCHANGED measured /\ boxAt' = window

\* measure: the anchors are replaced and everything is drawn again.
Measure == measured' = window /\ boxAt' = window

\* The resize event, or the observer of the container.
Resized(e) ==
    /\ e \in pending \cap {"resize", "observe"}
    /\ Measure
    /\ pending' = pending \ {e}
    /\ UNCHANGED <<mounted, reduce, frameIdx, i, window, orientation>>

\* The breakpoint was crossed: a new orientation runs the effect again.
MediaChange ==
    /\ "media" \in pending
    /\ orientation' = OrientationAt(window)
    /\ IF orientation' # orientation THEN Measure ELSE UNCHANGED <<measured, boxAt>>
    /\ pending' = pending \ {"media"}
    /\ UNCHANGED <<mounted, reduce, frameIdx, i, window>>

Leave ==
    /\ mounted
    /\ mounted' = FALSE
    /\ frameIdx' = 0 /\ i' = 0
    /\ pending' = {}
    /\ UNCHANGED <<reduce, window, orientation, measured, boxAt>>

Return ==
    /\ ~mounted
    /\ mounted' = TRUE
    /\ reduce' \in BOOLEAN
    /\ i' = IF reduce' THEN 0 ELSE 1
    /\ orientation' = OrientationAt(window) /\ Measure
    /\ UNCHANGED <<frameIdx, window, pending>>

Next ==
    \/ Tick \/ MediaChange \/ Leave \/ Return
    \/ \E size \in WindowSize : Resize(size)
    \/ \E e \in Event : Resized(e)

Spec == Init /\ [][Next]_vars
-----------------------------------------------------------------------------
(* What is drawn.                                                           *)

Scene == IF reduce THEN STATIC_FRAME ELSE TIMELINE[frameIdx + 1]

\* tokenPos: the place, at the size of the last measurement.
tokenPos(def) == [place |-> def.place, size |-> measured, visible |-> ~def.hidden]

Visible == {t \in DOMAIN Scene.tokens : tokenPos(Scene.tokens[t]).visible}

TokenDot(def) ==
    [pos |-> tokenPos(def), glides |-> ~(def.jump \/ reduce), st |-> def.st,
     ping |-> def.st = "running",
     bar |-> IF def.lease = 0 THEN "none" ELSE IF def.expiring THEN "failed" ELSE "leased"]

\* Mutant: a dead worker has a dot like the others.
WorkerNodeDotted(state) == [tone |-> state, sign |-> "dot"]

WorkerNode(state) == [tone |-> state, sign |-> IF state = "dead" THEN "skull" ELSE "dot"]

\* The arrows: anchors as measured, the workers' box as it is looked up.
Connectors ==
    {[from |-> l[1], to |-> l[2], sizes |-> {measured} \cup (IF "workersBox" \in {l[1], l[2]} THEN {boxAt} ELSE {})] :
        l \in {<<"producer", "queue">>, <<"queue", "workersBox">>,
               <<"workersBox", "done">>, <<"workersBox", "dead">>, <<"workersBox", "queue">>}}

ACTIVE_STAGE(step) == CASE step = 0 -> "producer" [] step = 1 -> "queue" [] OTHER -> "workers"

\* The stages the caption floats between.
StepAnchors(step) ==
    CASE step = 0 -> {"producer"}
      [] step = 1 -> {"queue"}
      [] step = 3 -> {"workers"}
      [] OTHER -> {"queue", "workers"}

\* The caption hides where less motion is asked for; a legend stands in.
Caption == IF reduce THEN {} ELSE {[step |-> Scene.step, near |-> StepAnchors(Scene.step),
                                    row |-> IF orientation = "horizontal" THEN "above" ELSE "beside"]}

StaticLegend == IF reduce THEN STEPS ELSE <<>>
-----------------------------------------------------------------------------
(* The life cycle of a task, as the diagram draws it.                       *)

IsWorker(place) == place.at \in Worker

\* What the place of a token stands for.
StateOf(def) ==
    CASE def.place.at = "producer" -> "held"
      [] def.place.at = "queue" -> "queued"
      [] IsWorker(def.place) -> "leased"
      [] OTHER -> def.place.at

\* One step along the arrows of a task's life; a task that fails for good passes
\* through the hands of its worker.
Arrow == {<<"held", "queued">>, <<"queued", "leased">>, <<"leased", "done">>,
          <<"leased", "dead">>, <<"leased", "queued">>}

\* A token that is still the same task after a change of the frame.
SameTask(t) ==
    /\ t \in Visible /\ t \in Visible'
    /\ ~Scene'.tokens[t].jump

\* A token moves along the arrows, is leased only from the front, goes back to the
\* queue only after its worker died and its lease ran out; a lease only runs down.
MovesAsTask(t) ==
    LET was == Scene.tokens[t]
        is == Scene'.tokens[t]
        from == StateOf(was)
        to == StateOf(is)
    IN /\ from = to \/ <<from, to>> \in Arrow
       /\ from = "queued" /\ to = "leased" =>
            \A u \in Visible : Scene.tokens[u].place.at = "queue"
                /\ Scene.tokens[u].place.slot < was.place.slot
                => StateOf(Scene'.tokens[u]) = "leased"
       /\ from = "leased" /\ to = "queued" => was.expiring /\ Scene.reaper
       /\ from = "leased" /\ to = "leased" => was.place = is.place /\ is.lease <= was.lease

\* The tokens move as the queue moves tasks.
ShowsLifecycle ==
    [][frameIdx' # frameIdx /\ mounted' /\ ~reduce =>
         \A t \in Token : SameTask(t) => MovesAsTask(t)]_vars

\* A token's colour is that of its place, its lease is drawn in a worker's hands
\* alone, and no place holds two.
TokensTold ==
    \A t \in Visible :
      LET dot == TokenDot(Scene.tokens[t])
          at == StateOf(Scene.tokens[t])
      IN /\ dot.st \in CASE at = "held" -> {"queued"}
                         [] at = "queued" -> {"queued", "retrying"}
                         [] at = "leased" -> {"leased", "running"}
                         [] at = "done" -> {"succeeded"}
                         [] at = "dead" -> {"failed"}
         /\ dot.bar # "none" => at = "leased"
         /\ \A u \in Visible \ {t} : TokenDot(Scene.tokens[u]).pos # dot.pos

\* The queue has no gap.
QueueTold ==
    \A t \in Visible :
      LET place == Scene.tokens[t].place
      IN place.at = "queue" =>
           \A s \in 0 .. place.slot - 1 : \E u \in Visible : Scene.tokens[u].place = QueueSlot(s)

\* A worker looks like the task it has, and is dead only once it lost it or is
\* losing it.
WorkersTold ==
    \A w \in Worker :
      LET tokens == {t \in Visible : Scene.tokens[t].place = Dock(w)}
          looks == WorkerNode(Scene.workers[w])
      IN IF looks.sign = "skull"
         THEN \A t \in tokens : TokenDot(Scene.tokens[t]).bar = "failed"
         ELSE /\ tokens = {} => looks.tone = "idle"
              /\ \A t \in tokens : looks.tone = TokenDot(Scene.tokens[t]).st

\* The caption stands by the stage that is lit and tells the step that is shown.
CaptionTold ==
    /\ \A c \in Caption :
         /\ c.step + 1 \in DOMAIN STEPS
         /\ ACTIVE_STAGE(c.step) \in c.near
         /\ STEPS[c.step + 1] = "Submit" <=> \E t \in Visible : StateOf(Scene.tokens[t]) = "held"
         /\ STEPS[c.step + 1] = "Lease" => \E t \in Visible : TokenDot(Scene.tokens[t]).st = "leased"
         /\ Scene.reaper => STEPS[c.step + 1] = "Recover"
    /\ (Caption = {}) # (StaticLegend = <<>>)

\* Every frame is a state the queue can be in, told consistently.
SceneConsistent == mounted => TokensTold /\ QueueTold /\ WorkersTold /\ CaptionTold

\* Tokens, arrows and caption stand where the boxes are, unless an event that
\* will say so is on its way.
DiagramInPlace ==
    mounted /\ pending = {} =>
      /\ \A t \in Visible : TokenDot(Scene.tokens[t]).pos.size = window
      /\ \A c \in Connectors : c.sizes = {window}
      /\ \A c \in Caption : c.row = "above" <=> window \in Wide
=============================================================================
