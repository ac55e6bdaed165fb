----------------------------- MODULE Followers -----------------------------
(***************************************************************************)
(* The two widgets that follow the browser and draw once per animation       *)
(* frame: the bar that shows how far an article has been scrolled, and the   *)
(* spot of the grid that follows the pointer.  An event asks for a frame     *)
(* unless one is asked for; the widget's own flag and the browser's queue    *)
(* must never part.                                                          *)
(***************************************************************************)
EXTENDS Naturals, FiniteSets

CONSTANTS
    MaxPos,      \* the pointer, or the scroll position, is in 0..MaxPos
    Question     \* the questions below an article

VARIABLES
    widget,      \* "bar" or "spot"
    fine,        \* the device has a pointer that hovers
    mounted,
    pos,         \* where the pointer or the page is
    open,        \* the questions whose answers are shown
    frame,       \* the widget's flag: it has asked for a frame
    queued,      \* the browser is going to call back
    drawn,       \* what the widget shows: the position and the open answers then
    untold       \* the page's length changed with no event since

vars == <<widget, fine, mounted, pos, open, frame, queued, drawn, untold>>

Seen == [pos |-> pos, open |-> open]

\* The bar listens on every device, the spot to a pointer that hovers.
Follows == widget = "bar" \/ fine

TypeOK ==
    /\ widget \in {"bar", "spot"} /\ fine \in BOOLEAN /\ mounted \in BOOLEAN
    /\ pos \in 0..MaxPos /\ open \subseteq Question
    /\ frame \in BOOLEAN /\ queued \in BOOLEAN /\ untold \in BOOLEAN
    /\ drawn \in [pos : 0..MaxPos, open : SUBSET Question]

\* The effect of a widget draws at once.
Init ==
    /\ widget \in {"bar", "spot"} /\ fine \in BOOLEAN
    /\ mounted = TRUE
    /\ pos = 0 /\ open = {}
    /\ frame = FALSE /\ queued = FALSE
    /\ drawn = [pos |-> 0, open |-> {}]
    /\ untold = FALSE
-----------------------------------------------------------------------------
\* onScroll and onMove: one frame at a time.
AskForFrame ==
    /\ frame' = (frame \/ (mounted /\ Follows))
    /\ queued' = (queued \/ (mounted /\ Follows /\ ~frame))

\* The page scrolls or its window is resized, or the pointer moves.
Move(p) ==
    /\ pos' = p
    /\ AskForFrame
    /\ untold' = FALSE
    /\ UNCHANGED <<widget, fine, mounted, open, drawn>>

\* An answer is shown or hidden: the page gets longer or shorter and nobody is
\* told, unless the browser had to scroll.
Toggle(q) ==
    /\ widget = "bar" /\ mounted
    /\ open' = IF q \in open THEN open \ {q} ELSE open \cup {q}
    /\ untold' = TRUE
    /\ UNCHANGED <<widget, fine, mounted, pos, frame, queued, drawn>>

\* Mutant: the flag stays up.
DrawKeepFlag ==
    /\ queued
    /\ drawn' = Seen
    /\ queued' = FALSE
    /\ UNCHANGED <<widget, fine, mounted, pos, open, frame, untold>>

\* update and apply: the browser calls back.
Draw ==
    /\ queued
    /\ drawn' = Seen
    /\ frame' = FALSE /\ queued' = FALSE
    /\ UNCHANGED <<widget, fine, mounted, pos, open, untold>>

\* The page closes: a frame that was asked for is cancelled.
Leave ==
    /\ mounted
    /\ mounted' = FALSE
    /\ open' = {} /\ untold' = FALSE
    /\ queued' = (queued /\ ~frame)
    /\ UNCHANGED <<widget, fine, pos, frame, drawn>>

Return ==
    /\ ~mounted
    /\ mounted' = TRUE
    /\ pos' = 0
    /\ frame' = FALSE
    /\ drawn' = [pos |-> 0, open |-> {}]
    /\ UNCHANGED <<widget, fine, open, queued, untold>>

Next ==
    \/ Draw \/ Leave \/ Return
    \/ \E p \in 0..MaxPos : Move(p)
    \/ \E q \in Question : Toggle(q)

Spec == Init /\ [][Next]_vars
-----------------------------------------------------------------------------
\* What a widget shows is where the page or the pointer is, unless a frame is on
\* its way; the bar's idea of the page's length is that of the last event.  A
\* widget that is gone is never called back.
FollowsClosely ==
    /\ queued => mounted
    /\ mounted /\ Follows /\ ~queued => drawn.pos = pos /\ (untold \/ drawn.open = open)
=============================================================================
