----------------------------- MODULE Election -----------------------------
(***************************************************************************)
(* Leader election over one Redis key with a TTL, in discrete time.  Each   *)
(* node runs Elector.RunWhenLeader: a standby tries SET NX on a ticker of   *)
(* RenewInt = TTL/3, a leader renews on a ticker of the same period and     *)
(* steps down on the first renewal that is refused or fails.  The loops of   *)
(* a leader run beside its renewals: they go on while a call is out.        *)
(*                                                                         *)
(* A call is answered at once, or it hangs: it reaches Redis never, later,  *)
(* or several times (the client repeats it), also after it was given up.    *)
(* The code sets no deadline; MaxCall is what the client library's timeouts *)
(* and repeats allow.  A node that is not paused serves its ticker on time: *)
(* the clock does not advance past a due tick.  A pause (GC, VM) stops all   *)
(* of a node.  A restarted process has a new node ID, so a node that goes    *)
(* down stays down.                                                        *)
(***************************************************************************)
EXTENDS Integers

CONSTANTS
    Node,     \* leader-eligible processes
    TTL,      \* lifetime of the leader key, in ticks of the clock
    MaxCall,  \* longest time the client spends on a call, its repeats included
    Faults,   \* which of "pause", "redis", "crash" and "shutdown" may happen
    None

ASSUME ElectionAssumption ==
    /\ TTL \in Nat /\ TTL >= 3
    /\ MaxCall \in Nat
    /\ None \notin Node

RenewInt == TTL \div 3

\* The longest calls with which a leader still steps down before its key is gone.
Prompt == (TTL - RenewInt - 1) \div 2

VARIABLES
    key,      \* the leader key: the owner's ID or None
    left,     \* ticks until the key expires
    mode,     \* standby, elected (SET NX won, loops not started yet), leading,
              \* releasing (graceful shutdown) or down
    timer,    \* ticks until a node's ticker fires
    ticked,   \* nodes whose ticker has fired and was not served yet
    call,     \* a hanging call: asked, answered yes or no, or none
    spent,    \* the time a node has waited for it
    wire,     \* commands of a node that may still reach Redis
    paused,   \* nodes that are stalled
    late,     \* auxiliary: nodes that since they last took the key have stalled
              \* or have waited for a call for longer than Prompt
    stale,    \* auxiliary: ticks a node has run as leader since it lost the key
    headless  \* auxiliary: ticks since the crown was last worn, taken or renewed, or
              \* a call hung or a node stalled, while a live node could take it

calls == <<call, spent, wire>>
vars == <<key, left, mode, timer, ticked, calls, paused, late, stale, headless>>

\* headless is counted up to one tick beyond the longest failover.
HeadlessCap == TTL + RenewInt

TypeOK ==
    /\ key \in Node \cup {None}
    /\ left \in 0..TTL
    /\ key # None => left > 0
    /\ mode \in [Node -> {"standby", "elected", "leading", "releasing", "down"}]
    /\ timer \in [Node -> 1..RenewInt]
    /\ ticked \subseteq Node
    /\ call \in [Node -> {"none", "asked", "yes", "no"}]
    /\ \A n \in Node : call[n] # "none" => mode[n] \in {"standby", "leading"}
    /\ spent \in [Node -> 0..MaxCall]
    /\ wire \in [Node -> SUBSET {"set", "renew"}]
    /\ paused \subseteq Node /\ late \subseteq Node
    /\ stale \in [Node -> Nat]
    /\ headless \in 0..HeadlessCap

\* The processes start at different times: their tickers have any phase.
Init ==
    /\ key = None /\ left = 0
    /\ mode = [n \in Node |-> "standby"]
    /\ timer \in [Node -> 1..RenewInt] /\ ticked = {}
    /\ call = [n \in Node |-> "none"] /\ spent = [n \in Node |-> 0]
    /\ wire = [n \in Node |-> {}]
    /\ paused = {} /\ late = {}
    /\ stale = [n \in Node |-> 0]
    /\ headless = 0

Awake(n) == n \notin paused
Leading(n) == mode[n] = "leading"
Waiting(n) == call[n] # "none"
Due(n) == /\ Awake(n)
          /\ \/ mode[n] = "elected"
             \/ mode[n] \in {"standby", "leading"} /\ n \in ticked /\ ~Waiting(n)
-----------------------------------------------------------------------------
\* Mutant: the lease is taken for a renewal period too long.
TakeLong(n) == key' = n /\ left' = TTL + RenewInt

\* SET leader n NX PX TTL.
Take(n) == key' = n /\ left' = TTL

Acquire(n) ==
    /\ mode[n] = "standby" /\ Due(n)
    /\ IF key = None
       THEN /\ Take(n)
            /\ mode' = [mode EXCEPT ![n] = "elected"]
            /\ late' = late \ {n} /\ headless' = 0
       ELSE UNCHANGED <<key, left, mode, late, headless>>
    /\ ticked' = ticked \ {n}
    /\ UNCHANGED <<timer, calls, paused, stale>>

\* runAsLeader: the loops start and so does the renewal ticker, a whole period
\* from now however long ago the key was taken.
Begin(n) ==
    /\ mode[n] = "elected" /\ Due(n)
    /\ mode' = [mode EXCEPT ![n] = "leading"]
    /\ timer' = [timer EXCEPT ![n] = RenewInt] /\ ticked' = ticked \ {n}
    /\ UNCHANGED <<key, left, calls, paused, late, stale, headless>>

\* Mutant: the renewal extends the key whoever owns it.
OwnsKeyOrNot(n) == key # None

\* The owner check of renew.lua and release.lua.
OwnsKey(n) == key = n

Renew(n) ==
    /\ Leading(n) /\ Due(n)
    /\ OwnsKey(n)
    /\ left' = TTL
    /\ ticked' = ticked \ {n}
    /\ UNCHANGED <<key, mode, timer, calls, paused, late, stale, headless>>

\* Mutant: the leader shrugs off a renewal that found the key gone.
CarryOn(n) ==
    /\ ticked' = ticked \ {n}
    /\ UNCHANGED <<mode, timer, stale>>

\* The node is a standby again.  The ticker of RunWhenLeader has fired meanwhile,
\* so that it tries at once, and then has any phase.
StepDown(n) ==
    /\ mode' = [mode EXCEPT ![n] = "standby"]
    /\ ticked' = ticked \cup {n}
    /\ \E d \in 1..RenewInt : timer' = [timer EXCEPT ![n] = d]
    /\ stale' = [stale EXCEPT ![n] = 0]

RenewRefused(n) ==
    /\ Leading(n) /\ Due(n)
    /\ ~OwnsKey(n)
    /\ StepDown(n)
    /\ UNCHANGED <<key, left, calls, paused, late, headless>>
-----------------------------------------------------------------------------
(* Calls that hang.                                                         *)

Command(n) == IF Leading(n) THEN "renew" ELSE "set"

CallHangs(n) ==
    /\ "redis" \in Faults
    /\ mode[n] # "elected" /\ Due(n)
    /\ call' = [call EXCEPT ![n] = "asked"]
    /\ wire' = [wire EXCEPT ![n] = @ \cup {Command(n)}]
    /\ ticked' = ticked \ {n}
    /\ UNCHANGED <<key, left, mode, timer, spent, paused, late, stale, headless>>

\* Redis runs a command, also one that its sender has given up: c succeeds, and is
\* answered or not.  What is not answered may be sent again.
Heard(n, c, ok) ==
    \/ /\ call[n] = "asked" /\ c = Command(n)
       /\ call' = [call EXCEPT ![n] = IF ok THEN "yes" ELSE "no"]
       /\ wire' = [wire EXCEPT ![n] = @ \ {c}]
    \/ call[n] = "asked" /\ c = Command(n) /\ UNCHANGED <<call, wire>>
    \/ /\ ~(call[n] = "asked" /\ c = Command(n))
       /\ wire' = [wire EXCEPT ![n] = @ \ {c}] /\ UNCHANGED call

SetLands(n) ==
    /\ "set" \in wire[n]
    /\ IF key = None
       THEN Take(n) /\ late' = IF Awake(n) THEN late \ {n} ELSE late
       ELSE UNCHANGED <<key, left, late>>
    /\ Heard(n, "set", key = None)
    /\ headless' = 0
    /\ UNCHANGED <<mode, timer, ticked, spent, paused, stale>>

RenewLands(n) ==
    /\ "renew" \in wire[n]
    /\ IF OwnsKey(n) THEN left' = TTL ELSE UNCHANGED left
    /\ Heard(n, "renew", OwnsKey(n))
    /\ headless' = 0
    /\ UNCHANGED <<key, mode, timer, ticked, spent, paused, late, stale>>

CallOver(n) ==
    /\ call' = [call EXCEPT ![n] = "none"]
    /\ spent' = [spent EXCEPT ![n] = 0]

\* The answer arrives.
Answered(n) ==
    /\ Awake(n) /\ call[n] \in {"yes", "no"}
    /\ \/ Leading(n) /\ call[n] = "no" /\ StepDown(n)
       \/ /\ ~Leading(n) /\ call[n] = "yes"
          /\ mode' = [mode EXCEPT ![n] = "elected"] /\ UNCHANGED <<timer, ticked, stale>>
       \/ (Leading(n) <=> call[n] = "yes") /\ UNCHANGED <<mode, timer, ticked, stale>>
    /\ CallOver(n)
    /\ headless' = 0
    /\ UNCHANGED <<key, left, wire, paused, late>>

\* Mutant: an error is not taken for a loss; the next tick tries again.
Shrug(n) == UNCHANGED <<mode, timer, ticked, stale>>

Abdicate(n) == StepDown(n)

\* The call returns an error, whatever Redis has done or will do.  A standby stays
\* one; a leader prefers zero leaders to two.
CallFails(n) ==
    /\ Awake(n) /\ Waiting(n)
    /\ IF Leading(n) THEN Abdicate(n) ELSE UNCHANGED <<mode, timer, ticked, stale>>
    /\ CallOver(n)
    /\ headless' = 0
    /\ UNCHANGED <<key, left, wire, paused, late>>
-----------------------------------------------------------------------------
(* Shutdowns, crashes and stalls.                                           *)

\* SIGTERM.  A leader cancels its loops and will release the key; a standby
\* leaves.  A call that is out ends with the context.
Shutdown(n) ==
    /\ "shutdown" \in Faults
    /\ Awake(n) /\ mode[n] \in {"standby", "elected", "leading"}
    /\ mode' = [mode EXCEPT ![n] = IF mode[n] = "standby" THEN "down" ELSE "releasing"]
    /\ stale' = [stale EXCEPT ![n] = 0]
    /\ CallOver(n)
    /\ UNCHANGED <<key, left, timer, ticked, wire, paused, late, headless>>

Release(n) ==
    /\ mode[n] = "releasing"
    /\ IF OwnsKey(n) THEN key' = None /\ left' = 0 ELSE UNCHANGED <<key, left>>
    /\ mode' = [mode EXCEPT ![n] = "down"]
    /\ UNCHANGED <<timer, ticked, calls, paused, late, stale, headless>>

\* main waits for the HTTP server and the node, not for the elector: the
\* process may exit before the release is sent, and the release may fail.
ExitUnreleased(n) ==
    /\ mode[n] = "releasing"
    /\ mode' = [mode EXCEPT ![n] = "down"]
    /\ UNCHANGED <<key, left, timer, ticked, calls, paused, late, stale, headless>>

Crash(n) ==
    /\ "crash" \in Faults
    /\ mode[n] # "down"
    /\ mode' = [mode EXCEPT ![n] = "down"]
    /\ stale' = [stale EXCEPT ![n] = 0]
    /\ CallOver(n)
    /\ paused' = paused \ {n} /\ late' = late \ {n}
    /\ UNCHANGED <<key, left, timer, ticked, wire, headless>>

Pause(n) ==
    /\ "pause" \in Faults
    /\ Awake(n) /\ mode[n] # "down"
    /\ paused' = paused \cup {n} /\ late' = late \cup {n}
    /\ UNCHANGED <<key, left, mode, timer, ticked, calls, stale, headless>>

Resume(n) ==
    /\ n \in paused
    /\ paused' = paused \ {n}
    /\ UNCHANGED <<key, left, mode, timer, ticked, calls, late, stale, headless>>
-----------------------------------------------------------------------------
\* Mutant: the key is taken without PX and never expires.
KeyStays == UNCHANGED <<key, left>>

\* Redis lets the key go when its lifetime is over.
KeyAges == IF left > 1 THEN left' = left - 1 /\ UNCHANGED key ELSE left' = 0 /\ key' = None

Ticks(n) == mode[n] \in {"standby", "leading"}

\* A ticker goes on while its loop waits or stalls, and keeps one tick for it.
Tick ==
    /\ \A n \in Node : ~Due(n) /\ (Awake(n) /\ Waiting(n) => spent[n] < MaxCall)
    /\ KeyAges
    /\ timer' = [n \in Node |-> IF Ticks(n) /\ timer[n] > 1 THEN timer[n] - 1 ELSE RenewInt]
    /\ ticked' = {n \in Node : Ticks(n) /\ (n \in ticked \/ timer[n] = 1)}
    /\ spent' = [n \in Node |-> IF Awake(n) /\ Waiting(n) THEN spent[n] + 1 ELSE spent[n]]
    /\ late' = late \cup {n \in Node : Waiting(n) /\ spent[n] >= Prompt}
    /\ stale' = [n \in Node |-> IF ~Leading(n) \/ key = n THEN 0
                                ELSE IF Awake(n) THEN stale[n] + 1 ELSE stale[n]]
    /\ headless' = IF \/ \E n \in Node : Leading(n) \/ Waiting(n) \/ ~Awake(n)
                      \/ \A n \in Node : mode[n] \in {"releasing", "down"}
                   THEN 0
                   ELSE IF headless < HeadlessCap THEN headless + 1 ELSE headless
    /\ UNCHANGED <<mode, call, wire, paused>>

NodeStep(n) == Acquire(n) \/ Begin(n) \/ Renew(n) \/ RenewRefused(n) \/ Release(n) \/ ExitUnreleased(n)
CallEnds(n) == Answered(n) \/ CallFails(n)
NodeFault(n) == \/ Shutdown(n) \/ Crash(n) \/ Pause(n) \/ Resume(n)
                \/ CallHangs(n) \/ SetLands(n) \/ RenewLands(n)

Next == Tick \/ \E n \in Node : NodeStep(n) \/ CallEnds(n) \/ NodeFault(n)

Spec == Init /\ [][Next]_vars

(* Time passes, an awake process serves its ticker, a call ends, and so does a *)
(* stall.                                                                   *)
FairSpec == /\ Spec
            /\ WF_vars(Tick)
            /\ \A n \in Node : WF_vars(NodeStep(n)) /\ WF_vars(CallEnds(n)) /\ WF_vars(Resume(n))
-----------------------------------------------------------------------------
\* Two nodes run the singleton loops at once only when one of them, since it took
\* the key, has stalled or has waited for Redis for longer than Prompt.  Errors,
\* lost or repeated replies, commands that land late, crashes and shutdowns do not
\* make two leaders.
SingleLeader ==
    \A m, n \in Node \ late : Leading(m) /\ Leading(n) => m = n

\* docs: "there is a window ... two nodes may briefly run": whatever stalls, hangs or
\* gets lost, a node that lost the key goes on for at most two calls, or a renewal
\* period and a call, of its own running time.
Window == (IF MaxCall > RenewInt THEN MaxCall ELSE RenewInt) + MaxCall
StaleBound == \A n \in Node : stale[n] <= Window

\* The lease of a node ends early only when that node releases it, and it is extended
\* only when that node has a renewal to make or one that is still on its way: a late
\* renewal or release of a former leader never touches the lease of the next one.
LeaseIsTheOwners ==
    [][\A n \in Node : key = n =>
         /\ key' # n => (left = 1 /\ mode' = mode) \/ mode[n] = "releasing"
         /\ left' > left => (Leading(n) /\ Due(n)) \/ "renew" \in wire[n]]_vars

\* With a live standby a leader that fails at the worst moment costs less than a TTL and a
\* polling period without a leader, counted from the last call that
\* hung and the last stall.
FailoverBound == headless < TTL + RenewInt

\* As long as a node stays up, the cluster gets a leader again and again.
EventuallyLed ==
    [](\E n \in Node : mode[n] \in {"standby", "elected", "leading"}) =>
        []<>(\E n \in Node : Leading(n) /\ key = n)
=============================================================================
