------------------------------ MODULE Polling ------------------------------
(***************************************************************************)
(* What a polling component of the dashboard keeps (the usePolling hook) and *)
(* what the API client makes of an answer.  Operators only: a component      *)
(* holds a poller in its own state.  A poll does not wait for the one before *)
(* it, so that several requests of a poller are out at once and their       *)
(* answers arrive in any order.                                             *)
(***************************************************************************)
EXTENDS Naturals

CONSTANTS
    Slot,       \* the requests of one poller that may be out at once
    NoAnswer    \* the version of an empty answer

\* What a panel holds: the answer of an endpoint, with the version of the
\* server's state it describes.
Nothing == [of |-> "nothing", at |-> NoAnswer]

Free == [stage |-> "free", of |-> "nothing", at |-> NoAnswer]

Asked(endpoint) == [stage |-> "asked", of |-> endpoint, at |-> NoAnswer]

FreeSlots(p) == {s \in Slot : p.calls[s].stage = "free"}

Waiting(p) == {s \in Slot : p.calls[s].stage = "asked"}

Arrived(p) == {s \in Slot : p.calls[s].stage \in {"answered", "failed"}}

\* The hook's state on a page just mounted; its effect polls at once.
Idle == [data |-> Nothing, error |-> FALSE, calls |-> [s \in Slot |-> Free]]

Poll(p, endpoint) ==
    [p EXCEPT !.calls[CHOOSE s \in FreeSlots(p) : TRUE] = Asked(endpoint)]

Mounted(endpoint) == Poll(Idle, endpoint)

\* The client's getters throw on a network error, a status that is not 2xx and
\* a body that cannot be read.
GetJson(call, outcome, version) ==
    IF outcome = "ok"
    THEN [call EXCEPT !.stage = "answered", !.at = version]
    ELSE [call EXCEPT !.stage = "failed"]

\* getLeader answers with an empty leader instead, unless it is the body that
\* cannot be read: the parse is returned, not awaited, and escapes the catch.
GetLeader(call, outcome, version) ==
    IF outcome = "refused" THEN [call EXCEPT !.stage = "answered", !.at = NoAnswer]
    ELSE GetJson(call, outcome, version)

Serve(p, s, outcome, version) ==
    [p EXCEPT !.calls[s] =
        IF @.of = "leader" THEN GetLeader(@, outcome, version) ELSE GetJson(@, outcome, version)]

\* Mutant: an answer does not clear the error of an earlier poll.
SettleKeepError(p, s) ==
    LET call == p.calls[s] IN
    [p EXCEPT !.data = IF call.stage = "answered" THEN [of |-> call.of, at |-> call.at] ELSE @,
              !.error = @ \/ call.stage = "failed",
              !.calls[s] = Free]

\* An answer replaces what is shown, whichever request it belongs to; a failure
\* keeps the data and sets the error.
Settle(p, s) ==
    LET call == p.calls[s] IN
    [p EXCEPT !.data = IF call.stage = "answered" THEN [of |-> call.of, at |-> call.at] ELSE @,
              !.error = (call.stage = "failed"),
              !.calls[s] = Free]
=============================================================================
