----------------------------- MODULE CliApproval -----------------------------
(***************************************************************************)
(* CliApprovalProvider (mcp-broker/src/approval/cli-provider.ts): one      *)
(* readline interface per request, all on the same input stream, each with *)
(* its own timer.  The stream and readline are Node's: a line reaches      *)
(* every interface that is open when the stream delivers it; creating an   *)
(* interface resumes the stream and closing one pauses it, for all of      *)
(* them; what is typed meanwhile waits in the stream.                      *)
(*                                                                         *)
(* A line carries the call its author had in mind, which the program does  *)
(* not see.  A timeout prints nothing, so the author may still answer it.  *)
(***************************************************************************)
EXTENDS Naturals, Sequences, FiniteSets

CONSTANTS
    Call,
    MaxOpen,      \* requests pending at a time
    MaxLines      \* bound: lines the operator types

ASSUME BoundsAssumption == MaxOpen \in Nat /\ MaxLines \in Nat

VARIABLES
    result,       \* per request: "none", "pending" or how it settled
    timers,       \* requests whose timer is armed
    open,         \* interfaces not closed: they listen to the stream
    flowing,      \* the stream is not paused
    stream,       \* lines typed and not yet delivered
    typed,        \* number of lines typed
    decidedBy     \* per request: the call the deciding line was typed for

vars == <<result, timers, open, flowing, stream, typed, decidedBy>>

Contract == INSTANCE ApprovalContract

Line == [answer : {"y", "other"}, for : Call]

Init ==
    /\ result = [c \in Call |-> "none"]
    /\ timers = {} /\ open = {} /\ flowing = FALSE /\ stream = <<>> /\ typed = 0
    /\ decidedBy = [c \in Call |-> {}]

Pending == {c \in Call : result[c] = "pending"}

\* request: createInterface resumes the input; the timer is armed; question().
request(c) ==
    /\ result[c] = "none" /\ Cardinality(Pending) < MaxOpen
    /\ result' = [result EXCEPT ![c] = "pending"]
    /\ timers' = timers \cup {c} /\ open' = open \cup {c} /\ flowing' = TRUE
    /\ UNCHANGED <<stream, typed, decidedBy>>

\* Neither `settled` nor the timer is looked after: a later result replaces the first.
finishAgain(S, r) ==
    /\ result' = [c \in Call |-> IF c \in S THEN r ELSE result[c]]
    /\ open' = open \ S /\ UNCHANGED timers
    /\ flowing' = (flowing /\ S \cap open = {})

\* finish for every request of S: the first result stands, the timer is cleared
\* and the interface is closed, which pauses the input.
finish(S, r) ==
    /\ result' = [c \in Call |-> IF c \in S /\ result[c] = "pending" THEN r ELSE result[c]]
    /\ timers' = timers \ S /\ open' = open \ S
    /\ flowing' = (flowing /\ S \cap open = {})

\* The text of the line becomes the result.
AnswerVerbatim ==
    /\ flowing /\ stream # <<>> /\ open # {}
    /\ finish(open, Head(stream).answer)
    /\ decidedBy' = [c \in Call |-> IF c \in open THEN {Head(stream).for} ELSE decidedBy[c]]
    /\ stream' = Tail(stream)
    /\ UNCHANGED typed

\* The stream delivers a line: the question callback of every open interface.
Answer ==
    /\ flowing /\ stream # <<>> /\ open # {}
    /\ finish(open, IF Head(stream).answer = "y" THEN "approved" ELSE "declined")
    /\ decidedBy' = [c \in Call |-> IF c \in open THEN {Head(stream).for} ELSE decidedBy[c]]
    /\ stream' = Tail(stream)
    /\ UNCHANGED typed

\* A request that times out is let through.
TimeoutApproves(c) ==
    /\ c \in timers
    /\ finish({c}, "approved")
    /\ UNCHANGED <<stream, typed, decidedBy>>

\* The timer fires: deny on timeout.
Timeout(c) ==
    /\ c \in timers
    /\ finish({c}, "timeout")
    /\ UNCHANGED <<stream, typed, decidedBy>>

\* The operator answers a prompt on the screen, perhaps one that has settled.
Type(c, a) ==
    /\ typed < MaxLines /\ typed' = typed + 1
    /\ result[c] # "none"
    /\ stream' = Append(stream, [answer |-> a, for |-> c])
    /\ UNCHANGED <<result, timers, open, flowing, decidedBy>>

Next ==
    \/ \E c \in Call : request(c) \/ Timeout(c) \/ \E a \in {"y", "other"} : Type(c, a)
    \/ Answer

\* Timers fire while the event loop is alive, and a flowing stream delivers.
Fairness == WF_vars(Answer) /\ \A c \in Call : WF_vars(Timeout(c))

Spec == Init /\ [][Next]_vars /\ Fairness

----------------------------------------------------------------------------
(* Properties.                                                             *)

\* Every variable of the provider and the stream has its type.
TypeOK ==
    /\ result \in [Call -> Contract!Settled \cup {"none", "pending"}]
    /\ timers \subseteq Call /\ open \subseteq Call /\ flowing \in BOOLEAN
    /\ stream \in Seq(Line) /\ typed \in Nat
    /\ decidedBy \in [Call -> SUBSET Call]

\* The provider keeps the contract the pipeline relies on: each request settles
\* once and for all, and every request settles, even one whose stream was paused
\* by the end of another.
KeepsContract == Contract!Spec

\* "Approve this call? [y/N]": a call is approved only by a line typed for it.
AnswerDecidesItsCall == \A c \in Call : result[c] = "approved" => decidedBy[c] = {c}

\* Deny on timeout: a request nobody answered is not approved.
ApprovedWasAnswered == \A c \in Call : result[c] = "approved" => decidedBy[c] # {}

\* An open interface always belongs to a pending request with its timer armed, so
\* a line is never taken by a request that has already settled.
OpenIsPending == open = Pending /\ timers = Pending
=============================================================================
