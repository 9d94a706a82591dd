---------------------------- MODULE HostedApproval ----------------------------
(***************************************************************************)
(* AgentvaletApprovalProvider (mcp-broker/src/hosted/approval-provider.ts, *)
(* on HostedClient of client.ts): open an approval on the hosted plane,    *)
(* then poll its status until the owner decides or a deadline passes.      *)
(* Requests share no state, so one request is the whole model.  Time is    *)
(* discrete.                                                               *)
(*                                                                         *)
(* HostedClient gives fetch no time limit and retries nothing.  FetchTime, *)
(* the longest a fetch takes to settle, is an assumption about the fetch   *)
(* it was given.  The hosted plane and the owner are external.             *)
(***************************************************************************)
EXTENDS Naturals

CONSTANTS
    TimeoutMs, PollMs,   \* timeoutMs, pollMs of HostedApprovalOptions
    FetchTime

ASSUME TimeAssumption ==
    TimeoutMs \in Nat \ {0} /\ PollMs \in Nat /\ FetchTime \in Nat

VARIABLES
    pc,          \* where the request is
    result,      \* the ApprovalResult, as ApprovalContract names them
    wire,        \* the fetch in flight: "none", "sent" or the reply on its way
    since,       \* age of the fetch or of the sleep
    age,         \* now() minus the time the approval was created
    record,      \* the plane's status of the approval, "none" before it is opened
    decidedAt    \* history: the age when the owner decided

client == <<pc, result, wire, since, age>>
plane == <<record, decidedAt>>
vars == <<client, plane>>

Contract == INSTANCE ApprovalContract WITH
    Call <- {"request"}, result <- [c \in {"request"} |-> result]

Status == {"pending", "approved", "denied", "expired"}

Init ==
    /\ pc = "idle" /\ result = "none" /\ wire = "none" /\ since = 0 /\ age = 0
    /\ record = "none" /\ decidedAt = 0

Send(next) == pc' = next /\ wire' = "sent" /\ since' = 0

Settle(r) == pc' = "settled" /\ result' = r /\ wire' = "none" /\ UNCHANGED <<since, age>>

\* request: POST BROKER_APPROVALS.
request ==
    /\ pc = "idle" /\ result' = "pending" /\ Send("creating")
    /\ UNCHANGED <<age, plane>>

\* The deadline runs from the reply; a reply without an id is an error.
Created ==
    /\ pc = "creating"
    /\ \/ wire = "created" /\ pc' = "testing" /\ wire' = "none" /\ UNCHANGED <<result, since, age>>
       \/ wire \in {"created without id", "error"} /\ Settle("error")
    /\ UNCHANGED plane

\* fetch or json() rejects, or the token provider does.
FetchFails == pc \in {"creating", "polling"} /\ Settle("error") /\ UNCHANGED plane

\* The deadline is a timer beside the loop, which goes on.
LoopTestRacing ==
    /\ pc = "testing"
    /\ result' = (IF age < TimeoutMs THEN result ELSE "timeout")
    /\ Send("polling") /\ UNCHANGED <<age, plane>>

\* while (now() <= deadline)
LoopTestInclusive ==
    /\ pc = "testing"
    /\ IF age <= TimeoutMs
       THEN Send("polling") /\ UNCHANGED <<result, age>>
       ELSE Settle("timeout")
    /\ UNCHANGED plane

\* while (now() < deadline) GET the status
LoopTest ==
    /\ pc = "testing"
    /\ IF age < TimeoutMs
       THEN Send("polling") /\ UNCHANGED <<result, age>>
       ELSE Settle("timeout")
    /\ UNCHANGED plane

ResultOf == [approved |-> "approved", denied |-> "declined", expired |-> "timeout"]

\* The plane's word becomes the result.
StatusAnsweredVerbatim ==
    /\ pc = "polling"
    /\ \/ wire \in DOMAIN ResultOf /\ Settle(wire)
       \/ wire = "pending" /\ pc' = "sleeping" /\ wire' = "none" /\ since' = 0 /\ UNCHANGED <<result, age>>
       \/ wire = "error" /\ Settle("error")
    /\ UNCHANGED plane

\* Only an approval ends the loop.
StatusAnsweredDenialUnread ==
    /\ pc = "polling"
    /\ \/ wire = "approved" /\ Settle("approved")
       \/ /\ wire \in Status \ {"approved"}
          /\ pc' = "sleeping" /\ wire' = "none" /\ since' = 0 /\ UNCHANGED <<result, age>>
       \/ wire = "error" /\ Settle("error")
    /\ UNCHANGED plane

\* One reply of the status endpoint; any HTTP error throws.
StatusAnswered ==
    /\ pc = "polling"
    /\ \/ wire \in DOMAIN ResultOf /\ Settle(ResultOf[wire])
       \/ wire = "pending" /\ pc' = "sleeping" /\ wire' = "none" /\ since' = 0 /\ UNCHANGED <<result, age>>
       \/ wire = "error" /\ Settle("error")
    /\ UNCHANGED plane

\* await this.sleep(this.pollMs)
Wake ==
    /\ pc = "sleeping" /\ since = PollMs
    /\ pc' = "testing" /\ UNCHANGED <<result, wire, since, age, plane>>

----------------------------------------------------------------------------
(* The hosted plane, the owner and the clock.                              *)

ReceivePost ==
    /\ pc = "creating" /\ wire = "sent"
    /\ \/ wire' \in {"created", "created without id"} /\ record' = "pending"
       \/ wire' = "error" /\ UNCHANGED record
    /\ UNCHANGED <<pc, result, since, age, decidedAt>>

ReceiveGet ==
    /\ pc = "polling" /\ wire = "sent" /\ wire' \in {record, "error"}
    /\ UNCHANGED <<pc, result, since, age, plane>>

OwnerDecides ==
    /\ record = "pending" /\ record' \in {"approved", "denied"} /\ decidedAt' = age
    /\ UNCHANGED client

Expire == record = "pending" /\ record' = "expired" /\ UNCHANGED <<client, decidedAt>>

Tick ==
    /\ \/ pc \in {"creating", "polling"} /\ since < FetchTime
       \/ pc = "sleeping" /\ since < PollMs
    /\ since' = since + 1 /\ age' = (IF pc = "creating" THEN age ELSE age + 1)
    /\ UNCHANGED <<pc, result, wire, plane>>

ClientStep == Created \/ LoopTest \/ StatusAnswered \/ Wake
FetchSettles == FetchFails \/ Created \/ StatusAnswered

Next ==
    \/ request \/ ClientStep \/ FetchFails
    \/ ReceivePost \/ ReceiveGet \/ OwnerDecides \/ Expire \/ Tick

\* The client runs, its sleeps end, and a fetch settles, if only by failing.
Spec == Init /\ [][Next]_vars /\ WF_vars(ClientStep) /\ WF_vars(FetchSettles) /\ WF_vars(Tick)

----------------------------------------------------------------------------
(* Properties.                                                             *)

\* Every variable of the request and of the plane has its type.
TypeOK ==
    /\ pc \in {"idle", "creating", "testing", "polling", "sleeping", "settled"}
    /\ result \in Contract!Settled \cup {"none", "pending"}
    /\ wire \in {"none", "sent", "error", "created", "created without id"} \cup Status
    /\ since \in Nat /\ age \in Nat /\ decidedAt \in Nat
    /\ record \in Status \cup {"none"}

\* The hosted provider keeps the same contract as the command line's: a request
\* settles once and for all, and every request settles.
KeepsContract == Contract!Spec

\* The broker is told what the owner said: approved and declined are the owner's
\* words, and a timeout is never reported of a request that the owner approved or
\* denied while there was time for one more poll after the one under way.
Decided == record \in {"approved", "denied"}
ReportsOwner ==
    /\ result = "approved" => record = "approved"
    /\ result = "declined" => record = "denied"
    /\ result = "timeout" /\ Decided => decidedAt + FetchTime + PollMs >= TimeoutMs

\* Deny on timeout: the wait ends one fetch and one sleep after the deadline at the
\* latest, and nothing times out before its deadline unless the plane expired it.
OnTime ==
    /\ age < TimeoutMs + FetchTime + PollMs
    /\ result = "timeout" /\ record # "expired" => age >= TimeoutMs
=============================================================================
