-------------------------- MODULE ApprovalLongPoll --------------------------
(***************************************************************************)
(* One use_platform call through the managed proxy: the POST of the        *)
(* action, and the long-poll while its owner decides                       *)
(* (mcp-server/src/tools/handlers.ts, auth.ts, net.ts; the TypeScript SDK, *)
(* client/src/client.ts, runs the same loop with its own order of tests    *)
(* and can resume).  Time is discrete, in seconds.                         *)
(*                                                                         *)
(* fetchWithTimeout clears its timer when the headers arrive, so reading a *)
(* body is limited by nothing in the code: BodyTime is an assumption about *)
(* the network.  The proxy and the owner are external.                     *)
(***************************************************************************)
EXTENDS Naturals

CONSTANTS
    Clients,      \* the programs that may make the call: "mcp", "sdk"
    Budget,       \* APPROVAL_POLL_BUDGET_MS, approvalTimeoutMs
    Poll,         \* APPROVAL_POLL_INTERVAL_MS, approvalPollMs
    ReqTimeout,   \* timeoutMs of fetchWithTimeout
    BodyTime,     \* longest time between the headers and the end of a body
    MaxResumes    \* bound: times an SDK caller resumes a wait

ASSUME ClientAssumption == Clients \subseteq {"mcp", "sdk"}
ASSUME TimeAssumption ==
    /\ Budget \in Nat \ {0} /\ Poll \in Nat /\ ReqTimeout \in Nat /\ BodyTime \in Nat
    /\ MaxResumes \in Nat

VARIABLES
    program,       \* the program that makes the call
    pc,           \* where the activation is
    attempt,      \* 1, or 2 after a 401
    wire,         \* the request in flight: "none", "sent" or the reply on its way
    status,       \* what a "status" reply on the wire says
    since,        \* age of the request, the body or the sleep
    loop,         \* Date.now() - startedAt
    elapsed,      \* time since the caller's call (or resume) began
    outcome,      \* what the caller was told, "none" before
    resumes,
    approval,     \* the proxy's record of the action
    accepted,     \* POSTs the proxy took: ran or queued
    ran,          \* times the action reached the platform
    stray         \* a POST the client gave up on: "none", or "sent" and on its way

client == <<program, pc, attempt, wire, status, since, loop, elapsed, outcome, resumes>>
proxy == <<approval, accepted, ran, stray>>
vars == <<client, proxy>>

\* ApprovalStatusResponse, and "none" before there is an approval.
Approval == [status : {"none", "pending", "approved", "denied", "expired"},
             executed_at : BOOLEAN, result : {"none", "2xx", "other"}, execution_error : BOOLEAN]
Unasked == [status |-> "none", executed_at |-> FALSE, result |-> "none", execution_error |-> FALSE]

Reply == {"200", "202", "202 without id", "401", "403", "error", "status"}
Outcome == {"ok", "accepted", "access_denied", "proxy_error", "network_error", "threw",
            "upstream_error", "denied", "expired", "execution_error", "pending_approval"}

Init ==
    /\ program \in Clients
    /\ pc = "start" /\ attempt = 1 /\ wire = "none" /\ status = Unasked
    /\ since = 0 /\ loop = 0 /\ elapsed = 0
    /\ outcome = "none" /\ resumes = 0
    /\ approval = Unasked /\ accepted = 0 /\ ran = 0 /\ stray = "none"

----------------------------------------------------------------------------
(* The client.                                                             *)

Send(next) == pc' = next /\ attempt' = 1 /\ wire' = "sent" /\ since' = 0 /\ UNCHANGED status

End(o) ==
    /\ pc' = "done" /\ outcome' = o /\ wire' = "none"
    /\ UNCHANGED <<attempt, status, since, loop, elapsed, resumes, program>>

Requesting == pc \in {"posting", "polling"}
Reading == pc \in {"posted", "polled"}

\* The call signs a token and posts the action.
Start ==
    /\ pc = "start" /\ Send("posting")
    /\ UNCHANGED <<loop, elapsed, outcome, resumes, program, proxy>>

\* Every 401 is retried.
RetryEvery401 ==
    /\ Requesting /\ wire = "401"
    /\ wire' = "sent" /\ attempt' = attempt + 1 /\ since' = 0
    /\ UNCHANGED <<pc, status, loop, elapsed, outcome, resumes, program, proxy>>

\* fetchWithAuth: retry once on 401, with a new token.
RetryOn401 ==
    /\ Requesting /\ wire = "401" /\ attempt = 1
    /\ wire' = "sent" /\ attempt' = 2 /\ since' = 0
    /\ UNCHANGED <<pc, status, loop, elapsed, outcome, resumes, program, proxy>>

\* The headers arrived and the timer is cleared; the body is read next.
Headers ==
    /\ Requesting /\ wire \notin {"none", "sent"} /\ ~(wire = "401" /\ attempt = 1)
    /\ pc' = (IF pc = "posting" THEN "posted" ELSE "polled") /\ since' = 0
    /\ UNCHANGED <<attempt, wire, status, loop, elapsed, outcome, resumes, program, proxy>>

\* The request fails: the POST is reported, a status poll is tried again.
RequestFails ==
    /\ \/ pc = "posting" /\ End("network_error") /\ stray' \in {"none", wire} \cap {"none", "sent"}
       \/ /\ pc = "polling" /\ pc' = "checking" /\ wire' = "none"
          /\ UNCHANGED <<attempt, status, since, loop, elapsed, outcome, resumes, program, stray>>
    /\ UNCHANGED <<approval, accepted, ran>>

\* A request that fails is sent once more.
NetworkFailsRetrying ==
    /\ Requesting
    /\ \/ attempt = 2 /\ RequestFails
       \/ /\ attempt = 1 /\ wire' = "sent" /\ attempt' = 2 /\ since' = 0
          /\ UNCHANGED <<pc, status, loop, elapsed, outcome, resumes, program, proxy>>

\* fetch rejects: the connection or the reply is lost.
NetworkFails == Requesting /\ RequestFails

\* Only the POST has a timer.
AbortPostOnly == pc = "posting" /\ since = ReqTimeout /\ RequestFails

\* The timer of fetchWithTimeout aborts the request.
Abort == Requesting /\ since = ReqTimeout /\ RequestFails

\* The body breaks off: text() and json() are awaited outside the try.
BodyFails == Reading /\ End("threw") /\ UNCHANGED proxy

\* handleUsePlatform, call: what the reply to the POST means.
ActionAnswered ==
    /\ pc = "posted"
    /\ \/ /\ wire = "202" /\ pc' = "checking" /\ loop' = 0 /\ wire' = "none"
          /\ UNCHANGED <<attempt, status, since, elapsed, outcome, resumes, program>>
       \/ wire = "200" /\ End("ok")
       \/ wire = "202 without id" /\ End("accepted")
       \/ wire = "403" /\ End("access_denied")
       \/ wire \in {"401", "error"} /\ End("proxy_error")
    /\ UNCHANGED proxy

\* startedAt is taken anew on every round.
LoopTestRestarting ==
    /\ pc = "checking"
    /\ IF loop < Budget
       THEN /\ pc' = "sleeping" /\ since' = 0 /\ loop' = 0
            /\ UNCHANGED <<attempt, wire, status, elapsed, outcome, resumes, program>>
       ELSE End("pending_approval")
    /\ UNCHANGED proxy

\* while (Date.now() - startedAt < BUDGET) await sleep(INTERVAL)
LoopTest ==
    /\ pc = "checking"
    /\ IF loop < Budget
       THEN /\ pc' = "sleeping" /\ since' = 0
            /\ UNCHANGED <<attempt, wire, status, loop, elapsed, outcome, resumes, program>>
       ELSE End("pending_approval")
    /\ UNCHANGED proxy

Wake ==
    /\ pc = "sleeping" /\ since = Poll /\ Send("polling")
    /\ UNCHANGED <<loop, elapsed, outcome, resumes, program, proxy>>

Upstream(s) == IF s.result = "2xx" THEN "ok" ELSE "upstream_error"
Executed(s) == s.status = "approved" /\ s.executed_at /\ s.result # "none"

\* An approved action is reported as done, executed or not.
interpretHastily(s) ==
    IF s.status = "approved" THEN Upstream(s)
    ELSE IF s.status \in {"denied", "expired"} THEN s.status ELSE "wait"

\* The two clients test the fields of a status reply in different orders.
interpret(s) ==
    IF program = "mcp" /\ Executed(s) THEN Upstream(s)
    ELSE IF s.status \in {"denied", "expired"} THEN s.status
    ELSE IF s.execution_error THEN "execution_error"
    ELSE IF Executed(s) THEN Upstream(s)
    ELSE "wait"

\* waitForApproval: one reply of GET /v1/approvals/:id.
StatusAnswered ==
    /\ pc = "polled"
    /\ IF wire # "status"
       THEN End("proxy_error")
       ELSE IF interpret(status) = "wait"
            THEN /\ pc' = "checking" /\ wire' = "none"
                 /\ UNCHANGED <<attempt, status, since, loop, elapsed, outcome, resumes, program>>
            ELSE End(interpret(status))
    /\ UNCHANGED proxy

\* ApprovalTimeoutError carries the approval id: waitForApproval(id).
Resume ==
    /\ program = "sdk" /\ pc = "done" /\ outcome = "pending_approval" /\ resumes < MaxResumes
    /\ pc' = "checking" /\ outcome' = "none" /\ resumes' = resumes + 1 /\ loop' = 0 /\ elapsed' = 0
    /\ UNCHANGED <<program, attempt, wire, status, since, proxy>>

----------------------------------------------------------------------------
(* The proxy, the owner and the clock.                                     *)

\* The action is taken: it runs at once, or waits for its owner.
RunNow == accepted' = accepted + 1 /\ ran' = ran + 1 /\ UNCHANGED approval
Queue ==
    /\ accepted' = accepted + 1 /\ approval' = [Unasked EXCEPT !.status = "pending"]
    /\ UNCHANGED ran

ReceivePost ==
    /\ pc = "posting" /\ wire = "sent"
    /\ \/ RunNow /\ wire' \in {"200", "error"}
       \/ Queue /\ wire' \in {"202", "202 without id"}
       \/ wire' \in {"401", "403", "error"} /\ UNCHANGED <<approval, accepted, ran>>
    /\ UNCHANGED <<pc, attempt, status, since, loop, elapsed, outcome, resumes, program, stray>>

ReceiveStray == stray = "sent" /\ stray' = "none" /\ (RunNow \/ Queue) /\ UNCHANGED client

ReceivePoll ==
    /\ pc = "polling" /\ wire = "sent"
    /\ wire' \in {"401", "error", "status"}
    /\ status' = IF wire' = "status" THEN approval ELSE status
    /\ UNCHANGED <<pc, attempt, since, loop, elapsed, outcome, resumes, program, proxy>>

OwnerDecides ==
    /\ approval.status = "pending"
    /\ \E s \in {"approved", "denied", "expired"} : approval' = [approval EXCEPT !.status = s]
    /\ UNCHANGED <<client, accepted, ran, stray>>

\* The proxy runs the approved action; an error leaves no result.
Execute ==
    /\ approval.status = "approved" /\ ~approval.executed_at /\ ~approval.execution_error
    /\ \/ /\ \E r \in {"2xx", "other"} :
                approval' = [approval EXCEPT !.executed_at = TRUE, !.result = r]
          /\ ran' = ran + 1
       \/ approval' = [approval EXCEPT !.execution_error = TRUE] /\ UNCHANGED ran
    /\ UNCHANGED <<client, accepted, stray>>

\* Time passes while the client waits for something, up to the timer that is due.
Tick ==
    /\ \/ Requesting /\ since < ReqTimeout
       \/ Reading /\ since < BodyTime
       \/ pc = "sleeping" /\ since < Poll
    /\ since' = since + 1 /\ loop' = loop + 1 /\ elapsed' = elapsed + 1
    /\ UNCHANGED <<pc, attempt, wire, status, outcome, resumes, program, proxy>>

ClientStep ==
    Start \/ RetryOn401 \/ Headers \/ Abort \/ ActionAnswered \/ LoopTest \/ Wake \/ StatusAnswered

Next ==
    \/ ClientStep \/ NetworkFails \/ BodyFails \/ Resume
    \/ ReceivePost \/ ReceiveStray \/ ReceivePoll \/ OwnerDecides \/ Execute \/ Tick

\* The client's own steps and its clock; nothing is asked of proxy or owner.
Spec == Init /\ [][Next]_vars /\ WF_vars(Tick) /\ WF_vars(ClientStep)

----------------------------------------------------------------------------
(* Properties.                                                             *)

\* Every variable of the activation and of the proxy has its type.
TypeOK ==
    /\ program \in Clients
    /\ pc \in {"start", "posting", "posted", "checking", "sleeping", "polling", "polled", "done"}
    /\ attempt \in 1 .. 2 /\ wire \in {"none", "sent"} \cup Reply /\ status \in Approval
    /\ since \in Nat /\ loop \in Nat /\ elapsed \in Nat /\ resumes \in Nat
    /\ outcome \in Outcome \cup {"none"}
    /\ approval \in Approval /\ accepted \in Nat /\ ran \in Nat /\ stray \in {"none", "sent"}

\* Whatever is lost, aborted or retried, one call is taken by the proxy at most once
\* (the retry is only of a request that was refused), so the action runs at most once.
TakenOnce == accepted <= 1 /\ ran <= 1

\* The caller is told only what happened: a success ran, a denied, expired or failed
\* action did not and never will, and a pending one is known to the proxy.
OutcomeTruthful ==
    /\ outcome = "ok" => ran = 1
    /\ outcome \in {"denied", "expired"} => approval.status = outcome /\ ran = 0
    /\ outcome = "execution_error" => approval.execution_error /\ ran = 0
    /\ outcome = "upstream_error" => approval.result = "other" /\ ran = 1
    /\ outcome \in {"pending_approval", "accepted"} => accepted = 1 /\ approval.status # "none"

\* A call returns within the time of its two POSTs, the budget, and one more round:
\* the test before the sleep does not count the sleep and the poll that follow it.
WaitBound == (2 * ReqTimeout + BodyTime) + (Budget - 1) + Poll + (2 * ReqTimeout + BodyTime)
WaitBounded == elapsed <= WaitBound

\* Every call ends, whatever the proxy and the owner do or fail to do.
EveryCallEnds == pc = "posting" ~> pc = "done"
=============================================================================
