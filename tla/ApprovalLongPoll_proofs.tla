----------------------- MODULE ApprovalLongPoll_proofs -----------------------
(***************************************************************************)
(* Proofs about ApprovalLongPoll: an action is taken at most once, the     *)
(* caller is told the truth, and the wait is bounded, for every budget,    *)
(* interval and timeout.                                                   *)
(***************************************************************************)
EXTENDS ApprovalLongPoll, TLAPS

\* The books of the proxy: an action it took either ran at once or has an approval,
\* and an approval that ran, or failed, or was refused, changes no more.
Shape(a) ==
    /\ a.status = "none" => a = Unasked
    /\ a.executed_at => a.status = "approved" /\ a.result # "none"
    /\ a.result # "none" => a.executed_at
    /\ a.execution_error => a.status = "approved" /\ ~a.executed_at

Final(a) == a.status \in {"denied", "expired"} \/ a.executed_at \/ a.execution_error

Ledger ==
    /\ accepted <= 1
    /\ Shape(approval) /\ Shape(status)
    /\ approval.status = "none" => ran = accepted
    /\ approval.status # "none" => accepted = 1 /\ ran = (IF approval.executed_at THEN 1 ELSE 0)
    /\ stray = "sent" => accepted = 0
    /\ Final(status) => approval = status

\* What the place of the activation and the reply on the wire say about the books.
Protocol ==
    /\ pc = "start" => accepted = 0
    /\ pc # "done" => stray = "none"
    /\ pc = "posting" => wire \notin {"none", "status"}
    /\ pc = "posting" /\ wire \in {"sent", "401", "403"} => accepted = 0
    /\ pc = "posted" => wire \notin {"none", "sent", "status"}
    /\ pc \in {"posting", "posted"} /\ wire = "200" => ran = 1
    /\ pc \in {"posting", "posted"} /\ wire \in {"202", "202 without id"} => approval.status # "none"
    /\ pc \in {"checking", "sleeping", "polling", "polled"} => approval.status # "none"
    /\ pc = "polling" => wire \in {"sent", "401", "error", "status"}
    /\ pc = "polled" => wire \in {"401", "error", "status"}

\* Timers are never overdue, and each place is reached within its time.
OneRequest == 2 * ReqTimeout + BodyTime
BeforeRetry == IF attempt = 2 THEN ReqTimeout ELSE 0

Timed ==
    /\ pc = "start" => elapsed = 0
    /\ pc = "posting" => since <= ReqTimeout /\ elapsed <= BeforeRetry + since
    /\ pc = "posted" => since <= BodyTime /\ elapsed <= 2 * ReqTimeout + since
    /\ pc \in {"checking", "sleeping", "polling", "polled"} => elapsed <= loop + OneRequest
    /\ pc = "checking" => loop <= Budget - 1 + Poll + OneRequest
    /\ pc = "sleeping" => since <= Poll /\ loop <= Budget - 1 + since
    /\ pc = "polling" => since <= ReqTimeout /\ loop <= Budget - 1 + Poll + BeforeRetry + since
    /\ pc = "polled" => since <= BodyTime /\ loop <= Budget - 1 + Poll + 2 * ReqTimeout + since
    /\ elapsed <= WaitBound

IInv == TypeOK /\ Ledger /\ Protocol /\ OutcomeTruthful /\ Timed

\* What the proxy writes: only the named fields of the approval change.
LEMMA QueueWrites ==
    ASSUME TypeOK, Queue
    PROVE  /\ approval' \in Approval /\ approval'.status = "pending" /\ ~approval'.executed_at
           /\ approval'.result = "none" /\ ~approval'.execution_error
           /\ accepted' = accepted + 1 /\ ran' = ran
BY DEF TypeOK, Queue, Approval, Unasked

LEMMA DecideWrites ==
    ASSUME TypeOK, OwnerDecides
    PROVE  /\ approval' \in Approval /\ approval'.status \in {"approved", "denied", "expired"}
           /\ approval'.executed_at = approval.executed_at /\ approval'.result = approval.result
           /\ approval'.execution_error = approval.execution_error
BY DEF TypeOK, OwnerDecides, Approval

ExecuteRuns ==
    /\ approval'.executed_at /\ approval'.result \in {"2xx", "other"}
    /\ approval'.execution_error = approval.execution_error /\ ran' = ran + 1
ExecuteFails ==
    /\ approval'.execution_error /\ approval'.executed_at = approval.executed_at
    /\ approval'.result = approval.result /\ ran' = ran

LEMMA ExecuteWrites ==
    ASSUME TypeOK, Execute
    PROVE  /\ approval' \in Approval /\ approval'.status = approval.status
           /\ ExecuteRuns \/ ExecuteFails
BY DEF TypeOK, Execute, Approval, ExecuteRuns, ExecuteFails

LEMMA UnaskedIsApproval ==
    /\ Unasked \in Approval /\ Unasked.status = "none" /\ ~Unasked.executed_at
    /\ Unasked.result = "none" /\ ~Unasked.execution_error
BY DEF Approval, Unasked

\* Before the proxy took the action there is nothing to be told about it.
LEMMA NothingTaken ==
    ASSUME TypeOK, Ledger, OutcomeTruthful, accepted = 0
    PROVE  /\ approval = Unasked /\ approval.status = "none" /\ ran = 0 /\ ~Final(status)
           /\ outcome \notin {"ok", "denied", "expired", "execution_error", "upstream_error",
                              "pending_approval", "accepted"}
<1>1. approval.status = "none" /\ ran = 0
  BY DEF TypeOK, Ledger
<1>2. approval = Unasked
  BY <1>1 DEF Ledger, Shape
<1>3. ~Final(status)
  BY <1>2, UnaskedIsApproval DEF Ledger, Final
<1>4. approval.status # outcome \/ outcome \notin {"denied", "expired"}
  BY <1>1
<1>5. ~approval.execution_error
  BY <1>2, UnaskedIsApproval
<1> QED BY <1>1, <1>2, <1>3, <1>4, <1>5 DEF OutcomeTruthful

\* Every action keeps the types.
LEMMA TypeStep == ASSUME TypeOK, Next PROVE TypeOK'
<1>1. CASE Start
  BY <1>1 DEF TypeOK, client, proxy, Start, Send
<1>2. CASE RetryOn401
  BY <1>2 DEF TypeOK, client, proxy, RetryOn401, Requesting
<1>3. CASE Headers
  BY <1>3 DEF TypeOK, client, proxy, Headers, Requesting
<1>4. CASE Abort
  BY <1>4 DEF TypeOK, client, proxy, Abort, NetworkFails, RequestFails, Requesting, End, Outcome
<1>5. CASE NetworkFails
  BY <1>5 DEF TypeOK, client, proxy, NetworkFails, RequestFails, Requesting, End, Outcome
<1>6. CASE BodyFails
  BY <1>6 DEF TypeOK, client, proxy, BodyFails, Reading, End, Outcome
<1>7. CASE ActionAnswered
  <2>1. CASE wire = "202"
    BY <1>7, <2>1 DEF TypeOK, proxy, ActionAnswered, End
  <2>2. CASE wire # "202"
    <3>1. PICK o \in {"ok", "accepted", "access_denied", "proxy_error"} : End(o)
      BY <1>7, <2>2 DEF ActionAnswered
    <3>2. o \in Outcome
      BY <3>1 DEF Outcome
    <3> QED BY <1>7, <3>1, <3>2 DEF TypeOK, proxy, ActionAnswered, End
  <2> QED BY <2>1, <2>2
<1>8. CASE LoopTest
  BY <1>8 DEF TypeOK, client, proxy, LoopTest, End, Outcome
<1>9. CASE Wake
  BY <1>9 DEF TypeOK, client, proxy, Wake, Send
<1>10. CASE StatusAnswered
  BY <1>10 DEF TypeOK, client, proxy, StatusAnswered, End, interpret, Upstream, Executed, Outcome
<1>11. CASE Resume
  BY <1>11 DEF TypeOK, client, proxy, Resume
<1>12. CASE ReceivePost
  <2>0. /\ pc = "posting" /\ wire = "sent"
        /\ UNCHANGED <<pc, attempt, status, since, loop, elapsed, outcome, resumes, program, stray>>
    BY <1>12 DEF ReceivePost
  <2>1. CASE RunNow /\ wire' \in {"200", "error"}
    <3>1. wire' \in {"none", "sent"} \cup Reply
      BY <2>1 DEF Reply
    <3> QED BY <2>0, <2>1, <3>1 DEF TypeOK, RunNow
  <2>2. CASE Queue /\ wire' \in {"202", "202 without id"}
    <3>1. wire' \in {"none", "sent"} \cup Reply
      BY <2>2 DEF Reply
    <3>2. approval' \in Approval /\ accepted' = accepted + 1 /\ ran' = ran
      BY <2>2, QueueWrites
    <3> QED BY <2>0, <3>1, <3>2 DEF TypeOK
  <2>3. CASE wire' \in {"401", "403", "error"} /\ UNCHANGED <<approval, accepted, ran>>
    BY <2>0, <2>3, UnaskedIsApproval DEF TypeOK, Reply
  <2> QED BY <1>12, <2>1, <2>2, <2>3 DEF ReceivePost
<1>13. CASE ReceiveStray
  <2>0. stray = "sent" /\ stray' = "none" /\ UNCHANGED <<pc, attempt, wire, status, since, loop, elapsed, outcome, resumes, program>>
    BY <1>13 DEF ReceiveStray, client
  <2>1. CASE RunNow
    BY <2>0, <2>1, UnaskedIsApproval DEF TypeOK, RunNow
  <2>2. CASE Queue
    BY <2>0, <2>2, QueueWrites, UnaskedIsApproval DEF TypeOK
  <2> QED BY <1>13, <2>1, <2>2 DEF ReceiveStray
<1>14. CASE ReceivePoll
  BY <1>14 DEF TypeOK, client, proxy, ReceivePoll, Reply
<1>15. CASE OwnerDecides
  <2>0. approval.status = "pending" /\ UNCHANGED <<pc, attempt, wire, status, since, loop, elapsed, outcome, resumes, program, accepted, ran, stray>>
    BY <1>15 DEF OwnerDecides, client
  <2> QED BY <1>15, <2>0, DecideWrites, UnaskedIsApproval DEF TypeOK
<1>16. CASE Execute
  <2>0. /\ approval.status = "approved" /\ ~approval.executed_at /\ ~approval.execution_error
        /\ UNCHANGED <<pc, attempt, wire, status, since, loop, elapsed, outcome, resumes, program, accepted, stray>>
    BY <1>16 DEF Execute, client
  <2>1. CASE ExecuteRuns
    BY <1>16, <2>0, <2>1, ExecuteWrites, UnaskedIsApproval DEF TypeOK, ExecuteRuns
  <2>2. CASE ExecuteFails
    BY <1>16, <2>0, <2>2, ExecuteWrites, UnaskedIsApproval DEF TypeOK, ExecuteFails
  <2> QED BY <1>16, <2>1, <2>2, ExecuteWrites
<1>17. CASE Tick
  BY <1>17 DEF TypeOK, client, proxy, Tick, Requesting, Reading
<1> QED BY <1>1, <1>2, <1>3, <1>4, <1>5, <1>6, <1>7, <1>8, <1>9, <1>10, <1>11, <1>12, <1>13, <1>14,
   <1>15, <1>16, <1>17 DEF Next, ClientStep

\* Every action keeps the books: only the proxy writes them, and a refused POST is the only one sent again.
LEMMA LedgerStep == ASSUME TypeOK, Ledger, Protocol, OutcomeTruthful, Next PROVE Ledger'
<1>1. ASSUME \/ Start \/ RetryOn401 \/ Headers \/ BodyFails \/ ActionAnswered
             \/ LoopTest \/ Wake \/ StatusAnswered \/ Resume \/ Tick
      PROVE  Ledger'
  <2>1. UNCHANGED <<approval, accepted, ran, stray, status>>
    BY <1>1 DEF Start, Send, RetryOn401, Headers, BodyFails, ActionAnswered, LoopTest, Wake,
       StatusAnswered, End, Resume, Tick, proxy
  <2> QED BY <2>1 DEF Ledger, Shape, Final
<1>2. CASE NetworkFails \/ Abort
  <2>1. /\ UNCHANGED <<approval, accepted, ran, status>>
        /\ stray' = "none" \/ stray' = stray \/ (pc = "posting" /\ wire = "sent")
    BY <1>2 DEF NetworkFails, Abort, RequestFails, Requesting, End
  <2>2. stray' = "sent" => accepted = 0
    BY <2>1 DEF Ledger, Protocol
  <2> QED BY <2>1, <2>2 DEF Ledger, Shape, Final
<1>3. CASE ReceivePost
  <2>0. /\ pc = "posting" /\ wire = "sent"
        /\ UNCHANGED <<pc, attempt, status, since, loop, elapsed, outcome, resumes, program, stray>>
    BY <1>3 DEF ReceivePost
  <2>a. accepted = 0 /\ stray = "none"
    BY <2>0 DEF Protocol
  <2>1. CASE RunNow /\ wire' \in {"200", "error"}
    BY <2>0, <2>a, NothingTaken, <2>1, UnaskedIsApproval DEF TypeOK, Ledger, Protocol,
       OutcomeTruthful, Shape, Final, RunNow, Reply
  <2>2. CASE Queue /\ wire' \in {"202", "202 without id"}
    <3>1. /\ approval'.status = "pending" /\ ~approval'.executed_at /\ approval'.result = "none"
          /\ ~approval'.execution_error /\ accepted' = 1 /\ ran' = 0
      <4>1. accepted' = accepted + 1 /\ ran' = ran
        BY <2>2, QueueWrites
      <4>2. ran = 0
        BY <2>a, NothingTaken
      <4>3. /\ approval'.status = "pending" /\ ~approval'.executed_at /\ approval'.result = "none"
            /\ ~approval'.execution_error
        BY <2>2, QueueWrites
      <4> QED BY <2>a, <4>1, <4>2, <4>3
    <3>2. ~Final(status)' /\ stray' = "none" /\ Shape(status)'
      BY <2>0, <2>a, NothingTaken DEF Final, Shape, Ledger
    <3> QED BY <3>1, <3>2 DEF Ledger, Shape
  <2>3. CASE wire' \in {"401", "403", "error"} /\ UNCHANGED <<approval, accepted, ran>>
    BY <2>0, <2>a, NothingTaken, <2>3, UnaskedIsApproval DEF TypeOK, Ledger, Protocol,
       OutcomeTruthful, Shape, Final, Reply
  <2> QED BY <1>3, <2>1, <2>2, <2>3 DEF ReceivePost
<1>4. CASE ReceiveStray
  <2>0. stray = "sent" /\ stray' = "none" /\ UNCHANGED <<pc, attempt, wire, status, since, loop, elapsed, outcome, resumes, program>>
    BY <1>4 DEF ReceiveStray, client
  <2>a. accepted = 0 /\ pc = "done"
    BY <2>0 DEF Protocol, Ledger
  <2>1. CASE RunNow
    BY <2>0, <2>a, NothingTaken, <2>1, UnaskedIsApproval DEF TypeOK, Ledger, Protocol,
       OutcomeTruthful, Shape, Final, RunNow
  <2>2. CASE Queue
    BY <2>0, <2>a, NothingTaken, <2>2, QueueWrites, UnaskedIsApproval DEF TypeOK, Ledger, Protocol,
       OutcomeTruthful, Shape, Final
  <2> QED BY <1>4, <2>1, <2>2 DEF ReceiveStray
<1>5. CASE ReceivePoll
  BY <1>5 DEF TypeOK, Ledger, Protocol, OutcomeTruthful, Shape, Final, client, proxy, ReceivePoll
<1>6. CASE OwnerDecides
  <2>0. approval.status = "pending" /\ UNCHANGED <<pc, attempt, wire, status, since, loop, elapsed, outcome, resumes, program, accepted, ran, stray>>
    BY <1>6 DEF OwnerDecides, client
  <2> QED BY <1>6, <2>0, DecideWrites, UnaskedIsApproval DEF TypeOK, Ledger, Protocol,
     OutcomeTruthful, Shape, Final
<1>7. CASE Execute
  <2>0. /\ approval.status = "approved" /\ ~approval.executed_at /\ ~approval.execution_error
        /\ UNCHANGED <<pc, attempt, wire, status, since, loop, elapsed, outcome, resumes, program, accepted, stray>>
    BY <1>7 DEF Execute, client
  <2>1. CASE ExecuteRuns
    BY <1>7, <2>0, <2>1, ExecuteWrites, UnaskedIsApproval DEF TypeOK, Ledger, Protocol,
       OutcomeTruthful, Shape, Final, ExecuteRuns
  <2>2. CASE ExecuteFails
    BY <1>7, <2>0, <2>2, ExecuteWrites, UnaskedIsApproval DEF TypeOK, Ledger, Protocol,
       OutcomeTruthful, Shape, Final, ExecuteFails
  <2> QED BY <1>7, <2>1, <2>2, ExecuteWrites
<1> QED BY <1>1, <1>2, <1>3, <1>4, <1>5, <1>6, <1>7 DEF Next, ClientStep

\* Every action keeps the protocol between the activation and the wire.
LEMMA ProtocolStep == ASSUME TypeOK, Ledger, Protocol, OutcomeTruthful, Next PROVE Protocol'
<1>1. CASE Start
  BY <1>1 DEF Protocol, OutcomeTruthful, proxy, Start, Send
<1>2. CASE RetryOn401
  BY <1>2 DEF Protocol, OutcomeTruthful, proxy, RetryOn401, Requesting
<1>3. CASE Headers
  BY <1>3 DEF Protocol, OutcomeTruthful, proxy, Headers, Requesting
<1>4. CASE Abort
  <2>1. CASE pc = "posting"
    BY <1>4, <2>1 DEF Protocol, OutcomeTruthful, proxy, End, Abort, RequestFails, Requesting
  <2>2. CASE pc = "polling"
    BY <1>4, <2>2 DEF Protocol, OutcomeTruthful, proxy, End, Abort, RequestFails, Requesting
  <2> QED BY <1>4, <2>1, <2>2 DEF Abort, Requesting
<1>5. CASE NetworkFails
  <2>1. CASE pc = "posting"
    BY <1>5, <2>1 DEF Protocol, OutcomeTruthful, proxy, End, NetworkFails, RequestFails, Requesting
  <2>2. CASE pc = "polling"
    BY <1>5, <2>2 DEF Protocol, OutcomeTruthful, proxy, End, NetworkFails, RequestFails, Requesting
  <2> QED BY <1>5, <2>1, <2>2 DEF NetworkFails, Requesting
<1>6. CASE BodyFails
  BY <1>6 DEF Protocol, OutcomeTruthful, proxy, BodyFails, Reading, End
<1>7. CASE ActionAnswered
  BY <1>7 DEF Protocol, OutcomeTruthful, proxy, ActionAnswered, End
<1>8. CASE LoopTest
  BY <1>8 DEF Protocol, OutcomeTruthful, proxy, LoopTest, End
<1>9. CASE Wake
  BY <1>9 DEF Protocol, OutcomeTruthful, proxy, Wake, Send
<1>10. CASE StatusAnswered
  BY <1>10 DEF Protocol, OutcomeTruthful, proxy, StatusAnswered, End, interpret, Upstream, Executed
<1>11. CASE Resume
  BY <1>11 DEF TypeOK, Ledger, Protocol, OutcomeTruthful, proxy, Resume
<1>12. CASE ReceivePost
  <2>0. /\ pc = "posting" /\ wire = "sent"
        /\ UNCHANGED <<pc, attempt, status, since, loop, elapsed, outcome, resumes, program, stray>>
    BY <1>12 DEF ReceivePost
  <2>a. accepted = 0 /\ stray = "none"
    BY <2>0 DEF Protocol
  <2>1. CASE RunNow /\ wire' \in {"200", "error"}
    <3>1. ran' = 1 /\ approval' = approval
      BY <2>a, <2>1, NothingTaken DEF RunNow
    <3> QED BY <2>0, <2>a, <2>1, <3>1 DEF Protocol
  <2>2. CASE Queue /\ wire' \in {"202", "202 without id"}
    BY <2>0, <2>a, NothingTaken, <2>2, QueueWrites, UnaskedIsApproval DEF Protocol
  <2>3. CASE wire' \in {"401", "403", "error"} /\ UNCHANGED <<approval, accepted, ran>>
    BY <2>0, <2>a, <2>3 DEF Protocol
  <2> QED BY <1>12, <2>1, <2>2, <2>3 DEF ReceivePost
<1>13. CASE ReceiveStray
  <2>0. stray = "sent" /\ stray' = "none" /\ UNCHANGED <<pc, attempt, wire, status, since, loop, elapsed, outcome, resumes, program>>
    BY <1>13 DEF ReceiveStray, client
  <2>a. accepted = 0 /\ pc = "done"
    BY <2>0 DEF Protocol, Ledger
  <2>1. CASE RunNow
    BY <2>0, <2>a, NothingTaken, <2>1, UnaskedIsApproval DEF Protocol, RunNow
  <2>2. CASE Queue
    BY <2>0, <2>a, NothingTaken, <2>2, QueueWrites, UnaskedIsApproval DEF Protocol
  <2> QED BY <1>13, <2>1, <2>2 DEF ReceiveStray
<1>14. CASE ReceivePoll
  BY <1>14 DEF Protocol, OutcomeTruthful, proxy, ReceivePoll
<1>15. CASE OwnerDecides
  <2>0. approval.status = "pending" /\ UNCHANGED <<pc, attempt, wire, status, since, loop, elapsed, outcome, resumes, program, accepted, ran, stray>>
    BY <1>15 DEF OwnerDecides, client
  <2> QED BY <1>15, <2>0, DecideWrites, UnaskedIsApproval DEF Protocol
<1>16. CASE Execute
  <2>0. /\ approval.status = "approved" /\ ~approval.executed_at /\ ~approval.execution_error
        /\ UNCHANGED <<pc, attempt, wire, status, since, loop, elapsed, outcome, resumes, program, accepted, stray>>
    BY <1>16 DEF Execute, client
  <2>1. CASE ExecuteRuns
    <3>1. ran = 0 /\ accepted = 1 /\ approval'.status = "approved"
      BY <1>16, <2>0, ExecuteWrites DEF Ledger
    <3> QED BY <2>0, <3>1 DEF Protocol
  <2>2. CASE ExecuteFails
    BY <1>16, <2>0, <2>2, ExecuteWrites, UnaskedIsApproval DEF Protocol, ExecuteFails
  <2> QED BY <1>16, <2>1, <2>2, ExecuteWrites
<1>17. CASE Tick
  BY <1>17 DEF Protocol, OutcomeTruthful, proxy, Tick, Requesting, Reading
<1> QED BY <1>1, <1>2, <1>3, <1>4, <1>5, <1>6, <1>7, <1>8, <1>9, <1>10, <1>11, <1>12, <1>13, <1>14,
   <1>15, <1>16, <1>17 DEF Next, ClientStep

\* Every action keeps what was told true: a final verdict changes no more.
LEMMA TruthStep == ASSUME TypeOK, Ledger, Protocol, OutcomeTruthful, Next PROVE OutcomeTruthful'
<1>1. ASSUME \/ Start \/ RetryOn401 \/ Headers \/ Wake \/ Tick \/ ReceivePoll \/ Resume
             \/ NetworkFails \/ Abort \/ BodyFails
      PROVE  OutcomeTruthful'
  <2>1. /\ UNCHANGED <<approval, accepted, ran>>
        /\ outcome' = outcome \/ outcome' \in {"none", "network_error", "threw"}
    BY <1>1 DEF Start, Send, RetryOn401, Headers, Wake, Tick, ReceivePoll, Resume, NetworkFails,
       Abort,
       RequestFails, Requesting, BodyFails, End, proxy
  <2> QED BY <2>1 DEF OutcomeTruthful
<1>2. CASE ActionAnswered
  <2>1. /\ UNCHANGED <<approval, accepted, ran>> /\ pc = "posted"
        /\ \/ outcome' = outcome \/ outcome' \in {"access_denied", "proxy_error"}
           \/ wire = "200" /\ outcome' = "ok"
           \/ wire = "202 without id" /\ outcome' = "accepted"
    BY <1>2 DEF ActionAnswered, End, proxy
  <2> QED BY <2>1 DEF OutcomeTruthful, Protocol, Ledger
<1>3. CASE LoopTest
  <2>1. /\ UNCHANGED <<approval, accepted, ran>> /\ pc = "checking"
        /\ outcome' = outcome \/ outcome' = "pending_approval"
    BY <1>3 DEF LoopTest, End, proxy
  <2> QED BY <2>1 DEF OutcomeTruthful, Protocol, Ledger
<1>4. CASE StatusAnswered
  <2>1. /\ UNCHANGED <<approval, accepted, ran>> /\ pc = "polled"
        /\ \/ outcome' = outcome \/ outcome' = "proxy_error"
           \/ interpret(status) # "wait" /\ outcome' = interpret(status)
    BY <1>4 DEF StatusAnswered, End, proxy
  <2>2. CASE outcome' = outcome \/ outcome' = "proxy_error"
    BY <2>1, <2>2 DEF OutcomeTruthful
  <2>3. CASE interpret(status) # "wait" /\ outcome' = interpret(status)
    <3>1. CASE status.status \in {"denied", "expired"}
      <4>1. outcome' = status.status /\ approval = status
        BY <2>3, <3>1 DEF interpret, Executed, Ledger, Final
      <4>2. ran = 0
        BY <3>1, <4>1 DEF Ledger, Shape
      <4> QED BY <2>1, <3>1, <4>1, <4>2 DEF OutcomeTruthful
    <3>2. CASE status.execution_error
      <4>1. approval = status /\ status.status = "approved" /\ ~status.executed_at
        BY <3>2 DEF Ledger, Final, Shape
      <4>2. outcome' = "execution_error" /\ ran = 0
        BY <2>3, <3>2, <4>1 DEF interpret, Executed, Ledger
      <4> QED BY <2>1, <3>2, <4>1, <4>2 DEF OutcomeTruthful
    <3>3. CASE ~(status.status \in {"denied", "expired"}) /\ ~status.execution_error
      <4>1. Executed(status) /\ outcome' = Upstream(status)
        BY <2>3, <3>3 DEF interpret
      <4>2. approval = status /\ ran = 1
        BY <4>1 DEF Executed, Ledger, Final
      <4>3. outcome' = "ok" \/ (outcome' = "upstream_error" /\ status.result = "other")
        BY <4>1 DEF Upstream, Executed, TypeOK, Approval
      <4> QED BY <2>1, <4>2, <4>3 DEF OutcomeTruthful
    <3> QED BY <3>1, <3>2, <3>3
  <2> QED BY <2>1, <2>2, <2>3
<1>5. CASE ReceivePost
  <2>0. /\ pc = "posting" /\ wire = "sent"
        /\ UNCHANGED <<pc, attempt, status, since, loop, elapsed, outcome, resumes, program, stray>>
    BY <1>5 DEF ReceivePost
  <2>a. accepted = 0 /\ stray = "none"
    BY <2>0 DEF Protocol
  <2>1. CASE RunNow /\ wire' \in {"200", "error"}
    BY <2>0, <2>a, NothingTaken, <2>1, UnaskedIsApproval DEF TypeOK, Ledger, Protocol,
       OutcomeTruthful, Shape, Final, RunNow, Reply
  <2>2. CASE Queue /\ wire' \in {"202", "202 without id"}
    BY <2>0, <2>a, NothingTaken, <2>2, QueueWrites, UnaskedIsApproval DEF TypeOK, Ledger, Protocol,
       OutcomeTruthful, Shape, Final, Reply
  <2>3. CASE wire' \in {"401", "403", "error"} /\ UNCHANGED <<approval, accepted, ran>>
    BY <2>0, <2>a, NothingTaken, <2>3, UnaskedIsApproval DEF TypeOK, Ledger, Protocol,
       OutcomeTruthful, Shape, Final, Reply
  <2> QED BY <1>5, <2>1, <2>2, <2>3 DEF ReceivePost
<1>6. CASE ReceiveStray
  <2>0. stray = "sent" /\ stray' = "none" /\ UNCHANGED <<pc, attempt, wire, status, since, loop, elapsed, outcome, resumes, program>>
    BY <1>6 DEF ReceiveStray, client
  <2>a. accepted = 0 /\ pc = "done"
    BY <2>0 DEF Protocol, Ledger
  <2>1. CASE RunNow
    BY <2>0, <2>a, NothingTaken, <2>1, UnaskedIsApproval DEF TypeOK, Ledger, Protocol,
       OutcomeTruthful, Shape, Final, RunNow
  <2>2. CASE Queue
    BY <2>0, <2>a, NothingTaken, <2>2, QueueWrites, UnaskedIsApproval DEF TypeOK, Ledger, Protocol,
       OutcomeTruthful, Shape, Final
  <2> QED BY <1>6, <2>1, <2>2 DEF ReceiveStray
<1>7. CASE OwnerDecides
  <2>0. approval.status = "pending" /\ UNCHANGED <<pc, attempt, wire, status, since, loop, elapsed, outcome, resumes, program, accepted, ran, stray>>
    BY <1>7 DEF OwnerDecides, client
  <2> QED BY <1>7, <2>0, DecideWrites, UnaskedIsApproval DEF TypeOK, Ledger, Protocol,
     OutcomeTruthful, Shape, Final
<1>8. CASE Execute
  <2>0. /\ approval.status = "approved" /\ ~approval.executed_at /\ ~approval.execution_error
        /\ UNCHANGED <<pc, attempt, wire, status, since, loop, elapsed, outcome, resumes, program, accepted, stray>>
    BY <1>8 DEF Execute, client
  <2>1. CASE ExecuteRuns
    BY <1>8, <2>0, <2>1, ExecuteWrites, UnaskedIsApproval DEF TypeOK, Ledger, Protocol,
       OutcomeTruthful, Shape, Final, ExecuteRuns
  <2>2. CASE ExecuteFails
    BY <1>8, <2>0, <2>2, ExecuteWrites, UnaskedIsApproval DEF TypeOK, Ledger, Protocol,
       OutcomeTruthful, Shape, Final, ExecuteFails
  <2> QED BY <1>8, <2>1, <2>2, ExecuteWrites
<1> QED BY <1>1, <1>2, <1>3, <1>4, <1>5, <1>6, <1>7, <1>8 DEF Next, ClientStep

\* Every action keeps the timers: only the clock and the start of a request move them.
LEMMA TimedStep == ASSUME TypeOK, Timed, Next PROVE Timed'
<1> USE TimeAssumption
<1>1. CASE Start
  BY <1>1 DEF TypeOK, Timed, OneRequest, BeforeRetry, WaitBound, client, proxy, Start, Send
<1>2. CASE RetryOn401
  BY <1>2 DEF TypeOK, Timed, OneRequest, BeforeRetry, WaitBound, client, proxy, RetryOn401,
     Requesting
<1>3. CASE Headers
  BY <1>3 DEF TypeOK, Timed, OneRequest, BeforeRetry, WaitBound, client, proxy, Headers, Requesting
<1>4. CASE Abort
  <2>1. CASE pc = "posting"
    BY <1>4, <2>1 DEF TypeOK, Timed, OneRequest, BeforeRetry, WaitBound, client, proxy, End, Abort,
       RequestFails, Requesting
  <2>2. CASE pc = "polling"
    BY <1>4, <2>2 DEF TypeOK, Timed, OneRequest, BeforeRetry, WaitBound, client, proxy, End, Abort,
       RequestFails, Requesting
  <2> QED BY <1>4, <2>1, <2>2 DEF Abort, Requesting
<1>5. CASE NetworkFails
  <2>1. CASE pc = "posting"
    BY <1>5, <2>1 DEF TypeOK, Timed, OneRequest, BeforeRetry, WaitBound, client, proxy, End,
       NetworkFails, RequestFails, Requesting
  <2>2. CASE pc = "polling"
    BY <1>5, <2>2 DEF TypeOK, Timed, OneRequest, BeforeRetry, WaitBound, client, proxy, End,
       NetworkFails, RequestFails, Requesting
  <2> QED BY <1>5, <2>1, <2>2 DEF NetworkFails, Requesting
<1>6. CASE BodyFails
  BY <1>6 DEF TypeOK, Timed, OneRequest, BeforeRetry, WaitBound, client, proxy, BodyFails, Reading,
     End
<1>7. CASE ActionAnswered
  <2>1. CASE wire = "202"
    BY <1>7, <2>1 DEF TypeOK, Timed, OneRequest, BeforeRetry, WaitBound, client, proxy, End,
       ActionAnswered
  <2>2. CASE wire # "202"
    BY <1>7, <2>2 DEF TypeOK, Timed, OneRequest, BeforeRetry, WaitBound, client, proxy, End,
       ActionAnswered
  <2> QED BY <2>1, <2>2
<1>8. CASE LoopTest
  BY <1>8 DEF TypeOK, Timed, OneRequest, BeforeRetry, WaitBound, client, proxy, LoopTest, End
<1>9. CASE Wake
  BY <1>9 DEF TypeOK, Timed, OneRequest, BeforeRetry, WaitBound, client, proxy, Wake, Send
<1>10. CASE StatusAnswered
  BY <1>10 DEF TypeOK, Timed, OneRequest, BeforeRetry, WaitBound, client, proxy, StatusAnswered,
     End, interpret, Upstream, Executed
<1>11. CASE Resume
  BY <1>11 DEF TypeOK, Timed, OneRequest, BeforeRetry, WaitBound, client, proxy, Resume
<1>12. CASE ReceivePost
  BY <1>12 DEF TypeOK, Timed, OneRequest, BeforeRetry, WaitBound, client, proxy, ReceivePost,
     RunNow, Queue
<1>13. CASE ReceiveStray
  BY <1>13 DEF TypeOK, Timed, OneRequest, BeforeRetry, WaitBound, client, proxy, ReceiveStray,
     RunNow, Queue
<1>14. CASE ReceivePoll
  BY <1>14 DEF TypeOK, Timed, OneRequest, BeforeRetry, WaitBound, client, proxy, ReceivePoll
<1>15. CASE OwnerDecides
  BY <1>15 DEF TypeOK, Timed, OneRequest, BeforeRetry, WaitBound, client, proxy, OwnerDecides
<1>16. CASE Execute
  BY <1>16 DEF TypeOK, Timed, OneRequest, BeforeRetry, WaitBound, client, proxy, Execute
<1>17. CASE Tick
  BY <1>17 DEF TypeOK, Timed, OneRequest, BeforeRetry, WaitBound, client, proxy, Tick, Requesting,
     Reading
<1> QED BY <1>1, <1>2, <1>3, <1>4, <1>5, <1>6, <1>7, <1>8, <1>9, <1>10, <1>11, <1>12, <1>13, <1>14,
   <1>15, <1>16, <1>17 DEF Next, ClientStep

\* Type correctness, with what makes it inductive.
LEMMA Invariant == Spec => []IInv
<1>1. Init => IInv
  BY TimeAssumption DEF Init, IInv, TypeOK, Ledger, Protocol, OutcomeTruthful, Timed, Approval,
     Unasked,
     Reply, Outcome, Shape, Final, WaitBound
<1>2. IInv /\ [Next]_vars => IInv'
  <2> SUFFICES ASSUME IInv, [Next]_vars PROVE IInv' OBVIOUS
  <2>1. CASE Next
    BY <2>1, TypeStep, LedgerStep, ProtocolStep, TruthStep, TimedStep DEF IInv
  <2>2. CASE UNCHANGED vars
    <3>1. UNCHANGED <<pc, attempt, wire, status, since, loop, elapsed, outcome, resumes, program>>
      BY <2>2 DEF vars, client
    <3>2. UNCHANGED <<approval, accepted, ran, stray>>
      BY <2>2 DEF vars, proxy
    <3>3. TypeOK' /\ OutcomeTruthful'
      BY <3>1, <3>2 DEF IInv, TypeOK, OutcomeTruthful
    <3>4. Ledger'
      BY <3>1, <3>2 DEF IInv, Ledger, Shape, Final
    <3>5. Protocol'
      BY <3>1, <3>2 DEF IInv, Protocol
    <3>6. Timed'
      BY <3>1 DEF IInv, Timed, BeforeRetry
    <3> QED BY <3>3, <3>4, <3>5, <3>6 DEF IInv
  <2> QED BY <2>1, <2>2
<1> QED BY <1>1, <1>2, PTL DEF Spec

\* The variables keep their types.
THEOREM TypeCorrect == Spec => []TypeOK
BY Invariant, PTL DEF IInv

\* Losses, timeouts and the retry on 401 never run or queue one call twice.
THEOREM NeverTakenTwice == Spec => []TakenOnce
<1>1. IInv => TakenOnce
  BY DEF IInv, TypeOK, Ledger, TakenOnce
<1> QED BY <1>1, Invariant, PTL

\* What the caller is told agrees with the proxy's books, then and for good.
THEOREM CallerToldTruth == Spec => []OutcomeTruthful
BY Invariant, PTL DEF IInv

\* The wait is bounded whatever the budget, the interval and the timeouts are.
THEOREM WaitEnds == Spec => []WaitBounded
<1>1. IInv => WaitBounded
  BY DEF IInv, Timed, WaitBounded
<1> QED BY <1>1, Invariant, PTL
=============================================================================
