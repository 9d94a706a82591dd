------------------------ MODULE HostedApproval_proofs ------------------------
(***************************************************************************)
(* Proofs about HostedApproval, for every timeout, interval and fetch      *)
(* time.  The argument for ReportsOwner follows a status reply that was    *)
(* overtaken: if the owner decides while "pending" is on its way back, the *)
(* reply arrives within FetchTime and the sleep after it ends within       *)
(* PollMs, so the loop is at its test again by decidedAt + FetchTime +     *)
(* PollMs (Overtaken); and a poll sent after the decision reads it, which  *)
(* ends the loop.                                                          *)
(***************************************************************************)
EXTENDS HostedApproval, TLAPS

\* Where the time has gone when the owner's decision has not been read yet.
Overtaken ==
    Decided =>
        /\ pc = "testing" => age <= decidedAt + FetchTime + PollMs
        /\ pc = "polling" /\ wire = "pending" => age <= decidedAt + since
        /\ pc = "sleeping" => age <= decidedAt + FetchTime + since

\* Each timer is bounded, and the loop is inside its deadline when it polls.
Clock ==
    /\ pc \in {"idle", "creating"} => age = 0
    /\ pc \in {"creating", "polling"} => since <= FetchTime
    /\ pc = "sleeping" => since <= PollMs
    /\ pc = "polling" => age < TimeoutMs + since
    /\ pc = "sleeping" => age < TimeoutMs + FetchTime + since
    /\ age < TimeoutMs + FetchTime + PollMs

\* What a reply says is true, and a settled request was settled by what it says.
Reported ==
    /\ pc = "idle" => record = "none"
    /\ pc \in {"testing", "polling", "sleeping"} => record # "none"
    /\ pc = "creating" /\ wire = "created" => record # "none"
    /\ pc \in {"creating", "testing", "polling", "sleeping"} => result = "pending"
    /\ pc = "idle" => result = "none"
    /\ pc = "polling" /\ wire \in {"approved", "denied", "expired"} => record = wire
    /\ result = "timeout" /\ record # "expired" => age >= TimeoutMs

IInv == TypeOK /\ Clock /\ Reported /\ Overtaken /\ ReportsOwner

LEMMA InitIInv == Init => IInv
BY TimeAssumption DEF Init, IInv, TypeOK, Clock, Reported, Overtaken, ReportsOwner, Decided, Status

\* The words the client and the plane use.
LEMMA Words ==
    /\ {"approved", "declined", "timeout", "error"} \subseteq Contract!Settled
    /\ Status = {"pending", "approved", "denied", "expired"}
    /\ DOMAIN ResultOf = {"approved", "denied", "expired"}
    /\ \A w \in DOMAIN ResultOf : ResultOf[w] \in {"approved", "declined", "timeout"}
BY DEF Contract!Settled, Status, ResultOf

\* Every action keeps the types.
LEMMA TypeStep == TypeOK /\ [Next]_vars => TypeOK'
<1> SUFFICES ASSUME TypeOK, [Next]_vars PROVE TypeOK'
  OBVIOUS
<1>0. since \in Nat /\ age \in Nat
  BY DEF TypeOK
<1>1. CASE request
  BY <1>1, Words DEF TypeOK, request, Send, plane
<1>2. CASE Created
  BY <1>2, Words DEF TypeOK, Created, Settle, plane
<1>3. CASE FetchFails
  BY <1>3, Words DEF TypeOK, FetchFails, Settle, plane
<1>4. CASE LoopTest
  <2>1. /\ UNCHANGED <<age, record, decidedAt>>
        /\ pc' \in {"polling", "settled"} /\ wire' \in {"sent", "none"}
        /\ since' \in {0, since} /\ result' \in {result, "timeout"}
    BY <1>4 DEF LoopTest, Send, Settle, plane
  <2>2. since' \in Nat /\ age' \in Nat
    BY <1>0, <2>1
  <2>3. result' \in Contract!Settled \cup {"none", "pending"}
    BY <2>1, Words DEF TypeOK
  <2> QED BY <2>1, <2>2, <2>3 DEF TypeOK
<1>5. CASE StatusAnswered
  <2>1. /\ UNCHANGED <<age, record, decidedAt>>
        /\ pc' \in {"sleeping", "settled"} /\ wire' = "none"
        /\ since' \in {0, since}
        /\ \/ result' \in {result, "error"}
           \/ wire \in DOMAIN ResultOf /\ result' = ResultOf[wire]
    BY <1>5 DEF StatusAnswered, Settle, plane
  <2>2. result' \in Contract!Settled \cup {"none", "pending"}
    BY <2>1, Words DEF TypeOK
  <2>3. since' \in Nat /\ age' \in Nat
    BY <1>0, <2>1
  <2> QED BY <2>1, <2>2, <2>3 DEF TypeOK
<1>6. CASE Wake
  BY <1>6 DEF TypeOK, Wake, plane
<1>7. CASE ReceivePost
  BY <1>7, Words DEF TypeOK, ReceivePost
<1>8. CASE ReceiveGet
  BY <1>8, Words DEF TypeOK, ReceiveGet, plane
<1>9. CASE OwnerDecides
  BY <1>9, Words DEF TypeOK, OwnerDecides, client
<1>10. CASE Expire
  BY <1>10, Words DEF TypeOK, Expire, client
<1>11. CASE Tick
  <2>1. UNCHANGED <<pc, result, wire, record, decidedAt>> /\ since' = since + 1
    BY <1>11 DEF Tick, plane
  <2>2. age' \in {age, age + 1}
    BY <1>11 DEF Tick
  <2>3. since' \in Nat /\ age' \in Nat
    BY <1>0, <2>1, <2>2
  <2> QED BY <2>1, <2>3 DEF TypeOK
<1>12. CASE UNCHANGED vars
  BY <1>12 DEF TypeOK, vars, client, plane
<1> QED
  BY <1>1, <1>2, <1>3, <1>4, <1>5, <1>6, <1>7, <1>8, <1>9, <1>10, <1>11, <1>12 DEF Next, ClientStep

\* No timer runs beyond its limit, so neither does the loop.
LEMMA ClockStep == TypeOK /\ Clock /\ [Next]_vars => Clock'
<1> SUFFICES ASSUME TypeOK, Clock, [Next]_vars PROVE Clock'
  OBVIOUS
<1>0. since \in Nat /\ age \in Nat
  BY DEF TypeOK
<1> USE TimeAssumption, <1>0 DEF Clock
<1>1. CASE request
  BY <1>1 DEF request, Send, plane
<1>2. CASE Created
  BY <1>2 DEF Created, Settle, plane
<1>3. CASE FetchFails
  BY <1>3 DEF FetchFails, Settle, plane
<1>4. CASE LoopTest
  BY <1>4 DEF LoopTest, Send, Settle, plane
<1>5. CASE StatusAnswered
  BY <1>5 DEF StatusAnswered, Settle, plane
<1>6. CASE Wake
  BY <1>6 DEF Wake, plane
<1>7. CASE Tick
  BY <1>7 DEF Tick, plane
<1>8. CASE ReceivePost \/ ReceiveGet \/ OwnerDecides \/ Expire \/ UNCHANGED vars
  BY <1>8 DEF ReceivePost, ReceiveGet, OwnerDecides, Expire, vars, client, plane
<1> QED BY <1>1, <1>2, <1>3, <1>4, <1>5, <1>6, <1>7, <1>8 DEF Next, ClientStep

\* What is read and what is reported is what the plane recorded.
LEMMA ReportedStep == TypeOK /\ Reported /\ [Next]_vars => Reported'
<1> SUFFICES ASSUME TypeOK, Reported, [Next]_vars PROVE Reported'
  OBVIOUS
<1>0. since \in Nat /\ age \in Nat /\ record \in Status \cup {"none"}
  BY DEF TypeOK
<1> USE TimeAssumption, <1>0, Words DEF Reported
<1>1. CASE request
  BY <1>1 DEF request, Send, plane
<1>2. CASE Created
  BY <1>2 DEF Created, Settle, plane
<1>3. CASE FetchFails
  BY <1>3 DEF FetchFails, Settle, plane
<1>4. CASE LoopTest
  BY <1>4 DEF LoopTest, Send, Settle, plane
<1>5. CASE StatusAnswered
  BY <1>5 DEF StatusAnswered, Settle, ResultOf, plane
<1>6. CASE Wake
  BY <1>6 DEF Wake, plane
<1>7. CASE ReceivePost
  BY <1>7 DEF ReceivePost
<1>8. CASE ReceiveGet
  BY <1>8 DEF ReceiveGet, plane
<1>9. CASE OwnerDecides
  BY <1>9 DEF OwnerDecides, client
<1>10. CASE Expire
  BY <1>10 DEF Expire, client
<1>11. CASE Tick
  BY <1>11 DEF Tick, plane
<1>12. CASE UNCHANGED vars
  BY <1>12 DEF vars, client, plane
<1> QED
  BY <1>1, <1>2, <1>3, <1>4, <1>5, <1>6, <1>7, <1>8, <1>9, <1>10, <1>11, <1>12 DEF Next, ClientStep

\* A decision that was overtaken by a reply is read by the poll after it.
LEMMA OvertakenStep == IInv /\ [Next]_vars => Overtaken'
<1> SUFFICES ASSUME TypeOK, Clock, Reported, Overtaken, [Next]_vars PROVE Overtaken'
  BY DEF IInv
<1>0. since \in Nat /\ age \in Nat /\ decidedAt \in Nat
  BY DEF TypeOK
<1> USE TimeAssumption, <1>0 DEF Overtaken, Decided
<1>1. CASE request
  BY <1>1 DEF request, Send, plane
<1>2. CASE Created
  <2>1. age = 0 /\ UNCHANGED <<age, record, decidedAt>> /\ pc' \in {"testing", "settled"}
    BY <1>2 DEF Created, Clock, Settle, plane
  <2> QED BY <2>1
<1>3. CASE FetchFails
  BY <1>3 DEF FetchFails, Settle, plane
<1>4. CASE LoopTest
  BY <1>4 DEF LoopTest, Send, Settle, plane
<1>5. CASE StatusAnswered
  BY <1>5 DEF StatusAnswered, Clock, Settle, plane
<1>6. CASE Wake
  BY <1>6 DEF Wake, plane
<1>7. CASE ReceivePost
  BY <1>7 DEF ReceivePost
<1>8. CASE ReceiveGet
  BY <1>8 DEF ReceiveGet, plane
<1>9. CASE OwnerDecides
  BY <1>9 DEF OwnerDecides, client
<1>10. CASE Expire
  BY <1>10 DEF Expire, client
<1>11. CASE Tick
  BY <1>11 DEF Tick, plane
<1>12. CASE UNCHANGED vars
  BY <1>12 DEF vars, client, plane
<1> QED
  BY <1>1, <1>2, <1>3, <1>4, <1>5, <1>6, <1>7, <1>8, <1>9, <1>10, <1>11, <1>12 DEF Next, ClientStep

\* The result is the owner's decision whenever there was time to read it.
LEMMA ReportsStep == IInv /\ [Next]_vars => ReportsOwner'
<1> SUFFICES ASSUME TypeOK, Clock, Reported, Overtaken, ReportsOwner, [Next]_vars
             PROVE  ReportsOwner'
  BY DEF IInv
<1>0. since \in Nat /\ age \in Nat /\ decidedAt \in Nat
  BY DEF TypeOK
<1> USE TimeAssumption, <1>0 DEF ReportsOwner, Decided
<1>1. CASE request
  BY <1>1 DEF request, Send, plane
<1>2. CASE Created
  BY <1>2 DEF Created, Settle, plane
<1>3. CASE FetchFails
  BY <1>3 DEF FetchFails, Settle, plane
<1>4. CASE LoopTest
  BY <1>4 DEF LoopTest, Send, Settle, Overtaken, plane
<1>5. CASE StatusAnswered
  BY <1>5 DEF StatusAnswered, Settle, ResultOf, Reported, plane
<1>6. CASE Wake
  BY <1>6 DEF Wake, plane
<1>7. CASE ReceivePost
  BY <1>7 DEF ReceivePost, Reported
<1>8. CASE ReceiveGet
  BY <1>8 DEF ReceiveGet, plane
<1>9. CASE OwnerDecides
  BY <1>9 DEF OwnerDecides, Reported, client
<1>10. CASE Expire
  BY <1>10 DEF Expire, client
<1>11. CASE Tick
  BY <1>11 DEF Tick, plane
<1>12. CASE UNCHANGED vars
  BY <1>12 DEF vars, client, plane
<1> QED
  BY <1>1, <1>2, <1>3, <1>4, <1>5, <1>6, <1>7, <1>8, <1>9, <1>10, <1>11, <1>12 DEF Next, ClientStep

\* The inductive invariant holds of every behaviour.
THEOREM Invariance == Spec => []IInv
<1>1. IInv /\ [Next]_vars => IInv'
  BY TypeStep, ClockStep, ReportedStep, OvertakenStep, ReportsStep DEF IInv
<1> QED BY InitIInv, <1>1, PTL DEF Spec

\* Every variable of the request and of the plane keeps its type.
THEOREM TypeCorrect == Spec => []TypeOK
<1>1. IInv => TypeOK
  BY DEF IInv
<1> QED BY Invariance, <1>1, PTL

\* An owner's decision is reported unless it came too late for one more poll.
THEOREM OwnerIsReported == Spec => []ReportsOwner
<1>1. IInv => ReportsOwner
  BY DEF IInv
<1> QED BY Invariance, <1>1, PTL

\* The wait ends in time, and never times out early.
THEOREM WaitOnTime == Spec => []OnTime
<1>1. IInv => OnTime
  BY DEF IInv, Clock, Reported, OnTime
<1> QED BY Invariance, <1>1, PTL

\* The abstract result, as the refinement mapping gives it.
AbstractResult == [c \in {"request"} |-> result]

\* A result given to the pending request is the settling of one request.
LEMMA SettlesOne ==
    ASSUME result = "pending", result' \in Contract!Settled
    PROVE  Contract!SettleSome
<1> DEFINE S == {"request"}
<1> DEFINE r == [c \in S |-> result']
<1>1. S \in SUBSET {c \in {"request"} : AbstractResult[c] = "pending"}
  BY DEF AbstractResult
<1>2. r \in [S -> Contract!Settled]
  OBVIOUS
<1>3. AbstractResult' = [c \in {"request"} |-> IF c \in S THEN r[c] ELSE AbstractResult[c]]
  BY DEF AbstractResult
<1> QED BY <1>1, <1>2, <1>3, Zenon DEF Contract!SettleSome, AbstractResult

\* A step of the request is a step of the contract, or leaves the result alone.
LEMMA StepRefines ==
    ASSUME TypeOK, Reported, [Next]_vars
    PROVE  [Contract!Next]_AbstractResult
<1>1. CASE request
  <2>1. result = "none" /\ result' = "pending"
    BY <1>1 DEF request, Reported
  <2>2. AbstractResult["request"] = "none"
    BY <2>1 DEF AbstractResult
  <2>3. AbstractResult' = [AbstractResult EXCEPT !["request"] = "pending"]
    BY <2>1 DEF AbstractResult
  <2> QED BY <2>2, <2>3 DEF Contract!Next, Contract!Request, AbstractResult
<1>2. CASE Created \/ FetchFails \/ LoopTest \/ StatusAnswered
  <2>1. result = "pending"
    BY <1>2 DEF Reported, Created, FetchFails, LoopTest, StatusAnswered
  <2>2. result' = result \/ result' \in Contract!Settled
    BY <1>2, Words DEF Created, FetchFails, LoopTest, StatusAnswered, Settle
  <2>3. CASE result' = result
    BY <2>3 DEF AbstractResult
  <2>4. CASE result' \in Contract!Settled
    BY <2>1, <2>4, SettlesOne DEF Contract!Next
  <2> QED BY <2>2, <2>3, <2>4
<1>3. CASE Wake \/ ReceivePost \/ ReceiveGet \/ OwnerDecides \/ Expire \/ Tick \/ UNCHANGED vars
  <2>1. result' = result
    BY <1>3 DEF Wake, ReceivePost, ReceiveGet, OwnerDecides, Expire, Tick, vars, client
  <2> QED BY <2>1 DEF AbstractResult
<1> QED BY <1>1, <1>2, <1>3 DEF Next, ClientStep

\* The hosted provider implements the contract the pipeline relies on, up to the
\* promise that requests settle, which needs the fetches to settle.
THEOREM ImplementsContract == Spec => Contract!Safety
<1>1. Init => Contract!Init
  BY DEF Init, Contract!Init
<1>2. IInv /\ [Next]_vars => [Contract!Next]_AbstractResult
  BY StepRefines DEF IInv
<1> QED BY Invariance, <1>1, <1>2, PTL DEF Spec, Contract!Safety, AbstractResult
=============================================================================
