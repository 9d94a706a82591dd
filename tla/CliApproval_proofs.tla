-------------------------- MODULE CliApproval_proofs --------------------------
(***************************************************************************)
(* Proofs about CliApproval, for any number of requests, lines and prompts *)
(* open at a time.  Everything follows from finish: it takes a request out *)
(* of the armed timers and the open interfaces in the step that settles    *)
(* it, so the two sets are always the pending requests (OpenIsPending),    *)
(* and a line or a timer only ever meets a request that is pending.        *)
(***************************************************************************)
EXTENDS CliApproval, TLAPS

\* A request is approved by a line, which is remembered; decidedBy has its type.
Answered == ApprovedWasAnswered /\ decidedBy \in [Call -> SUBSET Call] /\ stream \in Seq(Line)

\* The results, with the sets that depend on them.
Results == result \in [Call -> Contract!Settled \cup {"none", "pending"}]

IInv == Results /\ OpenIsPending /\ Answered /\ flowing \in BOOLEAN /\ typed \in Nat

LEMMA Words ==
    /\ "approved" \in Contract!Settled /\ "declined" \in Contract!Settled
    /\ "timeout" \in Contract!Settled
    /\ "none" \notin Contract!Settled /\ "pending" \notin Contract!Settled
BY DEF Contract!Settled

LEMMA InitIInv == Init => IInv
<1> SUFFICES ASSUME Init PROVE IInv
  OBVIOUS
<1>1. Results /\ OpenIsPending
  BY DEF Init, Results, OpenIsPending, Pending
<1>2. decidedBy \in [Call -> SUBSET Call] /\ stream \in Seq(Line)
  BY DEF Init
<1>3. ApprovedWasAnswered
  BY DEF Init, ApprovedWasAnswered
<1> QED BY <1>1, <1>2, <1>3 DEF IInv, Answered, Init

\* finish settles exactly the pending requests of S, and closes what it settles.
LEMMA Finishes ==
    ASSUME Results, OpenIsPending, NEW S \in SUBSET Call, NEW r \in Contract!Settled, finish(S, r)
    PROVE  /\ Results' /\ OpenIsPending'
           /\ \A c \in Call : result'[c] = IF c \in S \cap Pending THEN r ELSE result[c]
<1>1. /\ result' = [c \in Call |-> IF c \in S /\ result[c] = "pending" THEN r ELSE result[c]]
      /\ timers' = timers \ S /\ open' = open \ S
  BY DEF finish
<1>2. Results'
  BY <1>1 DEF Results
<1>3. Pending' = Pending \ S
  BY <1>1, Words DEF Pending
<1> QED BY <1>1, <1>2, <1>3 DEF OpenIsPending, Pending

\* A prompt opens with its timer.
LEMMA Requests ==
    ASSUME Results, OpenIsPending, NEW c \in Call, request(c)
    PROVE  Results' /\ OpenIsPending'
<1>1. /\ result' = [result EXCEPT ![c] = "pending"]
      /\ timers' = timers \cup {c} /\ open' = open \cup {c}
  BY DEF request
<1>2. Results'
  BY <1>1 DEF Results
<1>3. Pending' = Pending \cup {c}
  BY <1>1 DEF Pending, Results
<1> QED BY <1>1, <1>2, <1>3 DEF OpenIsPending

LEMMA StepIInv == IInv /\ [Next]_vars => IInv'
<1> SUFFICES ASSUME Results, OpenIsPending, Answered, flowing \in BOOLEAN, typed \in Nat,
                    [Next]_vars
             PROVE  IInv'
  BY DEF IInv
<1>1. ASSUME NEW c \in Call, request(c) PROVE IInv'
  <2>1. /\ result' = [result EXCEPT ![c] = "pending"] /\ flowing' = TRUE
        /\ UNCHANGED <<stream, typed, decidedBy>>
    BY <1>1 DEF request
  <2>2. Answered'
    BY <2>1 DEF Answered, ApprovedWasAnswered, Results
  <2> QED BY <1>1, <2>1, <2>2, Requests DEF IInv
<1>2. ASSUME NEW c \in Call, Timeout(c) PROVE IInv'
  <2>1. finish({c}, "timeout") /\ UNCHANGED <<stream, typed, decidedBy>>
    BY <1>2 DEF Timeout
  <2>2. /\ Results' /\ OpenIsPending'
        /\ \A d \in Call : result'[d] = IF d \in {c} \cap Pending THEN "timeout" ELSE result[d]
    BY <2>1, Finishes, Words
  <2>3. Answered'
    BY <2>1, <2>2 DEF Answered, ApprovedWasAnswered
  <2>4. flowing' \in BOOLEAN
    BY <2>1 DEF finish
  <2> QED BY <2>1, <2>2, <2>3, <2>4 DEF IInv
<1>3. CASE Answer
  <2> DEFINE r == IF Head(stream).answer = "y" THEN "approved" ELSE "declined"
  <2>1. /\ finish(open, r) /\ stream # <<>>
        /\ decidedBy' = [c \in Call |-> IF c \in open THEN {Head(stream).for} ELSE decidedBy[c]]
        /\ stream' = Tail(stream) /\ UNCHANGED typed
    BY <1>3 DEF Answer
  <2>2. open = Pending /\ open \in SUBSET Call
    BY DEF OpenIsPending, Pending
  <2>3. r \in Contract!Settled
    BY Words
  <2>4. /\ Results' /\ OpenIsPending'
        /\ \A d \in Call : result'[d] = IF d \in open \cap Pending THEN r ELSE result[d]
    BY <2>1, <2>2, <2>3, Finishes
  <2>5. Head(stream).for \in Call /\ stream' \in Seq(Line)
    <3>1. stream \in Seq(Line) /\ stream # <<>>
      BY <2>1 DEF Answered
    <3>2. Head(stream) \in Line /\ Tail(stream) \in Seq(Line)
      BY <3>1
    <3> QED BY <2>1, <3>2 DEF Line
  <2>6. decidedBy' \in [Call -> SUBSET Call]
    BY <2>1, <2>5 DEF Answered
  <2>7. ApprovedWasAnswered'
    BY <2>1, <2>2, <2>4 DEF Answered, ApprovedWasAnswered
  <2>8. flowing' \in BOOLEAN
    BY <2>1 DEF finish
  <2> QED BY <2>1, <2>4, <2>5, <2>6, <2>7, <2>8 DEF IInv, Answered
<1>4. ASSUME NEW c \in Call, NEW a \in {"y", "other"}, Type(c, a) PROVE IInv'
  <2>1. /\ stream' = Append(stream, [answer |-> a, for |-> c]) /\ typed' = typed + 1
        /\ UNCHANGED <<result, timers, open, flowing, decidedBy>>
    BY <1>4 DEF Type
  <2>2. [answer |-> a, for |-> c] \in Line
    BY DEF Line
  <2>3. Answered'
    BY <2>1, <2>2 DEF Answered, ApprovedWasAnswered
  <2> QED BY <2>1, <2>3 DEF IInv, Results, OpenIsPending, Pending
<1>5. CASE UNCHANGED vars
  BY <1>5 DEF vars, IInv, Results, OpenIsPending, Pending, Answered, ApprovedWasAnswered
<1> QED BY <1>1, <1>2, <1>3, <1>4, <1>5 DEF Next

THEOREM Invariance == Spec => []IInv
BY InitIInv, StepIInv, PTL DEF Spec

\* A prompt is open exactly while its request is pending.
THEOREM PromptsArePending == Spec => []OpenIsPending
<1>1. IInv => OpenIsPending
  BY DEF IInv
<1> QED BY Invariance, <1>1, PTL

\* A request that nobody answered is never approved.
THEOREM NoApprovalUnanswered == Spec => []ApprovedWasAnswered
<1>1. IInv => ApprovedWasAnswered
  BY DEF IInv, Answered
<1> QED BY Invariance, <1>1, PTL

\* Every variable of the provider and the stream keeps its type.
THEOREM TypeCorrect == Spec => []TypeOK
<1>1. IInv => TypeOK
  BY DEF IInv, TypeOK, Results, OpenIsPending, Pending, Answered
<1> QED BY Invariance, <1>1, PTL

\* Settling pending requests is a step of the contract.
LEMMA SettleRefines ==
    ASSUME Results, OpenIsPending, NEW S \in SUBSET Call, NEW r \in Contract!Settled, finish(S, r)
    PROVE  Contract!SettleSome
<1> DEFINE T == S \cap Pending
<1> DEFINE f == [c \in T |-> r]
<1>1. T \in SUBSET {c \in Call : result[c] = "pending"}
  BY DEF Pending
<1>2. f \in [T -> Contract!Settled]
  OBVIOUS
<1>3. result' = [c \in Call |-> IF c \in T THEN f[c] ELSE result[c]]
  BY DEF finish, Pending
<1> QED BY <1>1, <1>2, <1>3, Zenon DEF Contract!SettleSome

\* The command-line provider implements the contract the pipeline relies on, up to
\* the promise that requests settle: no line and no timer settles a request twice.
THEOREM ImplementsContract == Spec => Contract!Safety
<1>1. Init => Contract!Init
  BY DEF Init, Contract!Init
<1>2. ASSUME IInv, [Next]_vars PROVE [Contract!Next]_result
  <2>1. Results /\ OpenIsPending
    BY <1>2 DEF IInv
  <2>2. ASSUME NEW c \in Call, request(c) PROVE Contract!Next
    BY <2>2 DEF request, Contract!Next, Contract!Request
  <2>3. ASSUME NEW c \in Call, Timeout(c) PROVE Contract!Next
    BY <2>1, <2>3, SettleRefines, Words DEF Timeout, Contract!Next
  <2>4. CASE Answer
    <3>1. open \in SUBSET Call
      BY <2>1 DEF OpenIsPending, Pending
    <3>2. (IF Head(stream).answer = "y" THEN "approved" ELSE "declined") \in Contract!Settled
      BY Words
    <3> QED BY <2>1, <2>4, <3>1, <3>2, SettleRefines DEF Answer, Contract!Next
  <2>5. ASSUME NEW c \in Call, NEW a \in {"y", "other"}, Type(c, a) PROVE UNCHANGED result
    BY <2>5 DEF Type
  <2> QED BY <1>2, <2>2, <2>3, <2>4, <2>5 DEF Next, vars
<1> QED BY Invariance, <1>1, <1>2, PTL DEF Spec, Contract!Safety
=============================================================================
