------------------------ MODULE PolicyKernel_proofs ------------------------
(***************************************************************************)
(* For every set of inputs: the evaluator is well typed and its verdict is *)
(* the documented one.                                                     *)
(***************************************************************************)
EXTENDS PolicyKernel, TLAPS

\* What the elements of an input's lists are.
LEMMA ElementTypes ==
    ASSUME NEW in \in EvaluationInput
    PROVE  /\ \A k \in DOMAIN in.guardrails :
                 /\ in.guardrails[k].id \in Id
                 /\ in.guardrails[k].target \in Target
                 /\ in.guardrails[k].appliesToRole \in Role \cup {NoRole}
                 /\ in.guardrails[k].enforcement \in {"deny", "require_approval"}
           /\ in.policy # NoPolicy =>
                 /\ in.policy \in PolicySnapshot
                 /\ in.policy.id \in Id
                 /\ \A k \in DOMAIN in.policy.rules :
                       /\ in.policy.rules[k].target \in Target
                       /\ in.policy.rules[k].effect \in {"allow", "deny"}
                 /\ \A k \in DOMAIN in.policy.approvalRules :
                       in.policy.approvalRules[k] \in Target
<1>1. in.guardrails \in Seq(Guardrail)
  BY DEF EvaluationInput
<1>2. in.policy # NoPolicy =>
         /\ in.policy \in PolicySnapshot
         /\ in.policy.id \in Id
         /\ in.policy.rules \in Seq(PolicyRule)
         /\ in.policy.approvalRules \in Seq(Target)
  BY DEF EvaluationInput, PolicySnapshot
<1>3. \A k \in DOMAIN in.guardrails : in.guardrails[k] \in Guardrail
  BY <1>1
<1>4. in.policy # NoPolicy => \A k \in DOMAIN in.policy.rules : in.policy.rules[k] \in PolicyRule
  BY <1>2
<1>5. in.policy # NoPolicy =>
         \A k \in DOMAIN in.policy.approvalRules : in.policy.approvalRules[k] \in Target
  BY <1>2
<1> QED
  BY <1>2, <1>3, <1>4, <1>5 DEF Guardrail, PolicyRule

\* Every trace event the evaluator pushes is a DecisionTraceEvent.
LEMMA EventTypes ==
    ASSUME input \in EvaluationInput, considered \in Nat
    PROVE  /\ \A k \in DOMAIN input.guardrails :
                /\ ~RoleApplies(input.guardrails[k], input) =>
                      RoleSkipped(input.guardrails[k]) \in Event
                /\ GuardrailEvent("guardrail_deny_matched", input.guardrails[k]) \in Event
                /\ GuardrailEvent("guardrail_approval_matched", input.guardrails[k]) \in Event
           /\ [kind |-> "no_policy_assigned"] \in Event
           /\ input.policy # NoPolicy =>
                /\ NoAllowEvent \in Event
                /\ \A k \in DOMAIN input.policy.rules :
                      /\ PolicyEvent("policy_allow_matched", input.policy.rules[k].target) \in Event
                      /\ PolicyEvent("policy_deny_matched", input.policy.rules[k].target) \in Event
                /\ \A k \in DOMAIN input.policy.approvalRules :
                      PolicyEvent("policy_approval_matched", input.policy.approvalRules[k]) \in Event
<1>1. ASSUME NEW k \in DOMAIN input.guardrails
      PROVE  /\ ~RoleApplies(input.guardrails[k], input) =>
                    RoleSkipped(input.guardrails[k]) \in Event
             /\ GuardrailEvent("guardrail_deny_matched", input.guardrails[k]) \in Event
             /\ GuardrailEvent("guardrail_approval_matched", input.guardrails[k]) \in Event
  BY ElementTypes DEF Event, RoleApplies, RoleSkipped, GuardrailEvent
<1>2. [kind |-> "no_policy_assigned"] \in Event
  BY DEF Event
<1>3. ASSUME input.policy # NoPolicy
      PROVE  /\ NoAllowEvent \in Event
             /\ \A t \in Target :
                   /\ PolicyEvent("policy_allow_matched", t) \in Event
                   /\ PolicyEvent("policy_deny_matched", t) \in Event
                   /\ PolicyEvent("policy_approval_matched", t) \in Event
  BY <1>3, ElementTypes DEF Event, NoAllowEvent, PolicyEvent
<1> QED
  BY <1>1, <1>2, <1>3, ElementTypes

\* Type correctness: every variable of the evaluator keeps its declared type,
\* and no pass over the policy's rules is reached without a policy.
THEOREM TypeCorrect == Spec => []TypeOK
<1>1. Init => TypeOK
  <2>1. policyApproval = FALSE => policyApproval \in BOOLEAN
    BY Zenon
  <2> QED
    BY <2>1, InputsAssumption DEF Init, TypeOK, Pass
<1>2. TypeOK /\ [Next]_vars => TypeOK'
  <2> SUFFICES ASSUME TypeOK, [Next]_vars
               PROVE  TypeOK'
    OBVIOUS
  <2> USE DEF push
  <2>0. events \in Seq(Event) /\ input \in EvaluationInput /\ considered \in Nat
    BY DEF TypeOK
  <2>a. /\ \A k \in DOMAIN input.guardrails : input.guardrails[k].id \in Id
        /\ input.policy # NoPolicy => input.policy \in PolicySnapshot
    BY <2>0, ElementTypes
  <2>1. CASE GuardrailDeny
    <3>1. events' \in Seq(Event)
      <4>1. /\ \A k \in DOMAIN input.guardrails :
                  GuardrailEvent("guardrail_deny_matched", input.guardrails[k]) \in Event
            /\ \A k \in DOMAIN input.guardrails :
                  ~RoleApplies(input.guardrails[k], input) =>
                     RoleSkipped(input.guardrails[k]) \in Event
        BY <2>0, EventTypes
      <4>2. events' = events \/ \E e \in Event : events' = Append(events, e)
        BY <2>1, <4>1, Zenon DEF GuardrailDeny
      <4> QED
        BY <2>0, <4>2
    <3>2. result' \in Result \cup {NoResult}
      BY <2>a, <2>1 DEF GuardrailDeny, TypeOK, GoTo, Continue, return, Result
    <3> QED
      BY <2>1, <3>1, <3>2 DEF GuardrailDeny, TypeOK, GoTo, Continue, return, Pass
  <2>2. CASE GuardrailApproval
    <3>1. events' \in Seq(Event)
      <4>1. /\ \A k \in DOMAIN input.guardrails :
                  GuardrailEvent("guardrail_approval_matched", input.guardrails[k]) \in Event
        BY <2>0, EventTypes
      <4>2. events' = events \/ \E e \in Event : events' = Append(events, e)
        BY <2>2, <4>1, Zenon DEF GuardrailApproval
      <4> QED
        BY <2>0, <4>2
    <3> QED
      BY <2>a, <2>2, <3>1 DEF GuardrailApproval, TypeOK, GoTo, Continue, Pass
  <2>3. CASE PolicyExists
    <3>1. events' \in Seq(Event)
      BY <2>0, <2>3, EventTypes DEF PolicyExists
    <3> QED
      BY <2>3, <3>1 DEF PolicyExists, TypeOK, GoTo, return, Pass, Result
  <2>4. CASE PolicyAllow
    <3>1. input.policy # NoPolicy
      BY <2>4 DEF PolicyAllow, TypeOK
    <3>2. events' \in Seq(Event)
      <4>1. /\ NoAllowEvent \in Event
            /\ \A k \in DOMAIN input.policy.rules :
                  PolicyEvent("policy_allow_matched", input.policy.rules[k].target) \in Event
        BY <2>0, <3>1, EventTypes
      <4>2. events' = events \/ \E e \in Event : events' = Append(events, e)
        BY <2>4, <4>1, Zenon DEF PolicyAllow
      <4> QED
        BY <2>0, <4>2
    <3>3. result' \in Result \cup {NoResult}
      BY <2>a, <2>4, <3>1
      DEF PolicyAllow, TypeOK, GoTo, Continue, return, PolicyResult, Result, PolicySnapshot
    <3> QED
      BY <2>4, <3>1, <3>2, <3>3 DEF PolicyAllow, TypeOK, GoTo, Continue, return, Pass
  <2>5. CASE PolicyDeny
    <3>1. input.policy # NoPolicy
      BY <2>5 DEF PolicyDeny, TypeOK
    <3>2. events' \in Seq(Event)
      <4>1. \A k \in DOMAIN input.policy.rules :
               PolicyEvent("policy_deny_matched", input.policy.rules[k].target) \in Event
        BY <2>0, <3>1, EventTypes
      <4>2. events' = events \/ \E e \in Event : events' = Append(events, e)
        BY <2>5, <4>1, Zenon DEF PolicyDeny
      <4> QED
        BY <2>0, <4>2
    <3>3. result' \in Result \cup {NoResult}
      BY <2>a, <2>5, <3>1
      DEF PolicyDeny, TypeOK, GoTo, Continue, return, PolicyResult, Result, PolicySnapshot
    <3> QED
      BY <2>5, <3>1, <3>2, <3>3 DEF PolicyDeny, TypeOK, GoTo, Continue, return, Pass
  <2>6. CASE PolicyApproval
    <3>1. input.policy # NoPolicy
      BY <2>6 DEF PolicyApproval, TypeOK
    <3>2. events' \in Seq(Event)
      <4>1. \A k \in DOMAIN input.policy.approvalRules :
               PolicyEvent("policy_approval_matched", input.policy.approvalRules[k]) \in Event
        BY <2>0, <3>1, EventTypes
      <4>2. events' = events \/ \E e \in Event : events' = Append(events, e)
        BY <2>6, <4>1, Zenon DEF PolicyApproval
      <4> QED
        BY <2>0, <4>2
    <3>3. policyApproval' \in BOOLEAN
      BY <2>6, Zenon DEF PolicyApproval, TypeOK
    <3> QED
      BY <2>6, <3>1, <3>2, <3>3 DEF PolicyApproval, TypeOK, GoTo, Continue, Pass
  <2>7. CASE Combine
    <3>1. input.policy # NoPolicy
      BY <2>7 DEF Combine, TypeOK
    <3>2. result' \in Result
      BY <2>a, <2>7, <3>1 DEF Combine, TypeOK, return, PolicyResult, Result, PolicySnapshot
    <3> QED
      BY <2>7, <3>1, <3>2 DEF Combine, TypeOK, return, Pass
  <2>8. CASE UNCHANGED vars
    BY <2>8 DEF vars, TypeOK
  <2> QED
    BY <2>1, <2>2, <2>3, <2>4, <2>5, <2>6, <2>7, <2>8 DEF Next
<1> QED
  BY <1>1, <1>2, PTL DEF Spec

----------------------------------------------------------------------------
(* The verdict.  What a pass knows when it is at index i: nothing before i *)
(* matched; and what the passes it left behind established.                *)

AfterGuardrails == {"policy_exists", "policy_allow", "policy_deny", "policy_approval", "combine"}
AfterAllow      == {"policy_deny", "policy_approval", "combine"}

NoGuardrailBefore(in, n, e) ==
    \A k \in DOMAIN in.guardrails :
        k < n => ~(in.guardrails[k].enforcement = e /\ Binds(in.guardrails[k], in))

NoRuleBefore(in, n, e) ==
    \A k \in DOMAIN in.policy.rules :
        k < n => ~(in.policy.rules[k].effect = e /\ targetMatches(in.policy.rules[k].target, in))

NoApprovalRuleBefore(in, n) ==
    \A k \in DOMAIN in.policy.approvalRules :
        k < n => ~targetMatches(in.policy.approvalRules[k], in)

ScanInv ==
    /\ pass = "guardrail_deny" => NoGuardrailBefore(input, i, "deny")
    /\ pass \in AfterGuardrails \cup {"guardrail_approval"} => ~GuardrailSays(input, "deny")
    /\ pass \in {"guardrail_deny", "guardrail_approval"} => guardrailApprovalId = NoId
    /\ pass = "guardrail_approval" => NoGuardrailBefore(input, i, "require_approval")
    /\ pass \in AfterGuardrails =>
          (guardrailApprovalId # NoId <=> GuardrailSays(input, "require_approval"))
    /\ pass = "policy_allow" => NoRuleBefore(input, i, "allow")
    /\ pass \in AfterAllow => RuleSays(input, "allow")
    /\ pass = "policy_deny" => NoRuleBefore(input, i, "deny")
    /\ pass \in {"policy_approval", "combine"} => ~RuleSays(input, "deny")
    /\ pass # "combine" /\ pass # "done" => ~policyApproval
    /\ pass = "policy_approval" => NoApprovalRuleBefore(input, i)
    /\ pass = "combine" => (policyApproval <=> ApprovalRuleSays(input))
    /\ DecisionCorrect

\* A scan that has passed the end of a list without a match proves there is
\* none; a match at index k proves there is one.
LEMMA Scans ==
    ASSUME TypeOK
    PROVE  /\ \A e : i \notin DOMAIN input.guardrails /\ NoGuardrailBefore(input, i, e) =>
                  ~GuardrailSays(input, e)
           /\ \A e : \A k \in DOMAIN input.guardrails :
                  input.guardrails[k].enforcement = e /\ Binds(input.guardrails[k], input) =>
                  GuardrailSays(input, e)
           /\ input.policy # NoPolicy =>
              /\ \A e : i \notin DOMAIN input.policy.rules /\ NoRuleBefore(input, i, e) =>
                    ~RuleSays(input, e)
              /\ \A e : \A k \in DOMAIN input.policy.rules :
                    input.policy.rules[k].effect = e
                    /\ targetMatches(input.policy.rules[k].target, input) => RuleSays(input, e)
              /\ i \notin DOMAIN input.policy.approvalRules /\ NoApprovalRuleBefore(input, i) =>
                    ~ApprovalRuleSays(input)
              /\ \A k \in DOMAIN input.policy.approvalRules :
                    targetMatches(input.policy.approvalRules[k], input) => ApprovalRuleSays(input)
<1>1. i \in Nat \ {0} /\ input.guardrails \in Seq(Guardrail)
  BY DEF TypeOK, EvaluationInput
<1>2. input.policy # NoPolicy => /\ input.policy.rules \in Seq(PolicyRule)
                                /\ input.policy.approvalRules \in Seq(Target)
  BY DEF TypeOK, EvaluationInput, PolicySnapshot
<1>3. \A e : i \notin DOMAIN input.guardrails /\ NoGuardrailBefore(input, i, e) =>
               ~GuardrailSays(input, e)
  <2>1. i \notin DOMAIN input.guardrails => \A k \in DOMAIN input.guardrails : k < i
    BY <1>1
  <2> QED
    BY <2>1 DEF NoGuardrailBefore, GuardrailSays, Range
<1>4. \A e : \A k \in DOMAIN input.guardrails :
         input.guardrails[k].enforcement = e /\ Binds(input.guardrails[k], input) =>
         GuardrailSays(input, e)
  BY DEF GuardrailSays, Range
<1>5. ASSUME input.policy # NoPolicy
      PROVE  /\ \A e : i \notin DOMAIN input.policy.rules /\ NoRuleBefore(input, i, e) =>
                   ~RuleSays(input, e)
             /\ i \notin DOMAIN input.policy.approvalRules /\ NoApprovalRuleBefore(input, i) =>
                   ~ApprovalRuleSays(input)
  <2>1. /\ i \notin DOMAIN input.policy.rules => \A k \in DOMAIN input.policy.rules : k < i
        /\ i \notin DOMAIN input.policy.approvalRules =>
              \A k \in DOMAIN input.policy.approvalRules : k < i
    BY <1>1, <1>2, <1>5
  <2> QED
    BY <2>1 DEF NoRuleBefore, RuleSays, NoApprovalRuleBefore, ApprovalRuleSays, Range
<1>6. /\ \A e : \A k \in DOMAIN input.policy.rules :
            input.policy.rules[k].effect = e
            /\ targetMatches(input.policy.rules[k].target, input) => RuleSays(input, e)
      /\ \A k \in DOMAIN input.policy.approvalRules :
            targetMatches(input.policy.approvalRules[k], input) => ApprovalRuleSays(input)
  BY DEF RuleSays, ApprovalRuleSays, Range
<1> QED
  BY <1>3, <1>4, <1>5, <1>6

\* One step of a scan: the facts about indices below i extend to i + 1 when
\* the element at i does not match, and hold vacuously at index 1.
LEMMA ScanSteps ==
    ASSUME TypeOK
    PROVE  /\ \A e : NoGuardrailBefore(input, 1, e)
           /\ \A e : NoGuardrailBefore(input, i, e)
                    /\ ~(input.guardrails[i].enforcement = e /\ Binds(input.guardrails[i], input))
                    => NoGuardrailBefore(input, i + 1, e)
           /\ input.policy # NoPolicy =>
              /\ \A e : NoRuleBefore(input, 1, e)
              /\ \A e : NoRuleBefore(input, i, e)
                       /\ ~(input.policy.rules[i].effect = e
                              /\ targetMatches(input.policy.rules[i].target, input))
                       => NoRuleBefore(input, i + 1, e)
              /\ NoApprovalRuleBefore(input, 1)
              /\ NoApprovalRuleBefore(input, i) /\ ~targetMatches(input.policy.approvalRules[i], input)
                 => NoApprovalRuleBefore(input, i + 1)
<1>1. i \in Nat \ {0} /\ input.guardrails \in Seq(Guardrail)
  BY DEF TypeOK, EvaluationInput
<1>2. input.policy # NoPolicy => /\ input.policy.rules \in Seq(PolicyRule)
                                /\ input.policy.approvalRules \in Seq(Target)
  BY DEF TypeOK, EvaluationInput, PolicySnapshot
<1>3. \A k \in DOMAIN input.guardrails : ~(k < 1) /\ (k < i + 1 => k < i \/ k = i)
  BY <1>1
<1>4. ASSUME input.policy # NoPolicy
      PROVE  /\ \A k \in DOMAIN input.policy.rules : ~(k < 1) /\ (k < i + 1 => k < i \/ k = i)
             /\ \A k \in DOMAIN input.policy.approvalRules :
                   ~(k < 1) /\ (k < i + 1 => k < i \/ k = i)
  BY <1>1, <1>2, <1>4
<1> QED
  BY <1>3, <1>4, Zenon DEF NoGuardrailBefore, NoRuleBefore, NoApprovalRuleBefore

\* No step of the evaluator breaks what its scans have established.
LEMMA ScanInvariant == Spec => []ScanInv
<1>1. Init => ScanInv
  <2> SUFFICES ASSUME Init PROVE ScanInv
    OBVIOUS
  <2>1. NoGuardrailBefore(input, 1, "deny")
    <3>1. input.guardrails \in Seq(Guardrail)
      BY InputsAssumption DEF Init, EvaluationInput
    <3> QED
      BY <3>1 DEF NoGuardrailBefore
  <2> QED
    BY <2>1, Zenon DEF Init, ScanInv, DecisionCorrect, Returned, AfterGuardrails, AfterAllow
<1>2. TypeOK /\ ScanInv /\ [Next]_vars => ScanInv'
  <2> SUFFICES ASSUME TypeOK, ScanInv, [Next]_vars
               PROVE  ScanInv'
    OBVIOUS
  <2> USE DEF ScanInv, AfterGuardrails, AfterAllow, DecisionCorrect, Returned
  <2>1. CASE GuardrailDeny
    <3>1. input' = input /\ guardrailApprovalId' = guardrailApprovalId
          /\ policyApproval' = policyApproval
      BY <2>1 DEF GuardrailDeny
    <3>2. CASE i \in DOMAIN input.guardrails
      BY <2>1, <3>1, <3>2, Scans, ScanSteps
      DEF GuardrailDeny, GoTo, Continue, return, Decision, Binds
    <3>3. CASE i \notin DOMAIN input.guardrails
      BY <2>1, <3>1, <3>3, Scans, ScanSteps
      DEF GuardrailDeny, GoTo, Continue, return
    <3> QED
      BY <3>2, <3>3
  <2>2. CASE GuardrailApproval
    <3>1. input' = input /\ policyApproval' = policyApproval
      BY <2>2 DEF GuardrailApproval
    <3>2. CASE i \in DOMAIN input.guardrails
      BY <2>2, <3>1, <3>2, Scans, ScanSteps, NoIdAssumption, ElementTypes
      DEF GuardrailApproval, GoTo, Continue, TypeOK
    <3>3. CASE i \notin DOMAIN input.guardrails
      BY <2>2, <3>1, <3>3, Scans, ScanSteps
      DEF GuardrailApproval, GoTo, Continue
    <3> QED
      BY <3>2, <3>3
  <2>3. CASE PolicyExists
    BY <2>3, ScanSteps DEF PolicyExists, GoTo, return, Decision, PolicyGrants
  <2>4. CASE PolicyAllow
    <3>1. input.policy # NoPolicy
      BY <2>4 DEF PolicyAllow, TypeOK
    <3>2. CASE i \in DOMAIN input.policy.rules
      BY <2>4, <3>1, <3>2, Scans, ScanSteps DEF PolicyAllow, GoTo, Continue
    <3>3. CASE i \notin DOMAIN input.policy.rules
      BY <2>4, <3>1, <3>3, Scans
      DEF PolicyAllow, return, PolicyResult, Decision, PolicyGrants
    <3> QED
      BY <3>2, <3>3
  <2>5. CASE PolicyDeny
    <3>1. input.policy # NoPolicy
      BY <2>5 DEF PolicyDeny, TypeOK
    <3>2. CASE i \in DOMAIN input.policy.rules
      BY <2>5, <3>1, <3>2, Scans, ScanSteps
      DEF PolicyDeny, Continue, return, PolicyResult, Decision, PolicyGrants
    <3>3. CASE i \notin DOMAIN input.policy.rules
      BY <2>5, <3>1, <3>3, Scans, ScanSteps DEF PolicyDeny, GoTo
    <3> QED
      BY <3>2, <3>3
  <2>6. CASE PolicyApproval
    <3>1. input.policy # NoPolicy
      BY <2>6 DEF PolicyApproval, TypeOK
    <3>2. CASE i \in DOMAIN input.policy.approvalRules
      BY <2>6, <3>1, <3>2, Scans, ScanSteps DEF PolicyApproval, GoTo, Continue
    <3>3. CASE i \notin DOMAIN input.policy.approvalRules
      BY <2>6, <3>1, <3>3, Scans DEF PolicyApproval, GoTo
    <3> QED
      BY <3>2, <3>3
  <2>7. CASE Combine
    <3>1. input.policy # NoPolicy
      BY <2>7 DEF Combine, TypeOK
    <3> QED
      BY <2>7, <3>1 DEF Combine, return, PolicyResult, Decision, PolicyGrants
  <2>8. CASE UNCHANGED vars
    BY <2>8 DEF vars
  <2> QED
    BY <2>1, <2>2, <2>3, <2>4, <2>5, <2>6, <2>7, <2>8 DEF Next
<1> QED
  BY <1>1, <1>2, TypeCorrect, PTL DEF Spec

\* The verdict theorem: for every input, when the evaluator returns, its
\* decision is the one the documented semantics gives.
THEOREM VerdictCorrect == Spec => []DecisionCorrect
<1>1. ScanInv => DecisionCorrect
  BY DEF ScanInv
<1> QED
  BY <1>1, ScanInvariant, PTL

\* The same request with no guardrails: its policy rules match as before and
\* no guardrail says anything.
LEMMA WithoutGuardrails ==
    ASSUME NEW in \in EvaluationInput
    PROVE  Strictness(Decision(in)) >= Strictness(Decision([in EXCEPT !.guardrails = <<>>]))
<1> DEFINE bare == [in EXCEPT !.guardrails = <<>>]
<1>1. /\ bare.policy = in.policy /\ bare.requested = in.requested
      /\ bare.requestedScopeTags = in.requestedScopeTags /\ bare.guardrails = <<>>
  BY DEF EvaluationInput
<1> HIDE DEF bare
<1>2. \A t : targetMatches(t, bare) <=> targetMatches(t, in)
  BY <1>1 DEF targetMatches
<1>3. /\ \A e : RuleSays(bare, e) <=> RuleSays(in, e)
      /\ ApprovalRuleSays(bare) <=> ApprovalRuleSays(in)
  BY <1>1, <1>2 DEF RuleSays, ApprovalRuleSays
<1>4. \A e : ~GuardrailSays(bare, e)
  BY <1>1 DEF GuardrailSays, Range
<1>5. PolicyGrants(bare) <=> PolicyGrants(in)
  BY <1>1, <1>3 DEF PolicyGrants
<1>6. /\ Decision(in) = "allow" => Decision(bare) = "allow"
      /\ Decision(in) = "approval_required" => Decision(bare) \in {"allow", "approval_required"}
      /\ Decision(in) \in {"allow", "approval_required", "deny"}
      /\ Decision(bare) \in {"allow", "approval_required", "deny"}
  BY <1>3, <1>4, <1>5 DEF Decision
<1>7. Strictness(Decision(in)) >= Strictness(Decision(bare))
  BY <1>6 DEF Strictness
<1> QED
  BY <1>7 DEF bare

\* Guardrails only tighten, for every input: whatever an organisation adds,
\* no request becomes easier than the agent's own policy makes it.
THEOREM GuardrailsTighten == Spec => []GuardrailsOnlyTighten
<1>1. TypeOK /\ DecisionCorrect => GuardrailsOnlyTighten
  BY WithoutGuardrails DEF TypeOK, DecisionCorrect, GuardrailsOnlyTighten
<1> QED
  BY <1>1, TypeCorrect, VerdictCorrect, PTL

----------------------------------------------------------------------------
(* The trace and the attribution.                                          *)

DenyKinds == {"guardrail_deny_matched", "no_policy_assigned",
              "policy_no_allow_matched", "policy_deny_matched"}

\* While the evaluation goes on no event denies, and the events that ask for an
\* approval are there exactly when the variables that Combine reads say so.
TraceInv ==
    /\ pass # "done" =>
          /\ EventKinds \cap DenyKinds = {}
          /\ "guardrail_approval_matched" \in EventKinds <=> guardrailApprovalId # NoId
          /\ "policy_approval_matched" \in EventKinds <=> policyApproval
    /\ TraceJustifies

\* An event pushed adds its kind, and takes none away.
LEMMA PushedKind ==
    ASSUME events \in Seq(Event), NEW e, events' = Append(events, e)
    PROVE  EventKinds' = EventKinds \cup {e.kind}
<1>1. DOMAIN events' = 1..Len(events) + 1 /\ DOMAIN events = 1..Len(events)
      /\ Len(events) \in Nat
  OBVIOUS
<1>2. \A k \in DOMAIN events' :
         events'[k] = IF k = Len(events) + 1 THEN e ELSE events[k]
  OBVIOUS
<1> QED
  BY <1>1, <1>2 DEF EventKinds

\* The events alone tell the verdict, for every input.
THEOREM TraceTells == Spec => []TraceJustifies
<1>1. Init => TraceInv
  <2> SUFFICES ASSUME Init PROVE TraceInv
    OBVIOUS
  <2>1. EventKinds = {}
    BY DEF Init, EventKinds
  <2>2. pass = "guardrail_deny" /\ guardrailApprovalId = NoId /\ ~policyApproval
    BY Zenon DEF Init
  <2> QED
    BY <2>1, <2>2 DEF TraceInv, TraceJustifies, Returned
<1>2. TypeOK /\ TraceInv /\ [Next]_vars => TraceInv'
  <2> SUFFICES ASSUME TypeOK, TraceInv, [Next]_vars
               PROVE  TraceInv'
    OBVIOUS
  <2>0. events \in Seq(Event) /\ input \in EvaluationInput
    BY DEF TypeOK
  <2>u. events' = events => EventKinds' = EventKinds
    BY DEF EventKinds
  <2> USE DEF TraceInv, TraceJustifies, Returned, DenyKinds, push, GoTo, Continue, return
  <2>1. CASE GuardrailDeny
    BY <2>0, <2>u, <2>1, PushedKind DEF GuardrailDeny, GuardrailEvent, RoleSkipped
  <2>2. CASE GuardrailApproval
    BY <2>0, <2>u, <2>2, PushedKind, ElementTypes, NoIdAssumption DEF GuardrailApproval, GuardrailEvent
  <2>3. CASE PolicyExists
    BY <2>0, <2>u, <2>3, PushedKind DEF PolicyExists
  <2>4. CASE PolicyAllow
    <3>1. /\ pass = "policy_allow" /\ UNCHANGED <<input, guardrailApprovalId, policyApproval>>
          /\ \/ pass' = pass /\ UNCHANGED <<events, result>>
             \/ /\ \E t : push(PolicyEvent("policy_allow_matched", t))
                /\ pass' = "policy_deny"
             \/ /\ push(NoAllowEvent) /\ pass' = "done"
                /\ result' = PolicyResult("deny", "denied_by_policy")
      BY <2>4 DEF PolicyAllow
    <3>2. CASE pass' = pass /\ UNCHANGED <<events, result>>
      BY <2>u, <3>1, <3>2
    <3>3. CASE pass' = "policy_deny" /\ \E t : push(PolicyEvent("policy_allow_matched", t))
      <4>1. EventKinds' = EventKinds \cup {"policy_allow_matched"}
        BY <2>0, <3>3, PushedKind DEF PolicyEvent
      <4> QED
        BY <3>1, <3>3, <4>1
    <3>4. CASE /\ push(NoAllowEvent) /\ pass' = "done"
               /\ result' = PolicyResult("deny", "denied_by_policy")
      <4>1. EventKinds' = EventKinds \cup {"policy_no_allow_matched"}
        BY <2>0, <3>4, PushedKind DEF NoAllowEvent
      <4>2. result'.decision = "deny"
        BY <3>4 DEF PolicyResult
      <4> QED
        BY <3>4, <4>1, <4>2
    <3> QED
      BY <3>1, <3>2, <3>3, <3>4
  <2>5. CASE PolicyDeny
    BY <2>0, <2>u, <2>5, PushedKind DEF PolicyDeny, PolicyEvent, PolicyResult
  <2>6. CASE PolicyApproval
    BY <2>0, <2>u, <2>6, PushedKind DEF PolicyApproval, PolicyEvent
  <2>7. CASE Combine
    BY <2>0, <2>u, <2>7 DEF Combine, PolicyResult
  <2>8. CASE UNCHANGED vars
    BY <2>8 DEF vars, EventKinds
  <2> QED
    BY <2>1, <2>2, <2>3, <2>4, <2>5, <2>6, <2>7, <2>8 DEF Next
<1>3. TraceInv => TraceJustifies
  BY DEF TraceInv
<1> QED
  BY <1>1, <1>2, <1>3, TypeCorrect, PTL DEF Spec

\* The position of the first guardrail that binds with an enforcement.
FirstBound(in, e) ==
    LET Bound(g) == g.enforcement = e /\ Binds(g, in) IN First(in.guardrails, Bound)

\* The scan's match is the first one: nothing before it binds.
LEMMA MatchIsFirst ==
    ASSUME TypeOK, NEW e, i \in DOMAIN input.guardrails, NoGuardrailBefore(input, i, e),
           input.guardrails[i].enforcement = e, Binds(input.guardrails[i], input)
    PROVE  FirstBound(input, e) = i /\ GuardrailSays(input, e)
<1> DEFINE hits == {k \in DOMAIN input.guardrails :
                       input.guardrails[k].enforcement = e /\ Binds(input.guardrails[k], input)}
<1>1. DOMAIN input.guardrails \subseteq Nat
  BY DEF TypeOK, EvaluationInput
<1>2. i \in hits /\ \A m \in hits : i <= m
  BY <1>1 DEF NoGuardrailBefore
<1>3. FirstBound(input, e) = CHOOSE k \in hits : \A m \in hits : k <= m
  BY DEF FirstBound, First
<1>4. \A k \in hits : (\A m \in hits : k <= m) => k = i
  BY <1>1, <1>2
<1> HIDE DEF hits
<1>5. FirstBound(input, e) = i
  BY <1>2, <1>3, <1>4
<1> QED
  BY <1>5, Scans

\* So is the match of a scan over the policy's rules.
LEMMA RuleIsFirst ==
    ASSUME TypeOK, input.policy # NoPolicy, NEW e, i \in DOMAIN input.policy.rules,
           NoRuleBefore(input, i, e), input.policy.rules[i].effect = e,
           targetMatches(input.policy.rules[i].target, input)
    PROVE  RuleSays(input, e) /\ input.policy.rules[i].target = FirstRuleTarget(input, e)
<1> DEFINE hits == {k \in DOMAIN input.policy.rules :
                       /\ input.policy.rules[k].effect = e
                       /\ targetMatches(input.policy.rules[k].target, input)}
           first == CHOOSE k \in hits : \A m \in hits : k <= m
<1>1. DOMAIN input.policy.rules \subseteq Nat
  BY DEF TypeOK, EvaluationInput, PolicySnapshot
<1>2. i \in hits /\ \A m \in hits : i <= m
  BY <1>1 DEF NoRuleBefore
<1>3. FirstRuleTarget(input, e) = input.policy.rules[first].target
  BY DEF FirstRuleTarget, First
<1>4. \A k \in hits : (\A m \in hits : k <= m) => k = i
  BY <1>1, <1>2
<1> HIDE DEF hits
<1>5. first = i
  BY <1>2, <1>4
<1> QED
  BY <1>3, <1>5, Scans

\* And the match of the scan over its approval rules.
LEMMA ApprovalRuleIsFirst ==
    ASSUME TypeOK, input.policy # NoPolicy, i \in DOMAIN input.policy.approvalRules,
           NoApprovalRuleBefore(input, i), targetMatches(input.policy.approvalRules[i], input)
    PROVE  /\ ApprovalRuleSays(input)
           /\ input.policy.approvalRules[i] = FirstApprovalTarget(input)
<1> DEFINE hits == {k \in DOMAIN input.policy.approvalRules :
                       targetMatches(input.policy.approvalRules[k], input)}
           first == CHOOSE k \in hits : \A m \in hits : k <= m
<1>1. DOMAIN input.policy.approvalRules \subseteq Nat
  BY DEF TypeOK, EvaluationInput, PolicySnapshot
<1>2. i \in hits /\ \A m \in hits : i <= m
  BY <1>1 DEF NoApprovalRuleBefore
<1>3. FirstApprovalTarget(input) = input.policy.approvalRules[first]
  BY DEF FirstApprovalTarget, First
<1>4. \A k \in hits : (\A m \in hits : k <= m) => k = i
  BY <1>1, <1>2
<1> HIDE DEF hits
<1>5. first = i
  BY <1>2, <1>4
<1> QED
  BY <1>3, <1>5, Scans

\* What AttributedToFirst says of the trace.
EventsNameFirst == \A k \in DOMAIN events : NamesFirst(input, events[k])

\* An event that names the first rule may be pushed.
LEMMA PushedNames ==
    ASSUME events \in Seq(Event), EventsNameFirst, input' = input,
           NEW e, NamesFirst(input, e), events' = Append(events, e)
    PROVE  EventsNameFirst'
<1>1. DOMAIN events' = 1..Len(events) + 1 /\ DOMAIN events = 1..Len(events)
      /\ Len(events) \in Nat
  OBVIOUS
<1>2. \A k \in DOMAIN events' :
         events'[k] = IF k = Len(events) + 1 THEN e ELSE events[k]
  OBVIOUS
<1>3. \A k \in DOMAIN events' : NamesFirst(input, events'[k])
  BY <1>1, <1>2 DEF EventsNameFirst
<1> QED
  BY <1>3 DEF EventsNameFirst

\* Every policy rule in the trace is the first that matched in its pass.
LEMMA TraceNamesFirst == Spec => []EventsNameFirst
<1>1. Init => EventsNameFirst
  BY DEF Init, EventsNameFirst
<1>2. TypeOK /\ ScanInv /\ EventsNameFirst /\ [Next]_vars => EventsNameFirst'
  <2> SUFFICES ASSUME TypeOK, ScanInv, EventsNameFirst, [Next]_vars
               PROVE  EventsNameFirst'
    OBVIOUS
  <2>0. events \in Seq(Event)
    BY DEF TypeOK
  <2>u. UNCHANGED <<input, events>> => EventsNameFirst'
    BY DEF EventsNameFirst
  <2>e. \A e : /\ e.kind # "policy_allow_matched" /\ e.kind # "policy_deny_matched"
               /\ e.kind # "policy_approval_matched"
               => NamesFirst(input, e)
    BY DEF NamesFirst
  <2>p. \A e : input' = input /\ NamesFirst(input, e) /\ push(e) => EventsNameFirst'
    BY <2>0, PushedNames DEF push
  <2>1. CASE GuardrailDeny
    <3>1. /\ \A g : NamesFirst(input, RoleSkipped(g))
          /\ \A g : NamesFirst(input, GuardrailEvent("guardrail_deny_matched", g))
      BY <2>e DEF RoleSkipped, GuardrailEvent
    <3> QED
      BY <2>1, <2>u, <2>p, <3>1, Zenon DEF GuardrailDeny
  <2>2. CASE GuardrailApproval
    <3>1. \A g : NamesFirst(input, GuardrailEvent("guardrail_approval_matched", g))
      BY <2>e DEF GuardrailEvent
    <3> QED
      BY <2>2, <2>u, <2>p, <3>1, Zenon DEF GuardrailApproval
  <2>3. CASE PolicyExists
    <3>1. NamesFirst(input, [kind |-> "no_policy_assigned"])
      BY <2>e
    <3> QED
      BY <2>3, <2>u, <2>p, <3>1, Zenon DEF PolicyExists
  <2>4. CASE PolicyAllow
    <3>1. NamesFirst(input, NoAllowEvent)
      BY <2>e DEF NoAllowEvent
    <3>2. ASSUME i \in DOMAIN input.policy.rules, input.policy.rules[i].effect = "allow",
                 targetMatches(input.policy.rules[i].target, input)
          PROVE  NamesFirst(input, PolicyEvent("policy_allow_matched", input.policy.rules[i].target))
      BY <2>4, <3>2, RuleIsFirst DEF PolicyAllow, ScanInv, TypeOK, NamesFirst, PolicyEvent
    <3> QED
      BY <2>4, <2>u, <2>p, <3>1, <3>2, Zenon DEF PolicyAllow
  <2>5. CASE PolicyDeny
    <3>1. ASSUME i \in DOMAIN input.policy.rules, input.policy.rules[i].effect = "deny",
                 targetMatches(input.policy.rules[i].target, input)
          PROVE  NamesFirst(input, PolicyEvent("policy_deny_matched", input.policy.rules[i].target))
      BY <2>5, <3>1, RuleIsFirst DEF PolicyDeny, ScanInv, TypeOK, NamesFirst, PolicyEvent
    <3> QED
      BY <2>5, <2>u, <2>p, <3>1, Zenon DEF PolicyDeny
  <2>6. CASE PolicyApproval
    <3>1. ASSUME i \in DOMAIN input.policy.approvalRules,
                 targetMatches(input.policy.approvalRules[i], input)
          PROVE  NamesFirst(input, PolicyEvent("policy_approval_matched", input.policy.approvalRules[i]))
      BY <2>6, <3>1, ApprovalRuleIsFirst DEF PolicyApproval, ScanInv, TypeOK, NamesFirst, PolicyEvent
    <3> QED
      BY <2>6, <2>u, <2>p, <3>1, Zenon DEF PolicyApproval
  <2>7. CASE Combine
    BY <2>7, <2>u DEF Combine
  <2>8. CASE UNCHANGED vars
    BY <2>8, <2>u DEF vars
  <2> QED
    BY <2>1, <2>2, <2>3, <2>4, <2>5, <2>6, <2>7, <2>8 DEF Next
<1> QED
  BY <1>1, <1>2, TypeCorrect, ScanInvariant, PTL DEF Spec

\* What AttributedToFirst says, of a guardrail's verdict.
Attributed ==
    Returned /\ "guardrailId" \in DOMAIN result =>
        LET kind == IF result.decision = "deny" THEN "deny" ELSE "require_approval"
        IN  /\ GuardrailSays(input, kind)
            /\ result.guardrailId = input.guardrails[FirstBound(input, kind)].id

AttributionInv ==
    /\ pass # "done" /\ guardrailApprovalId # NoId =>
          /\ GuardrailSays(input, "require_approval")
          /\ guardrailApprovalId = input.guardrails[FirstBound(input, "require_approval")].id
    /\ Attributed

\* A verdict names the first guardrail of the list that binds with its
\* enforcement, and the trace the first policy rule that matched in each pass,
\* for every list of guardrails and rules.
THEOREM FirstIsNamed == Spec => []AttributedToFirst
<1>1. Init => AttributionInv
  BY Zenon DEF Init, AttributionInv, Attributed, Returned
<1>2. TypeOK /\ ScanInv /\ AttributionInv /\ [Next]_vars => AttributionInv'
  <2> SUFFICES ASSUME TypeOK, ScanInv, AttributionInv, [Next]_vars
               PROVE  AttributionInv'
    OBVIOUS
  <2> DEFINE Named(e, id) == /\ GuardrailSays(input, e)
                             /\ id = input.guardrails[FirstBound(input, e)].id
  <2>a. /\ pass # "done" /\ guardrailApprovalId # NoId =>
              Named("require_approval", guardrailApprovalId)
        /\ Returned /\ "guardrailId" \in DOMAIN result =>
              Named(IF result.decision = "deny" THEN "deny" ELSE "require_approval", result.guardrailId)
    BY DEF AttributionInv, Attributed
  <2>b. ASSUME input' = input,
               pass' # "done" /\ guardrailApprovalId' # NoId =>
                  Named("require_approval", guardrailApprovalId'),
               pass' = "done" /\ "guardrailId" \in DOMAIN result' =>
                  Named(IF result'.decision = "deny" THEN "deny" ELSE "require_approval",
                        result'.guardrailId)
        PROVE  AttributionInv'
    BY <2>b DEF AttributionInv, Attributed, Returned
  <2>c. ASSUME NEW e, i \in DOMAIN input.guardrails, NoGuardrailBefore(input, i, e),
               input.guardrails[i].enforcement = e, Binds(input.guardrails[i], input)
        PROVE  Named(e, input.guardrails[i].id)
    BY <2>c, MatchIsFirst
  <2> HIDE DEF Named
  <2> USE DEF GoTo, Continue, return, Returned, PolicyResult
  <2>1. CASE GuardrailDeny
    <3>1. /\ UNCHANGED <<input, guardrailApprovalId>>
          /\ \/ pass' # "done"
             \/ /\ i \in DOMAIN input.guardrails /\ pass' = "done"
                /\ Binds(input.guardrails[i], input) /\ input.guardrails[i].enforcement = "deny"
                /\ result' = [decision |-> "deny", reason |-> "denied_by_guardrail",
                              guardrailId |-> input.guardrails[i].id]
      BY <2>1 DEF GuardrailDeny
    <3>2. /\ pass # "done" /\ NoGuardrailBefore(input, i, "deny")
      BY <2>1 DEF GuardrailDeny, ScanInv
    <3>3. CASE pass' # "done"
      BY <3>1, <3>2, <3>3, <2>a, <2>b
    <3>4. CASE pass' = "done"
      BY <3>1, <3>2, <3>4, <2>b, <2>c
    <3> QED
      BY <3>3, <3>4
  <2>2. CASE GuardrailApproval
    BY <2>2, <2>a, <2>b, <2>c DEF GuardrailApproval, ScanInv
  <2>3. CASE PolicyExists
    BY <2>3, <2>a, <2>b DEF PolicyExists
  <2>4. CASE PolicyAllow
    BY <2>4, <2>a, <2>b DEF PolicyAllow
  <2>5. CASE PolicyDeny
    BY <2>5, <2>a, <2>b DEF PolicyDeny
  <2>6. CASE PolicyApproval
    BY <2>6, <2>a, <2>b DEF PolicyApproval
  <2>7. CASE Combine
    BY <2>7, <2>a, <2>b DEF Combine
  <2>8. CASE UNCHANGED vars
    BY <2>8, <2>a, <2>b DEF vars
  <2> QED
    BY <2>1, <2>2, <2>3, <2>4, <2>5, <2>6, <2>7, <2>8 DEF Next
<1>3. AttributionInv /\ EventsNameFirst => AttributedToFirst
  BY DEF AttributionInv, Attributed, AttributedToFirst, FirstBound, EventsNameFirst
<1> QED
  BY <1>1, <1>2, <1>3, TypeCorrect, ScanInvariant, TraceNamesFirst, PTL DEF Spec
=============================================================================
