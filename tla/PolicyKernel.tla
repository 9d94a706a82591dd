---------------------------- MODULE PolicyKernel ----------------------------
(***************************************************************************)
(* evaluatePolicyWithTrace (mcp-broker/src/_evaluator.ts) as a machine:    *)
(* one step per loop iteration, in the code's order of passes, with the    *)
(* early returns and the DecisionTrace it builds.  `pass` is the loop the  *)
(* evaluation is in and `i` the index of its iteration.                    *)
(***************************************************************************)
EXTENDS PolicyEvaluator

CONSTANTS
    Inputs,      \* the evaluations explored
    NoId,        \* guardrailApprovalId = null
    NoResult     \* not returned yet

ASSUME InputsAssumption == Inputs \subseteq EvaluationInput
ASSUME NoIdAssumption   == NoId \notin Id

VARIABLES input, pass, i, considered, events, guardrailApprovalId, policyApproval, result

vars == <<input, pass, i, considered, events, guardrailApprovalId, policyApproval, result>>

Pass == {"guardrail_deny", "guardrail_approval", "policy_exists", "policy_allow",
         "policy_deny", "policy_approval", "combine", "done"}

Event ==
    [kind : {"guardrail_skipped_role"}, guardrailId : Id, appliesToRole : Role]
    \cup [kind : {"guardrail_deny_matched", "guardrail_approval_matched"},
          guardrailId : Id, target : Target]
    \cup [kind : {"no_policy_assigned"}]
    \cup [kind : {"policy_allow_matched", "policy_deny_matched", "policy_approval_matched"},
          policyId : Id, rule : Target]
    \cup [kind : {"policy_no_allow_matched"}, policyId : Id, allowRulesConsidered : Nat]

Result ==
    [decision : {"deny", "approval_required"}, guardrailId : Id,
     reason : {"denied_by_guardrail", "approval_required_by_guardrail"}]
    \cup [decision : {"deny", "approval_required"}, policyId : Id, policyVersion : Nat,
          reason : {"denied_by_policy", "approval_required_by_policy"}]
    \cup [decision : {"deny"}, reason : {"no_policy_assigned"}]
    \cup [decision : {"allow"}, policyId : Id, policyVersion : Nat]

Init ==
    /\ input \in Inputs
    /\ pass = "guardrail_deny" /\ i = 1 /\ considered = 0
    /\ events = <<>>
    /\ guardrailApprovalId = NoId
    /\ policyApproval = FALSE
    /\ result = NoResult

push(e) == events' = Append(events, e)

return(r) == result' = r /\ pass' = "done" /\ i' = 1

\* Leave the loop for the next pass; go on with the loop's next element.
GoTo(p) == pass' = p /\ i' = 1 /\ UNCHANGED result
Continue == i' = i + 1 /\ UNCHANGED <<pass, result>>

PolicyResult(d, why) ==
    [decision |-> d, reason |-> why, policyId |-> input.policy.id,
     policyVersion |-> input.policy.version]

RoleSkipped(g) ==
    [kind |-> "guardrail_skipped_role", guardrailId |-> g.id, appliesToRole |-> g.appliesToRole]

GuardrailEvent(k, g) == [kind |-> k, guardrailId |-> g.id, target |-> g.target]

NoAllowEvent ==
    [kind |-> "policy_no_allow_matched", policyId |-> input.policy.id,
     allowRulesConsidered |-> considered]

PolicyEvent(k, t) == [kind |-> k, policyId |-> input.policy.id, rule |-> t]

----------------------------------------------------------------------------
(* Mutants: the evaluator with a bug.                                      *)

\* The deny pass also stops at a guardrail of another role.
GuardrailDenyIgnoringRole ==
    /\ pass = "guardrail_deny"
    /\ UNCHANGED <<input, considered, guardrailApprovalId, policyApproval>>
    /\ \/ /\ i \in DOMAIN input.guardrails
          /\ LET g == input.guardrails[i] IN
             \/ /\ ~targetMatches(g.target, input) \/ g.enforcement # "deny"
                /\ Continue /\ UNCHANGED events
             \/ /\ targetMatches(g.target, input) /\ g.enforcement = "deny"
                /\ push(GuardrailEvent("guardrail_deny_matched", g))
                /\ return([decision |-> "deny", reason |-> "denied_by_guardrail",
                           guardrailId |-> g.id])
       \/ /\ i \notin DOMAIN input.guardrails
          /\ GoTo("guardrail_approval") /\ UNCHANGED events

\* The approval pass goes on after its first match.
GuardrailApprovalLastMatch ==
    /\ pass = "guardrail_approval"
    /\ UNCHANGED <<input, considered, policyApproval>>
    /\ \/ /\ i \in DOMAIN input.guardrails
          /\ LET g == input.guardrails[i] IN
             \/ /\ ~Binds(g, input) \/ g.enforcement # "require_approval"
                /\ Continue /\ UNCHANGED <<events, guardrailApprovalId>>
             \/ /\ Binds(g, input) /\ g.enforcement = "require_approval"
                /\ guardrailApprovalId' = g.id
                /\ push(GuardrailEvent("guardrail_approval_matched", g))
                /\ Continue
       \/ /\ i \notin DOMAIN input.guardrails
          /\ GoTo("policy_exists") /\ UNCHANGED <<events, guardrailApprovalId>>

\* The allow pass goes on after its first match.
PolicyAllowGoesOn ==
    /\ pass = "policy_allow"
    /\ UNCHANGED <<input, guardrailApprovalId, policyApproval>>
    /\ \/ /\ i \in DOMAIN input.policy.rules
          /\ LET r == input.policy.rules[i] IN
             \/ r.effect # "allow" /\ Continue /\ UNCHANGED <<considered, events>>
             \/ /\ r.effect = "allow" /\ considered' = considered + 1 /\ Continue
                /\ IF targetMatches(r.target, input)
                   THEN push(PolicyEvent("policy_allow_matched", r.target))
                   ELSE UNCHANGED events
       \/ /\ i \notin DOMAIN input.policy.rules
          /\ UNCHANGED considered
          /\ IF \E k \in DOMAIN events : events[k].kind = "policy_allow_matched"
             THEN GoTo("policy_deny") /\ UNCHANGED events
             ELSE push(NoAllowEvent) /\ return(PolicyResult("deny", "denied_by_policy"))

\* The approval pass answers at once, without consulting the policy.
GuardrailApprovalReturnsEarly ==
    /\ pass = "guardrail_approval"
    /\ UNCHANGED <<input, considered, guardrailApprovalId, policyApproval>>
    /\ \/ /\ i \in DOMAIN input.guardrails
          /\ LET g == input.guardrails[i] IN
             \/ /\ ~Binds(g, input) \/ g.enforcement # "require_approval"
                /\ Continue /\ UNCHANGED events
             \/ /\ Binds(g, input) /\ g.enforcement = "require_approval"
                /\ push(GuardrailEvent("guardrail_approval_matched", g))
                /\ return([decision |-> "approval_required", guardrailId |-> g.id,
                           reason |-> "approval_required_by_guardrail"])
       \/ /\ i \notin DOMAIN input.guardrails
          /\ GoTo("policy_exists") /\ UNCHANGED events

\* A missing policy is not looked for.
PolicyExistsUnchecked ==
    /\ pass = "policy_exists"
    /\ GoTo("policy_allow")
    /\ UNCHANGED <<input, considered, events, guardrailApprovalId, policyApproval>>

\* A deny rule ends the evaluation without leaving its event.
PolicyDenyUntraced ==
    /\ pass = "policy_deny"
    /\ UNCHANGED <<input, considered, events, guardrailApprovalId, policyApproval>>
    /\ \/ /\ i \in DOMAIN input.policy.rules
          /\ LET r == input.policy.rules[i] IN
             \/ (r.effect # "deny" \/ ~targetMatches(r.target, input)) /\ Continue
             \/ /\ r.effect = "deny" /\ targetMatches(r.target, input)
                /\ return(PolicyResult("deny", "denied_by_policy"))
       \/ i \notin DOMAIN input.policy.rules /\ GoTo("policy_approval")

----------------------------------------------------------------------------
(* 1. Guardrails, deny pass.                                               *)
GuardrailDeny ==
    /\ pass = "guardrail_deny"
    /\ UNCHANGED <<input, considered, guardrailApprovalId, policyApproval>>
    /\ \/ /\ i \in DOMAIN input.guardrails
          /\ LET g == input.guardrails[i] IN
             \/ /\ ~RoleApplies(g, input)
                /\ push(RoleSkipped(g))
                /\ Continue
             \/ /\ RoleApplies(g, input)
                /\ ~targetMatches(g.target, input) \/ g.enforcement # "deny"
                /\ Continue /\ UNCHANGED events
             \/ /\ Binds(g, input) /\ g.enforcement = "deny"
                /\ push(GuardrailEvent("guardrail_deny_matched", g))
                /\ return([decision |-> "deny", reason |-> "denied_by_guardrail",
                           guardrailId |-> g.id])
       \/ /\ i \notin DOMAIN input.guardrails
          /\ GoTo("guardrail_approval") /\ UNCHANGED events

(* 2. Guardrails, require_approval pass: the first match, then break.      *)
GuardrailApproval ==
    /\ pass = "guardrail_approval"
    /\ UNCHANGED <<input, considered, policyApproval>>
    /\ \/ /\ i \in DOMAIN input.guardrails
          /\ LET g == input.guardrails[i] IN
             \/ /\ ~Binds(g, input) \/ g.enforcement # "require_approval"
                /\ Continue /\ UNCHANGED <<events, guardrailApprovalId>>
             \/ /\ Binds(g, input) /\ g.enforcement = "require_approval"
                /\ guardrailApprovalId' = g.id
                /\ push(GuardrailEvent("guardrail_approval_matched", g))
                /\ GoTo("policy_exists")
       \/ /\ i \notin DOMAIN input.guardrails
          /\ GoTo("policy_exists") /\ UNCHANGED <<events, guardrailApprovalId>>

(* 3. Policy must exist.                                                   *)
PolicyExists ==
    /\ pass = "policy_exists"
    /\ \/ /\ input.policy = NoPolicy
          /\ push([kind |-> "no_policy_assigned"])
          /\ return([decision |-> "deny", reason |-> "no_policy_assigned"])
       \/ /\ input.policy # NoPolicy
          /\ GoTo("policy_allow") /\ UNCHANGED events
    /\ UNCHANGED <<input, considered, guardrailApprovalId, policyApproval>>

(* 4. Policy rules: at least one allow ...                                 *)
PolicyAllow ==
    /\ pass = "policy_allow"
    /\ UNCHANGED <<input, guardrailApprovalId, policyApproval>>
    /\ \/ /\ i \in DOMAIN input.policy.rules
          /\ LET r == input.policy.rules[i] IN
             \/ /\ r.effect # "allow"
                /\ Continue /\ UNCHANGED <<considered, events>>
             \/ /\ r.effect = "allow" /\ ~targetMatches(r.target, input)
                /\ considered' = considered + 1
                /\ Continue /\ UNCHANGED events
             \/ /\ r.effect = "allow" /\ targetMatches(r.target, input)
                /\ considered' = considered + 1
                /\ push(PolicyEvent("policy_allow_matched", r.target))
                /\ GoTo("policy_deny")
       \/ /\ i \notin DOMAIN input.policy.rules
          /\ push(NoAllowEvent)
          /\ return(PolicyResult("deny", "denied_by_policy"))
          /\ UNCHANGED considered

(* ... and no deny.                                                        *)
PolicyDeny ==
    /\ pass = "policy_deny"
    /\ UNCHANGED <<input, considered, guardrailApprovalId, policyApproval>>
    /\ \/ /\ i \in DOMAIN input.policy.rules
          /\ LET r == input.policy.rules[i] IN
             \/ /\ r.effect # "deny" \/ ~targetMatches(r.target, input)
                /\ Continue /\ UNCHANGED events
             \/ /\ r.effect = "deny" /\ targetMatches(r.target, input)
                /\ push(PolicyEvent("policy_deny_matched", r.target))
                /\ return(PolicyResult("deny", "denied_by_policy"))
       \/ /\ i \notin DOMAIN input.policy.rules
          /\ GoTo("policy_approval") /\ UNCHANGED events

(* 5. Approval rules of the policy.                                        *)
PolicyApproval ==
    /\ pass = "policy_approval"
    /\ UNCHANGED <<input, considered, guardrailApprovalId>>
    /\ \/ /\ i \in DOMAIN input.policy.approvalRules
          /\ LET t == input.policy.approvalRules[i] IN
             \/ /\ ~targetMatches(t, input)
                /\ Continue /\ UNCHANGED <<events, policyApproval>>
             \/ /\ targetMatches(t, input)
                /\ policyApproval' = TRUE
                /\ push(PolicyEvent("policy_approval_matched", t))
                /\ GoTo("combine")
       \/ /\ i \notin DOMAIN input.policy.approvalRules
          /\ GoTo("combine") /\ UNCHANGED <<events, policyApproval>>

(* 6. Combine; a guardrail's approval is the one named.                    *)
Combine ==
    /\ pass = "combine"
    /\ \/ /\ guardrailApprovalId # NoId
          /\ return([decision |-> "approval_required", guardrailId |-> guardrailApprovalId,
                     reason |-> "approval_required_by_guardrail"])
       \/ /\ guardrailApprovalId = NoId /\ policyApproval
          /\ return(PolicyResult("approval_required", "approval_required_by_policy"))
       \/ /\ guardrailApprovalId = NoId /\ ~policyApproval
          /\ return([decision |-> "allow", policyId |-> input.policy.id,
                     policyVersion |-> input.policy.version])
    /\ UNCHANGED <<input, considered, events, guardrailApprovalId, policyApproval>>

Next == \/ GuardrailDeny \/ GuardrailApproval \/ PolicyExists \/ PolicyAllow
        \/ PolicyDeny \/ PolicyApproval \/ Combine

Spec == Init /\ [][Next]_vars

----------------------------------------------------------------------------
(* Properties.                                                             *)

\* Every variable of an evaluation has the type the TypeScript declares.
TypeOK ==
    /\ input \in EvaluationInput
    /\ pass \in Pass
    /\ i \in Nat \ {0}
    /\ considered \in Nat
    /\ events \in Seq(Event)
    /\ guardrailApprovalId \in Id \cup {NoId}
    /\ policyApproval \in BOOLEAN
    /\ result \in Result \cup {NoResult}
    /\ input.policy = NoPolicy => pass \in {"guardrail_deny", "guardrail_approval",
                                            "policy_exists", "done"}

Returned == pass = "done"

\* The sequence of passes with early returns computes the verdict that the
\* header of _evaluator.ts documents over sets of rules: deny overrides
\* everything, nothing is allowed without an allow rule, and an approval asked
\* for by anyone is asked for.
DecisionCorrect == Returned => result.decision = Decision(input)

EventKinds == {events[k].kind : k \in DOMAIN events}

\* The persisted trace alone tells the verdict: an auditor who has the events
\* and not the policy reaches the decision that was enforced.
TraceJustifies ==
    Returned =>
        result.decision =
            IF EventKinds \cap {"guardrail_deny_matched", "no_policy_assigned",
                                "policy_no_allow_matched", "policy_deny_matched"} # {}
            THEN "deny"
            ELSE IF EventKinds \cap {"guardrail_approval_matched",
                                     "policy_approval_matched"} # {}
                 THEN "approval_required" ELSE "allow"

First(s, P(_)) ==
    LET hits == {k \in DOMAIN s : P(s[k])}
    IN  CHOOSE k \in hits : \A m \in hits : k <= m

\* The targets of the first policy rule with an effect, and of the first
\* approval rule, that match the request.
FirstRuleTarget(in, effect) ==
    LET Says(r) == r.effect = effect /\ targetMatches(r.target, in)
    IN  in.policy.rules[First(in.policy.rules, Says)].target

FirstApprovalTarget(in) ==
    LET Matches(t) == targetMatches(t, in)
    IN  in.policy.approvalRules[First(in.policy.approvalRules, Matches)]

\* An event about a policy rule names the first that matched in its pass.
NamesFirst(in, e) ==
    /\ e.kind = "policy_allow_matched" =>
          RuleSays(in, "allow") /\ e.rule = FirstRuleTarget(in, "allow")
    /\ e.kind = "policy_deny_matched" =>
          RuleSays(in, "deny") /\ e.rule = FirstRuleTarget(in, "deny")
    /\ e.kind = "policy_approval_matched" =>
          ApprovalRuleSays(in) /\ e.rule = FirstApprovalTarget(in)

\* A verdict attributed to a guardrail names the first guardrail of the list,
\* in the order it was given, that binds this caller with that enforcement;
\* and every policy rule in the trace is the first of its list that matches
\* with that effect, whatever other rules match after it.
AttributedToFirst ==
    /\ Returned /\ "guardrailId" \in DOMAIN result =>
          LET kind == IF result.decision = "deny" THEN "deny" ELSE "require_approval"
              Bound(g) == g.enforcement = kind /\ Binds(g, input)
          IN  /\ GuardrailSays(input, kind)
              /\ result.guardrailId = input.guardrails[First(input.guardrails, Bound)].id
    /\ \A k \in DOMAIN events : NamesFirst(input, events[k])

\* An organisation's guardrail can only tighten: the verdict enforced is at
\* least as strict as the one the same request would get without guardrails.
GuardrailsOnlyTighten ==
    Returned =>
        Strictness(result.decision) >= Strictness(Decision([input EXCEPT !.guardrails = <<>>]))
=============================================================================
