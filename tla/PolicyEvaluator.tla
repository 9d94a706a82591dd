--------------------------- MODULE PolicyEvaluator ---------------------------
(***************************************************************************)
(* The data of the policy kernel (mcp-broker/src/_evaluator.ts) and the    *)
(* meaning its header gives to a policy: which verdict a request gets,     *)
(* stated over SETS of rules, with no order of passes.  PolicyKernel is    *)
(* the evaluator itself, loop by loop, and is shown to compute this.       *)
(*                                                                         *)
(* A string is a non-empty sequence of colon-free segments, so that the    *)
(* template `${platformId}:${scopeId}` is concatenation: "a:b" with "c"    *)
(* and "a" with "b:c" give the same text here exactly as they do in code.  *)
(***************************************************************************)
EXTENDS Integers, Sequences, Functions

CONSTANTS
    Segment,     \* colon-free pieces of platform ids, scope ids and tags
    Id,          \* ids of guardrails and policies; all non-empty strings
    NoPolicy,    \* policy: null
    NoRole       \* appliesToRole: null

Str  == Seq(Segment) \ {<<>>}
Role == {"admin", "member"}

Target == [targetType : {"platform", "tag", "scope"}, targetValue : Str]

PolicyRule == [effect : {"allow", "deny"}, target : Target]

PolicySnapshot ==
    [id : Id, version : Nat, rules : Seq(PolicyRule), approvalRules : Seq(Target)]

Guardrail ==
    [id : Id, enforcement : {"deny", "require_approval"}, target : Target,
     appliesToRole : Role \cup {NoRole}]

EvaluationInput ==
    [policy : PolicySnapshot \cup {NoPolicy}, guardrails : Seq(Guardrail),
     callerRole : Role, requestedScopeTags : SUBSET Str,
     requested : [platformId : Str, scopeId : Str]]

ASSUME NullAssumption == NoRole \notin Role /\ NoPolicy \notin PolicySnapshot

\* function targetMatches: the platform, one of the tags, or "platform:scope".
targetMatches(t, in) ==
    CASE t.targetType = "platform" -> t.targetValue = in.requested.platformId
      [] t.targetType = "tag"      -> t.targetValue \in in.requestedScopeTags
      [] t.targetType = "scope"    ->
            t.targetValue = in.requested.platformId \o in.requested.scopeId

----------------------------------------------------------------------------
(* The documented semantics (_evaluator.ts, header, rules 1-6).            *)

\* A guardrail binds a caller when it names no role or the caller's role.
RoleApplies(g, in) == g.appliesToRole \in {NoRole, in.callerRole}

Binds(g, in) == RoleApplies(g, in) /\ targetMatches(g.target, in)

GuardrailSays(in, enforcement) ==
    \E g \in Range(in.guardrails) : g.enforcement = enforcement /\ Binds(g, in)

RuleSays(in, effect) ==
    \E r \in Range(in.policy.rules) : r.effect = effect /\ targetMatches(r.target, in)

ApprovalRuleSays(in) ==
    \E t \in Range(in.policy.approvalRules) : targetMatches(t, in)

\* The policy lets the request through: an allow matches and no deny does.
PolicyGrants(in) ==
    in.policy # NoPolicy /\ RuleSays(in, "allow") /\ ~RuleSays(in, "deny")

Decision(in) ==
    IF GuardrailSays(in, "deny") \/ ~PolicyGrants(in) THEN "deny"
    ELSE IF GuardrailSays(in, "require_approval") \/ ApprovalRuleSays(in)
         THEN "approval_required"
         ELSE "allow"

\* How much a decision withholds.
Strictness(d) ==
    CASE d = "allow" -> 0 [] d = "approval_required" -> 1 [] d = "deny" -> 2
=============================================================================
