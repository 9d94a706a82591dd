--------------------------- MODULE MCPolicyKernel ---------------------------
(***************************************************************************)
(* Every evaluation with at most two guardrails, two policy rules and two  *)
(* approval rules, over targets of all three types, for two requests, with *)
(* and without the tag, by both roles.                                     *)
(***************************************************************************)
EXTENDS PolicyKernel, SequencesExt

T(type, value) == [targetType |-> type, targetValue |-> value]

GuardrailsAt(id) ==
    [id : {id}, enforcement : {"deny", "require_approval"},
     target : {T("platform", <<"a">>), T("tag", <<"t">>)}, appliesToRole : {NoRole, "admin"}]

GuardrailLists ==
    {<<>>} \cup {<<g>> : g \in GuardrailsAt("g1")}
           \cup (GuardrailsAt("g1") \X GuardrailsAt("g2"))

MCRules == [effect : {"allow", "deny"}, target : {T("scope", <<"a", "b">>), T("tag", <<"t">>)}]

MCPolicies ==
    [id : {"p"}, version : {1}, rules : BoundedSeq(MCRules, 2),
     approvalRules : BoundedSeq({T("scope", <<"a", "b">>), T("tag", <<"t">>)}, 2)]

MCInputs ==
    [policy : MCPolicies \cup {NoPolicy}, guardrails : GuardrailLists, callerRole : Role,
     requestedScopeTags : {{}, {<<"t">>}},
     requested : {[platformId |-> <<"a">>, scopeId |-> <<"b">>],
                  [platformId |-> <<"b">>, scopeId |-> <<"a">>]}]
=============================================================================
