----------------------------- MODULE FilePolicy -----------------------------
(***************************************************************************)
(* The decision of the local policy file (mcp-broker/src/policy/           *)
(* file-source.ts): the parsed document, its translation to a kernel       *)
(* input, and the obligations that go with the decision.  A document lists *)
(* at most one rule per tool (yaml.ts rejects a second one).               *)
(***************************************************************************)
EXTENDS PolicyEvaluator, FiniteSets

CONSTANTS
    Tool,        \* tool names, each a string
    Ref,         \* credential references
    NoRef        \* rule without a credential

ASSUME ToolAssumption == Tool \subseteq Str /\ "local" \in Id
ASSUME RefAssumption  == NoRef \notin Ref

Effect == {"allow", "deny", "require_approval"}

DocRule == [tool : Tool, effect : Effect, credential : Ref \cup {NoRef}]

PolicyDoc ==
    {d \in [version : {1}, defaults : {"allow", "deny"}, rules : Seq(DocRule)] :
        \A j, k \in DOMAIN d.rules : d.rules[j].tool = d.rules[k].tool => j = k}

Scope(server, tool) == [targetType |-> "scope", targetValue |-> server \o tool]

\* One kernel rule per document rule; require_approval needs an allow too.
KernelRule(server, r) ==
    [effect |-> IF r.effect = "deny" THEN "deny" ELSE "allow", target |-> Scope(server, r.tool)]

CatchAll(server) ==
    [effect |-> "allow", target |-> [targetType |-> "platform", targetValue |-> server]]

\* The indices of the rules that ask for approval, and the n-th of them in order.
Asking(doc) == {k \in DOMAIN doc.rules : doc.rules[k].effect = "require_approval"}

Rank(S, k) == Cardinality({j \in S : j <= k})

Nth(S, n) == CHOOSE k \in S : Rank(S, k) = n

toEvaluationInput(doc, server, tool) ==
    [policy |->
        [id |-> "local", version |-> doc.version,
         rules |-> [k \in DOMAIN doc.rules |-> KernelRule(server, doc.rules[k])]
                   \o (IF doc.defaults = "allow" THEN <<CatchAll(server)>> ELSE <<>>),
         approvalRules |-> [n \in 1..Cardinality(Asking(doc)) |->
                               Scope(server, doc.rules[Nth(Asking(doc), n)].tool)]],
     guardrails |-> <<>>, callerRole |-> "member", requestedScopeTags |-> {},
     requested |-> [platformId |-> server, scopeId |-> tool]]

RulesFor(doc, tool) == {r \in Range(doc.rules) : r.tool = tool}

\* obligationsFor: the credential of the tool's rule, if it names one.
obligationsFor(doc, tool) == {r.credential : r \in RulesFor(doc, tool)} \ {NoRef}

\* FilePolicySource.evaluate, once the document is loaded.
evaluate(doc, server, tool) ==
    LET d == Decision(toEvaluationInput(doc, server, tool))
    IN  [effect |-> IF d = "approval_required" THEN "require_approval" ELSE d,
         obligations |-> IF d = "deny" THEN {} ELSE obligationsFor(doc, tool)]

----------------------------------------------------------------------------
(* What the author of the file means: the rule written for a tool decides  *)
(* that tool, and the default decides the tools that have none.            *)
WrittenEffect(doc, tool) ==
    IF RulesFor(doc, tool) = {} THEN doc.defaults
    ELSE (CHOOSE r \in RulesFor(doc, tool) : TRUE).effect
=============================================================================
