----------------------- MODULE BrokerPipeline_proofs -----------------------
(***************************************************************************)
(* For any number of calls, documents and secrets, edits and crashes: the  *)
(* broker is well typed, no handler runs without authority, every call     *)
(* that ends has emitted one event, and the stored log is sound.           *)
(***************************************************************************)
EXTENDS BrokerPipeline, FiniteSetTheorems, TLAPS

----------------------------------------------------------------------------
(* The local policy document: translated to the kernel's input, the rule   *)
(* written for a tool decides that tool.                                   *)

\* Enumerating a finite set of indices in ascending order reaches exactly them.
LEMMA NthEnumerates ==
    ASSUME NEW S \in SUBSET Nat, IsFiniteSet(S)
    PROVE  /\ Cardinality(S) \in Nat
           /\ \A n \in 1..Cardinality(S) : Nth(S, n) \in S
           /\ \A k \in S : \E n \in 1..Cardinality(S) : Nth(S, n) = k
<1> DEFINE below(k) == {j \in S : j <= k}
           rank == [k \in S |-> Rank(S, k)]
<1>0. Cardinality(S) \in Nat
  BY FS_CardinalityType
<1>1. \A k \in S : /\ IsFiniteSet(below(k)) /\ Cardinality(below(k)) \in Nat
                   /\ Cardinality(below(k)) <= Cardinality(S)
                   /\ k \in below(k)
  <2> TAKE k \in S
  <2>1. below(k) \in SUBSET S /\ k \in below(k)
    OBVIOUS
  <2>2. IsFiniteSet(below(k)) /\ Cardinality(below(k)) <= Cardinality(S)
    BY <2>1, FS_Subset
  <2> QED
    BY <2>1, <2>2, FS_CardinalityType
<1>2. \A k \in S : Rank(S, k) \in 1..Cardinality(S)
  <2> TAKE k \in S
  <2>1. Cardinality(below(k)) # 0
    BY <1>1, FS_EmptySet
  <2>2. Rank(S, k) = Cardinality(below(k))
    BY DEF Rank
  <2>3. Cardinality(below(k)) \in Nat /\ Cardinality(below(k)) <= Cardinality(S)
    BY <1>1
  <2> HIDE DEF below
  <2> QED
    BY <1>0, <2>1, <2>2, <2>3
<1>3. ASSUME NEW k \in S, NEW l \in S, k < l
      PROVE  Rank(S, k) # Rank(S, l)
  <2>1. below(k) \in SUBSET below(l) /\ l \in below(l) /\ l \notin below(k)
    <3>1. k \in Nat /\ l \in Nat /\ k < l
      BY <1>3
    <3>2. \A j \in S : j \in Nat /\ (j <= k => j <= l) /\ ~(l <= k) /\ l <= l
      BY <3>1
    <3> QED
      BY <3>2, Zenon
  <2>2. below(k) # below(l)
    BY <2>1
  <2> QED
    BY <1>1, <2>1, <2>2, FS_Subset DEF Rank
<1>4. \A k, l \in S : Rank(S, k) = Rank(S, l) => k = l
  <2>1. \A k, l \in S : k < l \/ l < k \/ k = l
    OBVIOUS
  <2> QED
    BY <1>3, <2>1
<1>5. rank \in Injection(S, 1..Cardinality(S))
  BY <1>2, <1>4 DEF Injection, IsInjective
<1>6. rank \in Surjection(S, 1..Cardinality(S))
  <2>1. IsFiniteSet(1..Cardinality(S)) /\ Cardinality(1..Cardinality(S)) = Cardinality(S)
    BY <1>0, FS_Interval
  <2> QED
    BY <1>5, <2>1, FS_Injection
<1>7. \A n \in 1..Cardinality(S) : \E k \in S : Rank(S, k) = n
  BY <1>6 DEF Surjection
<1>8. \A n \in 1..Cardinality(S) : Nth(S, n) \in S /\ Rank(S, Nth(S, n)) = n
  BY <1>7 DEF Nth
<1>9. \A k \in S : Nth(S, Rank(S, k)) = k
  BY <1>2, <1>4, <1>8
<1> QED
  BY <1>0, <1>2, <1>8, <1>9

\* Under one server, two tools have the same target text only if they are the
\* same tool.
LEMMA ScopeInjective ==
    ASSUME NEW p \in Seq(Segment), NEW s \in Seq(Segment), NEW t \in Seq(Segment), p \o s = p \o t
    PROVE  s = t
<1>1. Len(s) = Len(t)
  OBVIOUS
<1>2. \A k \in 1..Len(s) : s[k] = (p \o s)[Len(p) + k] /\ t[k] = (p \o t)[Len(p) + k]
  BY <1>1
<1>3. \A k \in 1..Len(s) : s[k] = t[k]
  BY <1>2
<1>4. s \in [1..Len(s) -> Segment] /\ t \in [1..Len(s) -> Segment]
  BY <1>1
<1> QED
  BY <1>3, <1>4

\* A concatenation has the elements of both sequences.
LEMMA RangeConcatenation ==
    ASSUME NEW T, NEW s \in Seq(T), NEW t \in Seq(T)
    PROVE  Range(s \o t) = Range(s) \cup Range(t)
<1>1. \A k \in 1..Len(s) + Len(t) :
         (s \o t)[k] = IF k <= Len(s) THEN s[k] ELSE t[k - Len(s)]
  OBVIOUS
<1>2. Range(s \o t) \subseteq Range(s) \cup Range(t)
  BY <1>1 DEF Range
<1>3. \A k \in 1..Len(t) : Len(s) + k \in 1..Len(s) + Len(t) /\ (s \o t)[Len(s) + k] = t[k]
  OBVIOUS
<1>4. \A k \in 1..Len(s) : k \in 1..Len(s) + Len(t) /\ (s \o t)[k] = s[k]
  OBVIOUS
<1>5. DOMAIN (s \o t) = 1..Len(s) + Len(t) /\ DOMAIN s = 1..Len(s) /\ DOMAIN t = 1..Len(t)
  OBVIOUS
<1>6. \A x \in Range(s) \cup Range(t) : \E k \in DOMAIN (s \o t) : x = (s \o t)[k]
  <2>1. \A x \in Range(s) : \E k \in 1..Len(s) : x = s[k]
    BY <1>5 DEF Range
  <2>2. \A x \in Range(t) : \E k \in 1..Len(t) : x = t[k]
    BY <1>5 DEF Range
  <2>3. ASSUME NEW x \in Range(s) PROVE \E k \in DOMAIN (s \o t) : x = (s \o t)[k]
    BY <1>4, <1>5, <2>1, Zenon
  <2>4. ASSUME NEW x \in Range(t) PROVE \E k \in DOMAIN (s \o t) : x = (s \o t)[k]
    <3>1. PICK k \in 1..Len(t) : x = t[k]
      BY <2>2
    <3> QED
      BY <1>3, <1>5, <3>1, Zenon
  <2> QED
    BY <2>3, <2>4, Zenon
<1> QED
  BY <1>2, <1>6, Zenon DEF Range

\* What the translation's rules say about a tool.
LEMMA Translation ==
    ASSUME NEW document \in PolicyDoc, NEW server \in Str, NEW t \in Tool
    PROVE  LET in == toEvaluationInput(document, server, t) IN
           /\ \A e : ~GuardrailSays(in, e)
           /\ in.policy # NoPolicy
           /\ RuleSays(in, "deny") <=> \E r \in RulesFor(document, t) : r.effect = "deny"
           /\ RuleSays(in, "allow") <=>
                 document.defaults = "allow" \/ \E r \in RulesFor(document, t) : r.effect # "deny"
           /\ ApprovalRuleSays(in) <=> \E r \in RulesFor(document, t) : r.effect = "require_approval"
<1> DEFINE in == toEvaluationInput(document, server, t)
           own == [k \in DOMAIN document.rules |-> KernelRule(server, document.rules[k])]
           tail == IF document.defaults = "allow" THEN <<CatchAll(server)>> ELSE <<>>
           S == Asking(document)
<1>1. /\ document.rules \in Seq(DocRule) /\ document.defaults \in {"allow", "deny"}
      /\ \A k \in DOMAIN document.rules : document.rules[k].tool \in Tool /\ document.rules[k].effect \in Effect
  <2>1. document.rules \in Seq(DocRule) /\ document.defaults \in {"allow", "deny"}
    BY DEF PolicyDoc
  <2>2. \A k \in DOMAIN document.rules : document.rules[k] \in DocRule
    BY <2>1
  <2> QED
    BY <2>1, <2>2 DEF DocRule
<1>2. \A s \in Tool : targetMatches(Scope(server, s), in) <=> s = t
  <2>1. \A s \in Tool : s \in Seq(Segment)
    BY ToolAssumption DEF Str
  <2>2. server \in Seq(Segment)
    BY DEF Str
  <2> QED
    BY <2>1, <2>2, ScopeInjective DEF targetMatches, Scope, toEvaluationInput
<1>3. targetMatches(CatchAll(server).target, in)
  BY DEF targetMatches, CatchAll, toEvaluationInput
<1>4. /\ own \in Seq(PolicyRule) /\ tail \in Seq(PolicyRule)
      /\ DOMAIN own = 1..Len(document.rules) /\ Len(own) = Len(document.rules)
  <2>1. \A k \in DOMAIN document.rules : KernelRule(server, document.rules[k]) \in PolicyRule
    BY <1>1, ToolAssumption DEF KernelRule, PolicyRule, Scope, Target, Str
  <2>2. CatchAll(server) \in PolicyRule
    BY DEF CatchAll, PolicyRule, Target
  <2> QED
    BY <1>1, <2>1, <2>2
<1>5. /\ S \in SUBSET Nat /\ IsFiniteSet(S)
      /\ \A k \in S : k \in DOMAIN document.rules
  <2>1. S \in SUBSET (1..Len(document.rules)) /\ 1..Len(document.rules) \in SUBSET Nat
    BY <1>1 DEF Asking
  <2>2. Len(document.rules) \in Int /\ 1 \in Int
    BY <1>1
  <2>3. IsFiniteSet(1..Len(document.rules))
    BY <2>2, FS_Interval
  <2> QED
    BY <1>1, <2>1, <2>3, FS_Subset
<1>6. /\ in.policy.rules = own \o tail /\ in.guardrails = <<>>
      /\ in.policy.approvalRules =
            [n \in 1..Cardinality(S) |-> Scope(server, document.rules[Nth(S, n)].tool)]
  BY DEF toEvaluationInput
<1>7. \A e : ~GuardrailSays(in, e)
  BY <1>6 DEF GuardrailSays, Range
<1>8. Range(own \o tail) =
         {KernelRule(server, r) : r \in Range(document.rules)}
         \cup (IF document.defaults = "allow" THEN {CatchAll(server)} ELSE {})
  <2>1. Range(own) = {KernelRule(server, r) : r \in Range(document.rules)}
    BY <1>1 DEF Range
  <2>2. Range(tail) = IF document.defaults = "allow" THEN {CatchAll(server)} ELSE {}
    BY DEF Range
  <2>3. Range(own \o tail) = Range(own) \cup Range(tail)
    BY <1>4, RangeConcatenation
  <2> QED
    BY <2>1, <2>2, <2>3
<1>9. in.policy # NoPolicy
  <2>1. in.policy.approvalRules \in Seq(Target)
    <3>1. \A n \in 1..Cardinality(S) : Nth(S, n) \in DOMAIN document.rules
      BY <1>5, NthEnumerates
    <3>2. \A n \in 1..Cardinality(S) : Scope(server, document.rules[Nth(S, n)].tool) \in Target
      BY <1>1, <3>1, ToolAssumption DEF Scope, Target, Str
    <3>3. Cardinality(S) \in Nat
      BY <1>5, NthEnumerates
    <3> QED
      BY <1>6, <3>2, <3>3
  <2>2. in.policy.rules \in Seq(PolicyRule)
    <3> HIDE DEF in, own, tail
    <3> QED
      BY <1>4, <1>6
  <2>3. in.policy = [id |-> "local", version |-> document.version, rules |-> in.policy.rules,
                     approvalRules |-> in.policy.approvalRules]
    BY Zenon DEF toEvaluationInput
  <2>0. document.version \in Nat
    BY DEF PolicyDoc
  <2>4. in.policy \in PolicySnapshot
    <3> HIDE DEF in
    <3> QED
      BY <2>0, <2>1, <2>2, <2>3, ToolAssumption DEF PolicySnapshot
  <2> QED
    BY <2>4, NullAssumption
<1>10. \A r \in Range(document.rules) : r.tool \in Tool /\ r.effect \in Effect
  BY <1>1 DEF Range
<1>11. \A r \in Range(document.rules) :
          targetMatches(KernelRule(server, r).target, in) <=> r \in RulesFor(document, t)
  BY <1>2, <1>10 DEF KernelRule, RulesFor
<1> HIDE DEF in
<1>12. \A e : RuleSays(in, e) <=>
          \/ \E r \in RulesFor(document, t) : KernelRule(server, r).effect = e
          \/ document.defaults = "allow" /\ e = "allow"
  <2>1. \A r \in RulesFor(document, t) : r \in Range(document.rules)
    BY DEF RulesFor
  <2>2. CatchAll(server).effect = "allow"
    BY DEF CatchAll
  <2>3. Range(in.policy.rules) =
          {KernelRule(server, r) : r \in Range(document.rules)}
          \cup (IF document.defaults = "allow" THEN {CatchAll(server)} ELSE {})
    BY <1>6, <1>8
  <2> QED
    BY <1>3, <1>11, <2>1, <2>2, <2>3 DEF RuleSays
<1>13. ApprovalRuleSays(in) <=> \E r \in RulesFor(document, t) : r.effect = "require_approval"
  <2>1. /\ \A n \in 1..Cardinality(S) : Nth(S, n) \in S
        /\ \A k \in S : \E n \in 1..Cardinality(S) : Nth(S, n) = k
    BY <1>5, NthEnumerates
  <2>2. Range(in.policy.approvalRules) = {Scope(server, document.rules[k].tool) : k \in S}
    <3> DEFINE scopeAt(k) == Scope(server, document.rules[k].tool)
    <3>1. in.policy.approvalRules = [n \in 1..Cardinality(S) |-> scopeAt(Nth(S, n))]
      BY <1>6
    <3> HIDE DEF scopeAt, S
    <3>2. Range(in.policy.approvalRules) = {scopeAt(Nth(S, n)) : n \in 1..Cardinality(S)}
      BY <3>1 DEF Range
    <3>3. {scopeAt(Nth(S, n)) : n \in 1..Cardinality(S)} = {scopeAt(k) : k \in S}
      BY <2>1
    <3> QED
      BY <3>2, <3>3 DEF scopeAt
  <2>3. ApprovalRuleSays(in) <=> \E k \in S : document.rules[k].tool = t
    BY <1>1, <1>2, <1>5, <2>2 DEF ApprovalRuleSays
  <2> QED
    BY <1>5, <2>3 DEF Asking, RulesFor, Range
<1> QED
  BY <1>1, <1>7, <1>9, <1>12, <1>13 DEF in, KernelRule

\* The rule written for a tool decides that tool and the default decides the
\* rest, for every document: the detour through allow rules, approval rules and
\* the catch-all changes no verdict, and no rule reaches another tool.
THEOREM WrittenRuleDecides ==
    ASSUME NEW document \in PolicyDoc, NEW server \in Str, NEW t \in Tool
    PROVE  evaluate(document, server, t).effect = WrittenEffect(document, t)
<1> DEFINE in == toEvaluationInput(document, server, t)
           mine == RulesFor(document, t)
<1>1. document.defaults \in {"allow", "deny"} /\ \A r \in mine : r.effect \in Effect
  <2>1. document.rules \in Seq(DocRule) /\ document.defaults \in {"allow", "deny"}
    BY DEF PolicyDoc
  <2>2. \A k \in DOMAIN document.rules : document.rules[k] \in DocRule
    BY <2>1
  <2>3. \A r \in mine : r \in DocRule
    BY <2>2 DEF RulesFor, Range
  <2> QED
    BY <2>1, <2>3 DEF DocRule
<1>2. \A r, s \in mine : r = s
  BY DEF RulesFor, Range, PolicyDoc
<1>3. Decision(in) =
         IF RuleSays(in, "deny") \/ ~RuleSays(in, "allow") THEN "deny"
         ELSE IF ApprovalRuleSays(in) THEN "approval_required" ELSE "allow"
  BY Translation, Zenon DEF Decision, PolicyGrants
<1>4. CASE mine = {}
  <2>1. Decision(in) = document.defaults
    BY <1>1, <1>3, <1>4, Translation
  <2> QED
    BY <1>1, <1>4, <2>1 DEF evaluate, WrittenEffect
<1>5. CASE mine # {}
  <2>1. PICK r \in mine : mine = {r}
    BY <1>2, <1>5
  <2>2. WrittenEffect(document, t) = r.effect
    BY <2>1 DEF WrittenEffect
  <2>3. Decision(in) = IF r.effect = "require_approval" THEN "approval_required" ELSE r.effect
    BY <1>1, <1>3, <2>1, Translation DEF Effect
  <2> QED
    BY <1>1, <2>1, <2>2, <2>3 DEF evaluate, Effect
<1> QED
  BY <1>4, <1>5

----------------------------------------------------------------------------
(* The types of a call's control.                                          *)

ControlOK ==
    /\ pc \in [Call -> PC]
    /\ given \in [Call -> Token \cup {None}] /\ runs \in [Call -> Nat]
    /\ emitted \in [Call -> Seq(Outcome)]
    /\ reply \in [Call -> {"none", "ok", "blocked", "threw"}]

DecisionType == [effect : Effect \cup {"none"}, obligations : SUBSET Ref]

\* The three ways a stretch of runPipeline ends keep the calls' types.
LEMMA ControlTypes ==
    ASSUME ControlOK, NEW c \in Call
    PROVE  /\ \A p \in PC : GoTo(c, p) => ControlOK'
           /\ \A k \in Token \cup {None} : Invoke(c, k) => ControlOK'
           /\ \A o \in Outcome, a \in {"ok", "blocked", "threw"} : Terminate(c, o, a) => ControlOK'
           /\ Throw(c) => ControlOK'
<1>1. ASSUME NEW p \in PC, GoTo(c, p) PROVE ControlOK'
  BY <1>1 DEF ControlOK, GoTo
<1>2. ASSUME NEW k \in Token \cup {None}, Invoke(c, k) PROVE ControlOK'
  BY <1>2 DEF ControlOK, Invoke, PC
<1>3. ASSUME NEW o \in Outcome, NEW a \in {"ok", "blocked", "threw"}, Terminate(c, o, a)
      PROVE  ControlOK'
  BY <1>3 DEF ControlOK, Terminate, PC
<1>4. ASSUME Throw(c) PROVE ControlOK'
  BY <1>4 DEF ControlOK, Throw, PC, Finished
<1> QED
  BY <1>1, <1>2, <1>3, <1>4

\* So does what follows a decision.
LEMMA DecidedTypes ==
    ASSUME ControlOK, secretMap \in SecretMaps \cup {None}, NEW c \in Call, NEW d \in DecisionType
    PROVE  /\ \A m \in SecretMaps : d.obligations # {} /\ Resolved(c, d.obligations, m) => ControlOK'
           /\ ResolveCredential(c, d) => ControlOK'
           /\ Decided(c, d) => ControlOK'
<1>1. ASSUME NEW m \in SecretMaps, d.obligations # {}, Resolved(c, d.obligations, m)
      PROVE  ControlOK'
  <2>1. PICK r \in Ref : r = CHOOSE x \in d.obligations : TRUE
    BY <1>1 DEF DecisionType
  <2>2. m[r] \in Token \cup {Missing}
    BY SecretsAssumption
  <2> QED
    BY <1>1, <2>1, <2>2, ControlTypes DEF Resolved, Outcome
<1>2. ASSUME ResolveCredential(c, d) PROVE ControlOK'
  BY <1>1, <1>2, ControlTypes DEF ResolveCredential, PC
<1>3. ASSUME Decided(c, d) PROVE ControlOK'
  BY <1>2, <1>3, ControlTypes DEF Decided, PC, Outcome
<1> QED
  BY <1>1, <1>2, <1>3

\* A decision of the file policy source is a decision, and never "none".
LEMMA EvaluateType ==
    ASSUME NEW d \in PolicyDocs, NEW t \in Tool
    PROVE  /\ evaluate(d, Server, t) \in DecisionType
           /\ evaluate(d, Server, t).effect = WrittenEffect(d, t)
<1>1. d \in PolicyDoc
  BY DocsAssumption
<1>2. WrittenEffect(d, t) \in Effect
  <2>1. d.defaults \in Effect /\ d.rules \in Seq(DocRule)
    BY <1>1 DEF PolicyDoc, Effect
  <2>2. \A k \in DOMAIN d.rules : d.rules[k] \in DocRule
    BY <2>1
  <2>3. \A r \in RulesFor(d, t) : r.effect \in Effect
    BY <2>2 DEF RulesFor, Range, DocRule
  <2> QED
    BY <2>1, <2>3 DEF WrittenEffect
<1>3. evaluate(d, Server, t).effect = WrittenEffect(d, t)
  BY <1>1, DocsAssumption, WrittenRuleDecides
<1>4. obligationsFor(d, t) \subseteq Ref
  <2>1. \A k \in DOMAIN d.rules : d.rules[k] \in DocRule
    BY <1>1 DEF PolicyDoc
  <2> QED
    BY <2>1 DEF obligationsFor, RulesFor, Range, DocRule
<1> QED
  BY <1>2, <1>3, <1>4 DEF evaluate, DecisionType

----------------------------------------------------------------------------
(* The inductive invariant: what is known of a call at each await.         *)

\* Nothing has been done for the call yet.
Fresh(c) == runs[c] = 0 /\ emitted[c] = <<>> /\ reply[c] = "none"

\* The one event emitted for the call says what was done.
Reported(c) == Len(emitted[c]) = 1 /\ Describes(emitted[c][1], c)

\* The call ended before it was decided, and nothing was done for it.
Unheard(c) == IdentityMayThrow /\ runs[c] = 0 /\ emitted[c] = <<>> /\ reply[c] = "threw"

Undecided == {"idle", "reading", "loaded"}
Deciding  == {"approving", "readingSecrets", "loadedSecrets", "handling", "redacting",
              "emitting", "returning"}

CallInv(c) ==
    /\ pc[c] \in Undecided => basis[c] = None
    /\ pc[c] \in Deciding => basis[c] # None
    /\ pc[c] \in {"idle", "reading", "loaded", "approving", "readingSecrets", "loadedSecrets"}
          => Fresh(c)
    /\ pc[c] \in {"reading", "loaded"} => tool[c] \in Tool
    /\ pc[c] = "loaded" => raw[c] \in PolicyDocs \cup {Broken}
    /\ pc[c] = "loadedSecrets" => raw[c] \in SecretMaps \cup {Broken}
    /\ pc[c] = "approving" =>
          /\ basis[c] \in PolicyDocs /\ HasApproval
          /\ WrittenEffect(basis[c], tool[c]) = "require_approval"
    /\ pc[c] \in {"readingSecrets", "loadedSecrets"} =>
          decision[c].obligations # {} /\ Authorised(c)
    /\ pc[c] \in {"handling", "redacting"} =>
          runs[c] = 1 /\ emitted[c] = <<>> /\ reply[c] = "none"
    /\ pc[c] \in {"emitting", "returning"} => Reported(c)
    /\ pc[c] = "finished" =>
          IF basis[c] = None THEN Unheard(c) ELSE RedactMayThrow \/ Reported(c)
    /\ runs[c] > 0 => Authorised(c)

\* An entry of the log belongs to a call that is past its sink.
LogInv ==
    /\ LogSound
    /\ \A k \in DOMAIN auditLog : pc[auditLog[k].call] \in {"returning", "finished", "crashed"}

IInv == TypeOK /\ (\A c \in Call : CallInv(c)) /\ LogInv

----------------------------------------------------------------------------
(* Types.                                                                  *)

\* A step of the broker keeps every variable's type.
LEMMA TypeStep == IInv /\ [Next]_vars => TypeOK'
  <1> SUFFICES ASSUME IInv, [Next]_vars PROVE TypeOK'
    OBVIOUS
  <1>0. TypeOK /\ ControlOK /\ secretMap \in SecretMaps \cup {None}
    BY DEF IInv, TypeOK, ControlOK
  <1>a. \A c \in Call : decision[c] \in DecisionType
    BY <1>0 DEF TypeOK, DecisionType
  <1>1. ASSUME NEW c \in Call, NEW t \in Tool, Start(c, t) PROVE TypeOK'
    <2>1. CASE doc # None /\ Evaluated(c, t, doc)
      <3>1. doc \in PolicyDocs
        BY <1>0, <2>1 DEF TypeOK
      <3>2. ControlOK'
        BY <1>0, <2>1, <3>1, EvaluateType, DecidedTypes DEF Evaluated
      <3> QED
        BY <1>0, <1>1, <2>1, <3>1, <3>2, EvaluateType
        DEF Start, Evaluated, TypeOK, ControlOK, DecisionType, disk
    <2>2. CASE doc = None /\ GoTo(c, "reading") /\ UNCHANGED <<basis, decision>>
      <3>1. ControlOK'
        BY <1>0, <2>2, ControlTypes DEF PC
      <3> QED
        BY <1>0, <1>1, <2>2, <3>1 DEF Start, TypeOK, ControlOK, disk
    <2> QED
      BY <1>1, <2>1, <2>2 DEF Start
  <1>2. ASSUME NEW c \in Call, ReadPolicy(c) PROVE TypeOK'
    <2>1. ControlOK'
      BY <1>0, <1>2, ControlTypes DEF ReadPolicy, PC
    <2> QED
      BY <1>0, <1>2, <2>1 DEF ReadPolicy, TypeOK, ControlOK, disk
  <1>3. ASSUME NEW c \in Call, FinishLoad(c) PROVE TypeOK'
    <2>1. tool[c] \in Tool /\ raw[c] \in PolicyDocs \cup {Broken}
      BY <1>3 DEF IInv, CallInv, FinishLoad
    <2>2. CASE raw[c] = Broken /\ Unreachable(c) /\ UNCHANGED doc
      <3> DEFINE d == [effect |-> IF FailMode = "open" THEN "allow" ELSE "deny",
                       obligations |-> {}]
      <3>1. d \in DecisionType
        BY DEF DecisionType, Effect
      <3>2. basis' = [basis EXCEPT ![c] = Broken] /\ decision' = [decision EXCEPT ![c] = d]
            /\ Decided(c, d)
        BY <2>2 DEF Unreachable
      <3> HIDE DEF d
      <3>3. ControlOK'
        BY <1>0, <3>1, <3>2, DecidedTypes
      <3> QED
        BY <1>0, <1>3, <2>2, <3>1, <3>2, <3>3
        DEF FinishLoad, TypeOK, ControlOK, DecisionType, disk
    <2>3. CASE raw[c] # Broken /\ doc' = raw[c] /\ Evaluated(c, tool[c], raw[c])
      <3>1. ControlOK'
        BY <1>0, <2>1, <2>3, EvaluateType, DecidedTypes DEF Evaluated
      <3> QED
        BY <1>0, <1>3, <2>1, <2>3, <3>1, EvaluateType
        DEF FinishLoad, Evaluated, TypeOK, ControlOK, DecisionType, disk
    <2> QED
      BY <1>3, <2>2, <2>3 DEF FinishLoad
  <1>4. ASSUME NEW c \in Call, NEW a, Approval(c, a) PROVE TypeOK'
    <2>1. ControlOK'
      BY <1>0, <1>a, <1>4, ControlTypes, DecidedTypes DEF Approval, Outcome
    <2>2. approvals' \in SUBSET Call
      BY <1>0, <1>4 DEF Approval, TypeOK
    <2> QED
      BY <1>0, <1>4, <2>1, <2>2 DEF Approval, TypeOK, ControlOK, disk
  <1>5. ASSUME NEW c \in Call, ReadSecrets(c) PROVE TypeOK'
    <2>1. ControlOK'
      BY <1>0, <1>5, ControlTypes DEF ReadSecrets, PC
    <2> QED
      BY <1>0, <1>5, <2>1 DEF ReadSecrets, TypeOK, ControlOK, disk
  <1>6. ASSUME NEW c \in Call, FinishSecrets(c) PROVE TypeOK'
    <2>1. raw[c] \in SecretMaps \cup {Broken} /\ decision[c].obligations # {}
      BY <1>6 DEF IInv, CallInv, FinishSecrets
    <2>2. ControlOK' /\ secretMap' \in SecretMaps \cup {None}
      BY <1>0, <1>a, <1>6, <2>1, ControlTypes, DecidedTypes DEF FinishSecrets, Outcome
    <2> QED
      BY <1>0, <1>6, <2>2 DEF FinishSecrets, TypeOK, ControlOK, disk
  <1>7. ASSUME NEW c \in Call, HandlerSettles(c) PROVE TypeOK'
    <2>1. ControlOK'
      BY <1>0, <1>7, ControlTypes DEF HandlerSettles, PC, Outcome
    <2> QED
      BY <1>0, <1>7, <2>1 DEF HandlerSettles, TypeOK, ControlOK, disk
  <1>8. ASSUME NEW c \in Call, Redact(c) PROVE TypeOK'
    <2>1. ControlOK'
      BY <1>0, <1>8, ControlTypes DEF Redact, Outcome
    <2> QED
      BY <1>0, <1>8, <2>1 DEF Redact, TypeOK, ControlOK, disk
  <1>9. ASSUME NEW c \in Call, SinkSettles(c) PROVE TypeOK'
    <2>1. ControlOK'
      BY <1>0, <1>9, ControlTypes DEF SinkSettles, PC
    <2>2. emitted[c] \in Seq(Outcome) /\ Len(emitted[c]) = 1
      BY <1>0, <1>9 DEF IInv, CallInv, SinkSettles, Reported, TypeOK
    <2> DEFINE e == [call |-> c, outcome |-> emitted[c][Len(emitted[c])]]
    <2>3. e \in Event /\ auditLog \in Seq(Event)
      <3>1. emitted[c][Len(emitted[c])] \in Outcome
        BY <2>2
      <3> QED
        BY <1>0, <3>1 DEF Event, TypeOK
    <2>4. auditLog' \in Seq(Event)
      <3>1. auditLog' = Append(auditLog, e) \/ auditLog' = auditLog
        BY <1>9 DEF SinkSettles
      <3> HIDE DEF e
      <3> QED
        BY <2>3, <3>1
    <2> QED
      BY <1>0, <1>9, <2>1, <2>4 DEF SinkSettles, TypeOK, ControlOK, disk
  <1>10. ASSUME NEW c \in Call, Return(c) PROVE TypeOK'
    <2>1. ControlOK'
      BY <1>0, <1>10, ControlTypes DEF Return, PC, Finished
    <2> QED
      BY <1>0, <1>10, <2>1 DEF Return, TypeOK, ControlOK, disk
  <1>11. ASSUME NEW f \in PolicyDocs \cup {Broken}, EditPolicy(f) PROVE TypeOK'
    BY <1>0, <1>11 DEF EditPolicy, TypeOK, control
  <1>12. ASSUME NEW f \in SecretMaps \cup {Broken}, EditSecrets(f) PROVE TypeOK'
    BY <1>0, <1>12 DEF EditSecrets, TypeOK, control
  <1>13. ASSUME Crash PROVE TypeOK'
    BY <1>0, <1>13 DEF Crash, TypeOK, PC, Finished
  <1>14. CASE UNCHANGED vars
    BY <1>0, <1>14 DEF vars, disk, control, TypeOK
  <1>15. ASSUME NEW c \in Call, NEW t \in Tool, Unidentified(c, t) PROVE TypeOK'
    <2>1. ControlOK'
      BY <1>0, <1>15, ControlTypes DEF Unidentified
    <2> QED
      BY <1>0, <1>15, <2>1 DEF Unidentified, TypeOK, ControlOK, disk
  <1> QED
    BY <1>1, <1>2, <1>3, <1>4, <1>5, <1>6, <1>7, <1>8, <1>9, <1>10, <1>11, <1>12, <1>13,
       <1>14, <1>15 DEF Next, Step

----------------------------------------------------------------------------
(* Calls.                                                                  *)

\* A call none of whose variables changed keeps what was known of it.
Same(d) ==
    /\ pc'[d] = pc[d] /\ tool'[d] = tool[d] /\ raw'[d] = raw[d] /\ basis'[d] = basis[d]
    /\ decision'[d] = decision[d] /\ runs'[d] = runs[d]
    /\ emitted'[d] = emitted[d] /\ reply'[d] = reply[d] /\ (d \in approvals => d \in approvals')

LEMMA SameCall ==
    ASSUME NEW d, CallInv(d), Same(d)
    PROVE  CallInv(d)'
BY DEF CallInv, Same, Fresh, Reported, Describes, Authorised, Unheard

\* Where a decision leads the call it was made for.
LEMMA DecidedLeads ==
    ASSUME ControlOK, NEW c \in Call, Fresh(c), NEW d \in DecisionType
    PROVE  /\ ResolveCredential(c, d) =>
                \/ pc'[c] = "readingSecrets" /\ d.obligations # {} /\ Fresh(c)'
                \/ pc'[c] = "handling" /\ runs'[c] = 1 /\ emitted'[c] = <<>> /\ reply'[c] = "none"
                \/ pc'[c] = "emitting" /\ runs'[c] = 0 /\ Reported(c)'
           /\ Decided(c, d) =>
                \/ pc'[c] = "emitting" /\ runs'[c] = 0 /\ Reported(c)'
                \/ pc'[c] = "approving" /\ Fresh(c)' /\ d.effect = "require_approval" /\ HasApproval
                \/ d.effect = "allow" /\ ResolveCredential(c, d)
<1>1. \A o \in {"denied", "approval_denied", "approval_timeout"} : Terminate(c, o, "blocked") =>
         pc'[c] = "emitting" /\ runs'[c] = 0 /\ Reported(c)'
  BY DEF Terminate, ControlOK, Fresh, Reported, Describes
<1>2. \A p : GoTo(c, p) => pc'[c] = p /\ Fresh(c)'
  BY DEF GoTo, ControlOK, Fresh
<1>3. \A k : Invoke(c, k) =>
         pc'[c] = "handling" /\ runs'[c] = 1 /\ emitted'[c] = <<>> /\ reply'[c] = "none"
  BY DEF Invoke, ControlOK, Fresh
<1> QED
  BY <1>1, <1>2, <1>3 DEF ResolveCredential, Resolved, Decided

\* The stretches change no other call's control.
LEMMA ControlLocal ==
    ASSUME ControlOK, NEW c \in Call, NEW e \in Call, e # c
    PROVE  LET Kept == /\ pc'[e] = pc[e] /\ runs'[e] = runs[e] /\ emitted'[e] = emitted[e]
                       /\ reply'[e] = reply[e] /\ given'[e] = given[e]
           IN  /\ \A p : GoTo(c, p) => Kept
               /\ \A k : Invoke(c, k) => Kept
               /\ \A o, a : Terminate(c, o, a) => Kept
               /\ Throw(c) => Kept
               /\ \A m, r : Resolved(c, r, m) => Kept
               /\ \A d : ResolveCredential(c, d) => Kept
               /\ \A d : Decided(c, d) => Kept
<1> DEFINE Kept == /\ pc'[e] = pc[e] /\ runs'[e] = runs[e] /\ emitted'[e] = emitted[e]
                   /\ reply'[e] = reply[e] /\ given'[e] = given[e]
<1>1. /\ \A p : GoTo(c, p) => Kept
      /\ \A k : Invoke(c, k) => Kept
      /\ \A o, a : Terminate(c, o, a) => Kept
      /\ Throw(c) => Kept
  BY DEF GoTo, Invoke, Terminate, Throw, ControlOK
<1> HIDE DEF Kept
<1>2. \A m, r : Resolved(c, r, m) => Kept
  BY <1>1 DEF Resolved
<1>3. \A d : ResolveCredential(c, d) => Kept
  BY <1>1, <1>2 DEF ResolveCredential
<1>4. \A d : Decided(c, d) => Kept
  BY <1>1, <1>3 DEF Decided
<1> QED
  BY <1>1, <1>2, <1>3, <1>4 DEF Kept

\* A step of the broker keeps what is known of every call.
LEMMA CallStep == IInv /\ [Next]_vars => \A c \in Call : CallInv(c)'
<1> SUFFICES ASSUME IInv, [Next]_vars, NEW e \in Call PROVE CallInv(e)'
  OBVIOUS
<1>0. TypeOK /\ ControlOK /\ CallInv(e) /\ \A c \in Call : CallInv(c)
  BY DEF IInv, TypeOK, ControlOK
<1>a. \A c \in Call : decision[c] \in DecisionType
  BY <1>0 DEF TypeOK, DecisionType
<1>1. ASSUME NEW c \in Call, NEW t \in Tool, Start(c, t) PROVE CallInv(e)'
  <2>1. CASE e = c
    <3>1. Fresh(c) /\ tool'[c] = t /\ approvals' = approvals
      BY <1>0, <1>1 DEF Start, CallInv, TypeOK
    <3>2. CASE doc # None /\ Evaluated(c, t, doc)
      <4>1. /\ doc \in PolicyDocs /\ basis'[c] = doc
            /\ decision'[c] = evaluate(doc, Server, t) /\ Decided(c, evaluate(doc, Server, t))
        BY <1>0, <3>2 DEF Evaluated, TypeOK
      <4>2. evaluate(doc, Server, t) \in DecisionType
            /\ evaluate(doc, Server, t).effect = WrittenEffect(doc, t)
        BY <4>1, EvaluateType
      <4> QED
        BY <1>0, <2>1, <3>1, <4>1, <4>2, DecidedLeads, NoneAssumption
        DEF CallInv, Undecided, Deciding, Authorised, Fresh
    <3>3. CASE doc = None /\ GoTo(c, "reading") /\ UNCHANGED <<basis, decision>>
      <4>1. basis'[c] = None
        BY <1>0, <1>1, <3>3 DEF Start, CallInv, Undecided
      <4> QED
        BY <1>0, <2>1, <3>1, <3>3, <4>1 DEF GoTo, ControlOK, CallInv, Undecided, Deciding, Fresh
    <3> QED
      BY <1>1, <3>2, <3>3 DEF Start
  <2>2. CASE e # c
    <3>1. Same(e)
      BY <1>0, <1>1, <2>2, ControlLocal DEF Start, Evaluated, Same, TypeOK
    <3> QED
      BY <1>0, <3>1, SameCall
  <2> QED
    BY <2>1, <2>2
<1>2. ASSUME NEW c \in Call, ReadPolicy(c) PROVE CallInv(e)'
  <2>1. CASE e = c
    BY <1>0, <1>2, <2>1 DEF ReadPolicy, GoTo, ControlOK, CallInv, Undecided, Deciding, Fresh, TypeOK, Authorised
  <2>2. CASE e # c
    BY <1>0, <1>2, <2>2, ControlLocal, SameCall DEF ReadPolicy, Same, TypeOK
  <2> QED
    BY <2>1, <2>2
<1>3. ASSUME NEW c \in Call, FinishLoad(c) PROVE CallInv(e)'
  <2>1. CASE e = c
    <3>1. /\ Fresh(c) /\ tool'[c] = tool[c] /\ tool[c] \in Tool /\ approvals' = approvals
          /\ raw[c] \in PolicyDocs \cup {Broken}
      BY <1>0, <1>3 DEF FinishLoad, CallInv
    <3>2. CASE raw[c] # Broken /\ Evaluated(c, tool[c], raw[c])
      <4> DEFINE d == evaluate(raw[c], Server, tool[c])
      <4>1. /\ raw[c] \in PolicyDocs /\ basis'[c] = raw[c]
            /\ decision'[c] = d /\ Decided(c, d)
        BY <1>0, <3>1, <3>2 DEF Evaluated, TypeOK
      <4>2. d \in DecisionType /\ d.effect = WrittenEffect(raw[c], tool[c])
        BY <3>1, <4>1, EvaluateType
      <4> HIDE DEF d
      <4> QED
        BY <1>0, <2>1, <3>1, <4>1, <4>2, DecidedLeads, NoneAssumption
        DEF CallInv, Undecided, Deciding, Authorised, Fresh
    <3>3. CASE Unreachable(c)
      <4> DEFINE d == [effect |-> IF FailMode = "open" THEN "allow" ELSE "deny",
                       obligations |-> {}]
      <4>1. d \in DecisionType /\ d.obligations = {}
            /\ d.effect # "require_approval" /\ (d.effect = "allow" => FailMode = "open")
        BY DEF DecisionType, Effect
      <4>2. basis'[c] = Broken /\ decision'[c] = d /\ Decided(c, d)
        BY <1>0, <3>3 DEF Unreachable, TypeOK
      <4> HIDE DEF d
      <4> QED
        BY <1>0, <2>1, <3>1, <4>1, <4>2, DecidedLeads, NoneAssumption
        DEF CallInv, Undecided, Deciding, Authorised, Fresh
    <3> QED
      BY <1>3, <3>2, <3>3 DEF FinishLoad
  <2>2. CASE e # c
    <3>1. Same(e)
      BY <1>0, <1>3, <2>2, ControlLocal
      DEF FinishLoad, Evaluated, Unreachable, Same, TypeOK
    <3> QED
      BY <1>0, <3>1, SameCall
  <2> QED
    BY <2>1, <2>2
<1>4. ASSUME NEW c \in Call, NEW a, Approval(c, a) PROVE CallInv(e)'
  <2>1. CASE e = c
    <3>1. /\ Fresh(c) /\ basis[c] \in PolicyDocs /\ HasApproval
          /\ WrittenEffect(basis[c], tool[c]) = "require_approval"
          /\ basis' = basis /\ tool' = tool /\ decision' = decision
      BY <1>0, <1>4 DEF Approval, CallInv
    <3>2. CASE c \in approvals' /\ ResolveCredential(c, decision[c])
      <4>1. Authorised(c)'
        BY <3>1, <3>2 DEF Authorised
      <4> QED
        BY <1>0, <1>a, <2>1, <3>1, <3>2, <4>1, DecidedLeads, NoneAssumption
          DEF CallInv, Undecided, Deciding, Fresh
    <3>3. CASE \E o \in {"approval_timeout", "approval_denied"} : Terminate(c, o, "blocked")
      <4>1. pc'[c] = "emitting" /\ runs'[c] = 0 /\ Reported(c)'
        BY <1>0, <3>1, <3>3 DEF Terminate, ControlOK, Fresh, Reported, Describes
      <4> QED
        BY <2>1, <3>1, <4>1, NoneAssumption DEF CallInv, Undecided, Deciding
    <3> QED
      BY <1>4, <3>2, <3>3 DEF Approval
  <2>2. CASE e # c
    <3>1. Same(e)
      BY <1>0, <1>4, <2>2, ControlLocal DEF Approval, Same
    <3> QED
      BY <1>0, <3>1, SameCall
  <2> QED
    BY <2>1, <2>2
<1>5. ASSUME NEW c \in Call, ReadSecrets(c) PROVE CallInv(e)'
  <2>1. CASE e = c
    BY <1>0, <1>5, <2>1 DEF ReadSecrets, GoTo, ControlOK, CallInv, Undecided, Deciding, Fresh, TypeOK, Authorised
  <2>2. CASE e # c
    BY <1>0, <1>5, <2>2, ControlLocal, SameCall DEF ReadSecrets, Same, TypeOK
  <2> QED
    BY <2>1, <2>2
<1>6. ASSUME NEW c \in Call, FinishSecrets(c) PROVE CallInv(e)'
  <2>1. CASE e = c
    <3>1. /\ Fresh(c) /\ Authorised(c)' /\ decision[c].obligations # {} /\ basis'[c] # None
      BY <1>0, <1>6 DEF FinishSecrets, CallInv, Deciding, Authorised
    <3>2. \/ pc'[c] = "emitting" /\ runs'[c] = 0 /\ Reported(c)'
          \/ pc'[c] = "handling" /\ runs'[c] = 1 /\ emitted'[c] = <<>> /\ reply'[c] = "none"
      BY <1>0, <1>6, <3>1
      DEF FinishSecrets, Resolved, Terminate, Invoke, ControlOK, Fresh, Reported, Describes
    <3> QED
      BY <2>1, <3>1, <3>2 DEF CallInv, Undecided, Deciding
  <2>2. CASE e # c
    <3>1. Same(e)
      BY <1>0, <1>6, <2>2, ControlLocal DEF FinishSecrets, Same, TypeOK
    <3> QED
      BY <1>0, <3>1, SameCall
  <2> QED
    BY <2>1, <2>2
<1>7. ASSUME NEW c \in Call, HandlerSettles(c) PROVE CallInv(e)'
  <2>1. CASE e = c
    BY <1>0, <1>7, <2>1
    DEF HandlerSettles, GoTo, Terminate, ControlOK, CallInv, Undecided, Deciding,
        Reported, Describes, Authorised
  <2>2. CASE e # c
    BY <1>0, <1>7, <2>2, ControlLocal, SameCall DEF HandlerSettles, Same
  <2> QED
    BY <2>1, <2>2
<1>8. ASSUME NEW c \in Call, Redact(c) PROVE CallInv(e)'
  <2>1. CASE e = c
    BY <1>0, <1>8, <2>1
    DEF Redact, Throw, Terminate, ControlOK, CallInv, Undecided, Deciding,
        Reported, Describes, Authorised
  <2>2. CASE e # c
    <3>1. Same(e)
      BY <1>0, <1>8, <2>2, ControlLocal DEF Redact, Same, ControlOK
    <3> QED
      BY <1>0, <3>1, SameCall
  <2> QED
    BY <2>1, <2>2
<1>9. ASSUME NEW c \in Call, SinkSettles(c) PROVE CallInv(e)'
  <2>1. CASE e = c
    BY <1>0, <1>9, <2>1
    DEF SinkSettles, GoTo, ControlOK, CallInv, Undecided, Deciding,
        Reported, Describes, Authorised
  <2>2. CASE e # c
    BY <1>0, <1>9, <2>2, ControlLocal, SameCall DEF SinkSettles, Same
  <2> QED
    BY <2>1, <2>2
<1>10. ASSUME NEW c \in Call, Return(c) PROVE CallInv(e)'
  <2>1. CASE e = c
    BY <1>0, <1>10, <2>1 DEF Return, GoTo, ControlOK, CallInv, Undecided, Deciding,
        Reported, Describes, Authorised
  <2>2. CASE e # c
    BY <1>0, <1>10, <2>2, ControlLocal, SameCall DEF Return, Same
  <2> QED
    BY <2>1, <2>2
<1>11. ASSUME NEW f, EditPolicy(f) \/ EditSecrets(f) PROVE CallInv(e)'
  <2>1. Same(e)
    BY <1>11 DEF EditPolicy, EditSecrets, control, Same
  <2> QED
    BY <1>0, <2>1, SameCall
<1>12. ASSUME Crash PROVE CallInv(e)'
  <2>1. /\ pc'[e] \in {pc[e], "crashed"} \cap ({"idle", "crashed", "finished"})
        /\ pc'[e] # "crashed" => pc'[e] = pc[e]
    BY <1>0, <1>12 DEF Crash, TypeOK, Finished
  <2>2. /\ runs' = runs /\ basis' = basis /\ tool' = tool /\ emitted' = emitted
        /\ reply' = reply /\ approvals' = approvals
    BY <1>12 DEF Crash
  <2> QED
    BY <1>0, <2>1, <2>2
    DEF CallInv, Undecided, Deciding, Unheard, Fresh, Reported, Describes, Authorised
<1>13. CASE UNCHANGED vars
  <2>1. Same(e)
    BY <1>13 DEF vars, control, Same
  <2> QED
    BY <1>0, <2>1, SameCall
<1>14. ASSUME NEW c \in Call, NEW t \in Tool, Unidentified(c, t) PROVE CallInv(e)'
  <2>1. CASE e = c
    BY <1>0, <1>14, <2>1
    DEF Unidentified, Throw, ControlOK, CallInv, Fresh, Unheard, Undecided, Deciding, Authorised
  <2>2. CASE e # c
    <3>1. Same(e)
      BY <1>0, <1>14, <2>2, ControlLocal DEF Unidentified, Same, TypeOK
    <3> QED
      BY <1>0, <3>1, SameCall
  <2> QED
    BY <2>1, <2>2
<1> QED
  BY <1>1, <1>2, <1>3, <1>4, <1>5, <1>6, <1>7, <1>8, <1>9, <1>10, <1>11, <1>12, <1>13, <1>14
  DEF Next, Step

----------------------------------------------------------------------------
(* The log.                                                                *)

\* What happened to a call past its sink no longer changes.
LEMMA PastIsFixed ==
    IInv /\ [Next]_vars =>
        \A c \in Call : pc[c] \in {"returning", "finished", "crashed"} =>
            /\ pc'[c] \in {"returning", "finished", "crashed"}
            /\ runs'[c] = runs[c] /\ reply'[c] = reply[c]
<1> SUFFICES ASSUME IInv, [Next]_vars, NEW e \in Call,
                    pc[e] \in {"returning", "finished", "crashed"}
             PROVE  /\ pc'[e] \in {"returning", "finished", "crashed"}
                    /\ runs'[e] = runs[e] /\ reply'[e] = reply[e]
  OBVIOUS
<1>0. ControlOK
  BY DEF IInv, TypeOK, ControlOK
<1>1. ASSUME NEW c \in Call, (\E t \in Tool : Start(c, t) \/ Unidentified(c, t)) \/ Step(c)
      PROVE  /\ pc'[e] \in {"returning", "finished", "crashed"}
             /\ runs'[e] = runs[e] /\ reply'[e] = reply[e]
  <2>1. CASE e = c
    BY <1>0, <1>1, <2>1
    DEF Start, Unidentified, Step, ReadPolicy, FinishLoad, Approval, ReadSecrets, FinishSecrets,
        HandlerSettles, Redact, SinkSettles, Return, GoTo, ControlOK
  <2>2. CASE e # c
    BY <1>0, <1>1, <2>2, ControlLocal
    DEF Start, Unidentified, Step, ReadPolicy, FinishLoad, Evaluated, Unreachable, Approval, ReadSecrets,
        FinishSecrets, HandlerSettles, Redact, SinkSettles, Return, ControlOK
  <2> QED
    BY <2>1, <2>2
<1>2. CASE (\E f : EditPolicy(f) \/ EditSecrets(f)) \/ UNCHANGED vars
  BY <1>2 DEF EditPolicy, EditSecrets, vars, control
<1>3. CASE Crash
  BY <1>0, <1>3 DEF Crash, Finished, ControlOK
<1> QED
  BY <1>1, <1>2, <1>3 DEF Next

\* A step keeps the log sound.
LEMMA LogStep == IInv /\ [Next]_vars => LogInv'
<1> SUFFICES ASSUME IInv, [Next]_vars PROVE LogInv'
  OBVIOUS
<1>0. /\ auditLog \in Seq(Event) /\ LogInv
      /\ \A k \in DOMAIN auditLog : auditLog[k].call \in Call
  <2>1. auditLog \in Seq(Event) /\ LogInv
    BY DEF IInv, TypeOK
  <2>2. \A k \in DOMAIN auditLog : auditLog[k] \in Event
    BY <2>1
  <2> QED
    BY <2>1, <2>2 DEF Event
<1>1. \A k \in DOMAIN auditLog :
         /\ pc'[auditLog[k].call] \in {"returning", "finished", "crashed"}
         /\ runs'[auditLog[k].call] = runs[auditLog[k].call]
         /\ reply'[auditLog[k].call] = reply[auditLog[k].call]
  BY <1>0, PastIsFixed DEF LogInv
<1>2. CASE UNCHANGED auditLog
  BY <1>0, <1>1, <1>2 DEF LogInv, LogSound, Describes
<1>3. ASSUME NEW c \in Call, SinkSettles(c), auditLog' # auditLog PROVE LogInv'
  <2>1. /\ pc[c] = "emitting" /\ pc'[c] = "returning" /\ runs' = runs /\ reply' = reply
    BY <1>3 DEF SinkSettles, GoTo, IInv, TypeOK
  <2>2. Len(emitted[c]) = 1 /\ Describes(emitted[c][1], c)
    BY <2>1 DEF IInv, CallInv, Reported
  <2>3. PICK e : e = [call |-> c, outcome |-> emitted[c][1]]
    OBVIOUS
  <2>4. auditLog' = Append(auditLog, e)
    BY <1>3, <2>2, <2>3 DEF SinkSettles
  <2>5. e.call = c /\ Describes(e.outcome, c)'
    BY <2>1, <2>2, <2>3 DEF Describes
  <2>6. \A k \in DOMAIN auditLog : auditLog[k].call # c
    BY <1>0, <2>1 DEF LogInv
  <2>7. /\ DOMAIN auditLog' = 1..Len(auditLog) + 1
        /\ \A k \in 1..Len(auditLog) : auditLog'[k] = auditLog[k] /\ k \in DOMAIN auditLog
        /\ auditLog'[Len(auditLog) + 1] = e
        /\ \A k \in 1..Len(auditLog) + 1 : k \in 1..Len(auditLog) \/ k = Len(auditLog) + 1
    BY <1>0, <2>4
  <2>8. (\A j, k \in DOMAIN auditLog : auditLog[j].call = auditLog[k].call => j = k)'
    BY <1>0, <2>5, <2>6, <2>7 DEF LogInv, LogSound
  <2>9. (\A k \in DOMAIN auditLog :
            /\ Describes(auditLog[k].outcome, auditLog[k].call)
            /\ pc[auditLog[k].call] \in {"returning", "finished", "crashed"})'
    BY <1>0, <1>1, <2>1, <2>5, <2>7 DEF LogInv, LogSound, Describes
  <2> QED
    BY <2>8, <2>9 DEF LogInv, LogSound
<1>4. UNCHANGED auditLog \/ \E c \in Call : SinkSettles(c)
  BY DEF Next, Step, Start, Unidentified, ReadPolicy, FinishLoad, Approval, ReadSecrets,
         FinishSecrets, HandlerSettles, Redact, Return, EditPolicy, EditSecrets, Crash, vars
<1> QED
  BY <1>2, <1>3, <1>4

----------------------------------------------------------------------------
(* The theorems.                                                           *)

\* The invariant of the broker.
THEOREM BrokerInvariant == Spec => []IInv
<1>1. Init => IInv
  <2> SUFFICES ASSUME Init PROVE IInv
    OBVIOUS
  <2>1. TypeOK
    BY ModeAssumption DEF Init, TypeOK, PC, NoDecision
  <2>2. ASSUME NEW c \in Call PROVE CallInv(c)
    BY DEF Init, CallInv, Undecided, Deciding, Fresh
  <2>3. LogInv
    BY DEF Init, LogInv, LogSound
  <2> QED
    BY <2>1, <2>2, <2>3 DEF IInv
<1>2. IInv /\ [Next]_vars => IInv'
  BY TypeStep, CallStep, LogStep DEF IInv
<1> QED
  BY <1>1, <1>2, PTL DEF Spec

\* Type correctness of the broker and all its calls.
THEOREM TypeCorrect == Spec => []TypeOK
<1>1. IInv => TypeOK
  BY DEF IInv
<1> QED
  BY <1>1, BrokerInvariant, PTL

\* However many calls interleave with loads, approvals, edits and crashes, a
\* handler only runs when the rule written for its tool in the document the call
\* was decided by allows it, or asks for an approval that this call was given.
THEOREM GateHolds == Spec => []GateBeforeHandler
<1>1. IInv => GateBeforeHandler
  BY DEF IInv, CallInv, GateBeforeHandler
<1> QED
  BY <1>1, BrokerInvariant, PTL

\* With a redaction hook that does not throw (pipeline.ts 6.), every call that was decided
\* and ends has emitted exactly one event, and the event says what was done.
THEOREM OneEvent == ~RedactMayThrow => (Spec => []OneEventPerDecision)
<1> SUFFICES ASSUME ~RedactMayThrow PROVE Spec => []OneEventPerDecision
  OBVIOUS
<1>1. IInv => OneEventPerDecision
  BY DEF IInv, CallInv, OneEventPerDecision, Reported, Unheard
<1> QED
  BY <1>1, BrokerInvariant, PTL

\* With an identity resolver that does not throw either (the default one does not), the
\* claim of the package holds as it is written: every call that ends, one event.
THEOREM OneEventOfEachCall ==
    ~RedactMayThrow /\ ~IdentityMayThrow => (Spec => []OneEventPerCall)
<1> SUFFICES ASSUME ~RedactMayThrow, ~IdentityMayThrow PROVE Spec => []OneEventPerCall
  OBVIOUS
<1>1. IInv => OneEventPerCall
  BY DEF IInv, CallInv, OneEventPerCall, Reported, Unheard
<1> QED
  BY <1>1, BrokerInvariant, PTL

\* Whatever fails or crashes, the stored log holds at most one entry per call,
\* and none that claims what the call did not do.
THEOREM LogIsSound == Spec => []LogSound
<1>1. IInv => LogSound
  BY DEF IInv, LogInv
<1> QED
  BY <1>1, BrokerInvariant, PTL

----------------------------------------------------------------------------
(* The credential.                                                         *)

\* The references that a document and a tool call for, and a secret that answers them.
Needed(d, t) == IF d \in PolicyDocs THEN obligationsFor(d, t) ELSE {}

Answers(k, refs) ==
    IF refs # {} THEN \E m \in SecretMaps, r \in refs : k = m[r] ELSE k = None

\* A call that waits for its approval or its secret carries what its rule names; one
\* whose handler ran was given that.
CredentialInv(c) ==
    /\ pc[c] \in {"approving", "readingSecrets", "loadedSecrets"} =>
          decision[c].obligations = Needed(basis[c], tool[c])
    /\ runs[c] > 0 => runs[c] = 1 /\ Answers(given[c], Needed(basis[c], tool[c]))

\* A decision leads to a handler that is given what the decision names, to a wait, or
\* to a block; one that denies leads to a block.
LEMMA DecidedGives ==
    ASSUME ControlOK, secretMap \in SecretMaps \cup {None}, NEW c \in Call, Fresh(c),
           NEW d \in DecisionType
    PROVE  /\ \A m \in SecretMaps : d.obligations # {} /\ Resolved(c, d.obligations, m) =>
                \/ runs'[c] = 0 /\ pc'[c] = "emitting"
                \/ runs'[c] = 1 /\ Answers(given'[c], d.obligations) /\ pc'[c] = "handling"
           /\ ResolveCredential(c, d) =>
                \/ runs'[c] = 0 /\ pc'[c] \in {"emitting", "readingSecrets"}
                \/ runs'[c] = 1 /\ Answers(given'[c], d.obligations) /\ pc'[c] = "handling"
           /\ Decided(c, d) =>
                \/ runs'[c] = 0 /\ pc'[c] = "emitting"
                \/ runs'[c] = 0 /\ pc'[c] \in {"approving", "readingSecrets"} /\ d.effect # "deny"
                \/ /\ runs'[c] = 1 /\ Answers(given'[c], d.obligations) /\ d.effect # "deny"
                   /\ pc'[c] = "handling"
<1>1. ASSUME NEW m \in SecretMaps, d.obligations # {}, Resolved(c, d.obligations, m)
      PROVE  \/ runs'[c] = 0 /\ pc'[c] = "emitting"
             \/ runs'[c] = 1 /\ Answers(given'[c], d.obligations) /\ pc'[c] = "handling"
  <2>1. PICK r \in d.obligations : r = CHOOSE x \in d.obligations : TRUE
    BY <1>1
  <2>2. CASE Terminate(c, "denied", "blocked")
    BY <2>2 DEF Terminate, ControlOK, Fresh
  <2>3. CASE Invoke(c, m[r])
    BY <1>1, <2>3 DEF Invoke, ControlOK, Fresh, Answers
  <2> QED
    BY <1>1, <2>1, <2>2, <2>3 DEF Resolved
<1>2. ASSUME ResolveCredential(c, d)
      PROVE  \/ runs'[c] = 0 /\ pc'[c] \in {"emitting", "readingSecrets"}
             \/ runs'[c] = 1 /\ Answers(given'[c], d.obligations) /\ pc'[c] = "handling"
  <2>1. CASE d.obligations = {} /\ Invoke(c, None)
    BY <2>1 DEF Invoke, ControlOK, Fresh, Answers
  <2>2. CASE d.obligations # {} /\ secretMap = None /\ GoTo(c, "readingSecrets")
    BY <2>2 DEF GoTo, ControlOK, Fresh
  <2>3. CASE d.obligations # {} /\ secretMap # None /\ Resolved(c, d.obligations, secretMap)
    BY <1>1, <2>3
  <2> QED
    BY <1>2, <2>1, <2>2, <2>3 DEF ResolveCredential
<1>3. \A o : Terminate(c, o, "blocked") => runs'[c] = 0 /\ pc'[c] = "emitting"
  BY DEF Terminate, ControlOK, Fresh
<1>4. GoTo(c, "approving") => runs'[c] = 0 /\ pc'[c] = "approving"
  BY DEF GoTo, ControlOK, Fresh
<1>5. ASSUME Decided(c, d)
      PROVE  \/ runs'[c] = 0 /\ pc'[c] = "emitting"
             \/ runs'[c] = 0 /\ pc'[c] \in {"approving", "readingSecrets"} /\ d.effect # "deny"
             \/ /\ runs'[c] = 1 /\ Answers(given'[c], d.obligations) /\ d.effect # "deny"
                /\ pc'[c] = "handling"
  BY <1>2, <1>3, <1>4, <1>5 DEF Decided
<1> QED
  BY <1>1, <1>2, <1>5

\* A call none of whose variables changed keeps what is known of its credential.
LEMMA SameCredential ==
    ASSUME NEW d, CredentialInv(d), pc'[d] = pc[d], tool'[d] = tool[d], basis'[d] = basis[d],
           decision'[d] = decision[d], runs'[d] = runs[d], given'[d] = given[d]
    PROVE  CredentialInv(d)'
BY DEF CredentialInv

\* A decision of a document names what its rule names, unless it denies.
LEMMA EvaluateNames ==
    ASSUME NEW d \in PolicyDocs, NEW t \in Tool
    PROVE  /\ evaluate(d, Server, t) \in DecisionType
           /\ evaluate(d, Server, t).effect # "deny" =>
                 evaluate(d, Server, t).obligations = Needed(d, t)
  BY EvaluateType DEF evaluate, Needed

\* A step of the broker keeps what is known of every call's credential.
LEMMA CredentialStep ==
    ASSUME IInv, NEW e \in Call, CredentialInv(e), [Next]_vars
    PROVE  CredentialInv(e)'
<1>0. TypeOK /\ ControlOK /\ secretMap \in SecretMaps \cup {None}
  BY DEF IInv, TypeOK, ControlOK
<1>a. decision[e] \in DecisionType /\ CallInv(e)
  BY <1>0 DEF TypeOK, DecisionType, IInv
<1>b. ASSUME Fresh(e), NEW d \in DecisionType, Decided(e, d),
             decision' = [decision EXCEPT ![e] = d],
             d.effect # "deny" => d.obligations = Needed(basis'[e], tool'[e])
      PROVE  CredentialInv(e)'
  <2>1. decision'[e] = d
    BY <1>0, <1>b DEF TypeOK
  <2> QED
    BY <1>0, <1>b, <2>1, DecidedGives DEF CredentialInv
<1>1. ASSUME NEW c \in Call, NEW t \in Tool, Start(c, t) PROVE CredentialInv(e)'
  <2>1. CASE e = c
    <3>1. Fresh(e) /\ tool'[e] = t
      BY <1>0, <1>a, <1>1, <2>1 DEF Start, CallInv, TypeOK
    <3>2. CASE doc # None /\ Evaluated(c, t, doc)
      <4>1. doc \in PolicyDocs /\ basis'[e] = doc
        BY <1>0, <2>1, <3>2 DEF Evaluated, TypeOK
      <4> QED
        BY <1>b, <2>1, <3>1, <3>2, <4>1, EvaluateNames DEF Evaluated
    <3>3. CASE GoTo(c, "reading")
      BY <1>0, <2>1, <3>1, <3>3 DEF GoTo, ControlOK, CredentialInv, Fresh
    <3> QED
      BY <1>1, <3>2, <3>3 DEF Start
  <2>2. CASE e # c
    <3>1. tool'[e] = tool[e] /\ basis'[e] = basis[e] /\ decision'[e] = decision[e]
      BY <1>0, <1>1, <2>2 DEF Start, Evaluated, TypeOK
    <3>2. pc'[e] = pc[e] /\ runs'[e] = runs[e] /\ given'[e] = given[e]
      BY <1>0, <1>1, <2>2, ControlLocal DEF Start, Evaluated
    <3> QED
      BY <3>1, <3>2, SameCredential
  <2> QED
    BY <2>1, <2>2
<1>2. ASSUME NEW c \in Call, ReadPolicy(c) PROVE CredentialInv(e)'
  BY <1>0, <1>2 DEF ReadPolicy, GoTo, ControlOK, CredentialInv
<1>3. ASSUME NEW c \in Call, FinishLoad(c) PROVE CredentialInv(e)'
  <2>1. CASE e = c
    <3>1. Fresh(e) /\ tool'[e] = tool[e] /\ tool[e] \in Tool /\ raw[e] \in PolicyDocs \cup {Broken}
      BY <1>a, <1>3, <2>1 DEF FinishLoad, CallInv
    <3>2. CASE raw[c] # Broken /\ Evaluated(c, tool[c], raw[c])
      <4>1. raw[e] \in PolicyDocs /\ basis'[e] = raw[e]
        BY <1>0, <2>1, <3>1, <3>2 DEF Evaluated, TypeOK
      <4> QED
        BY <1>b, <2>1, <3>1, <3>2, <4>1, EvaluateNames DEF Evaluated
    <3>3. CASE Unreachable(c)
      <4> DEFINE d == [effect |-> IF FailMode = "open" THEN "allow" ELSE "deny",
                       obligations |-> {}]
      <4>1. d \in DecisionType /\ d.obligations = {}
        BY DEF DecisionType, Effect
      <4>2. basis'[e] = Broken /\ decision' = [decision EXCEPT ![e] = d] /\ Decided(e, d)
        BY <1>0, <2>1, <3>3 DEF Unreachable, TypeOK
      <4>3. Needed(Broken, tool'[e]) = {}
        BY NoneAssumption DEF Needed
      <4>4. d.obligations = Needed(basis'[e], tool'[e])
        BY <4>1, <4>2, <4>3
      <4> HIDE DEF d
      <4> QED
        BY <1>b, <3>1, <4>1, <4>2, <4>4, Zenon
    <3> QED
      BY <1>3, <3>2, <3>3 DEF FinishLoad
  <2>2. CASE e # c
    <3>1. tool'[e] = tool[e] /\ basis'[e] = basis[e] /\ decision'[e] = decision[e]
      BY <1>0, <1>3, <2>2 DEF FinishLoad, Evaluated, Unreachable, TypeOK
    <3>2. pc'[e] = pc[e] /\ runs'[e] = runs[e] /\ given'[e] = given[e]
      <4>1. PICK d : Decided(c, d)
        BY <1>3 DEF FinishLoad, Evaluated, Unreachable
      <4> QED
        BY <1>0, <2>2, <4>1, ControlLocal
    <3> QED
      BY <3>1, <3>2, SameCredential
  <2> QED
    BY <2>1, <2>2
<1>4. ASSUME NEW c \in Call, NEW a, Approval(c, a) PROVE CredentialInv(e)'
  <2>1. CASE e = c
    <3>1. /\ Fresh(e) /\ basis' = basis /\ tool' = tool /\ decision' = decision
          /\ decision[e].obligations = Needed(basis[e], tool[e])
      BY <1>a, <1>4, <2>1 DEF Approval, CallInv, CredentialInv
    <3>2. CASE ResolveCredential(c, decision[c])
      BY <1>0, <1>a, <2>1, <3>1, <3>2, DecidedGives DEF CredentialInv
    <3>3. CASE \E o : Terminate(c, o, "blocked")
      BY <1>0, <2>1, <3>1, <3>3 DEF Terminate, ControlOK, Fresh, CredentialInv
    <3> QED
      BY <1>4, <3>2, <3>3 DEF Approval
  <2>2. CASE e # c
    BY <1>0, <1>4, <2>2, ControlLocal, SameCredential DEF Approval
  <2> QED
    BY <2>1, <2>2
<1>5. ASSUME NEW c \in Call, ReadSecrets(c) PROVE CredentialInv(e)'
  BY <1>0, <1>5 DEF ReadSecrets, GoTo, ControlOK, CredentialInv
<1>6. ASSUME NEW c \in Call, FinishSecrets(c) PROVE CredentialInv(e)'
  <2>1. CASE e = c
    <3>1. /\ Fresh(e) /\ UNCHANGED <<basis, tool, decision>>
          /\ raw[e] \in SecretMaps \cup {Broken} /\ decision[e].obligations # {}
          /\ decision[e].obligations = Needed(basis[e], tool[e])
      BY <1>a, <1>6, <2>1 DEF FinishSecrets, CallInv, CredentialInv
    <3>2. CASE Terminate(c, "denied", "blocked")
      BY <1>0, <2>1, <3>1, <3>2 DEF Terminate, ControlOK, Fresh, CredentialInv
    <3>3. CASE raw[c] # Broken /\ Resolved(c, decision[c].obligations, raw[c])
      BY <1>0, <1>a, <2>1, <3>1, <3>3, DecidedGives DEF CredentialInv
    <3> QED
      BY <1>6, <3>2, <3>3 DEF FinishSecrets
  <2>2. CASE e # c
    BY <1>0, <1>6, <2>2, ControlLocal, SameCredential DEF FinishSecrets
  <2> QED
    BY <2>1, <2>2
<1>7. ASSUME NEW c \in Call, HandlerSettles(c) \/ Redact(c) \/ SinkSettles(c) \/ Return(c)
      PROVE  CredentialInv(e)'
  BY <1>0, <1>7
  DEF HandlerSettles, Redact, SinkSettles, Return, GoTo, Throw, Terminate, ControlOK, CredentialInv
<1>8. ASSUME NEW f, EditPolicy(f) \/ EditSecrets(f) PROVE CredentialInv(e)'
  BY <1>8 DEF EditPolicy, EditSecrets, control, CredentialInv
<1>9. CASE Crash
  BY <1>0, <1>9 DEF Crash, CredentialInv, ControlOK
<1>10. CASE UNCHANGED vars
  BY <1>10 DEF vars, control, CredentialInv
<1>11. ASSUME NEW c \in Call, NEW t \in Tool, Unidentified(c, t) PROVE CredentialInv(e)'
  <2>1. CASE e = c
    BY <1>0, <1>a, <1>11, <2>1
    DEF Unidentified, Throw, ControlOK, CallInv, Fresh, CredentialInv, Undecided
  <2>2. CASE e # c
    BY <1>0, <1>11, <2>2, ControlLocal, SameCredential DEF Unidentified, TypeOK
  <2> QED
    BY <2>1, <2>2
<1> QED
  BY <1>1, <1>2, <1>3, <1>4, <1>5, <1>6, <1>7, <1>8, <1>9, <1>10, <1>11 DEF Next, Step

\* However calls, loads, approvals, edits and crashes interleave, a handler runs once
\* and with a secret of the reference its own rule names, or none if it names none.
THEOREM NamedCredential == Spec => []RunsWithNamedCredential
<1>1. Init => \A c \in Call : CredentialInv(c)
  BY DEF Init, CredentialInv
<1>2. IInv /\ (\A c \in Call : CredentialInv(c)) /\ [Next]_vars => (\A c \in Call : CredentialInv(c))'
  BY CredentialStep
<1>3. (\A c \in Call : CredentialInv(c)) => RunsWithNamedCredential
  BY DEF CredentialInv, RunsWithNamedCredential, Needed, Answers
<1> QED
  BY <1>1, <1>2, <1>3, BrokerInvariant, PTL DEF Spec

----------------------------------------------------------------------------
(* The caches.                                                             *)

\* What is cached, or read and not yet cached, was on disk since the process started.
DiskInv ==
    /\ policyFile \in onDisk /\ secretsFile \in onDisk
    /\ doc # None => doc \in onDisk
    /\ secretMap # None => secretMap \in onDisk
    /\ \A c \in Call : raw[c] # None => raw[c] \in onDisk

\* A decision hands the handler nothing, or an entry of the map that it looks at; one
\* that waits hands nothing.
LEMMA GivenFrom ==
    ASSUME ControlOK, NEW c \in Call, NEW d \in DecisionType, secretMap \in SecretMaps \cup {None}
    PROVE  /\ \A m \in SecretMaps : d.obligations # {} /\ Resolved(c, d.obligations, m) =>
                runs' = runs \/ given'[c] \in Range(m)
           /\ ResolveCredential(c, d) \/ Decided(c, d) =>
                runs' = runs \/ given'[c] = None \/ (secretMap # None /\ given'[c] \in Range(secretMap))
<1>1. ASSUME NEW m \in SecretMaps, d.obligations # {}, Resolved(c, d.obligations, m)
      PROVE  runs' = runs \/ given'[c] \in Range(m)
  <2>1. PICK r \in d.obligations : r = CHOOSE x \in d.obligations : TRUE
    BY <1>1
  <2>2. r \in DOMAIN m
    BY <2>1, SecretsAssumption DEF DecisionType
  <2>3. Terminate(c, "denied", "blocked") \/ Invoke(c, m[r])
    BY <1>1, <2>1 DEF Resolved
  <2> QED
    BY <2>2, <2>3 DEF Terminate, Invoke, ControlOK, Range
<1>2. ASSUME ResolveCredential(c, d)
      PROVE  runs' = runs \/ given'[c] = None
             \/ (secretMap # None /\ given'[c] \in Range(secretMap))
  <2>1. CASE Invoke(c, None)
    BY <2>1 DEF Invoke, ControlOK
  <2>2. CASE GoTo(c, "readingSecrets")
    BY <2>2 DEF GoTo
  <2>3. CASE d.obligations # {} /\ secretMap # None /\ Resolved(c, d.obligations, secretMap)
    BY <1>1, <2>3
  <2> QED
    BY <1>2, <2>1, <2>2, <2>3 DEF ResolveCredential
<1>3. ASSUME Decided(c, d)
      PROVE  runs' = runs \/ given'[c] = None
             \/ (secretMap # None /\ given'[c] \in Range(secretMap))
  <2>1. \A o : Terminate(c, o, "blocked") => runs' = runs
    BY DEF Terminate
  <2>2. GoTo(c, "approving") => runs' = runs
    BY DEF GoTo
  <2> QED
    BY <1>2, <1>3, <2>1, <2>2 DEF Decided
<1> QED
  BY <1>1, <1>2, <1>3

\* What a step of one call does to the disk's history and to the calls.
LEMMA DiskStep ==
    ASSUME IInv, DiskInv, [Next]_vars
    PROVE  /\ DiskInv'
           /\ \A c \in Call :
                /\ basis'[c] # basis[c] => basis'[c] \in onDisk
                /\ runs'[c] > runs[c] /\ given'[c] # None =>
                      \E m \in onDisk \cap SecretMaps : given'[c] \in Range(m)
<1> DEFINE Served(c) ==
               /\ basis'[c] # basis[c] => basis'[c] \in onDisk
               /\ runs'[c] > runs[c] /\ given'[c] # None =>
                     \E m \in onDisk \cap SecretMaps : given'[c] \in Range(m)
<1>0. TypeOK /\ ControlOK /\ secretMap \in SecretMaps \cup {None}
  BY DEF IInv, TypeOK, ControlOK
<1>a. \A c \in Call : decision[c] \in DecisionType /\ CallInv(c)
  BY <1>0 DEF TypeOK, DecisionType, IInv
<1>b. \A c \in Call : runs' = runs => ~(runs'[c] > runs[c])
  BY <1>0 DEF ControlOK
<1>c. ASSUME NEW c \in Call, \A e \in Call \ {c} : runs'[e] = runs[e],
             runs' = runs \/ given'[c] = None
             \/ \E m \in onDisk \cap SecretMaps : given'[c] \in Range(m)
      PROVE  \A e \in Call : runs'[e] > runs[e] /\ given'[e] # None =>
                \E m \in onDisk \cap SecretMaps : given'[e] \in Range(m)
  <2>1. \A e \in Call : runs'[e] = runs[e] => ~(runs'[e] > runs[e])
    BY <1>0 DEF ControlOK
  <2>2. runs'[c] > runs[c] /\ given'[c] # None =>
           \E m \in onDisk \cap SecretMaps : given'[c] \in Range(m)
    BY <1>b, <1>c, Zenon
  <2> QED
    BY <1>c, <2>1, <2>2, Zenon
<1>1. ASSUME NEW c \in Call, NEW t \in Tool, Start(c, t) PROVE DiskInv' /\ \A e \in Call : Served(e)
  <2>1. DiskInv'
    BY <1>1 DEF Start, disk, DiskInv
  <2>2. \A e \in Call \ {c} : runs'[e] = runs[e]
    BY <1>0, <1>1, ControlLocal DEF Start, Evaluated
  <2>3. CASE doc # None /\ Evaluated(c, t, doc)
    <3>1. doc \in PolicyDocs /\ evaluate(doc, Server, t) \in DecisionType
      BY <1>0, <2>3, EvaluateType DEF TypeOK
    <3>2. \A e \in Call : basis'[e] # basis[e] => basis'[e] \in onDisk
      BY <1>0, <2>3 DEF Evaluated, DiskInv, TypeOK
    <3>3. runs' = runs \/ given'[c] = None
          \/ \E m \in onDisk \cap SecretMaps : given'[c] \in Range(m)
      BY <1>0, <2>3, <3>1, GivenFrom DEF Evaluated, DiskInv
    <3> QED
      BY <1>c, <2>1, <2>2, <3>2, <3>3
  <2>4. CASE doc = None /\ GoTo(c, "reading") /\ UNCHANGED <<basis, decision>>
    BY <1>b, <2>1, <2>4 DEF GoTo
  <2> QED
    BY <1>1, <2>3, <2>4 DEF Start
<1>2. ASSUME NEW c \in Call, ReadPolicy(c) \/ ReadSecrets(c)
      PROVE  DiskInv' /\ \A e \in Call : Served(e)
  BY <1>0, <1>b, <1>2 DEF ReadPolicy, ReadSecrets, GoTo, DiskInv, TypeOK, disk
<1>3. ASSUME NEW c \in Call, FinishLoad(c) PROVE DiskInv' /\ \A e \in Call : Served(e)
  <2>0. tool[c] \in Tool /\ raw[c] \in PolicyDocs \cup {Broken} /\ raw[c] \in onDisk
    BY <1>a, <1>3, NoneAssumption DEF FinishLoad, CallInv, DiskInv
  <2>1. DiskInv'
    BY <1>0, <1>3, <2>0 DEF FinishLoad, disk, DiskInv, TypeOK
  <2>2. \A e \in Call \ {c} : runs'[e] = runs[e]
    <3>1. PICK d : Decided(c, d)
      BY <1>3 DEF FinishLoad, Evaluated, Unreachable
    <3> QED
      BY <1>0, <3>1, ControlLocal
  <2>3. \A e \in Call : basis'[e] # basis[e] => basis'[e] \in onDisk
    BY <1>0, <1>3, <2>0 DEF FinishLoad, Evaluated, Unreachable, TypeOK
  <2>4. PICK d \in DecisionType : Decided(c, d)
    <3>1. CASE raw[c] = Broken /\ Unreachable(c)
      <4> DEFINE d == [effect |-> IF FailMode = "open" THEN "allow" ELSE "deny",
                       obligations |-> {}]
      <4>1. d \in DecisionType
        BY DEF DecisionType, Effect
      <4>2. Decided(c, d)
        BY <3>1 DEF Unreachable
      <4> HIDE DEF d
      <4> QED
        BY <4>1, <4>2
    <3>2. CASE raw[c] # Broken /\ Evaluated(c, tool[c], raw[c])
      BY <2>0, <3>2, EvaluateType DEF Evaluated
    <3> QED
      BY <1>3, <3>1, <3>2 DEF FinishLoad
  <2>5. runs' = runs \/ given'[c] = None
        \/ \E m \in onDisk \cap SecretMaps : given'[c] \in Range(m)
    BY <1>0, <2>4, GivenFrom DEF DiskInv
  <2> QED
    BY <1>c, <2>1, <2>2, <2>3, <2>5
<1>4. ASSUME NEW c \in Call, NEW a, Approval(c, a) PROVE DiskInv' /\ \A e \in Call : Served(e)
  <2>1. DiskInv' /\ basis' = basis
    BY <1>4 DEF Approval, disk, DiskInv
  <2>2. \A e \in Call \ {c} : runs'[e] = runs[e]
    BY <1>0, <1>4, ControlLocal DEF Approval
  <2>3. ResolveCredential(c, decision[c]) \/ runs' = runs
    BY <1>4 DEF Approval, Terminate
  <2>4. runs' = runs \/ given'[c] = None
        \/ \E m \in onDisk \cap SecretMaps : given'[c] \in Range(m)
    BY <1>0, <1>a, <2>3, GivenFrom DEF DiskInv
  <2> QED
    BY <1>c, <2>1, <2>2, <2>4
<1>5. ASSUME NEW c \in Call, FinishSecrets(c) PROVE DiskInv' /\ \A e \in Call : Served(e)
  <2>0. /\ raw[c] \in SecretMaps \cup {Broken} /\ raw[c] \in onDisk
        /\ decision[c].obligations # {}
    BY <1>a, <1>5, NoneAssumption DEF FinishSecrets, CallInv, DiskInv
  <2>1. DiskInv' /\ basis' = basis
    BY <1>0, <1>5, <2>0 DEF FinishSecrets, disk, DiskInv, TypeOK
  <2>2. \A e \in Call \ {c} : runs'[e] = runs[e]
    BY <1>0, <1>5, ControlLocal DEF FinishSecrets
  <2>3. runs' = runs \/ (raw[c] \in SecretMaps /\ given'[c] \in Range(raw[c]))
    <3>1. CASE Terminate(c, "denied", "blocked")
      BY <3>1 DEF Terminate
    <3>2. CASE raw[c] # Broken /\ Resolved(c, decision[c].obligations, raw[c])
      BY <1>0, <1>a, <2>0, <3>2, GivenFrom
    <3> QED
      BY <1>5, <3>1, <3>2 DEF FinishSecrets
  <2>4. runs' = runs \/ \E m \in onDisk \cap SecretMaps : given'[c] \in Range(m)
    BY <2>0, <2>3
  <2> QED
    BY <1>c, <2>1, <2>2, <2>4
<1>6. ASSUME NEW c \in Call, HandlerSettles(c) \/ Redact(c) \/ SinkSettles(c) \/ Return(c)
      PROVE  DiskInv' /\ \A e \in Call : Served(e)
  BY <1>b, <1>6
  DEF HandlerSettles, Redact, SinkSettles, Return, GoTo, Throw, Terminate, DiskInv, disk
<1>7. ASSUME NEW f, EditPolicy(f) \/ EditSecrets(f) PROVE DiskInv' /\ \A e \in Call : Served(e)
  BY <1>b, <1>7 DEF EditPolicy, EditSecrets, control, DiskInv
<1>8. CASE Crash
  BY <1>b, <1>8 DEF Crash, DiskInv
<1>9. CASE UNCHANGED vars
  BY <1>b, <1>9 DEF vars, control, disk, DiskInv
<1>10. ASSUME NEW c \in Call, NEW t \in Tool, Unidentified(c, t)
       PROVE  DiskInv' /\ \A e \in Call : Served(e)
  BY <1>b, <1>10 DEF Unidentified, Throw, DiskInv, disk
<1> QED
  BY <1>1, <1>2, <1>3, <1>4, <1>5, <1>6, <1>7, <1>8, <1>9, <1>10 DEF Next, Step

\* A restart makes an edit effective: whatever is cached, in flight or edited, a call is
\* decided by a policy and given a secret that were on disk since the process started.
THEOREM FreshAfterRestart == Spec => FreshSinceRestart
<1>1. Init => DiskInv
  BY DEF Init, DiskInv
<1>2. IInv /\ DiskInv /\ [Next]_vars => DiskInv'
  BY DiskStep
<1> DEFINE Served(c) ==
               /\ basis'[c] # basis[c] => basis'[c] \in onDisk
               /\ runs'[c] > runs[c] /\ given'[c] # None =>
                     \E m \in onDisk \cap SecretMaps : given'[c] \in Range(m)
<1>3. IInv /\ DiskInv /\ [Next]_vars => \A c \in Call : Served(c)
  BY DiskStep
<1> QED
  BY <1>1, <1>2, <1>3, BrokerInvariant, PTL DEF Spec, FreshSinceRestart

\* Once a document is cached and nothing is being loaded, no step but a restart reads
\* the policy again.
THEOREM CacheSettles == Spec => CacheStaysSettled
<1>1. TypeOK /\ [Next]_vars /\ Settled => (Settled' /\ doc' = doc) \/ crashes' # crashes
  <2> SUFFICES ASSUME TypeOK, [Next]_vars, Settled, crashes' = crashes
               PROVE  Settled' /\ doc' = doc
    OBVIOUS
  <2> DEFINE Elsewhere(c) == pc'[c] \notin {"reading", "loaded"}
  <2>0. ControlOK /\ doc # None /\ \A c \in Call : pc[c] \notin {"reading", "loaded"}
    BY DEF TypeOK, ControlOK, Settled
  <2>1. ASSUME NEW c \in Call PROVE /\ \A d : Decided(c, d) => \A e \in Call : Elsewhere(e)
                                    /\ \A d : ResolveCredential(c, d) => \A e \in Call : Elsewhere(e)
                                    /\ \A m, x : Resolved(c, x, m) => \A e \in Call : Elsewhere(e)
    <3>1. /\ \A o, a : Terminate(c, o, a) => \A e \in Call : Elsewhere(e)
          /\ \A k : Invoke(c, k) => \A e \in Call : Elsewhere(e)
          /\ \A p : p \notin {"reading", "loaded"} /\ GoTo(c, p) => \A e \in Call : Elsewhere(e)
      BY <2>0 DEF Terminate, Invoke, GoTo, ControlOK
    <3> HIDE DEF Elsewhere
    <3>2. \A m, x : Resolved(c, x, m) => \A e \in Call : Elsewhere(e)
      BY <3>1 DEF Resolved
    <3>3. \A d : ResolveCredential(c, d) => \A e \in Call : Elsewhere(e)
      BY <3>1, <3>2 DEF ResolveCredential
    <3>4. \A d : Decided(c, d) => \A e \in Call : Elsewhere(e)
      BY <3>1, <3>3 DEF Decided
    <3> QED
      BY <3>2, <3>3, <3>4
  <2>2. ASSUME NEW c \in Call, \E t \in Tool : Start(c, t) PROVE Settled' /\ doc' = doc
    BY <2>0, <2>1, <2>2 DEF Start, Evaluated, Settled
  <2>3. ASSUME NEW c \in Call, \E a : Approval(c, a) PROVE Settled' /\ doc' = doc
    BY <2>0, <2>1, <2>3 DEF Approval, Terminate, ControlOK, Settled
  <2>4. ASSUME NEW c \in Call, FinishSecrets(c) PROVE Settled' /\ doc' = doc
    BY <2>0, <2>1, <2>4 DEF FinishSecrets, Terminate, ControlOK, Settled
  <2>5. ASSUME NEW c \in Call,
               \/ ReadPolicy(c) \/ FinishLoad(c) \/ ReadSecrets(c) \/ HandlerSettles(c)
               \/ Redact(c) \/ SinkSettles(c) \/ Return(c) \/ \E t \in Tool : Unidentified(c, t)
        PROVE  Settled' /\ doc' = doc
    BY <2>0, <2>5
    DEF ReadPolicy, FinishLoad, ReadSecrets, HandlerSettles, Redact, SinkSettles, Return,
        Unidentified, GoTo, Terminate, Throw, ControlOK, Settled
  <2>6. ASSUME NEW f, EditPolicy(f) \/ EditSecrets(f) PROVE Settled' /\ doc' = doc
    BY <2>0, <2>6 DEF EditPolicy, EditSecrets, control, Settled
  <2>7. ~Crash
    BY DEF Crash, TypeOK
  <2>8. CASE UNCHANGED vars
    BY <2>0, <2>8 DEF vars, control, Settled
  <2> QED
    BY <2>2, <2>3, <2>4, <2>5, <2>6, <2>7, <2>8 DEF Next, Step
<1> QED
  BY <1>1, TypeCorrect, PTL DEF Spec, CacheStaysSettled

----------------------------------------------------------------------------
(* The broker implements the gate.                                         *)

\* A call that no policy has decided has none, and approvals are for calls that waited.
UndecidedInv(c) ==
    pc[c] \in {"idle", "reading", "loaded", "approving"} => c \notin approvals

LEMMA UndecidedStep ==
    ASSUME IInv, NEW e \in Call, UndecidedInv(e), [Next]_vars
    PROVE  UndecidedInv(e)'
<1>0. TypeOK /\ ControlOK /\ CallInv(e)
  BY DEF IInv, TypeOK, ControlOK
<1> DEFINE Past == pc'[e] \notin {"idle", "reading", "loaded", "approving"}
<1>1. /\ \A o, a : Terminate(e, o, a) => Past
      /\ \A k : Invoke(e, k) => Past
      /\ \A p : GoTo(e, p) => pc'[e] = p
  BY <1>0 DEF Terminate, Invoke, GoTo, ControlOK
<1> HIDE DEF Past
<1>2. \A m, r : Resolved(e, r, m) => Past
  BY <1>1 DEF Resolved
<1>3. \A d : ResolveCredential(e, d) => Past
  BY <1>1, <1>2 DEF ResolveCredential, Past
<1>4. \A d : Decided(e, d) => Past \/ pc'[e] = "approving"
  BY <1>1, <1>3 DEF Decided
<1>5. Past => UndecidedInv(e)'
  BY DEF Past, UndecidedInv
<1>6. ASSUME pc'[e] = pc[e], basis'[e] = basis[e], e \in approvals' => e \in approvals
      PROVE  UndecidedInv(e)'
  BY <1>6 DEF UndecidedInv
<1>7. ASSUME NEW c \in Call, NEW t \in Tool, Start(c, t) PROVE UndecidedInv(e)'
  <2>1. CASE e = c
    <3>1. e \notin approvals'
      BY <1>7, <2>1 DEF Start, UndecidedInv
    <3>2. CASE doc = None /\ GoTo(c, "reading") /\ UNCHANGED <<basis, decision>>
      BY <1>1, <2>1, <3>1, <3>2 DEF UndecidedInv
    <3>3. CASE Evaluated(c, t, doc)
      BY <1>4, <1>5, <2>1, <3>1, <3>3 DEF Evaluated, UndecidedInv
    <3> QED
      BY <1>7, <3>2, <3>3 DEF Start
  <2>2. CASE e # c
    BY <1>0, <1>6, <1>7, <2>2, ControlLocal DEF Start, Evaluated, TypeOK
  <2> QED
    BY <2>1, <2>2
<1>8. ASSUME NEW c \in Call, ReadPolicy(c) PROVE UndecidedInv(e)'
  BY <1>0, <1>8 DEF ReadPolicy, GoTo, ControlOK, UndecidedInv
<1>9. ASSUME NEW c \in Call, FinishLoad(c) PROVE UndecidedInv(e)'
  <2>1. CASE e = c
    <3>1. e \notin approvals'
      BY <1>9, <2>1 DEF FinishLoad, UndecidedInv
    <3>2. Past \/ pc'[e] = "approving"
      BY <1>4, <1>9, <2>1 DEF FinishLoad, Evaluated, Unreachable
    <3> QED
      BY <1>5, <3>1, <3>2 DEF UndecidedInv
  <2>2. CASE e # c
    BY <1>0, <1>6, <1>9, <2>2, ControlLocal DEF FinishLoad, Evaluated, Unreachable, TypeOK
  <2> QED
    BY <2>1, <2>2
<1>10. ASSUME NEW c \in Call, NEW a, Approval(c, a) PROVE UndecidedInv(e)'
  <2>1. CASE e = c
    BY <1>1, <1>3, <1>5, <1>10, <2>1 DEF Approval
  <2>2. CASE e # c
    BY <1>0, <1>6, <1>10, <2>2, ControlLocal DEF Approval
  <2> QED
    BY <2>1, <2>2
<1>11. ASSUME NEW c \in Call, ReadSecrets(c) PROVE UndecidedInv(e)'
  BY <1>0, <1>11 DEF ReadSecrets, GoTo, ControlOK, UndecidedInv
<1>12. ASSUME NEW c \in Call, FinishSecrets(c) PROVE UndecidedInv(e)'
  <2>1. CASE e = c
    BY <1>1, <1>2, <1>5, <1>12, <2>1 DEF FinishSecrets
  <2>2. CASE e # c
    BY <1>0, <1>6, <1>12, <2>2, ControlLocal DEF FinishSecrets
  <2> QED
    BY <2>1, <2>2
<1>13. ASSUME NEW c \in Call, HandlerSettles(c) \/ SinkSettles(c) \/ Return(c)
       PROVE  UndecidedInv(e)'
  BY <1>0, <1>13
  DEF HandlerSettles, SinkSettles, Return, GoTo, Terminate, ControlOK, UndecidedInv
<1>14. ASSUME NEW c \in Call, Redact(c) PROVE UndecidedInv(e)'
  BY <1>0, <1>14 DEF Redact, Throw, Terminate, ControlOK, UndecidedInv
<1>15. ASSUME NEW f, EditPolicy(f) \/ EditSecrets(f) PROVE UndecidedInv(e)'
  BY <1>15 DEF EditPolicy, EditSecrets, control, UndecidedInv
<1>16. CASE Crash
  BY <1>0, <1>16 DEF Crash, ControlOK, UndecidedInv, Finished
<1>17. CASE UNCHANGED vars
  BY <1>17 DEF vars, control, UndecidedInv
<1>18. ASSUME NEW c \in Call, NEW t \in Tool, Unidentified(c, t) PROVE UndecidedInv(e)'
  BY <1>0, <1>18 DEF Unidentified, Throw, ControlOK, UndecidedInv
<1> QED
  BY <1>7, <1>8, <1>9, <1>10, <1>11, <1>12, <1>13, <1>14, <1>15, <1>16, <1>17, <1>18
  DEF Next, Step

LEMMA VerdictIs ==
    ASSUME NEW c \in Call
    PROVE  /\ basis[c] \in PolicyDocs => Verdict(c) = WrittenEffect(basis[c], tool[c])
           /\ basis[c] = Broken => Verdict(c) = IF FailMode = "open" THEN "allow" ELSE "deny"
           /\ basis[c] = None => Verdict(c) = "none"
           /\ basis'[c] \in PolicyDocs => Verdict(c)' = WrittenEffect(basis'[c], tool'[c])
           /\ basis'[c] = Broken => Verdict(c)' = IF FailMode = "open" THEN "allow" ELSE "deny"
           /\ basis'[c] = None => Verdict(c)' = "none"
<1>1. Broken \notin PolicyDocs /\ None \notin PolicyDocs /\ None # Broken
  BY NoneAssumption
<1>2. /\ basis[c] \in PolicyDocs => Verdict(c) = WrittenEffect(basis[c], tool[c])
      /\ basis[c] = Broken => Verdict(c) = IF FailMode = "open" THEN "allow" ELSE "deny"
      /\ basis[c] = None => Verdict(c) = "none"
  BY <1>1 DEF Verdict
<1>3. /\ basis'[c] \in PolicyDocs => Verdict(c)' = WrittenEffect(basis'[c], tool'[c])
      /\ basis'[c] = Broken => Verdict(c)' = IF FailMode = "open" THEN "allow" ELSE "deny"
      /\ basis'[c] = None => Verdict(c)' = "none"
  BY <1>1 DEF Verdict
<1> QED
  BY <1>2, <1>3

\* What the gate sees of a step of one call.
LEMMA GateView ==
    ASSUME TypeOK, TypeOK', NEW c \in Call, \A e \in Call : e # c => Same(e)
    PROVE  /\ Verdicts' = [Verdicts EXCEPT ![c] = Verdict(c)']
           /\ Phases' = [Phases EXCEPT ![c] = Phase(c)']
           /\ Outcomes' = [Outcomes EXCEPT ![c] = (IF emitted[c] = <<>> THEN "none" ELSE emitted[c][1])']
           /\ Replies' = [Replies EXCEPT ![c] = (IF pc[c] = "finished" THEN reply[c] ELSE "none")']
<1>1. Verdicts' = [Verdicts EXCEPT ![c] = Verdict(c)']
  <2>1. \A e \in Call : e # c => Verdict(e)' = Verdict(e)
    BY Zenon DEF Verdict, Same
  <2> QED
    BY <2>1 DEF Verdicts
<1>2. Phases' = [Phases EXCEPT ![c] = Phase(c)']
  <2>1. \A e \in Call : e # c => Phase(e)' = Phase(e)
    BY Zenon DEF Phase, Same
  <2> QED
    BY <2>1 DEF Phases
<1>3. Outcomes' = [Outcomes EXCEPT ![c] = (IF emitted[c] = <<>> THEN "none" ELSE emitted[c][1])']
  BY DEF Outcomes, Same
<1>4. Replies' = [Replies EXCEPT ![c] = (IF pc[c] = "finished" THEN reply[c] ELSE "none")']
  BY DEF Replies, Same
<1> QED
  BY <1>1, <1>2, <1>3, <1>4

Early == {"idle", "reading", "loaded", "approving", "readingSecrets", "loadedSecrets"}

\* Where the stretches of runPipeline lead a call that waits, as the gate sees it.
LEMMA GateMoves ==
    ASSUME TypeOK, TypeOK', NEW c \in Call, \A e \in Call : e # c => Same(e),
           pc[c] \in Early, Fresh(c)
    PROVE  /\ Phases[c] = "waiting"
           /\ \A p \in Early : GoTo(c, p) => Gate!Wait /\ UNCHANGED Replies
           /\ \A k : Invoke(c, k) => Gate!Run(c) /\ UNCHANGED Replies
           /\ \A o \in Outcome : \A a : Terminate(c, o, a) => Gate!End(c, o) /\ UNCHANGED Replies
<1>0. ControlOK /\ ControlOK'
  BY DEF TypeOK, ControlOK
<1>1. Phases[c] = "waiting"
  BY DEF Phases, Phase, Early
<1>2. Outcomes[c] = "none" /\ Replies[c] = "none"
  BY DEF Outcomes, Replies, Fresh, Early, Finished
<1>3. ASSUME pc'[c] # "finished" PROVE UNCHANGED Replies
  BY <1>2, <1>3, GateView DEF Replies
<1>4. ASSUME NEW p \in Early, GoTo(c, p) PROVE Gate!Wait /\ UNCHANGED Replies
  <2>1. pc'[c] = p /\ emitted'[c] = <<>>
    BY <1>0, <1>4 DEF GoTo, Fresh, ControlOK
  <2>2. Phase(c)' = "waiting" /\ pc'[c] # "finished"
    BY <2>1 DEF Phase, Early
  <2>3. UNCHANGED <<Phases, Outcomes>>
    <3>1. Phases' = [Phases EXCEPT ![c] = Phases[c]] /\ Outcomes' = [Outcomes EXCEPT ![c] = Outcomes[c]]
      BY <1>1, <1>2, <2>1, <2>2, GateView
    <3> QED
      BY <3>1 DEF Phases, Outcomes
  <2> QED
    BY <1>3, <2>2, <2>3 DEF Gate!Wait
<1>5. ASSUME NEW k, Invoke(c, k) PROVE Gate!Run(c) /\ UNCHANGED Replies
  <2>1. pc'[c] = "handling" /\ emitted'[c] = <<>>
    BY <1>0, <1>5 DEF Invoke, Fresh, ControlOK
  <2>2. Phase(c)' = "running" /\ pc'[c] # "finished"
    BY <2>1 DEF Phase
  <2>3. Phases' = [Phases EXCEPT ![c] = "running"] /\ UNCHANGED Outcomes
    BY <1>2, <2>1, <2>2, GateView DEF Outcomes
  <2> QED
    BY <1>3, <2>2, <2>3 DEF Gate!Run
<1>6. ASSUME NEW o \in Outcome, NEW a, Terminate(c, o, a) PROVE Gate!End(c, o) /\ UNCHANGED Replies
  <2>1. pc'[c] = "emitting" /\ emitted'[c] = <<o>>
    BY <1>0, <1>6 DEF Terminate, Fresh, ControlOK
  <2>2. Phase(c)' = "ended" /\ pc'[c] # "finished"
    BY <2>1 DEF Phase
  <2>3. (IF emitted[c] = <<>> THEN "none" ELSE emitted[c][1])' = o
    BY <2>1
  <2>4. Phases' = [Phases EXCEPT ![c] = "ended"] /\ Outcomes' = [Outcomes EXCEPT ![c] = o]
    BY <2>2, <2>3, GateView
  <2> QED
    BY <1>3, <2>2, <2>4 DEF Gate!End
<1> QED
  BY <1>1, <1>4, <1>5, <1>6

LEMMA GatePermits ==
    ASSUME TypeOK, TypeOK', NEW c \in Call, \A e \in Call : e # c => Same(e),
           pc[c] \in Early, Fresh(c)
    PROVE  /\ \A d : ResolveCredential(c, d) => Gate!Permitted(c) /\ UNCHANGED Replies
           /\ \A m, r : Resolved(c, r, m) => Gate!Permitted(c) /\ UNCHANGED Replies
<1>1. ASSUME NEW m, NEW r, Resolved(c, r, m) PROVE Gate!Permitted(c) /\ UNCHANGED Replies
  BY <1>1, GateMoves DEF Resolved, Gate!Permitted, Outcome
<1>2. ASSUME NEW d, ResolveCredential(c, d) PROVE Gate!Permitted(c) /\ UNCHANGED Replies
  BY <1>1, <1>2, GateMoves DEF ResolveCredential, Gate!Permitted, Early
<1> QED
  BY <1>1, <1>2

\* A decision of the policy source is one of the gate.
LEMMA GateDecides ==
    ASSUME TypeOK, TypeOK', NEW c \in Call, \A e \in Call : e # c => Same(e),
           pc[c] \in Early, Fresh(c), UndecidedInv(c), CallInv(c), pc[c] \in Undecided,
           UNCHANGED <<approvals, auditLog>>, NEW d, Decided(c, d), Verdict(c)' = d.effect
    PROVE  Gate!Decide(c)
<1>1. Phases[c] = "waiting" /\ Verdicts[c] = "none"
  <2>1. basis[c] = None
    BY DEF CallInv
  <2> QED
    BY <2>1, NoneAssumption, GateMoves DEF Verdicts, Verdict
<1>2. Verdicts' = [Verdicts EXCEPT ![c] = d.effect]
  BY GateView
<1>3. CASE d.effect = "deny" /\ Terminate(c, "denied", "blocked")
  <2>1. Gate!End(c, "denied") /\ UNCHANGED Replies
    BY <1>3, GateMoves DEF Outcome
  <2> QED
    BY <1>1, <1>2, <1>3, <2>1 DEF Gate!Decide
<1>4. CASE d.effect = "require_approval" /\ Terminate(c, "approval_denied", "blocked")
  <2>1. Gate!End(c, "approval_denied") /\ UNCHANGED Replies
    BY <1>4, GateMoves DEF Outcome
  <2> QED
    BY <1>1, <1>2, <1>4, <2>1 DEF Gate!Decide
<1>5. CASE d.effect = "require_approval" /\ GoTo(c, "approving")
  <2>1. Gate!Wait /\ UNCHANGED Replies
    BY <1>5, GateMoves DEF Early
  <2> QED
    BY <1>1, <1>2, <1>5, <2>1 DEF Gate!Decide
<1>6. CASE d.effect = "allow" /\ ResolveCredential(c, d)
  <2>1. Gate!Permitted(c) /\ UNCHANGED Replies
    BY <1>6, GatePermits
  <2> QED
    BY <1>1, <1>2, <1>6, <2>1 DEF Gate!Decide
<1> QED
  BY <1>3, <1>4, <1>5, <1>6 DEF Decided

\* A step that the gate does not see.
LEMMA GateBlind ==
    ASSUME UNCHANGED <<Verdicts, approvals, Phases, Outcomes, auditLog, Replies>>
    PROVE  [Gate!Next]_(Gate!vars)
BY DEF Gate!vars

LEMMA GateSeesNothing ==
    ASSUME TypeOK, TypeOK', NEW c \in Call, \A e \in Call : e # c => Same(e),
           pc[c] = "handling", pc'[c] = "redacting",
           UNCHANGED <<basis, tool, approvals, auditLog, emitted, reply>>
    PROVE  [Gate!Next]_(Gate!vars)
<1>1. UNCHANGED <<Verdicts, Outcomes>>
  BY DEF Verdicts, Verdict, Outcomes
<1>2. Phase(c)' = Phases[c] /\ (IF pc[c] = "finished" THEN reply[c] ELSE "none")' = Replies[c]
  BY DEF Phases, Phase, Replies
<1>3. Phases' = [Phases EXCEPT ![c] = Phases[c]] /\ Replies' = [Replies EXCEPT ![c] = Replies[c]]
  BY <1>2, GateView
<1>4. UNCHANGED <<Phases, Replies>>
  BY <1>3 DEF Phases, Replies
<1> QED
  BY <1>1, <1>4, GateBlind

\* The handler is over: it threw, or its result went through the hook.
LEMMA GateFinishes ==
    ASSUME TypeOK, TypeOK', NEW c \in Call, \A e \in Call : e # c => Same(e),
           pc[c] \in {"handling", "redacting"}, emitted[c] = <<>>,
           UNCHANGED <<basis, tool, approvals, auditLog>>,
           NEW o \in {"allowed", "handler_error"}, NEW a, Terminate(c, o, a)
    PROVE  Gate!Finish(c)
<1>1. pc'[c] = "emitting" /\ emitted'[c] = <<o>>
  BY DEF Terminate, TypeOK
<1>2. Phases[c] = "running" /\ Phase(c)' = "ended"
  BY <1>1 DEF Phases, Phase
<1>3. /\ (IF emitted[c] = <<>> THEN "none" ELSE emitted[c][1])' = o
      /\ (IF pc[c] = "finished" THEN reply[c] ELSE "none")' = Replies[c]
  BY <1>1 DEF Replies
<1>4. /\ Phases' = [Phases EXCEPT ![c] = "ended"] /\ Outcomes' = [Outcomes EXCEPT ![c] = o]
      /\ Replies' = [Replies EXCEPT ![c] = Replies[c]]
  BY <1>2, <1>3, GateView
<1>5. UNCHANGED Verdicts
  BY DEF Verdicts, Verdict
<1>6. UNCHANGED Replies
  <2>1. Replies \in [Call -> {"none", "ok", "blocked", "threw"}]
    BY DEF Replies, TypeOK
  <2> QED
    BY <1>4, <2>1
<1> QED
  BY <1>2, <1>4, <1>5, <1>6 DEF Gate!Finish, Gate!End

\* A hook of the author threw: the call is answered, and the log knows nothing.
LEMMA GateThrows ==
    ASSUME TypeOK, TypeOK', NEW c \in Call, \A e \in Call : e # c => Same(e), Throw(c)
    PROVE  /\ Phases' = [Phases EXCEPT ![c] = "answered"]
           /\ Replies' = [Replies EXCEPT ![c] = "threw"] /\ UNCHANGED Outcomes
<1>1. pc'[c] = "finished" /\ reply'[c] = "threw" /\ UNCHANGED emitted
  BY DEF Throw, TypeOK
<1>2. Phase(c)' = "answered" /\ (IF pc[c] = "finished" THEN reply[c] ELSE "none")' = "threw"
  BY <1>1 DEF Phase
<1>3. Phases' = [Phases EXCEPT ![c] = "answered"] /\ Replies' = [Replies EXCEPT ![c] = "threw"]
  BY <1>2, GateView
<1> QED
  BY <1>1, <1>3 DEF Outcomes

\* Each step of the broker is a step of the gate or none that it sees.
LEMMA GateStep ==
    ASSUME IInv, IInv', \A c \in Call : UndecidedInv(c), [Next]_vars
    PROVE  [Gate!Next]_(Gate!vars)
<1>0. TypeOK /\ TypeOK' /\ ControlOK /\ \A c \in Call : CallInv(c)
  BY DEF IInv, TypeOK, ControlOK
<1> DEFINE Alone(c) == \A e \in Call : e # c => Same(e)
<1>a. ASSUME NEW c \in Call, Gate!Decide(c) \/ Gate!Approve(c) \/ Gate!Decline(c) \/ Gate!Resolve(c)
                              \/ Gate!Finish(c) \/ Gate!Escape(c) \/ Gate!Record(c) \/ Gate!Answer(c)
      PROVE  [Gate!Next]_(Gate!vars)
  BY <1>a DEF Gate!Next
<1>1. ASSUME NEW c \in Call, NEW t \in Tool, Start(c, t) PROVE [Gate!Next]_(Gate!vars)
  <2>1. Alone(c)
    BY <1>0, <1>1, ControlLocal DEF Start, Evaluated, Same, TypeOK
  <2>2. /\ pc[c] = "idle" /\ Fresh(c) /\ tool'[c] = t /\ UNCHANGED <<approvals, auditLog>>
    BY <1>0, <1>1 DEF Start, CallInv, TypeOK
  <2>3. CASE doc # None /\ Evaluated(c, t, doc)
    <3> DEFINE d == evaluate(doc, Server, t)
    <3>1. doc \in PolicyDocs /\ basis'[c] = doc /\ Decided(c, d)
      BY <1>0, <2>3 DEF Evaluated, TypeOK
    <3>2. d.effect = WrittenEffect(doc, t)
      BY <3>1, EvaluateType
    <3> HIDE DEF d
    <3>3. Verdict(c)' = d.effect
      BY <2>2, <3>1, <3>2, VerdictIs
    <3>4. Gate!Decide(c)
      BY <1>0, <2>1, <2>2, <3>1, <3>3, GateDecides DEF Early, Undecided
    <3> QED
      BY <1>a, <3>4
  <2>4. CASE doc = None /\ GoTo(c, "reading") /\ UNCHANGED <<basis, decision>>
    <3>1. Gate!Wait /\ UNCHANGED Replies
      BY <1>0, <2>1, <2>2, <2>4, GateMoves DEF Early
    <3>2. Verdict(c)' = Verdict(c)
      <4>1. basis[c] = None /\ basis'[c] = None
        BY <1>0, <2>2, <2>4 DEF CallInv, Undecided
      <4> QED
        BY <4>1, NoneAssumption DEF Verdict
    <3>3. UNCHANGED Verdicts
      BY <1>0, <2>1, <3>2, GateView DEF Verdicts
    <3> QED
      BY <2>2, <3>1, <3>3, GateBlind DEF Gate!Wait
  <2> QED
    BY <1>1, <2>3, <2>4 DEF Start
<1>2. ASSUME NEW c \in Call, ReadPolicy(c) \/ ReadSecrets(c) PROVE [Gate!Next]_(Gate!vars)
  <2>1. Alone(c)
    BY <1>0, <1>2, ControlLocal DEF ReadPolicy, ReadSecrets, Same, TypeOK
  <2>2. pc[c] \in Early /\ Fresh(c) /\ UNCHANGED <<basis, tool, approvals, auditLog>>
    BY <1>0, <1>2 DEF ReadPolicy, ReadSecrets, CallInv, Early
  <2>3. Gate!Wait /\ UNCHANGED Replies
    BY <1>0, <1>2, <2>1, <2>2, GateMoves DEF ReadPolicy, ReadSecrets, Early
  <2>4. UNCHANGED Verdicts
    BY <2>2 DEF Verdicts, Verdict
  <2> QED
    BY <2>2, <2>3, <2>4, GateBlind DEF Gate!Wait
<1>3. ASSUME NEW c \in Call, FinishLoad(c) PROVE [Gate!Next]_(Gate!vars)
  <2>1. Alone(c)
    BY <1>0, <1>3, ControlLocal DEF FinishLoad, Evaluated, Unreachable, Same, TypeOK
  <2>2. /\ pc[c] = "loaded" /\ Fresh(c) /\ tool' = tool /\ UNCHANGED <<approvals, auditLog>>
        /\ raw[c] \in PolicyDocs \cup {Broken} /\ tool[c] \in Tool
    BY <1>0, <1>3 DEF FinishLoad, CallInv
  <2>3. CASE raw[c] # Broken /\ Evaluated(c, tool[c], raw[c])
    <3> DEFINE d == evaluate(raw[c], Server, tool[c])
    <3>1. raw[c] \in PolicyDocs /\ basis'[c] = raw[c] /\ Decided(c, d)
      BY <1>0, <2>2, <2>3 DEF Evaluated, TypeOK
    <3>2. d.effect = WrittenEffect(raw[c], tool[c])
      BY <2>2, <3>1, EvaluateType
    <3> HIDE DEF d
    <3>3. Verdict(c)' = d.effect
      BY <2>2, <3>1, <3>2, VerdictIs
    <3>4. Gate!Decide(c)
      BY <1>0, <2>1, <2>2, <3>1, <3>3, GateDecides DEF Early, Undecided
    <3> QED
      BY <1>a, <3>4
  <2>4. CASE Unreachable(c)
    <3> DEFINE d == [effect |-> IF FailMode = "open" THEN "allow" ELSE "deny", obligations |-> {}]
    <3>1. basis'[c] = Broken /\ Decided(c, d)
      BY <1>0, <2>4 DEF Unreachable, TypeOK
    <3>2. Verdict(c)' = d.effect
      BY <3>1, NoneAssumption DEF Verdict
    <3> HIDE DEF d
    <3>3. Gate!Decide(c)
      BY <1>0, <2>1, <2>2, <3>1, <3>2, GateDecides DEF Early, Undecided
    <3> QED
      BY <1>a, <3>3
  <2> QED
    BY <1>3, <2>3, <2>4 DEF FinishLoad
<1>4. ASSUME NEW c \in Call, NEW a, Approval(c, a) PROVE [Gate!Next]_(Gate!vars)
  <2>1. Alone(c)
    BY <1>0, <1>4, ControlLocal DEF Approval, Same
  <2>2. /\ pc[c] = "approving" /\ Fresh(c) /\ UNCHANGED <<basis, tool, auditLog>>
        /\ basis[c] \in PolicyDocs /\ WrittenEffect(basis[c], tool[c]) = "require_approval"
    BY <1>0, <1>4 DEF Approval, CallInv
  <2>3. UNCHANGED Verdicts
    BY <2>2 DEF Verdicts, Verdict
  <2>4. Gate!Asked(c)
    <3>1. Verdicts[c] = "require_approval" /\ c \notin approvals
      BY <2>2, VerdictIs DEF Verdicts, UndecidedInv
    <3>2. Phases[c] = "waiting"
      BY <2>2 DEF Phases, Phase
    <3> QED
      BY <3>1, <3>2 DEF Gate!Asked
  <2>5. CASE approvals' = approvals \cup {c} /\ ResolveCredential(c, decision[c])
    <3>1. Gate!Permitted(c) /\ UNCHANGED Replies
      BY <1>0, <2>1, <2>2, <2>5, GatePermits DEF Early
    <3> QED
      BY <1>a, <2>2, <2>3, <2>4, <2>5, <3>1 DEF Gate!Approve
  <2>6. ASSUME NEW o \in {"approval_timeout", "approval_denied"}, Terminate(c, o, "blocked"),
               UNCHANGED approvals
        PROVE  [Gate!Next]_(Gate!vars)
    <3>1. Gate!End(c, o) /\ UNCHANGED Replies
      BY <1>0, <2>1, <2>2, <2>6, GateMoves DEF Early, Outcome
    <3> QED
      BY <1>a, <2>2, <2>3, <2>4, <2>6, <3>1 DEF Gate!Decline
  <2> QED
    BY <1>4, <2>5, <2>6 DEF Approval
<1>5. ASSUME NEW c \in Call, FinishSecrets(c) PROVE [Gate!Next]_(Gate!vars)
  <2>1. Alone(c)
    BY <1>0, <1>5, ControlLocal DEF FinishSecrets, Same, TypeOK
  <2>2. pc[c] = "loadedSecrets" /\ Fresh(c) /\ Authorised(c) /\ UNCHANGED <<basis, tool, approvals, auditLog>>
    BY <1>0, <1>5 DEF FinishSecrets, CallInv
  <2>3. UNCHANGED Verdicts
    BY <2>2 DEF Verdicts, Verdict
  <2>4. Phases[c] = "waiting" /\ (Verdicts[c] = "allow" \/ c \in approvals)
    <3>1. CASE basis[c] \in PolicyDocs
      BY <2>2, <3>1, NoneAssumption DEF Authorised, Verdicts, Verdict, Phases, Phase
    <3>2. CASE basis[c] = Broken
      BY <2>2, <3>2, NoneAssumption DEF Authorised, Verdicts, Verdict, Phases, Phase
    <3> QED
      BY <2>2, <3>1, <3>2 DEF Authorised
  <2>5. Gate!Permitted(c) /\ UNCHANGED Replies
    <3>1. CASE Terminate(c, "denied", "blocked")
      BY <1>0, <2>1, <2>2, <3>1, GateMoves DEF Early, Outcome, Gate!Permitted
    <3>2. CASE Resolved(c, decision[c].obligations, raw[c])
      BY <1>0, <2>1, <2>2, <3>2, GatePermits DEF Early
    <3> QED
      BY <1>5, <3>1, <3>2 DEF FinishSecrets
  <2> QED
    BY <1>a, <2>2, <2>3, <2>4, <2>5 DEF Gate!Resolve
<1>6. ASSUME NEW c \in Call, HandlerSettles(c) PROVE [Gate!Next]_(Gate!vars)
  <2>1. Alone(c)
    BY <1>0, <1>6, ControlLocal DEF HandlerSettles, Same
  <2>2. /\ pc[c] = "handling" /\ emitted[c] = <<>> /\ UNCHANGED <<basis, tool, approvals, auditLog>>
    BY <1>0, <1>6 DEF HandlerSettles, CallInv
  <2>3. CASE GoTo(c, "redacting")
    <3>1. pc'[c] = "redacting" /\ UNCHANGED <<emitted, reply>>
      BY <1>0, <2>3 DEF GoTo, ControlOK
    <3> QED
      BY <1>0, <2>1, <2>2, <3>1, GateSeesNothing
  <2>4. CASE Terminate(c, "handler_error", "threw")
    BY <1>0, <1>a, <2>1, <2>2, <2>4, GateFinishes DEF Outcome
  <2> QED
    BY <1>6, <2>3, <2>4 DEF HandlerSettles
<1>7. ASSUME NEW c \in Call, Redact(c) PROVE [Gate!Next]_(Gate!vars)
  <2>1. Alone(c)
    BY <1>0, <1>7, ControlLocal DEF Redact, Same, ControlOK
  <2>2. /\ pc[c] = "redacting" /\ emitted[c] = <<>> /\ UNCHANGED <<basis, tool, approvals, auditLog>>
    BY <1>0, <1>7 DEF Redact, CallInv
  <2>3. CASE Terminate(c, "allowed", "ok")
    BY <1>0, <1>a, <2>1, <2>2, <2>3, GateFinishes DEF Outcome
  <2>4. CASE RedactMayThrow /\ Throw(c)
    <3>1. Phases[c] = "running" /\ UNCHANGED Verdicts
      BY <2>2 DEF Phases, Phase, Verdicts, Verdict
    <3>2. /\ Phases' = [Phases EXCEPT ![c] = "answered"]
          /\ Replies' = [Replies EXCEPT ![c] = "threw"] /\ UNCHANGED Outcomes
      BY <1>0, <2>1, <2>4, GateThrows
    <3> QED
      BY <1>a, <2>2, <2>4, <3>1, <3>2 DEF Gate!Escape
  <2> QED
    BY <1>7, <2>3, <2>4 DEF Redact
<1>8. ASSUME NEW c \in Call, SinkSettles(c) PROVE [Gate!Next]_(Gate!vars)
  <2>1. Alone(c)
    BY <1>0, <1>8, ControlLocal DEF SinkSettles, Same
  <2>2. /\ pc[c] = "emitting" /\ Len(emitted[c]) = 1 /\ UNCHANGED <<basis, tool, approvals>>
        /\ pc'[c] = "returning" /\ emitted' = emitted
    BY <1>0, <1>8 DEF SinkSettles, GoTo, CallInv, Reported, ControlOK
  <2>3. Phases[c] = "ended" /\ Phase(c)' = "recorded"
    BY <2>2 DEF Phases, Phase
  <2>4. Phases' = [Phases EXCEPT ![c] = "recorded"]
    BY <1>0, <2>1, <2>3, GateView
  <2>5. UNCHANGED <<Verdicts, Outcomes>>
    BY <2>2 DEF Verdicts, Verdict, Outcomes
  <2>6. UNCHANGED Replies
    <3>1. Replies' = [Replies EXCEPT ![c] = Replies[c]]
      BY <1>0, <2>1, <2>2, GateView DEF Replies
    <3> QED
      BY <3>1 DEF Replies
  <2>7. Outcomes[c] = emitted[c][Len(emitted[c])]
    BY <2>2 DEF Outcomes
  <2>8. auditLog' = Append(auditLog, [call |-> c, outcome |-> Outcomes[c]]) \/ UNCHANGED auditLog
    BY <1>8, <2>7 DEF SinkSettles
  <2> QED
    BY <1>a, <2>2, <2>3, <2>4, <2>5, <2>6, <2>8 DEF Gate!Record
<1>9. ASSUME NEW c \in Call, Return(c) PROVE [Gate!Next]_(Gate!vars)
  <2>1. Alone(c)
    BY <1>0, <1>9, ControlLocal DEF Return, Same
  <2>2. /\ pc[c] = "returning" /\ Reported(c) /\ UNCHANGED <<basis, tool, approvals, auditLog>>
        /\ pc'[c] = "finished" /\ UNCHANGED <<emitted, reply>>
    BY <1>0, <1>9 DEF Return, GoTo, CallInv, ControlOK
  <2>3. Phases[c] = "recorded" /\ Phase(c)' = "answered"
    BY <2>2 DEF Phases, Phase
  <2>4. Outcomes[c] = emitted[c][1] /\ emitted[c][1] \in Outcome
    <3>1. emitted[c] \in Seq(Outcome) /\ Len(emitted[c]) = 1
      BY <1>0, <2>2 DEF Reported, ControlOK
    <3>2. emitted[c] # <<>> /\ emitted[c][1] \in Outcome
      BY <3>1
    <3> QED
      BY <3>2 DEF Outcomes
  <2>5. (IF pc[c] = "finished" THEN reply[c] ELSE "none")' = Gate!Says(Outcomes[c])
    <3>1. reply[c] = Gate!Says(emitted[c][1])
      BY <2>2, <2>4 DEF Reported, Describes, Gate!Says
    <3> QED
      BY <2>2, <2>4, <3>1
  <2>6. /\ Phases' = [Phases EXCEPT ![c] = "answered"]
        /\ Replies' = [Replies EXCEPT ![c] = Gate!Says(Outcomes[c])]
    BY <1>0, <2>1, <2>3, <2>5, GateView
  <2>7. UNCHANGED <<Verdicts, Outcomes>>
    BY <2>2 DEF Verdicts, Verdict, Outcomes
  <2> QED
    BY <1>a, <2>2, <2>3, <2>6, <2>7 DEF Gate!Answer
<1>10. ASSUME NEW f, EditPolicy(f) \/ EditSecrets(f) PROVE [Gate!Next]_(Gate!vars)
  BY <1>10, GateBlind
  DEF EditPolicy, EditSecrets, control, Verdicts, Verdict, Phases, Phase, Outcomes, Replies
<1>11. CASE Crash
  <2> DEFINE lost == {c \in Call : pc[c] \notin {"idle"} \cup Finished}
  <2>1. /\ pc' = [c \in Call |-> IF c \in lost THEN "crashed" ELSE pc[c]]
        /\ UNCHANGED <<basis, tool, emitted, reply, approvals, auditLog>>
    BY <1>11 DEF Crash
  <2>2. \A c \in Call : c \in lost => pc[c] # "finished"
    BY DEF Finished
  <2>3. lost \in SUBSET {c \in Call : Phases[c] # "answered"}
    BY <2>2 DEF Phases, Phase
  <2> HIDE DEF lost
  <2>4. Phases' = [c \in Call |-> IF c \in lost THEN "lost" ELSE Phases[c]]
    <3>1. \A c \in Call : Phase(c)' = IF c \in lost THEN "lost" ELSE Phase(c)
      BY <2>1 DEF Phase
    <3> QED
      BY <3>1 DEF Phases
  <2>5. UNCHANGED <<Verdicts, Outcomes>>
    BY <2>1 DEF Verdicts, Verdict, Outcomes
  <2>6. UNCHANGED Replies
    BY <2>1, <2>2 DEF Replies
  <2>7. Gate!Crash
    BY <2>1, <2>3, <2>4, <2>5, <2>6 DEF Gate!Crash
  <2> QED
    BY <2>7 DEF Gate!Next
<1>12. CASE UNCHANGED vars
  BY <1>12, GateBlind DEF vars, control, Verdicts, Verdict, Phases, Phase, Outcomes, Replies
<1>13. ASSUME NEW c \in Call, NEW t \in Tool, Unidentified(c, t) PROVE [Gate!Next]_(Gate!vars)
  <2>1. Alone(c) /\ Throw(c) /\ IdentityMayThrow
    BY <1>0, <1>13, ControlLocal DEF Unidentified, Same, TypeOK
  <2>2. /\ pc[c] = "idle" /\ basis[c] = None /\ basis' = basis
        /\ UNCHANGED <<approvals, auditLog>>
    BY <1>0, <1>13 DEF Unidentified, CallInv, Undecided
  <2>3. Verdict(c) = "none" /\ Verdict(c)' = "none"
    BY <2>2, VerdictIs
  <2>4. Verdicts[c] = "none" /\ UNCHANGED Verdicts
    <3>1. Verdicts' = [Verdicts EXCEPT ![c] = Verdicts[c]]
      BY <1>0, <2>1, <2>3, GateView DEF Verdicts
    <3> QED
      BY <2>3, <3>1 DEF Verdicts
  <2>5. Phases[c] = "waiting"
    BY <2>2 DEF Phases, Phase
  <2>6. /\ Phases' = [Phases EXCEPT ![c] = "answered"]
        /\ Replies' = [Replies EXCEPT ![c] = "threw"] /\ UNCHANGED Outcomes
    BY <1>0, <2>1, GateThrows
  <2> QED
    BY <1>a, <2>1, <2>2, <2>4, <2>5, <2>6 DEF Gate!Escape
<1> QED
  BY <1>1, <1>2, <1>3, <1>4, <1>5, <1>6, <1>7, <1>8, <1>9, <1>10, <1>11, <1>12, <1>13
  DEF Next, Step

\* KeepsGate (broker.ts, pipeline.ts): however calls, edits of the two files and restarts
\* interleave, the broker is a gate: each call is decided once by the rule in force, runs at
\* most once and only if permitted, and is logged before it is answered by what it did.
THEOREM ImplementsGate == Spec => KeepsGate
<1>1. Init => Gate!Init
  <2> SUFFICES ASSUME Init PROVE Gate!Init
    OBVIOUS
  <2>1. \A c \in Call : pc[c] = "idle" /\ basis[c] = None /\ emitted[c] = <<>>
    BY DEF Init
  <2>2. \A c \in Call : Verdict(c) = "none"
    BY <2>1, VerdictIs
  <2>3. \A c \in Call : Phase(c) = "waiting"
    BY <2>1 DEF Phase
  <2> QED
    BY <2>1, <2>2, <2>3 DEF Init, Gate!Init, Verdicts, Phases, Outcomes, Replies
<1> DEFINE AllUndecided == \A c \in Call : UndecidedInv(c)
<1>2. Init => AllUndecided
  BY DEF Init, UndecidedInv
<1>3. IInv /\ AllUndecided /\ [Next]_vars => AllUndecided'
  BY UndecidedStep
<1>4. IInv /\ IInv' /\ AllUndecided /\ [Next]_vars => [Gate!Next]_(Gate!vars)
  BY GateStep
<1> QED
  BY <1>1, <1>2, <1>3, <1>4, BrokerInvariant, PTL DEF Spec, KeepsGate, Gate!Spec
=============================================================================
