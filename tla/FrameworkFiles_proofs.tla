------------------------ MODULE FrameworkFiles_proofs ------------------------
(***************************************************************************)
(* For every set of hosts, projects and agents, and however the steps of a *)
(* command, of refreshes and of the files' owner interleave: uninstalled   *)
(* files stay empty, the agent last installed acts, and what an owner      *)
(* wrote is kept.                                                          *)
(***************************************************************************)
EXTENDS FrameworkFiles, SequenceTheorems, FiniteSetTheorems, FunctionTheorems,
        WellFoundedInduction, TLAPS

Tasks == [op : {"merge", "clean", "claudeMd", "docs", "env"}, host : Host, at : Where]
Job == [by : Command, me : Entry, dir : Dir, scope : Scope, done : BOOLEAN,
        found : SUBSET (Host \cup {"openclaw"})]

\* The type of what the invariants below speak of; an absent file has no entry.
Typed ==
    /\ file \in [Place -> File]
    /\ \A p \in Place : file[p].state = "absent" => file[p].entry = None
    /\ backup \in [Where -> Nat] /\ kept \in [Place -> Nat] /\ used \in [Counted -> Nat]
    /\ key \in [Where -> Agent \cup {None}] /\ envFile \in [Dir -> Entry \cup {None}]
    /\ config \in [agent : Entry \cup {None}, last : Entry \cup {None}]
    /\ job \in Job \cup {None} /\ todo \in Seq(Tasks)
    /\ (todo # <<>> => job \in Job)
    /\ (seen # None => /\ seen \in File /\ (seen.state = "absent" => seen.entry = None)
                        /\ todo # <<>> /\ Head(todo).op \in {"merge", "clean"})
    /\ (fetching # None => fetching \in [dir : Dir, me : Entry])
    /\ left \subseteq Place /\ gone \subseteq Dir

\* While a project is uninstalled nothing names an agent that a refresh of it could add.
Emptied ==
    gone # {} =>
        /\ todo = <<>> /\ config.agent = None /\ config.last = None
        /\ \A d \in gone : envFile[d] = None

\* What is kept is in the file, and in what was read of it.
Owned ==
    /\ \A p \in Place : kept[p] <= used["edit"] /\ kept[p] <= file[p].user
    /\ seen # None => kept[InHand] <= seen.user

In(t, s) == \E i \in 1 .. Len(s) : s[i] = t

\* The command's agent is the one that the machine acts as.
Named == (todo # <<>> \/ job # None) /\ (job.by = "onboard" => config.agent = None)
Agrees == Named => Or(config.agent, config.last) = job.me /\ key[job.me.path] = job.me.agent

\* Claude's and Cursor's files: where the agent's entry goes, and those to clean.
Target == IF job.scope = "user" THEN "home" ELSE job.dir
MayHold(p) == file[p].entry \in {None, job.me}

Planned ==
    \A t \in Tasks : In(t, todo) /\ t.host \in {"claude", "cursor"} =>
        /\ t.op = "merge" => t.at = Target
        /\ t.op = "clean" => job.scope = "user" /\ t.at = job.dir

\* What the command has to do to the files of a host is done or still on its list.
Merged(h) ==
    In(Task("merge", h, Target), todo) \/ <<h, Target>> \in left \/ At(h, Target).entry = job.me
Cleaned(h) ==
    job.scope = "user" =>
        \/ In(Task("clean", h, job.dir), todo)
        \/ <<h, job.dir>> \in left \/ MayHold(<<h, job.dir>>)
Progress ==
    Named /\ (todo # <<>> \/ job.done) =>
        \A h \in {"claude", "cursor"} \cap job.found : Merged(h) /\ Cleaned(h)

\* A file that had no entry when it was read has at most the agent's when it is written.
ReadNothing ==
    Named /\ seen # None /\ Head(todo).op = "clean" /\ Head(todo).host \in {"claude", "cursor"}
          /\ seen.entry = None => MayHold(InHand)

Over == job # None /\ job.done => todo = <<>>
Obeyed == Agrees /\ Planned /\ Progress /\ ReadNothing /\ Over

----------------------------------------------------------------------------
(* Sequences of tasks.                                                     *)

LEMMA InOne == ASSUME NEW t, NEW u PROVE In(t, <<u>>) <=> t = u
BY DEF In

LEMMA InEmpty == ASSUME NEW t PROVE ~In(t, <<>>)
BY DEF In

LEMMA InConcat ==
    ASSUME NEW S, NEW s1 \in Seq(S), NEW s2 \in Seq(S), NEW t
    PROVE  s1 \o s2 \in Seq(S) /\ (In(t, s1 \o s2) <=> In(t, s1) \/ In(t, s2))
<1>1. s1 \o s2 \in Seq(S) /\ Len(s1) \in Nat /\ Len(s2) \in Nat
  BY ConcatProperties, LenProperties
<1>2. ASSUME In(t, s1 \o s2) PROVE In(t, s1) \/ In(t, s2)
  <2>1. PICK i \in 1 .. Len(s1) + Len(s2) : (s1 \o s2)[i] = t
    BY <1>2, ConcatProperties DEF In
  <2>2. CASE i <= Len(s1)
    BY <2>1, <2>2, <1>1, ConcatProperties DEF In
  <2>3. CASE ~(i <= Len(s1))
    <3>1. i - Len(s1) \in 1 .. Len(s2) /\ s2[i - Len(s1)] = t
      BY <2>1, <2>3, <1>1, ConcatProperties
    <3>2. QED
      BY <3>1 DEF In
  <2>4. QED
    BY <2>2, <2>3
<1>3. ASSUME In(t, s1) PROVE In(t, s1 \o s2)
  <2>1. PICK i \in 1 .. Len(s1) : s1[i] = t
    BY <1>3 DEF In
  <2>2. i \in 1 .. Len(s1 \o s2) /\ (s1 \o s2)[i] = t
    BY <2>1, <1>1, ConcatProperties
  <2>3. QED
    BY <2>2 DEF In
<1>4. ASSUME In(t, s2) PROVE In(t, s1 \o s2)
  <2>1. PICK i \in 1 .. Len(s2) : s2[i] = t
    BY <1>4 DEF In
  <2>2. Len(s1) + i \in 1 .. Len(s1 \o s2) /\ (s1 \o s2)[Len(s1) + i] = t
    BY <2>1, <1>1, ConcatProperties
  <2>3. QED
    BY <2>2 DEF In
<1>5. QED
  BY <1>1, <1>2, <1>3, <1>4

LEMMA InTail ==
    ASSUME NEW S, NEW s \in Seq(S), s # <<>>, NEW t
    PROVE  /\ Tail(s) \in Seq(S) /\ Head(s) \in S /\ In(Head(s), s)
           /\ In(t, Tail(s)) => In(t, s)
           /\ In(t, s) => t = Head(s) \/ In(t, Tail(s))
<1>1. /\ Tail(s) \in Seq(S) /\ Head(s) \in S /\ Head(s) = s[1]
      /\ Len(s) \in Nat \ {0} /\ Len(Tail(s)) = Len(s) - 1
      /\ \A i \in 1 .. Len(Tail(s)) : Tail(s)[i] = s[i + 1]
  BY HeadTailProperties, LenProperties, EmptySeq, ElementOfSeq
<1>2. In(Head(s), s)
  BY <1>1 DEF In
<1>3. ASSUME In(t, Tail(s)) PROVE In(t, s)
  <2>1. PICK i \in 1 .. Len(Tail(s)) : Tail(s)[i] = t
    BY <1>3 DEF In
  <2>2. i + 1 \in 1 .. Len(s) /\ s[i + 1] = t
    BY <2>1, <1>1
  <2>3. QED
    BY <2>2 DEF In
<1>4. ASSUME In(t, s), t # Head(s) PROVE In(t, Tail(s))
  <2>1. PICK i \in 1 .. Len(s) : s[i] = t
    BY <1>4 DEF In
  <2>2. i - 1 \in 1 .. Len(Tail(s)) /\ Tail(s)[i - 1] = t
    BY <2>1, <1>1, <1>4
  <2>3. QED
    BY <2>2 DEF In
<1>5. QED
  BY <1>1, <1>2, <1>3, <1>4

----------------------------------------------------------------------------
(* What a command has to write.                                            *)

LEMMA TaskIs ==
    ASSUME NEW op \in {"merge", "clean", "claudeMd", "docs", "env"}, NEW h \in Host, NEW w \in Where
    PROVE  /\ Task(op, h, w) \in Tasks /\ <<Task(op, h, w)>> \in Seq(Tasks)
           /\ Task(op, h, w).op = op /\ Task(op, h, w).host = h /\ Task(op, h, w).at = w
BY DEF Task, Tasks

LEMMA MergeIs ==
    ASSUME NEW h \in Host, NEW found, NEW w \in Where
    PROVE  /\ Merge(h, found, w) \in Seq(Tasks)
           /\ \A t : In(t, Merge(h, found, w)) <=> h \in found /\ t = Task("merge", h, w)
<1>1. CASE h \in found
  BY <1>1, TaskIs, InOne DEF Merge
<1>2. CASE h \notin found
  BY <1>2, InEmpty, EmptySeq DEF Merge
<1>3. QED
  BY <1>1, <1>2

LEMMA CleansAre ==
    ASSUME NEW d \in Dir
    PROVE  /\ cleanProjectScopedEntries(d) \in Seq(Tasks)
           /\ \A t : In(t, cleanProjectScopedEntries(d)) <=>
                     t \in {Task("clean", "claude", d), Task("clean", "cursor", d),
                            Task("clean", "factory", d)}
<1> DEFINE a == Task("clean", "claude", d)
           b == Task("clean", "cursor", d)
           c == Task("clean", "factory", d)
<1>1. a \in Tasks /\ b \in Tasks /\ c \in Tasks
  BY DEF Task, Tasks, Host, Where
<1> HIDE DEF a, b, c
<1>2. <<a, b, c>> \in Seq(Tasks) /\ \A t : In(t, <<a, b, c>>) <=> t \in {a, b, c}
  BY <1>1 DEF In
<1>3. QED
  BY <1>2 DEF cleanProjectScopedEntries, a, b, c

\* The merges and cleanings of Claude's and Cursor's files in a sequence of tasks.
Plans(s, scope, found, d) ==
    LET target == IF scope = "user" THEN "home" ELSE d
    IN  \A h \in {"claude", "cursor"} :
            /\ \A t \in Tasks : In(t, s) /\ t.host = h =>
                  /\ t.op = "merge" => t.at = target
                  /\ t.op = "clean" => scope = "user" /\ t.at = d
            /\ h \in found => In(Task("merge", h, target), s)
            /\ h \in found /\ scope = "user" => In(Task("clean", h, d), s)

LEMMA IdeConfigsPlan ==
    ASSUME NEW scope \in Scope, NEW found, NEW d \in Dir
    PROVE  writeIdeConfigs(scope, found, d) \in Seq(Tasks)
           /\ Plans(writeIdeConfigs(scope, found, d), scope, found, d)
<1>1. d \in Where /\ "home" \in Where /\ Host = {"claude", "cursor", "factory", "codex"}
  BY DEF Where, Host
<1>2. CASE scope = "user"
  <2> DEFINE m1 == Merge("claude", found, "home")
             m2 == Merge("cursor", found, "home")
             m3 == Merge("factory", found, "home")
             c  == cleanProjectScopedEntries(d)
  <2>1. /\ m1 \in Seq(Tasks) /\ m2 \in Seq(Tasks) /\ m3 \in Seq(Tasks) /\ c \in Seq(Tasks)
        /\ \A t : In(t, m1) <=> "claude" \in found /\ t = Task("merge", "claude", "home")
        /\ \A t : In(t, m2) <=> "cursor" \in found /\ t = Task("merge", "cursor", "home")
        /\ \A t : In(t, m3) <=> "factory" \in found /\ t = Task("merge", "factory", "home")
        /\ \A t : In(t, c) <=> t \in {Task("clean", "claude", d), Task("clean", "cursor", d),
                                    Task("clean", "factory", d)}
    BY <1>1, MergeIs, CleansAre
  <2> DEFINE s2 == m1 \o m2
             s3 == s2 \o m3
             s4 == s3 \o c
  <2>5. writeIdeConfigs(scope, found, d) = s4
    BY <1>2 DEF writeIdeConfigs
  <2> HIDE DEF m1, m2, m3, c
  <2>2. s2 \in Seq(Tasks) /\ \A t : In(t, s2) <=> In(t, m1) \/ In(t, m2)
    BY <2>1, InConcat
  <2> HIDE DEF s2
  <2>3. s3 \in Seq(Tasks) /\ \A t : In(t, s3) <=> In(t, s2) \/ In(t, m3)
    BY <2>1, <2>2, InConcat
  <2> HIDE DEF s3
  <2>4. s4 \in Seq(Tasks) /\ \A t : In(t, s4) <=> In(t, s3) \/ In(t, c)
    BY <2>1, <2>3, InConcat
  <2> HIDE DEF s4
  <2>6. \A h \in {"claude", "cursor", "factory"} : \A w \in {"home", d} :
           \A op \in {"merge", "clean"} :
              Task(op, h, w).op = op /\ Task(op, h, w).host = h /\ Task(op, h, w).at = w
    BY <1>1, TaskIs
  <2>7. QED
    BY <1>2, <2>1, <2>2, <2>3, <2>4, <2>5, <2>6 DEF Plans
<1>3. CASE scope = "project"
  <2> DEFINE m1 == Merge("claude", found, d)
             x  == IF "claude" \in found THEN <<Task("claudeMd", "claude", d)>> ELSE <<>>
             m2 == Merge("cursor", found, d)
             m3 == Merge("factory", found, d)
             m4 == Merge("codex", found, d)
  <2>1. /\ m1 \in Seq(Tasks) /\ m2 \in Seq(Tasks) /\ m3 \in Seq(Tasks) /\ m4 \in Seq(Tasks)
        /\ \A t : In(t, m1) <=> "claude" \in found /\ t = Task("merge", "claude", d)
        /\ \A t : In(t, m2) <=> "cursor" \in found /\ t = Task("merge", "cursor", d)
        /\ \A t : In(t, m3) <=> "factory" \in found /\ t = Task("merge", "factory", d)
        /\ \A t : In(t, m4) <=> "codex" \in found /\ t = Task("merge", "codex", d)
    BY <1>1, MergeIs
  <2>2. x \in Seq(Tasks) /\ \A t : In(t, x) => t = Task("claudeMd", "claude", d)
    BY <1>1, TaskIs, InOne, InEmpty, EmptySeq
  <2> DEFINE s2 == m1 \o x
             s3 == s2 \o m2
             s4 == s3 \o m3
             s5 == s4 \o m4
  <2>7. writeIdeConfigs(scope, found, d) = s5
    BY <1>3 DEF writeIdeConfigs
  <2> HIDE DEF m1, x, m2, m3, m4
  <2>3. s2 \in Seq(Tasks) /\ \A t : In(t, s2) <=> In(t, m1) \/ In(t, x)
    BY <2>1, <2>2, InConcat
  <2> HIDE DEF s2
  <2>4. s3 \in Seq(Tasks) /\ \A t : In(t, s3) <=> In(t, s2) \/ In(t, m2)
    BY <2>1, <2>3, InConcat
  <2> HIDE DEF s3
  <2>5. s4 \in Seq(Tasks) /\ \A t : In(t, s4) <=> In(t, s3) \/ In(t, m3)
    BY <2>1, <2>4, InConcat
  <2> HIDE DEF s4
  <2>6. s5 \in Seq(Tasks) /\ \A t : In(t, s5) <=> In(t, s4) \/ In(t, m4)
    BY <2>1, <2>5, InConcat
  <2> HIDE DEF s5
  <2>8. /\ \A h \in Host : Task("merge", h, d).op = "merge" /\ Task("merge", h, d).host = h
                           /\ Task("merge", h, d).at = d
        /\ Task("claudeMd", "claude", d).op = "claudeMd"
    BY <1>1, TaskIs
  <2>9. \A t : In(t, s5) <=> In(t, m1) \/ In(t, x) \/ In(t, m2) \/ In(t, m3) \/ In(t, m4)
    BY <2>3, <2>4, <2>5, <2>6
  <2>10. ASSUME NEW t, In(t, s5)
         PROVE  t.op = "claudeMd" \/ (t.op = "merge" /\ t.at = d)
    <3>1. CASE In(t, x)
      BY <3>1, <2>2, <2>8
    <3>2. CASE ~In(t, x)
      <4>1. \E h \in Host : t = Task("merge", h, d)
        BY <3>2, <1>1, <2>1, <2>9, <2>10
      <4>2. QED
        BY <4>1, <2>8
    <3>3. QED
      BY <3>1, <3>2
  <2>11. \A h \in found \cap {"claude", "cursor"} : In(Task("merge", h, d), s5)
    BY <2>1, <2>9
  <2>12. QED
    BY <1>3, <2>6, <2>7, <2>10, <2>11 DEF Plans
<1>4. QED
  BY <1>2, <1>3 DEF Scope

\* A command merges the agent's entry into the file of each host that was found, and in
\* the user's scope cleans those of the project; it does nothing else to them.
LEMMA TodoPlan ==
    ASSUME NEW c \in Command, NEW scope \in Scope, NEW found, NEW agreed \in BOOLEAN, NEW d \in Dir
    PROVE  /\ Todo(c, scope, found, agreed, d) \in Seq(Tasks)
           /\ Plans(Todo(c, scope, found, agreed, d), scope, IF agreed THEN found ELSE {}, d)
<1> DEFINE ide == writeIdeConfigs(scope, found, d)
           global == writeGlobalFrameworkConfigs
           configs == Configs(scope, found, agreed, d)
           artefacts == Artefacts(scope, found, agreed, d)
           env == Env(d)
           wanted == IF agreed THEN found ELSE {}
           Other(s) == \A t : In(t, s) => ~(t.host \in {"claude", "cursor"} /\ t.op \in {"merge", "clean"})
<1>1. ide \in Seq(Tasks) /\ Plans(ide, scope, found, d)
  BY IdeConfigsPlan
<1>2. global \in Seq(Tasks) /\ Other(global)
  <2>1. "home" \in Where /\ "codex" \in Host
    BY DEF Where, Host
  <2>2. Task("merge", "codex", "home").host = "codex"
    BY <2>1, TaskIs
  <2>3. QED
    BY <2>1, <2>2, TaskIs, InOne DEF writeGlobalFrameworkConfigs
<1>3. artefacts \in Seq(Tasks) /\ Other(artefacts)
  <2>1. d \in Where /\ "claude" \in Host
    BY DEF Where, Host
  <2>2. Task("docs", "claude", d).op = "docs" /\ <<Task("docs", "claude", d)>> \in Seq(Tasks)
    BY <2>1, TaskIs
  <2>3. QED
    BY <2>2, InOne, InEmpty, EmptySeq DEF Artefacts
<1>4. env \in Seq(Tasks) /\ Other(env)
  <2>1. d \in Where /\ "claude" \in Host
    BY DEF Where, Host
  <2>2. Task("env", "claude", d).op = "env" /\ <<Task("env", "claude", d)>> \in Seq(Tasks)
    BY <2>1, TaskIs
  <2>3. QED
    BY <2>2, InOne DEF Env
<1>5. configs \in Seq(Tasks) /\ Plans(configs, scope, wanted, d)
  <2>1. CASE frameworkSetupConsent(found, agreed)
    <3>1. configs = ide \o global /\ agreed
      BY <2>1 DEF Configs, frameworkSetupConsent
    <3> HIDE DEF ide, global, configs
    <3>2. ide \o global \in Seq(Tasks) /\ \A t : In(t, ide \o global) <=> In(t, ide) \/ In(t, global)
      BY <1>1, <1>2, InConcat
    <3>3. QED
      BY <1>1, <1>2, <3>1, <3>2 DEF Plans
  <2>2. CASE ~frameworkSetupConsent(found, agreed)
    <3>1. configs = <<>> /\ wanted = {}
      BY <2>2 DEF Configs, frameworkSetupConsent
    <3>2. QED
      BY <3>1, InEmpty, EmptySeq DEF Plans
  <2>3. QED
    BY <2>1, <2>2
<1> HIDE DEF configs, artefacts, env, wanted
<1>6. \A s1, s2 \in Seq(Tasks) :
         /\ s1 \o s2 \in Seq(Tasks)
         /\ Plans(s1, scope, wanted, d) /\ Other(s2) => Plans(s1 \o s2, scope, wanted, d)
         /\ Other(s1) /\ Plans(s2, scope, wanted, d) => Plans(s1 \o s2, scope, wanted, d)
  <2> SUFFICES ASSUME NEW s1 \in Seq(Tasks), NEW s2 \in Seq(Tasks)
               PROVE  /\ s1 \o s2 \in Seq(Tasks)
                      /\ Plans(s1, scope, wanted, d) /\ Other(s2) => Plans(s1 \o s2, scope, wanted, d)
                      /\ Other(s1) /\ Plans(s2, scope, wanted, d) => Plans(s1 \o s2, scope, wanted, d)
    OBVIOUS
  <2>1. s1 \o s2 \in Seq(Tasks) /\ \A t : In(t, s1 \o s2) <=> In(t, s1) \/ In(t, s2)
    BY InConcat
  <2>2. QED
    BY <2>1 DEF Plans
<1>7. CASE c = "install"
  <2> DEFINE first == configs \o artefacts
  <2>1. Todo(c, scope, found, agreed, d) = first \o env
    BY <1>7 DEF Todo, installCommand, configs, artefacts, env
  <2>2. first \in Seq(Tasks) /\ Plans(first, scope, wanted, d)
    BY <1>3, <1>5, <1>6
  <2> HIDE DEF first
  <2>3. first \o env \in Seq(Tasks) /\ Plans(first \o env, scope, wanted, d)
    BY <2>2, <1>4, <1>6
  <2>4. QED
    BY <2>1, <2>3 DEF wanted
<1>8. CASE c = "onboard"
  <2> DEFINE first == env \o configs
  <2>1. Todo(c, scope, found, agreed, d) = first \o artefacts
    BY <1>8 DEF Todo, registerAgentFlow, configs, artefacts, env
  <2>2. first \in Seq(Tasks) /\ Plans(first, scope, wanted, d)
    BY <1>4, <1>5, <1>6
  <2> HIDE DEF first
  <2>3. first \o artefacts \in Seq(Tasks) /\ Plans(first \o artefacts, scope, wanted, d)
    BY <2>2, <1>3, <1>6
  <2>4. QED
    BY <2>1, <2>3 DEF wanted
<1>9. CASE c = "inject"
  <2>1. Todo(c, scope, found, agreed, d) = configs
    BY <1>9 DEF Todo, injectCommand, configs
  <2>2. QED
    BY <2>1, <1>5 DEF wanted
<1>10. QED
  BY <1>7, <1>8, <1>9 DEF Command

----------------------------------------------------------------------------
(* Types.                                                                  *)

LEMMA NoneIsNoEntry == None \notin Entry
BY NoneAssumption DEF Entry, Where

\* What is made of a file is a file: with an entry, or as absent as it was.
LEMMA RewrittenIsFile ==
    ASSUME NEW t \in Tasks, t.op \in {"merge", "clean"}, NEW now \in File, seen \in File,
           now.state = "absent" => now.entry = None, job.me \in Entry
    PROVE  /\ Rewritten(t, now) \in File
           /\ Rewritten(t, now).state = "absent" => Rewritten(t, now).entry = None
<1>1. CASE t.op = "clean"
  <2>1. Rewritten(t, now) = stripAgentvaletFromMcpJson(now, seen)
    BY <1>1 DEF Rewritten
  <2>2. QED
    BY <2>1 DEF stripAgentvaletFromMcpJson, File
<1>2. CASE t.op = "merge" /\ t.host \in {"claude", "cursor"}
  <2>1. Rewritten(t, now) = mergeJsonFile(seen, job.me)
    BY <1>2 DEF Rewritten
  <2>2. QED
    BY <2>1 DEF mergeJsonFile, File
<1>3. CASE t.op = "merge" /\ t.host = "factory"
  <2>1. Rewritten(t, now) = mergeFactoryDroidMcpJson(now, seen, job.me)
    BY <1>3 DEF Rewritten
  <2>2. QED
    BY <2>1 DEF mergeFactoryDroidMcpJson, mergeJsonFile, File
<1>4. CASE t.op = "merge" /\ t.host = "codex"
  <2>1. Rewritten(t, now) = appendCodexConfig(now, seen, job.me)
    BY <1>4 DEF Rewritten
  <2>2. QED
    BY <2>1 DEF appendCodexConfig, File
<1>5. QED
  BY <1>1, <1>2, <1>3, <1>4 DEF Tasks, Host

\* refresh adds an entry of the agent that the machine acts as, and nothing else.
LEMMA Refreshed ==
    ASSUME Typed, NEW now \in File, NEW d \in Dir, now.state = "absent" => now.entry = None
    PROVE  /\ ensureMcpJson(now, d) \in File
           /\ ensureMcpJson(now, d).state = "absent" => ensureMcpJson(now, d).entry = None
           /\ ensureMcpJson(now, d).user = now.user
           /\ (now.state = "broken" <=> ensureMcpJson(now, d).state = "broken")
           /\ \/ ensureMcpJson(now, d).entry = now.entry
              \/ now.entry = None /\ tryResolveAgent(d) # None
                 /\ ensureMcpJson(now, d).entry = tryResolveAgent(d)
<1>1. tryResolveAgent(d) \in Entry \cup {None}
  BY DEF Typed, tryResolveAgent, Or
<1>2. QED
  BY <1>1, NoneIsNoEntry DEF ensureMcpJson, File

LEMMA KeptInIs ==
    ASSUME Typed, NEW f, \A p \in Place : f[p].user \in Nat
    PROVE  /\ KeptIn(f) \in [Place -> Nat]
           /\ \A p \in Place : KeptIn(f)[p] <= kept[p] /\ KeptIn(f)[p] <= f[p].user
BY DEF KeptIn, Typed

LEMMA TypeInit == Init => Typed
<1> SUFFICES ASSUME Init PROVE Typed
  OBVIOUS
<1>1. Absent \in File /\ Absent.entry = None
  BY DEF Absent, File
<1>2. todo \in Seq(Tasks)
  BY EmptySeq DEF Init
<1>3. QED
  BY <1>1, <1>2 DEF Init, Typed

LEMMA TypeClaim ==
    ASSUME Typed, NEW c \in Command, NEW a \in Agent, NEW d \in Dir, NEW scope \in Scope,
           NEW agreed \in BOOLEAN, Claim(c, a, d, scope, agreed)
    PROVE  Typed'
<1> DEFINE me == [agent |-> a, path |-> IF c = "onboard" THEN d ELSE "home"]
<1>1. me \in Entry
  BY DEF Entry, Where
<1>2. /\ job' = [by |-> c, me |-> me, dir |-> d, scope |-> scope, done |-> FALSE,
                 found |-> IF agreed THEN Detected(d) ELSE {}]
      /\ key' = [key EXCEPT ![me.path] = a]
      /\ config' = IF c = "onboard" THEN [config EXCEPT !.last = me]
                                    ELSE [agent |-> me, last |-> me]
  BY DEF Claim
<1>3. Detected(d) \subseteq Host \cup {"openclaw"}
  BY DEF Detected
<1> HIDE DEF me
<1>4. job' \in Job
  BY <1>1, <1>2, <1>3 DEF Job
<1>5. todo' \in Seq(Tasks)
  BY TodoPlan DEF Claim
<1>6. key' \in [Where -> Agent \cup {None}] /\ config' \in [agent : Entry \cup {None}, last : Entry \cup {None}]
  BY <1>1, <1>2 DEF Typed
<1>7. used' \in [Counted -> Nat]
  BY DEF Claim, Count, Typed, Counted
<1>8. todo = <<>> /\ seen = None
  BY DEF Claim, Typed
<1>9. QED
  BY <1>4, <1>5, <1>6, <1>7, <1>8 DEF Claim, Typed, written

\* A step of the command leaves the type of what it has yet to do.
LEMMA TypeDone ==
    ASSUME Typed, todo # <<>>, Done
    PROVE  /\ todo' \in Seq(Tasks) /\ seen' = None
           /\ job \in Job /\ job' \in Job
           /\ job' = [job EXCEPT !.done = Tail(todo) = <<>>] /\ todo' = Tail(todo)
           /\ job'.by = job.by /\ job'.me = job.me /\ job'.dir = job.dir
           /\ job'.scope = job.scope /\ job'.found = job.found
           /\ (job'.done <=> todo' = <<>>)
<1>1. todo' = Tail(todo) /\ seen' = None /\ todo' \in Seq(Tasks)
  BY InTail DEF Done, Typed
<1>2. job \in Job /\ job' = [job EXCEPT !.done = Tail(todo) = <<>>]
  BY DEF Done, Typed
<1>3. (Tail(todo) = <<>>) \in BOOLEAN
  OBVIOUS
<1> DEFINE done == Tail(todo) = <<>>
<1> HIDE DEF done
<1>4. job' = [job EXCEPT !.done = done] /\ done \in BOOLEAN
  BY <1>2, <1>3 DEF done
<1>5. /\ job' \in Job /\ job'.done = done
      /\ job'.by = job.by /\ job'.me = job.me /\ job'.dir = job.dir
      /\ job'.scope = job.scope /\ job'.found = job.found
  BY <1>2, <1>4 DEF Job
<1>6. QED
  BY <1>1, <1>2, <1>5 DEF done

\* Where the task at hand lies.
LEMMA FirstIs ==
    ASSUME Typed, todo # <<>>
    PROVE  Head(todo) \in Tasks /\ InHand \in Place /\ job \in Job
           /\ InHand = <<Head(todo).host, Head(todo).at>>
           /\ file[InHand] = At(Head(todo).host, Head(todo).at) /\ file[InHand] \in File
<1>1. Head(todo) \in Tasks
  BY InTail DEF Typed
<1>2. InHand \in Place
  BY <1>1 DEF InHand, Tasks, Place
<1>3. QED
  BY <1>1, <1>2 DEF InHand, At, Typed

LEMMA TypeWrite == ASSUME Typed, Write PROVE Typed'
<1> DEFINE task == Head(todo)
<1>1. /\ todo # <<>> /\ seen \in File /\ task.op \in {"merge", "clean"}
      /\ task \in Tasks /\ InHand \in Place /\ job.me \in Entry /\ file[InHand] \in File
  BY FirstIs DEF Write, Typed, Job
<1>2. /\ Rewritten(task, file[InHand]) \in File
      /\ Rewritten(task, file[InHand]).state = "absent" => Rewritten(task, file[InHand]).entry = None
  BY <1>1, RewrittenIsFile DEF Typed
<1>3. file' = [file EXCEPT ![InHand] = Rewritten(task, file[InHand])]
  BY DEF Write
<1>4. file' \in [Place -> File] /\ \A p \in Place : file'[p].state = "absent" => file'[p].entry = None
  BY <1>1, <1>2, <1>3 DEF Typed
<1>5. backup' \in [Where -> Nat]
  BY <1>1 DEF Write, backupUnreadable, Typed, File, Tasks
<1>6. left' \subseteq Place
  BY <1>1 DEF Write, Typed
<1>7. todo' \in Seq(Tasks) /\ seen' = None /\ job' \in Job
  BY <1>1, TypeDone DEF Write
<1>8. kept' \in [Place -> Nat]
  <2>1. \A p \in Place : file'[p].user \in Nat
    BY <1>4 DEF File
  <2>2. QED
    BY <2>1, KeptInIs DEF Write
<1>9. QED
  BY <1>4, <1>5, <1>6, <1>7, <1>8 DEF Write, Typed, identity, bounds

\* A write that fails changes no file but perhaps the copy, and is remembered.
LEMMA FailsIs ==
    ASSUME Typed, WriteFails
    PROVE  /\ todo # <<>> /\ Done /\ UNCHANGED <<file, docs, key, config, envFile, fetching, gone, kept>>
           /\ used' \in [Counted -> Nat] /\ used'["edit"] = used["edit"]
           /\ backup' \in [Where -> Nat] /\ left' \subseteq Place /\ left \subseteq left'
           /\ Head(todo).op \in {"merge", "clean"} => InHand \in left'
<1>1. todo # <<>> /\ Head(todo) \in Tasks /\ InHand \in Place
  BY FirstIs DEF WriteFails
<1>2. used' \in [Counted -> Nat] /\ used'["edit"] = used["edit"]
  BY DEF WriteFails, Count, Typed, Counted
<1>3. backup' \in [Where -> Nat]
  <2>1. CASE backup' = backup
    BY <2>1 DEF Typed
  <2>2. CASE backup' # backup
    <3>1. seen # None /\ backup' = backupUnreadable(Head(todo))
      BY <2>2 DEF WriteFails
    <3>2. QED
      BY <1>1, <3>1 DEF backupUnreadable, Typed, File, Tasks
  <2>3. QED
    BY <2>1, <2>2
<1>4. left' \subseteq Place /\ left \subseteq left' /\ (Head(todo).op \in {"merge", "clean"} => InHand \in left')
  BY <1>1 DEF WriteFails, Typed
<1>5. QED
  BY <1>1, <1>2, <1>3, <1>4 DEF WriteFails, identity

\* The steps of a command that change neither the configuration files nor who it acts as.
LEMMA TypeOtherTask ==
    ASSUME Typed, todo # <<>>, Done,
           UNCHANGED <<file, key, config, fetching, gone, kept>>,
           envFile' \in [Dir -> Entry \cup {None}], backup' \in [Where -> Nat],
           used' \in [Counted -> Nat], left' \subseteq Place
    PROVE  Typed'
<1>1. todo' \in Seq(Tasks) /\ seen' = None /\ job' \in Job
  BY TypeDone
<1>2. QED
  BY <1>1 DEF Typed

LEMMA TypeEdit ==
    ASSUME Typed, NEW p \in Edited, NEW s \in {"readable", "broken"}, NEW under \in BOOLEAN,
           Edit(p, s, under)
    PROVE  /\ Typed' /\ p \in Place /\ used["edit"] \in Nat /\ used'["edit"] = used["edit"] + 1
           /\ \A q \in Place : q # p => file'[q] = file[q]
           /\ file'[p].state = s /\ file'[p].user = used["edit"] + 1 /\ file'[p].entry = file[p].entry
<1>1. p \in Place
  BY BoundsAssumption DEF Place
<1>2. used["edit"] \in Nat /\ used' \in [Counted -> Nat] /\ used'["edit"] = used["edit"] + 1
  BY DEF Edit, Count, Typed, Counted
<1> DEFINE new == [file[p] EXCEPT !.state = s, !.user = used["edit"] + 1, !.under = under]
<1>3. file' = [file EXCEPT ![p] = new]
  BY DEF Edit
<1>4. file[p] \in File /\ used["edit"] + 1 \in Nat
  BY <1>1, <1>2 DEF Typed
<1>5. new \in File /\ new.state = s /\ new.user = used["edit"] + 1 /\ new.entry = file[p].entry
  BY <1>4 DEF File
<1> HIDE DEF new
<1>6. /\ file' \in [Place -> File] /\ \A q \in Place : file'[q].state = "absent" => file'[q].entry = None
      /\ file'[p] = new /\ \A q \in Place : q # p => file'[q] = file[q]
  BY <1>1, <1>3, <1>5 DEF Typed
<1>7. kept' \in [Place -> Nat]
  <2>1. PICK n : kept' = [kept EXCEPT ![p] = n] /\ n \in {kept[p], used["edit"] + 1}
    BY DEF Edit
  <2>2. n \in Nat
    BY <1>1, <1>2, <2>1 DEF Typed
  <2>3. QED
    BY <2>1, <2>2 DEF Typed
<1>8. QED
  BY <1>1, <1>2, <1>5, <1>6, <1>7 DEF Edit, Typed, identity, command

\* uninstall leaves in a file what its owner wrote, except under Codex's block; one that it
\* can read keeps no entry.
LEMMA Stripped ==
    ASSUME NEW now \in File, now.state = "absent" => now.entry = None
    PROVE  /\ stripMcpJson(now) \in File /\ stripCodexTomlAt(now) \in File
           /\ stripMcpJson(now).state = now.state /\ stripMcpJson(now).user = now.user
           /\ stripCodexTomlAt(now).state = now.state
           /\ stripCodexTomlAt(now).user = now.user \/ now.under
           /\ stripCodexTomlAt(now).entry = None
           /\ now.state # "broken" => stripMcpJson(now).entry = None
           /\ stripMcpJson(now).entry \in {None, now.entry}
BY DEF stripMcpJson, stripAgentvaletFromMcpJson, stripCodexTomlAt, File

LEMMA UninstallLeaves ==
    ASSUME Typed, NEW d \in Dir, cleanLocally(d)
    PROVE  \A p \in Place :
              /\ file'[p] \in File /\ file'[p].state = file[p].state
              /\ file'[p].user = file[p].user \/ CutsWithBlock(p)
              /\ file'[p].entry \in {None, file[p].entry}
              /\ p \in Host \X {"home", d} => p \in left' \/ file'[p].entry = None
              /\ p \notin Host \X {"home", d} => file'[p] = file[p] /\ (p \in left => p \in left')
<1> SUFFICES ASSUME NEW p \in Place
             PROVE  /\ file'[p] \in File /\ file'[p].state = file[p].state
                    /\ file'[p].user = file[p].user \/ CutsWithBlock(p)
                    /\ file'[p].entry \in {None, file[p].entry}
                    /\ p \in Host \X {"home", d} => p \in left' \/ file'[p].entry = None
                    /\ p \notin Host \X {"home", d} => file'[p] = file[p] /\ (p \in left => p \in left')
  OBVIOUS
<1> DEFINE here == Host \X {"home", d}
<1>1. PICK failed \in SUBSET {q \in here : file[q].entry # None /\ used["fail"] < limits["fail"]} :
         /\ file' = [q \in Place |-> IF q \notin here \/ q \in failed THEN file[q]
                                   ELSE IF q[1] = "codex" THEN stripCodexTomlAt(file[q])
                                   ELSE stripMcpJson(file[q])]
         /\ left' = {q \in here : q[1] # "codex" /\ file[q].state = "broken"}
                    \cup failed \cup {q \in left : q \notin here}
  BY DEF cleanLocally
<1>2. file[p] \in File /\ (file[p].state = "absent" => file[p].entry = None)
  BY DEF Typed
<1>3. CASE p \notin here
  BY <1>1, <1>2, <1>3
<1>4. CASE p \in here /\ p \in failed
  BY <1>1, <1>2, <1>4
<1>5. CASE p \in here /\ p \notin failed /\ p[1] = "codex"
  <2>1. file'[p] = stripCodexTomlAt(file[p])
    BY <1>1, <1>5
  <2>2. QED
    BY <1>2, <1>5, <2>1, Stripped DEF CutsWithBlock
<1>6. CASE p \in here /\ p \notin failed /\ p[1] # "codex"
  <2>1. file'[p] = stripMcpJson(file[p])
    BY <1>1, <1>6
  <2>2. QED
    BY <1>1, <1>2, <1>6, <2>1, Stripped DEF File
<1>7. QED
  BY <1>3, <1>4, <1>5, <1>6

LEMMA TypeClean == ASSUME Typed, NEW d \in Dir, cleanLocally(d) PROVE Typed'
<1>1. file' \in [Place -> File] /\ \A p \in Place : file'[p].state = "absent" => file'[p].entry = None
  BY UninstallLeaves DEF cleanLocally, Typed
<1>2. used' \in [Counted -> Nat]
  BY DEF cleanLocally, Count, Typed, Counted
<1>3. left' \subseteq Place
  BY DEF cleanLocally, Typed, Place, Where
<1>4. /\ key' \in [Where -> Agent \cup {None}] /\ envFile' \in [Dir -> Entry \cup {None}]
      /\ config' \in [agent : Entry \cup {None}, last : Entry \cup {None}]
  BY DEF cleanLocally, Typed
<1>5. todo' = <<>> /\ todo' = todo /\ job' = None /\ seen' = None /\ gone' \subseteq Dir
  BY DEF cleanLocally, Typed
<1>6. kept' \in [Place -> Nat]
  <2>1. \A p \in Place : file'[p].user \in Nat
    BY <1>1 DEF File
  <2>2. QED
    BY <2>1, KeptInIs DEF cleanLocally
<1>7. QED
  BY <1>1, <1>2, <1>3, <1>4, <1>5, <1>6 DEF cleanLocally, Typed

\* What a refresh changes of the configuration files: at most Claude's, of its project.
LEMMA Finished ==
    ASSUME Typed, NEW b \in Body, RefreshFinish(b)
    PROVE  \E d \in Dir :
              /\ <<"claude", d>> \in Place
              /\ file' \in {file, [file EXCEPT ![<<"claude", d>>] = ensureMcpJson(file[<<"claude", d>>], d)]}
<1>1. fetching.dir \in Dir
  BY DEF RefreshFinish, Typed
<1>2. <<"claude", fetching.dir>> \in Place
  BY <1>1 DEF Place, Host, Where
<1>3. ensureHook(fetching.dir)
  BY DEF RefreshFinish
<1>4. file' \in {file, [file EXCEPT ![<<"claude", fetching.dir>>] =
                         ensureMcpJson(file[<<"claude", fetching.dir>>], fetching.dir)]}
  BY <1>3 DEF ensureHook
<1>5. QED
  BY <1>1, <1>2, <1>4

LEMMA TypeFinish == ASSUME Typed, NEW b \in Body, RefreshFinish(b) PROVE Typed'
<1>1. PICK d \in Dir :
         /\ <<"claude", d>> \in Place
         /\ file' \in {file, [file EXCEPT ![<<"claude", d>>] = ensureMcpJson(file[<<"claude", d>>], d)]}
  BY Finished
<1>2. file[<<"claude", d>>] \in File
      /\ (file[<<"claude", d>>].state = "absent" => file[<<"claude", d>>].entry = None)
  BY <1>1 DEF Typed
<1>3. /\ ensureMcpJson(file[<<"claude", d>>], d) \in File
      /\ ensureMcpJson(file[<<"claude", d>>], d).state = "absent" =>
            ensureMcpJson(file[<<"claude", d>>], d).entry = None
  BY <1>2, Refreshed
<1> DEFINE new == ensureMcpJson(file[<<"claude", d>>], d)
<1> HIDE DEF new
<1>4. file' \in [Place -> File] /\ \A p \in Place : file'[p].state = "absent" => file'[p].entry = None
  <2>1. CASE file' = file
    BY <2>1 DEF Typed
  <2>2. CASE file' = [file EXCEPT ![<<"claude", d>>] = new]
    BY <1>1, <1>3, <2>2 DEF Typed, new
  <2>3. QED
    BY <1>1, <2>1, <2>2 DEF new
<1>5. fetching' = None
  BY DEF RefreshFinish
<1>6. QED
  BY <1>4, <1>5 DEF RefreshFinish, Typed, identity, command, bounds

LEMMA TypeStep == Typed /\ [Next]_vars => Typed'
<1> SUFFICES ASSUME Typed, [Next]_vars PROVE Typed'
  OBVIOUS
<1>1. ASSUME NEW c \in Command, NEW a \in Agent, NEW d \in Dir, NEW scope \in Scope,
             NEW agreed \in BOOLEAN, Claim(c, a, d, scope, agreed)
      PROVE  Typed'
  BY <1>1, TypeClaim
<1>2. CASE Skip
  BY <1>2, TypeOtherTask DEF Skip, written, identity, bounds, Typed
<1>3. CASE Read
  <2>1. seen' \in File /\ (seen'.state = "absent" => seen'.entry = None)
    BY <1>3, FirstIs DEF Read, Typed
  <2>2. QED
    BY <1>3, <2>1 DEF Read, written, identity, bounds, Typed
<1>4. CASE Write
  BY <1>4, TypeWrite
<1>5. CASE WriteClaudeMd
  BY <1>5, TypeOtherTask DEF WriteClaudeMd, identity, bounds, Typed
<1>6. CASE WriteDocs
  BY <1>6, TypeOtherTask DEF WriteDocs, identity, bounds, Typed
<1>7. CASE WriteEnv
  <2>1. envFile' \in [Dir -> Entry \cup {None}]
    BY <1>7 DEF WriteEnv, Typed, Job
  <2>2. QED
    BY <1>7, <2>1, TypeOtherTask DEF WriteEnv, written, bounds, Typed
<1>8. CASE Crash
  BY <1>8, EmptySeq DEF Crash, written, identity, bounds, Typed
<1>9. ASSUME NEW d \in Dir, RefreshStart(d) PROVE Typed'
  <2>1. tryResolveAgent(d) \in Entry /\ used' \in [Counted -> Nat]
    BY <1>9 DEF RefreshStart, Count, Counted, Typed, tryResolveAgent, Or
  <2>2. QED
    BY <1>9, <2>1 DEF RefreshStart, Typed, written, identity, command
<1>10. ASSUME NEW d \in Dir, cleanLocally(d) PROVE Typed'
  BY <1>10, TypeClean
<1>11. ASSUME NEW d \in Dir, BreakSettings(d) PROVE Typed'
  BY <1>11 DEF BreakSettings, Count, Counted, Typed, identity, command
<1>12. CASE RefreshFails
  BY <1>12 DEF RefreshFails, Typed, written, identity, command, bounds
<1>13. ASSUME NEW b \in Body, RefreshFinish(b) PROVE Typed'
  BY <1>13, TypeFinish
<1>14. ASSUME NEW p \in Edited, NEW s \in {"readable", "broken"}, NEW under \in BOOLEAN,
              Edit(p, s, under)
       PROVE Typed'
  BY <1>14, TypeEdit
<1>15. ASSUME NEW d \in Dir, NEW x \in {"CLAUDE.md", "AGENTS.md"}, EditDoc(d, x) PROVE Typed'
  BY <1>15 DEF EditDoc, Count, Counted, Typed, identity, command
<1>16. CASE UNCHANGED vars
  BY <1>16 DEF vars, written, identity, command, bounds, Typed
<1>17. CASE WriteFails
  BY <1>17, FailsIs, TypeOtherTask DEF Typed
<1>18. QED
  BY <1>1, <1>2, <1>3, <1>4, <1>5, <1>6, <1>7, <1>8, <1>9, <1>10, <1>11, <1>12, <1>13, <1>14,
     <1>15, <1>16, <1>17 DEF Next

LEMMA TypeAlways == Spec => []Typed
<1>1. Typed /\ [Next]_vars => Typed'
  BY TypeStep
<1>2. QED
  BY <1>1, TypeInit, PTL DEF Spec

\* What a refresh leaves, file by file.
LEMMA RefreshedFiles ==
    ASSUME Typed, NEW b \in Body, RefreshFinish(b)
    PROVE  \E d \in Dir : \A p \in Place :
              /\ p # <<"claude", d>> => file'[p] = file[p]
              /\ file'[p].user = file[p].user /\ (file'[p].state = "broken" <=> file[p].state = "broken")
              /\ \/ file'[p].entry = file[p].entry
                 \/ /\ file[p].entry = None /\ p = <<"claude", d>> /\ tryResolveAgent(d) # None
                    /\ file'[p].entry = tryResolveAgent(d)
<1>1. PICK d \in Dir :
         /\ <<"claude", d>> \in Place
         /\ file' \in {file, [file EXCEPT ![<<"claude", d>>] = ensureMcpJson(file[<<"claude", d>>], d)]}
  BY Finished
<1> DEFINE new == ensureMcpJson(file[<<"claude", d>>], d)
<1>2. /\ new.user = file[<<"claude", d>>].user
      /\ (file[<<"claude", d>>].state = "broken" <=> new.state = "broken")
      /\ \/ new.entry = file[<<"claude", d>>].entry
         \/ file[<<"claude", d>>].entry = None /\ tryResolveAgent(d) # None
            /\ new.entry = tryResolveAgent(d)
  BY <1>1, Refreshed DEF Typed
<1> HIDE DEF new
<1>3. CASE file' = file
  BY <1>3
<1>4. CASE file' = [file EXCEPT ![<<"claude", d>>] = new]
  <2>1. file'[<<"claude", d>>] = new /\ \A p \in Place : p # <<"claude", d>> => file'[p] = file[p]
    BY <1>1, <1>4 DEF Typed
  <2>2. QED
    BY <1>2, <2>1
<1>5. QED
  BY <1>1, <1>3, <1>4 DEF new

----------------------------------------------------------------------------
(* What was uninstalled.                                                   *)

LEMMA EmptiedStep ==
    ASSUME Typed, Emptied, UninstallHolds, [Next]_vars
    PROVE  Emptied' /\ UninstallHolds'
<1>1. ASSUME gone' = {} PROVE Emptied' /\ UninstallHolds'
  BY <1>1 DEF Emptied, UninstallHolds
<1>2. ASSUME todo # <<>>, gone' = gone PROVE Emptied' /\ UninstallHolds'
  BY <1>1, <1>2 DEF Emptied
<1>3. ASSUME UNCHANGED <<gone, config, envFile, todo, left>>,
             \A d \in gone : \A p \in Host \X {"home", d} : file'[p].entry = file[p].entry
      PROVE  Emptied' /\ UninstallHolds'
  BY <1>3 DEF Emptied, UninstallHolds
<1>4. \A d \in gone : Host \X {"home", d} \subseteq Place
  BY DEF Typed, Place, Where
<1>5. ASSUME NEW c \in Command, NEW a \in Agent, NEW d \in Dir, NEW scope \in Scope,
             NEW agreed \in BOOLEAN, Claim(c, a, d, scope, agreed)
      PROVE  Emptied' /\ UninstallHolds'
  BY <1>1, <1>5 DEF Claim
<1>6. CASE Skip
  BY <1>2, <1>6 DEF Skip
<1>7. CASE Read
  BY <1>2, <1>7 DEF Read
<1>8. CASE Write
  BY <1>2, <1>8 DEF Write, Typed
<1>9. CASE WriteClaudeMd
  BY <1>2, <1>9 DEF WriteClaudeMd
<1>10. CASE WriteDocs
  BY <1>2, <1>10 DEF WriteDocs
<1>11. CASE WriteEnv
  BY <1>2, <1>11 DEF WriteEnv
<1>12. CASE Crash
  BY <1>2, <1>12 DEF Crash
<1>13. ASSUME NEW d \in Dir, RefreshStart(d) PROVE Emptied' /\ UninstallHolds'
  BY <1>3, <1>13 DEF RefreshStart, written, identity, command
<1>14. ASSUME NEW d \in Dir, cleanLocally(d) PROVE Emptied' /\ UninstallHolds'
  <2>1. /\ gone' = gone \cup {d} /\ todo' = <<>>
        /\ config' = [agent |-> None, last |-> None] /\ envFile' = [envFile EXCEPT ![d] = None]
    BY <1>14 DEF cleanLocally
  <2>2. Emptied'
    BY <2>1 DEF Emptied, Typed
  <2>3. ASSUME NEW g \in gone', NEW p \in Host \X {"home", g}
        PROVE  p \in left' \/ file'[p].entry = None
    <3>1. p \in Place
      BY <2>1, <2>3 DEF Typed, Place, Where
    <3>2. CASE p \in Host \X {"home", d}
      BY <1>14, <3>1, <3>2, UninstallLeaves
    <3>3. CASE p \notin Host \X {"home", d}
      <4>1. g \in gone
        BY <2>1, <2>3, <3>3
      <4>2. p \in left \/ file[p].entry = None
        BY <4>1 DEF UninstallHolds
      <4>3. QED
        BY <1>14, <3>1, <3>3, <4>2, UninstallLeaves
    <3>4. QED
      BY <3>2, <3>3
  <2>4. QED
    BY <2>2, <2>3 DEF UninstallHolds
<1>15. ASSUME NEW d \in Dir, BreakSettings(d) PROVE Emptied' /\ UninstallHolds'
  BY <1>3, <1>15 DEF BreakSettings, identity, command
<1>16. CASE RefreshFails
  BY <1>3, <1>16 DEF RefreshFails, written, identity, command
<1>17. ASSUME NEW b \in Body, RefreshFinish(b) PROVE Emptied' /\ UninstallHolds'
  <2>1. PICK d \in Dir : \A p \in Place :
           \/ file'[p].entry = file[p].entry
           \/ p = <<"claude", d>> /\ tryResolveAgent(d) # None
    BY <1>17, RefreshedFiles
  <2>2. ASSUME NEW g \in gone, NEW p \in Host \X {"home", g}
        PROVE  file'[p].entry = file[p].entry
    <3>1. CASE p # <<"claude", d>>
      BY <1>4, <2>1, <3>1
    <3>2. CASE p = <<"claude", d>>
      <4>1. g = d
        BY <3>2, HomeAssumption
      <4>2. tryResolveAgent(d) = None
        BY <4>1 DEF Emptied, tryResolveAgent, Or
      <4>3. QED
        BY <1>4, <2>1, <4>2
    <3>3. QED
      BY <3>1, <3>2
  <2>3. QED
    BY <1>3, <1>17, <2>2 DEF RefreshFinish, identity, command
<1>18. ASSUME NEW q \in Edited, NEW s \in {"readable", "broken"}, NEW under \in BOOLEAN,
              Edit(q, s, under)
       PROVE  Emptied' /\ UninstallHolds'
  <2>1. \A p \in Place : file'[p].entry = file[p].entry
    BY <1>18, TypeEdit
  <2>2. QED
    BY <1>3, <1>4, <1>18, <2>1 DEF Edit, identity, command
<1>19. ASSUME NEW d \in Dir, NEW x \in {"CLAUDE.md", "AGENTS.md"}, EditDoc(d, x)
       PROVE  Emptied' /\ UninstallHolds'
  BY <1>3, <1>19 DEF EditDoc, identity, command
<1>20. CASE UNCHANGED vars
  BY <1>3, <1>20 DEF vars, written, identity, command
<1>21. CASE WriteFails
  BY <1>2, <1>21 DEF WriteFails
<1>22. QED
  BY <1>5, <1>6, <1>7, <1>8, <1>9, <1>10, <1>11, <1>12, <1>13, <1>14, <1>15, <1>16, <1>17, <1>18,
     <1>19, <1>20, <1>21 DEF Next

\* UninstallHolds (uninstall.ts): whatever refresh was waiting and whoever edited the files
\* meanwhile, what was uninstalled has no entry until an agent is claimed again.
THEOREM UninstalledStaysEmpty == Spec => []UninstallHolds
<1>1. Init => Emptied /\ UninstallHolds
  BY DEF Init, Emptied, UninstallHolds
<1>2. Typed /\ Emptied /\ UninstallHolds /\ [Next]_vars => (Emptied /\ UninstallHolds)'
  BY EmptiedStep
<1>3. QED
  BY <1>1, <1>2, TypeAlways, PTL DEF Spec

----------------------------------------------------------------------------
(* What the owners of the files wrote.                                     *)

\* What is written of a file has what is kept of it, or a copy has, or what was read was not
\* understood and there is no copy.
LEMMA RewrittenKeeps ==
    ASSUME Typed, Owned, Write
    PROVE  \/ Rewritten(Head(todo), file[InHand]).user >= kept[InHand]
           \/ InHand[1] = "factory" /\ backup'[InHand[2]] >= kept[InHand]
           \/ OverwritesUnreadable(InHand)
<1> DEFINE task == Head(todo)
           now == file[InHand]
           new == Rewritten(task, now)
<1>1. /\ task \in Tasks /\ InHand \in Place /\ now \in File
      /\ seen # None /\ seen \in File /\ task.op \in {"merge", "clean"}
      /\ backup \in [Where -> Nat] /\ task.at \in Where
      /\ InHand[1] = task.host /\ InHand[2] = task.at
  BY FirstIs DEF Write, Typed, Tasks, InHand
<1>2. kept[InHand] \in Nat /\ kept[InHand] <= now.user /\ kept[InHand] <= seen.user
      /\ now.user \in Nat /\ seen.user \in Nat
  BY <1>1 DEF Owned, Typed, File
<1>3. CASE task.op = "clean"
  <2>1. new = stripAgentvaletFromMcpJson(now, seen)
    BY <1>3 DEF Rewritten
  <2>2. new.user \in {now.user, seen.user}
    BY <1>1, <2>1 DEF stripAgentvaletFromMcpJson, File
  <2>3. QED
    BY <1>2, <2>2
<1>4. CASE task.op = "merge" /\ task.host \in {"claude", "cursor"}
  <2>1. new = mergeJsonFile(seen, job.me)
    BY <1>4 DEF Rewritten
  <2>2. seen.state = "broken" \/ new.user = seen.user
    BY <2>1 DEF mergeJsonFile
  <2>3. QED
    BY <1>1, <1>2, <1>4, <2>2 DEF OverwritesUnreadable
<1>5. CASE task.op = "merge" /\ task.host = "factory"
  <2>1. new = mergeFactoryDroidMcpJson(now, seen, job.me)
    BY <1>5 DEF Rewritten
  <2>2. CASE seen.state = "broken"
    <3>1. backup'[InHand[2]] = seen.user
      BY <1>1, <1>5, <2>2 DEF Write, backupUnreadable
    <3>2. QED
      BY <1>1, <1>2, <1>5, <3>1
  <2>3. CASE seen.state # "broken"
    <3>1. new.user \in {now.user, seen.user}
      BY <2>1, <2>3 DEF mergeFactoryDroidMcpJson, mergeJsonFile
    <3>2. QED
      BY <1>2, <3>1
  <2>4. QED
    BY <2>2, <2>3
<1>6. CASE task.op = "merge" /\ task.host = "codex"
  <2>1. new = appendCodexConfig(now, seen, job.me)
    BY <1>6 DEF Rewritten
  <2>2. new.user = now.user
    BY <1>1, <2>1 DEF appendCodexConfig, File
  <2>3. QED
    BY <1>2, <2>2
<1>7. QED
  BY <1>1, <1>3, <1>4, <1>5, <1>6 DEF Tasks, Host

\* After a step that counts as kept only what the files still contain.
LEMMA OwnedLess ==
    ASSUME Typed, Owned, kept' = KeptIn(file'), used'["edit"] = used["edit"], seen' = None,
           \A p \in Place : file'[p] \in File
    PROVE  Owned'
<1>1. \A p \in Place : file'[p].user \in Nat
  BY DEF File
<1>2. \A p \in Place : kept'[p] <= kept[p] /\ kept'[p] <= file'[p].user /\ kept'[p] \in Nat
  BY <1>1, KeptInIs
<1>3. \A p \in Place : kept[p] <= used["edit"] /\ kept[p] \in Nat /\ used["edit"] \in Nat
  BY DEF Owned, Typed, Counted
<1>4. QED
  BY <1>2, <1>3 DEF Owned

LEMMA OwnedEdit ==
    ASSUME Typed, Owned, NEW p \in Edited, NEW s \in {"readable", "broken"}, NEW under \in BOOLEAN,
           Edit(p, s, under)
    PROVE  Owned'
<1>1. /\ p \in Place /\ used["edit"] \in Nat /\ used'["edit"] = used["edit"] + 1
      /\ \A q \in Place : q # p => file'[q] = file[q]
      /\ file'[p].user = used["edit"] + 1
  BY TypeEdit
<1>2. PICK n : /\ kept' = [kept EXCEPT ![p] = n]
               /\ n \in {kept[p], used["edit"] + 1}
               /\ todo # <<>> => n = kept[p]
  BY DEF Edit
<1>3. \A q \in Place : kept[q] \in Nat /\ kept[q] <= used["edit"] /\ kept[q] <= file[q].user
  BY DEF Typed, Owned
<1>4. kept'[p] = n /\ n \in Nat /\ n <= used["edit"] + 1 /\ \A q \in Place : q # p => kept'[q] = kept[q]
  BY <1>1, <1>2, <1>3 DEF Typed
<1>5. ASSUME NEW q \in Place PROVE kept'[q] <= used'["edit"] /\ kept'[q] <= file'[q].user
  <2>1. CASE q # p
    BY <1>1, <1>3, <1>4, <2>1
  <2>2. CASE q = p
    BY <1>1, <1>4, <2>2
  <2>3. QED
    BY <2>1, <2>2
<1>6. ASSUME seen' # None PROVE (kept[InHand] <= seen.user)'
  <2>1. seen # None /\ seen' = seen /\ todo' = todo /\ todo # <<>>
    BY <1>6 DEF Edit, command, Typed
  <2>2. InHand \in Place /\ InHand' = InHand /\ kept[InHand] <= seen.user
    BY <2>1, FirstIs DEF InHand, Owned
  <2>3. kept'[InHand] = kept[InHand]
    BY <1>2, <1>4, <2>1, <2>2
  <2>4. QED
    BY <2>1, <2>2, <2>3
<1>7. QED
  BY <1>5, <1>6 DEF Owned

LEMMA OwnedStep == ASSUME Typed, Owned, [Next]_vars PROVE Owned'
<1>1. ASSUME UNCHANGED kept, used'["edit"] = used["edit"],
             seen' = None \/ (seen' = seen /\ todo' = todo),
             \A p \in Place : file'[p].user = file[p].user
      PROVE  Owned'
  BY <1>1 DEF Owned, InHand
<1>2. \A c \in Counted \ {"edit"} : Count(c) => used'["edit"] = used["edit"]
  BY DEF Count, Typed, Counted
<1>3. ASSUME NEW c \in Command, NEW a \in Agent, NEW d \in Dir, NEW scope \in Scope,
             NEW agreed \in BOOLEAN, Claim(c, a, d, scope, agreed)
      PROVE  Owned'
  <2>1. seen = None /\ seen' = seen /\ used'["edit"] = used["edit"]
    BY <1>2, <1>3 DEF Claim, Typed, Counted
  <2>2. QED
    BY <1>1, <1>3, <2>1 DEF Claim, written
<1>4. CASE Skip
  BY <1>1, <1>4 DEF Skip, Done, written, bounds
<1>5. CASE Read
  <2>1. seen' = file[InHand] /\ InHand' = InHand /\ InHand \in Place
    BY <1>5, FirstIs DEF Read, InHand
  <2>2. QED
    BY <1>5, <2>1 DEF Read, Owned, written, bounds
<1>6. CASE Write
  <2>1. \A p \in Place : file'[p] \in File
    BY <1>6, TypeWrite DEF Typed
  <2>2. QED
    BY <1>6, <2>1, OwnedLess DEF Write, Done, bounds
<1>7. CASE WriteClaudeMd
  BY <1>1, <1>7 DEF WriteClaudeMd, Done, bounds
<1>8. CASE WriteDocs
  BY <1>1, <1>8 DEF WriteDocs, Done, bounds
<1>9. CASE WriteEnv
  BY <1>1, <1>9 DEF WriteEnv, Done, written, bounds
<1>10. CASE Crash
  BY <1>1, <1>10 DEF Crash, written, bounds
<1>11. ASSUME NEW d \in Dir, RefreshStart(d) PROVE Owned'
  BY <1>1, <1>2, <1>11 DEF RefreshStart, written, command, Counted
<1>12. ASSUME NEW d \in Dir, cleanLocally(d) PROVE Owned'
  <2>1. used'["edit"] = used["edit"]
    BY <1>2, <1>12 DEF cleanLocally, Counted
  <2>2. (\A p \in Place : file'[p] \in File) /\ seen' = None /\ kept' = KeptIn(file')
    BY <1>12, UninstallLeaves DEF cleanLocally, Typed
  <2>3. QED
    BY <2>1, <2>2, OwnedLess
<1>13. ASSUME NEW d \in Dir, BreakSettings(d) PROVE Owned'
  BY <1>1, <1>2, <1>13 DEF BreakSettings, command, Counted
<1>14. CASE RefreshFails
  BY <1>1, <1>14 DEF RefreshFails, written, command, bounds
<1>15. ASSUME NEW b \in Body, RefreshFinish(b) PROVE Owned'
  <2>1. \A p \in Place : file'[p].user = file[p].user
    BY <1>15, RefreshedFiles
  <2>2. QED
    BY <1>1, <1>15, <2>1 DEF RefreshFinish, command, bounds
<1>16. ASSUME NEW p \in Edited, NEW s \in {"readable", "broken"}, NEW under \in BOOLEAN,
              Edit(p, s, under)
       PROVE Owned'
  BY <1>16, OwnedEdit
<1>17. ASSUME NEW d \in Dir, NEW x \in {"CLAUDE.md", "AGENTS.md"}, EditDoc(d, x) PROVE Owned'
  BY <1>1, <1>2, <1>17 DEF EditDoc, command, Counted
<1>18. CASE UNCHANGED vars
  BY <1>1, <1>18 DEF vars, written, command, bounds
<1>19. CASE WriteFails
  <2>1. UNCHANGED <<file, kept>> /\ used'["edit"] = used["edit"] /\ seen' = None
    BY <1>19, FailsIs DEF Done
  <2>2. QED
    BY <1>1, <2>1
<1>20. QED
  BY <1>3, <1>4, <1>5, <1>6, <1>7, <1>8, <1>9, <1>10, <1>11, <1>12, <1>13, <1>14, <1>15, <1>16,
     <1>17, <1>18, <1>19 DEF Next

\* A step leaves what is kept of a file, or loses it in one of the ways that are named.
Preserved(p) ==
    \/ file'[p].user >= kept[p]
    \/ p[1] = "factory" /\ backup'[p[2]] >= kept[p]
    \/ OverwritesUnreadable(p) \/ CutsWithBlock(p)

LEMMA KeptStep == ASSUME Typed, Owned, [Next]_vars, NEW p \in Place PROVE Preserved(p)
<1>1. kept[p] \in Nat /\ kept[p] <= file[p].user /\ kept[p] <= used["edit"]
      /\ file[p] \in File /\ file[p].user \in Nat
  BY DEF Owned, Typed, File
<1>2. CASE file'[p].user = file[p].user
  BY <1>1, <1>2 DEF Preserved
<1>3. CASE Write
  <2> DEFINE new == Rewritten(Head(todo), file[InHand])
  <2>1. InHand \in Place
    BY <1>3, FirstIs DEF Write, Typed
  <2>2. file' = [file EXCEPT ![InHand] = new]
    BY <1>3 DEF Write
  <2>3. \/ new.user >= kept[InHand]
        \/ InHand[1] = "factory" /\ backup'[InHand[2]] >= kept[InHand]
        \/ OverwritesUnreadable(InHand)
    BY <1>3, RewrittenKeeps
  <2> HIDE DEF new
  <2>4. CASE p = InHand
    <3>1. file'[p] = new
      BY <2>1, <2>2, <2>4 DEF Typed
    <3>2. QED
      BY <2>3, <2>4, <3>1 DEF Preserved
  <2>5. CASE p # InHand
    <3>1. file'[p] = file[p]
      BY <2>2, <2>5 DEF Typed
    <3>2. QED
      BY <1>2, <3>1
  <2>6. QED
    BY <2>4, <2>5
<1>4. ASSUME NEW d \in Dir, cleanLocally(d) PROVE Preserved(p)
  <2>1. file'[p].user = file[p].user \/ CutsWithBlock(p)
    BY <1>4, UninstallLeaves
  <2>2. QED
    BY <1>2, <2>1 DEF Preserved
<1>5. ASSUME NEW b \in Body, RefreshFinish(b) PROVE Preserved(p)
  BY <1>2, <1>5, RefreshedFiles
<1>6. ASSUME NEW q \in Edited, NEW s \in {"readable", "broken"}, NEW under \in BOOLEAN,
             Edit(q, s, under)
      PROVE  Preserved(p)
  <2>1. /\ q # p => file'[p] = file[p]
        /\ used["edit"] \in Nat /\ file'[q].user = used["edit"] + 1
    BY <1>6, TypeEdit
  <2>2. CASE q = p
    <3>1. file'[p].user >= kept[p]
      BY <1>1, <2>1, <2>2
    <3>2. QED
      BY <3>1 DEF Preserved
  <2>3. QED
    BY <1>2, <2>1, <2>2
<1>7. ASSUME UNCHANGED file PROVE Preserved(p)
  BY <1>2, <1>7
<1>8. ASSUME NEW c \in Command, NEW a \in Agent, NEW d \in Dir, NEW scope \in Scope,
             NEW agreed \in BOOLEAN, Claim(c, a, d, scope, agreed)
      PROVE  Preserved(p)
  BY <1>7, <1>8 DEF Claim, written
<1>9. CASE Skip \/ Read \/ WriteFails \/ WriteClaudeMd \/ WriteDocs \/ WriteEnv \/ Crash
  BY <1>7, <1>9
     DEF Skip, Read, WriteFails, WriteClaudeMd, WriteDocs, WriteEnv, Crash, written
<1>10. ASSUME NEW d \in Dir, RefreshStart(d) \/ BreakSettings(d) PROVE Preserved(p)
  BY <1>7, <1>10 DEF RefreshStart, BreakSettings, written
<1>11. CASE RefreshFails
  BY <1>7, <1>11 DEF RefreshFails, written
<1>12. ASSUME NEW d \in Dir, NEW x \in {"CLAUDE.md", "AGENTS.md"}, EditDoc(d, x) PROVE Preserved(p)
  BY <1>7, <1>12 DEF EditDoc
<1>13. CASE UNCHANGED vars
  BY <1>7, <1>13 DEF vars, written
<1>14. QED
  BY <1>3, <1>4, <1>5, <1>6, <1>8, <1>9, <1>10, <1>11, <1>12, <1>13 DEF Next

\* UserContentKept (ide.ts, uninstall.ts): what an owner wrote while no command ran stays in
\* the file, or of .factory/mcp.json in its copy, whatever a command read before it wrote and
\* whatever writes failed, until a set-up overwrites an unreadable configuration of Claude or
\* Cursor or uninstall cuts out Codex's block with what follows it.
THEOREM OwnersKeepTheirText == Spec => UserContentKept
<1>1. Init => Owned
  BY DEF Init, Owned, Absent, Counted, Place
<1>2. Typed /\ Owned /\ [Next]_vars => Owned'
  BY OwnedStep
<1>3. Typed /\ Owned /\ [Next]_vars =>
          [\A p \in Place :
              \/ file'[p].user >= kept[p]
              \/ p[1] = "factory" /\ backup'[p[2]] >= kept[p]
              \/ OverwritesUnreadable(p) \/ CutsWithBlock(p)]_vars
  BY KeptStep DEF Preserved
<1>4. QED
  BY <1>1, <1>2, <1>3, TypeAlways, PTL DEF Spec, UserContentKept

----------------------------------------------------------------------------
(* Who acts after a command.                                               *)

LEMMA JobIs ==
    ASSUME Typed, todo # <<>> \/ job # None
    PROVE  job \in Job /\ job.me \in Entry /\ job.me # None /\ job.dir \in Dir
BY NoneIsNoEntry DEF Typed, Job

\* A step that is not the command's, adding at most entries of the command's agent.
LEMMA ObeyedMeanwhile ==
    ASSUME Typed, Obeyed, UNCHANGED <<job, todo, config, key, seen, left>>,
           Named => \A p \in Place : file'[p].entry \in {file[p].entry, job.me}
    PROVE  Obeyed'
<1>1. Named' <=> Named
  BY DEF Named
<1>2. Agrees' /\ Over'
  BY <1>1 DEF Obeyed, Agrees, Over
<1>3. Planned' /\ Target' = Target
  BY DEF Obeyed, Planned, Target, In
<1>4. ASSUME Named, NEW p \in Place
      PROVE  (file[p].entry = job.me => file'[p].entry = job.me) /\ (MayHold(p) => MayHold(p)')
  BY <1>4 DEF MayHold
<1>5. Progress'
  <2> SUFFICES ASSUME Named', (todo # <<>> \/ job.done)', NEW h \in ({"claude", "cursor"} \cap job.found)'
               PROVE  Merged(h)' /\ Cleaned(h)'
    BY DEF Progress
  <2>1. Named /\ Merged(h) /\ Cleaned(h) /\ h \in Host
    BY <1>1 DEF Obeyed, Progress, Host
  <2>2. job.dir \in Where /\ Target \in Where
    BY <2>1, JobIs DEF Named, Target, Where
  <2>3. <<h, Target>> \in Place /\ <<h, job.dir>> \in Place
    BY <2>1, <2>2 DEF Place
  <2>4. Merged(h)'
    BY <1>3, <1>4, <2>1, <2>3 DEF Merged, At, In
  <2>5. Cleaned(h)'
    BY <1>4, <2>1, <2>3 DEF Cleaned, In
  <2>6. QED
    BY <2>4, <2>5
<1>6. ReadNothing'
  <2> SUFFICES ASSUME Named', seen' # None, Head(todo').op = "clean",
                      Head(todo').host \in {"claude", "cursor"}, seen'.entry = None
               PROVE  MayHold(InHand)'
    BY DEF ReadNothing
  <2>1. Named /\ MayHold(InHand) /\ InHand' = InHand
    BY <1>1 DEF Obeyed, ReadNothing, InHand
  <2>2. InHand \in Place
    BY FirstIs DEF Typed
  <2>3. QED
    BY <1>4, <2>1, <2>2 DEF MayHold
<1>7. QED
  BY <1>2, <1>3, <1>5, <1>6 DEF Obeyed

\* The end of a task that did what it had to.
LEMMA ObeyedTask ==
    ASSUME Typed, Obeyed, todo # <<>>, Done, UNCHANGED <<config, key>>, left \subseteq left',
           \A p \in Place : p # InHand \/ Head(todo).op \notin {"merge", "clean"} => file'[p] = file[p],
           Named /\ Head(todo).host \in {"claude", "cursor"} =>
               /\ Head(todo).op = "merge" => InHand \in left' \/ file'[InHand].entry = job.me
               /\ Head(todo).op = "clean" => InHand \in left' \/ file'[InHand].entry \in {None, job.me}
    PROVE  Obeyed'
<1>1. /\ job \in Job /\ job' \in Job /\ todo' = Tail(todo) /\ seen' = None
      /\ job'.by = job.by /\ job'.me = job.me /\ job'.dir = job.dir
      /\ job'.scope = job.scope /\ job'.found = job.found
      /\ (job'.done <=> todo' = <<>>)
  BY TypeDone
<1>2. /\ Head(todo) \in Tasks /\ In(Head(todo), todo) /\ InHand \in Place
      /\ InHand = <<Head(todo).host, Head(todo).at>>
      /\ \A t : In(t, todo') => In(t, todo)
      /\ \A t : In(t, todo) => t = Head(todo) \/ In(t, todo')
  BY <1>1, FirstIs, InTail DEF Typed
<1>3. Named' => Named
  BY <1>1 DEF Named
<1>4. Agrees' /\ Over' /\ ReadNothing'
  BY <1>1, <1>3 DEF Obeyed, Agrees, Over, ReadNothing
<1>5. Planned' /\ Target' = Target
  BY <1>1, <1>2 DEF Obeyed, Planned, Target
<1>6. Progress'
  <2> SUFFICES ASSUME Named', NEW h \in {"claude", "cursor"} \cap job.found
               PROVE  Merged(h)' /\ Cleaned(h)'
    BY <1>1 DEF Progress
  <2>1. Named /\ Merged(h) /\ Cleaned(h) /\ h \in Host
    BY <1>3 DEF Obeyed, Progress, Host
  <2>2. job.dir \in Where /\ Target \in Where /\ (job.scope = "user" => Target # job.dir)
    BY <1>1, HomeAssumption DEF Job, Target, Where
  <2>3. <<h, Target>> \in Place /\ <<h, job.dir>> \in Place
    BY <2>1, <2>2 DEF Place
  <2>4. Head(todo).host = h =>
           /\ Head(todo).op = "merge" => Head(todo).at = Target
           /\ Head(todo).op = "clean" => job.scope = "user" /\ Head(todo).at = job.dir
    BY <1>2 DEF Obeyed, Planned
  <2>5. Merged(h)'
    <3>1. CASE In(Task("merge", h, Target), todo')
      BY <1>5, <3>1 DEF Merged
    <3>2. CASE Head(todo) = Task("merge", h, Target)
      <4>1. Head(todo).op = "merge" /\ Head(todo).host = h /\ Head(todo).at = Target
        BY <3>2 DEF Task
      <4>2. <<h, Target>> \in left' \/ file'[<<h, Target>>].entry = job.me
        BY <1>2, <2>1, <4>1
      <4>3. QED
        BY <1>1, <1>5, <4>2 DEF Merged, At
    <3>3. CASE At(h, Target).entry = job.me
      <4>1. CASE InHand # <<h, Target>> \/ Head(todo).op \notin {"merge", "clean"}
        BY <1>1, <1>5, <2>3, <3>3, <4>1 DEF Merged, At
      <4>2. CASE InHand = <<h, Target>> /\ Head(todo).op \in {"merge", "clean"}
        <5>1. Head(todo).host = h /\ Head(todo).at = Target
          BY <1>2, <4>2
        <5>2. Head(todo).op = "merge"
          BY <2>2, <2>4, <4>2, <5>1
        <5>3. <<h, Target>> \in left' \/ file'[<<h, Target>>].entry = job.me
          BY <2>1, <4>2, <5>1, <5>2
        <5>4. QED
          BY <1>1, <1>5, <5>3 DEF Merged, At
      <4>3. QED
        BY <4>1, <4>2
    <3>4. CASE <<h, Target>> \in left
      BY <1>1, <1>5, <3>4 DEF Merged
    <3>5. QED
      BY <1>2, <2>1, <3>1, <3>2, <3>3, <3>4 DEF Merged
  <2>6. Cleaned(h)'
    <3> SUFFICES ASSUME job.scope = "user"
                 PROVE  In(Task("clean", h, job.dir), todo') \/ <<h, job.dir>> \in left'
                        \/ file'[<<h, job.dir>>].entry \in {None, job.me}
      BY <1>1 DEF Cleaned, MayHold
    <3>1. CASE Head(todo) = Task("clean", h, job.dir)
      <4>1. Head(todo).op = "clean" /\ Head(todo).host = h /\ Head(todo).at = job.dir
        BY <3>1 DEF Task
      <4>2. QED
        BY <1>2, <2>1, <4>1
    <3>2. CASE MayHold(<<h, job.dir>>)
      <4>1. CASE InHand # <<h, job.dir>> \/ Head(todo).op \notin {"merge", "clean"}
        BY <2>3, <3>2, <4>1 DEF MayHold
      <4>2. CASE InHand = <<h, job.dir>> /\ Head(todo).op \in {"merge", "clean"}
        <5>1. Head(todo).host = h /\ Head(todo).at = job.dir
          BY <1>2, <4>2
        <5>2. Head(todo).op = "clean"
          BY <2>2, <2>4, <4>2, <5>1
        <5>3. QED
          BY <2>1, <4>2, <5>1, <5>2
      <4>3. QED
        BY <4>1, <4>2
    <3>3. CASE <<h, job.dir>> \in left
      BY <3>3
    <3>4. QED
      BY <1>2, <2>1, <3>1, <3>2, <3>3 DEF Cleaned
  <2>7. QED
    BY <2>5, <2>6
<1>7. QED
  BY <1>4, <1>5, <1>6 DEF Obeyed

LEMMA ObeyedWrite == ASSUME Typed, Obeyed, Write PROVE Obeyed'
<1> DEFINE task == Head(todo)
           now == file[InHand]
           new == Rewritten(task, now)
<1>1. /\ todo # <<>> /\ seen \in File /\ seen # None /\ (seen.state = "absent" => seen.entry = None)
      /\ task \in Tasks /\ task.op \in {"merge", "clean"} /\ InHand \in Place /\ now \in File
      /\ InHand = <<task.host, task.at>>
      /\ file' = [file EXCEPT ![InHand] = new]
      /\ left' = IF task.op = "clean" /\ seen.state = "broken" THEN left \cup {InHand} ELSE left
      /\ UNCHANGED <<config, key>> /\ Done
  BY FirstIs DEF Write, Typed, InHand, identity
<1>2. file'[InHand] = new /\ \A p \in Place : p # InHand => file'[p] = file[p]
  BY <1>1 DEF Typed
<1>3. ASSUME Named, task.host \in {"claude", "cursor"}, task.op = "merge" PROVE new.entry = job.me
  <2>1. new = mergeJsonFile(seen, job.me)
    BY <1>3 DEF Rewritten
  <2>2. QED
    BY <2>1 DEF mergeJsonFile
<1>4. ASSUME Named, task.host \in {"claude", "cursor"}, task.op = "clean"
      PROVE  InHand \in left' \/ new.entry \in {None, job.me}
  <2>1. new = stripAgentvaletFromMcpJson(now, seen)
    BY <1>4 DEF Rewritten
  <2>2. CASE seen.entry = None
    <3>1. now.entry \in {None, job.me}
      BY <1>1, <1>4, <2>2 DEF Obeyed, ReadNothing, MayHold
    <3>2. QED
      BY <2>1, <2>2, <3>1 DEF stripAgentvaletFromMcpJson
  <2>3. CASE seen.state = "broken"
    BY <1>1, <1>4, <2>3
  <2>4. CASE seen.state = "readable" /\ seen.entry # None
    BY <1>1, <2>1, <2>4 DEF stripAgentvaletFromMcpJson, File
  <2>5. QED
    BY <1>1, <2>2, <2>3, <2>4 DEF File
<1> HIDE DEF new
<1>5. left \subseteq left'
  BY <1>1
<1>6. QED
  BY <1>1, <1>2, <1>3, <1>4, <1>5, ObeyedTask

LEMMA ObeyedClaim ==
    ASSUME Typed, NEW c \in Command, NEW a \in Agent, NEW d \in Dir, NEW scope \in Scope,
           NEW agreed \in BOOLEAN, Claim(c, a, d, scope, agreed)
    PROVE  Obeyed'
<1> DEFINE me == [agent |-> a, path |-> IF c = "onboard" THEN d ELSE "home"]
<1>1. /\ job' = [by |-> c, me |-> me, dir |-> d, scope |-> scope, done |-> FALSE,
                 found |-> IF agreed THEN Detected(d) ELSE {}]
      /\ key' = [key EXCEPT ![me.path] = a]
      /\ config' = IF c = "onboard" THEN [config EXCEPT !.last = me]
                                    ELSE [agent |-> me, last |-> me]
      /\ todo' = Todo(c, scope, Detected(d), agreed, d)
      /\ seen' = None
  BY DEF Claim, Typed
<1>2. me \in Entry /\ me.agent = a /\ me.path \in Where
  BY DEF Entry, Where
<1> HIDE DEF me
<1>3. /\ job'.by = c /\ job'.me = me /\ job'.dir = d /\ job'.scope = scope /\ job'.done = FALSE
      /\ job'.found = IF agreed THEN Detected(d) ELSE {}
  BY <1>1
<1>4. Agrees'
  <2>1. key'[me.path] = me.agent
    BY <1>1, <1>2 DEF Typed
  <2>2. ASSUME Named' PROVE Or(config'.agent, config'.last) = me
    <3>1. CASE c = "onboard"
      BY <1>1, <1>3, <2>2, <3>1 DEF Named, Or, Typed
    <3>2. CASE c # "onboard"
      BY <1>1, <3>2 DEF Or
    <3>3. QED
      BY <3>1, <3>2
  <2>3. QED
    BY <1>3, <2>1, <2>2 DEF Agrees
<1>5. Plans(todo', job'.scope, job'.found, job'.dir)
  BY <1>1, <1>3, TodoPlan
<1>6. Target' = IF job'.scope = "user" THEN "home" ELSE job'.dir
  BY DEF Target
<1>7. Planned'
  BY <1>5, <1>6 DEF Planned, Plans
<1>8. Progress'
  BY <1>5, <1>6 DEF Progress, Plans, Merged, Cleaned
<1>9. QED
  BY <1>1, <1>3, <1>4, <1>7, <1>8 DEF Obeyed, ReadNothing, Over

LEMMA ObeyedStep == ASSUME Typed, Obeyed, [Next]_vars PROVE Obeyed'
<1>1. ASSUME UNCHANGED <<job, todo, config, key, seen, left>>,
             \A p \in Place : file'[p].entry = file[p].entry
      PROVE  Obeyed'
  BY <1>1, ObeyedMeanwhile
<1>2. ASSUME todo # <<>>, Done, UNCHANGED <<config, key, left, file>>,
             Head(todo).op \notin {"merge", "clean"}
      PROVE  Obeyed'
  BY <1>2, ObeyedTask
<1>3. ASSUME NEW c \in Command, NEW a \in Agent, NEW d \in Dir, NEW scope \in Scope,
             NEW agreed \in BOOLEAN, Claim(c, a, d, scope, agreed)
      PROVE  Obeyed'
  BY <1>3, ObeyedClaim
<1>4. CASE Skip
  <2>1. file[InHand].entry = None /\ file' = file
    BY <1>4, FirstIs DEF Skip, Typed, written
  <2>2. QED
    BY <1>4, <2>1, ObeyedTask DEF Skip, identity
<1>5. CASE Read
  <2>1. /\ seen = None /\ seen' = file[InHand] /\ InHand' = InHand
        /\ UNCHANGED <<job, todo, config, key, left, file>>
    BY <1>5, FirstIs DEF Read, InHand, written, identity
  <2>2. ReadNothing'
    BY <2>1 DEF ReadNothing, MayHold
  <2>3. Agrees' /\ Planned' /\ Over'
    BY <2>1 DEF Obeyed, Agrees, Named, Planned, Target, In, Over
  <2>4. Progress'
    BY <2>1 DEF Obeyed, Progress, Named, Merged, Cleaned, MayHold, Target, At, In
  <2>5. QED
    BY <2>2, <2>3, <2>4 DEF Obeyed
<1>6. CASE Write
  BY <1>6, ObeyedWrite
<1>7. CASE WriteClaudeMd
  BY <1>2, <1>7 DEF WriteClaudeMd, identity
<1>8. CASE WriteDocs
  BY <1>2, <1>8 DEF WriteDocs, identity
<1>9. CASE WriteEnv
  BY <1>2, <1>9 DEF WriteEnv, written
<1>10. CASE Crash
  <2>1. /\ todo # <<>> /\ todo' = <<>> /\ seen' = None
        /\ UNCHANGED <<job, config, key, left, file>>
    BY <1>10 DEF Crash, written, identity
  <2>2. Named' => Named /\ job # None
    BY <2>1 DEF Named
  <2>3. Agrees' /\ Over' /\ ReadNothing'
    BY <2>1, <2>2 DEF Obeyed, Agrees, Over, ReadNothing
  <2>4. Planned'
    BY <2>1, InEmpty DEF Planned
  <2>5. Progress'
    BY <2>1, <2>2 DEF Obeyed, Over, Progress
  <2>6. QED
    BY <2>3, <2>4, <2>5 DEF Obeyed
<1>11. ASSUME NEW d \in Dir, RefreshStart(d) PROVE Obeyed'
  BY <1>1, <1>11 DEF RefreshStart, written, identity, command
<1>12. ASSUME NEW d \in Dir, cleanLocally(d) PROVE Obeyed'
  <2>1. job' = None /\ todo' = <<>> /\ seen' = None
    BY <1>12 DEF cleanLocally, Typed
  <2>2. ~Named'
    BY <2>1 DEF Named
  <2>3. Planned'
    BY <2>1, InEmpty DEF Planned
  <2>4. QED
    BY <2>1, <2>2, <2>3 DEF Obeyed, Agrees, Progress, ReadNothing, Over
<1>13. ASSUME NEW d \in Dir, BreakSettings(d) PROVE Obeyed'
  BY <1>1, <1>13 DEF BreakSettings, identity, command
<1>14. CASE RefreshFails
  BY <1>1, <1>14 DEF RefreshFails, written, identity, command
<1>15. ASSUME NEW b \in Body, RefreshFinish(b) PROVE Obeyed'
  <2>1. PICK d \in Dir : \A p \in Place :
           \/ file'[p].entry = file[p].entry
           \/ tryResolveAgent(d) # None /\ file'[p].entry = tryResolveAgent(d)
    BY <1>15, RefreshedFiles
  <2>2. ASSUME Named PROVE tryResolveAgent(d) \in {None, job.me}
    <3>1. Or(config.agent, config.last) = job.me /\ job.me # None
      BY <2>2, JobIs DEF Obeyed, Agrees, Named
    <3>2. QED
      BY <3>1 DEF tryResolveAgent, Or
  <2>3. QED
    BY <1>15, <2>1, <2>2, ObeyedMeanwhile DEF RefreshFinish, identity, command
<1>16. ASSUME NEW q \in Edited, NEW s \in {"readable", "broken"}, NEW under \in BOOLEAN,
              Edit(q, s, under)
       PROVE Obeyed'
  <2>1. \A p \in Place : file'[p].entry = file[p].entry
    BY <1>16, TypeEdit
  <2>2. QED
    BY <1>1, <1>16, <2>1 DEF Edit, identity, command
<1>17. ASSUME NEW d \in Dir, NEW x \in {"CLAUDE.md", "AGENTS.md"}, EditDoc(d, x) PROVE Obeyed'
  BY <1>1, <1>17 DEF EditDoc, identity, command
<1>18. CASE UNCHANGED vars
  BY <1>1, <1>18 DEF vars, written, identity, command
<1>19. CASE WriteFails
  <2>1. /\ todo # <<>> /\ Done /\ UNCHANGED <<config, key, file>> /\ left \subseteq left'
        /\ Head(todo).op \in {"merge", "clean"} => InHand \in left'
    BY <1>19, FailsIs
  <2>2. QED
    BY <2>1, ObeyedTask
<1>20. QED
  BY <1>3, <1>4, <1>5, <1>6, <1>7, <1>8, <1>9, <1>10, <1>11, <1>12, <1>13, <1>14, <1>15, <1>16,
     <1>17, <1>18, <1>19 DEF Next

LEMMA ObeyedActs == Typed /\ Obeyed => InstalledAgentActs
<1> SUFFICES ASSUME Typed, Obeyed, job # None, job.done,
                    job.by = "onboard" => config.agent = None,
                    NEW h \in {"claude", "cursor"} \cap job.found,
                    \A w \in {job.dir, "home"} : <<h, w>> \notin left /\ At(h, w).state # "broken"
             PROVE  Effective(h, job.dir) = job.me /\ key[job.me.path] = job.me.agent
  BY DEF InstalledAgentActs
<1>1. Named /\ todo = <<>> /\ job \in Job /\ job.me # None
  BY JobIs DEF Named, Obeyed, Over
<1>2. At(h, Target).entry = job.me /\ (job.scope = "user" => At(h, job.dir).entry \in {None, job.me})
  BY <1>1, InEmpty DEF Obeyed, Progress, Merged, Cleaned, MayHold, At, Target
<1>3. Effective(h, job.dir) = Or(At(h, job.dir).entry, At(h, "home").entry)
  BY DEF Effective
<1>4. Effective(h, job.dir) = job.me
  BY <1>1, <1>2, <1>3 DEF Target, Or
<1>5. QED
  BY <1>1, <1>4 DEF Obeyed, Agrees

\* InstalledAgentActs (ide.ts, refresh.ts): after a command that ran to its end Claude and
\* Cursor act as the agent it claimed, whatever refreshes and edits came between its reads
\* and its writes, in either scope, and that agent's key is the one on the disk.
THEOREM InstalledActs == Spec => []InstalledAgentActs
<1>1. Init => Obeyed
  BY InEmpty DEF Init, Obeyed, Agrees, Named, Planned, Progress, ReadNothing, Over
<1>2. Typed /\ Obeyed /\ [Next]_vars => Obeyed'
  BY ObeyedStep
<1>3. QED
  BY <1>1, <1>2, ObeyedActs, TypeAlways, PTL DEF Spec

----------------------------------------------------------------------------
(* Documents: no text of their user is ever in a block, so none is cut out *)
(* with one.                                                               *)

LEMMA LeastIs ==
    ASSUME NEW n \in Nat, NEW S \in SUBSET (1 .. n), S # {}
    PROVE  /\ Least(S) \in S
           /\ \A j \in S : Least(S) <= j
<1> DEFINE Upto(i) == {j \in S : j <= i}
           Family == {Upto(i) : i \in S}
           R == StrictSubsetOrdering(S)
<1>1. \E F \in Family : \A G \in Family : ~(<<G, F>> \in R)
  <2>1. IsFiniteSet(1 .. n)
    BY FS_Interval
  <2>2. IsFiniteSet(S)
    BY <2>1, FS_Subset
  <2>3. IsWellFoundedOn(R, FiniteSubsetsOf(S))
    BY FS_StrictSubsetOrderingWellFounded
  <2>4. Family \subseteq FiniteSubsetsOf(S)
    BY <2>2, FS_Subset, FS_FiniteSubsetsOfFinite DEF FiniteSubsetsOf
  <2>5. Family # {}
    OBVIOUS
  <2> HIDE DEF Family, R
  <2> QED
    BY <2>3, <2>4, <2>5, WFMin
<1>2. PICK i \in S : \A j \in S : ~(<<Upto(j), Upto(i)>> \in R)
  BY <1>1
<1>3. ASSUME NEW j \in S, j < i PROVE FALSE
  <2>1. i \in Nat /\ j \in Nat /\ \A k \in S : k \in Nat /\ (k <= j => k <= i)
    BY <1>3
  <2>2. Upto(j) \subseteq Upto(i)
    BY <2>1
  <2>3. i \in Upto(i) /\ i \notin Upto(j)
    BY <1>3
  <2>4. Upto(j) \in SUBSET S /\ Upto(i) \in SUBSET S
    OBVIOUS
  <2>5. <<Upto(j), Upto(i)>> \notin R
    BY <1>2
  <2> HIDE DEF Upto
  <2> QED
    BY <2>2, <2>3, <2>4, <2>5 DEF StrictSubsetOrdering
<1>4. \A j \in S : i <= j
  BY <1>3
<1> QED
  BY <1>4 DEF Least

Text == Piece \cup {"missing"}
Users(doc) == Cardinality(Positions(doc, "user"))

\* No text of the user between a start and an end marker.
Clear(doc) ==
    \A i, j, k \in DOMAIN doc :
        i < j /\ j < k /\ doc[i] = "start" /\ doc[k] = "end" => doc[j] # "user"

\* What becomes of a document: no text of its user is lost, and still none is in a block.
Keeps(old, new) == Clear(new) /\ Users(new) >= Users(old)

LEMMA UsersNat == ASSUME NEW doc \in Seq(Text) PROVE Users(doc) \in Nat
<1>1. IsFiniteSet(1 .. Len(doc))
  BY FS_Interval
<1>2. Positions(doc, "user") \subseteq 1 .. Len(doc)
  BY DEF Positions
<1>3. IsFiniteSet(Positions(doc, "user"))
  BY <1>1, <1>2, FS_Subset
<1> QED
  BY <1>3, FS_CardinalityType DEF Users

LEMMA UsersMapped ==
    ASSUME NEW old \in Seq(Text), NEW new \in Seq(Text), NEW m,
           m \in [1 .. Len(old) -> Nat],
           \A i \in Positions(old, "user") : m[i] \in Positions(new, "user"),
           \A i, j \in Positions(old, "user") : m[i] = m[j] => i = j
    PROVE  Users(new) >= Users(old)
<1> DEFINE S == Positions(old, "user")
           T == Positions(new, "user")
           f == [i \in S |-> m[i]]
<1>1. IsFiniteSet(T)
  <2>1. IsFiniteSet(1 .. Len(new)) /\ T \subseteq 1 .. Len(new)
    BY FS_Interval DEF Positions
  <2> QED
    BY <2>1, FS_Subset
<1>2. f \in [S -> T]
  OBVIOUS
<1>3. \A i, j \in S : f[i] = f[j] => i = j
  OBVIOUS
<1> HIDE DEF S, T, f
<1>4. f \in Injection(S, T)
  BY <1>2, <1>3, Fun_IsInj
<1>5. Cardinality(S) <= Cardinality(T)
  BY <1>1, <1>4, FS_Injection
<1>6. Cardinality(S) \in Nat /\ Cardinality(T) \in Nat
  BY UsersNat DEF S, T, Users
<1> QED
  BY <1>5, <1>6 DEF S, T, Users

Cut(doc, s, e) == s \in 1 .. Len(doc) /\ e \in s .. Len(doc)

LEMMA SpliceIs ==
    ASSUME NEW doc \in Seq(Text), NEW s, NEW e, Cut(doc, s, e), NEW x \in Seq(Text)
    PROVE  LET r == Splice(doc, s, e, x)
               n == Len(x)
           IN  /\ r \in Seq(Text)
               /\ Len(r) = Len(doc) + n - (e - s + 1)
               /\ \A i \in 1 .. Len(r) : i < s => r[i] = doc[i]
               /\ \A i \in 1 .. Len(r) : s <= i /\ i < s + n => r[i] = x[i - s + 1]
               /\ \A i \in 1 .. Len(r) : s + n <= i => r[i] = doc[i - n + (e - s + 1)]
<1> DEFINE a == SubSeq(doc, 1, s - 1)
           b == SubSeq(doc, e + 1, Len(doc))
           ax == a \o x
           r == ax \o b
<1>1. a \in Seq(Text) /\ Len(a) = s - 1 /\ \A i \in 1 .. s - 1 : a[i] = doc[i]
  BY DEF Cut
<1>2. b \in Seq(Text) /\ Len(b) = Len(doc) - e /\ \A i \in 1 .. Len(doc) - e : b[i] = doc[e + i]
  BY DEF Cut
<1> HIDE DEF a, b
<1>3. /\ ax \in Seq(Text) /\ Len(ax) = s - 1 + Len(x)
      /\ \A i \in 1 .. Len(ax) : ax[i] = IF i < s THEN doc[i] ELSE x[i - s + 1]
  <2>1. ax \in Seq(Text) /\ Len(ax) = Len(a) + Len(x)
    BY <1>1, ConcatProperties
  <2>2. \A i \in 1 .. Len(a) + Len(x) : ax[i] = IF i <= Len(a) THEN a[i] ELSE x[i - Len(a)]
    BY <1>1, ConcatProperties
  <2>3. Len(a) = s - 1 /\ Len(x) \in Nat /\ s \in Nat
    BY <1>1 DEF Cut
  <2> HIDE DEF ax
  <2>4. ASSUME NEW i \in 1 .. Len(ax) PROVE ax[i] = IF i < s THEN doc[i] ELSE x[i - s + 1]
    <3>1. CASE i < s
      BY <1>1, <2>1, <2>2, <2>3, <3>1
    <3>2. CASE ~(i < s)
      <4>1. ax[i] = x[i - (s - 1)]
        BY <2>1, <2>2, <2>3, <3>2
      <4>2. i - (s - 1) = i - s + 1
        BY <2>3
      <4> QED
        BY <3>2, <4>1, <4>2
    <3> QED
      BY <3>1, <3>2
  <2> QED
    BY <2>1, <2>3, <2>4
<1> HIDE DEF ax
<1>4. /\ r \in Seq(Text) /\ Len(r) = Len(ax) + Len(b)
      /\ \A i \in 1 .. Len(r) : r[i] = IF i <= Len(ax) THEN ax[i] ELSE b[i - Len(ax)]
  <2>1. /\ ax \o b \in Seq(Text) /\ Len(ax \o b) = Len(ax) + Len(b)
        /\ \A i \in 1 .. Len(ax) + Len(b) :
              (ax \o b)[i] = IF i <= Len(ax) THEN ax[i] ELSE b[i - Len(ax)]
    <3>1. ax \in Seq(Text) /\ b \in Seq(Text)
      BY <1>2, <1>3
    <3> QED
      BY <3>1, ConcatProperties
  <2> QED
    BY <2>1
<1>5. r = Splice(doc, s, e, x)
  BY DEF r, ax, a, b, Splice
<1> HIDE DEF r
<1>6. /\ Len(r) = Len(doc) + Len(x) - (e - s + 1)
      /\ \A i \in 1 .. Len(r) : i < s => r[i] = doc[i]
      /\ \A i \in 1 .. Len(r) : s <= i /\ i < s + Len(x) => r[i] = x[i - s + 1]
  <2>1. Len(doc) \in Nat /\ Len(x) \in Nat /\ s \in 1 .. Len(doc) /\ e \in s .. Len(doc)
    BY DEF Cut
  <2>2. Len(r) = s - 1 + Len(x) + (Len(doc) - e)
    BY <1>2, <1>3, <1>4
  <2>3. ASSUME NEW i \in 1 .. Len(r), i < s + Len(x)
        PROVE  r[i] = IF i < s THEN doc[i] ELSE x[i - s + 1]
    <3>1. i \in 1 .. Len(ax) /\ i <= Len(ax)
      BY <1>3, <2>1, <2>3
    <3>2. r[i] = ax[i]
      BY <1>4, <3>1
    <3> QED
      BY <1>3, <3>1, <3>2
  <2>4. Len(r) = Len(doc) + Len(x) - (e - s + 1)
    BY <2>1, <2>2
  <2>5. /\ \A i \in 1 .. Len(r) : i < s => i < s + Len(x)
        /\ \A i \in 1 .. Len(r) : s <= i => ~(i < s)
    BY <2>1, <2>4
  <2> HIDE DEF Cut
  <2> QED
    BY <2>3, <2>4, <2>5
<1>7. \A i \in 1 .. Len(r) : s + Len(x) <= i => r[i] = doc[i - Len(x) + (e - s + 1)]
  <2> SUFFICES ASSUME NEW i \in 1 .. Len(r), s + Len(x) <= i
               PROVE  r[i] = doc[i - Len(x) + (e - s + 1)]
    OBVIOUS
  <2>1. r[i] = b[i - Len(ax)]
    BY <1>3, <1>4 DEF Cut
  <2>2. i - Len(ax) \in 1 .. Len(doc) - e /\ e + (i - Len(ax)) = i - Len(x) + (e - s + 1)
    BY <1>2, <1>3, <1>4 DEF Cut
  <2> QED
    BY <1>2, <2>1, <2>2
<1> QED
  BY <1>4, <1>5, <1>6, <1>7

LEMMA SpliceKeepsUsers ==
    ASSUME NEW doc \in Seq(Text), NEW s, NEW e, Cut(doc, s, e), NEW x \in Seq(Text),
           \A i \in s .. e : doc[i] # "user"
    PROVE  Users(Splice(doc, s, e, x)) >= Users(doc)
<1> DEFINE r == Splice(doc, s, e, x)
           m == [i \in 1 .. Len(doc) |-> IF i < s THEN i ELSE IF i <= e THEN 0 ELSE i + Len(x) - (e - s + 1)]
<1>1. /\ r \in Seq(Text)
      /\ Len(r) = Len(doc) + Len(x) - (e - s + 1)
      /\ \A i \in 1 .. Len(r) : i < s => r[i] = doc[i]
      /\ \A i \in 1 .. Len(r) : s + Len(x) <= i => r[i] = doc[i - Len(x) + (e - s + 1)]
  BY SpliceIs
<1> HIDE DEF r
<1>2. /\ m \in [1 .. Len(doc) -> Nat]
      /\ \A i \in 1 .. Len(doc) :
            m[i] = IF i < s THEN i ELSE IF i <= e THEN 0 ELSE i + Len(x) - (e - s + 1)
  BY DEF Cut
<1> HIDE DEF m
<1>3. \A i \in Positions(doc, "user") : m[i] \in Positions(r, "user")
  <2> SUFFICES ASSUME NEW i \in 1 .. Len(doc), doc[i] = "user" PROVE m[i] \in 1 .. Len(r) /\ r[m[i]] = "user"
    BY <1>1 DEF Positions
  <2>1. CASE i < s
    <3>1. m[i] = i /\ i \in 1 .. Len(r)
      BY <1>1, <1>2, <2>1 DEF Cut
    <3> QED
      BY <1>1, <2>1, <3>1
  <2>2. CASE e < i
    <3>1. m[i] = i + Len(x) - (e - s + 1) /\ m[i] \in 1 .. Len(r) /\ s + Len(x) <= m[i]
      BY <1>1, <1>2, <2>2 DEF Cut
    <3>2. i \in Int /\ Len(x) \in Int /\ s \in Int /\ e \in Int
      BY DEF Cut
    <3>3. m[i] - Len(x) + (e - s + 1) = i
      BY <3>1, <3>2
    <3> QED
      BY <1>1, <3>1, <3>3
  <2> QED
    BY <2>1, <2>2 DEF Cut
<1>4. \A i, j \in Positions(doc, "user") : m[i] = m[j] => i = j
  <2> SUFFICES ASSUME NEW i \in 1 .. Len(doc), doc[i] = "user", NEW j \in 1 .. Len(doc), doc[j] = "user",
                      m[i] = m[j]
               PROVE  i = j
    BY DEF Positions
  <2>1. (i < s \/ e < i) /\ (j < s \/ e < j)
    BY DEF Cut
  <2> QED
    BY <1>2, <2>1 DEF Cut
<1> QED
  BY <1>1, <1>2, <1>3, <1>4, UsersMapped DEF r

LEMMA SpliceBrings ==
    ASSUME NEW doc \in Seq(Text), NEW s, NEW e, Cut(doc, s, e), NEW x \in Seq(Text), NEW piece,
           Has(Splice(doc, s, e, x), piece)
    PROVE  Has(doc, piece) \/ Has(x, piece)
<1> DEFINE r == Splice(doc, s, e, x)
           n == Len(x)
<1>1. /\ r \in Seq(Text)
      /\ Len(r) = Len(doc) + n - (e - s + 1)
      /\ \A i \in 1 .. Len(r) : i < s => r[i] = doc[i]
      /\ \A i \in 1 .. Len(r) : s <= i /\ i < s + n => r[i] = x[i - s + 1]
      /\ \A i \in 1 .. Len(r) : s + n <= i => r[i] = doc[i - n + (e - s + 1)]
  BY SpliceIs
<1> HIDE DEF r
<1>2. /\ Len(doc) \in Nat /\ n \in Nat /\ s \in 1 .. Len(doc) /\ e \in s .. Len(doc)
  BY DEF Cut
<1>3. PICK i \in 1 .. Len(r) : r[i] = piece
  BY <1>1 DEF Has, Positions, r
<1>4. CASE i < s
  <2>1. i \in 1 .. Len(doc) /\ doc[i] = piece
    BY <1>1, <1>2, <1>3, <1>4
  <2> QED
    BY <2>1 DEF Has, Positions
<1>5. CASE s <= i /\ i < s + n
  <2>1. i - s + 1 \in 1 .. Len(x) /\ x[i - s + 1] = piece
    BY <1>1, <1>2, <1>3, <1>5
  <2> QED
    BY <2>1 DEF Has, Positions
<1>6. CASE s + n <= i
  <2> DEFINE j == i - n + (e - s + 1)
  <2>1. j \in 1 .. Len(doc) /\ doc[j] = piece
    BY <1>1, <1>2, <1>3, <1>6
  <2> HIDE DEF j
  <2> QED
    BY <2>1 DEF Has, Positions
<1> QED
  BY <1>2, <1>4, <1>5, <1>6

LEMMA SpliceKeepsClear ==
    ASSUME NEW doc \in Seq(Text), NEW s, NEW e, Cut(doc, s, e), NEW x \in Seq(Text), Clear(doc),
           \A i \in 1 .. Len(x) : x[i] # "user",
           x # <<>> => doc[s] = "start" /\ \A i \in 1 .. Len(doc) : i < s => doc[i] # "start"
    PROVE  Clear(Splice(doc, s, e, x))
<1> DEFINE r == Splice(doc, s, e, x)
           n == Len(x)
           m(i) == IF i < s THEN i ELSE i - n + (e - s + 1)
<1>1. /\ r \in Seq(Text)
      /\ Len(r) = Len(doc) + n - (e - s + 1)
      /\ \A i \in 1 .. Len(r) : i < s => r[i] = doc[i]
      /\ \A i \in 1 .. Len(r) : s <= i /\ i < s + n => r[i] = x[i - s + 1]
      /\ \A i \in 1 .. Len(r) : s + n <= i => r[i] = doc[i - n + (e - s + 1)]
  BY SpliceIs
<1> HIDE DEF r
<1>2. /\ Len(doc) \in Nat /\ n \in Nat /\ s \in 1 .. Len(doc) /\ e \in s .. Len(doc)
  BY DEF Cut
<1>3. SUFFICES ASSUME NEW i \in 1 .. Len(r), NEW j \in 1 .. Len(r), NEW k \in 1 .. Len(r),
                      i < j, j < k, r[i] = "start", r[j] = "user", r[k] = "end"
               PROVE  FALSE
  BY <1>1 DEF Clear, r
<1> DEFINE Outside(l) == l < s \/ s + n <= l
<1>4. \A l \in 1 .. Len(r) : Outside(l) => m(l) \in 1 .. Len(doc) /\ r[l] = doc[m(l)]
  <2> SUFFICES ASSUME NEW l \in 1 .. Len(r), Outside(l)
               PROVE  m(l) \in 1 .. Len(doc) /\ r[l] = doc[m(l)]
    OBVIOUS
  <2>1. CASE l < s
    BY <1>1, <1>2, <2>1
  <2>2. CASE s + n <= l
    <3>1. ~(l < s) /\ m(l) \in 1 .. Len(doc)
      BY <1>1, <1>2, <2>2
    <3> QED
      BY <1>1, <2>2, <3>1
  <2> QED
    BY <2>1, <2>2
<1>5. Outside(j)
  <2> SUFFICES ASSUME s <= j, j < s + n PROVE FALSE
    BY <1>2
  <2>1. j - s + 1 \in 1 .. n /\ r[j] = x[j - s + 1]
    BY <1>1, <1>2
  <2> QED
    BY <1>3, <2>1
<1>6. \A l1, l2 \in 1 .. Len(r) : Outside(l1) /\ Outside(l2) /\ l1 < l2 => m(l1) < m(l2)
  BY <1>2
<1>7. CASE Outside(i) /\ Outside(k)
  <2>1. m(i) < m(j) /\ m(j) < m(k)
    BY <1>3, <1>5, <1>6, <1>7
  <2>2. /\ m(i) \in 1 .. Len(doc) /\ doc[m(i)] = "start"
        /\ m(j) \in 1 .. Len(doc) /\ doc[m(j)] = "user"
        /\ m(k) \in 1 .. Len(doc) /\ doc[m(k)] = "end"
    BY <1>3, <1>4, <1>5, <1>7
  <2> HIDE DEF m
  <2> QED
    BY <2>1, <2>2 DEF Clear
<1>8. CASE ~Outside(k)
  <2>1. j < s /\ i < s /\ x # <<>>
    BY <1>2, <1>3, <1>5, <1>8
  <2>2. i \in 1 .. Len(doc) /\ doc[i] = "start"
    BY <1>1, <1>2, <1>3, <2>1
  <2> QED
    BY <2>1, <2>2
<1>9. CASE ~Outside(i) /\ Outside(k)
  <2>1. x # <<>> /\ s + n <= j /\ s < m(j) /\ m(j) < m(k)
    BY <1>2, <1>3, <1>5, <1>6, <1>9
  <2>2. /\ s \in 1 .. Len(doc) /\ doc[s] = "start"
        /\ m(j) \in 1 .. Len(doc) /\ doc[m(j)] = "user"
        /\ m(k) \in 1 .. Len(doc) /\ doc[m(k)] = "end"
    BY <1>2, <1>3, <1>4, <1>5, <1>9, <2>1
  <2> HIDE DEF m
  <2> QED
    BY <2>1, <2>2 DEF Clear
<1> QED
  BY <1>7, <1>8, <1>9

LEMMA MatchIs ==
    ASSUME NEW doc \in Seq(Text), Whole(doc), Clear(doc)
    PROVE  LET s == Least(Positions(doc, "start"))
               e == Least(Ends(doc))
           IN  /\ Cut(doc, s, e) /\ doc[s] = "start"
               /\ \A i \in 1 .. Len(doc) : i < s => doc[i] # "start"
               /\ \A i \in s .. e : doc[i] # "user"
<1> DEFINE S == Positions(doc, "start")
           s == Least(S)
           e == Least(Ends(doc))
<1>1. Len(doc) \in Nat /\ S \subseteq 1 .. Len(doc) /\ Ends(doc) \subseteq 1 .. Len(doc)
  BY DEF Positions, Ends
<1>2. S # {} /\ Ends(doc) # {}
  BY DEF Whole, Ends
<1>3. s \in S /\ \A i \in S : s <= i
  BY <1>1, <1>2, LeastIs
<1>4. e \in Ends(doc)
  BY <1>1, <1>2, LeastIs
<1>5. PICK i \in S : i < e
  BY <1>4 DEF Ends
<1>6. s \in 1 .. Len(doc) /\ e \in 1 .. Len(doc) /\ doc[s] = "start" /\ doc[e] = "end" /\ s < e
  <2>1. e \in Positions(doc, "end")
    BY <1>4 DEF Ends
  <2>2. e \in 1 .. Len(doc) /\ doc[e] = "end"
    BY <1>1, <2>1 DEF Positions
  <2>3. s \in 1 .. Len(doc) /\ doc[s] = "start"
    BY <1>1, <1>3 DEF Positions
  <2>4. s <= i /\ i \in 1 .. Len(doc)
    BY <1>1, <1>3, <1>5
  <2> HIDE DEF s, e, S
  <2> QED
    BY <1>1, <1>5, <2>2, <2>3, <2>4
<1>7. ASSUME NEW j \in 1 .. Len(doc), j < s PROVE doc[j] # "start"
  <2>1. doc[j] = "start" => s <= j
    BY <1>3 DEF Positions
  <2> HIDE DEF s, e, S
  <2> QED
    BY <1>6, <1>7, <2>1
<1> HIDE DEF s, e, S
<1>8. \A j \in s .. e : doc[j] # "user"
  <2> SUFFICES ASSUME NEW j \in s .. e, doc[j] = "user" PROVE FALSE
    OBVIOUS
  <2>1. s < j /\ j < e /\ j \in 1 .. Len(doc)
    BY <1>6
  <2> QED
    BY <1>6, <2>1 DEF Clear
<1> QED
  BY <1>6, <1>7, <1>8 DEF Cut, s, e, S

LEMMA ReplaceMatchKeeps ==
    ASSUME NEW doc \in Seq(Text), Whole(doc), Clear(doc), NEW x \in Seq(Text),
           \A i \in 1 .. Len(x) : x[i] # "user"
    PROVE  ReplaceMatch(doc, x) \in Seq(Text) /\ Keeps(doc, ReplaceMatch(doc, x))
<1> DEFINE s == Least(Positions(doc, "start"))
           e == Least(Ends(doc))
<1>1. /\ Cut(doc, s, e) /\ doc[s] = "start"
      /\ \A i \in 1 .. Len(doc) : i < s => doc[i] # "start"
      /\ \A i \in s .. e : doc[i] # "user"
  BY MatchIs
<1>2. ReplaceMatch(doc, x) = Splice(doc, s, e, x)
  BY DEF ReplaceMatch
<1> HIDE DEF s, e
<1>3. Splice(doc, s, e, x) \in Seq(Text)
  BY <1>1, SpliceIs
<1>4. Users(Splice(doc, s, e, x)) >= Users(doc)
  BY <1>1, SpliceKeepsUsers
<1>5. Clear(Splice(doc, s, e, x))
  BY <1>1, SpliceKeepsClear
<1> QED
  BY <1>2, <1>3, <1>4, <1>5 DEF Keeps

LEMMA BlockIs ==
    ASSUME NEW b \in Body
    PROVE  Block(b) \in Seq(Text) /\ \A i \in 1 .. Len(Block(b)) : Block(b)[i] # "user"
BY DEF Block, Body, Text, Piece

LEMMA KeepsItself ==
    ASSUME NEW doc \in Seq(Text), Clear(doc)
    PROVE  Keeps(doc, doc)
BY UsersNat DEF Keeps

LEMMA KeepsAgain ==
    ASSUME NEW old \in Seq(Text), NEW doc \in Seq(Text), NEW new \in Seq(Text),
           Keeps(old, doc), Keeps(doc, new)
    PROVE  Keeps(old, new)
<1>1. Users(old) \in Nat /\ Users(doc) \in Nat /\ Users(new) \in Nat
  BY UsersNat
<1> QED
  BY <1>1 DEF Keeps

LEMMA ReplaceBlockKeeps ==
    ASSUME NEW doc \in Seq(Text), Clear(doc), NEW b \in Body
    PROVE  replaceBlock(doc, b) \in Seq(Text) /\ Keeps(doc, replaceBlock(doc, b))
<1> DEFINE s == Least(Positions(doc, "start"))
           e == Least(Ends(doc))
           m == Matched(doc)
<1>1. CASE ~Whole(doc)
  BY <1>1, KeepsItself DEF replaceBlock
<1>2. CASE Whole(doc) /\ b # "$&"
  BY <1>2, BlockIs, ReplaceMatchKeeps DEF replaceBlock
<1>3. CASE Whole(doc) /\ b = "$&"
  <2>1. Cut(doc, s, e) /\ \A i \in s .. e : doc[i] # "user"
    BY <1>3, MatchIs
  <2>2. m = SubSeq(doc, s, e)
    BY DEF Matched
  <2> HIDE DEF s, e, m
  <2>3. m \in Seq(Text) /\ \A i \in 1 .. Len(m) : m[i] # "user"
    <3>1. s \in 1 .. Len(doc) /\ e \in s .. Len(doc) /\ Len(doc) \in Nat
      BY <2>1 DEF Cut
    <3>2. /\ m \in Seq(Text) /\ Len(m) = e - s + 1
          /\ \A i \in 1 .. e - s + 1 : m[i] = doc[s + i - 1]
      BY <2>2, <3>1
    <3>3. \A i \in 1 .. e - s + 1 : s + i - 1 \in s .. e
      BY <3>1
    <3> QED
      BY <2>1, <3>2, <3>3
  <2> DEFINE sm == <<"start">> \o m
             x == sm \o <<"end">>
  <2>4. sm \in Seq(Text) /\ \A i \in 1 .. Len(sm) : sm[i] # "user"
    BY <2>3 DEF Text, Piece
  <2> HIDE DEF sm
  <2>5. x \in Seq(Text) /\ \A i \in 1 .. Len(x) : x[i] # "user"
    BY <2>4 DEF Text, Piece
  <2>6. replaceBlock(doc, b) = ReplaceMatch(doc, x)
    BY <1>3 DEF replaceBlock, x, sm, m
  <2> HIDE DEF x
  <2> QED
    BY <1>3, <2>5, <2>6, ReplaceMatchKeeps
<1> QED
  BY <1>1, <1>2, <1>3

LEMMA RemovedKeeps ==
    ASSUME NEW doc \in Seq(Text), Clear(doc), NEW i \in 1 .. Len(doc), doc[i] # "user"
    PROVE  /\ Splice(doc, i, i, <<>>) \in Seq(Text) /\ Keeps(doc, Splice(doc, i, i, <<>>))
           /\ ~Has(doc, "start") => ~Has(Splice(doc, i, i, <<>>), "start")
<1> DEFINE r == Splice(doc, i, i, <<>>)
<1>1. Cut(doc, i, i) /\ <<>> \in Seq(Text) /\ Len(<<>>) = 0
  BY DEF Cut
<1>2. r \in Seq(Text)
  BY <1>1, SpliceIs
<1>3. Clear(r)
  <2>1. ASSUME NEW x \in Seq(Text), x = <<>> PROVE Clear(Splice(doc, i, i, x))
    <3>1. \A j \in 1 .. Len(x) : x[j] # "user"
      BY <2>1
    <3> QED
      BY <1>1, <2>1, <3>1, SpliceKeepsClear
  <2> QED
    BY <1>1, <2>1
<1>4. Users(r) >= Users(doc)
  <2>1. \A j \in i .. i : doc[j] # "user"
    OBVIOUS
  <2> QED
    BY <1>1, <2>1, SpliceKeepsUsers
<1>5. ~Has(doc, "start") => ~Has(r, "start")
  <2>1. ~Has(<<>>, "start")
    BY DEF Has, Positions
  <2> QED
    BY <1>1, <2>1, SpliceBrings
<1> HIDE DEF r
<1> QED
  BY <1>2, <1>3, <1>4, <1>5 DEF Keeps, r

LEMMA DropImportKeeps ==
    ASSUME NEW doc \in Seq(Text), Clear(doc)
    PROVE  /\ dropImport(doc) \in Seq(Text) /\ Keeps(doc, dropImport(doc))
           /\ ~Has(doc, "start") => ~Has(dropImport(doc), "start")
<1>1. CASE ~Has(doc, "import")
  BY <1>1, KeepsItself DEF dropImport
<1>2. CASE Has(doc, "import")
  <2> DEFINE i == Least(Positions(doc, "import"))
  <2>1. i \in Positions(doc, "import")
    <3>1. Positions(doc, "import") \subseteq 1 .. Len(doc) /\ Positions(doc, "import") # {}
      BY <1>2 DEF Positions, Has
    <3> QED
      BY <3>1, LeastIs
  <2>2. i \in 1 .. Len(doc) /\ doc[i] # "user"
    BY <2>1 DEF Positions
  <2>3. dropImport(doc) = Splice(doc, i, i, <<>>)
    BY <1>2 DEF dropImport
  <2> HIDE DEF i
  <2> QED
    BY <2>2, <2>3, RemovedKeeps
<1> QED
  BY <1>1, <1>2

LEMMA AppendKeeps ==
    ASSUME NEW doc \in Seq(Text), NEW x \in Seq(Text), Clear(doc), Clear(x),
           \/ ~Has(doc, "start")
           \/ ~Has(x, "end")
    PROVE  doc \o x \in Seq(Text) /\ Keeps(doc, doc \o x)
<1> DEFINE r == doc \o x
<1>1. /\ r \in Seq(Text) /\ Len(r) = Len(doc) + Len(x) /\ Len(doc) \in Nat /\ Len(x) \in Nat
      /\ \A i \in 1 .. Len(r) : r[i] = IF i <= Len(doc) THEN doc[i] ELSE x[i - Len(doc)]
  OBVIOUS
<1> HIDE DEF r
<1>2. Users(r) >= Users(doc)
  <2> DEFINE m == [i \in 1 .. Len(doc) |-> i]
  <2>1. m \in [1 .. Len(doc) -> Nat] /\ \A i \in 1 .. Len(doc) : m[i] = i
    BY <1>1
  <2>2. \A i \in Positions(doc, "user") : i \in 1 .. Len(doc) /\ i \in Positions(r, "user")
    BY <1>1 DEF Positions
  <2> HIDE DEF m
  <2>3. \A i \in Positions(doc, "user") : m[i] = i
    BY <2>1, <2>2
  <2> QED
    BY <1>1, <2>1, <2>2, <2>3, UsersMapped
<1>3. Clear(r)
  <2> SUFFICES ASSUME NEW i \in 1 .. Len(r), NEW j \in 1 .. Len(r), NEW k \in 1 .. Len(r),
                      i < j, j < k, r[i] = "start", r[j] = "user", r[k] = "end"
               PROVE  FALSE
    BY <1>1 DEF Clear
  <2> DEFINE n == Len(doc)
  <2>1. CASE k <= n
    <3>1. /\ i \in 1 .. n /\ j \in 1 .. n /\ k \in 1 .. n
          /\ doc[i] = "start" /\ doc[j] = "user" /\ doc[k] = "end"
      BY <1>1, <2>1
    <3> QED
      BY <3>1 DEF Clear
  <2>2. CASE n < i
    <3> DEFINE at(l) == l - n
    <3>1. \A l \in 1 .. Len(r) : n < l => at(l) \in 1 .. Len(x) /\ x[at(l)] = r[l]
      BY <1>1
    <3>2. n < j /\ n < k /\ at(i) < at(j) /\ at(j) < at(k)
      BY <1>1, <2>2
    <3> HIDE DEF at
    <3>3. /\ at(i) \in 1 .. Len(x) /\ at(j) \in 1 .. Len(x) /\ at(k) \in 1 .. Len(x)
          /\ x[at(i)] = "start" /\ x[at(j)] = "user" /\ x[at(k)] = "end"
      BY <2>2, <3>1, <3>2
    <3> QED
      BY <3>2, <3>3 DEF Clear
  <2>3. CASE i <= n /\ n < k
    <3>1. i \in 1 .. n /\ doc[i] = "start" /\ k - n \in 1 .. Len(x) /\ x[k - n] = "end"
      BY <1>1, <2>3
    <3> QED
      BY <3>1 DEF Has, Positions
  <2> QED
    BY <1>1, <2>1, <2>2, <2>3
<1> QED
  BY <1>1, <1>2, <1>3 DEF Keeps, r

LEMMA PrependKeeps ==
    ASSUME NEW doc \in Seq(Text), Clear(doc)
    PROVE  <<"user">> \o doc \in Seq(Text) /\ Keeps(doc, <<"user">> \o doc)
<1> DEFINE r == <<"user">> \o doc
<1>1. /\ r \in Seq(Text) /\ Len(r) = Len(doc) + 1 /\ Len(doc) \in Nat
      /\ r[1] = "user" /\ \A i \in 1 .. Len(r) : i # 1 => r[i] = doc[i - 1]
  BY DEF Text, Piece
<1> HIDE DEF r
<1>2. Users(r) >= Users(doc)
  <2> DEFINE m == [i \in 1 .. Len(doc) |-> i + 1]
  <2>1. m \in [1 .. Len(doc) -> Nat] /\ \A i \in 1 .. Len(doc) : m[i] = i + 1
    BY <1>1
  <2>2. \A i \in Positions(doc, "user") : i \in 1 .. Len(doc) /\ i + 1 \in Positions(r, "user")
    BY <1>1 DEF Positions
  <2> HIDE DEF m
  <2>3. \A i \in Positions(doc, "user") : m[i] = i + 1 /\ i \in Nat
    BY <2>1, <2>2
  <2> QED
    BY <1>1, <2>1, <2>2, <2>3, UsersMapped
<1>3. Clear(r)
  <2> SUFFICES ASSUME NEW i \in 1 .. Len(r), NEW j \in 1 .. Len(r), NEW k \in 1 .. Len(r),
                      i < j, j < k, r[i] = "start", r[j] = "user", r[k] = "end"
               PROVE  FALSE
    BY <1>1 DEF Clear
  <2> DEFINE at(l) == l - 1
  <2>1. \A l \in 1 .. Len(r) : l # 1 => at(l) \in 1 .. Len(doc) /\ doc[at(l)] = r[l]
    BY <1>1
  <2>2. i # 1 /\ j # 1 /\ k # 1 /\ at(i) < at(j) /\ at(j) < at(k)
    BY <1>1
  <2> HIDE DEF at
  <2>3. /\ at(i) \in 1 .. Len(doc) /\ at(j) \in 1 .. Len(doc) /\ at(k) \in 1 .. Len(doc)
        /\ doc[at(i)] = "start" /\ doc[at(j)] = "user" /\ doc[at(k)] = "end"
    BY <2>1, <2>2
  <2> QED
    BY <2>2, <2>3 DEF Clear
<1> QED
  BY <1>1, <1>2, <1>3 DEF Keeps, r

LEMMA FromMissing ==
    ASSUME NEW new \in Seq(Text), Clear(new)
    PROVE  Missing \in Seq(Text) /\ Clear(Missing) /\ Keeps(Missing, new)
<1>1. Missing \in Seq(Text) /\ Len(Missing) = 1
  BY DEF Missing, Text
<1>2. Positions(Missing, "user") = {}
  BY DEF Missing, Positions
<1> DEFINE m == [i \in 1 .. Len(Missing) |-> 0]
<1>3. m \in [1 .. Len(Missing) -> Nat]
  OBVIOUS
<1> HIDE DEF m
<1>4. Users(new) >= Users(Missing)
  BY <1>1, <1>2, <1>3, UsersMapped
<1>5. Clear(Missing)
  BY DEF Missing, Clear
<1> QED
  BY <1>1, <1>4, <1>5 DEF Keeps

LEMMA NoUserIsClear ==
    ASSUME NEW doc, \A i \in DOMAIN doc : doc[i] # "user"
    PROVE  Clear(doc)
BY DEF Clear

LEMMA EmbedInClaudeMdKeeps ==
    ASSUME NEW doc \in Seq(Text), Clear(doc), NEW b \in Body
    PROVE  embedInClaudeMd(doc, b) \in Seq(Text) /\ Keeps(doc, embedInClaudeMd(doc, b))
<1>1. CASE doc = Missing
  <2> DEFINE new == <<"head">> \o Block(b)
  <2>1. new \in Seq(Text) /\ \A i \in DOMAIN new : new[i] # "user"
    BY DEF Block, Body, Text, Piece
  <2>2. embedInClaudeMd(doc, b) = new
    BY <1>1 DEF embedInClaudeMd
  <2> HIDE DEF new
  <2> QED
    BY <1>1, <2>1, <2>2, NoUserIsClear, FromMissing
<1>2. CASE doc # Missing /\ Has(doc, "start")
  BY <1>2, ReplaceBlockKeeps DEF embedInClaudeMd
<1>3. CASE doc # Missing /\ ~Has(doc, "start")
  <2> DEFINE mid == dropImport(doc)
  <2>1. mid \in Seq(Text) /\ Keeps(doc, mid) /\ ~Has(mid, "start")
    BY <1>3, DropImportKeeps
  <2>2. embedInClaudeMd(doc, b) = mid \o Block(b)
    BY <1>3 DEF embedInClaudeMd
  <2> HIDE DEF mid
  <2>3. Clear(mid) /\ Clear(Block(b)) /\ Block(b) \in Seq(Text)
    BY <2>1, BlockIs, NoUserIsClear DEF Keeps
  <2>4. mid \o Block(b) \in Seq(Text) /\ Keeps(mid, mid \o Block(b))
    BY <2>1, <2>3, AppendKeeps
  <2> QED
    BY <2>1, <2>2, <2>4, KeepsAgain
<1> QED
  BY <1>1, <1>2, <1>3

LEMMA EmbedPermissionsBlockKeeps ==
    ASSUME NEW doc \in Seq(Text), Clear(doc), NEW b \in Body
    PROVE  embedPermissionsBlock(doc, b) \in Seq(Text) /\ Keeps(doc, embedPermissionsBlock(doc, b))
<1>1. CASE doc = Missing
  BY <1>1, KeepsItself DEF embedPermissionsBlock
<1>2. CASE doc # Missing /\ Has(doc, "start")
  BY <1>2, ReplaceBlockKeeps DEF embedPermissionsBlock
<1>3. CASE doc # Missing /\ ~Has(doc, "start")
  <2>1. Clear(Block(b)) /\ Block(b) \in Seq(Text)
    BY BlockIs, NoUserIsClear
  <2> QED
    BY <1>3, <2>1, AppendKeeps DEF embedPermissionsBlock
<1> QED
  BY <1>1, <1>2, <1>3

LEMMA StripsKeep ==
    ASSUME NEW doc \in Seq(Text), Clear(doc)
    PROVE  /\ stripPermissionsBlock(doc) \in Seq(Text) /\ Keeps(doc, stripPermissionsBlock(doc))
           /\ stripClaudeMd(doc) \in Seq(Text) /\ Keeps(doc, stripClaudeMd(doc))
<1> DEFINE mid == stripPermissionsBlock(doc)
<1>1. mid \in Seq(Text) /\ Keeps(doc, mid)
  <2>1. CASE ~Whole(doc)
    BY <2>1, KeepsItself DEF stripPermissionsBlock
  <2>2. CASE Whole(doc)
    <3>1. <<>> \in Seq(Text) /\ \A i \in 1 .. Len(<<>>) : <<>>[i] # "user"
      OBVIOUS
    <3>2. ReplaceMatch(doc, <<>>) \in Seq(Text) /\ Keeps(doc, ReplaceMatch(doc, <<>>))
      BY <2>2, <3>1, ReplaceMatchKeeps
    <3> QED
      BY <2>2, <3>2 DEF stripPermissionsBlock
  <2> QED
    BY <2>1, <2>2
<1> HIDE DEF mid
<1>2. dropImport(mid) \in Seq(Text) /\ Keeps(mid, dropImport(mid))
  BY <1>1, DropImportKeeps DEF Keeps
<1>3. Keeps(doc, dropImport(mid))
  BY <1>1, <1>2, KeepsAgain
<1> QED
  BY <1>1, <1>2, <1>3 DEF mid, stripClaudeMd

LEMMA CreateKeeps ==
    ASSUME NEW doc \in Seq(Text), Clear(doc)
    PROVE  createIfAbsent(doc) \in Seq(Text) /\ Keeps(doc, createIfAbsent(doc))
<1>1. CASE doc = Missing
  <2> DEFINE new == <<"ours">>
  <2>1. new \in Seq(Text) /\ \A i \in DOMAIN new : new[i] # "user"
    BY DEF Text, Piece
  <2>2. createIfAbsent(doc) = new
    BY <1>1 DEF createIfAbsent
  <2> HIDE DEF new
  <2> QED
    BY <1>1, <2>1, <2>2, NoUserIsClear, FromMissing
<1>2. CASE doc # Missing
  BY <1>2, KeepsItself DEF createIfAbsent
<1> QED
  BY <1>1, <1>2

----------------------------------------------------------------------------

Shared == {"CLAUDE.md", "AGENTS.md", "SKILL.md"}

\* What may become of document x of project d, which was doc.
Proper(x, doc, new) ==
    /\ new \in Seq(Text) /\ Clear(new)
    /\ x \in Shared /\ ~isAgentValetGeneratedDoc(doc) => Users(new) >= Users(doc)

Documents ==
    /\ docs \in [Dir -> [Doc -> Seq(Text)]]
    /\ \A d \in Dir, x \in Doc : Clear(docs[d][x])

LEMMA KeptIsProper ==
    ASSUME NEW x, NEW doc, NEW new \in Seq(Text), Keeps(doc, new)
    PROVE  Proper(x, doc, new)
BY DEF Keeps, Proper

LEMMA CleanDocIsProper ==
    ASSUME NEW x \in Doc, NEW doc \in Seq(Text), Clear(doc)
    PROVE  Proper(x, doc, cleanDoc(x, doc))
<1>1. Missing \in Seq(Text) /\ Clear(Missing)
  BY FromMissing
<1>2. CASE x \in {"AGENTVALET.md", "droids", "reliability"}
  <2>1. cleanDoc(x, doc) = Missing /\ x \notin Shared
    BY <1>2 DEF cleanDoc, Shared
  <2> QED
    BY <1>1, <2>1 DEF Proper
<1>3. CASE x = "CLAUDE.md"
  <2>1. cleanDoc(x, doc) = IF doc = Missing THEN doc ELSE stripClaudeMd(doc)
    BY <1>3 DEF cleanDoc
  <2> QED
    BY <2>1, StripsKeep, KeepsItself, KeptIsProper
<1>4. CASE x \in {"AGENTS.md", "SKILL.md"} /\ isAgentValetGeneratedDoc(doc)
  <2>1. cleanDoc(x, doc) = Missing
    BY <1>4 DEF cleanDoc
  <2> QED
    BY <1>1, <1>4, <2>1 DEF Proper
<1>5. CASE x \in {"AGENTS.md", "SKILL.md"} /\ ~isAgentValetGeneratedDoc(doc)
  <2>1. cleanDoc(x, doc) = IF doc = Missing THEN doc ELSE stripPermissionsBlock(doc)
    BY <1>5 DEF cleanDoc
  <2> QED
    BY <2>1, StripsKeep, KeepsItself, KeptIsProper
<1> QED
  BY <1>2, <1>3, <1>4, <1>5 DEF Doc

LEMMA EditDocIsProper ==
    ASSUME Documents, NEW d \in Dir, NEW x \in Doc, EditDoc(d, x)
    PROVE  \E new : Proper(x, docs[d][x], new) /\ docs' = [docs EXCEPT ![d][x] = new]
<1> DEFINE doc == docs[d][x]
           old == IF doc = Missing THEN <<>> ELSE doc
<1>1. doc \in Seq(Text) /\ Clear(doc)
  BY DEF Documents
<1>2. old \in Seq(Text) /\ Clear(old)
  BY <1>1 DEF Clear
<1>3. PICK new \in {<<"user">> \o old, old \o <<"user">>}
                   \cup {Splice(old, i, i, <<>>) : i \in Positions(old, "end")} :
         docs' = [docs EXCEPT ![d][x] = new]
  BY DEF EditDoc
<1> HIDE DEF doc, old
<1>4. new \in Seq(Text) /\ Keeps(old, new)
  <2>1. CASE new = <<"user">> \o old
    BY <1>2, <2>1, PrependKeeps
  <2>2. CASE new = old \o <<"user">>
    <3> DEFINE x1 == <<"user">>
    <3>1. x1 \in Seq(Text) /\ Clear(x1) /\ ~Has(x1, "end")
      BY DEF Text, Piece, Clear, Has, Positions
    <3>2. new = old \o x1
      BY <2>2
    <3> HIDE DEF x1
    <3> QED
      BY <1>2, <3>1, <3>2, AppendKeeps
  <2>3. ASSUME NEW i \in Positions(old, "end"), new = Splice(old, i, i, <<>>)
        PROVE  new \in Seq(Text) /\ Keeps(old, new)
    <3>1. i \in 1 .. Len(old) /\ old[i] # "user"
      BY <1>2 DEF Positions
    <3> QED
      BY <1>2, <2>3, <3>1, RemovedKeeps
  <2> QED
    BY <1>3, <2>1, <2>2, <2>3
<1>5. Proper(x, doc, new)
  <2>1. CASE doc = Missing
    BY <1>4, <2>1, FromMissing, KeptIsProper DEF Keeps
  <2>2. CASE doc # Missing
    BY <1>4, <2>2, KeptIsProper DEF old
  <2> QED
    BY <2>1, <2>2
<1> QED
  BY <1>3, <1>5 DEF doc

\* A step leaves each document as it is or makes something proper of it.
LEMMA DocumentsStep ==
    ASSUME Typed, Documents, [Next]_vars
    PROVE  /\ docs' \in [Dir -> [Doc -> Seq(Text)]]
           /\ \A d \in Dir, x \in Doc : Proper(x, docs[d][x], docs'[d][x])
<1>1. /\ docs \in [Dir -> [Doc -> Seq(Text)]]
      /\ \A d \in Dir, x \in Doc : docs[d][x] \in Seq(Text) /\ Clear(docs[d][x])
  BY DEF Documents
<1>2. \A d \in Dir, x \in Doc : Proper(x, docs[d][x], docs[d][x])
  BY <1>1, KeepsItself, KeptIsProper
<1> DEFINE Goal == /\ docs' \in [Dir -> [Doc -> Seq(Text)]]
                   /\ \A d \in Dir, x \in Doc : Proper(x, docs[d][x], docs'[d][x])
<1>3. CASE UNCHANGED docs
  BY <1>1, <1>2, <1>3
<1>4. ASSUME NEW d \in Dir, NEW x \in Doc, NEW new, Proper(x, docs[d][x], new),
             docs' = [docs EXCEPT ![d][x] = new]
      PROVE  Goal
  <2>1. new \in Seq(Text)
    BY <1>4 DEF Proper
  <2>2. docs' \in [Dir -> [Doc -> Seq(Text)]]
    BY <1>1, <1>4, <2>1
  <2>3. \A p \in Dir, y \in Doc : docs'[p][y] = IF p = d /\ y = x THEN new ELSE docs[p][y]
    BY <1>1, <1>4
  <2> QED
    BY <1>2, <1>4, <2>2, <2>3
<1>5. ASSUME NEW d \in Dir, NEW f, \A x \in Doc : Proper(x, docs[d][x], f[x]),
             docs' = [docs EXCEPT ![d] = [x \in Doc |-> f[x]]]
      PROVE  Goal
  <2>1. \A x \in Doc : f[x] \in Seq(Text)
    BY <1>5 DEF Proper
  <2>2. docs' \in [Dir -> [Doc -> Seq(Text)]]
    BY <1>1, <1>5, <2>1
  <2>3. \A p \in Dir, y \in Doc : docs'[p][y] = IF p = d THEN f[y] ELSE docs[p][y]
    BY <1>1, <1>5
  <2> QED
    BY <1>2, <1>5, <2>2, <2>3
<1>6. CASE WriteClaudeMd
  <2>1. job.dir \in Dir /\ "CLAUDE.md" \in Doc
    BY <1>6 DEF WriteClaudeMd, Typed, Job, Doc
  <2> DEFINE new == createIfAbsent(docs[job.dir]["CLAUDE.md"])
  <2>2. Proper("CLAUDE.md", docs[job.dir]["CLAUDE.md"], new)
    BY <1>1, <2>1, CreateKeeps, KeptIsProper
  <2>3. docs' = [docs EXCEPT ![job.dir]["CLAUDE.md"] = new]
    BY <1>6 DEF WriteClaudeMd
  <2> HIDE DEF new
  <2> QED
    BY <1>4, <2>1, <2>2, <2>3
<1>7. CASE WriteDocs
  <2>1. job.dir \in Dir
    BY <1>7 DEF WriteDocs, Typed, Job
  <2>2. PICK some : docs' = [docs EXCEPT ![job.dir] =
                        [x \in Doc |-> IF x \in some THEN createIfAbsent(@[x]) ELSE @[x]]]
    BY <1>7 DEF WriteDocs
  <2> DEFINE f == [x \in Doc |-> IF x \in some THEN createIfAbsent(docs[job.dir][x])
                                 ELSE docs[job.dir][x]]
  <2>3. \A x \in Doc : Proper(x, docs[job.dir][x], f[x])
    BY <1>1, <1>2, <2>1, CreateKeeps, KeptIsProper
  <2>4. docs' = [docs EXCEPT ![job.dir] = [x \in Doc |-> f[x]]]
    BY <2>2
  <2> HIDE DEF f
  <2> QED
    BY <1>5, <2>1, <2>3, <2>4
<1>8. ASSUME NEW b \in Body, RefreshFinish(b) PROVE Goal
  <2> DEFINE d == fetching.dir
             embed(x, doc) ==
                 CASE x = "CLAUDE.md" -> embedInClaudeMd(doc, b)
                   [] x = "AGENTS.md" /\ "codex" \in Detected(d) -> embedPermissionsBlock(doc, b)
                   [] x = "SKILL.md" /\ "openclaw" \in Detected(d) -> embedPermissionsBlock(doc, b)
                   [] OTHER -> doc
             f == [x \in Doc |-> embed(x, docs[d][x])]
  <2>1. d \in Dir
    BY <1>8 DEF RefreshFinish, Typed
  <2>2. docs' = [docs EXCEPT ![d] = [x \in Doc |-> f[x]]]
    BY <1>8 DEF RefreshFinish
  <2>3. ASSUME NEW x \in Doc PROVE Proper(x, docs[d][x], embed(x, docs[d][x]))
    <3>1. docs[d][x] \in Seq(Text) /\ Clear(docs[d][x])
      BY <1>1, <2>1
    <3> DEFINE doc == docs[d][x]
    <3>2. embed(x, doc) \in {embedInClaudeMd(doc, b), embedPermissionsBlock(doc, b), doc}
      OBVIOUS
    <3> HIDE DEF embed, doc
    <3> QED
      BY <3>1, <3>2, EmbedInClaudeMdKeeps, EmbedPermissionsBlockKeeps, KeepsItself, KeptIsProper
         DEF doc
  <2>4. \A x \in Doc : Proper(x, docs[d][x], f[x])
    BY <2>3
  <2> HIDE DEF d, f
  <2> QED
    BY <1>5, <2>1, <2>2, <2>4
<1>9. ASSUME NEW d \in Dir, cleanLocally(d) PROVE Goal
  <2> DEFINE f == [x \in Doc |-> cleanDoc(x, docs[d][x])]
  <2>1. \A x \in Doc : Proper(x, docs[d][x], f[x])
    BY <1>1, CleanDocIsProper
  <2>2. docs' = [docs EXCEPT ![d] = [x \in Doc |-> f[x]]]
    BY <1>9 DEF cleanLocally
  <2> HIDE DEF f
  <2> QED
    BY <1>5, <2>1, <2>2
<1>10. ASSUME NEW d \in Dir, NEW x \in {"CLAUDE.md", "AGENTS.md"}, EditDoc(d, x) PROVE Goal
  BY <1>4, <1>10, EditDocIsProper DEF Doc
<1>11. ASSUME NEW c \in Command, NEW a \in Agent, NEW d \in Dir, NEW scope \in Scope,
              NEW agreed \in BOOLEAN, Claim(c, a, d, scope, agreed)
       PROVE  UNCHANGED docs
  BY <1>11 DEF Claim, written
<1>12. CASE Skip \/ Read \/ Write \/ WriteFails \/ WriteEnv \/ Crash
  BY <1>3, <1>12 DEF Skip, Read, Write, WriteFails, WriteEnv, Crash, written
<1>13. ASSUME NEW d \in Dir, RefreshStart(d) \/ BreakSettings(d) PROVE UNCHANGED docs
  BY <1>13 DEF RefreshStart, BreakSettings, written
<1>14. CASE RefreshFails
  BY <1>3, <1>14 DEF RefreshFails, written
<1>15. ASSUME NEW p \in Edited, NEW s \in {"readable", "broken"}, NEW under \in BOOLEAN,
              Edit(p, s, under)
       PROVE UNCHANGED docs
  BY <1>15 DEF Edit
<1>16. CASE UNCHANGED vars
  BY <1>3, <1>16 DEF vars, written
<1> QED
  BY <1>3, <1>6, <1>7, <1>8, <1>9, <1>10, <1>11, <1>12, <1>13, <1>14, <1>15, <1>16 DEF Next

\* UserTextKept (refresh.ts, uninstall.ts): markers gone missing, patterns in a platform's
\* name, refresh after refresh, no piece of a user's text is lost from a document that the
\* tool did not begin, because none ever comes to lie between a start and an end marker.
THEOREM TextOutlivesRefresh == Spec => UserTextKept
<1>1. Init => Documents
  <2> SUFFICES ASSUME Init PROVE Documents
    OBVIOUS
  <2>1. PICK first \in {Missing, <<"user", "import">>} :
           docs = [d \in Dir |-> [x \in Doc |-> IF x = "CLAUDE.md" THEN first ELSE Missing]]
    BY DEF Init
  <2>2. \A doc \in {Missing, <<"user", "import">>} : doc \in Seq(Text) /\ Clear(doc)
    <3> DEFINE plain == <<"user", "import">>
    <3>1. plain \in Seq(Text)
      BY DEF Text, Piece
    <3>2. \A i \in DOMAIN plain : plain[i] # "end"
      OBVIOUS
    <3> HIDE DEF plain
    <3>3. Clear(plain)
      BY <3>2 DEF Clear
    <3> QED
      BY <3>1, <3>3, FromMissing DEF plain
  <2>3. \A d \in Dir, x \in Doc : docs[d][x] \in {Missing, <<"user", "import">>}
    BY <2>1
  <2> QED
    BY <2>1, <2>2, <2>3 DEF Documents
<1>2. Typed /\ Documents /\ [Next]_vars => Documents'
  BY DocumentsStep DEF Documents, Proper
<1>3. Typed /\ Documents /\ [Next]_vars =>
          [\A d \in Dir, x \in {"CLAUDE.md", "AGENTS.md", "SKILL.md"} :
              ~isAgentValetGeneratedDoc(docs[d][x])
                  => Cardinality(Positions(docs'[d][x], "user"))
                     >= Cardinality(Positions(docs[d][x], "user"))]_vars
  BY DocumentsStep DEF Proper, Users, Shared, Doc
<1> QED
  BY <1>1, <1>2, <1>3, TypeAlways, PTL DEF Spec, UserTextKept
=============================================================================
