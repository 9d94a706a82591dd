--------------------------- MODULE FrameworkFiles ---------------------------
(***************************************************************************)
(* The files of agent hosts on one machine: install, inject and onboard    *)
(* write them one after another, refresh (often started by a hook while    *)
(* another command runs) adds permission blocks and a missing entry,       *)
(* uninstall strips them, and their owner edits them all along.            *)
(*                                                                         *)
(* AgentIdentity has the steps of the identity's own files; here claiming  *)
(* an agent is one step, and what matters is who the files name after it.  *)
(***************************************************************************)
EXTENDS ConfigFiles, AgentDocs

CONSTANTS
    Apps,         \* sets of host programs that may be on the machine
    Edited,       \* bound: the configuration files that are edited
    Limits        \* bounds: how often each of Counted may happen, in each of some scenarios

Host == {"claude", "cursor", "factory", "codex"}
Doc  == {"CLAUDE.md", "AGENTS.md", "SKILL.md", "AGENTVALET.md", "droids", "reliability"}
Command == {"install", "inject", "onboard"}
Scope == {"user", "project"}
Counted == {"claim", "uninstall", "refresh", "edit", "text", "fail"}

ASSUME AppsAssumption == \A apps \in Apps : apps \subseteq Host \cup {"openclaw"}
ASSUME BoundsAssumption ==
    /\ Edited \subseteq Host \X Where
    /\ Limits \subseteq [Counted -> Nat]

VARIABLES
    apps,      \* the programs on the machine
    file,      \* the MCP configuration of each host, of the user and of each project
    backup,    \* .factory/mcp.json.backup: the last edit it contains
    docs,      \* the documents of each project
    settings,  \* .claude/settings.local.json: a File whose entry is the hook
    key,       \* agent.key in ~/.agentvalet and in each project's .agentvalet
    config,    \* config.json: the agent of install and inject, and that of onboard
    envFile,   \* .env.agentvalet of each project
    job,       \* the command last started
    todo,      \* the files it has yet to write
    seen,      \* what it has read of the first of them
    left,      \* files that it, or an uninstall, could not read or write and left as they are
    fetching,  \* the project of a refresh whose request is out
    gone,      \* projects uninstalled since an agent was last claimed
    kept,      \* history: the last edit of each file made while no command ran, if not lost
    limits, used   \* the bounds of this scenario, and what it has used of them

written  == <<file, backup, docs, settings>>
identity == <<key, config, envFile>>
command  == <<job, todo, seen, left>>
bounds   == <<limits, used>>
vars     == <<apps, written, identity, command, fetching, gone, kept, bounds>>

\* One more of what the scenario bounds.
Count(c) ==
    /\ used[c] < limits[c] /\ used' = [used EXCEPT ![c] = @ + 1] /\ UNCHANGED limits

Place == Host \X Where
At(h, w) == file[<<h, w>>]

Init ==
    /\ apps \in Apps
    /\ file = [p \in Place |-> Absent] /\ backup = [w \in Where |-> 0]
    /\ \E first \in {Missing, <<"user", "import">>} :
          docs = [d \in Dir |-> [x \in Doc |-> IF x = "CLAUDE.md" THEN first ELSE Missing]]
    /\ settings = [d \in Dir |-> Absent]
    /\ key = [w \in Where |-> None] /\ config = [agent |-> None, last |-> None]
    /\ envFile = [d \in Dir |-> None]
    /\ job = None /\ todo = <<>> /\ seen = None /\ left = {}
    /\ fetching = None /\ gone = {} /\ kept = [p \in Place |-> 0]
    /\ limits \in Limits /\ used = [c \in Counted |-> 0]

----------------------------------------------------------------------------
(* Who the machine acts as.                                                *)

\* The `??` of TypeScript.
Or(a, b) == IF a # None THEN a ELSE b

\* config.json, or else .env.agentvalet, if the key they name is there.
tryResolveAgent(d) ==
    LET id == Or(Or(config.agent, config.last), envFile[d])
    IN  IF id # None /\ key[id.path] # None THEN id ELSE None

\* Of a project's entry and the user's, hosts take the project's.
Effective(h, d) ==
    LET entry(w) == IF At(h, w).state = "broken" THEN None ELSE At(h, w).entry
    IN  Or(entry(d), entry("home"))

\* A host's directory counts as the host.
Detected(d) ==
    {h \in Host \cup {"openclaw"} :
        \/ h \in apps
        \/ h = "codex" /\ At(h, "home").state # "absent"
        \/ h = "cursor" /\ At(h, d).state # "absent"
        \/ h = "factory" /\ \E w \in {"home", d} : At(h, w).state # "absent"}

----------------------------------------------------------------------------
(* install, inject and onboard.                                            *)

Task(op, h, w) == [op |-> op, host |-> h, at |-> w]

\* Hosts that were not found are left out.
Merge(h, found, w) == IF h \in found THEN <<Task("merge", h, w)>> ELSE <<>>

\* The project's Claude entry is left.
cleanCursorAndFactory(d) == <<Task("clean", "cursor", d), Task("clean", "factory", d)>>

cleanProjectScopedEntries(d) ==
    <<Task("clean", "claude", d), Task("clean", "cursor", d), Task("clean", "factory", d)>>

writeIdeConfigs(scope, found, d) ==
    IF scope = "user"
    THEN Merge("claude", found, "home") \o Merge("cursor", found, "home")
         \o Merge("factory", found, "home") \o cleanProjectScopedEntries(d)
    ELSE Merge("claude", found, d)
         \o (IF "claude" \in found THEN <<Task("claudeMd", "claude", d)>> ELSE <<>>)
         \o Merge("cursor", found, d) \o Merge("factory", found, d) \o Merge("codex", found, d)

\* Whatever was found.
writeGlobalFrameworkConfigs == <<Task("merge", "codex", "home")>>

\* Nobody is asked where no host was found.
frameworkSetupConsent(found, agreed) == agreed /\ found # {}

Configs(scope, found, agreed, d) ==
    IF frameworkSetupConsent(found, agreed)
    THEN writeIdeConfigs(scope, found, d) \o writeGlobalFrameworkConfigs
    ELSE <<>>

\* The documents of a project-scoped set-up.
Artefacts(scope, found, agreed, d) ==
    IF frameworkSetupConsent(found, agreed) /\ scope = "project"
    THEN <<Task("docs", "claude", d)>>
    ELSE <<>>

\* The files that each command writes once it has claimed an agent.
Env(d) == <<Task("env", "claude", d)>>
installCommand(scope, found, agreed, d) ==
    Configs(scope, found, agreed, d) \o Artefacts(scope, found, agreed, d) \o Env(d)
registerAgentFlow(scope, found, agreed, d) ==
    Env(d) \o Configs(scope, found, agreed, d) \o Artefacts(scope, found, agreed, d)
injectCommand(scope, found, agreed, d) == Configs(scope, found, agreed, d)

Todo(c, scope, found, agreed, d) ==
    CASE c = "install" -> installCommand(scope, found, agreed, d)
      [] c = "onboard" -> registerAgentFlow(scope, found, agreed, d)
      [] c = "inject"  -> injectCommand(scope, found, agreed, d)

\* The key and the name are written. onboard keeps its key in the project.
Claim(c, a, d, scope, agreed) ==
    /\ todo = <<>> /\ Count("claim")
    /\ LET me == [agent |-> a, path |-> IF c = "onboard" THEN d ELSE "home"]
       IN  /\ key' = [key EXCEPT ![me.path] = a]
           /\ config' = IF c = "onboard"
                        THEN [config EXCEPT !.last = me]
                        ELSE [agent |-> me, last |-> me]
           /\ job' = [by |-> c, me |-> me, dir |-> d, scope |-> scope, done |-> FALSE,
                      found |-> IF agreed THEN Detected(d) ELSE {}]
    /\ todo' = Todo(c, scope, Detected(d), agreed, d)
    /\ left' = {} /\ gone' = {}
    /\ UNCHANGED <<apps, written, envFile, seen, fetching, kept>>

\* A task is over; with the last one the command is.
Done ==
    /\ todo' = Tail(todo) /\ seen' = None
    /\ job' = [job EXCEPT !.done = Tail(todo) = <<>>]

\* There is nothing to clean.
Skip ==
    /\ todo # <<>> /\ Head(todo).op = "clean"
    /\ At(Head(todo).host, Head(todo).at).state = "absent"
    /\ Done
    /\ UNCHANGED <<apps, written, identity, left, fetching, gone, kept, bounds>>

\* A JSON or TOML file is read first.
Read ==
    /\ todo # <<>> /\ seen = None /\ Head(todo).op \in {"merge", "clean"}
    /\ Head(todo).op = "clean" => At(Head(todo).host, Head(todo).at).state # "absent"
    /\ seen' = At(Head(todo).host, Head(todo).at)
    /\ UNCHANGED <<apps, written, identity, job, todo, left, fetching, gone, kept, bounds>>

\* What is made of the file that was read.
Rewritten(task, now) ==
    CASE task.op = "clean"                                 -> stripAgentvaletFromMcpJson(now, seen)
      [] task.op = "merge" /\ task.host \in {"claude", "cursor"} -> mergeJsonFile(seen, job.me)
      [] task.op = "merge" /\ task.host = "factory"        ->
            mergeFactoryDroidMcpJson(now, seen, job.me)
      [] task.op = "merge" /\ task.host = "codex"          -> appendCodexConfig(now, seen, job.me)

\* It is overwritten without a copy.
backupNothing(task) == backup

\* writeFactoryDroidConfig copies an unreadable file first.
backupUnreadable(task) ==
    IF task.op = "merge" /\ task.host = "factory" /\ seen.state = "broken"
    THEN [backup EXCEPT ![task.at] = seen.user]
    ELSE backup

\* What a file no longer contains is not kept any longer.
KeptIn(f) == [p \in Place |-> IF f[p].user < kept[p] THEN f[p].user ELSE kept[p]]

\* The file of the task in hand.
InHand == <<Head(todo).host, Head(todo).at>>

Write ==
    /\ seen # None
    /\ LET task == Head(todo)
       IN  /\ file' = [file EXCEPT ![InHand] = Rewritten(task, @)]
           /\ backup' = backupUnreadable(task)
           /\ left' = IF task.op = "clean" /\ seen.state = "broken" THEN left \cup {InHand} ELSE left
    /\ kept' = KeptIn(file')
    /\ Done
    /\ UNCHANGED <<apps, docs, settings, identity, fetching, gone, bounds>>

\* The directory, the copy or the file cannot be written: a warning or nothing, and on to
\* the next task.
WriteFails ==
    /\ todo # <<>> /\ Head(todo).op \in {"merge", "clean", "claudeMd", "env"} /\ Count("fail")
    /\ Head(todo).op = "clean" => file[InHand].state # "absent"
    /\ left' = IF Head(todo).op \in {"merge", "clean"} THEN left \cup {InHand} ELSE left
    /\ backup' \in {backup} \cup (IF seen = None THEN {} ELSE {backupUnreadable(Head(todo))})
    /\ Done
    /\ UNCHANGED <<apps, file, docs, settings, identity, fetching, gone, kept>>

\* buildClaudeMd, where the project has no CLAUDE.md: no markers.
WriteClaudeMd ==
    /\ todo # <<>> /\ Head(todo).op = "claudeMd"
    /\ docs' = [docs EXCEPT ![job.dir]["CLAUDE.md"] = createIfAbsent(@)]
    /\ Done
    /\ UNCHANGED <<apps, file, backup, settings, identity, left, fetching, gone, kept, bounds>>

writeAgentsMd(found)  == IF "codex" \in found THEN {"AGENTS.md"} ELSE {}
writeSkillMd(found)   == IF "openclaw" \in found THEN {"SKILL.md"} ELSE {}
writeQuickstartDoc    == {"AGENTVALET.md"}
writeFactoryDroidDroid(found) == IF "factory" \in found THEN {"droids"} ELSE {}
writeFactoryDroidReliabilityDroid(found, wanted) ==
    IF "factory" \in found /\ wanted THEN {"reliability"} ELSE {}

\* The project's documents, in one go: these writers are synchronous.
WriteDocs ==
    /\ todo # <<>> /\ Head(todo).op = "docs"
    /\ \E wanted \in BOOLEAN :
          LET new == writeAgentsMd(job.found) \cup writeSkillMd(job.found)
                     \cup writeFactoryDroidDroid(job.found) \cup writeQuickstartDoc
                     \cup writeFactoryDroidReliabilityDroid(job.found, wanted)
          IN  docs' = [docs EXCEPT ![job.dir] =
                          [x \in Doc |-> IF x \in new THEN createIfAbsent(@[x]) ELSE @[x]]]
    /\ Done
    /\ UNCHANGED <<apps, file, backup, settings, identity, left, fetching, gone, kept, bounds>>

WriteEnv ==
    /\ todo # <<>> /\ Head(todo).op = "env"
    /\ envFile' = [envFile EXCEPT ![job.dir] = job.me]
    /\ Done
    /\ UNCHANGED <<apps, written, key, config, left, fetching, gone, kept, bounds>>

\* The command dies between two writes.
Crash ==
    /\ todo # <<>> /\ todo' = <<>> /\ seen' = None
    /\ UNCHANGED <<apps, written, identity, job, left, fetching, gone, kept, bounds>>

----------------------------------------------------------------------------
(* refresh.                                                                *)

RefreshStart(d) ==
    /\ fetching = None /\ Count("refresh") /\ tryResolveAgent(d) # None
    /\ fetching' = [dir |-> d, me |-> tryResolveAgent(d)]
    /\ UNCHANGED <<apps, written, identity, command, gone, kept>>

\* The permissions are refused, or the request fails.
RefreshFails ==
    /\ fetching # None /\ fetching' = None
    /\ UNCHANGED <<apps, written, identity, command, gone, kept, bounds>>

\* The entry names the agent whose permissions were asked for.
ensureMcpJsonAsAsked(now, d) ==
    IF now.state = "broken" \/ now.entry # None THEN now
    ELSE [now EXCEPT !.state = "readable", !.entry = fetching.me]

\* Only a missing entry is added, for the agent the machine acts as by now.
ensureMcpJson(now, d) ==
    IF now.state = "broken" \/ now.entry # None \/ tryResolveAgent(d) = None THEN now
    ELSE [now EXCEPT !.state = "readable", !.entry = tryResolveAgent(d)]

\* An unreadable settings file ends it, .mcp.json included.
ensureHook(d) ==
    IF settings[d].state = "broken" THEN UNCHANGED <<settings, file>>
    ELSE /\ settings' = [settings EXCEPT ![d].state = "readable", ![d].entry = "hook"]
         /\ file' = [file EXCEPT ![<<"claude", d>>] = ensureMcpJson(@, d)]

\* The reply arrives; everything after it is synchronous.
RefreshFinish(b) ==
    /\ fetching # None /\ fetching' = None
    /\ LET d == fetching.dir
           embed(x, doc) ==
               CASE x = "CLAUDE.md" -> embedInClaudeMd(doc, b)
                 [] x = "AGENTS.md" /\ "codex" \in Detected(d) -> embedPermissionsBlock(doc, b)
                 [] x = "SKILL.md" /\ "openclaw" \in Detected(d) -> embedPermissionsBlock(doc, b)
                 [] OTHER -> doc
       IN  docs' = [docs EXCEPT ![d] = [x \in Doc |-> embed(x, @[x])]] /\ ensureHook(d)
    /\ UNCHANGED <<apps, backup, identity, command, gone, kept, bounds>>

----------------------------------------------------------------------------
(* uninstall, once its owner has approved (see OwnerWait): one function    *)
(* without an await.                                                       *)

stripSettingsJson(now) == IF now.state = "broken" THEN now ELSE [now EXCEPT !.entry = None]

\* Documents of our making are deleted, blocks in the others are cut out.
cleanDoc(x, doc) ==
    CASE x \in {"AGENTVALET.md", "droids", "reliability"} -> Missing
      [] x = "CLAUDE.md" -> IF doc = Missing THEN doc ELSE stripClaudeMd(doc)
      [] x \in {"AGENTS.md", "SKILL.md"} ->
            IF isAgentValetGeneratedDoc(doc) THEN Missing
            ELSE IF doc = Missing THEN doc ELSE stripPermissionsBlock(doc)

cleanLocally(d) ==
    /\ todo = <<>> /\ Count("uninstall")
    /\ key' = [key EXCEPT !["home"] = None, ![d] = None]
    /\ config' = [agent |-> None, last |-> None] /\ envFile' = [envFile EXCEPT ![d] = None]
    /\ docs' = [docs EXCEPT ![d] = [x \in Doc |-> cleanDoc(x, @[x])]]
    /\ settings' = [settings EXCEPT ![d] = stripSettingsJson(@)]
    /\ LET here == Host \X {"home", d}
       IN  \E failed \in SUBSET {p \in here : file[p].entry # None /\ used["fail"] < limits["fail"]} :
              /\ file' = [p \in Place |->
                             IF p \notin here \/ p \in failed THEN file[p]
                             ELSE IF p[1] = "codex" THEN stripCodexTomlAt(file[p])
                             ELSE stripMcpJson(file[p])]
              /\ left' = {p \in here : p[1] # "codex" /\ file[p].state = "broken"}
                         \cup failed \cup {p \in left : p \notin here}
    /\ kept' = KeptIn(file')
    /\ gone' = gone \cup {d} /\ job' = None
    /\ UNCHANGED <<apps, backup, todo, seen, fetching>>

----------------------------------------------------------------------------
(* The owner of the files: the user, or the host program itself.           *)

\* After it text may follow the block of a Codex configuration, or none does.
Edit(p, state, under) ==
    /\ under => p[1] = "codex" /\ file[p].entry # None
    /\ Count("edit")
    /\ file' = [file EXCEPT ![p] =
                    [@ EXCEPT !.state = state, !.user = used["edit"] + 1, !.under = under]]
    /\ kept' = [kept EXCEPT ![p] = IF todo = <<>> THEN used["edit"] + 1 ELSE @]
    /\ UNCHANGED <<apps, backup, docs, settings, identity, command, fetching, gone>>

BreakSettings(d) ==
    /\ Count("text") /\ settings' = [settings EXCEPT ![d].state = "broken"]
    /\ UNCHANGED <<apps, file, backup, docs, identity, command, fetching, gone, kept>>

\* Text is added above or below, or an end marker goes missing.
EditDoc(d, x) ==
    /\ Count("text")
    /\ LET old == IF docs[d][x] = Missing THEN <<>> ELSE docs[d][x]
       IN  \E new \in {<<"user">> \o old, old \o <<"user">>}
                      \cup {Splice(old, i, i, <<>>) : i \in Positions(old, "end")} :
               docs' = [docs EXCEPT ![d][x] = new]
    /\ UNCHANGED <<apps, file, backup, settings, identity, command, fetching, gone, kept>>

Next ==
    \/ \E c \in Command, a \in Agent, d \in Dir, scope \in Scope, agreed \in BOOLEAN :
          Claim(c, a, d, scope, agreed)
    \/ Skip \/ Read \/ Write \/ WriteFails \/ WriteClaudeMd \/ WriteDocs \/ WriteEnv \/ Crash
    \/ \E d \in Dir : RefreshStart(d) \/ cleanLocally(d) \/ BreakSettings(d)
    \/ RefreshFails
    \/ \E b \in Body : RefreshFinish(b)
    \/ \E p \in Edited, state \in {"readable", "broken"}, under \in BOOLEAN : Edit(p, state, under)
    \/ \E d \in Dir, x \in {"CLAUDE.md", "AGENTS.md"} : EditDoc(d, x)

Spec == Init /\ [][Next]_vars

----------------------------------------------------------------------------
(* Properties.                                                             *)

\* "Cleans BOTH project-scoped and user-scoped entries - uninstall removes the agent
\* regardless of which scope the install used" (uninstall.ts): until an agent is claimed
\* again no file of the machine or of that project that could be read and written has an
\* entry, not even when a refresh was waiting for its reply meanwhile.
UninstallHolds ==
    \A d \in gone : \A p \in Host \X {"home", d} : p \in left \/ file[p].entry = None

\* A command that ran to its end is obeyed: Claude and Cursor, where they were found, act
\* in its directory as the agent it claimed, whatever older entries and refreshes left
\* there. Not so for onboard on a machine that install named, nor for a host whose file
\* could not be read or written.
InstalledAgentActs ==
    job # None /\ job.done /\ (job.by = "onboard" => config.agent = None)
        => \A h \in {"claude", "cursor"} \cap job.found :
               (\A w \in {job.dir, "home"} : <<h, w>> \notin left /\ At(h, w).state # "broken")
                   => /\ Effective(h, job.dir) = job.me
                      /\ key[job.me.path] = job.me.agent

\* mergeJsonFile read nothing of a file that it could not parse.
OverwritesUnreadable(p) ==
    /\ seen # None /\ seen.state = "broken" /\ p = InHand
    /\ Head(todo).op = "merge" /\ p[1] \in {"claude", "cursor"}

\* uninstall cuts out the block, and what follows it.
CutsWithBlock(p) == p[1] = "codex" /\ file[p].under /\ file'[p].entry = None

\* What the owner of a file wrote while no command ran is not lost by one, however files
\* are edited, read and written after that: an unreadable .factory/mcp.json goes into a
\* copy first. Two losses are the code's: a set-up overwrites ("overwrite if unreadable")
\* a configuration of Claude or Cursor that it could not parse, and uninstall removes
\* what has no header of its own under Codex's block.
UserContentKept ==
    [][\A p \in Place :
          \/ file'[p].user >= kept[p]
          \/ p[1] = "factory" /\ backup'[p[2]] >= kept[p]
          \/ OverwritesUnreadable(p) \/ CutsWithBlock(p)]_vars

\* Markers gone missing, patterns in a platform's name, refresh after refresh: text that
\* the user added to a document that the tool did not begin stays, every piece of it.
UserTextKept ==
    [][\A d \in Dir, x \in {"CLAUDE.md", "AGENTS.md", "SKILL.md"} :
          ~isAgentValetGeneratedDoc(docs[d][x])
              => Cardinality(Positions(docs'[d][x], "user"))
                 >= Cardinality(Positions(docs[d][x], "user"))]_vars
=============================================================================
