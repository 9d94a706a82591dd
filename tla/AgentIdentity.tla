---------------------------- MODULE AgentIdentity ----------------------------
(***************************************************************************)
(* The agent's identity on one machine, used from one project directory:   *)
(* every command that writes it and every program that reads it.           *)
(*                                                                         *)
(*   writers   mcp-server/src/bind.ts; cli/src/commands/{claim, install,   *)
(*             inject, onboard, uninstall}.ts; cli/src/save.ts; register.py *)
(*   readers   mcp-server/src/config.ts and pem.ts; cli require-agent.ts   *)
(*                                                                         *)
(* A key is modelled as the agent that the proxy knows it for: every       *)
(* writer writes a key only after the proxy has tied it to that agent.     *)
(* Writes of different files are different steps, and a command may die    *)
(* between them.  Named agents (claim --label) have a directory to         *)
(* themselves and are left out.  The proxy is external.                    *)
(***************************************************************************)
EXTENDS Naturals

CONSTANTS
    Agent, Owner, OwnerOf,   \* the agents of the run and their owners
    None,                    \* a missing file, an undefined field
    Proc,                    \* commands that may run at the same time
    LosesReplies,            \* the proxy's answer may be lost
    MaxCrashes,              \* bound: commands that die
    MaxStarts                \* bound: commands started

Path == {"home", "project"}   \* the two places of agent.key

Bootstraps == {"bind", "claim", "install", "register", "onboard"}   \* these post a secret
Writers    == Bootstraps \cup {"inject"}
Commands   == Writers \cup {"uninstall", "signout"}

ASSUME AgentAssumption ==
    /\ OwnerOf \in [Agent -> Owner]
    /\ None \notin Agent \cup Owner \cup Path
    /\ None \notin [agent : Agent, owner : Owner, key : Agent]
ASSUME BoundAssumption ==
    /\ LosesReplies \in BOOLEAN
    /\ MaxCrashes \in Nat /\ MaxStarts \in Nat

VARIABLES
    key,           \* ~/.agentvalet/agent.key
    agentJson,     \* ~/.agentvalet/agent.json
    config,        \* ~/.agentvalet/config.json
    envFile,       \* .env.agentvalet in the project
    projectKey,    \* .agentvalet/agent.key in the project
    spent,         \* agents whose one-time secret the proxy has taken
    pc, command, who,   \* per process: where it is, what it runs, for which agent
    ran,           \* history: the commands used on this machine so far, and "unwritten"
                   \* once one could not write .env.agentvalet
    crashes, starts

home    == <<key, agentJson, config>>
project == <<envFile, projectKey>>
procs   == <<pc, command, who>>
vars    == <<home, project, procs, spent, ran, crashes, starts>>

\* The fields of config.json that the readers use.
Config == [agentId : Agent \cup {None}, ownerId : Owner \cup {None}, keyPath : Path \cup {None},
           lastAgentId : Agent \cup {None}, lastKeyPath : Path \cup {None}]
NoConfig == [agentId |-> None, ownerId |-> None, keyPath |-> None,
             lastAgentId |-> None, lastKeyPath |-> None]

\* .env.agentvalet: an agent, its owner and the path of its key.
EnvFile == [agent : Agent, path : Path]

Init ==
    /\ key = None /\ agentJson = None /\ config = NoConfig
    /\ envFile = None /\ projectKey = None
    /\ spent = {} /\ ran = {}
    /\ pc = [p \in Proc |-> "idle"] /\ command = [p \in Proc |-> None]
    /\ who = [p \in Proc |-> None]
    /\ crashes = 0 /\ starts = 0

----------------------------------------------------------------------------
(* The readers.  An identity is what a token is signed with: the agent and *)
(* owner it names, and the agent the signing key belongs to.               *)

\* The `??` of TypeScript.
First(a, b) == IF a # None THEN a ELSE b
KeyAt(path) == IF path = "home" THEN key ELSE projectKey

\* config.ts path 2: both files or nothing.
ServerIdentity ==
    IF agentJson # None /\ key # None
    THEN [agent |-> agentJson, owner |-> OwnerOf[agentJson], key |-> key]
    ELSE None

\* tryResolveAgent: config.json, then .env.agentvalet where it is incomplete.
CliIdentity ==
    LET agent0 == First(config.agentId, config.lastAgentId)
        path0  == First(First(config.keyPath, config.lastKeyPath), "home")
        legacy == envFile # None /\ (agent0 = None \/ config.ownerId = None)
        agent  == IF legacy THEN First(agent0, envFile.agent) ELSE agent0
        owner  == IF legacy THEN First(config.ownerId, OwnerOf[envFile.agent]) ELSE config.ownerId
        path   == IF legacy THEN envFile.path ELSE path0
    IN  IF agent = None \/ owner = None \/ KeyAt(path) = None
        THEN None
        ELSE [agent |-> agent, owner |-> owner, key |-> KeyAt(path)]

----------------------------------------------------------------------------
(* The commands.                                                           *)

Goto(p, next) == pc' = [pc EXCEPT ![p] = next]

\* bind does not look at the disk.
Unchecked == TRUE

\* validateConfig reaches path 3 only where there is no disk identity.
BindMayStart == ServerIdentity = None

\* claim refuses where there is a key.
ClaimMayStart == key = None

\* Signing in replaces the owner in config.json before there is an agent.
Login(ag) == [config EXCEPT !.ownerId = OwnerOf[ag]]

\* A command begins for an agent; those but bind and claim overwrite what is there.
Start(p, c, ag) ==
    /\ pc[p] = "idle" /\ c \in Writers /\ starts < MaxStarts
    /\ c = "bind" => BindMayStart
    /\ c = "claim" => ClaimMayStart
    /\ Goto(p, IF c \in Bootstraps THEN "posting" ELSE "accepted")
    /\ command' = [command EXCEPT ![p] = c] /\ who' = [who EXCEPT ![p] = ag]
    /\ ran' = ran \cup {c} /\ starts' = starts + 1
    /\ config' = IF c = "onboard" THEN Login(ag) ELSE config
    /\ UNCHANGED <<key, agentJson, project, spent, crashes>>

\* The proxy takes a one-time secret once; it answers 410 afterwards.
Post(p) ==
    /\ pc[p] = "posting"
    /\ \/ who[p] \in spent /\ Goto(p, "gone") /\ UNCHANGED spent
       \/ /\ who[p] \notin spent /\ spent' = spent \cup {who[p]}
          /\ Goto(p, "accepted") \/ (LosesReplies /\ Goto(p, "failed"))
    /\ UNCHANGED <<home, project, command, who, ran, crashes, starts>>

\* onboard keeps the key in the project, the others in the home directory.
WriteKey(p) ==
    /\ pc[p] = "accepted"
    /\ IF command[p] = "onboard"
       THEN projectKey' = who[p] /\ UNCHANGED key
       ELSE key' = who[p] /\ UNCHANGED projectKey
    /\ Goto(p, "keyed")
    /\ UNCHANGED <<agentJson, config, envFile, spent, command, who, ran, crashes, starts>>

\* saveConfig as install, inject, register and save.ts call it.
Named(ag) ==
    [agentId |-> ag, ownerId |-> OwnerOf[ag], keyPath |-> "home",
     lastAgentId |-> ag, lastKeyPath |-> "home"]

\* saveConfig as onboard calls it: the legacy fields only.
Onboarded(ag) == [config EXCEPT !.lastAgentId = ag, !.lastKeyPath = "project"]

\* A configuration that already names an agent is kept.
WriteNameOnce(p) ==
    /\ pc[p] = "keyed"
    /\ IF command[p] \in {"bind", "claim"}
       THEN agentJson' = who[p] /\ UNCHANGED config
       ELSE /\ config' = IF config.lastAgentId # None THEN config
                         ELSE IF command[p] = "onboard"
                         THEN Onboarded(who[p])
                         ELSE Named(who[p])
            /\ UNCHANGED agentJson
    /\ Goto(p, IF command[p] \in {"install", "onboard"} THEN "named" ELSE "idle")
    /\ UNCHANGED <<key, project, spent, command, who, ran, crashes, starts>>

\* bind and claim name the agent in agent.json, the others in config.json.
WriteName(p) ==
    /\ pc[p] = "keyed"
    /\ IF command[p] \in {"bind", "claim"}
       THEN agentJson' = who[p] /\ UNCHANGED config
       ELSE /\ config' = IF command[p] = "onboard"
                         THEN Onboarded(who[p])
                         ELSE Named(who[p])
            /\ UNCHANGED agentJson
    /\ Goto(p, IF command[p] \in {"install", "onboard"} THEN "named" ELSE "idle")
    /\ UNCHANGED <<key, project, spent, command, who, ran, crashes, starts>>

\* The path of the key is left out of .env.agentvalet.
WriteEnvPathless(p) ==
    /\ pc[p] = "named" /\ envFile' = [agent |-> who[p]] /\ Goto(p, "idle")
    /\ UNCHANGED <<home, projectKey, spent, command, who, ran, crashes, starts>>

\* .env.agentvalet, for programs that are not MCP hosts.
WriteEnv(p) ==
    /\ pc[p] = "named"
    /\ envFile' = [agent |-> who[p], path |-> IF command[p] = "onboard" THEN "project" ELSE "home"]
    /\ Goto(p, "idle")
    /\ UNCHANGED <<home, projectKey, spent, command, who, ran, crashes, starts>>

\* "non-fatal": the command goes on without a word.
WriteEnvFails(p) ==
    /\ pc[p] = "named" /\ Goto(p, "idle") /\ ran' = ran \cup {"unwritten"}
    /\ UNCHANGED <<home, project, spent, command, who, crashes, starts>>

\* A rejected or failed command reports and exits.
Exit(p) ==
    /\ pc[p] \in {"gone", "failed"} /\ Goto(p, "idle")
    /\ UNCHANGED <<home, project, spent, command, who, ran, crashes, starts>>

Crash(p) ==
    /\ pc[p] # "idle" /\ crashes < MaxCrashes
    /\ Goto(p, "idle") /\ crashes' = crashes + 1
    /\ UNCHANGED <<home, project, spent, command, who, ran, starts>>

\* cleanLocally, one synchronous function: the home directory and, run in the project,
\* its files too.
Uninstall(p, inProject) ==
    /\ pc[p] = "idle" /\ starts < MaxStarts
    /\ key' = None /\ agentJson' = None /\ config' = NoConfig
    /\ IF inProject THEN envFile' = None /\ projectKey' = None ELSE UNCHANGED project
    /\ ran' = ran \cup {"uninstall"} /\ starts' = starts + 1
    /\ UNCHANGED <<procs, spent, crashes>>

\* "Sign out and use a different account": clearConfig.
SignOut(p) ==
    /\ pc[p] = "idle" /\ starts < MaxStarts
    /\ config' = NoConfig /\ ran' = ran \cup {"signout"} /\ starts' = starts + 1
    /\ UNCHANGED <<key, agentJson, project, procs, spent, crashes>>

Step(p) ==
    \/ \E c \in Writers, ag \in Agent : Start(p, c, ag)
    \/ Post(p) \/ WriteKey(p) \/ WriteName(p) \/ WriteEnv(p) \/ WriteEnvFails(p)
    \/ Exit(p) \/ Crash(p)
    \/ \E inProject \in BOOLEAN : Uninstall(p, inProject)
    \/ SignOut(p)

Next == \E p \in Proc : Step(p)

Spec == Init /\ [][Next]_vars

----------------------------------------------------------------------------
(* Properties.                                                             *)

\* Every file and process has its type.
TypeOK ==
    /\ key \in Agent \cup {None} /\ agentJson \in Agent \cup {None} /\ config \in Config
    /\ envFile \in EnvFile \cup {None} /\ projectKey \in Agent \cup {None}
    /\ spent \subseteq Agent /\ ran \subseteq Commands \cup {"unwritten"}
    /\ pc \in [Proc -> {"idle", "posting", "accepted", "keyed", "named", "gone", "failed"}]
    /\ command \in [Proc -> Writers \cup {None}] /\ who \in [Proc -> Agent \cup {None}]
    /\ crashes \in Nat /\ starts \in Nat

Quiet == \A p \in Proc : pc[p] = "idle"
Consistent(id) == id # None => id.owner = OwnerOf[id.agent] /\ id.key = id.agent

\* What a machine was set up with: the MCP server and claim; the commands that write
\* config.json in full; the interactive flow, as long as it could write its files.
BoundByServer == ran \subseteq {"bind", "claim", "uninstall", "signout"}
SetUpByCli    == ran \subseteq {"install", "inject", "register", "uninstall", "unwritten"} /\ crashes = 0
Interactive   == ran \subseteq {"onboard", "uninstall", "signout"} /\ crashes = 0

\* A machine bound only by the MCP server and claim, one after another, whatever dies or is
\* lost: the server never signs for one agent with the key of another.
ServerSignsAsItself == BoundByServer => Consistent(ServerIdentity)

\* A machine set up by commands that ran to their end one after another: the CLI, run when
\* no command is, never signs for one agent with the key or under the owner of another.
CliSignsAsItself == SetUpByCli /\ Quiet => Consistent(CliIdentity)

\* "Write .env.agentvalet so the `refresh` command and legacy tooling can find
\* credentials" (onboard.ts): after interactive flows alone, one after another and each able
\* to write that file, across sign-outs and uninstalls from either place, the CLI acts as
\* the agent last registered in this project, with that agent's key.
ProjectAgentIsUsed ==
    Interactive /\ Quiet /\ envFile # None
        => CliIdentity # None /\ CliIdentity.agent = envFile.agent /\ CliIdentity.key = envFile.agent
=============================================================================
