------------------------ MODULE AgentIdentity_proofs ------------------------
(***************************************************************************)
(* Proofs about AgentIdentity.  Types hold whatever commands run together. *)
(* A machine bound only by the MCP server and by claim, one command at a   *)
(* time, never signs for one agent with the key of another, however        *)
(* often a command dies or the proxy's answer is lost: agent.json is       *)
(* written last, and only a machine without it is bound (Bound).           *)
(***************************************************************************)
EXTENDS AgentIdentity, TLAPS

\* A command that runs is one of the commands in use and has its agent.
Busy ==
    \A p \in Proc : pc[p] # "idle" => command[p] \in Writers /\ who[p] \in Agent

LEMMA InitTypes == Init => TypeOK /\ Busy
BY BoundAssumption DEF Init, TypeOK, Busy, Config, NoConfig

\* Every action keeps the types.
LEMMA TypesStep == TypeOK /\ Busy /\ [Next]_vars => TypeOK' /\ Busy'
<1> SUFFICES ASSUME TypeOK, Busy, [Next]_vars PROVE TypeOK' /\ Busy'
  OBVIOUS
<1> USE AgentAssumption DEF TypeOK, Busy, Config, EnvFile, Commands, Writers, Bootstraps
<1>1. ASSUME NEW p \in Proc, NEW c \in Writers, NEW ag \in Agent, Start(p, c, ag)
      PROVE TypeOK' /\ Busy'
  BY <1>1 DEF Start, Goto, Login, project
<1>2. ASSUME NEW p \in Proc, Post(p) PROVE TypeOK' /\ Busy'
  BY <1>2 DEF Post, Goto, home, project
<1>3. ASSUME NEW p \in Proc, WriteKey(p) PROVE TypeOK' /\ Busy'
  BY <1>3 DEF WriteKey, Goto
<1>4. ASSUME NEW p \in Proc, WriteName(p) PROVE TypeOK' /\ Busy'
  <2>1. who[p] \in Agent /\ Named(who[p]) \in Config
    BY <1>4 DEF WriteName, Named, Path
  <2>2. Onboarded(who[p]) \in Config
    BY <2>1 DEF Onboarded, Path
  <2>3. config' \in Config /\ agentJson' \in Agent \cup {None}
    BY <1>4, <2>1, <2>2 DEF WriteName
  <2> QED
    BY <1>4, <2>3 DEF WriteName, Goto, project
<1>5. ASSUME NEW p \in Proc, WriteEnv(p) PROVE TypeOK' /\ Busy'
  BY <1>5 DEF WriteEnv, Goto, Path, home
<1>6. ASSUME NEW p \in Proc, Exit(p) PROVE TypeOK' /\ Busy'
  BY <1>6 DEF Exit, Goto, home, project
<1>7. ASSUME NEW p \in Proc, Crash(p) PROVE TypeOK' /\ Busy'
  BY <1>7 DEF Crash, Goto, home, project
<1>8. ASSUME NEW p \in Proc, NEW b \in BOOLEAN, Uninstall(p, b) PROVE TypeOK' /\ Busy'
  BY <1>8 DEF Uninstall, NoConfig, project, procs
<1>9. ASSUME NEW p \in Proc, SignOut(p) PROVE TypeOK' /\ Busy'
  BY <1>9 DEF SignOut, NoConfig, project, procs
<1>10. CASE UNCHANGED vars
  BY <1>10 DEF vars, home, project, procs
<1>11. ASSUME NEW p \in Proc, WriteEnvFails(p) PROVE TypeOK' /\ Busy'
  BY <1>11 DEF WriteEnvFails, Goto, home, project
<1> QED
  BY <1>1, <1>2, <1>3, <1>4, <1>5, <1>6, <1>7, <1>8, <1>9, <1>10, <1>11 DEF Next, Step

\* The files and processes keep their types whatever commands run at the same time.
THEOREM TypeCorrect == Spec => []TypeOK
<1>1. TypeOK /\ Busy /\ [Next]_vars => (TypeOK /\ Busy)'
  BY TypesStep
<1> QED
  BY InitTypes, <1>1, PTL DEF Spec

----------------------------------------------------------------------------
(* A machine bound only by the MCP server and by claim.                    *)

OneAtATime == \A p, q \in Proc : p = q

\* agent.json names the owner of the key, and a command that will write both runs only
\* where there is no agent.json.
Bound ==
    BoundByServer =>
    /\ agentJson # None => key = agentJson
    /\ \A p \in Proc :
          /\ pc[p] # "idle" => command[p] \in {"bind", "claim"}
          /\ pc[p] # "named"
          /\ pc[p] \in {"posting", "accepted", "keyed"} => agentJson = None
          /\ pc[p] = "keyed" => key = who[p]

LEMMA InitBound == Init => Bound
BY DEF Init, Bound

\* Every action of such a machine keeps Bound.
LEMMA BoundStep ==
    ASSUME OneAtATime, TypeOK, Busy, Bound, [Next]_vars
    PROVE  Bound'
<1> SUFFICES ASSUME BoundByServer' PROVE Bound'
  BY DEF Bound
<1>0. BoundByServer
  BY DEF BoundByServer, Next, Step, Start, Post, WriteKey, WriteName, WriteEnv, WriteEnvFails, Exit,
         Crash,
         Uninstall, SignOut, vars
<1> USE <1>0, AgentAssumption DEF OneAtATime, TypeOK, Busy, Bound
<1>1. ASSUME NEW p \in Proc, NEW c \in Writers, NEW ag \in Agent, Start(p, c, ag)
      PROVE Bound'
  <2>1. /\ c \in {"bind", "claim"} /\ agentJson = None
        /\ c = "claim" => key = None
    <3>1. CASE c = "bind"
      <4>1. ServerIdentity = None
        BY <1>1, <3>1 DEF Start, BindMayStart
      <4>2. agentJson # None => key = agentJson /\ agentJson \in Agent /\ key # None
        BY AgentAssumption
      <4>3. agentJson # None => OwnerOf[agentJson] \in Owner
        BY <4>2, AgentAssumption
      <4> QED
        BY <3>1, <4>1, <4>2, <4>3, AgentAssumption DEF ServerIdentity
    <3>2. CASE c = "claim"
      BY <1>1, <3>2, AgentAssumption DEF Start, ClaimMayStart
    <3> QED
      BY <1>1, <3>1, <3>2 DEF Start, BoundByServer, Writers, Bootstraps
  <2> QED
    BY <1>1, <2>1 DEF Start, Goto, Bootstraps, project
<1>2. ASSUME NEW p \in Proc, Post(p) PROVE Bound'
  BY <1>2 DEF Post, Goto, home, project
<1>3. ASSUME NEW p \in Proc, WriteKey(p) PROVE Bound'
  BY <1>3 DEF WriteKey, Goto
<1>4. ASSUME NEW p \in Proc, WriteName(p) PROVE Bound'
  BY <1>4 DEF WriteName, Goto, project
<1>5. ASSUME NEW p \in Proc, WriteEnv(p) PROVE Bound'
  BY <1>5 DEF WriteEnv
<1>6. ASSUME NEW p \in Proc, Exit(p) PROVE Bound'
  BY <1>6 DEF Exit, Goto, home, project
<1>7. ASSUME NEW p \in Proc, Crash(p) PROVE Bound'
  BY <1>7 DEF Crash, Goto, home, project
<1>8. ASSUME NEW p \in Proc, NEW b \in BOOLEAN, Uninstall(p, b) PROVE Bound'
  BY <1>8 DEF Uninstall, procs
<1>9. ASSUME NEW p \in Proc, SignOut(p) PROVE Bound'
  BY <1>9 DEF SignOut, project, procs
<1>10. CASE UNCHANGED vars
  BY <1>10 DEF vars, home, project, procs
<1>11. ASSUME NEW p \in Proc, WriteEnvFails(p) PROVE Bound'
  BY <1>11 DEF WriteEnvFails, BoundByServer
<1> QED
  BY <1>1, <1>2, <1>3, <1>4, <1>5, <1>6, <1>7, <1>8, <1>9, <1>10, <1>11 DEF Next, Step

\* The server never signs with another agent's key: for any number of agents, crashes,
\* lost replies and uninstalls.
THEOREM ServerNeverMixed == ASSUME OneAtATime PROVE Spec => []ServerSignsAsItself
<1>1. Init => TypeOK /\ Busy /\ Bound
  BY InitTypes, InitBound
<1>2. TypeOK /\ Busy /\ Bound /\ [Next]_vars => (TypeOK /\ Busy /\ Bound)'
  BY TypesStep, BoundStep
<1>3. Bound => ServerSignsAsItself
  BY AgentAssumption DEF Bound, BoundByServer, ServerSignsAsItself, Consistent, ServerIdentity
<1> QED
  BY <1>1, <1>2, <1>3, PTL DEF Spec

----------------------------------------------------------------------------
(* A machine set up only by commands that write config.json in full.       *)

\* config.json names the owner of the key, except between the two writes.
Whole ==
    SetUpByCli =>
    /\ config = NoConfig \/ \E ag \in Agent : config = Named(ag)
    /\ envFile # None => envFile.path = "home"
    /\ \A p \in Proc :
          /\ pc[p] # "idle" => command[p] \notin {"bind", "claim", "onboard"}
          /\ pc[p] = "keyed" => key = who[p]
    /\ (\A p \in Proc : pc[p] # "keyed") => key = config.agentId

LEMMA InitWhole == Init => Whole
BY DEF Init, Whole, NoConfig

\* Every action of such a machine keeps Whole.
LEMMA WholeStep ==
    ASSUME OneAtATime, TypeOK, Busy, Whole, [Next]_vars
    PROVE  Whole'
<1> SUFFICES ASSUME SetUpByCli' PROVE Whole'
  BY DEF Whole
<1>0. SetUpByCli
  BY DEF TypeOK, SetUpByCli, Next, Step, Start, Post, WriteKey, WriteName, WriteEnv, WriteEnvFails, Exit,
         Crash,
         Uninstall, SignOut, vars
<1> USE <1>0, AgentAssumption DEF OneAtATime, TypeOK, Busy, Whole
<1>1. ASSUME NEW p \in Proc, NEW c \in Writers, NEW ag \in Agent, Start(p, c, ag)
      PROVE Whole'
  <2>1. c \in {"install", "inject", "register"} /\ config' = config
    BY <1>1 DEF Start, SetUpByCli, Writers, Bootstraps
  <2> QED
    BY <1>1, <2>1 DEF Start, Goto, Bootstraps, project
<1>2. ASSUME NEW p \in Proc, Post(p) PROVE Whole'
  BY <1>2 DEF Post, Goto, home, project
<1>3. ASSUME NEW p \in Proc, WriteKey(p) PROVE Whole'
  BY <1>3 DEF WriteKey, Goto
<1>4. ASSUME NEW p \in Proc, WriteName(p) PROVE Whole'
  <2>1. /\ config' = Named(who[p]) /\ key' = key /\ envFile' = envFile
        /\ UNCHANGED <<command, who>>
    BY <1>4 DEF WriteName, project
  <2>2. Named(who[p]).agentId = key /\ who[p] \in Agent
    BY <1>4 DEF WriteName, Named
  <2>3. pc' \in [Proc -> {"idle", "named"}]
    BY <1>4 DEF WriteName, Goto
  <2>4. \A q \in Proc : command'[q] \notin {"bind", "claim", "onboard"}
    BY <1>4, <2>1 DEF WriteName
  <2> QED
    BY <2>1, <2>2, <2>3, <2>4
<1>5. ASSUME NEW p \in Proc, WriteEnv(p) PROVE Whole'
  BY <1>5 DEF WriteEnv, Goto, home
<1>6. ASSUME NEW p \in Proc, Exit(p) PROVE Whole'
  BY <1>6 DEF Exit, Goto, home, project
<1>7. ASSUME NEW p \in Proc, Crash(p) PROVE Whole'
  BY <1>7 DEF Crash, SetUpByCli
<1>8. ASSUME NEW p \in Proc, NEW b \in BOOLEAN, Uninstall(p, b) PROVE Whole'
  BY <1>8 DEF Uninstall, NoConfig, project, procs
<1>9. ASSUME NEW p \in Proc, SignOut(p) PROVE Whole'
  BY <1>9 DEF SignOut, SetUpByCli
<1>10. CASE UNCHANGED vars
  BY <1>10 DEF vars, home, project, procs
<1>11. ASSUME NEW p \in Proc, WriteEnvFails(p) PROVE Whole'
  BY <1>11 DEF WriteEnvFails, Goto, home, project
<1> QED
  BY <1>1, <1>2, <1>3, <1>4, <1>5, <1>6, <1>7, <1>8, <1>9, <1>10, <1>11 DEF Next, Step

\* A machine whose files are whole gives the CLI an agent with its own owner and key.
LEMMA WholeIsConsistent == TypeOK /\ Whole => CliSignsAsItself
<1> SUFFICES ASSUME TypeOK, Whole, SetUpByCli, Quiet PROVE Consistent(CliIdentity)
  BY DEF CliSignsAsItself
<1>1. key = config.agentId
  BY DEF Whole, Quiet
<1>2. CASE config = NoConfig
  <2>1. key = None /\ config.agentId = None /\ config.ownerId = None
        /\ First(First(config.keyPath, config.lastKeyPath), "home") = "home"
    BY <1>1, <1>2 DEF NoConfig, First
  <2>2. CliIdentity = None
    BY <2>1 DEF CliIdentity, KeyAt, Whole
  <2> QED
    BY <2>2 DEF Consistent
<1>3. ASSUME NEW ag \in Agent, config = Named(ag) PROVE Consistent(CliIdentity)
  <2>1. /\ config.agentId = ag /\ config.ownerId = OwnerOf[ag]
        /\ config.keyPath = "home" /\ key = ag
    BY <1>1, <1>3 DEF Named
  <2>2. ag # None /\ OwnerOf[ag] # None /\ "home" # None
    BY AgentAssumption DEF Path
  <2>3. CliIdentity = [agent |-> ag, owner |-> OwnerOf[ag], key |-> ag]
    BY <2>1, <2>2 DEF CliIdentity, First, KeyAt
  <2> QED
    BY <2>3 DEF Consistent
<1> QED
  BY <1>2, <1>3 DEF Whole

\* The CLI never signs with another agent's key or under another's owner: for any
\* sequence of these commands that run to their end.
THEOREM CliNeverMixed == ASSUME OneAtATime PROVE Spec => []CliSignsAsItself
<1>1. Init => TypeOK /\ Busy /\ Whole
  BY InitTypes, InitWhole
<1>2. TypeOK /\ Busy /\ Whole /\ [Next]_vars => (TypeOK /\ Busy /\ Whole)'
  BY TypesStep, WholeStep
<1>3. TypeOK /\ Whole => CliSignsAsItself
  BY WholeIsConsistent
<1> QED
  BY <1>1, <1>2, <1>3, PTL DEF Spec

----------------------------------------------------------------------------
(* A machine set up only by the interactive flow.                          *)

\* config.json knows the agent of .env.agentvalet or none, and the project has that
\* agent's key, except between the writes of a registration.
Registered ==
    Interactive =>
    /\ config.agentId = None /\ config.keyPath = None
    /\ config.lastAgentId # None => config.lastKeyPath = "project"
    /\ envFile # None => envFile.path = "project"
    /\ \A p \in Proc :
          /\ pc[p] # "idle" => command[p] = "onboard"
          /\ pc[p] \in {"keyed", "named"} => projectKey = who[p]
          /\ pc[p] = "named" => config.lastAgentId = who[p]
    /\ (\A p \in Proc : pc[p] \notin {"keyed", "named"}) /\ envFile # None =>
          projectKey = envFile.agent /\ config.lastAgentId \in {None, envFile.agent}

LEMMA InitRegistered == Init => Registered
BY DEF Init, Registered, NoConfig

\* Every action of such a machine keeps Registered.
LEMMA RegisteredStep ==
    ASSUME OneAtATime, TypeOK, Busy, Registered, [Next]_vars
    PROVE  Registered'
<1> SUFFICES ASSUME Interactive' PROVE Registered'
  BY DEF Registered
<1>0. Interactive
  BY DEF TypeOK, Interactive, Next, Step, Start, Post, WriteKey, WriteName, WriteEnv, WriteEnvFails, Exit,
         Crash,
         Uninstall, SignOut, vars
<1> USE <1>0, AgentAssumption DEF OneAtATime, TypeOK, Busy, Registered
<1>1. ASSUME NEW p \in Proc, NEW c \in Writers, NEW ag \in Agent, Start(p, c, ag)
      PROVE Registered'
  <2>1. c = "onboard" /\ config' = Login(ag)
    BY <1>1 DEF Start, Interactive, Writers, Bootstraps
  <2>2. /\ config'.agentId = None /\ config'.keyPath = None
        /\ config'.lastAgentId = config.lastAgentId /\ config'.lastKeyPath = config.lastKeyPath
    BY <2>1 DEF Login, Config
  <2>3. UNCHANGED <<envFile, projectKey>> /\ pc[p] = "idle"
        /\ pc' = [pc EXCEPT ![p] = "posting"] /\ command' = [command EXCEPT ![p] = "onboard"]
    BY <1>1, <2>1 DEF Start, Goto, Bootstraps, project
  <2> QED
    BY <2>2, <2>3
<1>2. ASSUME NEW p \in Proc, Post(p) PROVE Registered'
  BY <1>2 DEF Post, Goto, home, project
<1>3. ASSUME NEW p \in Proc, WriteKey(p) PROVE Registered'
  BY <1>3 DEF WriteKey, Goto
<1>4. ASSUME NEW p \in Proc, WriteName(p) PROVE Registered'
  <2>1. config' = Onboarded(who[p]) /\ pc' = [pc EXCEPT ![p] = "named"] /\ pc[p] = "keyed"
        /\ UNCHANGED <<envFile, projectKey, command, who>>
    BY <1>4 DEF WriteName, Goto, project
  <2>2. /\ config'.agentId = None /\ config'.keyPath = None
        /\ config'.lastAgentId = who[p] /\ config'.lastKeyPath = "project"
    BY <2>1 DEF Onboarded, Config
  <2> QED
    BY <2>1, <2>2
<1>5. ASSUME NEW p \in Proc, WriteEnv(p) PROVE Registered'
  BY <1>5 DEF WriteEnv, Goto, home
<1>6. ASSUME NEW p \in Proc, Exit(p) PROVE Registered'
  BY <1>6 DEF Exit, Goto, home, project
<1>7. ASSUME NEW p \in Proc, Crash(p) PROVE Registered'
  BY <1>7 DEF Crash, Interactive
<1>8. ASSUME NEW p \in Proc, NEW b \in BOOLEAN, Uninstall(p, b) PROVE Registered'
  BY <1>8 DEF Uninstall, NoConfig, project, procs
<1>9. ASSUME NEW p \in Proc, SignOut(p) PROVE Registered'
  BY <1>9 DEF SignOut, NoConfig, project, procs
<1>10. CASE UNCHANGED vars
  BY <1>10 DEF vars, home, project, procs
<1>11. ASSUME NEW p \in Proc, WriteEnvFails(p) PROVE Registered'
  BY <1>11 DEF WriteEnvFails, Interactive
<1> QED
  BY <1>1, <1>2, <1>3, <1>4, <1>5, <1>6, <1>7, <1>8, <1>9, <1>10, <1>11 DEF Next, Step

\* Whichever of the two files the CLI reads, it finds the agent registered here.
LEMMA RegisteredIsUsed == TypeOK /\ Registered => ProjectAgentIsUsed
<1> SUFFICES ASSUME TypeOK, Registered, Interactive, Quiet, envFile # None
             PROVE  /\ CliIdentity # None /\ CliIdentity.agent = envFile.agent
                    /\ CliIdentity.key = envFile.agent
  BY DEF ProjectAgentIsUsed
<1>1. /\ config.agentId = None /\ config.keyPath = None
      /\ config.lastAgentId # None => config.lastKeyPath = "project"
      /\ envFile.path = "project" /\ projectKey = envFile.agent
      /\ config.lastAgentId \in {None, envFile.agent}
  BY DEF Registered, Quiet
<1>2. /\ envFile.agent \in Agent /\ envFile.agent # None /\ OwnerOf[envFile.agent] # None
      /\ "project" # None
  BY AgentAssumption DEF TypeOK, EnvFile, Path
<1>4. config.ownerId # None => config.ownerId \in Owner
  BY DEF TypeOK, Config
<1>3. KeyAt("project") = envFile.agent
  BY <1>1 DEF KeyAt
<1>5. CASE config.lastAgentId = None \/ config.ownerId = None
  <2> DEFINE owner == First(config.ownerId, OwnerOf[envFile.agent])
  <2>1. owner \in Owner /\ owner # None
    BY <1>2, <1>4, AgentAssumption DEF First
  <2>2. CliIdentity = [agent |-> envFile.agent, owner |-> owner, key |-> envFile.agent]
    BY <1>1, <1>2, <1>3, <1>5, <2>1 DEF CliIdentity, First
  <2> HIDE DEF owner
  <2> QED
    BY <2>1, <2>2, <1>2, AgentAssumption
<1>6. CASE config.lastAgentId # None /\ config.ownerId # None
  <2>1. CliIdentity = [agent |-> envFile.agent, owner |-> config.ownerId, key |-> envFile.agent]
    BY <1>1, <1>2, <1>3, <1>6 DEF CliIdentity, First
  <2> QED
    BY <2>1, <1>2, <1>6, <1>4, AgentAssumption
<1> QED
  BY <1>5, <1>6

\* After the interactive flow alone, across sign-outs, uninstalls and sign-ins of other
\* owners that came to nothing, the CLI acts as the project's agent with its key.
THEOREM ProjectAgentActs == ASSUME OneAtATime PROVE Spec => []ProjectAgentIsUsed
<1>1. Init => TypeOK /\ Busy /\ Registered
  BY InitTypes, InitRegistered
<1>2. TypeOK /\ Busy /\ Registered /\ [Next]_vars => (TypeOK /\ Busy /\ Registered)'
  BY TypesStep, RegisteredStep
<1>3. TypeOK /\ Registered => ProjectAgentIsUsed
  BY RegisteredIsUsed
<1> QED
  BY <1>1, <1>2, <1>3, PTL DEF Spec
=============================================================================
