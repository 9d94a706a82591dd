----------------------------- MODULE AutoRegister -----------------------------
(***************************************************************************)
(* The editor extension: registration on start-up, when the GitHub session *)
(* changes and by command, signing out, and the status bar, in one editor  *)
(* window.  A handler runs alone between two awaits; several may be under  *)
(* way.  The registration is kept in the editor's global state (in memory  *)
(* at once, on disk later), the private key in its secret storage.  The    *)
(* status bar is the one of agentvalet.showStatusBar = true.               *)
(***************************************************************************)
CONSTANTS
    Handlers,   \* the activations of a command, timer or event that may be under way
    Agent,      \* the agents that the API may name
    None

ASSUME NoneAssumption == None \notin Agent

VARIABLES
    at,         \* where each handler is
    kind,       \* "auto", "command" or "signOut" while it is under way
    agent,      \* the agent it registers or signs out
    state,      \* agentvaletState: the registered agent
    disk,       \* what of it a restart finds
    keys,       \* the agents whose key is in the secret storage
    agents,     \* the API's agents
    bar,        \* the status bar: an agent, None for "not registered", "settingUp"
    signedOut,  \* history: the agents whose key a sign-out deleted
    reloaded,   \* history: the window was reloaded or the editor crashed
    givenUp     \* history: a re-registration cleared the state and came to nothing

editor == <<at, kind, agent, state, disk, keys, agents, bar, signedOut, reloaded, givenUp>>

EditorInit ==
    /\ at = [h \in Handlers |-> "idle"] /\ kind = [h \in Handlers |-> "none"]
    /\ agent = [h \in Handlers |-> None] /\ state = None /\ disk = None /\ keys = {} /\ agents = {} /\ bar = None
    /\ signedOut = {} /\ reloaded = FALSE /\ givenUp = FALSE

isRegistered == state # None

----------------------------------------------------------------------------
(* Steps that the handlers share.                                          *)

MoveTo(h, place) == at' = [at EXCEPT ![h] = place] /\ UNCHANGED kind
Begin(h, what, place) ==
    /\ at[h] = "idle" /\ at' = [at EXCEPT ![h] = place] /\ kind' = [kind EXCEPT ![h] = what]
Return(h) ==
    /\ at' = [at EXCEPT ![h] = "idle"] /\ kind' = [kind EXCEPT ![h] = "none"]
    /\ agent' = [agent EXCEPT ![h] = None]

\* The bar shows what is registered.
updateStatusBar(registered) == bar' = registered /\ givenUp' = FALSE

\* A failed attempt hides the bar and leaves it so.
GiveUpHidden(h) ==
    /\ Return(h)
    /\ IF kind[h] = "auto" THEN bar' = "hidden" /\ UNCHANGED givenUp ELSE UNCHANGED <<bar, givenUp>>

\* The catch of either text: the caller of an automatic attempt updates the bar after it.
GiveUp(h) ==
    /\ Return(h)
    /\ IF kind[h] = "auto" THEN updateStatusBar(state) ELSE UNCHANGED <<bar, givenUp>>

----------------------------------------------------------------------------
(* Registration.  The automatic attempt and the command share all but      *)
(* their beginning, the bar and what they do when they fail.               *)

\* From the timer of activate, which only updates the bar where an agent is registered, and
\* from onDidChangeSessions, which then does nothing.
attemptAutoRegistration(h) ==
    /\ \/ ~isRegistered /\ Begin(h, "auto", "session") /\ UNCHANGED <<bar, givenUp>>
       \/ isRegistered /\ at[h] = "idle" /\ UNCHANGED <<at, kind>> /\ updateStatusBar(state)
    /\ UNCHANGED <<agent, state, disk, keys, agents, signedOut, reloaded>>

register(h) ==
    /\ Begin(h, "command", IF isRegistered THEN "asked" ELSE "session")
    /\ UNCHANGED <<agent, state, disk, keys, agents, bar, signedOut, reloaded, givenUp>>

\* "Open dashboard" goes on to register another agent as well.
OpenDashboard(h) ==
    /\ at[h] = "asked" /\ MoveTo(h, "session")
    /\ UNCHANGED <<agent, state, disk, keys, agents, bar, signedOut, reloaded, givenUp>>

\* Whatever is registered when the answer comes is cleared.
Reregister(h) ==
    /\ at[h] = "asked"
    /\ \/ MoveTo(h, "session") /\ state' = None /\ givenUp' = TRUE /\ UNCHANGED agent
       \/ Return(h) /\ UNCHANGED <<state, givenUp>>
    /\ UNCHANGED <<disk, keys, agents, bar, signedOut, reloaded>>

\* Silent: no session, or one that exists.
getExistingGitHubSession(h) ==
    /\ at[h] = "session" /\ kind[h] = "auto"
    /\ \/ Return(h) /\ updateStatusBar(state)
       \/ MoveTo(h, "account") /\ bar' = "settingUp" /\ UNCHANGED <<agent, givenUp>>
    /\ UNCHANGED <<state, disk, keys, agents, signedOut, reloaded>>

\* May ask the user, who may cancel.
requestGitHubSession(h) ==
    /\ at[h] = "session" /\ kind[h] = "command"
    /\ Return(h) \/ (MoveTo(h, "account") /\ UNCHANGED agent)
    /\ UNCHANGED <<state, disk, keys, agents, bar, signedOut, reloaded, givenUp>>

\* The mail addresses, then the account.
createOrFindAccount(h) ==
    /\ at[h] = "account" /\ MoveTo(h, "registering")
    /\ UNCHANGED <<agent, state, disk, keys, agents, bar, signedOut, reloaded, givenUp>>

\* The API registers the agent; the reply, the only copy of the key, may be lost.
registerAgent(h) ==
    \E new \in Agent \ agents :
        /\ at[h] = "registering" /\ agents' = agents \cup {new}
        /\ \/ MoveTo(h, "storing") /\ agent' = [agent EXCEPT ![h] = new] /\ UNCHANGED <<bar, givenUp>>
           \/ GiveUp(h)
        /\ UNCHANGED <<state, disk, keys, signedOut, reloaded>>

\* The registration is noted first, and its key is forgotten when the editor cannot store it.
StoreKeyLater(h) ==
    /\ at[h] = "storing" /\ MoveTo(h, "setting") /\ state' = agent[h]
    /\ UNCHANGED <<agent, disk, keys, agents, bar, signedOut, reloaded, givenUp>>

StoreKey(h) ==
    /\ at[h] = "storing" /\ MoveTo(h, "setting") /\ keys' = keys \cup {agent[h]}
    /\ UNCHANGED <<agent, state, disk, agents, bar, signedOut, reloaded, givenUp>>

\* store.set; an automatic attempt updates the bar when its message has been dismissed.
SetState(h) ==
    /\ at[h] = "setting" /\ MoveTo(h, "toast") /\ state' = agent[h]
    /\ IF kind[h] = "command" THEN updateStatusBar(agent[h]) ELSE UNCHANGED <<bar, givenUp>>
    /\ UNCHANGED <<agent, disk, keys, agents, signedOut, reloaded>>

showInformationMessage(h) ==
    /\ at[h] = "toast" /\ Return(h)
    /\ IF kind[h] = "auto" THEN updateStatusBar(state) ELSE UNCHANGED <<bar, givenUp>>
    /\ UNCHANGED <<state, disk, keys, agents, signedOut, reloaded>>

Fail(h) ==
    /\ at[h] \in {"account", "registering", "storing"} /\ GiveUp(h)
    /\ UNCHANGED <<state, disk, keys, agents, signedOut, reloaded>>

----------------------------------------------------------------------------
(* Signing out.                                                            *)

signOut(h) ==
    /\ Begin(h, "signOut", "confirm")
    /\ UNCHANGED <<agent, state, disk, keys, agents, bar, signedOut, reloaded, givenUp>>

\* The agent of this moment is the one whose key goes.
Confirm(h) ==
    /\ at[h] = "confirm"
    /\ \/ isRegistered /\ MoveTo(h, "deleting") /\ agent' = [agent EXCEPT ![h] = state]
       \/ ~isRegistered /\ MoveTo(h, "clearing") /\ UNCHANGED agent
       \/ Return(h)
    /\ UNCHANGED <<state, disk, keys, agents, bar, signedOut, reloaded, givenUp>>

DeleteKey(h) ==
    /\ at[h] = "deleting"
    /\ \/ /\ MoveTo(h, "clearing") /\ UNCHANGED agent
          /\ keys' = keys \ {agent[h]} /\ signedOut' = signedOut \cup {agent[h]}
       \/ Return(h) /\ UNCHANGED <<keys, signedOut>>
    /\ UNCHANGED <<state, disk, agents, bar, reloaded, givenUp>>

\* store.clear: of what is registered now, not of what was when the user confirmed.
ClearState(h) ==
    /\ at[h] = "clearing" /\ Return(h)
    /\ state' = None /\ updateStatusBar(None)
    /\ UNCHANGED <<disk, keys, agents, signedOut, reloaded>>

----------------------------------------------------------------------------
(* The editor: the state reaches the disk, or does not before a restart.   *)

Flush ==
    /\ disk' = state
    /\ UNCHANGED <<at, kind, agent, state, keys, agents, bar, signedOut, reloaded, givenUp>>

activate ==
    /\ at' = [h \in Handlers |-> "idle"] /\ kind' = [h \in Handlers |-> "none"]
    /\ agent' = [h \in Handlers |-> None]
    /\ state' = disk /\ reloaded' = TRUE /\ updateStatusBar(disk)
    /\ UNCHANGED <<disk, keys, agents, signedOut>>

EditorNext ==
    \/ \E h \in Handlers :
        \/ attemptAutoRegistration(h) \/ register(h) \/ OpenDashboard(h) \/ Reregister(h)
        \/ getExistingGitHubSession(h) \/ requestGitHubSession(h) \/ createOrFindAccount(h)
        \/ registerAgent(h) \/ StoreKey(h) \/ SetState(h) \/ showInformationMessage(h) \/ Fail(h)
        \/ signOut(h) \/ Confirm(h) \/ DeleteKey(h) \/ ClearState(h)
    \/ Flush \/ activate

EditorSpec == EditorInit /\ [][EditorNext]_editor

----------------------------------------------------------------------------
(* Properties.                                                             *)

\* Whatever attempts, commands, sign-outs and restarts overlap, an agent that the editor
\* takes for registered has its key, unless the user had that key deleted and the sign-out
\* that did it is still to clear the state or was cut off by a restart.
RegisteredHasKey ==
    isRegistered /\ state \notin keys =>
        /\ state \in signedOut
        /\ reloaded \/ \E h \in Handlers : at[h] = "clearing" /\ agent[h] = state

\* When nothing is under way the bar shows what is registered, whichever handler was the
\* last to write it, unless a re-registration was given up or failed.
BarTellsState == (\A h \in Handlers : at[h] = "idle") => bar = state \/ givenUp
=============================================================================
