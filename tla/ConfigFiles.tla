----------------------------- MODULE ConfigFiles -----------------------------
(***************************************************************************)
(* One MCP configuration file of an agent host, and what the tool does to  *)
(* it (cli/src/config/ide.ts, commands/uninstall.ts, commands/refresh.ts). *)
(*                                                                         *)
(* A file holds what its owner wrote and at most one agentvalet entry.     *)
(* The writers of ide.ts read a file and write it after an await: `seen`   *)
(* is what was read, `now` what the file holds when it is written.         *)
(***************************************************************************)
EXTENDS Naturals

CONSTANTS
    None,
    Agent,
    Dir      \* project directories

ASSUME NoneAssumption == None \notin [agent : Agent, path : {"home"} \cup Dir]
ASSUME HomeAssumption == "home" \notin Dir

Where == {"home"} \cup Dir

\* AGENT_ID and AGENT_PRIVATE_KEY_PATH of an entry: ~/.agentvalet or the project's.
Entry == [agent : Agent, path : Where]

\* `user`: the last edit of its owner that the file still contains with all that it held
\* then, 0 for none.  `under`: text of the owner follows Codex's block after a blank line,
\* without a header of its own.
File == [state : {"absent", "readable", "broken"}, entry : Entry \cup {None}, user : Nat,
         under : BOOLEAN]
Absent == [state |-> "absent", entry |-> None, user |-> 0, under |-> FALSE]

\* Overwritten if unreadable.
mergeJsonFile(seen, e) ==
    [state |-> "readable", entry |-> e, under |-> FALSE,
     user |-> IF seen.state = "broken" THEN 0 ELSE seen.user]

\* An unreadable file is copied to .backup before it is overwritten.
mergeFactoryDroidMcpJson(now, seen, e) ==
    IF seen.state = "readable" /\ seen.entry # None THEN now ELSE mergeJsonFile(seen, e)

\* The block is appended as text, whether or not the rest parses.
appendCodexConfig(now, seen, e) ==
    IF seen.entry # None
    THEN now
    ELSE [now EXCEPT !.state = IF @ = "absent" THEN "readable" ELSE @, !.entry = e]

stripAgentvaletFromMcpJson(now, seen) ==
    IF seen.state = "readable" /\ seen.entry # None THEN [seen EXCEPT !.entry = None] ELSE now

\* The same for uninstall, which reads and writes without an await.
stripMcpJson(now) == stripAgentvaletFromMcpJson(now, now)

\* From the block's header to the next header or the end of the file.
stripCodexTomlAt(now) ==
    IF now.entry = None THEN now
    ELSE [now EXCEPT !.entry = None, !.under = FALSE, !.user = IF now.under THEN 0 ELSE @]
=============================================================================
