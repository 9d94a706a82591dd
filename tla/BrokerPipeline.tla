--------------------------- MODULE BrokerPipeline ---------------------------
(***************************************************************************)
(* runPipeline (mcp-broker/src/pipeline.ts) for concurrent tool calls that *)
(* share one broker: its file policy source and file secret source with    *)
(* their lazy caches, an approval provider and an audit sink.              *)
(*                                                                         *)
(* A call runs synchronously between two awaits that wait for the outside  *)
(* (a file read, the approval provider, the handler, the redaction hook,   *)
(* the sink): each such stretch is one action, and other calls, edits of   *)
(* the two files and a crash of the process interleave between them.  A    *)
(* lazy load is two actions, because the read takes the file's contents    *)
(* at one time and the cache is assigned at a later one.                   *)
(***************************************************************************)
EXTENDS FilePolicy

CONSTANTS
    Server,           \* the MCP server's name
    Call,             \* the tool calls explored
    PolicyDocs,       \* documents the policy file may hold
    SecretMaps,       \* contents the secrets file may hold: [Ref -> Token \cup {Missing}]
    Token, Missing,   \* a secret; no usable entry for the reference
    Broken,           \* a file that cannot be read or parsed
    None,             \* null or undefined
    FailMode,         \* deps.failMode
    HasApproval,      \* deps.approval is configured
    IdentityMayThrow, \* deps.identity is the author's and may throw
    RedactMayThrow,   \* deps.redact is configured and may throw
    MaxEdits,         \* bound: edits of the two files
    MaxCrashes        \* bound: crashes of the process

ASSUME DocsAssumption    == PolicyDocs \subseteq PolicyDoc /\ Server \in Str
ASSUME SecretsAssumption == SecretMaps \subseteq [Ref -> Token \cup {Missing}]
ASSUME NoneAssumption ==
    /\ Broken \notin PolicyDocs \cup SecretMaps
    /\ None \notin PolicyDocs \cup SecretMaps /\ None \notin Token /\ None # Broken
    /\ Missing \notin Token
ASSUME ModeAssumption ==
    /\ FailMode \in {"closed", "open"}
    /\ {HasApproval, IdentityMayThrow, RedactMayThrow} \subseteq BOOLEAN
    /\ MaxEdits \in Nat /\ MaxCrashes \in Nat

VARIABLES
    policyFile, secretsFile,   \* the files on disk
    doc, secretMap,            \* FilePolicySource.doc, FileSecretSource.map
    auditLog,                  \* what the sink has stored
    pc, tool, raw, basis, decision, given, runs, emitted, reply,   \* per call
    approvals,                 \* calls the approval provider approved
    onDisk,                    \* contents the files have had since the process started
    edits, crashes

disk    == <<policyFile, secretsFile, onDisk, edits>>
control == <<pc, given, runs, emitted, reply>>
vars    == <<disk, control, doc, secretMap, auditLog, tool, raw, basis, decision,
             approvals, crashes>>

Outcome == {"allowed", "denied", "approval_denied", "approval_timeout", "handler_error"}

Finished == {"finished", "crashed"}

PC == {"idle", "reading", "loaded", "approving", "readingSecrets", "loadedSecrets",
       "handling", "redacting", "emitting", "returning"} \cup Finished

NoDecision == [effect |-> "none", obligations |-> {}]

Init ==
    /\ policyFile \in PolicyDocs \cup {Broken} /\ secretsFile \in SecretMaps \cup {Broken}
    /\ onDisk = {policyFile, secretsFile}
    /\ doc = None /\ secretMap = None /\ auditLog = <<>>
    /\ pc = [c \in Call |-> "idle"]
    /\ tool = [c \in Call |-> None] /\ raw = [c \in Call |-> None]
    /\ basis = [c \in Call |-> None] /\ decision = [c \in Call |-> NoDecision]
    /\ given = [c \in Call |-> None] /\ runs = [c \in Call |-> 0]
    /\ emitted = [c \in Call |-> <<>>] /\ reply = [c \in Call |-> "none"]
    /\ approvals = {} /\ edits = 0 /\ crashes = 0

----------------------------------------------------------------------------
(* The stretches of runPipeline between awaits.                            *)

\* `await emit(outcome, ..)` then `return`/`throw`: emitted[c] is what deps.audit.emit
\* has been called with; the sink's answer is awaited in "emitting".
Terminate(c, outcome, answer) ==
    /\ pc' = [pc EXCEPT ![c] = "emitting"]
    /\ emitted' = [emitted EXCEPT ![c] = Append(@, outcome)]
    /\ reply' = [reply EXCEPT ![c] = answer]
    /\ UNCHANGED <<given, runs>>

GoTo(c, p) ==
    /\ pc' = [pc EXCEPT ![c] = p]
    /\ UNCHANGED <<given, runs, emitted, reply>>

\* An author's hook threw outside any try: runPipeline rejects at once.
Throw(c) ==
    /\ pc' = [pc EXCEPT ![c] = "finished"] /\ reply' = [reply EXCEPT ![c] = "threw"]
    /\ UNCHANGED <<given, runs, emitted>>

\* 5. invoke(credential): broker.ts puts it on ctx.credential and calls the handler.
Invoke(c, credential) ==
    /\ pc' = [pc EXCEPT ![c] = "handling"]
    /\ runs' = [runs EXCEPT ![c] = @ + 1]
    /\ given' = [given EXCEPT ![c] = credential]
    /\ UNCHANGED <<emitted, reply>>

\* The entry is used without looking at what it holds.
ResolvedUnchecked(c, refs, map) == Invoke(c, map[CHOOSE r \in refs : TRUE])

\* A secret that cannot be found is treated as a tool that needs none.
ResolvedLeniently(c, refs, map) ==
    LET token == map[CHOOSE r \in refs : TRUE] IN
    Invoke(c, IF token = Missing THEN None ELSE token)

\* FileSecretSource.resolve once the map is loaded; no usable entry throws.
Resolved(c, refs, map) ==
    LET token == map[CHOOSE r \in refs : TRUE] IN
    \/ token = Missing /\ Terminate(c, "denied", "blocked")
    \/ token # Missing /\ Invoke(c, token)

\* 4. Resolve the credential, if the decision names one.
ResolveCredential(c, d) ==
    \/ d.obligations = {} /\ Invoke(c, None)
    \/ d.obligations # {} /\ secretMap = None /\ GoTo(c, "readingSecrets")
    \/ d.obligations # {} /\ secretMap # None /\ Resolved(c, d.obligations, secretMap)

\* An approval that no provider can give is skipped.
DecidedWithoutProvider(c, d) ==
    \/ d.effect = "deny" /\ Terminate(c, "denied", "blocked")
    \/ d.effect = "require_approval" /\ HasApproval /\ GoTo(c, "approving")
    \/ d.effect = "require_approval" /\ ~HasApproval /\ ResolveCredential(c, d)
    \/ d.effect = "allow" /\ ResolveCredential(c, d)

\* 2. and 3. Deny short-circuits; approval, if required.
Decided(c, d) ==
    \/ d.effect = "deny" /\ Terminate(c, "denied", "blocked")
    \/ d.effect = "require_approval" /\ ~HasApproval /\ Terminate(c, "approval_denied", "blocked")
    \/ d.effect = "require_approval" /\ HasApproval /\ GoTo(c, "approving")
    \/ d.effect = "allow" /\ ResolveCredential(c, d)

\* FilePolicySource.evaluate on a document, and the pipeline's use of its answer.
Evaluated(c, t, d) ==
    /\ basis' = [basis EXCEPT ![c] = d]
    /\ decision' = [decision EXCEPT ![c] = evaluate(d, Server, t)]
    /\ Decided(c, evaluate(d, Server, t))

\* 1. The policy source threw: failMode decides.
Unreachable(c) ==
    LET d == [effect |-> IF FailMode = "open" THEN "allow" ELSE "deny", obligations |-> {}] IN
    /\ basis' = [basis EXCEPT ![c] = Broken]
    /\ decision' = [decision EXCEPT ![c] = d]
    /\ Decided(c, d)

----------------------------------------------------------------------------
(* The actions.                                                            *)

\* The cache is not consulted: every call loads the file again.
StartUncached(c, t) ==
    /\ pc[c] = "idle"
    /\ tool' = [tool EXCEPT ![c] = t]
    /\ GoTo(c, "reading") /\ UNCHANGED <<basis, decision>>
    /\ UNCHANGED <<disk, doc, secretMap, auditLog, raw, approvals, crashes>>

\* A call arrives and deps.identity.resolve throws, before there is anything to audit.
Unidentified(c, t) ==
    /\ IdentityMayThrow /\ pc[c] = "idle"
    /\ tool' = [tool EXCEPT ![c] = t] /\ Throw(c)
    /\ UNCHANGED <<disk, doc, secretMap, auditLog, raw, basis, decision, approvals, crashes>>

\* A call arrives; FilePolicySource.load returns the cached document or reads.
Start(c, t) ==
    /\ pc[c] = "idle"
    /\ tool' = [tool EXCEPT ![c] = t]
    /\ \/ doc # None /\ Evaluated(c, t, doc)
       \/ doc = None /\ GoTo(c, "reading") /\ UNCHANGED <<basis, decision>>
    /\ UNCHANGED <<disk, doc, secretMap, auditLog, raw, approvals, crashes>>

\* readFile takes the contents the file has now.
ReadPolicy(c) ==
    /\ pc[c] = "reading"
    /\ raw' = [raw EXCEPT ![c] = policyFile]
    /\ GoTo(c, "loaded")
    /\ UNCHANGED <<disk, doc, secretMap, auditLog, tool, basis, decision, approvals, crashes>>

\* A file that cannot be read is read again.
FinishLoadRetrying(c) ==
    /\ pc[c] = "loaded"
    /\ raw' = [raw EXCEPT ![c] = None]
    /\ \/ raw[c] = Broken /\ GoTo(c, "reading") /\ UNCHANGED <<doc, basis, decision>>
       \/ raw[c] # Broken /\ doc' = raw[c] /\ Evaluated(c, tool[c], raw[c])
    /\ UNCHANGED <<disk, secretMap, auditLog, tool, approvals, crashes>>

\* A file that cannot be read or parsed is replaced by a built-in document.
FinishLoadOrDefault(c) ==
    /\ pc[c] = "loaded"
    /\ raw' = [raw EXCEPT ![c] = None]
    /\ \/ /\ raw[c] = Broken
          /\ \E d \in PolicyDocs : doc' = d /\ Evaluated(c, tool[c], d)
       \/ raw[c] # Broken /\ doc' = raw[c] /\ Evaluated(c, tool[c], raw[c])
    /\ UNCHANGED <<disk, secretMap, auditLog, tool, approvals, crashes>>

\* readFile's promise settles: parse, assign the cache, evaluate.
FinishLoad(c) ==
    /\ pc[c] = "loaded"
    /\ raw' = [raw EXCEPT ![c] = None]
    /\ \/ raw[c] = Broken /\ Unreachable(c) /\ UNCHANGED doc
       \/ raw[c] # Broken /\ doc' = raw[c] /\ Evaluated(c, tool[c], raw[c])
    /\ UNCHANGED <<disk, secretMap, auditLog, tool, approvals, crashes>>

\* Whatever the provider answered, the call goes on.
ApprovalIgnored(c, answer) ==
    /\ pc[c] = "approving"
    /\ ResolveCredential(c, decision[c]) /\ UNCHANGED approvals
    /\ UNCHANGED <<disk, doc, secretMap, auditLog, tool, raw, basis, decision, crashes>>

\* The provider settles: approved, declined, timed out, or it threw.
Approval(c, answer) ==
    /\ pc[c] = "approving"
    /\ \/ /\ answer = "approved"
          /\ approvals' = approvals \cup {c}
          /\ ResolveCredential(c, decision[c])
       \/ /\ answer # "approved"
          /\ Terminate(c, IF answer = "timeout" THEN "approval_timeout" ELSE "approval_denied",
                       "blocked")
          /\ UNCHANGED approvals
    /\ UNCHANGED <<disk, doc, secretMap, auditLog, tool, raw, basis, decision, crashes>>

ReadSecrets(c) ==
    /\ pc[c] = "readingSecrets"
    /\ raw' = [raw EXCEPT ![c] = secretsFile]
    /\ GoTo(c, "loadedSecrets")
    /\ UNCHANGED <<disk, doc, secretMap, auditLog, tool, basis, decision, approvals, crashes>>

\* Read or parse failure denies; otherwise assign the cache and look the secret up.
FinishSecrets(c) ==
    /\ pc[c] = "loadedSecrets"
    /\ raw' = [raw EXCEPT ![c] = None]
    /\ \/ raw[c] = Broken /\ Terminate(c, "denied", "blocked") /\ UNCHANGED secretMap
       \/ /\ raw[c] # Broken
          /\ secretMap' = raw[c]
          /\ Resolved(c, decision[c].obligations, raw[c])
    /\ UNCHANGED <<disk, doc, auditLog, tool, basis, decision, approvals, crashes>>

\* A handler that threw is not audited.
HandlerSettlesUnaudited(c) ==
    /\ pc[c] = "handling"
    /\ GoTo(c, "redacting") \/ Throw(c)
    /\ UNCHANGED <<disk, doc, secretMap, auditLog, tool, raw, basis, decision, approvals, crashes>>

\* The author's handler settles; its exception is audited and rethrown.
HandlerSettles(c) ==
    /\ pc[c] = "handling"
    /\ GoTo(c, "redacting") \/ Terminate(c, "handler_error", "threw")
    /\ UNCHANGED <<disk, doc, secretMap, auditLog, tool, raw, basis, decision, approvals, crashes>>

\* 6. Redact, outside any try: a hook that throws leaves runPipeline at once.
Redact(c) ==
    /\ pc[c] = "redacting"
    /\ \/ Terminate(c, "allowed", "ok")
       \/ RedactMayThrow /\ Throw(c)
    /\ UNCHANGED <<disk, doc, secretMap, auditLog, tool, raw, basis, decision, approvals, crashes>>

\* The event is written again when the sink reports a failure after storing it.
SinkSettlesTwice(c) ==
    /\ pc[c] = "emitting"
    /\ LET e == [call |-> c, outcome |-> emitted[c][Len(emitted[c])]] IN
       auditLog' \in {Append(auditLog, e), Append(Append(auditLog, e), e)}
    /\ GoTo(c, "returning")
    /\ UNCHANGED <<disk, doc, secretMap, tool, raw, basis, decision, approvals, crashes>>

\* The sink settles.  It stored the event, or not; that it threw is only logged.
SinkSettles(c) ==
    /\ pc[c] = "emitting"
    /\ \/ auditLog' = Append(auditLog, [call |-> c, outcome |-> emitted[c][Len(emitted[c])]])
       \/ UNCHANGED auditLog
    /\ GoTo(c, "returning")
    /\ UNCHANGED <<disk, doc, secretMap, tool, raw, basis, decision, approvals, crashes>>

\* runPipeline returns or rethrows to the MCP transport.
Return(c) ==
    /\ pc[c] = "returning"
    /\ GoTo(c, "finished")
    /\ UNCHANGED <<disk, doc, secretMap, auditLog, tool, raw, basis, decision, approvals, crashes>>

EditPolicy(f) ==
    /\ edits < MaxEdits /\ f # policyFile
    /\ policyFile' = f /\ edits' = edits + 1 /\ onDisk' = onDisk \cup {f}
    /\ UNCHANGED <<control, secretsFile, doc, secretMap, auditLog, tool, raw, basis, decision,
                   approvals, crashes>>

EditSecrets(f) ==
    /\ edits < MaxEdits /\ f # secretsFile
    /\ secretsFile' = f /\ edits' = edits + 1 /\ onDisk' = onDisk \cup {f}
    /\ UNCHANGED <<control, policyFile, doc, secretMap, auditLog, tool, raw, basis, decision,
                   approvals, crashes>>

\* The process dies and restarts: calls in flight and both caches are gone.
Crash ==
    /\ crashes < MaxCrashes
    /\ crashes' = crashes + 1
    /\ pc' = [c \in Call |-> IF pc[c] \in {"idle"} \cup Finished THEN pc[c] ELSE "crashed"]
    /\ doc' = None /\ secretMap' = None /\ raw' = [c \in Call |-> None]
    /\ onDisk' = {policyFile, secretsFile}
    /\ UNCHANGED <<policyFile, secretsFile, edits, auditLog, tool, basis, decision, given, runs,
                   emitted, reply, approvals>>

Step(c) ==
    \/ ReadPolicy(c) \/ FinishLoad(c)
    \/ \E answer \in {"approved", "declined", "timeout", "error"} : Approval(c, answer)
    \/ ReadSecrets(c) \/ FinishSecrets(c)
    \/ HandlerSettles(c) \/ Redact(c) \/ SinkSettles(c) \/ Return(c)

Next ==
    \/ \E c \in Call : (\E t \in Tool : Start(c, t) \/ Unidentified(c, t)) \/ Step(c)
    \/ \E f \in PolicyDocs \cup {Broken} : EditPolicy(f)
    \/ \E f \in SecretMaps \cup {Broken} : EditSecrets(f)
    \/ Crash

\* The event loop delivers what a call awaits: file reads settle, an approval
\* provider answers or times out, and a handler, a hook and a sink settle.
Fairness == \A c \in Call : WF_vars(Step(c))

Spec == Init /\ [][Next]_vars /\ Fairness

----------------------------------------------------------------------------
(* Properties.                                                             *)

Event == [call : Call, outcome : Outcome]

\* Every variable of the broker and of its calls has its declared type.
TypeOK ==
    /\ policyFile \in PolicyDocs \cup {Broken} /\ secretsFile \in SecretMaps \cup {Broken}
    /\ doc \in PolicyDocs \cup {None} /\ secretMap \in SecretMaps \cup {None}
    /\ auditLog \in Seq(Event)
    /\ pc \in [Call -> PC] /\ tool \in [Call -> Tool \cup {None}]
    /\ raw \in [Call -> PolicyDocs \cup SecretMaps \cup {Broken, None}]
    /\ basis \in [Call -> PolicyDocs \cup {Broken, None}]
    /\ decision \in [Call -> [effect : Effect \cup {"none"}, obligations : SUBSET Ref]]
    /\ given \in [Call -> Token \cup {None}] /\ runs \in [Call -> Nat]
    /\ emitted \in [Call -> Seq(Outcome)]
    /\ reply \in [Call -> {"none", "ok", "blocked", "threw"}]
    /\ approvals \in SUBSET Call
    /\ onDisk \subseteq PolicyDocs \cup SecretMaps \cup {Broken}
    /\ edits \in Nat /\ crashes \in Nat

\* What lets a call's handler run: the document it was decided by says allow for
\* its tool, or asks for an approval that was given for this very call, or the
\* policy was unreachable in the mode that allows on failure.
Authorised(c) ==
    \/ basis[c] \in PolicyDocs /\ WrittenEffect(basis[c], tool[c]) = "allow"
    \/ basis[c] \in PolicyDocs /\ WrittenEffect(basis[c], tool[c]) = "require_approval"
          /\ HasApproval /\ c \in approvals
    \/ basis[c] = Broken /\ FailMode = "open"

\* Whatever the interleaving of loads, approvals and edits, a handler only runs
\* when the rule written for its tool permits it ("a blocked call never reaches
\* the handler", broker.ts).
GateBeforeHandler == \A c \in Call : runs[c] > 0 => Authorised(c)

\* A call is decided by a policy, and runs with a secret, that were on disk at
\* some time since the process started: a restart makes an edit effective.
FreshSinceRestart ==
    [][\A c \in Call :
          /\ basis'[c] # basis[c] => basis'[c] \in onDisk
          /\ runs'[c] > runs[c] /\ given'[c] # None =>
                \E m \in onDisk \cap SecretMaps : given'[c] \in Range(m)]_vars

\* The handler runs at most once, and with the secret stored under the reference
\* its own rule names, never without it and never with another tool's.
RunsWithNamedCredential ==
    \A c \in Call :
        runs[c] > 0 =>
            /\ runs[c] = 1
            /\ IF basis[c] \in PolicyDocs /\ obligationsFor(basis[c], tool[c]) # {}
               THEN \E m \in SecretMaps, r \in obligationsFor(basis[c], tool[c]) : given[c] = m[r]
               ELSE given[c] = None

\* The event that describes what happened to a call.
Describes(outcome, c) ==
    CASE outcome = "allowed"       -> runs[c] = 1 /\ reply[c] = "ok"
      [] outcome = "handler_error" -> runs[c] = 1 /\ reply[c] = "threw"
      [] OTHER                     -> runs[c] = 0 /\ reply[c] = "blocked"

\* "Every terminating outcome emits exactly one conformant AuditEvent" (pipeline.ts),
\* "Each tool call emits one event" (the package's README): a call that ended has emitted
\* one event, and it says what was done.  Two hooks of the author can break it.
OneEventPerCall ==
    \A c \in Call :
        pc[c] = "finished" => Len(emitted[c]) = 1 /\ Describes(emitted[c][1], c)

\* What is left of it whatever the identity resolver does: a call that was decided, and
\* ended, has emitted the one event that says what was done; one that was not, because
\* its caller could not be identified, did nothing and its caller was told so.
OneEventPerDecision ==
    \A c \in Call :
        pc[c] = "finished" =>
            IF basis[c] = None
            THEN runs[c] = 0 /\ emitted[c] = <<>> /\ reply[c] = "threw"
            ELSE Len(emitted[c]) = 1 /\ Describes(emitted[c][1], c)

\* The stored log never claims what did not happen, in flight, after a crash or
\* with a failing sink: one entry per call at most, and it describes the call.
LogSound ==
    /\ \A j, k \in DOMAIN auditLog : auditLog[j].call = auditLog[k].call => j = k
    /\ \A k \in DOMAIN auditLog : Describes(auditLog[k].outcome, auditLog[k].call)

\* Once a document is cached and no load is in flight, the broker decides by that
\* document until it restarts: no later call reads the file again.
Settled == doc # None /\ \A c \in Call : pc[c] \notin {"reading", "loaded"}
CacheStaysSettled == [][Settled => (Settled' /\ doc' = doc) \/ crashes' # crashes]_vars

\* What the policy in force says of a call: the rule written for its tool, or the mode
\* that decides where no policy can be read.
Verdict(c) ==
    CASE basis[c] \in PolicyDocs -> WrittenEffect(basis[c], tool[c])
      [] basis[c] = Broken       -> IF FailMode = "open" THEN "allow" ELSE "deny"
      [] OTHER                   -> "none"

Phase(c) ==
    CASE pc[c] \in {"handling", "redacting"} -> "running"
      [] pc[c] = "emitting"                  -> "ended"
      [] pc[c] = "returning"                 -> "recorded"
      [] pc[c] = "finished"                  -> "answered"
      [] pc[c] = "crashed"                   -> "lost"
      [] OTHER                               -> "waiting"

Verdicts == [c \in Call |-> Verdict(c)]
Phases   == [c \in Call |-> Phase(c)]
Outcomes == [c \in Call |-> IF emitted[c] = <<>> THEN "none" ELSE emitted[c][1]]
Replies  == [c \in Call |-> IF pc[c] = "finished" THEN reply[c] ELSE "none"]

Gate == INSTANCE ToolGate WITH
    HookMayThrow <- RedactMayThrow, CallerMayBeUnknown <- IdentityMayThrow, verdict <- Verdicts, approved <- approvals,
    phase <- Phases, outcome <- Outcomes, log <- auditLog, reply <- Replies

\* The broker implements the gate: caches, edits, restarts and calls that overtake each
\* other are nothing that a tool's author, a caller or a reader of the log could notice.
KeepsGate == Gate!Spec

\* Every call that arrives ends, whatever fails on its way.
EveryCallEnds == \A c \in Call : pc[c] # "idle" ~> pc[c] \in Finished
=============================================================================
