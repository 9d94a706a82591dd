------------------------------- MODULE ToolGate -------------------------------
(***************************************************************************)
(* What a broker promises of each tool call (mcp-broker/src/broker.ts,     *)
(* pipeline.ts), without its files, caches, secrets and providers: the     *)
(* policy decides it once; its handler runs at most once, and only if it   *)
(* was allowed, or approved after the policy asked for that; one event     *)
(* that says how it ended goes to the log before it is answered, and the   *)
(* answer agrees with it.  Two hooks of the author, if they throw, lead    *)
(* past the log: one before the call is decided, one after its handler.    *)
(* BrokerPipeline implements it.                                           *)
(***************************************************************************)
EXTENDS Sequences

CONSTANTS
    Call,
    HookMayThrow,        \* the author's redaction hook may throw
    CallerMayBeUnknown   \* the author's identity resolver may throw

VARIABLES
    verdict,    \* what the policy says of each call
    approved,   \* the calls that were approved
    phase,      \* how far each call is
    outcome,    \* how its work ended
    log,        \* the events stored, in this order
    reply       \* what its caller was told

vars == <<verdict, approved, phase, outcome, log, reply>>

Init ==
    /\ verdict = [c \in Call |-> "none"] /\ approved = {}
    /\ phase = [c \in Call |-> "waiting"] /\ outcome = [c \in Call |-> "none"]
    /\ log = <<>> /\ reply = [c \in Call |-> "none"]

Wait == UNCHANGED <<phase, outcome>>
Run(c) == phase' = [phase EXCEPT ![c] = "running"] /\ UNCHANGED outcome
End(c, how) ==
    phase' = [phase EXCEPT ![c] = "ended"] /\ outcome' = [outcome EXCEPT ![c] = how]

\* A secret is still to be found; it may be missing.
Permitted(c) == Wait \/ Run(c) \/ End(c, "denied")

Decide(c) ==
    /\ phase[c] = "waiting" /\ verdict[c] = "none"
    /\ \/ verdict' = [verdict EXCEPT ![c] = "allow"] /\ Permitted(c)
       \/ verdict' = [verdict EXCEPT ![c] = "deny"] /\ End(c, "denied")
       \/ verdict' = [verdict EXCEPT ![c] = "require_approval"] /\ (Wait \/ End(c, "approval_denied"))
    /\ UNCHANGED <<approved, log, reply>>

Asked(c) == phase[c] = "waiting" /\ verdict[c] = "require_approval" /\ c \notin approved

Approve(c) ==
    /\ Asked(c) /\ approved' = approved \cup {c} /\ Permitted(c)
    /\ UNCHANGED <<verdict, log, reply>>

Decline(c) ==
    /\ Asked(c) /\ \E how \in {"approval_denied", "approval_timeout"} : End(c, how)
    /\ UNCHANGED <<verdict, approved, log, reply>>

Resolve(c) ==
    /\ phase[c] = "waiting" /\ (verdict[c] = "allow" \/ c \in approved) /\ Permitted(c)
    /\ UNCHANGED <<verdict, approved, log, reply>>

Finish(c) ==
    /\ phase[c] = "running" /\ \E how \in {"allowed", "handler_error"} : End(c, how)
    /\ UNCHANGED <<verdict, approved, log, reply>>

\* The ways past the log: no caller to decide for, or no result to show.
Escape(c) ==
    /\ \/ CallerMayBeUnknown /\ phase[c] = "waiting" /\ verdict[c] = "none"
       \/ HookMayThrow /\ phase[c] = "running"
    /\ phase' = [phase EXCEPT ![c] = "answered"] /\ reply' = [reply EXCEPT ![c] = "threw"]
    /\ UNCHANGED <<verdict, approved, outcome, log>>

\* A log that cannot be written does not hold up the answer.
Record(c) ==
    /\ phase[c] = "ended" /\ phase' = [phase EXCEPT ![c] = "recorded"]
    /\ \/ log' = Append(log, [call |-> c, outcome |-> outcome[c]])
       \/ UNCHANGED log
    /\ UNCHANGED <<verdict, approved, outcome, reply>>

Says(how) ==
    CASE how = "allowed"       -> "ok"
      [] how = "handler_error" -> "threw"
      [] OTHER                 -> "blocked"

Answer(c) ==
    /\ phase[c] = "recorded" /\ phase' = [phase EXCEPT ![c] = "answered"]
    /\ reply' = [reply EXCEPT ![c] = Says(outcome[c])]
    /\ UNCHANGED <<verdict, approved, outcome, log>>

\* Calls under way are lost with the process; the log is not.
Crash ==
    /\ \E lost \in SUBSET {c \in Call : phase[c] # "answered"} :
          phase' = [c \in Call |-> IF c \in lost THEN "lost" ELSE phase[c]]
    /\ UNCHANGED <<verdict, approved, outcome, log, reply>>

Next ==
    \/ \E c \in Call :
          \/ Decide(c) \/ Approve(c) \/ Decline(c) \/ Resolve(c)
          \/ Finish(c) \/ Escape(c) \/ Record(c) \/ Answer(c)
    \/ Crash

Spec == Init /\ [][Next]_vars
=============================================================================
