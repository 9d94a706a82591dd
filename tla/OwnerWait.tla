------------------------------ MODULE OwnerWait ------------------------------
(***************************************************************************)
(* The programs that ask the owner for something and wait for the answer:  *)
(*                                                                         *)
(*   register    cli/src/index.ts, register.ts, wait.ts: an event stream,  *)
(*               then a poll, then the one-time key                        *)
(*   uninstall   cli/src/commands/uninstall.ts: an event stream that is    *)
(*               opened again and again, then the local files              *)
(*   mcp, sdk, python, aio    an access request, polled to a deadline      *)
(*   paperclip   paperclip-adapter/src/server/execute.ts: a registration,  *)
(*               polled, then the run that needed it                       *)
(*                                                                         *)
(* Time is discrete.  A request is answered, refused or fails within       *)
(* RequestTime, its retry included: fetchWithTimeout and httpx see to it,  *)
(* in the command line and the adapter the runtime's own timers.           *)
(***************************************************************************)
EXTENDS Naturals

CONSTANTS
    Programs,     \* the programs of the instance
    Timeout,      \* --timeout, approvalTimeoutMs, registrationTimeoutSec
    PollTime,     \* the sleep between two polls
    RequestTime,
    ReadTimeout,  \* SSE_READ_TIMEOUT_MS
    Retry,        \* the pause before a closed stream is opened again
    BackOff       \* the pause after a refusal

Accessing == {"mcp", "sdk", "python", "aio"}
Streaming == {"register", "uninstall"}

ASSUME ProgramAssumption == Programs \subseteq Accessing \cup Streaming \cup {"paperclip"}
ASSUME TimeAssumption ==
    /\ Timeout \in Nat /\ PollTime \in Nat /\ RequestTime \in Nat /\ ReadTimeout \in Nat \ {0}
    /\ Retry \in Nat /\ BackOff \in Nat /\ Retry <= BackOff

VARIABLES
    program,
    pc,         \* where it is
    wire,       \* its request: "none", "sent" or the reply
    since,      \* age of the request, the sleep, the pause or the last data of a stream
    pause,      \* how long it pauses before it connects again
    elapsed,    \* time since the wait began
    outcome,    \* what it reported, "none" before
    local,      \* this machine: "asBefore", "saved" with the new key, "clean"
    record,     \* the proxy's record of the request that the program can ask about
    decidedAt,  \* history: elapsed when the owner decided
    fault,      \* history: a request failed or was refused, or a stream was late, since then
    keyLeft     \* the proxy still has the one-time key

client == <<program, pc, wire, since, pause, elapsed, outcome, local>>
proxy  == <<record, decidedAt, fault, keyLeft>>
vars   == <<client, proxy>>

Status == {"pending", "approved", "rejected", "expired"}

Init ==
    /\ program \in Programs
    /\ pc = "start" /\ wire = "none" /\ since = 0 /\ pause = 0 /\ elapsed = 0
    /\ outcome = "none" /\ local = "asBefore"
    /\ record = "none" /\ decidedAt = 0 /\ fault = FALSE /\ keyLeft = TRUE

----------------------------------------------------------------------------
(* Steps that the programs share.                                          *)

Goto(place) == pc' = place /\ since' = 0 /\ UNCHANGED <<program, outcome, local>>
Request(place) == Goto(place) /\ wire' = "sent"
Leave(place) == Goto(place) /\ wire' = "none"

End(what) ==
    /\ pc' = "done" /\ outcome' = what /\ wire' = "none"
    /\ UNCHANGED <<program, since, local>>

\* The request that asks the owner.
Submit ==
    /\ pc = "start" /\ Request("submitting")
    /\ UNCHANGED <<pause, elapsed, proxy>>

\* Any refusal means that the proxy does not know the agent.
AnsweredHastily ==
    /\ pc = "submitting"
    /\ \/ wire = "token" /\ Leave(IF program \in Streaming THEN "connecting" ELSE "checking")
       \/ wire = "tokenless" /\ (IF program = "paperclip" THEN Leave("checking") ELSE End("failed"))
       \/ /\ wire \in {"gone", "error"} /\ pc' = "done" /\ outcome' = "cleaned" /\ wire' = "none"
          /\ local' = "clean" /\ UNCHANGED <<program, since>>
    /\ elapsed' = 0 /\ UNCHANGED <<pause, proxy>>

\* A token starts the wait; the adapter does not look whether there is one. 404 and 409 let
\* uninstall clean up at once.
Answered ==
    /\ pc = "submitting"
    /\ \/ wire = "token" /\ Leave(IF program \in Streaming THEN "connecting" ELSE "checking")
       \/ wire = "token" /\ program = "register" /\ End("submitted")    \* --no-wait
       \/ wire = "tokenless" /\ (IF program = "paperclip" THEN Leave("checking") ELSE End("failed"))
       \/ wire = "error" /\ End("failed")
       \/ /\ wire = "gone" /\ pc' = "done" /\ outcome' = "cleaned" /\ wire' = "none"
          /\ local' = "clean" /\ UNCHANGED <<program, since>>
    /\ elapsed' = 0 /\ UNCHANGED <<pause, proxy>>

\* The wait is over without an answer.
TimeUp == IF program \in Accessing \cup {"paperclip"} THEN "pending" ELSE "timeout"

\* The round after the deadline's last sleep is left out.
LoopTestEarly ==
    /\ pc = "checking"
    /\ IF elapsed + PollTime < Timeout THEN Leave("sleeping") ELSE End(TimeUp)
    /\ UNCHANGED <<pause, elapsed, proxy>>

\* while (Date.now() < deadline) sleep, then ask
LoopTest ==
    /\ pc = "checking"
    /\ IF elapsed < Timeout THEN Leave("sleeping") ELSE End(TimeUp)
    /\ UNCHANGED <<pause, elapsed, proxy>>

Wake ==
    /\ pc = "sleeping" /\ since = PollTime /\ Request("polling")
    /\ UNCHANGED <<pause, elapsed, proxy>>

----------------------------------------------------------------------------
(* What a poll means to each program: the reply is a status, "error" for a *)
(* refusal, "torn" for a body that breaks off, "lost" for no reply at all. *)

Said(reply, decisions) == IF reply \in decisions THEN reply ELSE "wait"

\* fetch is caught, the reading of the body is not.
handleRequestPlatformAccess(reply) ==
    IF reply = "torn" THEN "threw" ELSE Said(reply, {"approved", "rejected"})

requestAccess(reply) ==
    IF reply = "torn" THEN "threw" ELSE Said(reply, {"approved", "rejected"})

\* httpx reads the body within the request.
request_access(reply) == Said(reply, {"approved", "rejected"})
aio_request_access(reply) == Said(reply, {"approved", "rejected"})

\* Only a refusal is waited out; everything else ends the run.
autoRegister(reply) ==
    IF reply \in {"torn", "lost"} THEN "threw" ELSE Said(reply, {"approved", "rejected"})

\* parseEvent: of a stream or of a status reply.
parseEvent(reply) == Said(reply, {"approved", "rejected", "expired"})

\* Everything that fails is tried again.
poll(reply) == parseEvent(reply)

Meaning(reply) ==
    CASE program = "mcp"       -> handleRequestPlatformAccess(reply)
      [] program = "sdk"       -> requestAccess(reply)
      [] program = "python"    -> request_access(reply)
      [] program = "aio"       -> aio_request_access(reply)
      [] program = "paperclip" -> autoRegister(reply)
      [] program = "register"  -> poll(reply)

\* What follows from a decision. register claims its key, the adapter goes on with its run.
Follow(what) ==
    CASE what = "approved" /\ program = "register"  -> Request("claiming")
      [] what = "approved" /\ program = "paperclip" -> Leave("running")
      [] what = "approved" /\ program \in Accessing -> End("approved")
      [] what = "rejected" -> End("rejected")
      [] what = "expired"  -> End("timeout")
      [] what = "threw"    -> End("threw")
      [] what = "wait"     -> Leave("checking")

PollAnswered ==
    /\ pc = "polling" /\ wire \notin {"none", "sent"} /\ Follow(Meaning(wire))
    /\ UNCHANGED <<pause, elapsed, proxy>>

\* No reply: the connection fails or the time of the request is over.
PollFails ==
    /\ pc = "polling" /\ wire = "sent" /\ Follow(Meaning("lost"))
    /\ fault' = (fault \/ record # "pending")
    /\ UNCHANGED <<pause, elapsed, record, decidedAt, keyLeft>>

SubmitFails ==
    /\ pc = "submitting" /\ End("failed") /\ UNCHANGED <<pause, elapsed, proxy>>

----------------------------------------------------------------------------
(* The event streams.                                                      *)

\* A stream was asked for, or is open.
Listening == (pc = "connecting" /\ wire = "sent") \/ pc = "streaming"

\* uninstall tests its deadline again whenever it connects.
Connect ==
    /\ pc = "connecting" /\ wire = "none"
    /\ IF program = "uninstall" /\ elapsed > Timeout THEN End("timeout") ELSE Request("connecting")
    /\ UNCHANGED <<pause, elapsed, proxy>>

\* register polls from now on; uninstall pauses and connects again.
StreamLost(p) ==
    /\ IF program = "register"
       THEN Leave("checking") /\ UNCHANGED pause
       ELSE Leave("pausing") /\ pause' = p
    /\ UNCHANGED elapsed

StreamRefused ==
    /\ pc = "connecting" /\ wire = "error" /\ StreamLost(BackOff)
    /\ UNCHANGED proxy

\* The stream fails, or ends without a decision.
StreamEnds ==
    /\ Listening /\ StreamLost(Retry)
    /\ fault' = (fault \/ record # "pending")
    /\ UNCHANGED <<record, decidedAt, keyLeft>>

Reconnect ==
    /\ pc = "pausing" /\ since = pause /\ Leave("connecting")
    /\ UNCHANGED <<pause, elapsed, proxy>>

\* Every connection has its own timer, which data restart.
ReadTimer ==
    /\ program = "uninstall" /\ Listening /\ since = ReadTimeout
    /\ StreamLost(Retry) /\ UNCHANGED proxy

\* The timer is cleared once the stream is open.
StreamTimerUntilOpen ==
    /\ program = "register" /\ pc = "connecting" /\ elapsed >= Timeout
    /\ Leave("checking") /\ UNCHANGED <<pause, elapsed, proxy>>

\* trySSE has one timer for everything, as long as the whole wait.
StreamTimer ==
    /\ program = "register" /\ pc \in {"connecting", "streaming"} /\ elapsed >= Timeout
    /\ Leave("checking") /\ UNCHANGED <<pause, elapsed, proxy>>

\* A heartbeat, or an event that decides nothing.
Heartbeat ==
    /\ pc = "streaming" /\ since' = 0
    /\ UNCHANGED <<program, pc, wire, pause, elapsed, outcome, local, proxy>>

\* cleanLocally, once revoked.
Clean ==
    /\ pc' = "done" /\ outcome' = "cleaned" /\ local' = "clean" /\ wire' = "none"
    /\ UNCHANGED <<program, since>>

Event ==
    /\ pc = "streaming" /\ parseEvent(record) # "wait"
    /\ IF program = "uninstall" /\ record = "approved" THEN Clean ELSE Follow(record)
    /\ UNCHANGED <<pause, elapsed, proxy>>

\* uninstall's overall timer fires wherever the wait is.
OverallTimer ==
    /\ program = "uninstall" /\ pc \in {"connecting", "streaming", "pausing"}
    /\ elapsed >= Timeout /\ End("timeout") /\ UNCHANGED <<pause, elapsed, proxy>>

----------------------------------------------------------------------------
(* What comes after an approval.                                           *)

\* register without a key leaves the machine as it is; with one it saves key and name.
enrichWithKey ==
    /\ pc = "claiming"
    /\ \/ /\ wire = "key" /\ pc' = "done" /\ outcome' = "approved" /\ local' = "saved"
          /\ wire' = "none" /\ UNCHANGED <<program, since>>
       \/ wire = "key" /\ End("unsaved")
       \/ wire # "key" /\ End("keyless")
    /\ UNCHANGED <<pause, elapsed, proxy>>

\* The run is delegated; the agent's id is kept only if the delegate returns.
execute ==
    /\ pc = "running" /\ pc' = "done" /\ wire' = "none"
    /\ \/ outcome' = "ran" /\ local' = "saved"
       \/ outcome' = "threw" /\ UNCHANGED local
    /\ UNCHANGED <<program, since, pause, elapsed, proxy>>

\* uninstall without credentials or with --local-only asks nobody; without a key it gives up.
uninstallCommand ==
    /\ program = "uninstall" /\ pc = "start"
    /\ \/ /\ pc' = "done" /\ outcome' = "unasked" /\ local' = "clean"
          /\ UNCHANGED <<program, wire, since>>
       \/ End("failed")
    /\ UNCHANGED <<pause, elapsed, proxy>>

----------------------------------------------------------------------------
(* The proxy, the owner and the clock.                                     *)

ReceiveSubmit ==
    /\ pc = "submitting" /\ wire = "sent"
    /\ \/ record' = "pending" /\ wire' = "token"
       \/ record' = "unknown" /\ wire' = "tokenless"
       \/ program = "uninstall" /\ record' = "unknown" /\ wire' = "gone"
       \/ record' \in {"none", "pending"} /\ wire' = "error"
    /\ UNCHANGED <<program, pc, since, pause, elapsed, outcome, local, decidedAt, fault, keyLeft>>

\* A status request, or one that opens a stream.
ReceiveAsk ==
    /\ wire = "sent"
    /\ \/ /\ pc = "polling" /\ wire' \in {record, "error", "torn"} /\ UNCHANGED <<pc, since>>
          /\ fault' = (fault \/ (record # "pending" /\ wire' # record))
       \/ /\ pc = "connecting"
          /\ \/ wire' = "none" /\ pc' = "streaming" /\ since' = 0 /\ UNCHANGED fault
             \/ wire' = "error" /\ UNCHANGED <<pc, since>> /\ fault' = (fault \/ record # "pending")
    /\ UNCHANGED <<program, pause, elapsed, outcome, local, record, decidedAt, keyLeft>>

ReceiveClaim ==
    /\ pc = "claiming" /\ wire = "sent"
    /\ \/ keyLeft /\ keyLeft' = FALSE /\ wire' \in {"key", "lost"}
       \/ wire' = "error" /\ UNCHANGED keyLeft
    /\ UNCHANGED <<program, pc, since, pause, elapsed, outcome, local, record, decidedAt, fault>>

OwnerDecides ==
    /\ record = "pending" /\ record' \in {"approved", "rejected", "expired"}
    /\ decidedAt' = elapsed
    /\ UNCHANGED <<client, fault, keyLeft>>

\* Time passes up to the timer that is due. A stream that is silent about a decision, or
\* slow to open, is a fault.
Tick ==
    /\ \/ pc \in {"submitting", "polling", "claiming"} /\ since < RequestTime
       \/ pc = "sleeping" /\ since < PollTime
       \/ pc = "pausing" /\ since < pause /\ elapsed < Timeout
       \/ Listening /\ elapsed < Timeout /\ (program = "uninstall" => since < ReadTimeout)
    /\ since' = since + 1 /\ elapsed' = elapsed + 1
    /\ fault' = (fault \/ (pc \in {"connecting", "streaming"} /\ record # "pending"))
    /\ UNCHANGED <<program, pc, wire, pause, outcome, local, record, decidedAt, keyLeft>>

\* The program's own steps. A request that was not answered in its time fails.
Step ==
    \/ Submit \/ Answered \/ LoopTest \/ Wake \/ PollAnswered
    \/ since = RequestTime /\ PollFails
    \/ since = RequestTime /\ SubmitFails
    \/ Connect \/ StreamRefused \/ Reconnect \/ ReadTimer \/ StreamTimer \/ OverallTimer
    \/ pc = "claiming" /\ (since = RequestTime \/ wire # "sent") /\ enrichWithKey
    \/ execute

Next ==
    \/ Submit \/ Answered \/ LoopTest \/ Wake \/ PollAnswered \/ PollFails \/ SubmitFails
    \/ Connect \/ StreamRefused \/ StreamEnds \/ Reconnect \/ ReadTimer \/ StreamTimer \/ Heartbeat \/ Event
    \/ OverallTimer \/ enrichWithKey \/ execute \/ uninstallCommand
    \/ ReceiveSubmit \/ ReceiveAsk \/ ReceiveClaim \/ OwnerDecides \/ Tick

\* The clock and the program's own steps; nothing is asked of proxy or owner.
Spec == Init /\ [][Next]_vars /\ WF_vars(Tick) /\ WF_vars(Step)

----------------------------------------------------------------------------
(* Properties.                                                             *)

\* Every variable has its type.
TypeOK ==
    /\ program \in Programs
    /\ pc \in {"start", "submitting", "checking", "sleeping", "polling", "connecting",
               "streaming", "pausing", "claiming", "running", "done"}
    /\ wire \in Status \cup {"unknown", "none", "sent", "token", "tokenless", "gone", "error", "torn",
                             "key", "lost"}
    /\ since \in Nat /\ pause \in Nat /\ elapsed \in Nat /\ decidedAt \in Nat
    /\ outcome \in {"none", "failed", "approved", "keyless", "rejected",
                    "pending", "timeout", "threw", "cleaned", "ran",
                    "submitted", "unsaved", "unasked"}
    /\ local \in {"asBefore", "saved", "clean"}
    /\ record \in Status \cup {"none", "unknown"}
    /\ fault \in BOOLEAN /\ keyLeft \in BOOLEAN

\* What is reported was decided, whatever timer or reply came first: an approval or a
\* refusal is the owner's, a machine is named or a run delegated only for an approved
\* agent, and where a revocation was asked for the files go only once the owner agreed or
\* the proxy no longer knows the agent.
ToldTruth ==
    /\ outcome \in {"approved", "keyless", "ran"} => record = "approved"
    /\ outcome = "rejected" => record = "rejected"
    /\ (pc = "running" \/ local = "saved") => record = "approved"
    /\ outcome = "cleaned" => record \in {"approved", "unknown"}
    /\ local = "clean" => outcome \in {"cleaned", "unasked"}
    /\ (local = "saved" /\ program = "register") => ~keyLeft

\* The owner decided in time for one more request or one more connection, and nothing
\* failed since: the wait does not end without the decision.
Slack == IF program = "uninstall" THEN BackOff ELSE RequestTime
DecisionReported ==
    (outcome \in {"pending", "timeout"} /\ record \in {"approved", "rejected"})
    => decidedAt + Slack >= Timeout \/ fault

\* Every wait ends, whatever the owner and the proxy do or fail to do.
EveryWaitEnds == pc = "submitting" ~> pc = "done"
=============================================================================
