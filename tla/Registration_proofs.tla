------------------------- MODULE Registration_proofs -------------------------
(***************************************************************************)
(* The proofs of the two ends of a registration.  OwnerWait, for every     *)
(* program and every length of timeouts, sleeps and pauses: what a wait    *)
(* reports was decided, and a decision that came in time is reported       *)
(* unless something failed after it.  AutoRegister, for any number of      *)
(* overlapping handlers and of agents: a registered agent has its key, and *)
(* the status bar of a quiet window is true.                               *)
(***************************************************************************)
EXTENDS OwnerWait, AutoRegister, TLAPS

----------------------------------------------------------------------------
(* OwnerWait.                                                              *)

Decided == record \in {"approved", "rejected"}
Waiting == {"checking", "sleeping", "polling", "connecting", "streaming", "pausing"}

\* Which program can be where.
Places ==
    /\ pc \in {"checking", "sleeping", "polling"} => program # "uninstall"
    /\ pc \in {"connecting", "streaming"} => program \in Streaming
    /\ pc = "pausing" => program = "uninstall"
    /\ pc = "claiming" => program = "register"
    /\ pc = "running" => program = "paperclip"

\* What a reply on the wire and the place of a program say about the proxy's record.
Replies ==
    /\ pc = "start" => wire = "none" /\ record = "none"
    /\ pc = "submitting" =>
           /\ wire \in {"sent", "token", "tokenless", "gone", "error"}
           /\ wire = "token" => record \in Status
           /\ wire \in {"tokenless", "gone"} => record = "unknown"
    /\ pc \in Waiting => record \in Status \cup {"unknown"}
    /\ pc = "polling" =>
           /\ wire \in Status \cup {"unknown", "sent", "error", "torn"}
           /\ wire \in {"approved", "rejected", "expired"} => record = wire
    /\ pc = "connecting" => wire \in {"none", "sent", "error"}
    /\ pc \in {"claiming", "running"} => record = "approved"
    /\ pc = "claiming" => wire \in {"sent", "key", "lost", "error"} /\ (wire = "key" => ~keyLeft)

\* Nothing is reported or changed before the end.
Untouched == pc # "done" => outcome = "none" /\ local = "asBefore"

\* How long ago a decision that is not yet known can have been made.
Timely ==
    /\ pause <= BackOff
    /\ pc = "polling" => since <= RequestTime
    /\ pc = "pausing" => since <= pause
    /\ pc = "done" /\ outcome \in {"pending", "timeout"} /\ record = "pending" => elapsed >= Timeout
    /\ Decided /\ ~fault =>
           /\ pc = "polling" /\ wire # "sent" /\ wire # record => decidedAt + since >= elapsed
           /\ pc = "pausing" => decidedAt + since >= elapsed
           /\ pc \in {"checking", "connecting", "streaming"} => decidedAt + Slack >= elapsed
           /\ pc = "connecting" /\ wire = "error" => decidedAt >= elapsed
           /\ pc \in {"connecting", "streaming"} /\ since > 0 => decidedAt >= elapsed

IInv == TypeOK /\ Places /\ Replies /\ Untouched /\ Timely /\ ToldTruth /\ DecisionReported

----------------------------------------------------------------------------
Reply == Status \cup {"unknown", "error", "torn", "lost"}
Verdict == {"approved", "rejected", "expired", "threw", "wait"}

\* A poll tells a decision to every program, and tells none but the proxy's.
LEMMA MeaningIsSaid ==
    ASSUME program \in Programs, program # "uninstall", NEW reply \in Reply
    PROVE  /\ Meaning(reply) \in Verdict
           /\ Meaning(reply) \in {"approved", "rejected", "expired"} => reply = Meaning(reply)
           /\ reply \in {"approved", "rejected"} => Meaning(reply) = reply
<1> DEFINE told(v) == /\ v \in Verdict
                      /\ v \in {"approved", "rejected", "expired"} => reply = v
                      /\ reply \in {"approved", "rejected"} => v = reply
<1>1. told(handleRequestPlatformAccess(reply)) /\ told(requestAccess(reply))
  BY DEF handleRequestPlatformAccess, requestAccess, Said, Reply, Status, Verdict
<1>2. told(request_access(reply)) /\ told(aio_request_access(reply))
  BY DEF request_access, aio_request_access, Said, Reply, Status, Verdict
<1>3. told(autoRegister(reply)) /\ told(poll(reply))
  BY DEF autoRegister, poll, parseEvent, Said, Reply, Status, Verdict
<1> HIDE DEF told
<1>4. program \in {"mcp", "sdk", "python", "aio", "paperclip", "register"}
  BY ProgramAssumption DEF Accessing, Streaming
<1>5. told(Meaning(reply))
  BY <1>1, <1>2, <1>3, <1>4 DEF Meaning
<1> QED
  BY <1>5 DEF told

\* Where each verdict leads.
LEMMA FollowLeads ==
    ASSUME program \in Programs, NEW what \in Verdict, Follow(what),
           ~(what = "approved" /\ program = "uninstall")
    PROVE  /\ program' = program /\ local' = local
           /\ \/ what = "approved" /\ program = "register" /\ Request("claiming")
              \/ what = "approved" /\ program = "paperclip" /\ Leave("running")
              \/ what = "approved" /\ program \in Accessing /\ End("approved")
              \/ what = "rejected" /\ End("rejected")
              \/ what = "expired" /\ End("timeout")
              \/ what = "threw" /\ End("threw")
              \/ what = "wait" /\ Leave("checking")
<1>1. program \in Accessing \/ program \in {"register", "uninstall", "paperclip"}
  BY ProgramAssumption DEF Streaming
<1>2. "register" \notin Accessing /\ "paperclip" \notin Accessing
  BY DEF Accessing
<1>3. \/ what = "approved" /\ program = "register" /\ Request("claiming")
      \/ what = "approved" /\ program = "paperclip" /\ Leave("running")
      \/ what = "approved" /\ program \in Accessing /\ End("approved")
      \/ what = "rejected" /\ End("rejected")
      \/ what = "expired" /\ End("timeout")
      \/ what = "threw" /\ End("threw")
      \/ what = "wait" /\ Leave("checking")
  BY <1>1, <1>2 DEF Follow, Verdict
<1> QED
  BY <1>3 DEF Request, Leave, Goto, End

LEMMA InitInv == Init => IInv
<1> SUFFICES ASSUME Init PROVE IInv
  OBVIOUS
<1>1. TypeOK
  BY DEF Init, TypeOK
<1>2. Places /\ Replies /\ Untouched /\ ToldTruth /\ DecisionReported
  BY DEF Init, Places, Replies, Untouched, ToldTruth, DecisionReported, Waiting
<1>3. Timely
  BY TimeAssumption DEF Init, Timely, Decided
<1> QED
  BY <1>1, <1>2, <1>3 DEF IInv

----------------------------------------------------------------------------
(* Every step keeps the invariant.                                         *)

LEMMA StepInv == IInv /\ [Next]_vars => IInv'
<1> SUFFICES ASSUME IInv, [Next]_vars PROVE IInv'
  OBVIOUS
<1> USE TimeAssumption
<1> USE DEF IInv, TypeOK, Places, Replies, Untouched, Timely, Decided, ToldTruth,
            DecisionReported, Waiting, Status, Slack, proxy
<1>1. CASE Submit
  BY <1>1 DEF Submit, Request, Goto
<1>2. CASE Answered
  BY <1>2, ProgramAssumption DEF Answered, Leave, Goto, End, Streaming, Accessing
<1>3. CASE LoopTest
  BY <1>3 DEF LoopTest, Leave, Goto, End, TimeUp
<1>4. CASE Wake
  BY <1>4 DEF Wake, Request, Goto
<1>5. CASE PollAnswered
  <2>1. /\ program \in Programs /\ program # "uninstall" /\ wire \in Reply
        /\ wire \in Status \cup {"unknown", "error", "torn"}
    BY <1>5 DEF PollAnswered, Reply
  <2> DEFINE what == Meaning(wire)
  <2>2. /\ what \in Verdict
        /\ what \in {"approved", "rejected", "expired"} => wire = what
        /\ wire \in {"approved", "rejected"} => what = wire
    BY <2>1, MeaningIsSaid
  <2>3. Follow(what) /\ pc = "polling" /\ UNCHANGED <<pause, elapsed, proxy>>
    BY <1>5 DEF PollAnswered
  <2> HIDE DEF what
  <2>4. /\ program' = program /\ local' = local
        /\ \/ what = "approved" /\ program = "register" /\ Request("claiming")
           \/ what = "approved" /\ program = "paperclip" /\ Leave("running")
           \/ what = "approved" /\ program \in Accessing /\ End("approved")
           \/ what = "rejected" /\ End("rejected")
           \/ what = "expired" /\ End("timeout")
           \/ what = "threw" /\ End("threw")
           \/ what = "wait" /\ Leave("checking")
    BY <2>1, <2>2, <2>3, FollowLeads
  <2> QED
    BY <2>1, <2>2, <2>3, <2>4 DEF Request, Leave, Goto, End, Verdict
<1>6. CASE PollFails
  <2>1. program \in Programs /\ program # "uninstall" /\ "lost" \in Reply
    BY <1>6 DEF PollFails, Reply
  <2> DEFINE what == Meaning("lost")
  <2>2. what \in {"threw", "wait"}
    BY <2>1, MeaningIsSaid DEF Verdict
  <2>3. /\ Follow(what) /\ pc = "polling" /\ fault' = (fault \/ record # "pending")
        /\ UNCHANGED <<pause, elapsed, record, decidedAt, keyLeft>>
    BY <1>6 DEF PollFails
  <2> HIDE DEF what
  <2>4. /\ program' = program
        /\ (what = "threw" /\ End("threw")) \/ (what = "wait" /\ Leave("checking"))
    BY <2>1, <2>2, <2>3, FollowLeads DEF Verdict
  <2> QED
    <3>1. TypeOK'
      BY <2>1, <2>3, <2>4 DEF Leave, Goto, End
    <3>2. Places'
      BY <2>1, <2>3, <2>4 DEF Leave, Goto, End
    <3>3. Replies'
      BY <2>1, <2>3, <2>4 DEF Leave, Goto, End
    <3>4. Untouched'
      BY <2>1, <2>3, <2>4 DEF Leave, Goto, End
    <3>5. Timely'
      BY <2>1, <2>3, <2>4 DEF Leave, Goto, End
    <3>6. ToldTruth'
      BY <2>1, <2>3, <2>4 DEF Leave, Goto, End
    <3>7. DecisionReported'
      BY <2>1, <2>3, <2>4 DEF Leave, Goto, End
    <3> QED
      BY <3>1, <3>2, <3>3, <3>4, <3>5, <3>6, <3>7
<1>7. CASE SubmitFails
  BY <1>7 DEF SubmitFails, End
<1>8. CASE Connect
  BY <1>8 DEF Connect, Request, Goto, End
<1>9. CASE StreamRefused
  <2>1. TypeOK'
    BY <1>9 DEF StreamRefused, StreamLost, Leave, Goto, Streaming
  <2>2. Places'
    BY <1>9 DEF StreamRefused, StreamLost, Leave, Goto, Streaming
  <2>3. Replies'
    BY <1>9 DEF StreamRefused, StreamLost, Leave, Goto, Streaming
  <2>4. Untouched'
    BY <1>9 DEF StreamRefused, StreamLost, Leave, Goto, Streaming
  <2>5. Timely'
    BY <1>9 DEF StreamRefused, StreamLost, Leave, Goto, Streaming
  <2>6. ToldTruth'
    BY <1>9 DEF StreamRefused, StreamLost, Leave, Goto, Streaming
  <2>7. DecisionReported'
    BY <1>9 DEF StreamRefused, StreamLost, Leave, Goto, Streaming
  <2> QED
    BY <2>1, <2>2, <2>3, <2>4, <2>5, <2>6, <2>7
<1>10. CASE StreamEnds
  <2>1. TypeOK'
    BY <1>10 DEF StreamEnds, Listening, StreamLost, Leave, Goto, Streaming
  <2>2. Places'
    BY <1>10 DEF StreamEnds, Listening, StreamLost, Leave, Goto, Streaming
  <2>3. Replies'
    BY <1>10 DEF StreamEnds, Listening, StreamLost, Leave, Goto, Streaming
  <2>4. Untouched'
    BY <1>10 DEF StreamEnds, Listening, StreamLost, Leave, Goto, Streaming
  <2>5. Timely'
    <3>1. fault' \/ record = "pending"
      BY <1>10, Zenon DEF StreamEnds
    <3> QED
      BY <1>10, <3>1 DEF StreamEnds, Listening, StreamLost, Leave, Goto, Streaming
  <2>6. ToldTruth'
    BY <1>10 DEF StreamEnds, Listening, StreamLost, Leave, Goto, Streaming
  <2>7. DecisionReported'
    BY <1>10 DEF StreamEnds, Listening, StreamLost, Leave, Goto, Streaming
  <2> QED
    BY <2>1, <2>2, <2>3, <2>4, <2>5, <2>6, <2>7
<1>11. CASE Reconnect
  BY <1>11 DEF Reconnect, Leave, Goto, Streaming
<1>12. CASE ReadTimer
  BY <1>12 DEF ReadTimer, Listening, StreamLost, Leave, Goto
<1>13. CASE StreamTimer
  BY <1>13 DEF StreamTimer, Leave, Goto
<1>14. CASE Heartbeat
  BY <1>14 DEF Heartbeat
<1>15. CASE Event
  <2>1. /\ program \in Programs /\ program \in Streaming /\ pc = "streaming"
        /\ record \in {"approved", "rejected", "expired"}
        /\ UNCHANGED <<pause, elapsed, proxy>>
    BY <1>15 DEF Event, parseEvent, Said
  <2>2. CASE program = "uninstall" /\ record = "approved"
    BY <1>15, <2>1, <2>2 DEF Event, Clean
  <2>3. CASE ~(program = "uninstall" /\ record = "approved")
    <3>1. Follow(record) /\ record \in Verdict
      BY <1>15, <2>1, <2>3 DEF Event, Verdict
    <3>2. /\ program' = program /\ local' = local
          /\ \/ record = "approved" /\ program = "register" /\ Request("claiming")
             \/ record = "approved" /\ program = "paperclip" /\ Leave("running")
             \/ record = "approved" /\ program \in Accessing /\ End("approved")
             \/ record = "rejected" /\ End("rejected")
             \/ record = "expired" /\ End("timeout")
      BY <2>1, <2>3, <3>1, FollowLeads
    <3> QED
      BY <2>1, <3>2 DEF Request, Leave, Goto, End
  <2> QED
    BY <2>2, <2>3
<1>16. CASE OverallTimer
  BY <1>16 DEF OverallTimer, End
<1>17. CASE enrichWithKey
  BY <1>17 DEF enrichWithKey, End
<1>18. CASE execute
  BY <1>18 DEF execute
<1>19. CASE uninstallCommand
  BY <1>19 DEF uninstallCommand, End
<1>20. CASE ReceiveSubmit
  <2>1. TypeOK'
    BY <1>20 DEF ReceiveSubmit
  <2>2. Places'
    BY <1>20 DEF ReceiveSubmit
  <2>3. Replies'
    BY <1>20 DEF ReceiveSubmit
  <2>4. Untouched'
    BY <1>20 DEF ReceiveSubmit
  <2>5. Timely'
    BY <1>20 DEF ReceiveSubmit
  <2>6. ToldTruth'
    BY <1>20 DEF ReceiveSubmit
  <2>7. DecisionReported'
    BY <1>20 DEF ReceiveSubmit
  <2> QED
    BY <2>1, <2>2, <2>3, <2>4, <2>5, <2>6, <2>7
<1>21. CASE ReceiveAsk
  <2> DEFINE Poll == /\ pc = "polling" /\ wire' \in {record, "error", "torn"} /\ UNCHANGED <<pc, since>>
                     /\ fault' = (fault \/ (record # "pending" /\ wire' # record))
             Opens == /\ pc = "connecting" /\ wire' = "none" /\ pc' = "streaming" /\ since' = 0
                      /\ UNCHANGED fault
             Refuses == /\ pc = "connecting" /\ wire' = "error" /\ UNCHANGED <<pc, since>>
                        /\ fault' = (fault \/ record # "pending")
  <2>a. /\ UNCHANGED <<program, pause, elapsed, outcome, local, record, decidedAt, keyLeft>>
        /\ Poll \/ Opens \/ Refuses
    BY <1>21, Zenon DEF ReceiveAsk
  <2>b. fault' \in BOOLEAN /\ (fault => fault')
    BY <2>a, Zenon
  <2>c. (Refuses => fault' \/ record = "pending") /\ (Poll => fault' \/ record = "pending" \/ wire' = record)
    BY Zenon
  <2>1. TypeOK'
    BY <2>a, <2>b
  <2>2. Places'
    BY <1>21 DEF ReceiveAsk
  <2>3. Replies'
    BY <1>21 DEF ReceiveAsk
  <2>4. Untouched'
    BY <1>21 DEF ReceiveAsk
  <2>5. Timely'
    <3>1. CASE Poll
      BY <2>a, <2>b, <2>c, <3>1
    <3>2. CASE Opens
      BY <2>a, <3>2
    <3>3. CASE Refuses
      BY <2>a, <2>b, <2>c, <3>3
    <3> QED
      BY <2>a, <3>1, <3>2, <3>3, Zenon
  <2>6. ToldTruth'
    BY <1>21 DEF ReceiveAsk
  <2>7. DecisionReported'
    BY <1>21 DEF ReceiveAsk
  <2> QED
    BY <2>1, <2>2, <2>3, <2>4, <2>5, <2>6, <2>7
<1>22. CASE ReceiveClaim
  BY <1>22 DEF ReceiveClaim
<1>23. CASE OwnerDecides
  <2>1. TypeOK'
    BY <1>23 DEF OwnerDecides, client
  <2>2. Places'
    BY <1>23 DEF OwnerDecides, client
  <2>3. Replies'
    BY <1>23 DEF OwnerDecides, client
  <2>4. Untouched'
    BY <1>23 DEF OwnerDecides, client
  <2>5. Timely'
    BY <1>23 DEF OwnerDecides, client
  <2>6. ToldTruth'
    BY <1>23 DEF OwnerDecides, client
  <2>7. DecisionReported'
    BY <1>23 DEF OwnerDecides, client
  <2> QED
    BY <2>1, <2>2, <2>3, <2>4, <2>5, <2>6, <2>7
<1>24. CASE Tick
  <2>1. TypeOK'
    BY <1>24 DEF Tick, Listening
  <2>2. Places'
    BY <1>24 DEF Tick, Listening
  <2>3. Replies'
    BY <1>24 DEF Tick, Listening
  <2>4. Untouched'
    BY <1>24 DEF Tick, Listening
  <2>5. Timely'
    <3>1. fault' \/ record = "pending" \/ pc \notin {"connecting", "streaming"}
      BY <1>24, Zenon DEF Tick
    <3>2. fault => fault'
      BY <1>24, Zenon DEF Tick
    <3> QED
      BY <1>24, <3>1, <3>2 DEF Tick, Listening
  <2>6. ToldTruth'
    BY <1>24 DEF Tick, Listening
  <2>7. DecisionReported'
    BY <1>24 DEF Tick, Listening
  <2> QED
    BY <2>1, <2>2, <2>3, <2>4, <2>5, <2>6, <2>7
<1>25. CASE UNCHANGED vars
  BY <1>25 DEF vars, client
<1> QED
  BY <1>1, <1>2, <1>3, <1>4, <1>5, <1>6, <1>7, <1>8, <1>9, <1>10, <1>11, <1>12, <1>13, <1>14,
     <1>15, <1>16, <1>17, <1>18, <1>19, <1>20, <1>21, <1>22, <1>23, <1>24, <1>25 DEF Next

THEOREM Invariance == Spec => []IInv
<1>1. Init => IInv
  BY InitInv
<1>2. IInv /\ [Next]_vars => IInv'
  BY StepInv
<1> QED
  BY <1>1, <1>2, PTL DEF Spec

\* Every variable has its type.
THEOREM TypeCorrect == Spec => []TypeOK
<1>1. IInv => TypeOK
  BY DEF IInv
<1> QED
  BY <1>1, Invariance, PTL

\* What any of the programs reports, and what it then does to the machine, follows from
\* the owner's decision, for every length of its timers and however they race the replies.
THEOREM ToldTheTruth == Spec => []ToldTruth
<1>1. IInv => ToldTruth
  BY DEF IInv
<1> QED
  BY <1>1, Invariance, PTL

\* A wait ends without the owner's decision only when the decision came within one request,
\* or one pause before a new connection, of the deadline, or when something failed after it.
THEOREM DecisionIsReported == Spec => []DecisionReported
<1>1. IInv => DecisionReported
  BY DEF IInv
<1> QED
  BY <1>1, Invariance, PTL

----------------------------------------------------------------------------
(* AutoRegister.                                                           *)

Typed ==
    /\ at \in [Handlers -> {"idle", "session", "asked", "account", "registering", "storing",
                            "setting", "toast", "confirm", "deleting", "clearing"}]
    /\ kind \in [Handlers -> {"none", "auto", "command", "signOut"}]
    /\ agent \in [Handlers -> Agent \cup {None}]

\* The handlers that hold an agent which is not registered yet.
Carries(h) == at[h] \in {"storing", "setting"}

\* The agent that a handler is about to register is known to the API and to
\* nobody else: it is neither registered, nor on the disk, nor signed out, nor
\* in the hands of another handler.
Unshared ==
    \A h \in Handlers : Carries(h) =>
        /\ agent[h] \in agents
        /\ agent[h] # state /\ agent[h] # disk /\ agent[h] \notin signedOut
        /\ \A g \in Handlers \ {h} : at[g] \in {"storing", "setting", "deleting"} =>
              agent[g] # agent[h]

\* What is registered, stored or being signed out was once registered.
Known ==
    /\ agents \subseteq Agent /\ signedOut \subseteq agents
    /\ state \in agents \cup {None} /\ disk \in agents \cup {None}
    /\ \A h \in Handlers : at[h] = "deleting" => agent[h] \in agents

\* The key is stored before the state names the agent; only a sign-out deletes it.
KeyFirst ==
    /\ \A h \in Handlers : at[h] = "setting" => agent[h] \in keys
    /\ disk # None => disk \in keys \cup signedOut
    /\ RegisteredHasKey

KeyInv == Typed /\ Unshared /\ Known /\ KeyFirst

\* The moves of one handler: another handler is where it was.
LEMMA HandlerMoves ==
    ASSUME Typed, NEW h \in Handlers
    PROVE  /\ \A p : MoveTo(h, p) => at' = [at EXCEPT ![h] = p] /\ kind' = kind
           /\ Return(h) => /\ at' = [at EXCEPT ![h] = "idle"] /\ kind' = [kind EXCEPT ![h] = "none"]
                           /\ agent' = [agent EXCEPT ![h] = None]
           /\ \A k, p : Begin(h, k, p) => /\ at[h] = "idle" /\ at' = [at EXCEPT ![h] = p]
                                          /\ kind' = [kind EXCEPT ![h] = k]
BY DEF MoveTo, Return, Begin

\* A step that neither registers nor signs out an agent keeps the invariant: a
\* handler goes to a place where it holds no agent, or the state is cleared.
LEMMA OtherSteps ==
    ASSUME KeyInv, NEW h \in Handlers,
           NEW p \in {"idle", "session", "asked", "account", "registering", "toast", "confirm", "clearing"},
           NEW k \in {"none", "auto", "command", "signOut"}, NEW a \in {agent[h], None},
           at' = [at EXCEPT ![h] = p], kind' = [kind EXCEPT ![h] = k],
           agent' = [agent EXCEPT ![h] = a],
           at[h] = "clearing" => state' = None,
           state' \in {state, None},
           agents \subseteq agents', agents' \subseteq Agent,
           UNCHANGED <<disk, keys, signedOut, reloaded>>
    PROVE  KeyInv'
<1>1. Typed'
  BY DEF KeyInv, Typed
<1>2. \A g \in Handlers : at'[g] \in {"storing", "setting", "deleting"} =>
         g # h /\ at[g] = at'[g] /\ agent[g] = agent'[g]
  BY DEF KeyInv, Typed
<1>3. \A g \in Handlers \ {h} : at'[g] = at[g] /\ agent'[g] = agent[g]
  BY DEF KeyInv, Typed
<1>4. \A g \in Handlers : Carries(g)' => Carries(g) /\ agent[g] \in Agent
  BY <1>2 DEF Carries, KeyInv, Unshared, Known
<1>5. Unshared'
  BY <1>2, <1>3, <1>4, NoneAssumption DEF KeyInv, Unshared, Carries
<1>6. Known'
  BY <1>2 DEF KeyInv, Known
<1>7. RegisteredHasKey'
  BY <1>3 DEF KeyInv, KeyFirst, RegisteredHasKey, isRegistered
<1> QED
  BY <1>1, <1>2, <1>5, <1>6, <1>7 DEF KeyInv, KeyFirst

\* No step of a handler, of the disk or of the editor breaks the invariant.
LEMMA KeyInvariant == EditorSpec => []KeyInv
<1>1. EditorInit => KeyInv
  BY NoneAssumption DEF EditorInit, KeyInv, Typed, Unshared, Carries, Known, KeyFirst, RegisteredHasKey, isRegistered
<1>2. KeyInv /\ [EditorNext]_editor => KeyInv'
  <2> SUFFICES ASSUME KeyInv, [EditorNext]_editor
               PROVE  KeyInv'
    OBVIOUS
  <2>0. Typed /\ agents \subseteq Agent
    BY DEF KeyInv, Known
  <2>1. ASSUME NEW h \in Handlers,
               \/ attemptAutoRegistration(h) \/ register(h) \/ OpenDashboard(h) \/ Reregister(h)
               \/ getExistingGitHubSession(h) \/ requestGitHubSession(h)
               \/ createOrFindAccount(h) \/ showInformationMessage(h) \/ Fail(h)
               \/ signOut(h) \/ ClearState(h)
        PROVE  KeyInv'
    <3>1. at[h] \in {"clearing"} => state' = None
      BY <2>1 DEF attemptAutoRegistration, register, OpenDashboard, Reregister,
         getExistingGitHubSession, requestGitHubSession, createOrFindAccount,
         showInformationMessage, Fail, signOut, ClearState, Begin
    <3> QED
      BY <2>0, <2>1, <3>1, OtherSteps
      DEF attemptAutoRegistration, register, OpenDashboard, Reregister,
         getExistingGitHubSession, requestGitHubSession, createOrFindAccount,
         showInformationMessage, Fail, signOut, ClearState, Begin, MoveTo, Return, GiveUp, Typed
  <2>2. ASSUME NEW h \in Handlers, registerAgent(h) PROVE KeyInv'
    <3>1. PICK new \in Agent \ agents :
             /\ at[h] = "registering" /\ agents' = agents \cup {new}
             /\ \/ MoveTo(h, "storing") /\ agent' = [agent EXCEPT ![h] = new]
                \/ Return(h)
             /\ UNCHANGED <<state, disk, keys, signedOut, reloaded>>
      BY <2>2 DEF registerAgent, GiveUp
    <3>2. CASE Return(h)
      BY <2>0, <3>1, <3>2, OtherSteps DEF Return, Typed
    <3>3. CASE MoveTo(h, "storing") /\ agent' = [agent EXCEPT ![h] = new]
      <4>1. Typed'
        BY <2>0, <3>1, <3>3 DEF MoveTo, Typed
      <4>2. /\ at'[h] = "storing" /\ agent'[h] = new
            /\ \A g \in Handlers \ {h} : at'[g] = at[g] /\ agent'[g] = agent[g]
        BY <2>0, <3>3 DEF MoveTo, Typed
      <4>3. /\ new # state /\ new # disk /\ new \notin signedOut /\ new \in agents'
            /\ \A g \in Handlers : at[g] \in {"storing", "setting", "deleting"} => agent[g] # new
        BY <3>1, NoneAssumption DEF KeyInv, Unshared, Carries, Known
      <4>4. Unshared'
        BY <3>1, <4>2, <4>3 DEF KeyInv, Unshared, Carries
      <4>5. Known' /\ KeyFirst'
        BY <3>1, <4>2 DEF KeyInv, Known, KeyFirst, RegisteredHasKey, isRegistered
      <4> QED
        BY <4>1, <4>4, <4>5 DEF KeyInv
    <3> QED
      BY <3>1, <3>2, <3>3
  <2>3. ASSUME NEW h \in Handlers, StoreKey(h) PROVE KeyInv'
    <3>1. /\ at[h] = "storing" /\ at' = [at EXCEPT ![h] = "setting"]
          /\ keys' = keys \cup {agent[h]}
          /\ UNCHANGED <<kind, agent, state, disk, agents, signedOut, reloaded>>
      BY <2>3 DEF StoreKey, MoveTo
    <3>2. Typed' /\ at'[h] = "setting" /\ \A g \in Handlers \ {h} : at'[g] = at[g]
      BY <2>0, <3>1 DEF Typed
    <3>3. Unshared' /\ Known' /\ KeyFirst'
      BY <3>1, <3>2 DEF KeyInv, Unshared, Carries, Known, KeyFirst, RegisteredHasKey, isRegistered
    <3> QED
      BY <3>2, <3>3 DEF KeyInv
  <2>4. ASSUME NEW h \in Handlers, SetState(h) PROVE KeyInv'
    <3>1. /\ at[h] = "setting" /\ at' = [at EXCEPT ![h] = "toast"] /\ state' = agent[h]
          /\ UNCHANGED <<kind, agent, disk, keys, agents, signedOut, reloaded>>
      BY <2>4 DEF SetState, MoveTo
    <3>2. Typed' /\ at'[h] = "toast" /\ \A g \in Handlers \ {h} : at'[g] = at[g]
      BY <2>0, <3>1 DEF Typed
    <3>3. agent[h] \in agents /\ agent[h] \in keys
      BY <3>1 DEF KeyInv, Unshared, Carries, KeyFirst
    <3>4. Unshared' /\ Known' /\ KeyFirst'
      BY <3>1, <3>2, <3>3 DEF KeyInv, Unshared, Carries, Known, KeyFirst, RegisteredHasKey, isRegistered
    <3> QED
      BY <3>2, <3>4 DEF KeyInv
  <2>5. ASSUME NEW h \in Handlers, Confirm(h) PROVE KeyInv'
    <3>1. CASE (MoveTo(h, "clearing") /\ UNCHANGED agent) \/ Return(h)
      BY <2>0, <2>5, <3>1, OtherSteps DEF Confirm, MoveTo, Return, Typed
    <3>2. CASE isRegistered /\ MoveTo(h, "deleting") /\ agent' = [agent EXCEPT ![h] = state]
      <4>1. /\ Typed' /\ at'[h] = "deleting" /\ agent'[h] = state
            /\ \A g \in Handlers \ {h} : at'[g] = at[g] /\ agent'[g] = agent[g]
        BY <2>0, <3>2 DEF KeyInv, Typed, Known, MoveTo
      <4>2. at[h] = "confirm" /\ UNCHANGED <<state, disk, keys, agents, signedOut, reloaded>>
        BY <2>5 DEF Confirm
      <4>3. Unshared' /\ Known' /\ KeyFirst'
        BY <3>2, <4>1, <4>2 DEF KeyInv, Unshared, Carries, Known, KeyFirst, RegisteredHasKey, isRegistered
      <4> QED
        BY <4>1, <4>3 DEF KeyInv
    <3> QED
      BY <2>5, <3>1, <3>2 DEF Confirm
  <2>6. ASSUME NEW h \in Handlers, DeleteKey(h) PROVE KeyInv'
    <3>1. CASE Return(h) /\ UNCHANGED <<keys, signedOut>>
      BY <2>0, <2>6, <3>1, OtherSteps DEF DeleteKey, Return, Typed
    <3>2. CASE /\ MoveTo(h, "clearing") /\ UNCHANGED agent
               /\ keys' = keys \ {agent[h]} /\ signedOut' = signedOut \cup {agent[h]}
      <4>1. /\ Typed' /\ at'[h] = "clearing"
            /\ \A g \in Handlers \ {h} : at'[g] = at[g]
        BY <2>0, <3>2 DEF Typed, MoveTo
      <4>2. at[h] = "deleting" /\ UNCHANGED <<state, disk, agents, reloaded>>
        BY <2>6 DEF DeleteKey
      <4>3. Unshared' /\ Known' /\ KeyFirst'
        BY <3>2, <4>1, <4>2 DEF KeyInv, Unshared, Carries, Known, KeyFirst, RegisteredHasKey, isRegistered
      <4> QED
        BY <4>1, <4>3 DEF KeyInv
    <3> QED
      BY <2>6, <3>1, <3>2 DEF DeleteKey
  <2>7. CASE Flush
    BY <2>7 DEF Flush, KeyInv, Typed, Unshared, Carries, Known, KeyFirst, RegisteredHasKey, isRegistered
  <2>8. CASE activate
    BY <2>8 DEF activate, KeyInv, Typed, Unshared, Carries, Known, KeyFirst, RegisteredHasKey, isRegistered
  <2>9. CASE UNCHANGED editor
    BY <2>9 DEF editor, KeyInv, Typed, Unshared, Carries, Known, KeyFirst, RegisteredHasKey, isRegistered
  <2> QED
    BY <2>1, <2>2, <2>3, <2>4, <2>5, <2>6, <2>7, <2>8, <2>9 DEF EditorNext
<1> QED
  BY <1>1, <1>2, PTL DEF EditorSpec

\* Whatever attempts, commands, sign-outs and restarts overlap, a registered
\* agent has its key unless a sign-out deleted it and has not cleared the state.
THEOREM KeyOfRegistered == EditorSpec => []RegisteredHasKey
<1>1. KeyInv => RegisteredHasKey
  BY DEF KeyInv, KeyFirst
<1> QED
  BY <1>1, KeyInvariant, PTL

----------------------------------------------------------------------------
(* The status bar.                                                         *)

\* An automatic attempt that will still write the bar.
WillWrite(h) ==
    kind[h] = "auto" /\ at[h] \in {"account", "registering", "storing", "setting", "toast"}

\* The places of an attempt before it has set the state.
Attempt == {"session", "asked", "account", "registering", "storing", "setting"}

BarInv ==
    /\ \A h \in Handlers : at[h] \in Attempt => kind[h] \in {"auto", "command"}
    /\ bar = state \/ givenUp \/ \E h \in Handlers : WillWrite(h)

\* One handler's step keeps it when it leaves the bar as it is and does not
\* withdraw its own promise to write it, or makes the bar true, or makes the promise.
LEMMA BarStep ==
    ASSUME BarInv, Typed, NEW h \in Handlers, NEW p, NEW k,
           at' = [at EXCEPT ![h] = p], kind' = [kind EXCEPT ![h] = k],
           p \in Attempt => k \in {"auto", "command"},
           \/ UNCHANGED <<bar, state, givenUp>> /\ (WillWrite(h) => WillWrite(h)')
           \/ bar' = state' \/ givenUp' \/ WillWrite(h)'
    PROVE  BarInv'
<1>1. \A g \in Handlers \ {h} : WillWrite(g)' <=> WillWrite(g)
  BY DEF Typed, WillWrite
<1>2. (bar = state \/ givenUp \/ \E g \in Handlers : WillWrite(g))'
  BY <1>1, Zenon DEF BarInv
<1>3. (\A g \in Handlers : at[g] \in Attempt => kind[g] \in {"auto", "command"})'
  BY DEF BarInv, Typed
<1> QED
  BY <1>2, <1>3 DEF BarInv

\* A quiet window's bar tells the truth: a bar that does not is still to be
\* written by an automatic attempt, or a re-registration came to nothing.
THEOREM BarIsTrue == EditorSpec => []BarTellsState
<1>1. EditorInit => BarInv
  BY DEF EditorInit, BarInv, Attempt
<1>2. Typed /\ BarInv /\ [EditorNext]_editor => BarInv'
  <2> SUFFICES ASSUME Typed, BarInv, [EditorNext]_editor
               PROVE  BarInv'
    OBVIOUS
  <2>1. ASSUME NEW h \in Handlers,
               \/ attemptAutoRegistration(h) \/ getExistingGitHubSession(h)
               \/ showInformationMessage(h) \/ Fail(h) \/ registerAgent(h)
        PROVE  BarInv'
    BY <2>1, BarStep
    DEF attemptAutoRegistration, getExistingGitHubSession, showInformationMessage, Fail,
        registerAgent, Begin, MoveTo, Return, GiveUp, updateStatusBar, WillWrite, Typed, BarInv, Attempt
  <2>2. ASSUME NEW h \in Handlers,
               \/ register(h) \/ OpenDashboard(h) \/ Reregister(h) \/ requestGitHubSession(h)
               \/ createOrFindAccount(h)
        PROVE  BarInv'
    BY <2>2, BarStep
    DEF register, OpenDashboard, Reregister, requestGitHubSession, createOrFindAccount,
        Begin, MoveTo, Return, WillWrite, Typed, BarInv, Attempt
  <2>3. ASSUME NEW h \in Handlers, StoreKey(h) \/ SetState(h)
        PROVE  BarInv'
    BY <2>3, BarStep DEF StoreKey, SetState, MoveTo, updateStatusBar, WillWrite, Typed, BarInv, Attempt
  <2>4. ASSUME NEW h \in Handlers,
               signOut(h) \/ Confirm(h) \/ DeleteKey(h) \/ ClearState(h)
        PROVE  BarInv'
    BY <2>4, BarStep
    DEF signOut, Confirm, DeleteKey, ClearState, Begin, MoveTo, Return, updateStatusBar, WillWrite,
        Typed, BarInv, Attempt
  <2>5. CASE Flush
    BY <2>5 DEF Flush, BarInv, WillWrite
  <2>6. CASE activate
    BY <2>6 DEF activate, updateStatusBar, BarInv, Attempt
  <2>7. CASE UNCHANGED editor
    BY <2>7 DEF editor, BarInv, WillWrite
  <2> QED
    BY <2>1, <2>2, <2>3, <2>4, <2>5, <2>6, <2>7 DEF EditorNext
<1>3. BarInv => BarTellsState
  BY DEF BarInv, WillWrite, BarTellsState
<1>4. KeyInv => Typed
  BY DEF KeyInv
<1> QED
  BY <1>1, <1>2, <1>3, <1>4, KeyInvariant, PTL DEF EditorSpec
=============================================================================
