-------------------------- MODULE ApprovalContract --------------------------
(***************************************************************************)
(* What the pipeline relies on from an ApprovalProvider (types.ts): every  *)
(* request settles, exactly once, as approved, declined, timed out or      *)
(* failed.  The command-line and the hosted provider both implement it.    *)
(***************************************************************************)
CONSTANT Call

VARIABLE result

Settled == {"approved", "declined", "timeout", "error"}

Init == result = [c \in Call |-> "none"]

Request(c) == result[c] = "none" /\ result' = [result EXCEPT ![c] = "pending"]

Settle(c) ==
    /\ result[c] = "pending"
    /\ \E r \in Settled : result' = [result EXCEPT ![c] = r]

\* Several requests may settle in one turn of the event loop.
SettleSome ==
    \E S \in SUBSET {c \in Call : result[c] = "pending"} :
        \E r \in [S -> Settled] :
            result' = [c \in Call |-> IF c \in S THEN r[c] ELSE result[c]]

Next == (\E c \in Call : Request(c)) \/ SettleSome

\* Each request settles at most once ...
Safety == Init /\ [][Next]_result

\* ... and settles.
Spec ==
    /\ Safety
    /\ \A c \in Call : WF_result(Settle(c))
=============================================================================
