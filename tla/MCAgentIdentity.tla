--------------------------- MODULE MCAgentIdentity ---------------------------
(* An instance of AgentIdentity: three agents of two owners.                 *)
EXTENDS AgentIdentity, TLC

CONSTANTS a1, a2, a3, o1, o2

MCAgent   == {a1, a2, a3}
MCOwner   == {o1, o2}
MCOwnerOf == a1 :> o1 @@ a2 :> o2 @@ a3 :> o1
=============================================================================
