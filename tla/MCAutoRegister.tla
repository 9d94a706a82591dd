---------------------------- MODULE MCAutoRegister ----------------------------
(* Instances of AutoRegister: handlers and agents are interchangeable.      *)
EXTENDS AutoRegister, TLC

MCSymmetry == Permutations(Handlers) \cup Permutations(Agent)
=============================================================================
