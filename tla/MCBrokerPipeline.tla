-------------------------- MODULE MCBrokerPipeline --------------------------
(***************************************************************************)
(* Two tools and two documents that disagree about both: under the strict  *)
(* one "pay" needs an approval and a credential and "list" is denied by    *)
(* default; under the lax one "list" is allowed by default and "pay" is    *)
(* denied.  One secrets file has both secrets, the other lacks one.        *)
(***************************************************************************)
EXTENDS BrokerPipeline, TLC

pay  == <<"pay">>
list == <<"list">>

Rule(t, e, r) == [tool |-> t, effect |-> e, credential |-> r]

Strict == [version |-> 1, defaults |-> "deny",
           rules |-> <<Rule(pay, "require_approval", "bank")>>]
Lax    == [version |-> 1, defaults |-> "allow",
           rules |-> <<Rule(pay, "deny", NoRef)>>]
Open   == [version |-> 1, defaults |-> "deny",
           rules |-> <<Rule(list, "allow", "ledger"), Rule(pay, "allow", "bank")>>]

\* Calls are interchangeable; used where no liveness property is checked.
CallSymmetry == Permutations(Call)

MCTool   == {pay, list}
MCServer == <<"srv">>
MCDocs   == {Strict, Lax}
OpenDocs == {Strict, Open}

MCSecretMaps == {[bank |-> "b1", ledger |-> "l1"], [bank |-> Missing, ledger |-> "l2"]}
=============================================================================
