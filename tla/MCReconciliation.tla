-------------------------- MODULE MCReconciliation --------------------------
(***************************************************************************)
(* One model of each provider.  A local total of 21 over 20 billed tokens *)
(* is on the boundary of the tolerance, 22 over 20 is beyond it.          *)
(***************************************************************************)
EXTENDS Reconciliation

MCModels == {"claude", "gpt"}
MCOwner == [m \in MCModels |-> IF m = "gpt" THEN "openai" ELSE "anthropic"]
MCUsages == {[fresh |-> 5, cached |-> 15], [fresh |-> 1, cached |-> 0]}
=============================================================================
