----------------------------- MODULE EventLedger -----------------------------
(***************************************************************************)
(* What collection promises to its readers, with nothing of processes,     *)
(* locks or transactions: agents log entries, and from time to time a set  *)
(* of entries not yet in the ledger is added to it in one step, each as    *)
(* some version of it that was logged.  Nothing else happens to the ledger.*)
(***************************************************************************)
EXTENDS Integers

CONSTANTS Id, Rewritten, MaxVersion

VARIABLES logged, ledger

ledgerVars == <<logged, ledger>>

Init ==
  /\ logged = [d \in Id |-> 0]
  /\ ledger = [d \in Id |-> 0]

\* An agent logs an entry, or rewrites one that may be rewritten.
Log(d) ==
  /\ logged[d] = 0 \/ d \in Rewritten
  /\ logged[d] < MaxVersion
  /\ logged' = [logged EXCEPT ![d] = @ + 1]
  /\ UNCHANGED ledger

\* Some entries enter the ledger together.
Record ==
  /\ ledger' \in [Id -> 0..MaxVersion]
  /\ \A d \in Id :
       \/ ledger'[d] = ledger[d]
       \/ ledger[d] = 0 /\ ledger'[d] \in 1..logged[d]
  /\ UNCHANGED logged

Next == Record \/ \E d \in Id : Log(d)

Spec == Init /\ [][Next]_ledgerVars
=============================================================================
