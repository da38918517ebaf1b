---------------------------- MODULE MCTeamExport ----------------------------
(* Alice pushes from two machines, of which one is enrolled, and Bob from    *)
(* his own.  The sum of any spends tells which ones they are.                *)
EXTENDS TeamExport

CONSTANTS alice, bob, laptop, desktop, bobs, key1, key2, key3

MCUserOf == (laptop :> alice) @@ (desktop :> alice) @@ (bobs :> bob)
MCKeyOf == (laptop :> key1) @@ (desktop :> key2) @@ (bobs :> key3)
MCSpendAt == [n \in 1..MaxPushes |-> 2^(n - 1)]
MCKeyring == (alice :> key1) @@ (bob :> key3)
=============================================================================
