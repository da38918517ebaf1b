------------------------------ MODULE MCReports ------------------------------
(* One session of turns that succeed, half from the cache, and turns of two  *)
(* sizes that fail.  With at most two turns both ratios are twelfths.        *)
EXTENDS Reports

MCToolKind == [t \in Tool |-> "shell"]

MCTurn ==
  { [project |-> "p", model |-> "m", tools |-> {"bash"}, isError |-> FALSE,
     input |-> 1, output |-> 1, cacheRead |-> 1, cacheCreation |-> 0],
    [project |-> "p", model |-> "m", tools |-> {"bash"}, isError |-> TRUE,
     input |-> 2, output |-> 0, cacheRead |-> 0, cacheCreation |-> 0],
    [project |-> "p", model |-> "m", tools |-> {"bash"}, isError |-> TRUE,
     input |-> 3, output |-> 1, cacheRead |-> 0, cacheCreation |-> 1] }

\* Nothing orders the processes.
MCSymmetry == Permutations(Proc)

MCPrice == [m \in {} |-> m]
=============================================================================
