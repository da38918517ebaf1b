----------------------------- MODULE MCAnalytics -----------------------------
(* Four turns: coding with a cheap model, a test that fails, an exploration  *)
(* with a premium model that fills the cache, and thinking, from the cache,  *)
(* with a model that has no price.  Two turns make a session long enough to  *)
(* bloat, and a pause of more than one unit lets it go cold.                 *)
EXTENDS Analytics

\* Nothing orders the sessions.
MCSymmetry == Permutations(Session)

MCToolKind == [t \in Tool |-> IF t = "read" THEN "read"
                              ELSE IF t = "bash" THEN "shell" ELSE "other"]

MCTurn ==
  { [project |-> "p", model |-> "haiku", tools |-> {"bash"}, isError |-> FALSE,
     input |-> 1, output |-> 1, cacheRead |-> 0, cacheCreation |-> 0],
    [project |-> "p", model |-> "haiku", tools |-> {"bash", "pytest"}, isError |-> TRUE,
     input |-> 2, output |-> 0, cacheRead |-> 1, cacheCreation |-> 0],
    [project |-> "q", model |-> "opus", tools |-> {"read"}, isError |-> FALSE,
     input |-> 1, output |-> 3, cacheRead |-> 2, cacheCreation |-> 1],
    [project |-> "q", model |-> "local", tools |-> {}, isError |-> FALSE,
     input |-> 0, output |-> 2, cacheRead |-> 3, cacheCreation |-> 0] }

MCPrice == "haiku" :> [input |-> 1, output |-> 4, cacheRead |-> 0, cacheCreation |-> 1]
        @@ "opus" :> [input |-> 5, output |-> 20, cacheRead |-> 1, cacheCreation |-> 6]
=============================================================================
