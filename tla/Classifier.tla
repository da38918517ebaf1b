----------------------------- MODULE Classifier -----------------------------
(***************************************************************************)
(* ActivityClassifier: what a turn was doing, from the tools it used.  The *)
(* adapters classify a turn when they collect it, and the activity is      *)
(* stored with it.  Only names count: a tool has the kind of the table it  *)
(* is listed in, and its name may match the expressions for tests and for  *)
(* shipping.  (Matches across two names, in the joined string that the     *)
(* code searches, are left out.)                                           *)
(***************************************************************************)
CONSTANTS
  Tool,       \* the tools, by their lower-case names
  ToolKind,   \* the table that lists each, if any
  TestNamed,  \* those whose names testRE matches
  ShipNamed   \* those whose names shipRE matches

Kind == {"shell", "write", "plan", "read", "interactive", "other"}

ASSUME ToolAssumption ==
  ToolKind \in [Tool -> Kind] /\ TestNamed \subseteq Tool /\ ShipNamed \subseteq Tool

Activity == {"thinking", "exploration", "coding", "testing", "shipping", "conversation"}

Uses(tools, k) == \E t \in tools : ToolKind[t] = k

\* The chain, in its order; a read tool beside an interactive one does not make
\* an exploration.
Classify(tools) ==
  IF tools = {} THEN "thinking"
  ELSE IF Uses(tools, "shell") THEN
    IF tools \cap TestNamed # {} THEN "testing"
    ELSE IF tools \cap ShipNamed # {} THEN "shipping" ELSE "coding"
  ELSE IF Uses(tools, "write") THEN "coding"
  ELSE IF Uses(tools, "interactive") /\ ~Uses(tools, "plan") THEN "conversation"
  ELSE "exploration"
=============================================================================
