SPECIFICATION Spec
CONSTANTS
  Kinds = {"gemini"}
  NFiles = 2
  MaxEntries = 3
  MaxTokens = 1
INVARIANT OneRowPerTurn
