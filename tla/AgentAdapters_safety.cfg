SPECIFICATION Spec
CONSTANTS
  Kinds = {"claude", "antigravity", "codex", "copilot"}
  NFiles = 2
  MaxEntries = 4
  MaxTokens = 1
INVARIANTS TypeOK AccountsForAll NeverOvercounts OneRowPerTurn ReadableTurnsAreStored RowsAgreeWithLogs
