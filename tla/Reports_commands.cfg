SPECIFICATION Spec
CONSTANTS
  Tool = {"bash"}
  ToolKind <- MCToolKind
  TestNamed = {}
  ShipNamed = {}
  Session = {"s"}
  Project = {"p"}
  Model = {"m"}
  Premium = {}
  Price <- MCPrice
  Turn <- MCTurn
  ColdRestartGap = 1
  BloatMinTurns = 2
  CostLimit = 50
  TopN = 1
  TopToolN = 1
  Metric = {"cache-miss", "rework"}
  Proc = {p, q}
  Scale = 12
  MaxTime = 1
  MaxEvents = 2
  MaxRuns = 3
INVARIANTS VerdictsAreReproducible RecordsAreCurrent
PROPERTY ImplementsFollowThrough
SYMMETRY MCSymmetry
CHECK_DEADLOCK FALSE
