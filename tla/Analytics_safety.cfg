SPECIFICATION StoreSpec
CONSTANTS
  Tool = {"bash", "pytest", "read"}
  ToolKind <- MCToolKind
  TestNamed = {"pytest"}
  ShipNamed = {}
  Session = {s1, s2}
  Project = {"p", "q"}
  Model = {"haiku", "opus", "local"}
  Premium = {"opus"}
  Price <- MCPrice
  Turn <- MCTurn
  ColdRestartGap = 1
  BloatMinTurns = 2
  CostLimit = 50
  TopN = 1
  TopToolN = 3
  MaxTime = 2
  MaxEvents = 4
INVARIANTS SessionsAreIndependent EveryTokenIsAccountedFor WindowsAreMonotone MoversAddUp AnalysesAgree RecommendationsAddUp ReportIsConsistent
SYMMETRY MCSymmetry
CHECK_DEADLOCK FALSE
