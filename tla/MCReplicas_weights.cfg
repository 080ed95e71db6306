SPECIFICATION AnyOrderSpec
CONSTANTS
  Width = 3
  Replica = {1, 2}
  Api = {"AddEdge", "ReportEvent", "DecayAll"}
  LocalId = {}
  EdgeKey = {k1, k2}
  Label = {}
  Embedding = {}
  Weight <- MixedWeights
  Event = {"TestFailed"}
  DecayAmount = {1}
  WallClock = {0}
  MaxOps = 3
  None = None
SYMMETRY DataSymmetry
INVARIANTS
  BucketsAgree
  
PROPERTY ShowsWhatIsKnown
