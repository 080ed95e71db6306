SPECIFICATION Spec
CONSTANTS
  Width = 8
  Replica = {1, 2}
  Api = {"AddNode", "RemoveNode", "SetEmbedding", "AddEdge", "RemoveEdge"}
  LocalId = {0}
  EdgeKey = {k1}
  Label = {la}
  Embedding = {ea, eb}
  Weight = {2}
  Event = {}
  DecayAmount = {}
  WallClock = {0}
  MaxOps = 4
  None = None
SYMMETRY DataSymmetry
INVARIANTS
  TypeOK
  NodesConverge
  StateMergeAgrees
PROPERTY ShowsWhatIsKnown
