SPECIFICATION Spec
CONSTANTS
  Width = 8
  Replica = {1, 2}
  Api = {"AddEdge", "RemoveEdge"}
  LocalId = {}
  EdgeKey = {k1}
  Label = {}
  Embedding = {}
  Weight = {2}
  Event = {}
  DecayAmount = {}
  WallClock = {0}
  MaxOps = 3
  None = None
INVARIANT DigestsConverge
