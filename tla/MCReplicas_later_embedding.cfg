SPECIFICATION Spec
CONSTANTS
  Width = 8
  Replica = {1, 2}
  Api = {"AddNode", "SetEmbedding"}
  LocalId = {0}
  EdgeKey = {}
  Label = {la}
  Embedding = {ea, eb}
  Weight = {}
  Event = {}
  DecayAmount = {}
  WallClock = {0}
  MaxOps = 3
  None = None
INVARIANT LaterEmbeddingWins
