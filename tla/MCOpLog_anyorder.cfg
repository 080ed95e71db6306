SPECIFICATION AnyOrderSpec
CONSTANTS
  Replica = {1, 2}
  Operation = {o1, o2}
  WallClock = {0, 1}
  MaxOps = 3
SYMMETRY OperationSymmetry
INVARIANTS
  TypeOK
  LogMatchesTags
  ClockAhead
  CausalTimestamps
  OriginKnows
  TagsIdentifyOps
  OwnOpsCovered
PROPERTY NoLocalOpLost
