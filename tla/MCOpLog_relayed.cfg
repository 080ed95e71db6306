SPECIFICATION FairSpec
CONSTANTS
  Replica = {1, 2, 3}
  Operation = {o1}
  WallClock = {0}
  MaxOps = 2
INVARIANTS
  CausalLogs
  ImportCovers
PROPERTY Converges
