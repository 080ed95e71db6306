SPECIFICATION Spec
CONSTANTS
  Width = 16
  Replica = {1, 2}
  LocalId = {0, 1, 2, 3}
  EdgeKey <- Keys
  Label <- Labels
  Embedding <- Embeddings
  Weight = {1, 50, 70, 100}
  Event = {"SuggestionRejected"}
  None = None
  Dot = Dot
  Tilde = Tilde
  File <- Files
  Dims = {64, 128}
  Threshold = {60}
  Score <- Scores
  ReportKey <- ReportKeys
  MaxRequests = 3
INVARIANTS
  TypeOK
  EnginesConverge
  LinksComeInPairs
PROPERTIES
  ScansCover
  TreesAreKept
CHECK_DEADLOCK FALSE
