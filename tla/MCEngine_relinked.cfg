SPECIFICATION Spec
CONSTANTS
  Width = 16
  Replica = {1}
  LocalId = {0, 1, 2, 3}
  EdgeKey <- Keys
  Label <- Labels
  Embedding <- Embeddings
  Weight = {1, 50, 70, 100}
  Event = {"SuggestionRejected"}
  None = None
  Dot = Dot
  Tilde = Tilde
  File <- Files
  Dims = {64}
  Threshold = {60}
  Score <- Scores
  ReportKey <- ReportKeys
  MaxRequests = 4
PROPERTIES
  ScansLinkNew
CHECK_DEADLOCK FALSE
