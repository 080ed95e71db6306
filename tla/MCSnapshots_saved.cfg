SPECIFICATION Spec
CONSTANTS
  Replica = {1, 2}
  Skew <- SecondAhead
  Label = {la, lb}
  SaveFirst = TRUE
  MaxNodes = 2
  MaxCrashes = 1
  Torn = Torn
SYMMETRY LabelSymmetry
INVARIANTS
  TypeOK
  IdsNameNodes
  TagsNameOps
  OnFile
CHECK_DEADLOCK FALSE
