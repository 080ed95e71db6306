SPECIFICATION Spec
CONSTANTS
  Replica = {1, 2}
  Skew <- SecondAhead
  Label = {la, lb}
  SaveFirst = FALSE
  MaxNodes = 2
  MaxCrashes = 1
  Torn = Torn
SYMMETRY LabelSymmetry
INVARIANTS
  IdsNameNodes
CHECK_DEADLOCK FALSE
