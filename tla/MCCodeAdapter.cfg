SPECIFICATION Spec
CONSTANTS
  Name = {f, g}
  Tree = {ta, tb}
  MaxItems = 4
SYMMETRY Symmetry
INVARIANTS
  TypeOK
  ContainsFollowsClasses
  SiblingsAreChained
  CallsGoByName
PROPERTY ImplementsAdapter
CHECK_DEADLOCK FALSE
