SPECIFICATION Spec
CONSTANTS
  Line <- Lines
  Tree = {ta, tb}
  MaxLines = 5
  MaxDocs = 2
SYMMETRY TreeSymmetry
INVARIANTS
  TypeOK
  StackIsPath
  FollowsOutline
  SiblingsAreChained
  EveryLineKept
  ParagraphsAreBlocks
PROPERTY ImplementsAdapter
CHECK_DEADLOCK FALSE
