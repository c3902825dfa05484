CONSTANTS
  a = a
  b = b
  Names <- TwoNames
  Texts <- FewTexts
  MaxInode = 4
  Paths <- Short
  Folder = folder
  ExitCodes = {127}
SPECIFICATION Spec
SYMMETRY Symmetry
CHECK_DEADLOCK FALSE
INVARIANTS
  TypeOK
  TreeStands
  SizesAgree
PROPERTIES
  CommandsReturn
  RemovesNamed
  RmRemovesOne
  FailuresTell
  ImplementsFileTree
