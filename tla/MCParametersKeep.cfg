CONSTANTS
  Names = {"count", "rate"}
  EmptyName = ""
  Values <- MCValues
  Descriptors <- MCDescriptors
  ArgumentSets <- MCArgumentSets
  Half = 8
  MaxDouble = 30
  One = 2
  Precision = 10
  Declarations <- MCDeclarations
  Batches <- MCBatches
SPECIFICATION Spec
VIEW WithoutLast
CHECK_DEADLOCK FALSE
PROPERTY
  SetKeepsDeclared
