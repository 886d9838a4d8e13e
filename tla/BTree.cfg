SPECIFICATION WalkSpec
CONSTANTS
  NULL = NULL
  Node <- MCNode
  data <- MCdata
INVARIANTS Linked WalksAgree
PROPERTIES ImplementsOrderedSet
