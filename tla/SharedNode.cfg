SPECIFICATION Spec
CONSTANTS
  Nodes = {"a", "b", "c"}
  Tool = Tool
  None = None
  Empty = Empty
  Size = 25
  NameLength = 2
INVARIANTS
  KeysAgree
  AllListed
  OnlyTornReadsBlock
PROPERTIES
  StopUnregisters
CONSTRAINT Bounds
CHECK_DEADLOCK FALSE
