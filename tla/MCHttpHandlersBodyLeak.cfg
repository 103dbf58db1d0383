\* A /target POST whose body passes the limit: is the body freed?
CONSTANTS
  Paths = {"/target"}
  Methods = {"GET", "POST"}
  MaxQuery = 3
  ChunkSizes = {1, 2}
  MaxChunks = 3
  MaxParams = 2
  PrefixValues <- MCPrefixValues
  MaxPrefixes = 1
  Width = 3
  MaxRows = 1
SPECIFICATION Spec
CHECK_DEADLOCK FALSE
INVARIANT BodyFreed
