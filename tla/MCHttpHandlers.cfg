\* One request to /target, /reverse or another path; a 3-byte limit
\* with 1- and 2-byte chunks, up to 3 of them, puts bodies below, at
\* and over the limit; prefixes of 0 to 4 characters over a 3-digit number.
CONSTANTS
  Paths = {"/target", "/reverse", "/other"}
  Methods = {"GET", "POST", "PUT"}
  MaxQuery = 3
  ChunkSizes = {1, 2}
  MaxChunks = 3
  MaxParams = 2
  PrefixValues <- MCPrefixValues
  MaxPrefixes = 1
  Width = 3
  MaxRows = 1
SPECIFICATION Spec
CHECK_DEADLOCK FALSE
INVARIANTS TypeOK OneResponse  PrefixRangeExact
PROPERTIES ResponseEventually HandlerDeleted
