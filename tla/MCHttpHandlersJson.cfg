\* A JSON answer of /target or /reverse: is it valid JSON?  With only
\* "/target" in Paths the LERG-miss `::` shows, with only "/reverse" the
\* trailing comma.
CONSTANTS
  Paths = {"/target", "/reverse"}
  Methods = {"GET", "POST"}
  MaxQuery = 3
  ChunkSizes = {1, 2}
  MaxChunks = 3
  MaxParams = 2
  PrefixValues <- MCPrefixValues
  MaxPrefixes = 1
  Width = 3
  MaxRows = 1
SPECIFICATION Spec
CHECK_DEADLOCK FALSE
INVARIANT JsonWellFormed
