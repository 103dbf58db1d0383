\* The tables whose fromCSV follows spec.md 6: LERG, Toll-free, DNO and
\* Youmail.  Field counts around each table's accepted counts (3, 4/5, 10),
\* one of them with a dropped trailing empty field.
CONSTANTS
  k1 = k1
  k2 = k2
  Keys <- MCKeys
  LoadTables = {"lerg", "tollfree", "dno", "youmail"}
  Leads = {"digit", "one", "plus", "alpha", "empty"}
  FieldCounts = {1, 3, 5, 10, 11}
  Limit = 2
  MaxLines = 3
SPECIFICATION Spec
\* A load ends when the stream is exhausted or a row fails.
CHECK_DEADLOCK FALSE
INVARIANTS
  TypeOK
  NonDataLinesSkipped
  DuplicateKeyRejected
  ChunkHonoursLimit
PROPERTIES
  LoadTerminates
