\* DncMapping: a header or a blank line among pn rows.
CONSTANTS
  k1 = k1
  k2 = k2
  Keys <- MCKeys
  LoadTables = {"dnc"}
  Leads = {"digit", "alpha", "empty"}
  FieldCounts = {1}
  Limit = 2
  MaxLines = 2
SPECIFICATION Spec
CHECK_DEADLOCK FALSE
INVARIANT NonDataLinesSkipped
