\* GeoMapping and FtcMapping: a row with the last column addRow reads
\* missing (20 columns with an empty timezone; 5 columns, or 6 with an
\* empty count).  TLC reports the first it meets; LoadTables = {"geo"} or
\* {"ftc"} shows either table alone.
CONSTANTS
  k1 = k1
  k2 = k2
  Keys <- MCKeys
  LoadTables = {"geo", "ftc"}
  Leads = {"digit"}
  FieldCounts = {5, 6, 20}
  Limit = 1
  MaxLines = 2
SPECIFICATION Spec
CHECK_DEADLOCK FALSE
INVARIANT NoMissingColumnRead
