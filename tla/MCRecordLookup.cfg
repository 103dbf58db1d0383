\* Every table; three row keys (for Geo, three NPA-NXX) and a phone that
\* shares its NPA-NXX with a row but not its number; two payloads so that a
\* duplicate differs from the original; MaxRows = 2 below MaxAdds = 3 so
\* the row limit is reached; windows of 1 and 2 over requests of 1 to 3 (3 in windows of 2 ends on a partial window).
CONSTANTS
  a = a
  b = b
  none = none
  Tables = {"dnc", "tollfree", "youmail", "geo", "ftc", "f404", "f606"}
  Phones = {2015551234, 2015559999, 2025550000}
  RowPhones = {2015551234, 2025550000, 2035550000}
  Payloads <- MCPayloads
  NoPayload = none
  MaxRows = 2
  MaxAdds = 3
  MaxBatch = 3
  PrefetchValues = {1, 2}
SPECIFICATION Spec
CHECK_DEADLOCK FALSE
INVARIANTS TypeOK LookupMatchesSpec InsertedRowsFound
PROPERTY LookupCompletes
