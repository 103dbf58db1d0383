\* Batches of 1..2 phones, prefetch windows of 1 and 2 keys, every subset
\* of the candidate DNO and LERG rows; the DNO column zero-filled as the
\* per-request handler's resize leaves it.
CONSTANTS
  Phones = {2015551234, 2015552000, 2025550000}
  USRNs = {2025550000}
  CARNs = {2015551999}
  DnoRowChoices <- MCDnoRows
  LergRowChoices <- MCLergRows
  MaxBatch = 2
  PrefetchValues = {1, 2}
  OutInit = {0}
SPECIFICATION Spec
\* A request ends when its lookups are done.
CHECK_DEADLOCK FALSE
INVARIANTS
  TypeOK
  DnoMatchesSpec
  LergMatchesSpec
PROPERTIES
  BatchCompletes
