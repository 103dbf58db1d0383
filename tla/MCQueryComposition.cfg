\* Three tables, a request of two phones, two versions per table beyond the
\* null slot: every table may start null or published, be republished
\* between the availability check and the lookup, and between two keys.
CONSTANTS
  p1 = p1
  p2 = p2
  TableOrder <- MCTableOrder
  Request <- MCRequest
  Contents <- MCContents
  MaxVersion = 2
SPECIFICATION Spec
\* The run ends once the request is answered and every loader has published
\* its last version.
CHECK_DEADLOCK FALSE
INVARIANTS
  TypeOK
  NoUnsizedColumnRead
  OneVersionPerLookup
  ResponseMatchesSnapshot
