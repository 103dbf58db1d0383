CONSTANTS
  p1 = p1
  p2 = p2
  p3 = p3
  p4 = p4
  Phones <- MCPhones
  Targets = {1, 2}
  NextBits = 2
  MaxAdds = 5
SPECIFICATION Spec
CHECK_DEADLOCK FALSE
INVARIANTS
  TypeOK
  IndexWellFormed
