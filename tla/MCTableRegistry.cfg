CONSTANTS
  r1 = r1
  r2 = r2
  w1 = w1
  w2 = w2
  Readers <- MCReaders
  Writers <- MCWriters
  MaxVersion = 3
SPECIFICATION Spec
INVARIANTS
  TypeOK
  
  ReadersSeeBuilt
  RetiredExactlyOnce
PROPERTIES
  ReaderCompletes
  ImplementsVersionSlot
