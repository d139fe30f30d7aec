SPECIFICATION Spec
CONSTANTS
  Readers = {r1, r2}
  r1 = r1
  r2 = r2
  Worlds <- MCWorlds
  MaxReads = 2
CHECK_DEADLOCK FALSE
INVARIANTS
  OneLayout
  ReadsAgree
  AllowanceExact
PROPERTY
  ReadsReturn
