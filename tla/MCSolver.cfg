SPECIFICATION Spec
CONSTANTS
  ClassNames <- MCClassNames
  IntSize = 3
  Methods <- MCMethodSet
  Policies <- MCPolicies
INVARIANTS
  TypeOK
  Settled
  PairsWhole
  OrderIndependent
  AcceptsLegal
  PhisNeeded
PROPERTY Terminates
CHECK_DEADLOCK FALSE
