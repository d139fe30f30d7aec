SPECIFICATION Spec
CONSTANTS
  ClassNames <- MCClassNames
  IntSize = 3
  Methods <- MCMethodSet
  Policies <- MCPolicies
PROPERTY Terminates
CHECK_DEADLOCK FALSE
