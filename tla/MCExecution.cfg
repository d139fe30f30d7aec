SPECIFICATION ExecSpec
CONSTANTS
  ClassNames <- MCClassNames
  IntSize = 3
  Methods <- MCMethodSet
  Policies <- MCPolicies
INVARIANTS
  Simulates
  FramesSound
CHECK_DEADLOCK FALSE
