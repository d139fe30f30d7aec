---------------------------- MODULE MCExecution ----------------------------
EXTENDS Execution, MCMethods

MCMethodSet == Loops \cup Irreducibles \cup Singles
MCPolicies == {"fifo"}
=============================================================================
