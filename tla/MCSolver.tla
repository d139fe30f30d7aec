------------------------------ MODULE MCSolver ------------------------------
EXTENDS Solver, MCMethods

MCMethodSet == Loops \cup Irreducibles \cup Singles
MCPolicies == {"fifo", "lifo", "shuffle"}
=============================================================================
