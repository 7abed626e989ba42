----------------------------- MODULE MCPthread -----------------------------
EXTENDS Pthread

=============================================================================
