--------------------------- MODULE MCPairSession ---------------------------
EXTENDS PairSession
=============================================================================
