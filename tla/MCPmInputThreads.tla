--------------------------- MODULE MCPmInputThreads ---------------------------
EXTENDS PmInputThreads
=============================================================================
