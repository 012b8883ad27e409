------------------------------ MODULE MCPmQueue ------------------------------
EXTENDS PmQueueStream
=============================================================================
