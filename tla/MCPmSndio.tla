------------------------------ MODULE MCPmSndio ------------------------------
EXTENDS PmSndio
=============================================================================
