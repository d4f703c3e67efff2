--------------------------- MODULE MCOracleIndex ---------------------------
EXTENDS OracleIndex
=============================================================================
