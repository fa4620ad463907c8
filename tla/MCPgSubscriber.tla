--------------------------- MODULE MCPgSubscriber ---------------------------
EXTENDS PgSubscriber
=============================================================================
