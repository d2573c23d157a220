-------------------------- MODULE MCConnectionPool --------------------------
EXTENDS ConnectionPool
=============================================================================
