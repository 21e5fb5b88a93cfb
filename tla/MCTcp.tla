------------------------------- MODULE MCTcp -------------------------------
EXTENDS TcpConnection
=============================================================================
