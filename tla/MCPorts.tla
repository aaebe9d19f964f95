------------------------------ MODULE MCPorts -------------------------------
EXTENDS Ports
=============================================================================
