---------------------------- MODULE MCMcpManager ----------------------------
EXTENDS McpManager
CONSTANTS a, b
=============================================================================
