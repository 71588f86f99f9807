---------------------------- MODULE MCMcpServer ----------------------------
(* Model-checking instances of McpServer: a few lines.                      *)
EXTENDS McpServer

CONSTANTS l1, l2, l3
=============================================================================
