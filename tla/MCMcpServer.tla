----------------------------- MODULE MCMcpServer ------------------------------
(* Constants of the TLC runs of McpServer.                                  *)
EXTENDS McpServer

CONSTANTS m1, m2

MCOne == {m1}
MCTwo == {m1, m2}
All == {"fail", "stop", "run", "kill"}
FailOnly == {"fail"}
NoFaults == {}
=============================================================================
