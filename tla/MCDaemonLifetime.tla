--------------------------- MODULE MCDaemonLifetime ---------------------------
(* Constants of the TLC runs of DaemonLifetime.                             *)
EXTENDS DaemonLifetime

CONSTANTS c1, c2, d1, d2

MCTwoClients == {c1, c2}
MCTwoDaemons == {d1, d2}

AllFaults == FaultKinds
===============================================================================
