--------------------------- MODULE MCIndexingLease ---------------------------
(* Constants of the TLC runs of IndexingLease.                              *)
EXTENDS IndexingLease

CONSTANTS p1, p2, p3

MCProc == {p1, p2, p3}
MCTwoProc == {p1, p2}
MCNone == {}
MCOneClearer == {p1}
=============================================================================
