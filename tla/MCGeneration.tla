----------------------------- MODULE MCGeneration -----------------------------
(* Constants of the TLC runs of Generation.                                 *)
EXTENDS Generation

CONSTANTS i1, i2

MCOneInst == {i1}
MCTwoInst == {i1, i2}

SharedLease == {"crash", "fail", "other"}
RenameFails == {"rename", "fail"}
CrashFailRename == {"crash", "fail", "rename"}
=============================================================================
