------------------------------ MODULE MCIndexRun ------------------------------
(* Constants of the TLC runs of IndexRun.                                   *)
EXTENDS IndexRun

CONSTANTS f1, f2, c1, c2, pA, pB

MCFile == {f1, f2}
MCOneFile == {f1}
MCPathOrder == [f \in File |-> IF f = f1 THEN 1 ELSE 2]
MCContent == {c1, c2}
MCParsable == {}
MCUnparsable == {c2}
MCTwoProvider == {pA, pB}
MCOneProvider == {pA}

\* No content imports anything; or c1 makes its file import f2.
MCNoImports == [c \in Content |-> {}]
MCImports == [c \in Content |-> IF c = c1 THEN File \cap {f2} ELSE {}]

MCSameDim == [p \in Provider |-> 1]
MCTwoDims == [p \in Provider |-> IF p = pA THEN 1 ELSE 2]

EditsAndCrash == {"modify", "create", "delete", "crash"}
AllButEdits == EventKinds \ {"modify", "create"}
ModifyDedup == {"modify", "dedup"}
ModifyOnly == {"modify"}
SearchOnly == {"search"}
DeleteOnly == {"delete"}
DeleteCrash == {"delete", "crash"}
=============================================================================
