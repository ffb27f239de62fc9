---------------------------- MODULE PublishedIndex ----------------------------
(***************************************************************************)
(* What the generations of the daemon promise (daemon/src/service.rs; its  *)
(* tests generation_swap_preserves_reads and failed_refresh_keeps_last_good *)
(* and ADR-008: it "keeps serving the last good index"). There is always   *)
(* one published index; it is replaced in one step, only by one that is    *)
(* not older; and a project that is open serves one index, whole, until it *)
(* turns to the one just published. A refresh that fails changes nothing.  *)
(*                                                                         *)
(* An index is abstracted to the version of the working tree it reflects.  *)
(***************************************************************************)
EXTENDS Naturals

CONSTANTS
    Inst,       \* project keys of the daemon
    MaxVersion, \* bound: versions of the working tree
    Down        \* the project is not open

VARIABLES
    published,  \* version of the index a project opens with
    serving     \* version each project serves, or Down

vars == <<published, serving>>

Version == 0..MaxVersion

Init ==
    /\ published \in Version
    /\ serving = [i \in Inst |-> Down]

Open(i) ==
    /\ serving[i] = Down
    /\ serving' = [serving EXCEPT ![i] = published]
    /\ UNCHANGED published

Publish ==
    /\ \E v \in published..MaxVersion : published' = v
    /\ UNCHANGED serving

Switch(i) ==
    /\ serving[i] # Down
    /\ serving' = [serving EXCEPT ![i] = published]
    /\ UNCHANGED published

Stop ==
    /\ serving' = [i \in Inst |-> Down]
    /\ UNCHANGED published

Next == Publish \/ Stop \/ \E i \in Inst : Open(i) \/ Switch(i)

Spec == Init /\ [][Next]_vars
=============================================================================
