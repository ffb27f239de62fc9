---------------------------- MODULE Generation_proof ----------------------------
(***************************************************************************)
(* Proofs about Generation, for any number of projects and generations.    *)
(*                                                                         *)
(* The inductive core of ActiveIsWhole is who a generation belongs to:     *)
(* from its making on a directory is that of one project (OwnedAlone), in  *)
(* a state that the step tells (OwnedState), and nobody can find it until  *)
(* the pointer names it. The indexing lease makes the run that writes      *)
(* the pointer the only one (LeaseIsOfRun). SearcherIsActive needs that    *)
(* a build keeps the cache from being dropped (BuildIsActive). That the    *)
(* index published is never an older one (VersionInv) needs that nobody    *)
(* finds the pointer gone, so it is proved where no rename fails.          *)
(***************************************************************************)
EXTENDS Generation, TLAPS

\* The steps of a run before and after its outcome is known
StepsBefore ==
    {"none", "stage", "copy", "start", "index", "walked", "open", "pointer", "replace"}
StepsAfter(result) ==
    CASE result = "none" -> StepsBefore
      [] result = "promoted" -> {"swap", "mark", "invalidate", "release"}
      [] OTHER -> {"cleanup", "mark", "invalidate", "release"}

OutcomeInv == \A i \in Inst : run[i] \in StepsAfter(outcome[i])

Making(i) == opening[i] \in {"make", "point", "create"}

\* The steps at which a project has a generation that nobody else may touch
Owns(i) ==
    \/ opening[i] \in {"point", "create"}
    \/ run[i] \in {"copy", "start", "index", "walked", "open", "pointer", "replace", "swap",
                   "cleanup"}
    \/ outcome[i] = "promotionFailed" /\ run[i] \in {"mark", "invalidate"}

\* A run has the lease, and only the command line that has it has a generation open.
LeaseIsOfRun ==
    /\ \A i \in Inst : run[i] # "none" <=> lease = i
    /\ other # None => lease = Other

\* What a project has, it has once it is open; one at most is being made.
ProjectInv ==
    \A i \in Inst :
        /\ active[i] # None <=> opening[i] = "up"
        /\ (asked[i] \/ run[i] # "none" \/ build[i] # None \/ searcher[i] # None)
              => opening[i] = "up"
        /\ \A j \in Inst : Making(i) /\ Making(j) => i = j

OwnedAlone ==
    \A i \in Inst : Owns(i) =>
        /\ staged[i] # None
        /\ other # staged[i]
        /\ \A j \in Inst : active[j] # staged[i]
        /\ \A j \in Inst : Owns(j) /\ staged[j] = staged[i] => i = j

OwnedState ==
    \A i \in Inst : Owns(i) =>
        /\ dir[staged[i]].state # "absent"
        /\ opening[i] \in {"point", "create"} \/ run[i] = "copy"
              => dir[staged[i]].state = "bare"
        /\ run[i] \in {"open", "pointer", "replace", "swap"}
              => dir[staged[i]].state = "whole"
        /\ run[i] \notin {"none", "swap"} => pointer # staged[i]

\* What the pointer names has been made, and is whole once it has files.
PointerInv == pointer # None => dir[pointer].state \in {"bare", "whole"}

OtherInv == other # None => dir[other].state = "whole"

Core ==
    /\ OutcomeInv /\ LeaseIsOfRun /\ ProjectInv /\ OwnedAlone /\ OwnedState
    /\ PointerInv /\ OtherInv /\ ActiveIsWhole

\* Between the swap and the end of the build that the run waits for, a build may
\* have read the provider of the generation before.
Swapped(i) == outcome[i] = "promoted" /\ run[i] \in {"mark", "invalidate"}

BuildIsActive ==
    \A i \in Inst : ~Swapped(i) =>
        /\ build[i] # None => build[i] = active[i]
        /\ searcher[i] # None =>
              searcher[i] = [provider |-> active[i], backend |-> active[i]]

\* While a first generation is being made nobody has the project open; once
\* somebody has, there is always a generation to open. A run that has walked the
\* tree has an index that is not older than the one published.
VersionInv ==
    /\ \A g \in Gen : dir[g].version <= tree
    /\ \A i \in Inst :
          /\ Making(i) => ~HasFiles(pointer) /\ \A j \in Inst : opening[j] # "up"
          /\ opening[i] \in {"point", "create"} => dir[staged[i]].version = 0
          /\ opening[i] = "create" => pointer = staged[i]
          /\ opening[i] = "up" => HasFiles(pointer)
          /\ run[i] \in {"walked", "open", "pointer", "replace"}
                => Published <= dir[staged[i]].version
          /\ run[i] = "swap" => pointer = staged[i]

Inv == TypeOK /\ Core

LEMMA Names ==
    /\ None \notin Inst /\ None \notin Gen /\ Other \notin Inst /\ Other # None
    /\ Gen \subseteq Nat /\ MaxGen \in Nat /\ MaxVersion \in Nat
BY GenerationAssumption DEF Gen

LEMMA FirstOnes == 1 \in Gen /\ 0 \in Version /\ Version \subseteq Nat /\ None \notin Version
BY GenerationAssumption DEF Gen, Version

LEMMA NewIsFree == Free # {} => NewGen \in Gen /\ dir[NewGen].state = "absent"
BY DEF Free, NewGen

LEMMA StateSet ==
    ASSUME dir \in [Gen -> [state : DirStates, version : Version]], NEW g \in Gen,
           NEW s \in DirStates, dir' = [dir EXCEPT ![g].state = s]
    PROVE  dir' \in [Gen -> [state : DirStates, version : Version]]
OBVIOUS

LEMMA AfterFacts ==
    /\ DOMAIN After = {"indexFailed", "promotionFailed", "promoted"}
    /\ After["indexFailed"].start = "cleanup"
    /\ After["promotionFailed"].start = "mark"
    /\ After["promoted"].start = "swap"
    /\ After["indexFailed"]["cleanup"] = "mark"
    /\ After["indexFailed"]["mark"] = "invalidate"
    /\ After["indexFailed"]["invalidate"] = "release"
    /\ After["promotionFailed"]["mark"] = "invalidate"
    /\ After["promotionFailed"]["invalidate"] = "cleanup"
    /\ After["promotionFailed"]["cleanup"] = "release"
    /\ After["promoted"]["swap"] = "mark"
    /\ After["promoted"]["mark"] = "invalidate"
    /\ After["promoted"]["invalidate"] = "release"
BY DEF After, AfterFailedIndex, AfterFailedPromotion, AfterPointer

LEMMA SwapMoves ==
  ASSUME OutcomeInv, NEW i \in Inst, Swap(i)
  PROVE  outcome[i] = "promoted" /\ run' = [run EXCEPT ![i] = "mark"]
<1>1. outcome[i] = "promoted"
  BY DEF Swap, OutcomeInv, StepsAfter, StepsBefore
<1> QED BY <1>1, AfterFacts DEF Swap, Advance, Goto

LEMMA CleanupMoves ==
  ASSUME TypeOK, OutcomeInv, NEW i \in Inst, Cleanup(i)
  PROVE  /\ \/ outcome[i] = "indexFailed" /\ run' = [run EXCEPT ![i] = "mark"]
            \/ outcome[i] = "promotionFailed" /\ run' = [run EXCEPT ![i] = "release"]
         /\ \A j \in Inst \ {i} : run'[j] = run[j]
<1>1. outcome[i] \in {"none", "indexFailed", "promotionFailed", "promoted"}
  BY AfterFacts DEF TypeOK
<1>2. outcome[i] \in {"indexFailed", "promotionFailed"}
  BY <1>1 DEF Cleanup, OutcomeInv, StepsAfter, StepsBefore
<1>3. run' = [run EXCEPT ![i] = After[outcome[i]]["cleanup"]]
  BY DEF Cleanup, Advance, Goto
<1>4. \A j \in Inst \ {i} : run'[j] = run[j]
  BY <1>3 DEF TypeOK
<1> QED BY <1>2, <1>3, <1>4, AfterFacts

-----------------------------------------------------------------------------
(* Types, and who a generation belongs to                                   *)

LEMMA InitInv == Init => Inv
<1> USE Names DEF Init
<1> SUFFICES ASSUME Init PROVE Inv
  OBVIOUS
<1>0. \A g \in Gen : dir[g].state = (IF Indexed /\ g = 1 THEN "whole" ELSE "absent")
  OBVIOUS
<1>1. TypeOK
  <2>1. /\ tree \in Version /\ pointer \in Gen \cup {None}
        /\ dir \in [Gen -> [state : DirStates, version : Version]]
    BY FirstOnes DEF DirStates
  <2> QED BY <2>1 DEF TypeOK, RunSteps
<1>2. OutcomeInv /\ LeaseIsOfRun /\ ProjectInv /\ PointerInv /\ OtherInv
  BY <1>0, FirstOnes DEF OutcomeInv, StepsAfter, StepsBefore, LeaseIsOfRun, ProjectInv, Making, PointerInv,
         OtherInv
<1>3. OwnedAlone /\ OwnedState /\ ActiveIsWhole
  BY DEF OwnedAlone, OwnedState, Owns, ActiveIsWhole
<1> QED BY <1>1, <1>2, <1>3 DEF Inv, Core

\* What a run writes to is there, and each outcome leads it on.
LEMMA NextTypes ==
  ASSUME Inv, [Next]_vars
  PROVE  TypeOK'
<1> USE Names DEF Inv, TypeOK, RunSteps, DirStates, Version, storage, project, Core,
        OutcomeInv, StepsAfter, StepsBefore, ProjectInv, Making, OwnedAlone, Owns
<1>1. ASSUME Edit PROVE TypeOK'
  BY <1>1 DEF Edit
<1>2. ASSUME NEW i \in Inst, Open(i) PROVE TypeOK'
  BY <1>2 DEF Open, HasFiles, IsOpen
<1>3. ASSUME NEW i \in Inst, MakeFirst(i) PROVE TypeOK'
  BY <1>3, NewIsFree DEF MakeFirst
<1>4. ASSUME NEW i \in Inst, PointFirst(i) PROVE TypeOK'
  BY <1>4 DEF PointFirst
<1>5. ASSUME NEW i \in Inst, CreateFirst(i) PROVE TypeOK'
  BY <1>5 DEF CreateFirst
<1>6. ASSUME NEW i \in Inst, OpenFails(i) PROVE TypeOK'
  <2>1. staged[i] \in Gen \cup {None} /\ (opening[i] = "create" => staged[i] \in Gen)
    OBVIOUS
  <2>2. CASE UNCHANGED dir
    BY <1>6, <2>2 DEF OpenFails
  <2>3. CASE opening[i] = "create" /\ dir' = [dir EXCEPT ![staged[i]].state = "whole"]
    BY <1>6, <2>1, <2>3 DEF OpenFails
  <2> QED BY <1>6, <2>2, <2>3 DEF OpenFails
<1>7. ASSUME NEW i \in Inst, BeginBuild(i) PROVE TypeOK'
  BY <1>7 DEF BeginBuild
<1>8. ASSUME NEW i \in Inst, EndBuild(i) PROVE TypeOK'
  <2>1. build[i] \in Gen /\ active[i] \in Gen
    BY <1>8 DEF EndBuild
  <2>2. searcher' = [searcher EXCEPT ![i] = [provider |-> build[i], backend |-> active[i]]]
    BY <1>8 DEF EndBuild
  <2>3. searcher' \in [Inst -> [provider : Gen, backend : Gen] \cup {None}]
    BY <2>1, <2>2
  <2> QED BY <1>8, <2>3 DEF EndBuild
<1>9. ASSUME NEW i \in Inst, BuildFails(i) PROVE TypeOK'
  BY <1>9 DEF BuildFails
<1>10. ASSUME NEW i \in Inst, Ask(i) PROVE TypeOK'
  BY <1>10 DEF Ask
<1>11. ASSUME NEW i \in Inst, Denied(i) PROVE TypeOK'
  BY <1>11 DEF Denied
<1>12. ASSUME NEW i \in Inst, AcquireLease(i) PROVE TypeOK'
  BY <1>12 DEF AcquireLease, Goto
<1>13. ASSUME NEW i \in Inst, StageDirectory(i) PROVE TypeOK'
  BY <1>13, NewIsFree DEF StageDirectory, Goto
<1>14. ASSUME NEW i \in Inst, CopyActive(i) PROVE TypeOK'
  BY <1>14 DEF CopyActive, Goto
<1>15. ASSUME NEW i \in Inst, PrepareFails(i) PROVE TypeOK'
  BY <1>15 DEF PrepareFails, Goto
<1>16. ASSUME NEW i \in Inst, MarkStarted(i) PROVE TypeOK'
  BY <1>16 DEF MarkStarted, Goto
<1>17. ASSUME NEW i \in Inst, BeginIndex(i) PROVE TypeOK'
  BY <1>17 DEF BeginIndex, Goto
<1>18. ASSUME NEW i \in Inst, EndIndex(i) PROVE TypeOK'
  BY <1>18 DEF EndIndex, Goto
<1>19. ASSUME NEW i \in Inst, IndexFails(i) PROVE TypeOK'
  BY <1>19, AfterFacts DEF IndexFails, Conclude, Goto
<1>20. ASSUME NEW i \in Inst, OpenStaged(i) PROVE TypeOK'
  BY <1>20 DEF OpenStaged, Goto
<1>21. ASSUME NEW i \in Inst, WritePointer(i) PROVE TypeOK'
  BY <1>21, AfterFacts DEF WritePointer, Conclude, Goto
<1>22. ASSUME NEW i \in Inst, RemovePointer(i) PROVE TypeOK'
  BY <1>22 DEF RemovePointer, Goto
<1>23. ASSUME NEW i \in Inst, PromotionFails(i) PROVE TypeOK'
  BY <1>23, AfterFacts DEF PromotionFails, Conclude, Goto
<1>24. ASSUME NEW i \in Inst, Swap(i) PROVE TypeOK'
  <2>1. /\ run[i] = "swap" /\ run' = [run EXCEPT ![i] = "mark"]
        /\ active' = [active EXCEPT ![i] = staged[i]]
        /\ UNCHANGED <<storage, opening, searcher, build, progress, asked, staged, outcome>>
    BY <1>24, SwapMoves DEF Swap
  <2> QED BY <2>1
<1>25. ASSUME NEW i \in Inst, Mark(i) PROVE TypeOK'
  BY <1>25, AfterFacts DEF Mark, Advance, Goto
<1>26. ASSUME NEW i \in Inst, InvalidateSearcher(i) PROVE TypeOK'
  BY <1>26, AfterFacts DEF InvalidateSearcher, Advance, Goto
<1>27. ASSUME NEW i \in Inst, Cleanup(i) PROVE TypeOK'
  <2>1. staged[i] \in Gen
    BY <1>27 DEF Cleanup
  <2>2. dir' \in [Gen -> [state : DirStates, version : Version]]
    BY <1>27, <2>1, StateSet DEF Cleanup
  <2>5. run' \in [Inst -> RunSteps]
    BY <1>27, CleanupMoves
  <2>6. UNCHANGED <<other, tree, pointer, lease, opening, active, searcher, build, progress,
                    asked, staged, outcome>>
    BY <1>27 DEF Cleanup
  <2> HIDE DEF Core
  <2> QED BY <2>2, <2>5, <2>6
<1>28. ASSUME NEW i \in Inst, Release(i) PROVE TypeOK'
  BY <1>28 DEF Release, Goto
<1>29. ASSUME Crash PROVE TypeOK'
  BY <1>29 DEF Crash
<1>30. ASSUME OtherLocks PROVE TypeOK'
  BY <1>30 DEF OtherLocks
<1>31. ASSUME OtherOpens PROVE TypeOK'
  BY <1>31 DEF OtherOpens, HasFiles, IsOpen
<1>32. ASSUME OtherIndexes PROVE TypeOK'
  BY <1>32 DEF OtherIndexes
<1>33. ASSUME OtherEnds PROVE TypeOK'
  BY <1>33 DEF OtherEnds
<1>34. CASE UNCHANGED vars
  BY <1>34 DEF vars
<1> QED
  BY <1>1, <1>2, <1>3, <1>4, <1>5, <1>6, <1>7, <1>8, <1>9, <1>10, <1>11, <1>12, <1>13,
     <1>14, <1>15, <1>16, <1>17, <1>18, <1>19, <1>20, <1>21, <1>22, <1>23, <1>24, <1>25,
     <1>26, <1>27, <1>28, <1>29, <1>30, <1>31, <1>32, <1>33, <1>34 DEF Next, RunStep,
     BuildStep

\* A directory comes to be a project's when it is made, which no other names, and
\* stops to be when the pointer names it and its project serves it, or when it is
\* removed.
LEMMA NextCore ==
  ASSUME Inv, TypeOK', [Next]_vars
  PROVE  Core'
<1> USE Names DEF Inv, TypeOK, DirStates, storage, project, Core, OutcomeInv,
        StepsAfter, StepsBefore, LeaseIsOfRun, ProjectInv, Making, OwnedAlone,
        OwnedState, Owns, PointerInv, OtherInv, ActiveIsWhole
<1>1. ASSUME Edit PROVE Core'
  BY <1>1 DEF Edit
<1>2. ASSUME NEW i \in Inst, Open(i) PROVE Core'
  <2>1. /\ opening[i] = "down" /\ \A j \in Inst : opening[j] \in {"down", "up"}
        /\ UNCHANGED <<storage, searcher, build, progress, asked, run, staged, outcome>>
    BY <1>2 DEF Open
  <2>2. CASE opening' = [opening EXCEPT ![i] = "make"] /\ UNCHANGED active
    BY <2>1, <2>2
  <2>3. CASE /\ HasFiles(pointer) /\ ~IsOpen(pointer)
             /\ active' = [active EXCEPT ![i] = pointer]
             /\ opening' = [opening EXCEPT ![i] = "up"]
    <3>1. /\ pointer \in Gen /\ dir[pointer].state = "whole" /\ other # pointer
          /\ \A j \in Inst : active[j] # pointer
      BY <2>3 DEF HasFiles, IsOpen
    <3>2. \A j \in Inst : Owns(j) => staged[j] # pointer
      BY <2>1, <2>3, <3>1 DEF IsOpen
    <3> QED BY <2>1, <2>3, <3>1, <3>2
  <2> QED BY <1>2, <2>2, <2>3 DEF Open
<1>3. ASSUME NEW i \in Inst, MakeFirst(i) PROVE Core'
  BY <1>3, NewIsFree DEF MakeFirst
<1>4. ASSUME NEW i \in Inst, PointFirst(i) PROVE Core'
  BY <1>4 DEF PointFirst
<1>5. ASSUME NEW i \in Inst, CreateFirst(i) PROVE Core'
  BY <1>5 DEF CreateFirst
<1>6. ASSUME NEW i \in Inst, OpenFails(i) PROVE Core'
  <2>1. staged[i] \in Gen \cup {None} /\ (opening[i] = "create" => staged[i] \in Gen)
    OBVIOUS
  <2>2. CASE UNCHANGED dir
    BY <1>6, <2>2 DEF OpenFails
  <2>3. CASE opening[i] = "create" /\ dir' = [dir EXCEPT ![staged[i]].state = "whole"]
    BY <1>6, <2>1, <2>3 DEF OpenFails
  <2> QED BY <1>6, <2>2, <2>3 DEF OpenFails
<1>7. ASSUME NEW i \in Inst, BeginBuild(i) PROVE Core'
  BY <1>7 DEF BeginBuild
<1>8. ASSUME NEW i \in Inst, EndBuild(i) PROVE Core'
  BY <1>8 DEF EndBuild
<1>9. ASSUME NEW i \in Inst, BuildFails(i) PROVE Core'
  BY <1>9 DEF BuildFails
<1>10. ASSUME NEW i \in Inst, Ask(i) PROVE Core'
  BY <1>10 DEF Ask
<1>11. ASSUME NEW i \in Inst, Denied(i) PROVE Core'
  BY <1>11 DEF Denied
<1>12. ASSUME NEW i \in Inst, AcquireLease(i) PROVE Core'
  BY <1>12 DEF AcquireLease, Goto
<1>13. ASSUME NEW i \in Inst, StageDirectory(i) PROVE Core'
  <2> DEFINE g == NewGen
  <2>1. /\ run[i] = "stage" /\ g \in Gen /\ dir[g].state = "absent"
        /\ dir' = [dir EXCEPT ![g] = [state |-> "bare", version |-> 0]]
        /\ staged' = [staged EXCEPT ![i] = g]
        /\ run' = [run EXCEPT ![i] = "copy"]
        /\ UNCHANGED <<other, tree, pointer, lease, opening, active, searcher, build,
                       progress, asked, outcome>>
    BY <1>13, NewIsFree DEF StageDirectory, Goto
  <2>2. /\ g # None /\ other # g /\ pointer # g
        /\ \A j \in Inst : active[j] # g
        /\ \A j \in Inst : Owns(j) => staged[j] # g
    BY <2>1
  <2>3. outcome[i] = "none" /\ ~Making(i) /\ opening[i] = "up"
    BY <2>1
  <2> HIDE DEF g
  <2>4. OutcomeInv' /\ LeaseIsOfRun' /\ ProjectInv'
    BY <2>1, <2>3
  <2>5. OwnedAlone' /\ OwnedState'
    BY <2>1, <2>2, <2>3
  <2>6. PointerInv' /\ OtherInv' /\ ActiveIsWhole'
    BY <2>1, <2>2, <2>3
  <2> QED BY <2>4, <2>5, <2>6
<1>14. ASSUME NEW i \in Inst, CopyActive(i) PROVE Core'
  BY <1>14 DEF CopyActive, Goto
<1>15. ASSUME NEW i \in Inst, PrepareFails(i) PROVE Core'
  BY <1>15 DEF PrepareFails, Goto
<1>16. ASSUME NEW i \in Inst, MarkStarted(i) PROVE Core'
  BY <1>16 DEF MarkStarted, Goto
<1>17. ASSUME NEW i \in Inst, BeginIndex(i) PROVE Core'
  BY <1>17 DEF BeginIndex, Goto
<1>18. ASSUME NEW i \in Inst, EndIndex(i) PROVE Core'
  BY <1>18 DEF EndIndex, Goto
<1>19. ASSUME NEW i \in Inst, IndexFails(i) PROVE Core'
  BY <1>19, AfterFacts DEF IndexFails, Conclude, Goto
<1>20. ASSUME NEW i \in Inst, OpenStaged(i) PROVE Core'
  BY <1>20 DEF OpenStaged, Goto
<1>21. ASSUME NEW i \in Inst, WritePointer(i) PROVE Core'
  BY <1>21, AfterFacts DEF WritePointer, Conclude, Goto
<1>22. ASSUME NEW i \in Inst, RemovePointer(i) PROVE Core'
  BY <1>22 DEF RemovePointer, Goto
<1>23. ASSUME NEW i \in Inst, PromotionFails(i) PROVE Core'
  BY <1>23, AfterFacts DEF PromotionFails, Conclude, Goto
<1>24. ASSUME NEW i \in Inst, Swap(i) PROVE Core'
  <2>1. /\ run[i] = "swap" /\ run' = [run EXCEPT ![i] = "mark"]
        /\ outcome[i] = "promoted"
        /\ active' = [active EXCEPT ![i] = staged[i]]
        /\ UNCHANGED <<other, tree, dir, pointer, lease, opening, searcher, build, progress,
                       asked, staged, outcome>>
    BY <1>24, SwapMoves DEF Swap
  <2>2. OutcomeInv' /\ LeaseIsOfRun' /\ ProjectInv' /\ PointerInv' /\ OtherInv'
    BY <2>1
  <2>3. OwnedAlone' /\ OwnedState'
    BY <2>1
  <2>4. ActiveIsWhole'
    BY <2>1
  <2> QED BY <2>2, <2>3, <2>4
<1>25. ASSUME NEW i \in Inst, Mark(i) PROVE Core'
  BY <1>25, AfterFacts DEF Mark, Advance, Goto
<1>26. ASSUME NEW i \in Inst, InvalidateSearcher(i) PROVE Core'
  BY <1>26, AfterFacts DEF InvalidateSearcher, Advance, Goto
<1>27. ASSUME NEW i \in Inst, Cleanup(i) PROVE Core'
  BY <1>27, AfterFacts DEF Cleanup, Advance, Goto
<1>28. ASSUME NEW i \in Inst, Release(i) PROVE Core'
  BY <1>28 DEF Release, Goto
<1>29. ASSUME Crash PROVE Core'
  BY <1>29 DEF Crash
<1>30. ASSUME OtherLocks PROVE Core'
  BY <1>30 DEF OtherLocks
<1>31. ASSUME OtherOpens PROVE Core'
  BY <1>31 DEF OtherOpens, HasFiles, IsOpen
<1>32. ASSUME OtherIndexes PROVE Core'
  BY <1>32 DEF OtherIndexes
<1>33. ASSUME OtherEnds PROVE Core'
  BY <1>33 DEF OtherEnds
<1>34. CASE UNCHANGED vars
  BY <1>34 DEF vars
<1> QED
  BY <1>1, <1>2, <1>3, <1>4, <1>5, <1>6, <1>7, <1>8, <1>9, <1>10, <1>11, <1>12, <1>13,
     <1>14, <1>15, <1>16, <1>17, <1>18, <1>19, <1>20, <1>21, <1>22, <1>23, <1>24, <1>25,
     <1>26, <1>27, <1>28, <1>29, <1>30, <1>31, <1>32, <1>33, <1>34 DEF Next, RunStep,
     BuildStep

LEMMA GenerationInv == Spec => []Inv
<1>1. Inv /\ [Next]_vars => Inv'
  BY NextTypes, NextCore DEF Inv
<1> QED BY InitInv, <1>1, PTL DEF Spec

\* The daemon's projects, its runs and their outcomes stay in step with what is on
\* disk: no step reads a generation, or a continuation of a run, that is not there.
THEOREM GenerationTypeOK == Spec => []TypeOK
<1>1. Inv => TypeOK
  BY DEF Inv
<1> QED BY <1>1, GenerationInv, PTL

\* Whatever fails, is killed or is renamed, and beside the command line: what a
\* project serves is whole, and no run writes to it, removes it or shares it.
THEOREM ActiveStaysWhole == Spec => []ActiveIsWhole
<1>1. Inv => ActiveIsWhole
  BY DEF Inv, Core
<1> QED BY <1>1, GenerationInv, PTL

-----------------------------------------------------------------------------
(* The cached searcher                                                      *)

\* The run waits for the build under way before it drops the searcher, and only a
\* swap changes the generation under either.
LEMMA NextBuild ==
  ASSUME Inv, BuildIsActive, [Next]_vars
  PROVE  BuildIsActive'
<1> USE Names DEF Inv, TypeOK, storage, project, Core, OutcomeInv, StepsAfter,
        StepsBefore, ProjectInv, BuildIsActive, Swapped
<1>1. ASSUME Edit PROVE BuildIsActive'
  BY <1>1 DEF Edit
<1>2. ASSUME NEW i \in Inst, Open(i) PROVE BuildIsActive'
  BY <1>2 DEF Open, HasFiles, IsOpen
<1>3. ASSUME NEW i \in Inst, MakeFirst(i) PROVE BuildIsActive'
  BY <1>3, NewIsFree DEF MakeFirst
<1>4. ASSUME NEW i \in Inst, PointFirst(i) PROVE BuildIsActive'
  BY <1>4 DEF PointFirst
<1>5. ASSUME NEW i \in Inst, CreateFirst(i) PROVE BuildIsActive'
  BY <1>5 DEF CreateFirst
<1>6. ASSUME NEW i \in Inst, OpenFails(i) PROVE BuildIsActive'
  BY <1>6 DEF OpenFails
<1>7. ASSUME NEW i \in Inst, BeginBuild(i) PROVE BuildIsActive'
  BY <1>7 DEF BeginBuild
<1>8. ASSUME NEW i \in Inst, EndBuild(i) PROVE BuildIsActive'
  BY <1>8 DEF EndBuild
<1>9. ASSUME NEW i \in Inst, BuildFails(i) PROVE BuildIsActive'
  BY <1>9 DEF BuildFails
<1>10. ASSUME NEW i \in Inst, Ask(i) PROVE BuildIsActive'
  BY <1>10 DEF Ask
<1>11. ASSUME NEW i \in Inst, Denied(i) PROVE BuildIsActive'
  BY <1>11 DEF Denied
<1>12. ASSUME NEW i \in Inst, AcquireLease(i) PROVE BuildIsActive'
  <2>1. outcome' = outcome /\ run' = [run EXCEPT ![i] = "stage"] /\ lease = None
    BY <1>12 DEF AcquireLease, Goto
  <2>2. run[i] = "none" /\ \A j \in Inst \ {i} : run'[j] = run[j]
    BY <2>1 DEF LeaseIsOfRun
  <2>3. \A j \in Inst : Swapped(j)' <=> Swapped(j)
    BY <2>1, <2>2
  <2> QED BY <1>12, <2>3 DEF AcquireLease
<1>13. ASSUME NEW i \in Inst, StageDirectory(i) PROVE BuildIsActive'
  BY <1>13, NewIsFree DEF StageDirectory, Goto
<1>14. ASSUME NEW i \in Inst, CopyActive(i) PROVE BuildIsActive'
  BY <1>14 DEF CopyActive, Goto
<1>15. ASSUME NEW i \in Inst, PrepareFails(i) PROVE BuildIsActive'
  BY <1>15 DEF PrepareFails, Goto
<1>16. ASSUME NEW i \in Inst, MarkStarted(i) PROVE BuildIsActive'
  BY <1>16 DEF MarkStarted, Goto
<1>17. ASSUME NEW i \in Inst, BeginIndex(i) PROVE BuildIsActive'
  BY <1>17 DEF BeginIndex, Goto
<1>18. ASSUME NEW i \in Inst, EndIndex(i) PROVE BuildIsActive'
  BY <1>18 DEF EndIndex, Goto
<1>19. ASSUME NEW i \in Inst, IndexFails(i) PROVE BuildIsActive'
  BY <1>19, AfterFacts DEF IndexFails, Conclude, Goto
<1>20. ASSUME NEW i \in Inst, OpenStaged(i) PROVE BuildIsActive'
  BY <1>20 DEF OpenStaged, Goto
<1>21. ASSUME NEW i \in Inst, WritePointer(i) PROVE BuildIsActive'
  BY <1>21, AfterFacts DEF WritePointer, Conclude, Goto
<1>22. ASSUME NEW i \in Inst, RemovePointer(i) PROVE BuildIsActive'
  BY <1>22 DEF RemovePointer, Goto
<1>23. ASSUME NEW i \in Inst, PromotionFails(i) PROVE BuildIsActive'
  BY <1>23, AfterFacts DEF PromotionFails, Conclude, Goto
<1>24. ASSUME NEW i \in Inst, Swap(i) PROVE BuildIsActive'
  BY <1>24, AfterFacts DEF Swap, Advance, Goto
<1>25. ASSUME NEW i \in Inst, Mark(i) PROVE BuildIsActive'
  BY <1>25, AfterFacts DEF Mark, Advance, Goto
<1>26. ASSUME NEW i \in Inst, InvalidateSearcher(i) PROVE BuildIsActive'
  BY <1>26, AfterFacts DEF InvalidateSearcher, Advance, Goto
<1>27. ASSUME NEW i \in Inst, Cleanup(i) PROVE BuildIsActive'
  BY <1>27, AfterFacts DEF Cleanup, Advance, Goto
<1>28. ASSUME NEW i \in Inst, Release(i) PROVE BuildIsActive'
  BY <1>28 DEF Release, Goto
<1>29. ASSUME Crash PROVE BuildIsActive'
  BY <1>29 DEF Crash
<1>30. ASSUME OtherLocks PROVE BuildIsActive'
  BY <1>30 DEF OtherLocks
<1>31. ASSUME OtherOpens PROVE BuildIsActive'
  BY <1>31 DEF OtherOpens, HasFiles, IsOpen
<1>32. ASSUME OtherIndexes PROVE BuildIsActive'
  BY <1>32 DEF OtherIndexes
<1>33. ASSUME OtherEnds PROVE BuildIsActive'
  BY <1>33 DEF OtherEnds
<1>34. CASE UNCHANGED vars
  BY <1>34 DEF vars
<1> QED
  BY <1>1, <1>2, <1>3, <1>4, <1>5, <1>6, <1>7, <1>8, <1>9, <1>10, <1>11, <1>12, <1>13,
     <1>14, <1>15, <1>16, <1>17, <1>18, <1>19, <1>20, <1>21, <1>22, <1>23, <1>24, <1>25,
     <1>26, <1>27, <1>28, <1>29, <1>30, <1>31, <1>32, <1>33, <1>34 DEF Next, RunStep,
     BuildStep

\* A search never asks one generation with the provider of another, once the run
\* that replaced it is over.
THEOREM SearcherStaysActive == Spec => []SearcherIsActive
<1>1. Init => BuildIsActive
  BY DEF Init, BuildIsActive
<1>2. Spec => []BuildIsActive
  BY <1>1, NextBuild, GenerationInv, PTL DEF Spec
<1>3. BuildIsActive => SearcherIsActive
  BY DEF BuildIsActive, SearcherIsActive, Swapped
<1> QED BY <1>2, <1>3, PTL

-----------------------------------------------------------------------------
(* The index published, where no rename fails                               *)

NoRename == "rename" \notin Faults

\* Only the run that has the lease moves the pointer of a project that is open, and
\* only the command line that has it writes to the generation published.
LEMMA NextVersion ==
  ASSUME NoRename, Inv, TypeOK', VersionInv, [Next]_vars
  PROVE  VersionInv'
<1> USE Names DEF NoRename, Inv, TypeOK, DirStates, Version, storage, project, Core,
        OutcomeInv, StepsAfter, StepsBefore, LeaseIsOfRun, ProjectInv, Making,
        OwnedAlone, OwnedState, Owns, PointerInv, OtherInv, ActiveIsWhole, VersionInv,
        Published, HasFiles
<1>1. ASSUME Edit PROVE VersionInv'
  BY <1>1 DEF Edit
<1>2. ASSUME NEW i \in Inst, Open(i) PROVE VersionInv'
  BY <1>2 DEF Open, HasFiles, IsOpen
<1>3. ASSUME NEW i \in Inst, MakeFirst(i) PROVE VersionInv'
  BY <1>3, NewIsFree DEF MakeFirst
<1>4. ASSUME NEW i \in Inst, PointFirst(i) PROVE VersionInv'
  BY <1>4 DEF PointFirst
<1>5. ASSUME NEW i \in Inst, CreateFirst(i) PROVE VersionInv'
  BY <1>5 DEF CreateFirst
<1>6. ASSUME NEW i \in Inst, OpenFails(i) PROVE VersionInv'
  <2>1. staged[i] \in Gen \cup {None} /\ (opening[i] = "create" => staged[i] \in Gen)
    OBVIOUS
  <2>2. CASE UNCHANGED dir
    BY <1>6, <2>2 DEF OpenFails
  <2>3. CASE opening[i] = "create" /\ dir' = [dir EXCEPT ![staged[i]].state = "whole"]
    BY <1>6, <2>1, <2>3 DEF OpenFails
  <2> QED BY <1>6, <2>2, <2>3 DEF OpenFails
<1>7. ASSUME NEW i \in Inst, BeginBuild(i) PROVE VersionInv'
  BY <1>7 DEF BeginBuild
<1>8. ASSUME NEW i \in Inst, EndBuild(i) PROVE VersionInv'
  BY <1>8 DEF EndBuild
<1>9. ASSUME NEW i \in Inst, BuildFails(i) PROVE VersionInv'
  BY <1>9 DEF BuildFails
<1>10. ASSUME NEW i \in Inst, Ask(i) PROVE VersionInv'
  BY <1>10 DEF Ask
<1>11. ASSUME NEW i \in Inst, Denied(i) PROVE VersionInv'
  BY <1>11 DEF Denied
<1>12. ASSUME NEW i \in Inst, AcquireLease(i) PROVE VersionInv'
  BY <1>12 DEF AcquireLease, Goto
<1>13. ASSUME NEW i \in Inst, StageDirectory(i) PROVE VersionInv'
  BY <1>13, NewIsFree DEF StageDirectory, Goto
<1>14. ASSUME NEW i \in Inst, CopyActive(i) PROVE VersionInv'
  BY <1>14 DEF CopyActive, Goto
<1>15. ASSUME NEW i \in Inst, PrepareFails(i) PROVE VersionInv'
  BY <1>15 DEF PrepareFails, Goto
<1>16. ASSUME NEW i \in Inst, MarkStarted(i) PROVE VersionInv'
  BY <1>16 DEF MarkStarted, Goto
<1>17. ASSUME NEW i \in Inst, BeginIndex(i) PROVE VersionInv'
  BY <1>17 DEF BeginIndex, Goto
<1>18. ASSUME NEW i \in Inst, EndIndex(i) PROVE VersionInv'
  BY <1>18 DEF EndIndex, Goto
<1>19. ASSUME NEW i \in Inst, IndexFails(i) PROVE VersionInv'
  BY <1>19, AfterFacts DEF IndexFails, Conclude, Goto
<1>20. ASSUME NEW i \in Inst, OpenStaged(i) PROVE VersionInv'
  BY <1>20 DEF OpenStaged, Goto
<1>21. ASSUME NEW i \in Inst, WritePointer(i) PROVE VersionInv'
  BY <1>21, AfterFacts DEF WritePointer, Conclude, Goto
<1>22. ASSUME NEW i \in Inst, RemovePointer(i) PROVE VersionInv'
  BY <1>22 DEF RemovePointer, Goto
<1>23. ASSUME NEW i \in Inst, PromotionFails(i) PROVE VersionInv'
  BY <1>23, AfterFacts DEF PromotionFails, Conclude, Goto
<1>24. ASSUME NEW i \in Inst, Swap(i) PROVE VersionInv'
  BY <1>24, AfterFacts DEF Swap, Advance, Goto
<1>25. ASSUME NEW i \in Inst, Mark(i) PROVE VersionInv'
  BY <1>25, AfterFacts DEF Mark, Advance, Goto
<1>26. ASSUME NEW i \in Inst, InvalidateSearcher(i) PROVE VersionInv'
  BY <1>26, AfterFacts DEF InvalidateSearcher, Advance, Goto
<1>27. ASSUME NEW i \in Inst, Cleanup(i) PROVE VersionInv'
  <2>1. /\ run[i] = "cleanup" /\ staged[i] \in Gen /\ pointer # staged[i]
        /\ dir' = [dir EXCEPT ![staged[i]].state = "absent"]
        /\ UNCHANGED <<other, tree, pointer, lease, opening, active, searcher, build,
                       progress, asked, staged, outcome>>
    <3>1. /\ run[i] = "cleanup" /\ dir' = [dir EXCEPT ![staged[i]].state = "absent"]
          /\ UNCHANGED <<other, tree, pointer, lease, opening, active, searcher, build,
                         progress, asked, staged, outcome>>
      BY <1>27 DEF Cleanup
    <3>2. staged[i] \in Gen /\ pointer # staged[i]
      BY <3>1
    <3> QED BY <3>1, <3>2
  <2>2. \A j \in Inst \ {i} : run[j] = "none" /\ run'[j] = "none"
    <3>1. \A j \in Inst \ {i} : run[j] = "none"
      BY <2>1 DEF LeaseIsOfRun
    <3>2. \A j \in Inst \ {i} : run'[j] = run[j]
      BY <1>27, CleanupMoves
    <3> QED BY <3>1, <3>2
  <2>3. run'[i] \in {"mark", "release"}
    BY <1>27, CleanupMoves
  <2>4. \A g \in Gen \ {staged[i]} : dir'[g] = dir[g]
    BY <2>1
  <2>5. dir'[staged[i]].version = dir[staged[i]].version
    BY <2>1
  <2>6. \A j \in Inst : opening[j] \in {"point", "create"} => staged[j] # staged[i]
    BY <2>1
  <2> QED BY <2>1, <2>2, <2>3, <2>4, <2>5, <2>6
<1>28. ASSUME NEW i \in Inst, Release(i) PROVE VersionInv'
  BY <1>28 DEF Release, Goto
<1>29. ASSUME Crash PROVE VersionInv'
  BY <1>29 DEF Crash
<1>30. ASSUME OtherLocks PROVE VersionInv'
  BY <1>30 DEF OtherLocks
<1>31. ASSUME OtherOpens PROVE VersionInv'
  BY <1>31 DEF OtherOpens, HasFiles, IsOpen
<1>32. ASSUME OtherIndexes PROVE VersionInv'
  BY <1>32 DEF OtherIndexes
<1>33. ASSUME OtherEnds PROVE VersionInv'
  BY <1>33 DEF OtherEnds
<1>34. CASE UNCHANGED vars
  BY <1>34 DEF vars
<1> QED
  BY <1>1, <1>2, <1>3, <1>4, <1>5, <1>6, <1>7, <1>8, <1>9, <1>10, <1>11, <1>12, <1>13,
     <1>14, <1>15, <1>16, <1>17, <1>18, <1>19, <1>20, <1>21, <1>22, <1>23, <1>24, <1>25,
     <1>26, <1>27, <1>28, <1>29, <1>30, <1>31, <1>32, <1>33, <1>34 DEF Next, RunStep,
     BuildStep

LEMMA PublishedInv == ASSUME NoRename PROVE Spec => [](Inv /\ VersionInv)
<1>1. Init => VersionInv
  BY Names DEF Init, VersionInv, Making, HasFiles, Published
<1>2. Inv /\ VersionInv /\ [Next]_vars => (Inv /\ VersionInv)'
  BY NextTypes, NextCore, NextVersion DEF Inv
<1> QED BY <1>1, <1>2, InitInv, PTL DEF Spec

Serving == [i \in Inst |-> IF active[i] = None THEN None ELSE dir[active[i]].version]

\* A step that changes only a generation which nobody serves, and which the pointer
\* does not name, changes nothing that is promised.
LEMMA Hidden ==
  ASSUME Inv, NEW g \in Gen, \A h \in Gen \ {g} : dir'[h] = dir[h],
         UNCHANGED <<pointer, active>>, pointer # g, \A i \in Inst : active[i] # g
  PROVE  UNCHANGED <<Published, Serving>>
<1>1. Published' = Published
  BY Names DEF Inv, TypeOK, Published, HasFiles
<1>2. \A i \in Inst : active[i] # None => active[i] \in Gen \ {g}
  BY DEF Inv, TypeOK
<1>3. Serving' = Serving
  BY <1>2 DEF Serving
<1> QED BY <1>1, <1>3

\* Every step but those that move the pointer, or open, swap or close a project, and
\* those of the command line in the published generation, is a stutter.
LEMMA StepPublishes ==
  ASSUME NoRename, Inv, Inv', VersionInv, VersionInv', [Next]_vars
  PROVE  [Abstract!Next]_(Abstract!vars)
<1> DEFINE Stutters == UNCHANGED <<Published, Serving>>
<1>0. Stutters => UNCHANGED Abstract!vars
  BY DEF Abstract!vars, Serving
<1>1. UNCHANGED <<dir, pointer, active>> => Stutters
  BY DEF Published, HasFiles, Serving
<1>2. ASSUME NEW i \in Inst, MakeFirst(i) \/ StageDirectory(i) PROVE Stutters
  <2>1. NewGen \in Gen /\ dir[NewGen].state = "absent" /\ UNCHANGED <<pointer, active>>
        /\ dir' = [dir EXCEPT ![NewGen] = [state |-> "bare", version |-> 0]]
    BY <1>2, NewIsFree DEF MakeFirst, StageDirectory
  <2>2. pointer # NewGen /\ \A j \in Inst : active[j] # NewGen
    BY <2>1, Names DEF Inv, Core, PointerInv, ActiveIsWhole
  <2>3. \A h \in Gen \ {NewGen} : dir'[h] = dir[h]
    BY <2>1 DEF Inv, TypeOK
  <2> QED BY <2>1, <2>2, <2>3, Hidden
<1>3. ASSUME NEW i \in Inst,
             CopyActive(i) \/ BeginIndex(i) \/ EndIndex(i) \/ Cleanup(i)
      PROVE  Stutters
  <2>1. /\ run[i] \in {"copy", "index", "walked", "cleanup"}
        /\ UNCHANGED <<pointer, active>>
        /\ \A h \in Gen \ {staged[i]} : dir'[h] = dir[h]
    BY <1>3 DEF CopyActive, BeginIndex, EndIndex, Cleanup, Inv, TypeOK
  <2>2. Owns(i) /\ run[i] \notin {"none", "swap"}
    BY <2>1 DEF Owns
  <2>3. staged[i] # None /\ \A j \in Inst : active[j] # staged[i]
    BY <2>2 DEF Inv, Core, OwnedAlone
  <2>4. staged[i] \in Gen /\ pointer # staged[i]
    BY <2>2, <2>3 DEF Inv, TypeOK, Core, OwnedState
  <2> QED BY <2>1, <2>3, <2>4, Hidden
<1>4. ASSUME NEW i \in Inst, PointFirst(i) PROVE Stutters
  <2>1. ~HasFiles(pointer) /\ ~HasFiles(pointer)'
    BY <1>4, Names DEF PointFirst, HasFiles, VersionInv, Making, Inv, Core, OwnedState, Owns
  <2>2. UNCHANGED <<dir, active>>
    BY <1>4 DEF PointFirst
  <2> QED BY <2>1, <2>2 DEF Published, Serving
<1>5. ASSUME NEW i \in Inst, CreateFirst(i) PROVE Abstract!Open(i)
  <2>1. /\ staged[i] \in Gen /\ pointer = staged[i] /\ ~HasFiles(pointer)
        /\ dir[staged[i]].version = 0
        /\ active[i] = None /\ \A j \in Inst : active[j] # staged[i]
    BY <1>5, Names DEF CreateFirst, VersionInv, Making, Inv, TypeOK, Core, OwnedAlone, Owns, ProjectInv
  <2>2. /\ dir' = [dir EXCEPT ![staged[i]].state = "whole"] /\ pointer' = pointer
        /\ active' = [active EXCEPT ![i] = staged[i]]
    BY <1>5 DEF CreateFirst
  <2>3. \A h \in Gen : dir'[h].version = dir[h].version
    BY <2>1, <2>2 DEF Inv, TypeOK
  <2>4. HasFiles(pointer)'
    BY <2>1, <2>2, Names DEF HasFiles, Inv, TypeOK
  <2>5. Published = 0 /\ Published' = 0
    BY <2>1, <2>2, <2>3, <2>4 DEF Published
  <2>6. /\ \A j \in Inst : active[j] # None => active[j] \in Gen
        /\ staged[i] # None /\ active' \in [Inst -> Gen \cup {None}]
        /\ active'[i] = staged[i] /\ \A j \in Inst \ {i} : active'[j] = active[j]
    BY <2>1, <2>2, Names DEF Inv, TypeOK
  <2>7. Serving[i] = None /\ Serving' = [Serving EXCEPT ![i] = 0]
    BY <2>1, <2>3, <2>6 DEF Serving
  <2> QED BY <2>5, <2>7 DEF Abstract!Open, Serving
<1>6. ASSUME NEW i \in Inst, Open(i) PROVE Stutters \/ Abstract!Open(i)
  <2>1. CASE ~HasFiles(pointer)
    BY <1>6, <2>1, <1>1 DEF Open, storage
  <2>2. CASE HasFiles(pointer)
    <3>1. /\ pointer \in Gen /\ active[i] = None
          /\ active' = [active EXCEPT ![i] = pointer] /\ UNCHANGED <<dir, pointer>>
      BY <1>6, <2>2 DEF Open, storage, HasFiles, Inv, TypeOK, Core, ProjectInv
    <3>2. Published = dir[pointer].version /\ Published' = Published
      BY <2>2, <3>1 DEF Published, HasFiles
    <3>3. Serving[i] = None /\ Serving' = [Serving EXCEPT ![i] = Published]
      BY <3>1, <3>2, Names DEF Serving, Inv, TypeOK
    <3> QED BY <3>2, <3>3 DEF Abstract!Open, Serving
  <2> QED BY <2>1, <2>2
<1>7. ASSUME NEW i \in Inst, OpenFails(i) PROVE Stutters
  <2>1. CASE UNCHANGED dir
    BY <1>7, <2>1, <1>1 DEF OpenFails
  <2>2. CASE opening[i] = "create" /\ dir' = [dir EXCEPT ![staged[i]].state = "whole"]
    <3>1. /\ staged[i] \in Gen /\ pointer = staged[i] /\ ~HasFiles(pointer)
          /\ dir[staged[i]].version = 0 /\ UNCHANGED <<pointer, active>>
      BY <1>7, <2>2, Names DEF OpenFails, VersionInv, Making, Inv, TypeOK, Core, OwnedAlone, Owns
    <3>2. \A h \in Gen : dir'[h].version = dir[h].version
      BY <2>2, <3>1 DEF Inv, TypeOK
    <3>3. Published = 0 /\ Published' = 0
      BY <3>1, <3>2 DEF Published
    <3>4. \A j \in Inst : active[j] # None => active[j] \in Gen
      BY DEF Inv, TypeOK
    <3>5. Serving' = Serving
      BY <3>1, <3>2, <3>4 DEF Serving
    <3> QED BY <3>3, <3>5
  <2> QED BY <1>7, <2>1, <2>2 DEF OpenFails
<1>8. ASSUME NEW i \in Inst, WritePointer(i) PROVE Abstract!Publish
  <2>1. /\ staged[i] \in Gen /\ dir[staged[i]].state = "whole"
        /\ Published <= dir[staged[i]].version /\ dir[staged[i]].version \in Version
    BY <1>8 DEF WritePointer, VersionInv, Inv, TypeOK, Core, OwnedAlone, OwnedState, Owns
  <2>2. pointer' = staged[i] /\ UNCHANGED <<dir, active>>
    BY <1>8 DEF WritePointer
  <2>3. Published' = dir[staged[i]].version
    BY <2>1, <2>2, Names DEF Published, HasFiles
  <2>4. Published \in Nat /\ Published' \in Published..MaxVersion
    BY <2>1, <2>3, GenerationAssumption, Names DEF Version, Published, HasFiles, Inv, TypeOK
  <2>5. Serving' = Serving
    BY <2>2 DEF Serving
  <2> QED BY <2>4, <2>5 DEF Abstract!Publish, Serving
<1>9. ASSUME NEW i \in Inst, Swap(i) PROVE Abstract!Switch(i)
  <2>1. /\ staged[i] \in Gen /\ pointer = staged[i] /\ dir[staged[i]].state = "whole"
        /\ active[i] # None /\ active[i] \in Gen
    BY <1>9 DEF Swap, VersionInv, Inv, TypeOK, Core, OwnedAlone, OwnedState, Owns, ProjectInv
  <2>2. active' = [active EXCEPT ![i] = staged[i]] /\ UNCHANGED <<dir, pointer>>
    BY <1>9 DEF Swap, storage
  <2>3. Published = dir[staged[i]].version /\ Published' = Published
    BY <2>1, <2>2, Names DEF Published, HasFiles
  <2>4. dir[active[i]].version # None /\ staged[i] # None
    <3>1. dir[active[i]].version \in Version
      BY <2>1 DEF Inv, TypeOK
    <3> QED BY <2>1, <3>1, FirstOnes, Names
  <2>5. Serving[i] # None
    BY <2>1, <2>4 DEF Serving
  <2>6. active'[i] = staged[i] /\ \A j \in Inst \ {i} : active'[j] = active[j]
    BY <2>2 DEF Inv, TypeOK
  <2>7. Serving' = [Serving EXCEPT ![i] = Published]
    <3>1. \A j \in Inst : active[j] # None => active[j] \in Gen
      BY DEF Inv, TypeOK
    <3>2. \A j \in Inst \ {i} : Serving'[j] = Serving[j]
      BY <2>2, <2>6, <3>1 DEF Serving
    <3>3. Serving'[i] = Published
      BY <2>2, <2>3, <2>4, <2>6 DEF Serving
    <3>4. /\ Serving' = [j \in Inst |-> Serving'[j]]
          /\ Serving = [j \in Inst |-> Serving[j]]
      BY DEF Serving
    <3> HIDE DEF Serving
    <3> QED BY <3>2, <3>3, <3>4
  <2> QED BY <2>3, <2>5, <2>7 DEF Abstract!Switch, Serving
<1>10. Crash => Abstract!Stop
  <2>1. Crash => UNCHANGED <<dir, pointer>> /\ active' = [i \in Inst |-> None]
    BY DEF Crash
  <2>2. Crash => Published' = Published
    BY <2>1 DEF Published, HasFiles
  <2>3. Crash => Serving' = [i \in Inst |-> None]
    BY <2>1 DEF Serving
  <2> QED BY <2>2, <2>3 DEF Abstract!Stop, Serving
<1>11. OtherIndexes => Abstract!Publish
  <2> SUFFICES ASSUME OtherIndexes PROVE Abstract!Publish
    OBVIOUS
  <2>1. PICK v \in dir[other].version..tree : dir' = [dir EXCEPT ![other].version = v]
    BY DEF OtherIndexes
  <2>2. /\ other \in Gen /\ UNCHANGED <<pointer, active>>
        /\ \A j \in Inst : active[j] # None => active[j] \in Gen \ {other}
    BY DEF OtherIndexes, project, Inv, TypeOK, Core, ActiveIsWhole
  <2>3. /\ dir[other].version \in Nat /\ tree \in Version
        /\ v \in Version /\ dir[other].version <= v
    BY <2>1, <2>2, GenerationAssumption DEF Inv, TypeOK, Version
  <2>4. /\ \A h \in Gen : dir'[h].state = dir[h].state
        /\ \A h \in Gen \ {other} : dir'[h] = dir[h]
        /\ dir'[other].version = v
    BY <2>1, <2>2 DEF Inv, TypeOK
  <2>5. Published \in Nat /\ Published' \in Published..MaxVersion
    BY <2>2, <2>3, <2>4, GenerationAssumption, Names DEF Published, HasFiles, Inv, TypeOK, Version
  <2>6. Serving' = Serving
    BY <2>2, <2>4 DEF Serving
  <2> QED BY <2>5, <2>6 DEF Abstract!Publish, Serving
<1>12. ~\E i \in Inst : RemovePointer(i)
  BY DEF RemovePointer, NoRename
<1>13. ASSUME NEW i \in Inst,
              \/ BeginBuild(i) \/ EndBuild(i) \/ BuildFails(i) \/ Ask(i) \/ Denied(i)
              \/ AcquireLease(i) \/ PrepareFails(i) \/ MarkStarted(i) \/ IndexFails(i)
              \/ OpenStaged(i) \/ PromotionFails(i) \/ Mark(i) \/ InvalidateSearcher(i)
              \/ Release(i)
       PROVE  Stutters
  BY <1>13, <1>1 DEF BeginBuild, EndBuild, BuildFails, Ask, Denied, AcquireLease,
     PrepareFails, MarkStarted, IndexFails, OpenStaged, PromotionFails, Mark,
     InvalidateSearcher, Release, storage
<1>14. Edit \/ OtherLocks \/ OtherOpens \/ OtherEnds \/ UNCHANGED vars => Stutters
  BY <1>1 DEF Edit, OtherLocks, OtherOpens, OtherEnds, project, storage, vars
<1> HIDE DEF Stutters
<1> QED
  BY <1>0, <1>2, <1>3, <1>4, <1>5, <1>6, <1>7, <1>8, <1>9, <1>10, <1>11, <1>12, <1>13,
     <1>14 DEF Next, RunStep, BuildStep, Abstract!Next

\* Where no rename over the pointer fails: an index is replaced in one step, by one that
\* is not older, and a project serves one index until it turns to the one published.
THEOREM ImplementsPublishedIndex == ASSUME NoRename PROVE Spec => PublishesWhole
<1>1. Init => Abstract!Init
  <2>1. Init => TypeOK
    BY InitInv DEF Inv
  <2>2. TypeOK => Published \in Version
    BY FirstOnes DEF TypeOK, Published, HasFiles
  <2>3. Init => \A i \in Inst : active[i] = None
    BY DEF Init
  <2> QED BY <2>1, <2>2, <2>3 DEF Abstract!Init, Abstract!Version, Version
<1> QED BY <1>1, PublishedInv, StepPublishes, PTL DEF Spec, PublishesWhole, Abstract!Spec

\* README.md:142: where no rename over the pointer fails, no failed or interrupted run
\* makes a daemon that starts next open an older index.
THEOREM NeverOlderPublished == ASSUME NoRename PROVE Spec => NeverOlder
<1>1. Inv => Published \in Nat
  BY FirstOnes DEF Inv, TypeOK, Published, HasFiles
<1>2. ASSUME NoRename, Inv, Inv', VersionInv, VersionInv', [Next]_vars
      PROVE  Published' >= Published
  <2>1. Published \in Nat
    BY <1>1, <1>2
  <2>2. [Abstract!Next]_(Abstract!vars)
    BY <1>2, StepPublishes
  <2>3. Published' = Published \/ \E v \in Published..MaxVersion : Published' = v
    BY <2>2 DEF Abstract!Next, Abstract!Publish, Abstract!Stop, Abstract!Open,
                Abstract!Switch, Abstract!vars
  <2> QED BY <2>1, <2>3, GenerationAssumption
<1>3. ASSUME NoRename, Inv, Inv', VersionInv, VersionInv', [Next]_vars
      PROVE  [Published' >= Published]_vars
  BY <1>2, <1>3
<1> QED BY <1>3, PublishedInv, PTL DEF Spec, NeverOlder
=================================================================================
