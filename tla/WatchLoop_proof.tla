---------------------------- MODULE WatchLoop_proof ----------------------------
(***************************************************************************)
(* Proofs about WatchLoop, for any number of edits and starts and all      *)
(* faults.                                                                 *)
(*                                                                         *)
(* NoChangeForgotten holds from the start of the process, not only once it *)
(* watches (Caught), since an edit before the walk of the initial pass is  *)
(* seen by it and a later one is recorded in `missed`. That a follow-up is *)
(* only ever queued behind a pass, and that each pass sends one message    *)
(* (OnePassAtATime), needs the loop to be empty before it begins (Quiet).  *)
(* A pass never takes the index back, since no other command has it open   *)
(* between its walk and its end.                                           *)
(***************************************************************************)
EXTENDS WatchLoop, TLAPS

\* Nothing has reached the loop before it begins.
Quiet ==
    phase # "watching" =>
        /\ ~quiet /\ events = 0 /\ done = 0
        /\ ~inFlight /\ ~followup
        /\ pass # "none" <=> phase = "initial"

Caught ==
    phase # "stopped" => index = tree \/ Pending \/ failed \/ missed

LoopInv ==
    /\ TypeOK
    /\ index <= tree /\ seen <= tree
    /\ pass \in {"walk", "walked"} => ~others
    /\ pass = "walked" => index <= seen
    /\ Quiet
    /\ OnePassAtATime
    /\ Caught

USE WatchAssumption

LEMMA InitFlags == Init => FlagsOK
  BY DEF Init, FlagsOK

\* The flags keep their type.
LEMMA FlagsStep ==
  ASSUME FlagsOK, [Next]_vars
  PROVE  FlagsOK'
<1> USE DEF FlagsOK, queue, history
<1>1. CASE Edit
  BY <1>1 DEF Edit
<1>2. CASE OthersBegin
  BY <1>2 DEF OthersBegin
<1>3. CASE OthersEnd
  BY <1>3 DEF OthersEnd
<1>4. CASE Start
  BY <1>4 DEF Start, Spawn
<1>5. CASE BeginWatching
  BY <1>5 DEF BeginWatching
<1>6. CASE PassOpens
  BY <1>6 DEF PassOpens
<1>7. CASE PassWalks
  BY <1>7 DEF PassWalks
<1>8. CASE PassSucceeds
  BY <1>8 DEF PassSucceeds, Report
<1>9. CASE PassFails
  BY <1>9 DEF PassFails, Report
<1>10. CASE PassBusy
  BY <1>10 DEF PassBusy, Report
<1>11. CASE Exit
  BY <1>11 DEF Exit
<1>12. CASE DedupEnds
  BY <1>12 DEF DedupEnds
<1>13. CASE Deliver
  BY <1>13 DEF Deliver
<1>14. CASE OnEvent
  BY <1>14 DEF OnEvent, Spawn
<1>15. CASE OnDone
  BY <1>15 DEF OnDone, Spawn
<1>16. CASE UNCHANGED vars
  BY <1>16 DEF vars
<1> QED
  BY <1>1, <1>2, <1>3, <1>4, <1>5, <1>6, <1>7, <1>8, <1>9, <1>10, <1>11, <1>12, <1>13,
     <1>14, <1>15, <1>16 DEF Next, PassStep, InitialPassBusy, Stop, Rest

LEMMA InitLoop == Init => LoopInv
<1> SUFFICES ASSUME Init PROVE LoopInv
  OBVIOUS
<1>1. FlagsOK
  BY InitFlags
<1>2. LoopInv
  BY <1>1 DEF Init, LoopInv, TypeOK, Version, Quiet, OnePassAtATime, Caught
<1> QED BY <1>2

\* One step per action; the parts of LoopInv hang together by `phase` and `pass`.
LEMMA LoopStep ==
  ASSUME LoopInv, [Next]_vars
  PROVE  LoopInv'
<1>0. FlagsOK /\ FlagsOK'
  BY FlagsStep DEF LoopInv, TypeOK
<1> USE <1>0
    DEF LoopInv, TypeOK, Version, Quiet, OnePassAtATime, Caught, Pending, BeforeWalk,
        queue, history
<1>1. CASE Edit
  <2>1. /\ tree \in Nat /\ tree < MaxVersion /\ tree' = tree + 1
        /\ UNCHANGED <<index, others, starts, phase, events, inFlight, followup, pass,
                       seen, done, failed>>
    BY <1>1 DEF Edit
  <2>2. quiet' <=> phase = "watching" \/ quiet
    BY <1>1, Zenon DEF Edit
  <2>3. missed' <=> missed \/ (phase \in {"initial", "setup"} /\ ~BeforeWalk)
    BY <1>1, Zenon DEF Edit
  <2> QED BY <2>1, <2>2, <2>3
<1>2. CASE OthersBegin
  BY <1>2 DEF OthersBegin
<1>3. CASE OthersEnd
  BY <1>3 DEF OthersEnd
<1>4. CASE Start
  <2>1. /\ pass' = "spawned" /\ phase' = "initial" /\ phase = "stopped"
        /\ starts' \in 0..MaxStarts
        /\ UNCHANGED <<tree, index, quiet, events, inFlight, followup, seen, done>>
    BY <1>4 DEF Start, Spawn
  <2> QED BY <2>1
<1>5. CASE BeginWatching
  BY <1>5 DEF BeginWatching
<1>6. CASE PassOpens
  BY <1>6 DEF PassOpens
<1>7. CASE PassWalks
  BY <1>7 DEF PassWalks
<1>8. CASE PassSucceeds
  <2>1. /\ pass = "walked" /\ pass' = "none" /\ index' = seen
        /\ UNCHANGED <<tree, starts, quiet, events, inFlight, followup, seen, failed,
                       missed>>
        /\ phase \in {"initial", "watching"}
    BY <1>8 DEF PassSucceeds, Report
  <2>2. \/ phase = "initial" /\ phase' = "setup" /\ done' = done
        \/ phase = "watching" /\ phase' = phase /\ done' = done + 1
    BY <1>8, <2>1 DEF PassSucceeds, Report
  <2> QED BY <2>1, <2>2
<1>9. CASE PassFails
  BY <1>9 DEF PassFails, Report
<1>10. CASE PassBusy
  BY <1>10 DEF PassBusy, Report
<1>11. CASE Exit
  BY <1>11 DEF Exit
<1>12. CASE DedupEnds
  BY <1>12 DEF DedupEnds
<1>13. CASE Deliver
  BY <1>13 DEF Deliver
<1>14. CASE OnEvent
  BY <1>14 DEF OnEvent, Spawn
<1>15. CASE OnDone
  BY <1>15 DEF OnDone, Spawn
<1>16. CASE UNCHANGED vars
  BY <1>16 DEF vars
<1> QED
  BY <1>1, <1>2, <1>3, <1>4, <1>5, <1>6, <1>7, <1>8, <1>9, <1>10, <1>11, <1>12, <1>13,
     <1>14, <1>15, <1>16 DEF Next, PassStep, InitialPassBusy, Stop, Rest

\* The invariant of the loop, for every number of edits, starts and faults.
LEMMA LoopInvariant == Spec => []LoopInv
  BY InitLoop, LoopStep, PTL DEF Spec

\* The state of the watcher is well-typed.
THEOREM WatchTypeOK == Spec => []TypeOK
<1>1. LoopInv => TypeOK
  BY DEF LoopInv
<1> QED BY <1>1, LoopInvariant, PTL

\* A running watcher never forgets a change, unless the pass that was to index it
\* failed, or it came between the walk of the initial pass and the watcher.
THEOREM ChangesAreNotForgotten == Spec => []NoChangeForgotten
<1>1. LoopInv => NoChangeForgotten
  BY DEF LoopInv, Caught, NoChangeForgotten
<1> QED BY <1>1, LoopInvariant, PTL

\* The flag, the queued refresh, the pass and its message agree: there is never
\* more than one pass.
THEOREM PassesDoNotOverlap == Spec => []OnePassAtATime
<1>1. LoopInv => OnePassAtATime
  BY DEF LoopInv
<1> QED BY <1>1, LoopInvariant, PTL
=============================================================================
