------------------------------- MODULE WatchLoop -------------------------------
(***************************************************************************)
(* `skelesearch watch` (crates/cli/src/app.rs, run_watch): an initial pass *)
(* of the indexer, then a loop that turns debounced file events into       *)
(* passes, one at a time, with at most one queued behind it                *)
(* (WatchRefreshQueue). Files are edited, other commands take the lock or  *)
(* open the index, passes fail and the process is stopped at any step.     *)
(*                                                                         *)
(* The working tree is a version number; the index is the version it       *)
(* reflects (see IndexRun for what a pass does). A batch of events only    *)
(* says that something changed. Events of .skelesearch and .git, which the *)
(* loop ignores, are left out.                                             *)
(***************************************************************************)
EXTENDS Naturals

CONSTANTS
    MaxVersion,     \* bound: versions of the working tree
    MaxStarts,      \* bound: times that `watch` is started
    Faults          \* a subset of FaultKinds

\* A pass fails; other commands use the index; the process is stopped.
FaultKinds == {"fail", "others", "stop"}

ASSUME WatchAssumption ==
    /\ MaxVersion \in Nat
    /\ MaxStarts \in Nat
    /\ Faults \subseteq FaultKinds

VARIABLES
    tree,       \* version of the working tree
    index,      \* version that the index reflects
    others,     \* another command holds the lock or has the index open
    starts,     \* times that `watch` was started
    phase,      \* "stopped", "initial" pass, "setup" of the watcher, "watching"
    quiet,      \* the debouncer has changes that it has not yet delivered
    events,     \* batches in the channel of events
    inFlight,   \* refresh_in_flight
    followup,   \* followup_queued
    pass,       \* step of the pass
    seen,       \* version that the walk of the pass saw
    done,       \* messages in the channel done_rx
    dedup,      \* deduplicate_chunks of a pass still has the index open
    failed,     \* history: the pass begun last has failed
    missed      \* history: changed after the initial walk, before the watcher

queue == <<inFlight, followup>>
history == <<failed, missed>>
vars == <<tree, index, others, starts, phase, quiet, events, queue, pass, seen, done,
          dedup, history>>

Version == 0..MaxVersion

FlagsOK ==
    /\ others \in BOOLEAN
    /\ quiet \in BOOLEAN
    /\ inFlight \in BOOLEAN /\ followup \in BOOLEAN
    /\ dedup \in BOOLEAN
    /\ failed \in BOOLEAN /\ missed \in BOOLEAN

TypeOK ==
    /\ FlagsOK
    /\ tree \in Version
    /\ index \in Version
    /\ starts \in 0..MaxStarts
    /\ phase \in {"stopped", "initial", "setup", "watching"}
    /\ events \in Nat
    /\ pass \in {"none", "spawned", "walk", "walked"}
    /\ seen \in Version
    /\ done \in Nat

Init ==
    /\ tree = 0 /\ index = 0
    /\ others = FALSE
    /\ starts = 0
    /\ phase = "stopped"
    /\ quiet = FALSE /\ events = 0
    /\ inFlight = FALSE /\ followup = FALSE
    /\ pass = "none" /\ seen = 0 /\ done = 0
    /\ dedup = FALSE
    /\ failed = FALSE /\ missed = FALSE

-----------------------------------------------------------------------------
(* Around the process                                                       *)

\* The walk of a pass that has begun has not looked at the tree yet.
BeforeWalk == pass \in {"spawned", "walk"}

Edit ==
    /\ tree < MaxVersion
    /\ tree' = tree + 1
    /\ quiet' = (phase = "watching" \/ quiet)
    /\ missed' = (missed \/ (phase \in {"initial", "setup"} /\ ~BeforeWalk))
    /\ UNCHANGED <<index, others, starts, phase, events, queue, pass, seen, done, dedup,
                   failed>>

\* `index` or `gc` with the lock, or `search` without: all open the index.
OthersBegin ==
    /\ "others" \in Faults
    /\ ~others /\ ~dedup
    /\ pass \notin {"walk", "walked"}
    /\ others' = TRUE
    /\ UNCHANGED <<tree, index, starts, phase, quiet, events, queue, pass, seen, done,
                   dedup, history>>

\* The other command may have indexed.
OthersEnd ==
    /\ others
    /\ others' = FALSE
    /\ index' \in index..tree
    /\ UNCHANGED <<tree, starts, phase, quiet, events, queue, pass, seen, done, dedup,
                   history>>

-----------------------------------------------------------------------------
(* A pass: run_watch_index_pass                                             *)

Spawn == pass' = "spawned" /\ failed' = FALSE

\* acquire_lock and open_backend
PassOpens ==
    /\ pass = "spawned"
    /\ ~others /\ ~dedup
    /\ pass' = "walk"
    /\ UNCHANGED <<tree, index, others, starts, phase, quiet, events, queue, seen, done,
                   dedup, history>>

\* index_path looks at every file once; what it missed by then has an event.
PassWalks ==
    /\ pass = "walk"
    /\ pass' = "walked"
    /\ seen' = tree
    /\ missed' = FALSE
    /\ UNCHANGED <<tree, index, others, starts, phase, quiet, events, queue, done, dedup,
                   failed>>

\* The pass is over: the loop begins, or is told so.
Report ==
    /\ pass' = "none"
    /\ IF phase = "initial" THEN phase' = "setup" /\ UNCHANGED done
       ELSE done' = done + 1 /\ UNCHANGED phase

PassSucceeds ==
    /\ pass = "walked"
    /\ index' = seen
    /\ dedup' = TRUE
    /\ Report
    /\ UNCHANGED <<tree, others, starts, quiet, events, queue, seen, history>>

\* No provider, or index_path fails: Ok(false).
PassFails ==
    /\ "fail" \in Faults
    /\ pass # "none"
    /\ Report
    /\ failed' = TRUE
    /\ UNCHANGED <<tree, index, others, starts, quiet, events, queue, seen, dedup,
                   missed>>

\* The process and all it has in memory are gone.
Exit ==
    /\ phase' = "stopped"
    /\ quiet' = FALSE /\ events' = 0
    /\ inFlight' = FALSE /\ followup' = FALSE
    /\ pass' = "none" /\ done' = 0
    /\ dedup' = FALSE
    /\ failed' = FALSE /\ missed' = FALSE
    /\ UNCHANGED <<tree, index, others, starts, seen>>

\* The lock or the index is in use: an error, which ends an initial pass and the
\* process with it, and which the loop ignores.
InitialPassBusy == phase = "initial" /\ pass = "spawned" /\ others /\ Exit

PassBusy ==
    /\ phase = "watching"
    /\ pass = "spawned"
    /\ others \/ dedup
    /\ Report
    /\ failed' = TRUE
    /\ UNCHANGED <<tree, index, others, starts, quiet, events, queue, seen, dedup,
                   missed>>

DedupEnds ==
    /\ dedup
    /\ dedup' = FALSE
    /\ UNCHANGED <<tree, index, others, starts, phase, quiet, events, queue, pass, seen,
                   done, history>>

-----------------------------------------------------------------------------
(* The loop: run_watch                                                      *)

Start ==
    /\ phase = "stopped"
    /\ starts < MaxStarts
    /\ starts' = starts + 1
    /\ phase' = "initial"
    /\ Spawn
    /\ UNCHANGED <<tree, index, others, quiet, events, queue, seen, done, dedup, missed>>

BeginWatching ==
    /\ phase = "setup"
    /\ phase' = "watching"
    /\ UNCHANGED <<tree, index, others, starts, quiet, events, queue, pass, seen, done,
                   dedup, history>>

\* The debouncer and the bridge thread.
Deliver ==
    /\ quiet
    /\ quiet' = FALSE
    /\ events' = events + 1
    /\ UNCHANGED <<tree, index, others, starts, phase, queue, pass, seen, done, dedup,
                   history>>

\* Mutant: events during a pass are dropped.
OnEventDropped ==
    /\ events > 0
    /\ events' = events - 1
    /\ IF inFlight THEN UNCHANGED <<queue, pass, failed>>
       ELSE inFlight' = TRUE /\ Spawn /\ UNCHANGED followup
    /\ UNCHANGED <<tree, index, others, starts, phase, quiet, seen, done, dedup, missed>>

\* Mutant: mark_refresh_triggered is forgotten.
OnEventUnmarked ==
    /\ events > 0
    /\ events' = events - 1
    /\ IF inFlight THEN followup' = TRUE /\ UNCHANGED <<inFlight, pass, failed>>
       ELSE Spawn /\ UNCHANGED queue
    /\ UNCHANGED <<tree, index, others, starts, phase, quiet, seen, done, dedup, missed>>

\* on_change_detected, mark_refresh_triggered
OnEvent ==
    /\ events > 0
    /\ events' = events - 1
    /\ IF inFlight THEN followup' = TRUE /\ UNCHANGED <<inFlight, pass, failed>>
       ELSE inFlight' = TRUE /\ Spawn /\ UNCHANGED followup
    /\ UNCHANGED <<tree, index, others, starts, phase, quiet, seen, done, dedup, missed>>

\* Mutant: the loop goes on without a message.
OnDoneUnasked ==
    /\ done' = done - 1
    /\ IF followup THEN followup' = FALSE /\ inFlight' = TRUE /\ Spawn
       ELSE inFlight' = FALSE /\ UNCHANGED <<followup, pass, failed>>
    /\ UNCHANGED <<tree, index, others, starts, phase, quiet, events, seen, dedup,
                   missed>>

\* Mutant: a queued refresh leaves the flag of the one in flight, and is not run.
OnDoneStuck ==
    /\ done > 0
    /\ done' = done - 1
    /\ IF followup THEN followup' = FALSE /\ UNCHANGED <<inFlight, pass, failed>>
       ELSE inFlight' = FALSE /\ UNCHANGED <<followup, pass, failed>>
    /\ UNCHANGED <<tree, index, others, starts, phase, quiet, events, seen, dedup,
                   missed>>

\* mark_refresh_finished
OnDone ==
    /\ done > 0
    /\ done' = done - 1
    /\ IF followup THEN followup' = FALSE /\ inFlight' = TRUE /\ Spawn
       ELSE inFlight' = FALSE /\ UNCHANGED <<followup, pass, failed>>
    /\ UNCHANGED <<tree, index, others, starts, phase, quiet, events, seen, dedup,
                   missed>>

Stop == "stop" \in Faults /\ phase # "stopped" /\ Exit

-----------------------------------------------------------------------------

PassStep == PassOpens \/ PassWalks \/ PassSucceeds \/ PassFails \/ PassBusy
            \/ InitialPassBusy

\* Nobody has to edit anything or to start `watch`.
Rest == (phase = "stopped" \/ pass = "none") /\ UNCHANGED vars

Next ==
    \/ Edit \/ OthersBegin \/ OthersEnd
    \/ Start \/ BeginWatching
    \/ PassStep \/ DedupEnds
    \/ Deliver \/ OnEvent \/ OnDone
    \/ Stop
    \/ Rest

Spec == Init /\ [][Next]_vars

\* The process is scheduled, and tokio's select! takes one of its ready branches
\* at random: neither channel is starved. A pass does not wait for the lock.
FairSpec ==
    Spec /\ WF_vars(BeginWatching) /\ WF_vars(PassStep)
         /\ WF_vars(Deliver) /\ WF_vars(OnEvent) /\ WF_vars(OnDone)

-----------------------------------------------------------------------------
(* Properties                                                               *)

\* Something is under way that will bring the index up to the working tree.
Pending ==
    \/ quiet \/ events > 0 \/ followup
    \/ BeforeWalk
    \/ pass = "walked" /\ seen = tree

\* A running watcher never forgets a change, unless the pass that was to index
\* it failed, or it came between the walk of the initial pass and the watcher:
\* the event of an edit during a pass always leads to another walk.
NoChangeForgotten ==
    phase = "watching" => index = tree \/ Pending \/ failed \/ missed

\* Passes of one watcher never run side by side, where the second one would
\* fail on the lock of the first, and the flag never outlives the pass.
OnePassAtATime ==
    phase = "watching" =>
        /\ inFlight <=> pass # "none" \/ done > 0
        /\ done = 0 \/ (done = 1 /\ pass = "none")
        /\ followup => inFlight

\* A watcher that keeps running indexes what was edited, but for the same two
\* exceptions.
EditsAreIndexed == <>[](phase = "watching" => index = tree \/ failed \/ missed)

\* hooks/post-edit-reindex:26 "If watch mode is active, the watcher handles
\* re-indexing": `status` says that it is active from the start of the process,
\* so every change since must be indexed or on its way there.
WatcherHandles ==
    phase \in {"initial", "setup", "watching"} => index = tree \/ Pending

\* app.rs:794, an edit during a pass has "queued one follow-up pass": without
\* failures and without other commands, a change noticed by the watcher is
\* indexed or on its way.
FollowupCatchesUp ==
    phase = "watching" => index = tree \/ Pending \/ missed
=============================================================================
