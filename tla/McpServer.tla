------------------------------- MODULE McpServer -------------------------------
(***************************************************************************)
(* The MCP server of a project beside the daemon that indexes it           *)
(* (crates/mcp/src/server.rs, main.rs): what it does when a client has     *)
(* connected (automatic indexing, watcher, health check), the watcher and  *)
(* its queue of refreshes, and the backends that it opens for itself.      *)
(*                                                                         *)
(* Whoever opens an index has the writer lock of its full-text part        *)
(* (TantivyIndex::open_or_create), and nobody else can open it: a server   *)
(* has the storage directory itself, and the daemon or one server has the  *)
(* active generation. The daemon is the one of Generation, a request at a  *)
(* time; its lifetime is in DaemonLifetime.                                *)
(***************************************************************************)
EXTENDS Naturals

CONSTANTS
    Servers,    \* MCP servers started in the project
    MaxGen,     \* bound: generations made
    MaxEdits,   \* bound: edits of the tree
    RootIndexed,\* `skelesearch index` has left an index in .skelesearch
    Indexed,    \* generation 1 is there, with an index
    Faults,     \* a subset of FaultKinds
    Daemon, None

\* A request gets no answer; the daemon is killed; a server stops; a run fails.
FaultKinds == {"fail", "kill", "stop", "run"}

ASSUME McpServerAssumption ==
    /\ MaxGen \in Nat \ {0} /\ MaxEdits \in Nat
    /\ RootIndexed \in BOOLEAN /\ Indexed \in BOOLEAN
    /\ Faults \subseteq FaultKinds
    /\ Daemon \notin Servers /\ None \notin Servers \cup {Daemon} \cup Nat

VARIABLES
    tree,       \* edits so far
    pointer,    \* `active-generation`, None when there is no file
    made,       \* generations made
    built,      \* by generation: the edits that its index has seen, or None
    holder,     \* by index: who has its writer lock
    up,         \* the daemon runs
    project,    \* the generation that the daemon has open, or None
    tried,      \* startup_remediation_attempted
    run,        \* step of the daemon's index run
    walked,     \* edits that the run has seen
    pc,         \* by server and task: its next step
    reply,      \* by server: answer of index_status that is being handled
    cached,     \* by server: generation in backend_cache, or None
    inFlight,   \* refresh_in_flight
    queued,     \* followup_queued
    event,      \* an event that the watcher has not received
    told,       \* edits that the watcher has been told of
    refused     \* no run was begun for the last of them, or it was lost

disk == <<tree, pointer, made, built, holder>>
daemon == <<up, project, tried, run, walked>>
queue == <<inFlight, queued, event, told, refused>>
server == <<pc, reply, cached>>
vars == <<disk, daemon, queue, server>>

Root == 0
Gen == 1..MaxGen
Edits == 0..MaxEdits
Tasks == {"init", "watch", "tool"}

\* on_initialized; run_file_watcher; a tool that reads the index itself
Steps ==
    [init : {"off", "denied", "status", "resolve", "insert", "request", "start",
             "health", "keep", "done"},
     watch : {"off", "idle", "answer", "resolve", "insert", "request"},
     tool : {"idle", "keep"}]

Answers == [running : BOOLEAN, chunks : BOOLEAN, stale : BOOLEAN]

TypeOK ==
    /\ tree \in Edits
    /\ pointer \in Gen \cup {None} /\ made \in 0..MaxGen
    /\ built \in [Gen -> Edits \cup {None}]
    /\ holder \in [{Root} \cup Gen -> Servers \cup {Daemon, None}]
    /\ up \in BOOLEAN /\ tried \in BOOLEAN
    /\ project \in Gen \cup {None}
    /\ run \in {"none", "staged", "walked"} /\ walked \in Edits
    /\ pc \in [Servers -> Steps]
    /\ reply \in [Servers -> Answers \cup {None}]
    /\ cached \in [Servers -> Gen \cup {None}]
    /\ inFlight \in [Servers -> BOOLEAN] /\ queued \in [Servers -> BOOLEAN]
    /\ event \in [Servers -> BOOLEAN] /\ refused \in [Servers -> BOOLEAN]
    /\ told \in [Servers -> Edits]

Off == [init |-> "off", watch |-> "off", tool |-> "idle"]

Init ==
    /\ tree = 0
    /\ pointer = IF Indexed THEN 1 ELSE None
    /\ made = IF Indexed THEN 1 ELSE 0
    /\ built = [g \in Gen |-> IF Indexed /\ g = 1 THEN 0 ELSE None]
    /\ holder = [i \in {Root} \cup Gen |-> None]
    /\ up = FALSE /\ project = None /\ tried = FALSE
    /\ run = "none" /\ walked = 0
    /\ pc = [m \in Servers |-> Off]
    /\ reply = [m \in Servers |-> None]
    /\ cached = [m \in Servers |-> None]
    /\ inFlight = [m \in Servers |-> FALSE] /\ queued = [m \in Servers |-> FALSE]
    /\ event = [m \in Servers |-> FALSE] /\ refused = [m \in Servers |-> FALSE]
    /\ told = [m \in Servers |-> 0]

Goto(m, t, step) == pc' = [pc EXCEPT ![m][t] = step]

-----------------------------------------------------------------------------
(* The daemon, as its clients see it                                        *)

Held(by) == [i \in DOMAIN holder |-> IF holder[i] = by THEN None ELSE holder[i]]

\* Mutant: the lock of the full-text index is nobody's concern.
OpensAnyway ==
    /\ up' = TRUE
    /\ \/ project # None /\ UNCHANGED <<project, pointer, made, holder>>
       \/ project = None /\ pointer # None /\ project' = pointer
          /\ UNCHANGED <<pointer, made, holder>>
       \/ /\ project = None /\ pointer = None /\ made < MaxGen
          /\ made' = made + 1 /\ pointer' = made' /\ project' = made'
          /\ holder' = [holder EXCEPT ![made'] = Daemon]

\* resolve_or_open_project, which makes the first generation when there is none
Opens ==
    /\ up' = TRUE
    /\ \/ project # None /\ UNCHANGED <<project, pointer, made, holder>>
       \/ /\ project = None /\ pointer # None /\ holder[pointer] = None
          /\ project' = pointer
          /\ holder' = [holder EXCEPT ![pointer] = Daemon]
          /\ UNCHANGED <<pointer, made>>
       \/ /\ project = None /\ pointer = None /\ made < MaxGen
          /\ made' = made + 1 /\ pointer' = made' /\ project' = made'
          /\ holder' = [holder EXCEPT ![made'] = Daemon]

\* No answer, or one that the generation cannot be opened.
Refuses ==
    \/ "fail" \in Faults /\ UNCHANGED <<daemon, pointer, made, holder>>
    \/ /\ project = None /\ pointer # None /\ holder[pointer] # None
       /\ up' = TRUE
       /\ UNCHANGED <<project, tried, run, walked, pointer, made, holder>>

Chunks(g) == built[g] # None
Stale(g) == Chunks(g) /\ built[g] < tree

\* start_indexing_run
Begins == run' = "staged"

\* ensure_index_current_on_startup: once for a project. The tables of an index
\* that was never built cannot be counted, and nothing is begun then.
Remediates ==
    /\ tried' = TRUE
    /\ IF ~tried /\ Stale(project') /\ run = "none" /\ made' < MaxGen
       THEN Begins
       ELSE UNCHANGED run

Status ==
    [running |-> run' # "none", chunks |-> Chunks(project'), stale |-> Stale(project')]

Walk ==
    /\ run = "staged"
    /\ run' = "walked" /\ walked' = tree
    /\ UNCHANGED <<disk, up, project, tried, queue, server>>

\* promote_staged_generation
Promote ==
    /\ run = "walked"
    /\ made' = made + 1 /\ pointer' = made' /\ project' = made'
    /\ built' = [built EXCEPT ![made'] = walked]
    /\ holder' = [Held(Daemon) EXCEPT ![made'] = Daemon]
    /\ run' = "none"
    /\ UNCHANGED <<tree, up, tried, walked, queue, server>>

Lost == refused' = [m \in Servers |-> TRUE]

RunFails ==
    /\ "run" \in Faults
    /\ run # "none"
    /\ run' = "none" /\ Lost
    /\ UNCHANGED <<disk, up, project, tried, walked, inFlight, queued, event, told, server>>

DaemonKilled ==
    /\ "kill" \in Faults
    /\ up
    /\ up' = FALSE /\ project' = None /\ tried' = FALSE /\ run' = "none"
    /\ holder' = Held(Daemon)
    /\ Lost
    /\ UNCHANGED <<tree, pointer, made, built, walked, inFlight, queued, event, told, server>>

-----------------------------------------------------------------------------
(* Backends of the server                                                   *)

\* resolve_backend: the backend of the storage directory while there is no
\* active generation; else the cached one, or one that is opened and, after an
\* await, put into the cache.
NeedsNone(m) == pointer = None \/ cached[m] = pointer
CanOpen == pointer # None /\ holder[pointer] = None

OpensBackend(m) ==
    /\ ~NeedsNone(m) /\ CanOpen
    /\ holder' = [holder EXCEPT ![pointer] = m]

Busy(m) == ~NeedsNone(m) /\ ~CanOpen

\* The entry of the project is replaced, and the backend it had is closed.
InsertsBackend(m) ==
    LET mine == {g \in Gen : holder[g] = m /\ g # cached[m]} IN
    /\ cached' = [cached EXCEPT ![m] = CHOOSE g \in mine : TRUE]
    /\ holder' = [i \in DOMAIN holder |->
                    IF i = cached[m] THEN None ELSE holder[i]]

\* persisted_provider_name_from_manifest, of the manifest beside the backend
KnowsProvider == IF pointer = None THEN RootIndexed ELSE built[pointer] # None

\* get_file_context and its like: the backend is opened, whatever for.
ToolOpens(m) ==
    /\ pc[m].init \notin {"off", "denied"} /\ pc[m].tool = "idle"
    /\ OpensBackend(m)
    /\ Goto(m, "tool", "keep")
    /\ UNCHANGED <<tree, pointer, made, built, daemon, queue, reply, cached>>

Keeps(m, t, from, to) ==
    /\ pc[m][t] = from
    /\ InsertsBackend(m)
    /\ Goto(m, t, to)
    /\ UNCHANGED <<tree, pointer, made, built, daemon, queue, reply>>

-----------------------------------------------------------------------------
(* Start, and what follows the client's `initialized`                       *)

\* main opens the storage directory before it serves.
Start(m) ==
    /\ pc[m].init \in {"off", "denied"}
    /\ IF holder[Root] = None
       THEN /\ holder' = [holder EXCEPT ![Root] = m]
            /\ Goto(m, "init", "status")
       ELSE /\ pc[m].init = "off"
            /\ Goto(m, "init", "denied")
            /\ UNCHANGED holder
    /\ UNCHANGED <<tree, pointer, made, built, daemon, queue, reply, cached>>

Stop(m) ==
    /\ "stop" \in Faults
    /\ pc[m].init = "done" /\ pc[m].tool = "idle"
    /\ pc' = [pc EXCEPT ![m] = Off]
    /\ cached' = [cached EXCEPT ![m] = None]
    /\ reply' = [reply EXCEPT ![m] = None]
    /\ holder' = Held(m)
    /\ inFlight' = [inFlight EXCEPT ![m] = FALSE]
    /\ queued' = [queued EXCEPT ![m] = FALSE]
    /\ event' = [event EXCEPT ![m] = FALSE]
    /\ UNCHANGED <<tree, pointer, made, built, daemon, told, refused>>

\* auto_index_if_needed asks for the status, and goes on when there is no index
\* or a stale one.
AutoAsks(m) ==
    /\ pc[m].init = "status"
    /\ \/ /\ Opens /\ Remediates
          /\ LET s == Status IN
             IF ~s.chunks \/ s.stale
             THEN Goto(m, "init", "resolve") /\ reply' = [reply EXCEPT ![m] = s]
             ELSE Goto(m, "init", "start") /\ UNCHANGED reply
          /\ UNCHANGED walked
       \/ /\ Refuses
          /\ Goto(m, "init", "start")
          /\ UNCHANGED reply
    /\ UNCHANGED <<tree, built, cached, queue>>

\* A provider that is not known is the default one, for the first build.
AutoResolves(m) ==
    /\ pc[m].init = "resolve"
    /\ reply' = [reply EXCEPT ![m] = None]
    /\ \/ /\ NeedsNone(m)
          /\ Goto(m, "init",
                  IF reply[m].stale /\ ~KnowsProvider THEN "start" ELSE "request")
          /\ UNCHANGED holder
       \/ OpensBackend(m) /\ Goto(m, "init", "insert")
       \/ Busy(m) /\ Goto(m, "init", "start") /\ UNCHANGED holder
    /\ UNCHANGED <<tree, pointer, made, built, daemon, queue, cached>>

\* Mutant: what ends a tool ends the task.
AutoInsertsIdle(m) == Keeps(m, "init", "insert", "idle")

AutoInserts(m) == Keeps(m, "init", "insert", "request")

\* proxy_index_codebase_via_daemon: a run is begun, or one is under way.
Asked ==
    /\ Opens
    /\ IF run = "none" THEN made' < MaxGen /\ Begins ELSE UNCHANGED run
    /\ UNCHANGED <<tried, walked>>

AutoRequests(m) ==
    /\ pc[m].init = "request"
    /\ Asked \/ Refuses
    /\ Goto(m, "init", "start")
    /\ UNCHANGED <<tree, built, reply, cached, queue>>

\* start_file_watcher_if_enabled, which it is here: once in a process
StartWatcher(m) ==
    /\ pc[m].init = "start"
    /\ pc' = [pc EXCEPT ![m].init = "health", ![m].watch = "idle"]
    /\ told' = [told EXCEPT ![m] = 0]
    /\ refused' = [refused EXCEPT ![m] = FALSE]
    /\ UNCHANGED <<disk, daemon, inFlight, queued, event, reply, cached>>

\* The health check opens the active generation, and keeps it open.
HealthCheck(m) ==
    /\ pc[m].init = "health"
    /\ \/ OpensBackend(m) /\ Goto(m, "init", "keep")
       \/ (NeedsNone(m) \/ Busy(m)) /\ Goto(m, "init", "done") /\ UNCHANGED holder
    /\ UNCHANGED <<tree, pointer, made, built, daemon, queue, reply, cached>>

HealthKeeps(m) == Keeps(m, "init", "keep", "done")
ToolKeeps(m) == Keeps(m, "tool", "keep", "idle")

-----------------------------------------------------------------------------
(* The watcher                                                              *)

\* An edit reaches the watchers that are set up, after the debounce.
Edit ==
    /\ tree < MaxEdits
    /\ tree' = tree + 1
    /\ event' = [m \in Servers |-> event[m] \/ pc[m].watch # "off"]
    /\ UNCHANGED <<pointer, made, built, holder, daemon, inFlight, queued, told, refused, server>>

\* Mutant: a change during a refresh is not queued.
OnChangeUnqueued(m) ==
    /\ pc[m].watch = "idle" /\ event[m]
    /\ event' = [event EXCEPT ![m] = FALSE]
    /\ told' = [told EXCEPT ![m] = tree]
    /\ IF inFlight[m] THEN UNCHANGED pc ELSE Goto(m, "watch", "resolve")
    /\ UNCHANGED <<disk, daemon, inFlight, queued, refused, reply, cached>>

\* on_change_detected: a refresh in flight is followed by another; else one is
\* triggered.
OnChange(m) ==
    /\ pc[m].watch = "idle" /\ event[m]
    /\ event' = [event EXCEPT ![m] = FALSE]
    /\ told' = [told EXCEPT ![m] = tree]
    /\ IF inFlight[m]
       THEN queued' = [queued EXCEPT ![m] = TRUE] /\ UNCHANGED pc
       ELSE Goto(m, "watch", "resolve") /\ UNCHANGED queued
    /\ UNCHANGED <<disk, daemon, inFlight, refused, reply, cached>>

\* trigger_watcher_refresh: backend and provider first. A failure is logged.
GivesUp(m) ==
    /\ Goto(m, "watch", "idle")
    /\ refused' = [refused EXCEPT ![m] = TRUE]

TriggerResolves(m) ==
    /\ pc[m].watch = "resolve"
    /\ \/ /\ NeedsNone(m) /\ KnowsProvider
          /\ Goto(m, "watch", "request")
          /\ UNCHANGED <<holder, refused>>
       \/ NeedsNone(m) /\ ~KnowsProvider /\ GivesUp(m) /\ UNCHANGED holder
       \/ OpensBackend(m) /\ Goto(m, "watch", "insert") /\ UNCHANGED refused
       \/ Busy(m) /\ GivesUp(m) /\ UNCHANGED holder
    /\ UNCHANGED <<tree, pointer, made, built, daemon, inFlight, queued, event, told,
                   reply, cached>>

TriggerInserts(m) == Keeps(m, "watch", "insert", "resolve")

\* mark_refresh_triggered on either answer; that of a run under way promises
\* nothing of edits that it may have walked past.
TriggerRequests(m) ==
    /\ pc[m].watch = "request"
    /\ \/ /\ Asked
          /\ inFlight' = [inFlight EXCEPT ![m] = TRUE]
          /\ refused' = [refused EXCEPT ![m] = run # "none"]
          /\ Goto(m, "watch", "idle")
       \/ Refuses /\ GivesUp(m) /\ UNCHANGED inFlight
    /\ UNCHANGED <<tree, built, queued, event, told, reply, cached>>

\* The poll of a refresh in flight; one that fails changes nothing.
PollAsks(m) ==
    /\ pc[m].watch = "idle" /\ inFlight[m]
    /\ Opens /\ Remediates
    /\ reply' = [reply EXCEPT ![m] = Status]
    /\ Goto(m, "watch", "answer")
    /\ UNCHANGED <<tree, built, walked, cached, queue>>

\* Mutant: a finished refresh that nothing follows stays in flight.
PollAnsweredStuck(m) ==
    /\ pc[m].watch = "answer"
    /\ reply' = [reply EXCEPT ![m] = None]
    /\ queued' = [queued EXCEPT ![m] = FALSE]
    /\ Goto(m, "watch",
            IF ~reply[m].running /\ queued[m] THEN "resolve" ELSE "idle")
    /\ UNCHANGED <<disk, daemon, inFlight, event, told, refused, cached>>

\* mark_refresh_finished, and the follow-up, which leaves the flag set even
\* when it cannot be triggered
PollAnswered(m) ==
    /\ pc[m].watch = "answer"
    /\ reply' = [reply EXCEPT ![m] = None]
    /\ IF reply[m].running
       THEN Goto(m, "watch", "idle") /\ UNCHANGED <<inFlight, queued>>
       ELSE /\ inFlight' = [inFlight EXCEPT ![m] = queued[m]]
            /\ queued' = [queued EXCEPT ![m] = FALSE]
            /\ Goto(m, "watch", IF queued[m] THEN "resolve" ELSE "idle")
    /\ UNCHANGED <<disk, daemon, event, told, refused, cached>>

Watch(m) ==
    \/ OnChange(m) \/ TriggerResolves(m) \/ TriggerInserts(m) \/ TriggerRequests(m)
    \/ PollAsks(m) \/ PollAnswered(m)

Initialized(m) ==
    \/ AutoAsks(m) \/ AutoResolves(m) \/ AutoInserts(m) \/ AutoRequests(m)
    \/ StartWatcher(m) \/ HealthCheck(m) \/ HealthKeeps(m)

Next ==
    \/ Edit \/ Walk \/ Promote \/ RunFails \/ DaemonKilled
    \/ \E m \in Servers :
          \/ Start(m) \/ Stop(m) \/ Initialized(m)
          \/ ToolOpens(m) \/ ToolKeeps(m)
          \/ Watch(m)

Spec == Init /\ [][Next]_vars

\* Runs end, and the tasks of a server take their next step: the select picks
\* the poll again and again among events that are bounded.
Fairness ==
    /\ WF_vars(Walk) /\ WF_vars(Promote)
    /\ \A m \in Servers :
          WF_vars(Initialized(m)) /\ WF_vars(Watch(m)) /\ WF_vars(ToolKeeps(m))

FairSpec == Spec /\ Fairness

-----------------------------------------------------------------------------
(* Properties                                                               *)

\* What a server has open is the active generation: no promotion leaves it on
\* an index of the past, as it has the lock that the daemon would need.
OpenIsActive ==
    \A m \in Servers, g \in Gen : holder[g] = m => g = pointer

\* A watcher at rest has the index of every edit that it was told of, unless a
\* request was refused, met a run under way, or had a run that failed: an edit
\* during a refresh is queued, and the poll that ends the refresh sees to it.
NoChangeForgotten ==
    \A m \in Servers :
        /\ pc[m].watch = "idle" /\ ~inFlight[m] /\ ~refused[m] /\ run = "none"
        => told[m] <= IF pointer # None /\ Chunks(pointer) THEN built[pointer] ELSE 0

\* A refresh in flight is taken back once its run is over, unless the daemon is
\* killed, when a server may open the generation before the next daemon can.
RefreshEnds == \A m \in Servers : inFlight[m] ~> (~inFlight[m] \/ project = None)

\* "Triggers background auto-indexing if no index exists for the current
\* project" (on_initialized): a server that has started, and was answered that
\* there is no index, has asked for one.
AutoIndexed ==
    \A m \in Servers :
        pc[m].init = "health" /\ project # None /\ ~Chunks(project) => run # "none"

\* "one queued follow-up refresh that runs after the active pass completes"
\* (run_file_watcher)
FollowupRuns ==
    \A m \in Servers :
        (queued[m] /\ run # "none") ~> (run = "none" /\ <>(run # "none"))

\* "The server MUST always reach serve_stdio()" (main.rs)
AlwaysServes == \A m \in Servers : pc[m].init # "denied"

\* The daemon that runs can open the project it is asked for.
DaemonOpens == up => project # None \/ pointer = None \/ holder[pointer] = None
=============================================================================
