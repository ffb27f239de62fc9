---------------------------- MODULE DaemonLifetime ----------------------------
(***************************************************************************)
(* Who serves, and for how long: the processes of the managed daemon       *)
(* skelesearchd (crates/daemon/src/main.rs, lib.rs, transport/uds.rs, the  *)
(* sessions of service.rs) and the MCP servers that connect to it, start   *)
(* it, register a session and keep it alive (crates/mcp/src/client.rs,     *)
(* server.rs, maintain_daemon_session).                                    *)
(*                                                                         *)
(* A daemon is a place for a process, which may be taken again once the    *)
(* process is gone. Session ids count from 1 in each process, so that an   *)
(* id of one process can be one of the next. Time is counted in heartbeat  *)
(* intervals: Tick comes when everybody is waiting for time to pass, since *)
(* what a process does in between (a request, the 400 ms before another    *)
(* probe, the 5 s of polling for the socket) takes less than the 20 s of   *)
(* an interval. Only a call of a tool, and an index run, may take longer.  *)
(***************************************************************************)
EXTENDS Naturals, Functions

CONSTANTS
    Client,     \* MCP servers
    Daemon,     \* places for daemon processes
    Ttl,        \* CLIENT_LEASE_TTL, in heartbeat intervals
    IdleTimeout, \* --idle-timeout-seconds, in heartbeat intervals
    MaxEvents,  \* bound: what users, tools and failures do
    Faults,     \* a subset of FaultKinds
    Broken,     \* a connection whose other end is gone
    None        \* absent

\* A daemon or an MCP server is killed, a daemon is interrupted (ctrl-c), a call
\* to the file system fails, a tool is called.
FaultKinds == {"kill", "killclient", "interrupt", "fail", "call"}

ASSUME LifetimeAssumption ==
    /\ Ttl \in Nat \ {0}
    /\ IdleTimeout \in Nat
    /\ MaxEvents \in Nat
    /\ Faults \subseteq FaultKinds
    /\ {Broken, None} \cap (Daemon \cup Nat) = {}
    /\ Broken # None

VARIABLES
    lock,       \* who holds the flock on daemon.lock, or None
    pidFile,    \* the process that daemon.pid names, or None
    socket,     \* the process that bound the socket file, or None
    phase,      \* of each daemon process
    sessions,   \* sessions of each daemon: age of last_seen by session id
    nextId,     \* next_session_id
    reaper,     \* step of the idle reaper
    idle,       \* age of idle_since, or None
    indexing,   \* any_indexing_running
    pc,         \* step of each client's session loop
    leaving,    \* shutdown_rx
    conn,       \* the daemon of its connection, Broken or None
    session,    \* active_session
    due,        \* its sleep is over
    busy,       \* a tool's call has the connection
    events      \* what has happened from outside

files == <<lock, pidFile, socket>>
state == <<sessions, nextId, reaper, idle, indexing>>
client == <<pc, leaving, conn, session, due, busy>>
vars == <<files, phase, state, client, events>>

\* "pid" to "unlock" are the steps of DaemonSingleton::drop; a process that is
\* "exiting" still answers on connections it has accepted.
Phases == {"none", "starting", "locked", "cleaned", "owned", "serving",
           "pid", "socket", "unlock", "exiting"}

TypeOK ==
    /\ lock \in Daemon \cup {None}
    /\ pidFile \in Daemon \cup {None}
    /\ socket \in Daemon \cup {None}
    /\ phase \in [Daemon -> Phases]
    /\ \A d \in Daemon : /\ DOMAIN sessions[d] \subseteq 1..(nextId[d] - 1)
                         /\ sessions[d] \in [DOMAIN sessions[d] -> 0..(Ttl + 1)]
    /\ nextId \in [Daemon -> Nat \ {0}]
    /\ reaper \in [Daemon -> {"sleep", "due", "count", "decide", "sent"}]
    /\ idle \in [Daemon -> (0..IdleTimeout) \cup {None}]
    /\ indexing \in [Daemon -> BOOLEAN]
    /\ pc \in [Client -> {"off", "probe", "reprobe", "start", "poll", "send", "sleep"}]
    /\ leaving \in [Client -> BOOLEAN]
    /\ conn \in [Client -> Daemon \cup {Broken, None}]
    /\ session \in [Client -> Nat \cup {None}]
    /\ due \in [Client -> BOOLEAN]
    /\ busy \in [Client -> BOOLEAN]
    /\ events \in 0..MaxEvents

NoSession == [id \in {} |-> 0]

Init ==
    /\ lock = None /\ pidFile = None /\ socket = None
    /\ phase = [d \in Daemon |-> "none"]
    /\ sessions = [d \in Daemon |-> NoSession]
    /\ nextId = [d \in Daemon |-> 1]
    /\ reaper = [d \in Daemon |-> "sleep"]
    /\ idle = [d \in Daemon |-> None]
    /\ indexing = [d \in Daemon |-> FALSE]
    /\ pc = [c \in Client |-> "off"]
    /\ leaving = [c \in Client |-> FALSE]
    /\ conn = [c \in Client |-> None]
    /\ session = [c \in Client |-> None]
    /\ due = [c \in Client |-> FALSE]
    /\ busy = [c \in Client |-> FALSE]
    /\ events = 0

Count == events < MaxEvents /\ events' = events + 1

\* A connection to the socket file succeeds.
Reachable == socket # None /\ phase[socket] = "serving"

Goto(d, step) == phase' = [phase EXCEPT ![d] = step]

\* The listener closes, the reaper is aborted, and the singleton is dropped next.
EndServing(d) ==
    /\ Goto(d, "pid")
    /\ reaper' = [reaper EXCEPT ![d] = "sleep"]
    /\ idle' = [idle EXCEPT ![d] = None]

-----------------------------------------------------------------------------
(* A daemon starts: DaemonSingleton::acquire, then UdsListener::bind        *)

\* AlreadyRunning and StartupInProgress end the process alike.
TryLock(d) ==
    /\ phase[d] = "starting"
    /\ IF lock = None THEN lock' = d /\ Goto(d, "locked")
       ELSE Goto(d, "none") /\ UNCHANGED lock
    /\ UNCHANGED <<pidFile, socket, state, client, events>>

CleanupStaleSocket(d) ==
    /\ phase[d] = "locked"
    /\ IF Reachable THEN lock' = None /\ Goto(d, "none") /\ UNCHANGED socket
       ELSE socket' = None /\ Goto(d, "cleaned") /\ UNCHANGED lock
    /\ UNCHANGED <<pidFile, state, client, events>>

WritePidFile(d) ==
    /\ phase[d] = "cleaned"
    /\ pidFile' = d
    /\ Goto(d, "owned")
    /\ UNCHANGED <<lock, socket, state, client, events>>

Bind(d) ==
    /\ phase[d] = "owned"
    /\ socket = None
    /\ socket' = d
    /\ Goto(d, "serving")
    /\ UNCHANGED <<lock, pidFile, state, client, events>>

\* Before the singleton exists only the lock goes, and the pid file may be left
\* empty or written; afterwards the singleton is dropped.
StartFails(d) ==
    /\ "fail" \in Faults
    /\ Count
    /\ \/ phase[d] = "locked" /\ lock' = None /\ Goto(d, "none") /\ UNCHANGED pidFile
       \/ /\ phase[d] = "cleaned" /\ lock' = None /\ Goto(d, "none")
          /\ pidFile' \in {pidFile, None, d}
       \/ phase[d] = "owned" /\ Goto(d, "pid") /\ UNCHANGED <<lock, pidFile>>
    /\ UNCHANGED <<socket, state, client>>

-----------------------------------------------------------------------------
(* A daemon ends: DaemonSingleton::drop, whatever is at the paths by then   *)

\* Mutant: the lock is given back before the socket file is removed.
UnlockFirst == [pid |-> "unlock", unlock |-> "socket", socket |-> "exiting"]

DropOrder == [pid |-> "socket", socket |-> "unlock", unlock |-> "exiting"]

DropSingleton(d) ==
    /\ phase[d] \in DOMAIN DropOrder
    /\ pidFile' = IF phase[d] = "pid" THEN None ELSE pidFile
    /\ socket' = IF phase[d] = "socket" THEN None ELSE socket
    /\ lock' = IF phase[d] = "unlock" THEN None ELSE lock
    /\ Goto(d, DropOrder[phase[d]])
    /\ UNCHANGED <<state, client, events>>

\* What the process had in memory, and its end of connections, is gone.
Gone(d) ==
    /\ Goto(d, "none")
    /\ sessions' = [sessions EXCEPT ![d] = NoSession]
    /\ nextId' = [nextId EXCEPT ![d] = 1]
    /\ reaper' = [reaper EXCEPT ![d] = "sleep"]
    /\ idle' = [idle EXCEPT ![d] = None]
    /\ indexing' = [indexing EXCEPT ![d] = FALSE]
    /\ conn' = [c \in Client |-> IF conn[c] = d THEN Broken ELSE conn[c]]
    /\ UNCHANGED <<pidFile, socket, pc, leaving, session, due, busy>>

\* The runtime is dropped, and with it the tasks of the connections. What runs in
\* its blocking pool holds up the process, but nothing that is modelled here.
Exit(d) ==
    /\ phase[d] = "exiting"
    /\ Gone(d)
    /\ UNCHANGED <<lock, events>>

Kill(d) ==
    /\ "kill" \in Faults
    /\ Count
    /\ phase[d] # "none"
    /\ lock' = IF lock = d THEN None ELSE lock
    /\ Gone(d)

\* Ctrl-c, or the listener fails to accept.
Interrupt(d) ==
    /\ "interrupt" \in Faults
    /\ Count
    /\ phase[d] = "serving"
    /\ EndServing(d)
    /\ UNCHANGED <<files, sessions, nextId, indexing, client>>

-----------------------------------------------------------------------------
(* The idle reaper of a managed daemon                                      *)

\* Mutant: sessions do not expire.
ReapNothing(d) ==
    /\ phase[d] = "serving"
    /\ reaper[d] = "due"
    /\ reaper' = [reaper EXCEPT ![d] = "count"]
    /\ UNCHANGED <<files, phase, sessions, nextId, idle, indexing, client, events>>

ReapExpiredSessions(d) ==
    /\ phase[d] = "serving"
    /\ reaper[d] = "due"
    /\ sessions' = [sessions EXCEPT ![d] =
          Restrict(@, {id \in DOMAIN @ : @[id] <= Ttl})]
    /\ reaper' = [reaper EXCEPT ![d] = "count"]
    /\ UNCHANGED <<files, phase, nextId, idle, indexing, client, events>>

\* live_session_count, and with sessions the answer to any_indexing_running does
\* not matter.
CountSessions(d) ==
    /\ phase[d] = "serving"
    /\ reaper[d] = "count"
    /\ IF DOMAIN sessions[d] # {}
       THEN /\ idle' = [idle EXCEPT ![d] = None]
            /\ reaper' = [reaper EXCEPT ![d] = "sleep"]
       ELSE reaper' = [reaper EXCEPT ![d] = "decide"] /\ UNCHANGED idle
    /\ UNCHANGED <<files, phase, sessions, nextId, indexing, client, events>>

StayUp(d) ==
    /\ phase[d] = "serving"
    /\ reaper[d] = "decide"
    /\ indexing[d] \/ idle[d] # IdleTimeout
    /\ idle' = [idle EXCEPT ![d] = IF indexing[d] THEN None ELSE IF @ = None THEN 0 ELSE @]
    /\ reaper' = [reaper EXCEPT ![d] = "sleep"]
    /\ UNCHANGED <<files, phase, sessions, nextId, indexing, client, events>>

SendShutdown(d) ==
    /\ phase[d] = "serving"
    /\ reaper[d] = "decide"
    /\ ~indexing[d]
    /\ idle[d] = IdleTimeout
    /\ reaper' = [reaper EXCEPT ![d] = "sent"]
    /\ UNCHANGED <<files, phase, sessions, nextId, idle, indexing, client, events>>

\* The listener takes the signal, or another connection before it.
StopListening(d) ==
    /\ phase[d] = "serving"
    /\ reaper[d] = "sent"
    /\ EndServing(d)
    /\ UNCHANGED <<files, sessions, nextId, indexing, client, events>>

EndIndexing(d) ==
    /\ indexing[d]
    /\ indexing' = [indexing EXCEPT ![d] = FALSE]
    /\ UNCHANGED <<files, phase, sessions, nextId, reaper, idle, client, events>>

-----------------------------------------------------------------------------
(* A client's connection: DaemonClient                                      *)

Step(c, step) == pc' = [pc EXCEPT ![c] = step]

\* What the loop asks for
Op(c) ==
    IF leaving[c] THEN "unregister"
    ELSE IF session[c] = None THEN "register" ELSE "heartbeat"

\* request_response, with or without a connection
Request(c) == Step(c, IF conn[c] = None THEN "probe" ELSE "send")

\* The loop is left, or the process is gone.
Off(c) ==
    /\ Step(c, "off")
    /\ conn' = [conn EXCEPT ![c] = None]
    /\ session' = [session EXCEPT ![c] = None]
    /\ leaving' = [leaving EXCEPT ![c] = FALSE]

\* The request has failed: the loop of maintain_daemon_session goes on.
Failed(c) ==
    IF leaving[c] THEN Off(c)
    ELSE /\ conn' = [conn EXCEPT ![c] = None]
         /\ session' = [session EXCEPT ![c] = None]
         /\ Step(c, IF Op(c) = "register" THEN "sleep" ELSE "probe")
         /\ UNCHANGED leaving

ConnectOnce(c) ==
    /\ pc[c] \in {"probe", "reprobe", "poll"}
    /\ Reachable
    /\ conn' = [conn EXCEPT ![c] = socket]
    /\ Step(c, "send")
    /\ UNCHANGED <<files, phase, state, leaving, session, due, busy, events>>

ProbeAgain(c) ==
    /\ pc[c] \in {"probe", "reprobe"}
    /\ ~Reachable
    /\ Step(c, IF pc[c] = "probe" THEN "reprobe" ELSE "start")
    /\ UNCHANGED <<files, phase, state, leaving, conn, session, due, busy, events>>

StartDaemon(c) ==
    /\ pc[c] = "start"
    /\ \E d \in Daemon : phase[d] = "none" /\ Goto(d, "starting")
    /\ Step(c, "poll")
    /\ UNCHANGED <<files, state, leaving, conn, session, due, busy, events>>

StopPolling(c) ==
    /\ pc[c] = "poll"
    /\ ~Reachable
    /\ Failed(c)
    /\ UNCHANGED <<files, phase, state, due, busy, events>>

ConnectionClosed(c) ==
    /\ pc[c] = "send"
    /\ conn[c] = Broken
    /\ Failed(c)
    /\ UNCHANGED <<files, phase, state, due, busy, events>>

-----------------------------------------------------------------------------
(* A client's session: maintain_daemon_session and the daemon's answers     *)

\* Mutant: next_session_id is read and not advanced.
RegisterSameId(c) ==
    /\ pc[c] = "send" /\ Op(c) = "register"
    /\ conn[c] \in Daemon
    /\ LET d == conn[c] IN
          /\ sessions' = [sessions EXCEPT ![d] =
                [id \in DOMAIN @ \cup {nextId[d]} |-> IF id = nextId[d] THEN 0 ELSE @[id]]]
          /\ session' = [session EXCEPT ![c] = nextId[d]]
    /\ Step(c, "sleep")
    /\ UNCHANGED <<files, phase, nextId, reaper, idle, indexing, leaving, conn, due, busy,
                   events>>

RegisterClient(c) ==
    /\ pc[c] = "send" /\ Op(c) = "register"
    /\ conn[c] \in Daemon
    /\ LET d == conn[c] IN
          /\ sessions' = [sessions EXCEPT ![d] =
                [id \in DOMAIN @ \cup {nextId[d]} |-> IF id = nextId[d] THEN 0 ELSE @[id]]]
          /\ nextId' = [nextId EXCEPT ![d] = @ + 1]
          /\ session' = [session EXCEPT ![c] = nextId[d]]
    /\ Step(c, "sleep")
    /\ UNCHANGED <<files, phase, reaper, idle, indexing, leaving, conn, due, busy, events>>

\* Mutant: a heartbeat does not set last_seen.
HeartbeatUnseen(c) ==
    /\ pc[c] = "send" /\ Op(c) = "heartbeat"
    /\ conn[c] \in Daemon
    /\ session[c] \in DOMAIN sessions[conn[c]]
    /\ Step(c, "sleep")
    /\ UNCHANGED <<files, phase, state, leaving, conn, session, due, busy, events>>

Heartbeat(c) ==
    /\ pc[c] = "send" /\ Op(c) = "heartbeat"
    /\ conn[c] \in Daemon
    /\ session[c] \in DOMAIN sessions[conn[c]]
    /\ sessions' = [sessions EXCEPT ![conn[c]][session[c]] = 0]
    /\ Step(c, "sleep")
    /\ UNCHANGED <<files, phase, nextId, reaper, idle, indexing, leaving, conn, session, due,
                   busy, events>>

\* Mutant: the client keeps a session that the daemon does not know.
KeepUnknown(c) ==
    /\ pc[c] = "send" /\ Op(c) = "heartbeat"
    /\ conn[c] \in Daemon
    /\ session[c] \notin DOMAIN sessions[conn[c]]
    /\ Step(c, "sleep")
    /\ UNCHANGED <<files, phase, state, leaving, conn, session, due, busy, events>>

NotAcknowledged(c) ==
    /\ pc[c] = "send" /\ Op(c) = "heartbeat"
    /\ conn[c] \in Daemon
    /\ session[c] \notin DOMAIN sessions[conn[c]]
    /\ session' = [session EXCEPT ![c] = None]
    /\ UNCHANGED <<files, phase, state, pc, leaving, conn, due, busy, events>>

\* The MCP server exits afterwards.
UnregisterClient(c) ==
    /\ pc[c] = "send" /\ Op(c) = "unregister"
    /\ conn[c] \in Daemon
    /\ sessions' = [sessions EXCEPT ![conn[c]] =
          Restrict(@, DOMAIN @ \ {session[c]})]
    /\ Off(c)
    /\ UNCHANGED <<files, phase, nextId, reaper, idle, indexing, due, busy, events>>

\* ensure_daemon_session
Begin(c) ==
    /\ Count
    /\ pc[c] = "off"
    /\ Request(c)
    /\ UNCHANGED <<files, phase, state, leaving, conn, session, due, busy>>

\* The sleep until a heartbeat, or until another attempt to register, is over,
\* and no call has the mutex of the connection.
Wake(c) ==
    /\ pc[c] = "sleep" /\ due[c] /\ ~busy[c]
    /\ due' = [due EXCEPT ![c] = FALSE]
    /\ Request(c)
    /\ UNCHANGED <<files, phase, state, leaving, conn, session, busy, events>>

\* shutdown_rx
Shutdown(c) ==
    /\ pc[c] = "sleep" /\ ~busy[c]
    /\ due' = [due EXCEPT ![c] = FALSE]
    /\ IF session[c] = None THEN Off(c)
       ELSE Request(c) /\ leaving' = [leaving EXCEPT ![c] = TRUE] /\ UNCHANGED <<conn, session>>
    /\ UNCHANGED <<files, phase, state, busy, events>>

KillClient(c) ==
    /\ "killclient" \in Faults
    /\ Count
    /\ pc[c] # "off"
    /\ Off(c)
    /\ due' = [due EXCEPT ![c] = FALSE]
    /\ busy' = [busy EXCEPT ![c] = FALSE]
    /\ UNCHANGED <<files, phase, state>>

\* A tool's call on the connection, which may begin an index run.
BeginCall(c) ==
    /\ "call" \in Faults
    /\ Count
    /\ pc[c] = "sleep" /\ ~busy[c]
    /\ conn[c] # None
    /\ busy' = [busy EXCEPT ![c] = TRUE]
    /\ UNCHANGED <<files, phase, state, pc, leaving, conn, session, due>>

EndCall(c) ==
    /\ busy[c]
    /\ busy' = [busy EXCEPT ![c] = FALSE]
    /\ IF conn[c] = Broken
       THEN conn' = [conn EXCEPT ![c] = None] /\ UNCHANGED indexing
       ELSE /\ \E b \in BOOLEAN :
                  indexing' = [indexing EXCEPT ![conn[c]] = @ \/ b]
            /\ UNCHANGED conn
    /\ UNCHANGED <<files, phase, sessions, nextId, reaper, idle, pc, leaving, session, due,
                   events>>

-----------------------------------------------------------------------------

\* One heartbeat interval passes.
Tick ==
    /\ \A c \in Client : pc[c] = "off" \/ (pc[c] = "sleep" /\ (due[c] => busy[c]))
    /\ \A d \in Daemon : /\ phase[d] \in {"none", "serving"}
                         /\ phase[d] = "serving" => reaper[d] = "sleep"
    /\ due' = [c \in Client |-> pc[c] = "sleep"]
    /\ reaper' = [d \in Daemon |-> IF phase[d] = "serving" THEN "due" ELSE reaper[d]]
    /\ sessions' = [d \in Daemon |->
          [id \in DOMAIN sessions[d] |->
              IF sessions[d][id] <= Ttl THEN sessions[d][id] + 1 ELSE Ttl + 1]]
    /\ idle' = [d \in Daemon |->
          IF idle[d] # None /\ idle[d] < IdleTimeout THEN idle[d] + 1 ELSE idle[d]]
    /\ UNCHANGED <<files, phase, nextId, indexing, pc, leaving, conn, session, busy, events>>

DaemonStep(d) ==
    \/ TryLock(d) \/ CleanupStaleSocket(d) \/ WritePidFile(d) \/ Bind(d)
    \/ DropSingleton(d) \/ Exit(d)
    \/ ReapExpiredSessions(d) \/ CountSessions(d) \/ StayUp(d) \/ SendShutdown(d)
    \/ StopListening(d)
ClientStep(c) ==
    \/ ConnectOnce(c) \/ ProbeAgain(c) \/ StartDaemon(c) \/ StopPolling(c)
    \/ ConnectionClosed(c)
    \/ RegisterClient(c) \/ Heartbeat(c) \/ NotAcknowledged(c) \/ UnregisterClient(c)
    \/ Wake(c)

Next ==
    \/ Tick
    \/ \E d \in Daemon : \/ DaemonStep(d) \/ EndIndexing(d) \/ StartFails(d)
                         \/ Kill(d) \/ Interrupt(d)
    \/ \E c \in Client : \/ ClientStep(c) \/ Begin(c) \/ Shutdown(c) \/ KillClient(c)
                         \/ BeginCall(c) \/ EndCall(c)

Spec == Init /\ [][Next]_vars

\* Processes are scheduled, time passes, calls and index runs end. Of two clients
\* that want the one free place for a process, both get it in time.
FairSpec ==
    /\ Spec
    /\ WF_vars(Tick)
    /\ \A d \in Daemon : WF_vars(DaemonStep(d)) /\ WF_vars(EndIndexing(d))
    /\ \A c \in Client : /\ WF_vars(ClientStep(c)) /\ SF_vars(StartDaemon(c))
                         /\ WF_vars(EndCall(c))

-----------------------------------------------------------------------------
(* Properties                                                               *)

\* A daemon that serves holds the lock, and the socket and pid files are its
\* own: no process that starts beside it, fails to start, ends late or was
\* killed before takes them away, so that clients go on finding it.
ServesAtSocket ==
    \A d \in Daemon : phase[d] = "serving" => lock = d /\ socket = d /\ pidFile = d

\* The reaper expires only sessions whose clients are gone or late: a client that
\* has sent its heartbeats in time keeps its session.
ReapsOnlySilent ==
    [][\A d \in Daemon, c \in Client :
          /\ ReapExpiredSessions(d)
          /\ conn[c] = d /\ session[c] \in DOMAIN sessions[d]
          /\ pc[c] = "sleep" /\ ~due[c]
          => session[c] \in DOMAIN sessions'[d]]_vars

\* The client has a session with the daemon that it is connected to.
Registered(c) ==
    conn[c] \in Daemon /\ session[c] # None /\ session[c] \in DOMAIN sessions[conn[c]]

\* A client that stays up always comes to be registered with a daemon again,
\* whatever was killed, interrupted or idle, by starting one if need be.
ClientsAreServed ==
    \A c \in Client : []<>(pc[c] = "off" \/ Registered(c))

\* When no client is left, the managed daemon ends, with its sessions of clients
\* that did not unregister.
ManagedDaemonEnds ==
    <>[](\A c \in Client : pc[c] = "off") => <>[](\A d \in Daemon : phase[d] = "none")

\* "a managed daemon exits when no clients remain" (the flag of main.rs:22): it has
\* no session when it sends itself the shutdown. A client may register between the
\* count of the sessions and this.
ExitsWithoutClients ==
    [][\A d \in Daemon : SendShutdown(d) => DOMAIN sessions[d] = {}]_vars
===============================================================================
