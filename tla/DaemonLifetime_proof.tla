------------------------- MODULE DaemonLifetime_proof -------------------------
(***************************************************************************)
(* Proofs about DaemonLifetime, for any clients, daemons, bounds and       *)
(* faults: that a daemon which serves is the one that clients find         *)
(* (ServeInv), the types, and that the reaper expires no session of a      *)
(* client that sends its heartbeats (FreshInv).                            *)
(***************************************************************************)
EXTENDS DaemonLifetime, TLAPS

(***************************************************************************)
(* From the flock to the unlock a process is alone: the lock names it in   *)
(* exactly these phases, and the files are written and removed in no other. *)
(***************************************************************************)
Holding == {"locked", "cleaned", "owned", "serving", "pid", "socket", "unlock"}

LockIsHeld == \A d \in Daemon : lock = d <=> phase[d] \in Holding
FilesAreOwn == \A d \in Daemon :
    /\ phase[d] \in {"owned", "serving"} => pidFile = d
    /\ phase[d] = "serving" => socket = d

ServeInv ==
    /\ phase \in [Daemon -> Phases]
    /\ LockIsHeld
    /\ FilesAreOwn

LEMMA NoneIsNoDaemon == None \notin Daemon
  BY LifetimeAssumption

\* The steps of DaemonSingleton::drop are those of a process that has the lock.
LEMMA DropOrderFact ==
    /\ DOMAIN DropOrder = {"pid", "socket", "unlock"}
    /\ DropOrder["pid"] = "socket"
    /\ DropOrder["socket"] = "unlock"
    /\ DropOrder["unlock"] = "exiting"
  BY DEF DropOrder

LEMMA InitServe == Init => ServeInv
  BY NoneIsNoDaemon DEF Init, ServeInv, LockIsHeld, FilesAreOwn, Phases, Holding

\* A step of one process that leaves the files alone, unless it takes or has the
\* lock, keeps the invariant.
LEMMA NextServe == ServeInv /\ [Next]_vars => ServeInv'
<1> SUFFICES ASSUME ServeInv, [Next]_vars
             PROVE  ServeInv'
  OBVIOUS
<1> USE NoneIsNoDaemon DEF ServeInv, LockIsHeld, FilesAreOwn, Phases, Holding, Goto
<1>1. ASSUME UNCHANGED <<files, phase>>
      PROVE  ServeInv'
  BY <1>1 DEF files
<1>2. ASSUME NEW d \in Daemon, TryLock(d)
      PROVE  ServeInv'
  BY <1>2 DEF TryLock
<1>3. ASSUME NEW d \in Daemon, CleanupStaleSocket(d)
      PROVE  ServeInv'
  BY <1>3 DEF CleanupStaleSocket
<1>4. ASSUME NEW d \in Daemon, WritePidFile(d)
      PROVE  ServeInv'
  BY <1>4 DEF WritePidFile
<1>5. ASSUME NEW d \in Daemon, Bind(d)
      PROVE  ServeInv'
  BY <1>5 DEF Bind
<1>6. ASSUME NEW d \in Daemon, StartFails(d)
      PROVE  ServeInv'
  BY <1>6 DEF StartFails
<1>7. ASSUME NEW d \in Daemon, DropSingleton(d)
      PROVE  ServeInv'
  <2>1. CASE phase[d] = "pid"
    BY <1>7, <2>1, DropOrderFact DEF DropSingleton
  <2>2. CASE phase[d] = "socket"
    BY <1>7, <2>2, DropOrderFact DEF DropSingleton
  <2>3. CASE phase[d] = "unlock"
    BY <1>7, <2>3, DropOrderFact DEF DropSingleton
  <2> QED
    BY <1>7, <2>1, <2>2, <2>3, DropOrderFact DEF DropSingleton
<1>8. ASSUME NEW d \in Daemon, Exit(d)
      PROVE  ServeInv'
  BY <1>8 DEF Exit, Gone
<1>9. ASSUME NEW d \in Daemon, Kill(d)
      PROVE  ServeInv'
  BY <1>9 DEF Kill, Gone
<1>10. ASSUME NEW d \in Daemon, Interrupt(d) \/ StopListening(d)
       PROVE  ServeInv'
  BY <1>10 DEF Interrupt, StopListening, EndServing, files
<1>11. ASSUME NEW d \in Daemon,
              \/ ReapExpiredSessions(d) \/ CountSessions(d) \/ StayUp(d)
              \/ SendShutdown(d) \/ EndIndexing(d)
       PROVE  UNCHANGED <<files, phase>>
  BY <1>11 DEF ReapExpiredSessions, CountSessions, StayUp, SendShutdown, EndIndexing
<1>12. ASSUME NEW c \in Client, StartDaemon(c)
       PROVE  ServeInv'
  BY <1>12 DEF StartDaemon, files
<1>13. ASSUME NEW c \in Client,
              \/ ConnectOnce(c) \/ ProbeAgain(c) \/ StopPolling(c) \/ ConnectionClosed(c)
              \/ RegisterClient(c) \/ Heartbeat(c) \/ NotAcknowledged(c)
              \/ UnregisterClient(c) \/ Wake(c)
       PROVE  UNCHANGED <<files, phase>>
  BY <1>13 DEF ConnectOnce, ProbeAgain, StopPolling, ConnectionClosed, RegisterClient,
               Heartbeat, NotAcknowledged, UnregisterClient, Wake
<1>14. ASSUME NEW c \in Client,
              Begin(c) \/ Shutdown(c) \/ KillClient(c) \/ BeginCall(c) \/ EndCall(c)
       PROVE  UNCHANGED <<files, phase>>
  BY <1>14 DEF Begin, Shutdown, KillClient, BeginCall, EndCall
<1>15. Tick \/ UNCHANGED vars => UNCHANGED <<files, phase>>
  BY DEF Tick, vars
<1> QED
  BY <1>1, <1>2, <1>3, <1>4, <1>5, <1>6, <1>7, <1>8, <1>9, <1>10, <1>11, <1>12, <1>13,
     <1>14, <1>15 DEF Next, DaemonStep, ClientStep

\* Whatever processes start, fail, end or are killed, and whenever: a daemon that
\* serves has the lock and is at the socket and in the pid file.
THEOREM DaemonServesAtSocket == Spec => []ServesAtSocket
<1>1. ServeInv => ServesAtSocket
  BY DEF ServeInv, LockIsHeld, FilesAreOwn, Holding, ServesAtSocket
<1> QED
  BY <1>1, InitServe, NextServe, PTL DEF Spec

-----------------------------------------------------------------------------
(* Types, and whom the reaper expires                                       *)

\* The sessions of a process, of ids that it has given out; and all else.
SessionsOK ==
    /\ sessions = [d \in Daemon |-> sessions[d]]
    /\ \A d \in Daemon : /\ DOMAIN sessions[d] \subseteq 1..(nextId[d] - 1)
                         /\ sessions[d] \in [DOMAIN sessions[d] -> 0..(Ttl + 1)]

Others ==
    /\ lock \in Daemon \cup {None}
    /\ pidFile \in Daemon \cup {None}
    /\ socket \in Daemon \cup {None}
    /\ phase \in [Daemon -> Phases]
    /\ nextId \in [Daemon -> Nat \ {0}]
    /\ reaper \in [Daemon -> {"sleep", "due", "count", "decide", "sent"}]
    /\ idle \in [Daemon -> (0..IdleTimeout) \cup {None}]
    /\ indexing \in [Daemon -> BOOLEAN]
    /\ pc \in [Client -> {"off", "probe", "reprobe", "start", "poll", "send", "sleep"}]
    /\ leaving \in [Client -> BOOLEAN]
    /\ conn \in [Client -> Daemon \cup {Broken, None}]
    /\ session \in [Client -> Nat \cup {None}]
    /\ due \in [Client -> BOOLEAN]
    /\ busy \in [Client -> BOOLEAN]
    /\ events \in 0..MaxEvents

Typed == Others /\ SessionsOK

LEMMA TypedIsTypeOK == Typed => TypeOK
  BY DEF Typed, Others, SessionsOK, TypeOK

LEMMA InitTyped == Init => Typed
  BY LifetimeAssumption DEF Init, Typed, Others, SessionsOK, NoSession, Phases

\* A step that changes the table of one process.
LEMMA OneTable ==
  ASSUME SessionsOK, NEW d \in Daemon, NEW new,
         sessions' = [sessions EXCEPT ![d] = new],
         DOMAIN new \subseteq 1..(nextId'[d] - 1), new \in [DOMAIN new -> 0..(Ttl + 1)],
         \A e \in Daemon \ {d} : nextId'[e] = nextId[e]
  PROVE  SessionsOK'
<1>1. sessions' = [e \in Daemon |-> IF e = d THEN new ELSE sessions[e]]
  BY DEF SessionsOK
<1> QED BY <1>1 DEF SessionsOK

\* Sessions are added, refreshed and removed one at a time, and age together.
LEMMA NextTypes ==
  ASSUME Typed, [Next]_vars
  PROVE  Typed'
<1> USE LifetimeAssumption DEF Typed, Others, SessionsOK, Phases, Goto, Step, files,
        state, client, Restrict
<1>1. ASSUME NEW d \in Daemon, TryLock(d) PROVE Typed'
  BY <1>1, ZenonT(30) DEF TryLock
<1>2. ASSUME NEW d \in Daemon, CleanupStaleSocket(d) PROVE Typed'
  BY <1>2 DEF CleanupStaleSocket
<1>3. ASSUME NEW d \in Daemon, WritePidFile(d) PROVE Typed'
  BY <1>3 DEF WritePidFile
<1>4. ASSUME NEW d \in Daemon, Bind(d) PROVE Typed'
  BY <1>4 DEF Bind
<1>5. ASSUME NEW d \in Daemon, StartFails(d) PROVE Typed'
  <2>1. SessionsOK'
    BY <1>5 DEF StartFails
  <2>2. /\ UNCHANGED <<socket, state, client>> /\ events' \in 0..MaxEvents
        /\ lock' \in {lock, None} /\ pidFile' \in {pidFile, None, d}
        /\ \E s \in {"none", "pid"} : phase' = [phase EXCEPT ![d] = s]
    BY <1>5 DEF StartFails, Count
  <2>3. Others'
    BY <2>2
  <2> QED BY <2>1, <2>3
<1>6. ASSUME NEW d \in Daemon, DropSingleton(d) PROVE Typed'
  BY <1>6, DropOrderFact DEF DropSingleton
<1>7. ASSUME NEW d \in Daemon, Exit(d) PROVE Typed'
  <2>1. SessionsOK'
    BY <1>7 DEF Exit, Gone, NoSession
  <2>2. Others'
    BY <1>7 DEF Exit, Gone
  <2> QED BY <2>1, <2>2
<1>8. ASSUME NEW d \in Daemon, Kill(d) PROVE Typed'
  <2>1. SessionsOK'
    BY <1>8 DEF Kill, Gone, NoSession
  <2>2. events' \in 0..MaxEvents /\ lock' \in Daemon \cup {None}
    BY <1>8 DEF Kill, Count
  <2>3. Others'
    BY <1>8, <2>2 DEF Kill, Gone
  <2> QED BY <2>1, <2>3
<1>9. ASSUME NEW d \in Daemon, Interrupt(d) PROVE Typed'
  BY <1>9 DEF Interrupt, EndServing, Count
<1>10. ASSUME NEW d \in Daemon, ReapExpiredSessions(d) PROVE Typed'
  BY <1>10, ZenonT(30) DEF ReapExpiredSessions
<1>11. ASSUME NEW d \in Daemon, CountSessions(d) PROVE Typed'
  <2>1. SessionsOK'
    BY <1>11 DEF CountSessions
  <2>2. /\ UNCHANGED <<files, phase, nextId, indexing, client, events>>
        /\ idle' = idle \/ idle' = [idle EXCEPT ![d] = None]
        /\ reaper' \in [Daemon -> {"sleep", "due", "count", "decide", "sent"}]
    BY <1>11, ZenonT(30) DEF CountSessions
  <2>3. idle' \in [Daemon -> (0..IdleTimeout) \cup {None}]
    BY <2>2
  <2>4. Others'
    BY <2>2, <2>3
  <2> QED BY <2>1, <2>4
<1>12. ASSUME NEW d \in Daemon, StayUp(d) PROVE Typed'
  BY <1>12 DEF StayUp
<1>13. ASSUME NEW d \in Daemon, SendShutdown(d) PROVE Typed'
  BY <1>13 DEF SendShutdown
<1>14. ASSUME NEW d \in Daemon, StopListening(d) PROVE Typed'
  BY <1>14 DEF StopListening, EndServing
<1>15. ASSUME NEW d \in Daemon, EndIndexing(d) PROVE Typed'
  BY <1>15 DEF EndIndexing
<1>16. ASSUME NEW c \in Client, ConnectOnce(c) PROVE Typed'
  BY <1>16 DEF ConnectOnce, Reachable
<1>17. ASSUME NEW c \in Client, ProbeAgain(c) PROVE Typed'
  BY <1>17 DEF ProbeAgain
<1>18. ASSUME NEW c \in Client, StartDaemon(c) PROVE Typed'
  BY <1>18 DEF StartDaemon
<1>19. ASSUME NEW c \in Client, StopPolling(c) PROVE Typed'
  <2>1. CASE leaving[c]
    <3>1. /\ conn' = [conn EXCEPT ![c] = None] /\ session' = [session EXCEPT ![c] = None]
          /\ pc' = [pc EXCEPT ![c] = "off"] /\ leaving' = [leaving EXCEPT ![c] = FALSE]
          /\ UNCHANGED <<files, phase, state, due, busy, events>>
      BY <1>19, <2>1 DEF StopPolling, Failed, Off
    <3> QED BY <3>1
  <2>2. CASE ~leaving[c]
    <3>1. /\ conn' = [conn EXCEPT ![c] = None] /\ session' = [session EXCEPT ![c] = None]
          /\ \E s \in {"sleep", "probe"} : pc' = [pc EXCEPT ![c] = s]
          /\ UNCHANGED <<files, phase, state, leaving, due, busy, events>>
      BY <1>19, <2>2 DEF StopPolling, Failed
    <3> QED BY <3>1
  <2> QED BY <2>1, <2>2
<1>20. ASSUME NEW c \in Client, ConnectionClosed(c) PROVE Typed'
  <2>1. CASE leaving[c]
    <3>1. /\ conn' = [conn EXCEPT ![c] = None] /\ session' = [session EXCEPT ![c] = None]
          /\ pc' = [pc EXCEPT ![c] = "off"] /\ leaving' = [leaving EXCEPT ![c] = FALSE]
          /\ UNCHANGED <<files, phase, state, due, busy, events>>
      BY <1>20, <2>1 DEF ConnectionClosed, Failed, Off
    <3> QED BY <3>1
  <2>2. CASE ~leaving[c]
    <3>1. /\ conn' = [conn EXCEPT ![c] = None] /\ session' = [session EXCEPT ![c] = None]
          /\ \E s \in {"sleep", "probe"} : pc' = [pc EXCEPT ![c] = s]
          /\ UNCHANGED <<files, phase, state, leaving, due, busy, events>>
      BY <1>20, <2>2 DEF ConnectionClosed, Failed
    <3> QED BY <3>1
  <2> QED BY <2>1, <2>2
<1>21. ASSUME NEW c \in Client, RegisterClient(c) PROVE Typed'
  <2> DEFINE m == conn[c]
             n == nextId[m]
             old == sessions[m]
             new == [id \in DOMAIN old \cup {n} |-> IF id = n THEN 0 ELSE old[id]]
  <2>1. m \in Daemon
    BY <1>21 DEF RegisterClient
  <2>2. sessions' = [sessions EXCEPT ![m] = new] /\ nextId' = [nextId EXCEPT ![m] = n + 1]
    BY <1>21 DEF RegisterClient
  <2>3. /\ n \in Nat \ {0} /\ nextId'[m] = n + 1
        /\ \A e \in Daemon \ {m} : nextId'[e] = nextId[e]
    BY <2>1, <2>2
  <2>4. DOMAIN old \subseteq 1..(n - 1) /\ old \in [DOMAIN old -> 0..(Ttl + 1)]
    BY <2>1
  <2>5. DOMAIN new \subseteq 1..(nextId'[m] - 1)
    BY <2>3, <2>4
  <2>6. new \in [DOMAIN new -> 0..(Ttl + 1)]
    BY <2>4
  <2> HIDE DEF new
  <2>7. SessionsOK'
    BY <2>1, <2>2, <2>3, <2>5, <2>6, OneTable
  <2>8. Others'
    BY <1>21, <2>2, <2>3 DEF RegisterClient
  <2> QED BY <2>7, <2>8
<1>22. ASSUME NEW c \in Client, Heartbeat(c) PROVE Typed'
  <2> DEFINE m == conn[c]
             new == [sessions[m] EXCEPT ![session[c]] = 0]
  <2>1. /\ m \in Daemon /\ sessions' = [sessions EXCEPT ![m] = new] /\ nextId' = nextId
    BY <1>22 DEF Heartbeat
  <2>2. /\ DOMAIN sessions[m] \subseteq 1..(nextId'[m] - 1)
        /\ sessions[m] \in [DOMAIN sessions[m] -> 0..(Ttl + 1)]
    BY <2>1
  <2>3. 0 \in 0..(Ttl + 1)
    OBVIOUS
  <2>4. DOMAIN new = DOMAIN sessions[m] /\ new \in [DOMAIN new -> 0..(Ttl + 1)]
    BY <2>2, <2>3
  <2> HIDE DEF new
  <2>5. SessionsOK'
    BY <2>1, <2>2, <2>4, OneTable
  <2>6. Others'
    BY <1>22 DEF Heartbeat
  <2> QED BY <2>5, <2>6
<1>23. ASSUME NEW c \in Client, NotAcknowledged(c) PROVE Typed'
  BY <1>23 DEF NotAcknowledged
<1>24. ASSUME NEW c \in Client, UnregisterClient(c) PROVE Typed'
  BY <1>24 DEF UnregisterClient, Off
<1>25. ASSUME NEW c \in Client, Begin(c) PROVE Typed'
  BY <1>25 DEF Begin, Request, Count
<1>26. ASSUME NEW c \in Client, Wake(c) PROVE Typed'
  BY <1>26 DEF Wake, Request
<1>27. ASSUME NEW c \in Client, Shutdown(c) PROVE Typed'
  BY <1>27, ZenonT(30) DEF Shutdown, Off, Request
<1>28. ASSUME NEW c \in Client, KillClient(c) PROVE Typed'
  BY <1>28 DEF KillClient, Off, Count
<1>29. ASSUME NEW c \in Client, BeginCall(c) PROVE Typed'
  BY <1>29 DEF BeginCall, Count
<1>30. ASSUME NEW c \in Client, EndCall(c) PROVE Typed'
  BY <1>30 DEF EndCall
<1>31. ASSUME Tick PROVE Typed'
  BY <1>31 DEF Tick
<1>32. CASE UNCHANGED vars
  BY <1>32 DEF vars
<1> QED
  BY <1>1, <1>2, <1>3, <1>4, <1>5, <1>6, <1>7, <1>8, <1>9, <1>10, <1>11, <1>12, <1>13,
     <1>14, <1>15, <1>16, <1>17, <1>18, <1>19, <1>20, <1>21, <1>22, <1>23, <1>24, <1>25,
     <1>26, <1>27, <1>28, <1>29, <1>30, <1>31, <1>32 DEF Next, DaemonStep, ClientStep

\* Whatever clients and daemons do, fail and are killed, the state stays well-formed:
\* a process knows only ids that it has given out.
THEOREM DaemonTypeOK == Spec => []TypeOK
<1>1. Spec => []Typed
  BY InitTyped, NextTypes, PTL DEF Spec
<1> QED BY <1>1, TypedIsTypeOK, PTL

\* A client that sleeps and is not due has registered or sent its heartbeat in this
\* interval: its session has no age.
FreshInv ==
    \A c \in Client :
        /\ pc[c] = "sleep" /\ ~due[c]
        /\ conn[c] \in Daemon /\ session[c] \in DOMAIN sessions[conn[c]]
        => sessions[conn[c]][session[c]] = 0

\* Time passes for everybody at once: whoever sleeps is due then.
LEMMA NextFresh ==
  ASSUME Typed, Typed', FreshInv, [Next]_vars
  PROVE  FreshInv'
<1> USE LifetimeAssumption DEF Typed, Others, SessionsOK, FreshInv, Goto, Step, files,
        state, client, Restrict
<1>1. ASSUME NEW d \in Daemon, TryLock(d) PROVE FreshInv'
  BY <1>1 DEF TryLock
<1>2. ASSUME NEW d \in Daemon, CleanupStaleSocket(d) PROVE FreshInv'
  BY <1>2 DEF CleanupStaleSocket
<1>3. ASSUME NEW d \in Daemon, WritePidFile(d) PROVE FreshInv'
  BY <1>3 DEF WritePidFile
<1>4. ASSUME NEW d \in Daemon, Bind(d) PROVE FreshInv'
  BY <1>4 DEF Bind
<1>5. ASSUME NEW d \in Daemon, StartFails(d) PROVE FreshInv'
  BY <1>5 DEF StartFails, Count
<1>6. ASSUME NEW d \in Daemon, DropSingleton(d) PROVE FreshInv'
  BY <1>6, DropOrderFact DEF DropSingleton
<1>7. ASSUME NEW d \in Daemon, Exit(d) PROVE FreshInv'
  BY <1>7 DEF Exit, Gone, NoSession
<1>8. ASSUME NEW d \in Daemon, Kill(d) PROVE FreshInv'
  BY <1>8 DEF Kill, Gone, NoSession, Count
<1>9. ASSUME NEW d \in Daemon, Interrupt(d) PROVE FreshInv'
  BY <1>9 DEF Interrupt, EndServing, Count
<1>10. ASSUME NEW d \in Daemon, ReapExpiredSessions(d) PROVE FreshInv'
  BY <1>10 DEF ReapExpiredSessions
<1>11. ASSUME NEW d \in Daemon, CountSessions(d) PROVE FreshInv'
  BY <1>11 DEF CountSessions
<1>12. ASSUME NEW d \in Daemon, StayUp(d) PROVE FreshInv'
  BY <1>12 DEF StayUp
<1>13. ASSUME NEW d \in Daemon, SendShutdown(d) PROVE FreshInv'
  BY <1>13 DEF SendShutdown
<1>14. ASSUME NEW d \in Daemon, StopListening(d) PROVE FreshInv'
  BY <1>14 DEF StopListening, EndServing
<1>15. ASSUME NEW d \in Daemon, EndIndexing(d) PROVE FreshInv'
  BY <1>15 DEF EndIndexing
<1>16. ASSUME NEW c \in Client, ConnectOnce(c) PROVE FreshInv'
  BY <1>16 DEF ConnectOnce, Reachable
<1>17. ASSUME NEW c \in Client, ProbeAgain(c) PROVE FreshInv'
  BY <1>17 DEF ProbeAgain
<1>18. ASSUME NEW c \in Client, StartDaemon(c) PROVE FreshInv'
  BY <1>18 DEF StartDaemon
<1>19. ASSUME NEW c \in Client, StopPolling(c) PROVE FreshInv'
  BY <1>19 DEF StopPolling, Failed, Off
<1>20. ASSUME NEW c \in Client, ConnectionClosed(c) PROVE FreshInv'
  BY <1>20 DEF ConnectionClosed, Failed, Off
<1>21. ASSUME NEW c \in Client, RegisterClient(c) PROVE FreshInv'
  BY <1>21 DEF RegisterClient
<1>22. ASSUME NEW c \in Client, Heartbeat(c) PROVE FreshInv'
  BY <1>22 DEF Heartbeat
<1>23. ASSUME NEW c \in Client, NotAcknowledged(c) PROVE FreshInv'
  BY <1>23 DEF NotAcknowledged
<1>24. ASSUME NEW c \in Client, UnregisterClient(c) PROVE FreshInv'
  BY <1>24 DEF UnregisterClient, Off
<1>25. ASSUME NEW c \in Client, Begin(c) PROVE FreshInv'
  BY <1>25 DEF Begin, Request, Count
<1>26. ASSUME NEW c \in Client, Wake(c) PROVE FreshInv'
  BY <1>26 DEF Wake, Request
<1>27. ASSUME NEW c \in Client, Shutdown(c) PROVE FreshInv'
  BY <1>27 DEF Shutdown, Off, Request
<1>28. ASSUME NEW c \in Client, KillClient(c) PROVE FreshInv'
  BY <1>28 DEF KillClient, Off, Count
<1>29. ASSUME NEW c \in Client, BeginCall(c) PROVE FreshInv'
  BY <1>29 DEF BeginCall, Count
<1>30. ASSUME NEW c \in Client, EndCall(c) PROVE FreshInv'
  BY <1>30 DEF EndCall
<1>31. ASSUME Tick PROVE FreshInv'
  BY <1>31 DEF Tick
<1>32. CASE UNCHANGED vars
  BY <1>32 DEF vars
<1> QED
  BY <1>1, <1>2, <1>3, <1>4, <1>5, <1>6, <1>7, <1>8, <1>9, <1>10, <1>11, <1>12, <1>13,
     <1>14, <1>15, <1>16, <1>17, <1>18, <1>19, <1>20, <1>21, <1>22, <1>23, <1>24, <1>25,
     <1>26, <1>27, <1>28, <1>29, <1>30, <1>31, <1>32 DEF Next, DaemonStep, ClientStep

\* However many daemons and clients there are and whichever are killed, the reaper
\* expires no session of a client that has sent its heartbeats in time.
THEOREM SilentOnlyReaped == Spec => ReapsOnlySilent
<1> DEFINE Keeps(d, c) ==
       /\ ReapExpiredSessions(d)
       /\ conn[c] = d /\ session[c] \in DOMAIN sessions[d]
       /\ pc[c] = "sleep" /\ ~due[c]
       => session[c] \in DOMAIN sessions'[d]
<1>1. Init => FreshInv
  BY DEF Init, FreshInv
<1>2. Spec => [](Typed /\ FreshInv)
  BY InitTyped, NextTypes, <1>1, NextFresh, PTL DEF Spec
<1>3. ASSUME Typed, FreshInv
      PROVE  \A d \in Daemon, c \in Client : Keeps(d, c)
  BY <1>3, LifetimeAssumption DEF Typed, SessionsOK, FreshInv, ReapExpiredSessions, Restrict
<1>4. Typed /\ FreshInv => [\A d \in Daemon, c \in Client : Keeps(d, c)]_vars
  BY <1>3
<1> QED BY <1>2, <1>4, PTL DEF ReapsOnlySilent
=================================================================================
