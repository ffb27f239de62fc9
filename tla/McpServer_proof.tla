---------------------------- MODULE McpServer_proof ----------------------------
(***************************************************************************)
(* Types, OpenIsActive: what a server has open is the active generation,   *)
(* and NoChangeForgotten: a watcher at rest has the index of every edit    *)
(* that it was told of, for any number of servers, generations and edits,  *)
(* and any faults.                                                         *)
(*                                                                         *)
(* The writer lock of the active generation keeps the daemon and the       *)
(* servers apart: a daemon that has the project open holds that lock, and  *)
(* only such a daemon has a run, which is all that replaces the active     *)
(* generation once there is one (DaemonInv). A server has at most one      *)
(* backend open, in its cache or on the way there, so that what it puts    *)
(* into the cache is the active generation, and nothing is closed for it   *)
(* (KeepInv).                                                              *)
(*                                                                         *)
(* Of a watcher that counts on the refresh that was triggered, the run     *)
(* under way has yet to walk the tree, has walked past the last edit that  *)
(* the watcher was told of, or has made an index of it (ChangesInv):       *)
(* whichever server began that run, and whatever runs come after it.       *)
(***************************************************************************)
EXTENDS McpServer, TLAPS

Holds ==
    /\ holder \in [{Root} \cup Gen -> Servers \cup {Daemon, None}]
    /\ pointer \in Gen \cup {None}
    /\ made \in 0..MaxGen

DaemonHolds == project # None => project = pointer /\ holder[project] = Daemon

RunHasProject == run # "none" => project # None /\ made < MaxGen

DaemonInv == Holds /\ DaemonHolds /\ RunHasProject /\ OpenIsActive

LEMMA Names ==
    /\ None \notin Gen /\ None \notin Servers /\ None # Daemon /\ Daemon \notin Servers
    /\ Gen \subseteq Nat /\ Root \notin Gen /\ MaxGen \in Nat \ {0} /\ 1 \in Gen
BY McpServerAssumption DEF Gen, Root

\* A daemon that opens the project has its lock then, and nobody's lock is taken
\* from him; a run keeps what it needs.
LEMMA OpensKeeps ==
    ASSUME DaemonInv, Opens
    PROVE  /\ Holds' /\ DaemonHolds' /\ OpenIsActive' /\ project' # None
           /\ run # "none" => made' = made
<1>1. CASE project # None /\ UNCHANGED <<project, pointer, made, holder>>
    BY <1>1 DEF DaemonInv, Holds, DaemonHolds, OpenIsActive
<1>2. CASE /\ project = None /\ pointer # None /\ holder[pointer] = None
           /\ project' = pointer /\ holder' = [holder EXCEPT ![pointer] = Daemon]
           /\ UNCHANGED <<pointer, made>>
    <2>1. pointer \in Gen
        BY <1>2 DEF DaemonInv, Holds
    <2>2. Holds'
        BY <1>2 DEF DaemonInv, Holds
    <2>3. holder'[pointer] = Daemon
        BY <1>2, <2>1 DEF DaemonInv, Holds
    <2>4. OpenIsActive'
        BY <1>2, <2>1, Names DEF DaemonInv, Holds, OpenIsActive
    <2> QED BY <1>2, <2>2, <2>3, <2>4 DEF DaemonHolds
<1>3. CASE /\ project = None /\ pointer = None /\ made < MaxGen
           /\ made' = made + 1 /\ pointer' = made' /\ project' = made'
           /\ holder' = [holder EXCEPT ![made'] = Daemon]
    <2>1. made' \in Gen
        BY <1>3, McpServerAssumption DEF DaemonInv, Holds, Gen
    <2>2. \A m \in Servers, g \in Gen : holder[g] # m
        BY <1>3, Names DEF DaemonInv, OpenIsActive
    <2>3. Holds'
        BY <1>3, <2>1, McpServerAssumption DEF DaemonInv, Holds, Gen
    <2>4. holder'[made'] = Daemon
        BY <1>3, <2>1 DEF DaemonInv, Holds
    <2>5. OpenIsActive'
        BY <1>3, <2>1, <2>2, <2>4, Names DEF DaemonInv, Holds, OpenIsActive
    <2>6. run = "none"
        BY <1>3 DEF DaemonInv, RunHasProject
    <2> QED BY <1>3, <2>1, <2>3, <2>4, <2>5, <2>6, Names DEF DaemonHolds
<1> QED BY <1>1, <1>2, <1>3 DEF Opens

\* A request that begins a run does so for an open project.
LEMMA AskedKeeps ==
    ASSUME DaemonInv, Opens,
           run' = run \/ (run' = "staged" /\ made' < MaxGen)
    PROVE  DaemonInv'
BY OpensKeeps DEF DaemonInv, RunHasProject

LEMMA RemediatesKeeps ==
    ASSUME DaemonInv, Opens, Remediates
    PROVE  DaemonInv'
BY AskedKeeps DEF Remediates, Begins

LEMMA RequestKeeps ==
    ASSUME DaemonInv, Asked
    PROVE  DaemonInv'
BY AskedKeeps DEF Asked, Begins

LEMMA LocksKeep ==
    ASSUME DaemonInv, UNCHANGED <<pointer, made, holder, project>>, run' \in {run, "none"} \/ run # "none"
    PROVE  DaemonInv'
BY DEF DaemonInv, Holds, DaemonHolds, RunHasProject, OpenIsActive

LEMMA RefusesKeeps ==
    ASSUME DaemonInv, Refuses
    PROVE  DaemonInv'
BY LocksKeep DEF Refuses, daemon

LEMMA OpensBackendKeeps ==
    ASSUME DaemonInv, NEW m \in Servers, OpensBackend(m), UNCHANGED <<pointer, made, daemon>>
    PROVE  DaemonInv'
<1>1. pointer \in Gen /\ holder[pointer] = None
    BY DEF OpensBackend, CanOpen, DaemonInv, Holds
<1>2. project = None
    BY <1>1, Names DEF DaemonInv, DaemonHolds
<1>3. Holds'
    BY <1>1 DEF OpensBackend, DaemonInv, Holds, daemon
<1>4. OpenIsActive'
    BY <1>1 DEF OpensBackend, DaemonInv, Holds, OpenIsActive, daemon
<1> QED BY <1>2, <1>3, <1>4 DEF DaemonInv, DaemonHolds, RunHasProject, daemon

\* Locks that are given back by a server are not the daemon's.
LEMMA GivesBack ==
    ASSUME DaemonInv, UNCHANGED <<pointer, made, daemon>>,
           holder' \in [{Root} \cup Gen -> Servers \cup {Daemon, None}],
           \A g \in Gen : holder'[g] \in {holder[g], None},
           \A g \in Gen : holder[g] = Daemon => holder'[g] = Daemon
    PROVE  DaemonInv'
<1>1. Holds' /\ RunHasProject'
    BY DEF DaemonInv, Holds, RunHasProject, daemon
<1>2. DaemonHolds'
    BY Names DEF DaemonInv, Holds, DaemonHolds, daemon
<1>3. OpenIsActive'
    BY Names DEF DaemonInv, OpenIsActive
<1> QED BY <1>1, <1>2, <1>3 DEF DaemonInv

LEMMA HeldBy ==
    ASSUME Holds, NEW by
    PROVE  /\ Held(by) \in [{Root} \cup Gen -> Servers \cup {Daemon, None}]
           /\ \A i \in {Root} \cup Gen : Held(by)[i] = IF holder[i] = by THEN None ELSE holder[i]
BY DEF Holds, Held

\* A step of a server that opens a backend, or opens nothing.
LEMMA StepKeeps ==
    ASSUME DaemonInv, NEW m \in Servers, UNCHANGED <<pointer, made, daemon>>,
           OpensBackend(m) \/ UNCHANGED holder
    PROVE  DaemonInv'
BY OpensBackendKeeps, LocksKeep DEF daemon

-----------------------------------------------------------------------------
(* What a server keeps                                                      *)

KeepsInit(m) == pc[m].init \in {"insert", "keep"}
KeepsWatch(m) == pc[m].watch = "insert"
KeepsTool(m) == pc[m].tool = "keep"
Keeping(m) == KeepsInit(m) \/ KeepsWatch(m) \/ KeepsTool(m)

KeepOf(m) ==
    /\ cached[m] # None => holder[cached[m]] = m
    /\ Keeping(m) => pointer # None /\ holder[pointer] = m /\ cached[m] = None
    /\ ~(KeepsInit(m) /\ KeepsWatch(m)) /\ ~(KeepsInit(m) /\ KeepsTool(m))
    /\ ~(KeepsWatch(m) /\ KeepsTool(m))

\* A backend of a server that is in its cache is open, and one that is open and
\* not yet in it is the only one that the server has.
KeepInv == \A m \in Servers : KeepOf(m)

Steppers == pc \in [Servers -> Steps]

Rest ==
    /\ tree \in Edits
    /\ built \in [Gen -> Edits \cup {None}]
    /\ up \in BOOLEAN /\ tried \in BOOLEAN
    /\ project \in Gen \cup {None}
    /\ run \in {"none", "staged", "walked"} /\ walked \in Edits
    /\ reply \in [Servers -> Answers \cup {None}]
    /\ cached \in [Servers -> Gen \cup {None}]
    /\ inFlight \in [Servers -> BOOLEAN] /\ queued \in [Servers -> BOOLEAN]
    /\ event \in [Servers -> BOOLEAN] /\ refused \in [Servers -> BOOLEAN]
    /\ told \in [Servers -> Edits]

Inv == DaemonInv /\ Steppers /\ Rest /\ KeepInv

LEMMA Types == TypeOK <=> Holds /\ Steppers /\ Rest
BY DEF TypeOK, Holds, Steppers, Rest

LEMMA GotoInit ==
    ASSUME Steppers, NEW m \in Servers,
           NEW s \in {"off", "denied", "status", "resolve", "insert", "request", "start",
                      "health", "keep", "done"}, Goto(m, "init", s)
    PROVE  /\ Steppers'
           /\ pc'[m].init = s /\ pc'[m].watch = pc[m].watch /\ pc'[m].tool = pc[m].tool
           /\ \A n \in Servers : n # m => pc'[n] = pc[n]
BY DEF Steppers, Steps, Goto

LEMMA GotoWatch ==
    ASSUME Steppers, NEW m \in Servers,
           NEW s \in {"off", "idle", "answer", "resolve", "insert", "request"},
           Goto(m, "watch", s)
    PROVE  /\ Steppers'
           /\ pc'[m].init = pc[m].init /\ pc'[m].watch = s /\ pc'[m].tool = pc[m].tool
           /\ \A n \in Servers : n # m => pc'[n] = pc[n]
BY DEF Steppers, Steps, Goto

LEMMA GotoTool ==
    ASSUME Steppers, NEW m \in Servers, NEW s \in {"idle", "keep"}, Goto(m, "tool", s)
    PROVE  /\ Steppers'
           /\ pc'[m].init = pc[m].init /\ pc'[m].watch = pc[m].watch /\ pc'[m].tool = s
           /\ \A n \in Servers : n # m => pc'[n] = pc[n]
BY DEF Steppers, Steps, Goto

\* No server loses a lock, and the active generation stays what it is.
Grows ==
    /\ pointer # None => pointer' = pointer
    /\ \A g \in Gen, m \in Servers : holder[g] = m => holder'[g] = m

LEMMA OpensGrows ==
    ASSUME DaemonInv, Opens
    PROVE  Grows
<1>1. CASE UNCHANGED <<pointer, holder>>
    BY <1>1 DEF Grows
<1>2. CASE /\ pointer # None /\ holder[pointer] = None
           /\ holder' = [holder EXCEPT ![pointer] = Daemon] /\ UNCHANGED pointer
    BY <1>2, Names DEF Grows, DaemonInv, Holds
<1>3. CASE pointer = None
    BY <1>3, Names DEF Grows, DaemonInv, OpenIsActive
<1> QED BY <1>1, <1>2, <1>3 DEF Opens

LEMMA RefusesGrows ==
    ASSUME Refuses
    PROVE  Grows
BY DEF Refuses, Grows

\* A server that opens a backend has none: whatever it had would be the active
\* generation, which somebody has open then.
LEMMA OpensFirst ==
    ASSUME Inv, NEW m \in Servers, OpensBackend(m), UNCHANGED pointer
    PROVE  /\ Grows /\ cached[m] = None /\ ~Keeping(m)
           /\ pointer' # None /\ holder'[pointer'] = m
<1>1. pointer \in Gen /\ holder[pointer] = None
    BY DEF OpensBackend, CanOpen, Inv, DaemonInv, Holds
<1>2. cached[m] = None
    <2>1. SUFFICES ASSUME cached[m] # None PROVE FALSE
        OBVIOUS
    <2>2. cached[m] \in Gen /\ holder[cached[m]] = m
        BY <2>1 DEF Inv, Rest, KeepInv, KeepOf
    <2>3. cached[m] = pointer
        BY <2>2 DEF Inv, DaemonInv, OpenIsActive
    <2> QED BY <1>1, <2>2, <2>3, Names
<1>3. ~Keeping(m)
    BY <1>1, Names DEF Inv, KeepInv, KeepOf
<1>4. Grows /\ pointer' # None /\ holder'[pointer'] = m
    BY <1>1, Names DEF OpensBackend, Grows, Inv, DaemonInv, Holds
<1> QED BY <1>2, <1>3, <1>4

\* The backend that is put into the cache is the only one of its server, so no
\* other is closed.
LEMMA InsertsActive ==
    ASSUME Inv, NEW m \in Servers, Keeping(m), InsertsBackend(m)
    PROVE  /\ pointer \in Gen /\ holder[pointer] = m
           /\ cached' = [cached EXCEPT ![m] = pointer]
           /\ holder' = holder
<1>1. pointer \in Gen /\ holder[pointer] = m /\ cached[m] = None
    BY DEF Inv, DaemonInv, Holds, KeepInv, KeepOf
<1>2. {g \in Gen : holder[g] = m /\ g # cached[m]} = {pointer}
    BY <1>1, Names DEF Inv, DaemonInv, OpenIsActive
<1>3. (CHOOSE g \in {pointer} : TRUE) = pointer
    OBVIOUS
<1>4. cached' = [cached EXCEPT ![m] = pointer]
    BY <1>2, <1>3 DEF InsertsBackend
<1>5. \A i \in {Root} \cup Gen : i # None
    BY McpServerAssumption, Names DEF Root, Gen
<1>6. holder' = holder
    BY <1>1, <1>5 DEF InsertsBackend, Inv, DaemonInv, Holds
<1> QED BY <1>1, <1>4, <1>6

\* What others do leaves a server what it keeps.
LEMMA KeepsOn ==
    ASSUME Inv, Grows, NEW m \in Servers, cached'[m] = cached[m],
           KeepsInit(m)' => KeepsInit(m), KeepsWatch(m)' => KeepsWatch(m),
           KeepsTool(m)' => KeepsTool(m)
    PROVE  KeepOf(m)'
<1>1. KeepOf(m) /\ cached[m] \in Gen \cup {None} /\ pointer \in Gen \cup {None}
    BY DEF Inv, KeepInv, Rest, DaemonInv, Holds
<1>2. (cached[m] # None => holder[cached[m]] = m)'
    BY <1>1 DEF KeepOf, Grows
<1>3. (Keeping(m) => pointer # None /\ holder[pointer] = m /\ cached[m] = None)'
    BY <1>1 DEF KeepOf, Keeping, Grows
<1> QED BY <1>1, <1>2, <1>3 DEF KeepOf

LEMMA OthersKeepOn ==
    ASSUME Inv, Grows, NEW m \in Servers, KeepOf(m)',
           \A n \in Servers : n # m => pc'[n] = pc[n] /\ cached'[n] = cached[n]
    PROVE  KeepInv'
<1>1. ASSUME NEW n \in Servers, n # m
      PROVE  KeepOf(n)'
    BY <1>1, KeepsOn DEF KeepsInit, KeepsWatch, KeepsTool
<1> QED BY <1>1 DEF KeepInv

\* A task that has just opened a backend is the one that keeps it.
LEMMA OpenerKeeps ==
    ASSUME Inv, NEW m \in Servers, OpensBackend(m), UNCHANGED <<pointer, cached>>,
           \/ ~KeepsWatch(m)' /\ ~KeepsTool(m)'
           \/ ~KeepsInit(m)' /\ ~KeepsTool(m)'
           \/ ~KeepsInit(m)' /\ ~KeepsWatch(m)'
    PROVE  KeepOf(m)' /\ Grows
BY OpensFirst DEF KeepOf

-----------------------------------------------------------------------------
(* The steps                                                                *)

\* A backend that goes into the cache: the task that kept it keeps it no longer.
LEMMA CachedKeeps ==
    ASSUME Inv, NEW m \in Servers, Keeping(m), InsertsBackend(m), Steppers',
           UNCHANGED <<tree, pointer, made, built, daemon, queue, reply>>,
           \A n \in Servers : n # m => pc'[n] = pc[n],
           ~Keeping(m)'
    PROVE  Inv'
<1>1. /\ pointer \in Gen /\ holder[pointer] = m
      /\ cached' = [cached EXCEPT ![m] = pointer] /\ holder' = holder
    BY InsertsActive
<1>2. DaemonInv'
    BY <1>1, LocksKeep DEF Inv, daemon
<1>3. Rest'
    BY <1>1 DEF Inv, Rest, daemon, queue
<1>4. Grows
    BY <1>1 DEF Grows
<1>5. cached'[m] = pointer
    BY <1>1 DEF Inv, Rest
<1>6. KeepOf(m)'
    BY <1>1, <1>5, Names DEF KeepOf, Keeping
<1>7. \A n \in Servers : n # m => cached'[n] = cached[n]
    BY <1>1 DEF Inv, Rest
<1> QED BY <1>2, <1>3, <1>4, <1>6, <1>7, OthersKeepOn DEF Inv

\* A step in which no server takes a lock to keep.
LEMMA NoneKeeps ==
    ASSUME Inv, Grows, UNCHANGED cached,
           \A m \in Servers : /\ KeepsInit(m)' => KeepsInit(m)
                              /\ KeepsWatch(m)' => KeepsWatch(m)
                              /\ KeepsTool(m)' => KeepsTool(m)
    PROVE  KeepInv'
BY KeepsOn DEF KeepInv

LEMMA StatusIsAnswer == Status \in Answers
BY DEF Status, Answers, Chunks, Stale

LEMMA EditStep ==
    ASSUME Inv, Edit
    PROVE  Inv'
<1>1. DaemonInv'
    BY LocksKeep DEF Inv, Edit, daemon
<1>2. Steppers'
    BY DEF Inv, Steppers, Edit, server
<1>3. Rest'
    BY McpServerAssumption DEF Inv, Rest, Edit, Edits, daemon, server, Chunks
<1>4. KeepInv'
    BY NoneKeeps DEF Edit, Grows, server, KeepsInit, KeepsWatch, KeepsTool
<1> QED BY <1>1, <1>2, <1>3, <1>4 DEF Inv

LEMMA WalkStep ==
    ASSUME Inv, Walk
    PROVE  Inv'
<1>1. DaemonInv'
    BY DEF Inv, DaemonInv, Holds, DaemonHolds, RunHasProject, OpenIsActive, Walk, disk
<1>2. Steppers'
    BY DEF Inv, Steppers, Walk, server
<1>3. Rest'
    BY DEF Inv, Rest, Walk, disk, queue, server
<1>4. KeepInv'
    BY NoneKeeps DEF Walk, disk, Grows, server, KeepsInit, KeepsWatch, KeepsTool
<1> QED BY <1>1, <1>2, <1>3, <1>4 DEF Inv

\* The daemon has the active generation open when it replaces it, so that no
\* server has one.
LEMMA PromoteStep ==
    ASSUME Inv, Promote
    PROVE  Inv'
<1>1. /\ pointer \in Gen /\ holder[pointer] = Daemon /\ made < MaxGen
    BY Names DEF Inv, Rest, DaemonInv, DaemonHolds, RunHasProject, Promote
<1>2. /\ made' \in Gen /\ pointer' = made' /\ project' = made'
    BY <1>1, McpServerAssumption DEF Promote, Inv, DaemonInv, Holds, Gen
<1>3. \A m \in Servers, g \in Gen : holder[g] # m
    BY <1>1, Names DEF Inv, DaemonInv, OpenIsActive
<1>4. holder' \in [{Root} \cup Gen -> Servers \cup {Daemon, None}]
    BY <1>2, HeldBy DEF Promote, Inv, DaemonInv
<1>5. holder'[made'] = Daemon /\ \A g \in Gen : g # made' => holder'[g] \in {holder[g], None}
    BY <1>2, HeldBy DEF Promote, Inv, DaemonInv
<1>6. DaemonInv'
    <2>1. Holds'
        BY <1>1, <1>2, <1>4, McpServerAssumption DEF Inv, DaemonInv, Holds, Gen
    <2>2. DaemonHolds'
        BY <1>2, <1>5 DEF DaemonHolds
    <2>3. RunHasProject'
        BY DEF Promote, RunHasProject
    <2>4. OpenIsActive'
        BY <1>3, <1>5, Names DEF OpenIsActive
    <2> QED BY <2>1, <2>2, <2>3, <2>4 DEF DaemonInv
<1>7. Steppers'
    BY DEF Inv, Steppers, Promote, server
<1>8. Rest'
    BY <1>2 DEF Inv, Rest, Promote, queue, server
<1>9. KeepInv'
    <2>1. ASSUME NEW m \in Servers
          PROVE  cached[m] = None /\ ~Keeping(m)
        BY <1>1, <1>3 DEF Inv, KeepInv, KeepOf, Rest
    <2> QED BY <2>1 DEF KeepInv, KeepOf, Keeping, KeepsInit, KeepsWatch, KeepsTool,
                        Promote, server
<1> QED BY <1>6, <1>7, <1>8, <1>9 DEF Inv

LEMMA RunFailsStep ==
    ASSUME Inv, RunFails
    PROVE  Inv'
<1>1. DaemonInv'
    BY LocksKeep DEF Inv, RunFails, disk
<1>2. Steppers'
    BY DEF Inv, Steppers, RunFails, server
<1>3. Rest'
    BY DEF Inv, Rest, RunFails, Lost, disk, server
<1>4. KeepInv'
    BY NoneKeeps DEF RunFails, disk, Grows, server, KeepsInit, KeepsWatch, KeepsTool
<1> QED BY <1>1, <1>2, <1>3, <1>4 DEF Inv

LEMMA DaemonKilledStep ==
    ASSUME Inv, DaemonKilled
    PROVE  Inv'
<1>1. /\ holder' \in [{Root} \cup Gen -> Servers \cup {Daemon, None}]
      /\ \A g \in Gen : holder'[g] = IF holder[g] = Daemon THEN None ELSE holder[g]
    BY HeldBy DEF DaemonKilled, Inv, DaemonInv
<1>2. DaemonInv'
    BY <1>1, Names DEF DaemonKilled, Inv, DaemonInv, Holds, DaemonHolds, RunHasProject,
                       OpenIsActive
<1>3. Steppers'
    BY DEF Inv, Steppers, DaemonKilled, server
<1>4. Rest'
    BY DEF Inv, Rest, DaemonKilled, Lost, server
<1>5. Grows
    BY <1>1, Names DEF Grows, DaemonKilled
<1>6. KeepInv'
    BY <1>5, NoneKeeps DEF DaemonKilled, server, KeepsInit, KeepsWatch, KeepsTool
<1> QED BY <1>2, <1>3, <1>4, <1>6 DEF Inv

LEMMA StartStep ==
    ASSUME Inv, NEW m \in Servers, Start(m)
    PROVE  Inv'
<1>1. /\ Steppers' /\ pc'[m].watch = pc[m].watch /\ pc'[m].tool = pc[m].tool
      /\ pc'[m].init \in {"status", "denied"}
      /\ \A n \in Servers : n # m => pc'[n] = pc[n]
    BY GotoInit DEF Start, Inv
<1>2. /\ holder' \in [{Root} \cup Gen -> Servers \cup {Daemon, None}]
      /\ \A g \in Gen : holder'[g] = holder[g]
    BY Names DEF Start, Inv, DaemonInv, Holds
<1>3. DaemonInv'
    BY <1>2, GivesBack DEF Start, Inv
<1>4. Rest'
    BY DEF Start, Inv, Rest, daemon, queue
<1>5. Grows
    BY <1>2 DEF Grows, Start
<1>6. KeepInv'
    BY <1>1, <1>5, NoneKeeps DEF Start, KeepsInit, KeepsWatch, KeepsTool
<1> QED BY <1>1, <1>3, <1>4, <1>6 DEF Inv

LEMMA StopStep ==
    ASSUME Inv, NEW m \in Servers, Stop(m)
    PROVE  Inv'
<1>1. /\ Steppers' /\ pc'[m] = Off
      /\ \A n \in Servers : n # m => pc'[n] = pc[n]
    BY DEF Stop, Inv, Steppers, Steps, Off
<1>2. /\ holder' \in [{Root} \cup Gen -> Servers \cup {Daemon, None}]
      /\ \A g \in Gen : holder'[g] = IF holder[g] = m THEN None ELSE holder[g]
    BY HeldBy DEF Stop, Inv, DaemonInv
<1>3. DaemonInv'
    BY <1>2, GivesBack, Names DEF Stop, Inv
<1>4. Rest'
    BY DEF Stop, Inv, Rest, daemon
<1>5. cached'[m] = None /\ \A n \in Servers : n # m => cached'[n] = cached[n]
    BY DEF Stop, Inv, Rest
<1>6. KeepOf(m)'
    BY <1>1, <1>5 DEF KeepOf, Keeping, KeepsInit, KeepsWatch, KeepsTool, Off
<1>7. ASSUME NEW n \in Servers, n # m
      PROVE  KeepOf(n)'
    <2>1. KeepOf(n) /\ pc'[n] = pc[n] /\ cached'[n] = cached[n] /\ pointer' = pointer
        BY <1>1, <1>5, <1>7 DEF Inv, KeepInv, Stop
    <2>2. cached[n] \in Gen \cup {None} /\ pointer \in Gen \cup {None}
        BY DEF Inv, Rest, DaemonInv, Holds
    <2> QED BY <1>2, <1>7, <2>1, <2>2 DEF KeepOf, Keeping, KeepsInit, KeepsWatch, KeepsTool
<1> QED BY <1>1, <1>3, <1>4, <1>6, <1>7 DEF Inv, KeepInv

LEMMA ToolOpensStep ==
    ASSUME Inv, NEW m \in Servers, ToolOpens(m)
    PROVE  Inv'
<1>1. /\ Steppers' /\ pc'[m].init = pc[m].init /\ pc'[m].watch = pc[m].watch
      /\ \A n \in Servers : n # m => pc'[n] = pc[n]
    BY GotoTool DEF ToolOpens, Inv
<1>2. DaemonInv'
    BY StepKeeps DEF ToolOpens, Inv
<1>3. Rest'
    BY DEF ToolOpens, Inv, Rest, daemon, queue
<1>4. OpensBackend(m) /\ UNCHANGED <<pointer, cached>>
    BY DEF ToolOpens
<1>5. ~KeepsInit(m)' /\ ~KeepsWatch(m)'
    BY <1>1, <1>4, OpensFirst DEF Keeping, KeepsInit, KeepsWatch
<1>6. KeepInv'
    BY <1>1, <1>4, <1>5, OpenerKeeps, OthersKeepOn
<1> QED BY <1>1, <1>2, <1>3, <1>6 DEF Inv

LEMMA ToolKeepsStep ==
    ASSUME Inv, NEW m \in Servers, ToolKeeps(m)
    PROVE  Inv'
<1>1. KeepsTool(m) /\ KeepOf(m)
    BY DEF ToolKeeps, Keeps, KeepsTool, Inv, KeepInv
<1>2. /\ Steppers' /\ pc'[m].init = pc[m].init /\ pc'[m].watch = pc[m].watch
      /\ pc'[m].tool = "idle" /\ \A n \in Servers : n # m => pc'[n] = pc[n]
    BY GotoTool DEF ToolKeeps, Keeps, Inv
<1>3. ~Keeping(m)'
    BY <1>1, <1>2 DEF KeepOf, Keeping, KeepsInit, KeepsWatch, KeepsTool
<1> QED BY <1>1, <1>2, <1>3, CachedKeeps DEF ToolKeeps, Keeps, Keeping

LEMMA InitKeepsStep ==
    ASSUME Inv, NEW m \in Servers, NEW from \in {"insert", "keep"},
           NEW to \in {"request", "done"}, Keeps(m, "init", from, to)
    PROVE  Inv'
<1>1. KeepsInit(m) /\ KeepOf(m)
    BY DEF Keeps, KeepsInit, Inv, KeepInv
<1>2. /\ Steppers' /\ pc'[m].init = to /\ pc'[m].watch = pc[m].watch
      /\ pc'[m].tool = pc[m].tool /\ \A n \in Servers : n # m => pc'[n] = pc[n]
    BY GotoInit DEF Keeps, Inv
<1>3. ~Keeping(m)'
    BY <1>1, <1>2 DEF KeepOf, Keeping, KeepsInit, KeepsWatch, KeepsTool
<1> QED BY <1>1, <1>2, <1>3, CachedKeeps DEF Keeps, Keeping

LEMMA TriggerInsertsStep ==
    ASSUME Inv, NEW m \in Servers, TriggerInserts(m)
    PROVE  Inv'
<1>1. KeepsWatch(m) /\ KeepOf(m)
    BY DEF TriggerInserts, Keeps, KeepsWatch, Inv, KeepInv
<1>2. /\ Steppers' /\ pc'[m].init = pc[m].init /\ pc'[m].watch = "resolve"
      /\ pc'[m].tool = pc[m].tool /\ \A n \in Servers : n # m => pc'[n] = pc[n]
    BY GotoWatch DEF TriggerInserts, Keeps, Inv
<1>3. ~Keeping(m)'
    BY <1>1, <1>2 DEF KeepOf, Keeping, KeepsInit, KeepsWatch, KeepsTool
<1> QED BY <1>1, <1>2, <1>3, CachedKeeps DEF TriggerInserts, Keeps, Keeping

LEMMA AutoAsksStep ==
    ASSUME Inv, NEW m \in Servers, AutoAsks(m)
    PROVE  Inv'
<1>1. /\ Steppers' /\ pc'[m].init \in {"resolve", "start"}
      /\ pc'[m].watch = pc[m].watch /\ pc'[m].tool = pc[m].tool
      /\ \A n \in Servers : n # m => pc'[n] = pc[n]
    BY GotoInit DEF AutoAsks, Inv
<1>2. DaemonInv' /\ Grows
    BY RemediatesKeeps, RefusesKeeps, OpensGrows, RefusesGrows DEF AutoAsks, Inv
<1>3. up' \in BOOLEAN /\ tried' \in BOOLEAN /\ run' \in {"none", "staged", "walked"}
    BY DEF AutoAsks, Inv, Rest, Opens, Remediates, Begins, Refuses, daemon
<1>4. project' \in Gen \cup {None}
    BY <1>2 DEF DaemonInv, DaemonHolds, Holds
<1>5. reply' \in [Servers -> Answers \cup {None}]
    BY StatusIsAnswer DEF AutoAsks, Inv, Rest
<1>6. Rest'
    BY <1>3, <1>4, <1>5 DEF AutoAsks, Inv, Rest, queue, Refuses, daemon
<1>7. KeepInv'
    BY <1>1, <1>2, NoneKeeps DEF AutoAsks, KeepsInit, KeepsWatch, KeepsTool
<1> QED BY <1>1, <1>2, <1>6, <1>7 DEF Inv

\* A task of a server that is to keep a backend has opened it.
LEMMA InitMayOpen ==
    ASSUME Inv, NEW m \in Servers, UNCHANGED <<pointer, made, daemon, cached>>,
           NEW s \in {"insert", "keep", "start", "request", "done"}, Goto(m, "init", s),
           \/ OpensBackend(m)
           \/ UNCHANGED holder /\ s \in {"start", "request", "done"}
    PROVE  DaemonInv' /\ Steppers' /\ KeepInv'
<1>1. /\ Steppers' /\ pc'[m].init = s /\ pc'[m].watch = pc[m].watch
      /\ pc'[m].tool = pc[m].tool /\ \A n \in Servers : n # m => pc'[n] = pc[n]
    BY GotoInit DEF Inv
<1>2. DaemonInv'
    BY StepKeeps DEF Inv
<1>3. CASE OpensBackend(m)
    <2>1. ~KeepsWatch(m)' /\ ~KeepsTool(m)'
        BY <1>1, <1>3, OpensFirst DEF Keeping, KeepsWatch, KeepsTool
    <2> QED BY <1>1, <1>2, <1>3, <2>1, OpenerKeeps, OthersKeepOn
<1>4. CASE UNCHANGED holder /\ s \in {"start", "request", "done"}
    BY <1>1, <1>2, <1>4, NoneKeeps DEF Grows, KeepsInit, KeepsWatch, KeepsTool
<1> QED BY <1>3, <1>4

LEMMA AutoResolvesStep ==
    ASSUME Inv, NEW m \in Servers, AutoResolves(m)
    PROVE  Inv'
<1>1. /\ UNCHANGED <<tree, pointer, made, built, daemon, queue, cached>>
      /\ reply' = [reply EXCEPT ![m] = None]
    BY DEF AutoResolves
<1>2. \E s \in {"insert", "keep", "start", "request", "done"} :
         /\ Goto(m, "init", s)
         /\ \/ OpensBackend(m)
            \/ UNCHANGED holder /\ s \in {"start", "request", "done"}
    BY DEF AutoResolves
<1>3. DaemonInv' /\ Steppers' /\ KeepInv'
    BY <1>1, <1>2, InitMayOpen
<1>4. Rest'
    BY <1>1 DEF Inv, Rest, daemon, queue
<1> QED BY <1>3, <1>4 DEF Inv

LEMMA HealthCheckStep ==
    ASSUME Inv, NEW m \in Servers, HealthCheck(m)
    PROVE  Inv'
<1>1. UNCHANGED <<tree, pointer, made, built, daemon, queue, reply, cached>>
    BY DEF HealthCheck
<1>2. \E s \in {"insert", "keep", "start", "request", "done"} :
         /\ Goto(m, "init", s)
         /\ \/ OpensBackend(m)
            \/ UNCHANGED holder /\ s \in {"start", "request", "done"}
    BY DEF HealthCheck
<1>3. DaemonInv' /\ Steppers' /\ KeepInv'
    BY <1>1, <1>2, InitMayOpen
<1>4. Rest'
    BY <1>1 DEF Inv, Rest, daemon, queue
<1> QED BY <1>3, <1>4 DEF Inv

LEMMA AutoRequestsStep ==
    ASSUME Inv, NEW m \in Servers, AutoRequests(m)
    PROVE  Inv'
<1>1. /\ Steppers' /\ pc'[m].init = "start"
      /\ pc'[m].watch = pc[m].watch /\ pc'[m].tool = pc[m].tool
      /\ \A n \in Servers : n # m => pc'[n] = pc[n]
    BY GotoInit DEF AutoRequests, Inv
<1>2. DaemonInv' /\ Grows
    BY RequestKeeps, RefusesKeeps, OpensGrows, RefusesGrows DEF AutoRequests, Asked, Inv
<1>3. /\ up' \in BOOLEAN /\ tried' \in BOOLEAN
      /\ run' \in {"none", "staged", "walked"} /\ walked' \in Edits
    BY DEF AutoRequests, Inv, Rest, Asked, Opens, Begins, Refuses, daemon
<1>4. project' \in Gen \cup {None}
    BY <1>2 DEF DaemonInv, DaemonHolds, Holds
<1>5. Rest'
    BY <1>3, <1>4 DEF AutoRequests, Inv, Rest, queue
<1>6. KeepInv'
    BY <1>1, <1>2, NoneKeeps DEF AutoRequests, KeepsInit, KeepsWatch, KeepsTool
<1> QED BY <1>1, <1>2, <1>5, <1>6 DEF Inv

LEMMA StartWatcherStep ==
    ASSUME Inv, NEW m \in Servers, StartWatcher(m)
    PROVE  Inv'
<1>1. /\ Steppers' /\ pc'[m].init = "health" /\ pc'[m].watch = "idle"
      /\ pc'[m].tool = pc[m].tool /\ \A n \in Servers : n # m => pc'[n] = pc[n]
    BY DEF StartWatcher, Inv, Steppers, Steps
<1>2. DaemonInv'
    BY LocksKeep DEF StartWatcher, Inv, disk, daemon
<1>3. Rest'
    BY McpServerAssumption DEF StartWatcher, Inv, Rest, disk, daemon, Edits
<1>4. KeepInv'
    BY <1>1, NoneKeeps DEF StartWatcher, disk, Grows, KeepsInit, KeepsWatch, KeepsTool
<1> QED BY <1>1, <1>2, <1>3, <1>4 DEF Inv

\* A step of the watcher that opens nothing and asks the daemon for nothing.
LEMMA WatcherMoves ==
    ASSUME Inv, NEW m \in Servers, UNCHANGED <<disk, daemon, cached>>,
           \/ UNCHANGED pc
           \/ Goto(m, "watch", "idle") \/ Goto(m, "watch", "resolve")
    PROVE  DaemonInv' /\ Steppers' /\ KeepInv'
<1>1. DaemonInv'
    BY LocksKeep DEF Inv, disk, daemon
<1>2. Grows
    BY DEF Grows, disk
<1>3. CASE UNCHANGED pc
    BY <1>1, <1>2, <1>3, NoneKeeps DEF Inv, Steppers, KeepsInit, KeepsWatch, KeepsTool
<1>4. CASE Goto(m, "watch", "idle") \/ Goto(m, "watch", "resolve")
    <2>1. /\ Steppers' /\ pc'[m].watch \in {"idle", "resolve"}
          /\ pc'[m].init = pc[m].init /\ pc'[m].tool = pc[m].tool
          /\ \A n \in Servers : n # m => pc'[n] = pc[n]
        BY <1>4, GotoWatch DEF Inv
    <2> QED BY <1>1, <1>2, <2>1, NoneKeeps DEF KeepsInit, KeepsWatch, KeepsTool
<1> QED BY <1>3, <1>4

LEMMA OnChangeStep ==
    ASSUME Inv, NEW m \in Servers, OnChange(m)
    PROVE  Inv'
<1>1. DaemonInv' /\ Steppers' /\ KeepInv'
    BY WatcherMoves DEF OnChange
<1>2. Rest'
    BY DEF OnChange, Inv, Rest, disk, daemon
<1> QED BY <1>1, <1>2 DEF Inv

LEMMA PollAnsweredStep ==
    ASSUME Inv, NEW m \in Servers, PollAnswered(m)
    PROVE  Inv'
<1>1. DaemonInv' /\ Steppers' /\ KeepInv'
    BY WatcherMoves DEF PollAnswered
<1>2. inFlight' \in [Servers -> BOOLEAN] /\ queued' \in [Servers -> BOOLEAN]
    BY DEF PollAnswered, Inv, Rest
<1>3. reply' \in [Servers -> Answers \cup {None}]
    BY DEF PollAnswered, Inv, Rest
<1>4. Rest'
    BY <1>2, <1>3 DEF PollAnswered, Inv, Rest, disk, daemon
<1> QED BY <1>1, <1>4 DEF Inv

LEMMA TriggerResolvesStep ==
    ASSUME Inv, NEW m \in Servers, TriggerResolves(m)
    PROVE  Inv'
<1>1. UNCHANGED <<tree, pointer, made, built, daemon, inFlight, queued, event, told,
                  reply, cached>>
    BY DEF TriggerResolves
<1>2. Rest'
    BY <1>1 DEF TriggerResolves, GivesUp, Inv, Rest, daemon
<1>3. \/ OpensBackend(m) /\ Goto(m, "watch", "insert")
      \/ UNCHANGED holder /\ (Goto(m, "watch", "idle") \/ Goto(m, "watch", "request"))
    BY DEF TriggerResolves, GivesUp
<1>4. /\ Steppers' /\ pc'[m].init = pc[m].init /\ pc'[m].tool = pc[m].tool
      /\ \/ OpensBackend(m)
         \/ UNCHANGED holder /\ pc'[m].watch # "insert"
      /\ \A n \in Servers : n # m => pc'[n] = pc[n]
    BY <1>3, GotoWatch DEF Inv
<1>5. DaemonInv'
    BY <1>1, <1>4, StepKeeps DEF Inv
<1>6. CASE OpensBackend(m)
    <2>1. ~KeepsInit(m)' /\ ~KeepsTool(m)'
        BY <1>1, <1>4, <1>6, OpensFirst DEF Keeping, KeepsInit, KeepsTool
    <2> QED BY <1>1, <1>2, <1>4, <1>5, <1>6, <2>1, OpenerKeeps, OthersKeepOn DEF Inv
<1>7. CASE UNCHANGED holder /\ pc'[m].watch # "insert"
    <2>1. KeepInv'
        BY <1>1, <1>4, <1>7, NoneKeeps DEF Grows, KeepsInit, KeepsWatch, KeepsTool
    <2> QED BY <1>2, <1>4, <1>5, <2>1 DEF Inv
<1> QED BY <1>4, <1>6, <1>7

LEMMA TriggerRequestsStep ==
    ASSUME Inv, NEW m \in Servers, TriggerRequests(m)
    PROVE  Inv'
<1>1. /\ Steppers' /\ pc'[m].watch = "idle"
      /\ pc'[m].init = pc[m].init /\ pc'[m].tool = pc[m].tool
      /\ \A n \in Servers : n # m => pc'[n] = pc[n]
    BY GotoWatch DEF TriggerRequests, GivesUp, Inv
<1>2. DaemonInv' /\ Grows
    BY RequestKeeps, RefusesKeeps, OpensGrows, RefusesGrows DEF TriggerRequests, Asked, Inv
<1>3. /\ up' \in BOOLEAN /\ tried' \in BOOLEAN
      /\ run' \in {"none", "staged", "walked"} /\ walked' \in Edits
    BY DEF TriggerRequests, Inv, Rest, Asked, Opens, Begins, Refuses, daemon
<1>4. project' \in Gen \cup {None}
    BY <1>2 DEF DaemonInv, DaemonHolds, Holds
<1>5. inFlight' \in [Servers -> BOOLEAN] /\ refused' \in [Servers -> BOOLEAN]
    BY DEF TriggerRequests, GivesUp, Inv, Rest
<1>6. Rest'
    BY <1>3, <1>4, <1>5 DEF TriggerRequests, Inv, Rest
<1>7. KeepInv'
    BY <1>1, <1>2, NoneKeeps DEF TriggerRequests, KeepsInit, KeepsWatch, KeepsTool
<1> QED BY <1>1, <1>2, <1>6, <1>7 DEF Inv

LEMMA PollAsksStep ==
    ASSUME Inv, NEW m \in Servers, PollAsks(m)
    PROVE  Inv'
<1>1. /\ Steppers' /\ pc'[m].watch = "answer"
      /\ pc'[m].init = pc[m].init /\ pc'[m].tool = pc[m].tool
      /\ \A n \in Servers : n # m => pc'[n] = pc[n]
    BY GotoWatch DEF PollAsks, Inv
<1>2. DaemonInv' /\ Grows
    BY RemediatesKeeps, OpensGrows DEF PollAsks, Inv
<1>3. up' \in BOOLEAN /\ tried' \in BOOLEAN /\ run' \in {"none", "staged", "walked"}
    BY DEF PollAsks, Inv, Rest, Opens, Remediates, Begins
<1>4. project' \in Gen \cup {None}
    BY <1>2 DEF DaemonInv, DaemonHolds, Holds
<1>5. reply' \in [Servers -> Answers \cup {None}]
    BY StatusIsAnswer DEF PollAsks, Inv, Rest
<1>6. Rest'
    BY <1>3, <1>4, <1>5 DEF PollAsks, Inv, Rest, queue
<1>7. KeepInv'
    BY <1>1, <1>2, NoneKeeps DEF PollAsks, KeepsInit, KeepsWatch, KeepsTool
<1> QED BY <1>1, <1>2, <1>6, <1>7 DEF Inv

-----------------------------------------------------------------------------
(* What a watcher was told of                                               *)

\* The edits that the active generation has seen
Seen == IF pointer # None /\ Chunks(pointer) THEN built[pointer] ELSE 0

\* The run under way, or else the active generation, has what a watcher was told.
Covered(m) ==
    \/ run = "staged"
    \/ run = "walked" /\ told[m] <= walked
    \/ run = "none" /\ told[m] <= Seen

\* A watcher that counts on it: at rest or at the poll, with no refresh queued
\* behind the one in flight.
CountsOnIt(m) ==
    /\ pc[m].watch \in {"idle", "answer"}
    /\ ~refused[m] /\ ~(inFlight[m] /\ queued[m])

ChangesInv ==
    /\ \A g \in Gen : g > made => built[g] = None
    /\ \A m \in Servers : told[m] <= tree /\ (CountsOnIt(m) => Covered(m))

\* A step after which the daemon has no less: it begins a run at most, and a
\* generation that becomes the active one is the first, which is empty.
Steady ==
    /\ UNCHANGED <<built, walked>>
    /\ run' = run \/ (run = "none" /\ run' = "staged")
    /\ made' \in Nat /\ made <= made'
    /\ pointer' = pointer \/ (pointer = None /\ pointer' \in Gen /\ built[pointer'] = None)

LEMMA OpensSteady ==
    ASSUME Inv, ChangesInv, Opens, UNCHANGED <<built, walked>>,
           run' = run \/ (run = "none" /\ run' = "staged")
    PROVE  Steady
<1>1. made \in Nat
    BY McpServerAssumption DEF Inv, DaemonInv, Holds
<1>2. CASE UNCHANGED <<pointer, made>>
    BY <1>1, <1>2 DEF Steady
<1>3. CASE /\ pointer = None /\ made < MaxGen
           /\ made' = made + 1 /\ pointer' = made'
    <2>1. pointer' \in Gen /\ pointer' > made /\ made <= made'
        BY <1>1, <1>3, McpServerAssumption DEF Gen
    <2> QED BY <1>1, <1>3, <2>1 DEF Steady, ChangesInv
<1> QED BY <1>2, <1>3 DEF Opens

LEMMA RemediatesSteady ==
    ASSUME Inv, ChangesInv, Opens, Remediates, UNCHANGED <<built, walked>>
    PROVE  Steady
BY OpensSteady DEF Remediates, Begins

LEMMA AskedSteady ==
    ASSUME Inv, ChangesInv, Asked, UNCHANGED built
    PROVE  Steady
BY OpensSteady DEF Asked, Begins

LEMMA RestSteady ==
    ASSUME Inv, UNCHANGED <<pointer, made, built, walked, run>>
    PROVE  Steady
BY McpServerAssumption DEF Steady, Inv, DaemonInv, Holds

LEMMA RefusesSteady ==
    ASSUME Inv, Refuses, UNCHANGED built
    PROVE  Steady
BY RestSteady DEF Refuses, daemon

\* What was covered stays so.
LEMMA CoveredStays ==
    ASSUME Inv, Steady, NEW m \in Servers, told'[m] = told[m], Covered(m)
    PROVE  Covered(m)'
<1>1. told[m] <= Seen => told'[m] <= Seen'
    <2>1. CASE pointer' = pointer
        BY <2>1 DEF Steady, Seen, Chunks
    <2>2. CASE pointer = None /\ pointer' \in Gen /\ built[pointer'] = None
        BY <2>2 DEF Steady, Seen, Chunks
    <2> QED BY <2>1, <2>2 DEF Steady
<1> QED BY <1>1 DEF Covered, Steady

Same(m) ==
    /\ pc'[m].watch = pc[m].watch
    /\ refused'[m] = refused[m] /\ told'[m] = told[m]
    /\ inFlight'[m] = inFlight[m] /\ queued'[m] = queued[m]

\* A step of the watcher of m, or of nobody's watcher.
LEMMA WatcherStep ==
    ASSUME Inv, ChangesInv, Steady, tree' \in Nat, tree <= tree',
           NEW m \in Servers, \A n \in Servers : n # m => Same(n),
           told'[m] <= tree', CountsOnIt(m)' => Covered(m)'
    PROVE  ChangesInv'
<1>1. \A g \in Gen : g > made' => built'[g] = None
    BY McpServerAssumption DEF Steady, ChangesInv, Gen, Inv, DaemonInv, Holds
<1>2. ASSUME NEW n \in Servers, n # m
      PROVE  told'[n] <= tree' /\ (CountsOnIt(n)' => Covered(n)')
    <2>1. told'[n] <= tree'
        <3>1. told'[n] = told[n] /\ told[n] \in Nat /\ tree \in Nat /\ told[n] <= tree
            BY <1>2 DEF Same, Inv, Rest, Edits, ChangesInv
        <3> QED BY <3>1
    <2>2. CountsOnIt(n)' => CountsOnIt(n)
        BY <1>2 DEF Same, CountsOnIt
    <2> QED BY <1>2, <2>1, <2>2, CoveredStays DEF Same, ChangesInv
<1> QED BY <1>1, <1>2 DEF ChangesInv

LEMMA OtherStep ==
    ASSUME Inv, ChangesInv, Steady, tree' \in Nat, tree <= tree',
           \A n \in Servers : Same(n)
    PROVE  ChangesInv'
<1>1. CASE Servers = {}
    BY <1>1, McpServerAssumption DEF Steady, ChangesInv, Gen, Inv, DaemonInv, Holds
<1>2. ASSUME NEW m \in Servers
      PROVE  ChangesInv'
    <2>1. told'[m] <= tree'
        <3>1. told'[m] = told[m] /\ told[m] \in Nat /\ tree \in Nat /\ told[m] <= tree
            BY DEF Same, Inv, Rest, Edits, ChangesInv
        <3> QED BY <3>1
    <2>2. CountsOnIt(m)' => Covered(m)'
        BY CoveredStays DEF Same, CountsOnIt, ChangesInv
    <2> QED BY <2>1, <2>2, WatcherStep
<1> QED BY <1>1, <1>2

\* A task of the server beside its watcher: the queue is left alone.
LEMMA TaskStep ==
    ASSUME Inv, ChangesInv, Steady, NEW m \in Servers, UNCHANGED <<tree, queue>>,
           \A n \in Servers : pc'[n].watch = pc[n].watch
    PROVE  ChangesInv'
<1>1. tree' \in Nat /\ tree <= tree'
    BY DEF Inv, Rest, Edits
<1>2. \A n \in Servers : Same(n)
    BY DEF Same, queue
<1> QED BY <1>1, <1>2, OtherStep

LEMMA InitStep ==
    ASSUME Inv, ChangesInv, Steady, NEW m \in Servers, UNCHANGED <<tree, queue>>,
           NEW s \in {"off", "denied", "status", "resolve", "insert", "request", "start",
                      "health", "keep", "done"}, Goto(m, "init", s)
    PROVE  ChangesInv'
<1>1. \A n \in Servers : pc'[n].watch = pc[n].watch
    BY GotoInit DEF Inv
<1> QED BY <1>1, TaskStep

LEMMA ToolStep ==
    ASSUME Inv, ChangesInv, Steady, NEW m \in Servers, UNCHANGED <<tree, queue>>,
           NEW s \in {"idle", "keep"}, Goto(m, "tool", s)
    PROVE  ChangesInv'
<1>1. \A n \in Servers : pc'[n].watch = pc[n].watch
    BY GotoTool DEF Inv
<1> QED BY <1>1, TaskStep

LEMMA TasksStep ==
    ASSUME Inv, ChangesInv, NEW m \in Servers,
           \/ Start(m) \/ ToolOpens(m) \/ ToolKeeps(m)
           \/ AutoAsks(m) \/ AutoResolves(m) \/ AutoInserts(m) \/ AutoRequests(m)
           \/ HealthCheck(m) \/ HealthKeeps(m)
    PROVE  ChangesInv'
<1>1. CASE Start(m)
    BY <1>1, RestSteady, InitStep DEF Start, daemon
<1>2. CASE ToolOpens(m)
    BY <1>2, RestSteady, ToolStep DEF ToolOpens, daemon
<1>3. CASE ToolKeeps(m)
    BY <1>3, RestSteady, ToolStep DEF ToolKeeps, Keeps, daemon
<1>4. CASE AutoAsks(m)
    <2>1. Steady
        BY <1>4, RemediatesSteady, RefusesSteady DEF AutoAsks
    <2> QED BY <1>4, <2>1, InitStep DEF AutoAsks
<1>5. CASE AutoResolves(m)
    <2>1. Steady
        BY <1>5, RestSteady DEF AutoResolves, daemon
    <2>2. Goto(m, "init", "start") \/ Goto(m, "init", "request") \/ Goto(m, "init", "insert")
        BY <1>5 DEF AutoResolves
    <2> QED BY <1>5, <2>1, <2>2, InitStep DEF AutoResolves
<1>6. CASE AutoInserts(m)
    BY <1>6, RestSteady, InitStep DEF AutoInserts, Keeps, daemon
<1>7. CASE AutoRequests(m)
    <2>1. Steady
        BY <1>7, AskedSteady, RefusesSteady DEF AutoRequests
    <2> QED BY <1>7, <2>1, InitStep DEF AutoRequests
<1>8. CASE HealthCheck(m)
    BY <1>8, RestSteady, InitStep DEF HealthCheck, daemon
<1>9. CASE HealthKeeps(m)
    BY <1>9, RestSteady, InitStep DEF HealthKeeps, Keeps, daemon
<1> QED BY <1>1, <1>2, <1>3, <1>4, <1>5, <1>6, <1>7, <1>8, <1>9

LEMMA StopsStep ==
    ASSUME Inv, ChangesInv, NEW m \in Servers, Stop(m)
    PROVE  ChangesInv'
<1>1. /\ pc'[m].watch = "off" /\ \A n \in Servers : n # m => pc'[n] = pc[n]
    BY DEF Stop, Inv, Steppers, Steps, Off
<1>2. Steady
    BY RestSteady DEF Stop, daemon
<1>3. \A n \in Servers : n # m => Same(n)
    BY <1>1 DEF Stop, Same, Inv, Rest
<1>4. tree' \in Nat /\ tree <= tree' /\ told'[m] <= tree'
    BY DEF Stop, Inv, Rest, Edits, ChangesInv
<1>5. ~CountsOnIt(m)'
    BY <1>1 DEF CountsOnIt
<1> QED BY <1>2, <1>3, <1>4, <1>5, WatcherStep

LEMMA StartsWatcher ==
    ASSUME Inv, ChangesInv, NEW m \in Servers, StartWatcher(m)
    PROVE  ChangesInv'
<1>1. Steady
    BY RestSteady DEF StartWatcher, disk, daemon
<1>2. \A n \in Servers : n # m => Same(n)
    BY DEF StartWatcher, Same, Inv, Steppers, Steps, Rest
<1>3. tree' \in Nat /\ tree <= tree' /\ told'[m] = 0
    BY DEF StartWatcher, disk, Inv, Rest, Edits
<1>4. Covered(m)'
    <2>1. Seen \in Nat
        BY DEF Seen, Chunks, Inv, Rest, DaemonInv, Holds, Edits
    <2>2. UNCHANGED <<pointer, built, run, walked>> /\ walked \in Nat
          /\ run \in {"none", "staged", "walked"}
        BY DEF StartWatcher, disk, daemon, Inv, Rest, Edits
    <2>3. Seen' = Seen
        BY <2>2 DEF Seen, Chunks
    <2> QED BY <1>3, <2>1, <2>2, <2>3 DEF Covered
<1> QED BY <1>1, <1>2, <1>3, <1>4, WatcherStep

\* A step of the watcher is one of these steps of its queue.
LEMMA WatchStep ==
    ASSUME Inv, ChangesInv, NEW m \in Servers, Watch(m)
    PROVE  ChangesInv'
<1>1. tree \in Nat /\ tree <= tree /\ told[m] <= tree
    BY DEF Inv, Rest, Edits, ChangesInv
<1>2. CASE OnChange(m)
    <2>1. Steady /\ tree' = tree
        BY <1>2, RestSteady DEF OnChange, disk, daemon
    <2>2. told'[m] = tree /\ \A n \in Servers : n # m => told'[n] = told[n]
        BY <1>2 DEF OnChange, Inv, Rest
    <2>3. CASE inFlight[m] /\ queued' = [queued EXCEPT ![m] = TRUE] /\ UNCHANGED pc
        <3>1. inFlight'[m] /\ queued'[m]
            BY <1>2, <2>3 DEF OnChange, Inv, Rest
        <3>2. \A n \in Servers : n # m => Same(n)
            BY <1>2, <2>2, <2>3 DEF OnChange, Same, Inv, Rest
        <3>3. ~CountsOnIt(m)'
            BY <3>1 DEF CountsOnIt
        <3> QED BY <1>1, <2>1, <2>2, <3>2, <3>3, WatcherStep
    <2>4. CASE Goto(m, "watch", "resolve") /\ UNCHANGED queued
        <3>1. pc'[m].watch = "resolve" /\ \A n \in Servers : n # m => pc'[n] = pc[n]
            BY <2>4, GotoWatch DEF Inv
        <3>2. \A n \in Servers : n # m => Same(n)
            BY <1>2, <2>2, <2>4, <3>1 DEF OnChange, Same
        <3>3. ~CountsOnIt(m)'
            BY <3>1 DEF CountsOnIt
        <3> QED BY <1>1, <2>1, <2>2, <3>2, <3>3, WatcherStep
    <2> QED BY <1>2, <2>3, <2>4 DEF OnChange
<1>3. CASE TriggerResolves(m)
    <2>1. Steady /\ UNCHANGED <<tree, told, inFlight, queued>>
        BY <1>3, RestSteady DEF TriggerResolves, daemon
    <2>2. \/ GivesUp(m)
          \/ UNCHANGED refused /\ (Goto(m, "watch", "request") \/ Goto(m, "watch", "insert"))
        BY <1>3 DEF TriggerResolves
    <2>3. /\ pc'[m].watch \in {"request", "insert"} \/ refused'[m]
          /\ \A n \in Servers : n # m => pc'[n] = pc[n] /\ refused'[n] = refused[n]
        BY <2>2, GotoWatch DEF GivesUp, Inv, Rest
    <2>4. (\A n \in Servers : n # m => Same(n)) /\ ~CountsOnIt(m)'
        BY <2>1, <2>3 DEF Same, CountsOnIt
    <2> QED BY <1>1, <2>1, <2>4, WatcherStep
<1>4. CASE TriggerInserts(m)
    <2>1. Steady /\ UNCHANGED <<tree, queue>> /\ Goto(m, "watch", "resolve")
        BY <1>4, RestSteady DEF TriggerInserts, Keeps, daemon
    <2>2. pc'[m].watch = "resolve" /\ \A n \in Servers : n # m => pc'[n] = pc[n]
        BY <2>1, GotoWatch DEF Inv
    <2>3. (\A n \in Servers : n # m => Same(n)) /\ ~CountsOnIt(m)'
        BY <2>1, <2>2 DEF Same, CountsOnIt, queue
    <2> QED BY <1>1, <2>1, <2>3, WatcherStep DEF queue
<1>5. CASE TriggerRequests(m)
    <2>1. Steady /\ UNCHANGED <<tree, told, queued>>
        BY <1>5, AskedSteady, RefusesSteady DEF TriggerRequests
    <2>2. /\ \A n \in Servers : n # m => pc'[n] = pc[n]
          /\ \A n \in Servers : n # m => refused'[n] = refused[n] /\ inFlight'[n] = inFlight[n]
        BY <1>5, GotoWatch DEF TriggerRequests, GivesUp, Inv, Rest
    <2>3. refused'[m] \/ run' = "staged"
        BY <1>5 DEF TriggerRequests, GivesUp, Asked, Begins, Inv, Rest
    <2>4. \A n \in Servers : n # m => Same(n)
        BY <2>1, <2>2 DEF Same
    <2>5. CountsOnIt(m)' => Covered(m)'
        BY <2>3 DEF CountsOnIt, Covered
    <2> QED BY <1>1, <2>1, <2>4, <2>5, WatcherStep
<1>6. CASE PollAsks(m)
    <2>1. Steady /\ UNCHANGED <<tree, queue>> /\ pc[m].watch = "idle"
        BY <1>6, RemediatesSteady DEF PollAsks
    <2>2. pc'[m].watch = "answer" /\ \A n \in Servers : n # m => pc'[n] = pc[n]
        BY <1>6, GotoWatch DEF PollAsks, Inv
    <2>3. (\A n \in Servers : n # m => Same(n)) /\ (CountsOnIt(m)' => CountsOnIt(m))
        BY <2>1, <2>2 DEF Same, CountsOnIt, queue
    <2>4. CountsOnIt(m)' => Covered(m)'
        BY <2>1, <2>3, CoveredStays DEF ChangesInv, queue
    <2> QED BY <1>1, <2>1, <2>3, <2>4, WatcherStep DEF queue
<1>7. CASE PollAnswered(m)
    <2>1. Steady /\ UNCHANGED <<tree, told, refused>> /\ pc[m].watch = "answer"
        BY <1>7, RestSteady DEF PollAnswered, disk, daemon
    <2>2. \A n \in Servers : n # m => pc'[n] = pc[n]
        BY <1>7, GotoWatch DEF PollAnswered, Inv
    <2>3. \A n \in Servers : n # m => inFlight'[n] = inFlight[n] /\ queued'[n] = queued[n]
        BY <1>7 DEF PollAnswered, Inv, Rest
    <2>4. \A n \in Servers : n # m => Same(n)
        BY <2>1, <2>2, <2>3 DEF Same
    <2>5. CountsOnIt(m)' => CountsOnIt(m)
        <3>1. CASE reply[m].running
            BY <1>7, <2>1, <3>1, GotoWatch DEF PollAnswered, CountsOnIt, Inv
        <3>2. CASE ~reply[m].running /\ queued[m]
            BY <1>7, <3>2, GotoWatch DEF PollAnswered, CountsOnIt, Inv
        <3>3. CASE ~reply[m].running /\ ~queued[m]
            BY <2>1, <3>3 DEF CountsOnIt
        <3> QED BY <3>1, <3>2, <3>3
    <2>6. CountsOnIt(m)' => Covered(m)'
        BY <2>1, <2>5, CoveredStays DEF ChangesInv
    <2> QED BY <1>1, <2>1, <2>4, <2>6, WatcherStep
<1> QED BY <1>2, <1>3, <1>4, <1>5, <1>6, <1>7 DEF Watch

\* A walk sees every edit that a watcher was told of, and a promotion makes of
\* what it has seen the active generation.
LEMMA DaemonStep ==
    ASSUME Inv, ChangesInv, Edit \/ Walk \/ Promote \/ RunFails \/ DaemonKilled
    PROVE  ChangesInv'
<1>1. tree \in Nat /\ \A m \in Servers : told[m] \in Nat /\ told[m] <= tree
    <2>1. tree \in Nat /\ told \in [Servers -> Nat]
        BY DEF Inv, Rest, Edits
    <2> QED BY <2>1 DEF ChangesInv
<1>2. CASE Edit
    <2>1. Steady /\ UNCHANGED <<pc, inFlight, queued, told, refused>>
        BY <1>2, RestSteady DEF Edit, daemon, server
    <2>2. tree' \in Nat /\ tree <= tree'
        BY <1>2 DEF Edit, Inv, Rest, Edits
    <2>3. \A n \in Servers : Same(n)
        BY <2>1 DEF Same
    <2> QED BY <2>1, <2>2, <2>3, OtherStep
<1>3. CASE Walk
    <2>1. /\ run' = "walked" /\ walked' = tree
          /\ UNCHANGED <<tree, told, made, built>>
        BY <1>3 DEF Walk, disk, queue
    <2>2. \A m \in Servers : Covered(m)'
        BY <1>1, <2>1 DEF Covered
    <2> QED BY <1>1, <2>1, <2>2 DEF ChangesInv
<1>4. CASE Promote
    <2>1. made \in Nat /\ made < MaxGen
        BY <1>4, McpServerAssumption DEF Promote, Inv, DaemonInv, Holds, RunHasProject
    <2>2. made' \in Gen /\ pointer' = made' /\ made' = made + 1 /\ run = "walked"
        BY <1>4, <2>1, McpServerAssumption DEF Promote, Gen
    <2>3. walked \in Nat /\ walked # None
        BY McpServerAssumption DEF Inv, Rest, Edits
    <2>4. built'[made'] = walked /\ \A g \in Gen : g # made' => built'[g] = built[g]
        BY <1>4, <2>2 DEF Promote, Inv, Rest
    <2>5. \A g \in Gen : g > made' => built'[g] = None
        BY <2>1, <2>2, <2>4 DEF ChangesInv, Gen
    <2>6. Seen' = walked /\ run' = "none" /\ UNCHANGED <<tree, told, queue, pc>>
        BY <1>4, <2>2, <2>3, <2>4, Names DEF Seen, Chunks, Promote, queue, server
    <2>7. ASSUME NEW m \in Servers
          PROVE  told'[m] <= tree' /\ (CountsOnIt(m)' => Covered(m)')
        <3>1. CountsOnIt(m)' => told[m] <= walked
            BY <2>2, <2>6 DEF ChangesInv, CountsOnIt, Covered, queue
        <3> QED BY <1>1, <2>6, <3>1 DEF Covered
    <2> QED BY <2>5, <2>7 DEF ChangesInv
<1>5. CASE RunFails \/ DaemonKilled
    <2>1. Lost /\ UNCHANGED <<tree, told, made, built>>
        BY <1>5 DEF RunFails, DaemonKilled, disk
    <2>2. \A m \in Servers : ~CountsOnIt(m)'
        BY <2>1 DEF Lost, CountsOnIt
    <2> QED BY <1>1, <2>1, <2>2 DEF ChangesInv
<1> QED BY <1>2, <1>3, <1>4, <1>5

-----------------------------------------------------------------------------
(* The theorems                                                             *)

LEMMA InvInit == Init => Inv
<1> SUFFICES ASSUME Init PROVE Inv
    OBVIOUS
<1>1. Holds
    BY Names DEF Init, Holds
<1>2. DaemonHolds /\ RunHasProject /\ OpenIsActive
    BY Names DEF Init, DaemonHolds, RunHasProject, OpenIsActive
<1>3. Steppers
    BY DEF Init, Steppers, Steps, Off
<1>4. Rest
    <2>1. 0 \in Edits /\ (Indexed => 1 \in Gen)
        BY McpServerAssumption DEF Edits, Gen
    <2>2. built \in [Gen -> Edits \cup {None}]
        BY <2>1 DEF Init
    <2> QED BY <2>1, <2>2 DEF Init, Rest
<1>5. KeepInv
    BY DEF Init, KeepInv, KeepOf, Keeping, KeepsInit, KeepsWatch, KeepsTool, Off
<1> QED BY <1>1, <1>2, <1>3, <1>4, <1>5 DEF Inv, DaemonInv

LEMMA InvNext == Inv /\ [Next]_vars => Inv'
<1> SUFFICES ASSUME Inv, [Next]_vars PROVE Inv'
    OBVIOUS
<1>1. CASE UNCHANGED vars
    BY <1>1 DEF Inv, DaemonInv, Holds, DaemonHolds, RunHasProject, OpenIsActive, Steppers,
                Rest, KeepInv, KeepOf, Keeping, KeepsInit, KeepsWatch, KeepsTool,
                vars, disk, daemon, queue, server
<1>2. CASE Edit \/ Walk \/ Promote \/ RunFails \/ DaemonKilled
    BY <1>2, EditStep, WalkStep, PromoteStep, RunFailsStep, DaemonKilledStep
<1>3. ASSUME NEW m \in Servers, Start(m) \/ Stop(m) \/ ToolOpens(m) \/ ToolKeeps(m)
      PROVE  Inv'
    BY <1>3, StartStep, StopStep, ToolOpensStep, ToolKeepsStep
<1>4. ASSUME NEW m \in Servers, Initialized(m)
      PROVE  Inv'
    BY <1>4, AutoAsksStep, AutoResolvesStep, AutoRequestsStep, StartWatcherStep,
       HealthCheckStep, InitKeepsStep DEF Initialized, AutoInserts, HealthKeeps
<1>5. ASSUME NEW m \in Servers, Watch(m)
      PROVE  Inv'
    BY <1>5, OnChangeStep, TriggerResolvesStep, TriggerInsertsStep, TriggerRequestsStep,
       PollAsksStep, PollAnsweredStep DEF Watch
<1> QED BY <1>1, <1>2, <1>3, <1>4, <1>5 DEF Next

LEMMA InvHolds == Spec => []Inv
BY InvInit, InvNext, PTL DEF Spec

\* The variables keep their types; what a server puts into its cache is a
\* generation because it has just one open (InsertsActive).
THEOREM McpTypeOK == Spec => []TypeOK
<1>1. Inv => TypeOK
    BY Types DEF Inv, DaemonInv
<1> QED BY <1>1, InvHolds, PTL

\* What a server has open is the active generation: no promotion of the daemon
\* leaves a cached backend on an index of the past (resolve_backend of
\* server.rs, promote_staged_generation of service.rs).
THEOREM ServersOpenActive == Spec => []OpenIsActive
<1>1. Inv => OpenIsActive
    BY DEF Inv, DaemonInv
<1> QED BY <1>1, InvHolds, PTL

LEMMA ChangesInit == Init => ChangesInv
<1> SUFFICES ASSUME Init PROVE ChangesInv
    OBVIOUS
<1>1. \A g \in Gen : g > made => built[g] = None
    BY DEF Init, Gen
<1>2. ASSUME NEW m \in Servers PROVE told[m] <= tree /\ ~CountsOnIt(m)
    <2>1. told[m] = 0 /\ tree = 0 /\ pc[m].watch = "off"
        BY DEF Init, Off
    <2> QED BY <2>1 DEF CountsOnIt
<1> QED BY <1>1, <1>2 DEF ChangesInv

LEMMA ChangesNext == Inv /\ ChangesInv /\ [Next]_vars => ChangesInv'
<1> SUFFICES ASSUME Inv, ChangesInv, [Next]_vars PROVE ChangesInv'
    OBVIOUS
<1>1. CASE UNCHANGED vars
    BY <1>1 DEF ChangesInv, CountsOnIt, Covered, Seen, Chunks, vars, disk, daemon, queue, server
<1>2. CASE Edit \/ Walk \/ Promote \/ RunFails \/ DaemonKilled
    BY <1>2, DaemonStep
<1>3. ASSUME NEW m \in Servers,
             \/ Start(m) \/ Stop(m) \/ Initialized(m)
             \/ ToolOpens(m) \/ ToolKeeps(m) \/ Watch(m)
      PROVE  ChangesInv'
    BY <1>3, TasksStep, StopsStep, StartsWatcher, WatchStep DEF Initialized
<1> QED BY <1>1, <1>2, <1>3 DEF Next

\* A watcher at rest has the index of every edit that it was told of, unless a
\* request was refused, met a run under way, or had a run that failed: an edit
\* during a refresh is queued behind it, whoever else begins runs, and the poll
\* sees to it (on_change_detected, mark_refresh_finished of server.rs).
THEOREM ChangesRemembered == Spec => []NoChangeForgotten
<1>1. Init => Inv /\ ChangesInv
    BY InvInit, ChangesInit
<1>2. Inv /\ ChangesInv /\ [Next]_vars => (Inv /\ ChangesInv)'
    BY InvNext, ChangesNext
<1>3. Inv /\ ChangesInv => NoChangeForgotten
    <2> SUFFICES ASSUME ChangesInv, NEW m \in Servers, pc[m].watch = "idle", ~inFlight[m],
                        ~refused[m], run = "none"
                 PROVE  told[m] <= Seen
        BY DEF NoChangeForgotten, Seen
    <2> QED BY DEF ChangesInv, CountsOnIt, Covered
<1> QED BY <1>1, <1>2, <1>3, PTL DEF Spec
================================================================================
