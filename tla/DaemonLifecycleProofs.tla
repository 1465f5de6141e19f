----------------------- MODULE DaemonLifecycleProofs -----------------------
(***************************************************************************)
(* Proofs about DaemonLifecycle, for any launches and any scenarios.  Its  *)
(* types hold however launches and daemons race.  When launches come one   *)
(* after the other, the daemon that runs holds the PID lock; and if the    *)
(* last of them met no daemon in its shutdown and nobody has stopped its   *)
(* daemon, a daemon of its version serves the socket once all is settled.  *)
(***************************************************************************)
EXTENDS DaemonLifecycle, FiniteSetTheorems, TLAPS

USE LifecycleAssumption

DaemonPcs == {"new", "run", "dead"} \union Booting \union Stopping
LaunchPcs ==
  {"idle", "ping", "connect", "ask", "term", "wait", "clean", "spawn", "poll", "done"}
LaunchType ==
  [pc : LaunchPcs, version : Nat, target : Daemon \union {None}, calm : BOOLEAN]

(* Launches that have no daemon to spawn any more. *)
Spent == {c \in Launch : cli[c].pc \in {"poll", "done"}}

Types ==
  /\ at \in [Daemon -> DaemonPcs]
  /\ \A d \in Daemon : at[d] = "new" <=> d > spawned
  /\ version \in [Daemon -> Nat]
  /\ inode \in [Daemon -> Daemon \union {None}]
  /\ spawned \in Nat /\ spawned <= Cardinality(Spent)
  /\ pidFile \in Daemon \union {None}
  /\ sock \in [Path -> Daemon \union {None}]
  /\ cli \in [Launch -> LaunchType]
  /\ installed \in Nat \ {0}
  /\ doctor \in [running : BOOLEAN, legit : Daemon \union {None}]
  /\ wanted \in Nat
  /\ acts \in 0..scenario.maxActs
  /\ scenario \in Scenarios

(* A launch talks to a daemon that has been spawned, and ends it only if   *)
(* it runs another version.                                                *)
Asked(c) ==
  /\ cli[c].pc \in {"ask", "term", "wait"} => cli[c].target \in Daemon /\ cli[c].target <= spawned
  /\ cli[c].pc \in {"term", "wait"} => version[cli[c].target] # cli[c].version

-----------------------------------------------------------------------------
(* What holds when launches come one after the other. *)

(* What daemon d has done by now has not been undone. *)
Sound(d) ==
  /\ at[d] \in (Booting \ {"check", "lock"}) \union {"run"} \union Stopping => pidFile = d
  /\ at[d] = "bind pane" => sock["pane"] = None
  /\ at[d] = "bind mcp" => sock["mcp"] = None
  /\ at[d] \in {"record", "run"} => sock["mcp"] = d
  /\ at[d] = "run" => inode[d] = d

(* A daemon of version v runs or will. *)
Up(v) == \E d \in Daemon : at[d] \in Booting \union {"run"} /\ version[d] = v

(* No daemon has yet to open its IPC server. *)
Booted == \A d \in Daemon : Alive(d) => at[d] \in {"record", "run"} \union Stopping

(* How far launch c is, and which daemons there are by then.  If it met no *)
(* daemon in its shutdown, its daemon is the only one and stays.           *)
Turn(c) ==
  LET l == cli[c] IN
  /\ l.version = installed /\ ~doctor.running
  /\ l.pc # "poll" => Booted
  /\ l.pc \in {"ping", "connect", "ask", "term"} /\ l.calm => NoneStopping
  /\ l.pc \in {"ask", "term", "wait"} => \A d \in Daemon : Alive(d) => d = l.target
  /\ l.pc \in {"ask", "term"} /\ l.calm => at[l.target] \in {"record", "run"}
  /\ l.pc \in {"clean", "spawn"} =>
       \A d \in Daemon : Alive(d) => at[d] \in Stopping /\ ~l.calm
  /\ l.pc \in {"spawn", "poll"} /\ sock["mcp"] # None => at[sock["mcp"]] \in {"record", "run"}
  /\ l.pc = "poll" /\ l.calm => Up(l.version) /\ NoneStopping

(* Two daemons are alive only while one shuts down and the other has yet   *)
(* to look at the PID file.                                                *)
OneDaemon ==
  \A d, e \in Daemon : Alive(d) /\ Alive(e) /\ d # e =>
    \/ at[d] = "check" /\ at[e] \in Stopping
    \/ at[e] = "check" /\ at[d] \in Stopping
OneLaunch == \A c, e \in Launching : c = e
DoctorSpares ==
  doctor.running /\ scenario.profile => \A d \in Daemon : Alive(d) => d = doctor.legit
LastIsUp == Launching = {} => Booted /\ (wanted # None => Up(wanted))

SoloInv ==
  /\ OneDaemon /\ OneLaunch
  /\ \A d \in Daemon : Sound(d)
  /\ \A c \in Launching : Turn(c)
  /\ DoctorSpares
  /\ LastIsUp

OneByOne == scenario.solo => SoloInv

LifeInv == Types /\ (\A c \in Launch : Asked(c)) /\ OneByOne

-----------------------------------------------------------------------------
(* Constants, and the daemons a step can name. *)
LEMMA CountFacts ==
  /\ Cardinality(Launch) \in Nat /\ Daemon \subseteq Nat \ {0} /\ None \notin Daemon
  /\ IsFiniteSet(Spent) /\ Cardinality(Spent) \in Nat
  /\ Cardinality(Spent) <= Cardinality(Launch)
<1>1. IsFiniteSet(Launch) /\ Spent \in SUBSET Launch
  BY DEF Spent
<1>2. Cardinality(Launch) \in Nat
  BY <1>1, FS_CardinalityType
<1>3. IsFiniteSet(Spent) /\ Cardinality(Spent) <= Cardinality(Launch)
  BY <1>1, FS_Subset
<1>4. Cardinality(Spent) \in Nat
  BY <1>3, FS_CardinalityType
<1>5. QED
  BY <1>2, <1>3, <1>4 DEF Daemon, None

LEMMA PcFacts ==
  /\ Booting \subseteq DaemonPcs \ {"new"} /\ Stopping \subseteq DaemonPcs \ {"new"}
  /\ "run" \in DaemonPcs /\ "dead" \in DaemonPcs
  /\ \A d : Alive(d) => at[d] \notin {"new", "dead"}
  /\ \A d : Listening(d) => Alive(d)
BY DEF DaemonPcs, Booting, Stopping, Alive, Listening

(* The scenarios. *)
LEMMA ScenarioFacts ==
  ASSUME Types
  PROVE  scenario.maxActs \in Nat /\ scenario.solo \in BOOLEAN /\ scenario.profile \in BOOLEAN
BY DEF Types

(* A step that leaves the launches as they are, or ends none of them. *)
LEMMA SpentKept ==
  ASSUME Types, UNCHANGED spawned, Spent \subseteq Spent'
  PROVE  spawned' \in Nat /\ spawned' <= Cardinality(Spent')
<1>1. IsFiniteSet(Spent') /\ Cardinality(Spent') \in Nat
  <2>1. IsFiniteSet(Launch) /\ Spent' \in SUBSET Launch
    BY DEF Spent
  <2>2. QED
    BY <2>1, FS_Subset, FS_CardinalityType
<1>2. Cardinality(Spent) <= Cardinality(Spent')
  BY <1>1, FS_Subset
<1>3. QED
  BY <1>1, <1>2, CountFacts DEF Types

(* The record of a launch after a step. *)
LEMMA StepsFields ==
  ASSUME Types, NEW c \in Launch, NEW from, NEW to \in LaunchPcs, Steps(c, from, to)
  PROVE  /\ cli' \in [Launch -> LaunchType] /\ \A e \in Launch \ {c} : cli'[e] = cli[e]
         /\ cli[c].pc = from /\ cli'[c].pc = to
         /\ cli'[c].version = cli[c].version /\ cli'[c].target = cli[c].target
         /\ cli'[c].calm = cli[c].calm
<1>1. cli[c] \in LaunchType /\ cli' = [cli EXCEPT ![c] = [cli[c] EXCEPT !.pc = to]]
  BY DEF Types, Steps
<1>2. \A l \in LaunchType : LET n == [l EXCEPT !.pc = to] IN
        /\ n \in LaunchType /\ n.pc = to /\ n.version = l.version
        /\ n.target = l.target /\ n.calm = l.calm
  BY DEF LaunchType
<1>3. QED
  BY <1>1, <1>2 DEF Types, Steps

-----------------------------------------------------------------------------
(***************************************************************************)
(* Types and Asked, in every scenario.                                     *)
(***************************************************************************)
AskedAll == \A c \in Launch : Asked(c)

(* A daemon that has been spawned goes on. *)
LEMMA AtMoves ==
  ASSUME Types, NEW d \in Daemon, at[d] # "new", NEW p \in DaemonPcs \ {"new"},
         at' = [at EXCEPT ![d] = p], UNCHANGED spawned
  PROVE  /\ at' \in [Daemon -> DaemonPcs]
         /\ \A e \in Daemon : at'[e] = "new" <=> e > spawned'
         /\ at'[d] = p /\ \A e \in Daemon \ {d} : at'[e] = at[e]
BY DEF Types

LEMMA GoesMoves ==
  ASSUME Types, NEW d \in Daemon, NEW from, from # "new", NEW to \in DaemonPcs \ {"new"},
         Goes(d, from, to), UNCHANGED spawned
  PROVE  /\ at' \in [Daemon -> DaemonPcs]
         /\ \A e \in Daemon : at'[e] = "new" <=> e > spawned'
         /\ at[d] = from /\ at'[d] = to /\ \A e \in Daemon \ {d} : at'[e] = at[e]
BY AtMoves DEF Goes

(* A step of a daemon, or of somebody who stops one. *)
LEMMA DaemonsMove ==
  ASSUME Types, AskedAll, UNCHANGED <<version, spawned, cli>>,
         at' \in [Daemon -> DaemonPcs], \A e \in Daemon : at'[e] = "new" <=> e > spawned',
         inode' \in [Daemon -> Daemon \union {None}],
         pidFile' \in Daemon \union {None}, sock' \in [Path -> Daemon \union {None}],
         installed' \in Nat \ {0}, doctor' \in [running : BOOLEAN, legit : Daemon \union {None}],
         wanted' \in Nat, acts' \in 0..scenario'.maxActs, scenario' \in Scenarios
  PROVE  Types' /\ AskedAll'
<1>1. Spent' = Spent
  BY DEF Spent
<1>2. spawned' \in Nat /\ spawned' <= Cardinality(Spent')
  BY <1>1, SpentKept
<1>3. Types'
  BY <1>2 DEF Types
<1>4. QED
  BY <1>3 DEF AskedAll, Asked

LEMMA SockMoves ==
  ASSUME Types, NEW p \in Path, NEW v \in Daemon \union {None}, sock' = [sock EXCEPT ![p] = v]
  PROVE  /\ sock' \in [Path -> Daemon \union {None}]
         /\ sock'[p] = v /\ \A q \in Path \ {p} : sock'[q] = sock[q]
BY DEF Types

(* What a daemon does about each path, in order. *)
LEMMA Tables ==
  /\ ClearAt["pane"] = "clear pane" /\ BindAt["pane"] = "bind pane" /\ BoundAt["pane"] = "clear mcp"
  /\ ClearAt["mcp"] = "clear mcp" /\ BindAt["mcp"] = "bind mcp" /\ BoundAt["mcp"] = "record"
  /\ StopAt["mcp"] = <<"close mcp", "unlink mcp", "close pane">>
  /\ StopAt["pane"] = <<"close pane", "unlink pane", "unlink pid">>
BY DEF ClearAt, BindAt, BoundAt, StopAt

LEMMA StopTable ==
  /\ StopAt["mcp"][1] = "close mcp" /\ StopAt["mcp"][2] = "unlink mcp"
  /\ StopAt["mcp"][3] = "close pane"
  /\ StopAt["pane"][1] = "close pane" /\ StopAt["pane"][2] = "unlink pane"
  /\ StopAt["pane"][3] = "unlink pid"
BY DEF StopAt

LEMMA PathPcs ==
  ASSUME NEW p \in Path
  PROVE  /\ ClearAt[p] # "new" /\ BindAt[p] \in DaemonPcs \ {"new"}
         /\ BoundAt[p] \in DaemonPcs \ {"new"}
         /\ StopAt[p][1] # "new" /\ StopAt[p][2] \in DaemonPcs \ {"new"}
         /\ StopAt[p][3] \in DaemonPcs \ {"new"}
<1>1. CASE p = "pane"
  BY <1>1, Tables, StopTable DEF DaemonPcs, Booting, Stopping
<1>2. CASE p = "mcp"
  BY <1>2, Tables, StopTable DEF DaemonPcs, Booting, Stopping
<1>3. QED
  BY <1>1, <1>2 DEF Path

LEMMA DaemonStepTypes ==
  ASSUME Types, AskedAll, NEW d \in Daemon, DaemonStep(d)
  PROVE  Types' /\ AskedAll'
<1>u. /\ UNCHANGED <<version, spawned, cli>>
      /\ installed' \in Nat \ {0}
      /\ doctor' \in [running : BOOLEAN, legit : Daemon \union {None}]
      /\ wanted' \in Nat /\ acts' \in 0..scenario'.maxActs /\ scenario' \in Scenarios
  BY DEF DaemonStep, Check, Lock, Record, Watch, Exit, Clear, Bind, RemovePath, Types
<1>1. CASE Check(d)
  <2>1. PICK to \in {"lock", "dead"} : Goes(d, "check", to)
    BY <1>1 DEF Check
  <2>2. UNCHANGED <<files, inode>>
    BY <1>1 DEF Check
  <2>3. at' \in [Daemon -> DaemonPcs] /\ \A e \in Daemon : at'[e] = "new" <=> e > spawned'
    BY <2>1, <1>u, GoesMoves DEF DaemonPcs, Booting
  <2>4. QED
    BY <1>u, <2>2, <2>3, DaemonsMove DEF files, Types
<1>2. CASE Lock(d)
  <2>1. at' \in [Daemon -> DaemonPcs] /\ \A e \in Daemon : at'[e] = "new" <=> e > spawned'
    BY <1>2, <1>u, GoesMoves DEF Lock, DaemonPcs, Booting
  <2>2. pidFile' = d /\ UNCHANGED <<sock, inode>>
    BY <1>2 DEF Lock
  <2>3. QED
    BY <1>u, <2>1, <2>2, DaemonsMove DEF Types
<1>3. CASE Record(d)
  <2>1. at' \in [Daemon -> DaemonPcs] /\ \A e \in Daemon : at'[e] = "new" <=> e > spawned'
    BY <1>3, <1>u, GoesMoves DEF Record, DaemonPcs
  <2>2. inode' \in [Daemon -> Daemon \union {None}] /\ UNCHANGED files
    BY <1>3 DEF Record, Types, Path
  <2>3. QED
    BY <1>u, <2>1, <2>2, DaemonsMove DEF files, Types
<1>4. CASE Watch(d)
  <2>1. at' \in [Daemon -> DaemonPcs] /\ \A e \in Daemon : at'[e] = "new" <=> e > spawned'
    BY <1>4, <1>u, GoesMoves DEF Watch, DaemonPcs, Stopping
  <2>2. UNCHANGED <<files, inode>>
    BY <1>4 DEF Watch
  <2>3. QED
    BY <1>u, <2>1, <2>2, DaemonsMove DEF files, Types
<1>5. CASE Exit(d)
  <2>1. at' \in [Daemon -> DaemonPcs] /\ \A e \in Daemon : at'[e] = "new" <=> e > spawned'
    BY <1>5, <1>u, GoesMoves DEF Exit, DaemonPcs
  <2>2. pidFile' = None /\ UNCHANGED <<sock, inode>>
    BY <1>5 DEF Exit
  <2>3. QED
    BY <1>u, <2>1, <2>2, DaemonsMove DEF Types
<1>6. ASSUME NEW p \in Path, Clear(d, p)
      PROVE  Types' /\ AskedAll'
  <2>1. ClearAt[p] # "new" /\ BindAt[p] \in DaemonPcs \ {"new"}
    BY PathPcs
  <2>2. at' \in [Daemon -> DaemonPcs] /\ \A e \in Daemon : at'[e] = "new" <=> e > spawned'
    BY <1>6, <1>u, <2>1, GoesMoves DEF Clear
  <2>3. sock' \in [Path -> Daemon \union {None}] /\ UNCHANGED <<pidFile, inode>>
    BY <1>6, SockMoves DEF Clear
  <2>4. QED
    BY <1>u, <2>2, <2>3, DaemonsMove DEF Types
<1>7. ASSUME NEW p \in Path, Bind(d, p)
      PROVE  Types' /\ AskedAll'
  <2>1. BindAt[p] # "new" /\ BoundAt[p] \in DaemonPcs \ {"new"} /\ "dead" \in DaemonPcs \ {"new"}
    BY PathPcs DEF DaemonPcs
  <2>2. PICK to \in {BoundAt[p], "dead"} : Goes(d, BindAt[p], to)
    BY <1>7 DEF Bind
  <2>3. at' \in [Daemon -> DaemonPcs] /\ \A e \in Daemon : at'[e] = "new" <=> e > spawned'
    BY <2>2, <1>u, <2>1, GoesMoves
  <2>4. sock' \in [Path -> Daemon \union {None}] /\ UNCHANGED <<pidFile, inode>>
    BY <1>7, SockMoves DEF Bind, Types
  <2>5. QED
    BY <1>u, <2>3, <2>4, DaemonsMove DEF Types
<1>8. ASSUME NEW p \in Path, RemovePath(d, p)
      PROVE  Types' /\ AskedAll'
  <2>1. /\ StopAt[p][1] # "new" /\ StopAt[p][2] \in DaemonPcs \ {"new"}
        /\ StopAt[p][3] \in DaemonPcs \ {"new"}
    BY PathPcs
  <2>2. at' \in [Daemon -> DaemonPcs] /\ \A e \in Daemon : at'[e] = "new" <=> e > spawned'
    BY <1>8, <1>u, <2>1, GoesMoves DEF RemovePath
  <2>3. sock' \in [Path -> Daemon \union {None}] /\ UNCHANGED <<pidFile, inode>>
    BY <1>8, SockMoves DEF RemovePath
  <2>4. QED
    BY <1>u, <2>2, <2>3, DaemonsMove DEF Types
<1>9. QED
  BY <1>1, <1>2, <1>3, <1>4, <1>5, <1>6, <1>7, <1>8 DEF DaemonStep

(* SIGTERM and SIGKILL. *)
LEMMA SignalFacts ==
  ASSUME Types, NEW d \in Daemon
  PROVE  /\ Terminated(d) \in DaemonPcs /\ (Terminated(d) = "new" <=> at[d] = "new")
         /\ Killed(d) \in DaemonPcs /\ (Killed(d) = "new" <=> at[d] = "new")
         /\ Killed(d) \in {"new", "dead"} /\ (~Alive(d) => Terminated(d) = at[d])
<1>1. at[d] \in DaemonPcs
  BY DEF Types
<1>2. at[d] \in {"new", "dead"} <=> ~Alive(d)
  BY <1>1 DEF DaemonPcs, Alive, Booting, Stopping
<1>3. "close mcp" \in DaemonPcs /\ "dead" \in DaemonPcs
  BY DEF DaemonPcs, Stopping
<1>4. QED
  BY <1>1, <1>2, <1>3 DEF Terminated, Killed

(* A step of launch c. *)
LEMMA LaunchesMove ==
  ASSUME Types, AskedAll, NEW c \in Launch,
         cli' \in [Launch -> LaunchType], \A e \in Launch \ {c} : cli'[e] = cli[e],
         cli[c].pc \in {"poll", "done"} => cli'[c].pc \in {"poll", "done"},
         Asked(c)', UNCHANGED <<version, spawned, inode, pidFile, installed, doctor, acts, scenario>>,
         at' \in [Daemon -> DaemonPcs], \A e \in Daemon : at'[e] = "new" <=> e > spawned',
         sock' \in [Path -> Daemon \union {None}], wanted' \in Nat
  PROVE  Types' /\ AskedAll'
<1>1. Spent \subseteq Spent'
  BY DEF Spent
<1>2. spawned' \in Nat /\ spawned' <= Cardinality(Spent')
  BY <1>1, SpentKept
<1>3. Types'
  BY <1>2 DEF Types
<1>4. ASSUME NEW e \in Launch \ {c}
      PROVE  Asked(e)'
  BY <1>4 DEF AskedAll, Asked
<1>5. QED
  BY <1>3, <1>4 DEF AskedAll

(* The version a launch reports when it ends. *)
LEMMA EndsFields ==
  ASSUME Types, NEW c \in Launch, NEW from, Ends(c, from)
  PROVE  /\ cli' \in [Launch -> LaunchType] /\ \A e \in Launch \ {c} : cli'[e] = cli[e]
         /\ cli[c].pc = from /\ cli'[c].pc = "done"
         /\ wanted' = (IF cli[c].calm THEN cli[c].version ELSE None) /\ wanted' \in Nat
<1>1. cli[c].version \in Nat /\ "done" \in LaunchPcs
  BY DEF Types, LaunchPcs, LaunchType
<1>2. QED
  BY <1>1, StepsFields DEF Ends, None

(* The record of a launch that found a daemon to ask. *)
LEMMA ConnectFields ==
  ASSUME Types, NEW c \in Launch, NEW t \in Daemon \union {None},
         cli' = [cli EXCEPT ![c] = [@ EXCEPT !.pc = "ask", !.target = t]]
  PROVE  /\ cli' \in [Launch -> LaunchType] /\ \A e \in Launch \ {c} : cli'[e] = cli[e]
         /\ cli'[c].pc = "ask" /\ cli'[c].target = t /\ cli'[c].version = cli[c].version
         /\ cli'[c].calm = cli[c].calm
<1>1. \A l \in LaunchType : LET n == [l EXCEPT !.pc = "ask", !.target = t] IN
        /\ n \in LaunchType /\ n.pc = "ask" /\ n.target = t
        /\ n.version = l.version /\ n.calm = l.calm
  BY DEF LaunchType, LaunchPcs
<1>2. cli[c] \in LaunchType
  BY DEF Types
<1>3. PICK n : n = [cli[c] EXCEPT !.pc = "ask", !.target = t]
  OBVIOUS
<1>4. /\ n \in LaunchType /\ n.pc = "ask" /\ n.target = t
      /\ n.version = cli[c].version /\ n.calm = cli[c].calm
  BY <1>1, <1>2, <1>3
<1>5. cli' = [cli EXCEPT ![c] = n]
  BY <1>3 DEF Types
<1>6. QED
  BY <1>4, <1>5 DEF Types

(* The record of a launch that starts. *)
LEMMA StartFields ==
  ASSUME Types, NEW c \in Launch, NEW calm \in BOOLEAN,
         cli' = [cli EXCEPT ![c] = [@ EXCEPT !.pc = "ping", !.version = installed, !.calm = calm]]
  PROVE  /\ cli' \in [Launch -> LaunchType] /\ \A e \in Launch \ {c} : cli'[e] = cli[e]
         /\ cli'[c].pc = "ping" /\ cli'[c].version = installed /\ cli'[c].calm = calm
<1>1. \A l \in LaunchType :
        LET n == [l EXCEPT !.pc = "ping", !.version = installed, !.calm = calm] IN
        n \in LaunchType /\ n.pc = "ping" /\ n.version = installed /\ n.calm = calm
  BY DEF LaunchType, LaunchPcs, Types
<1>2. cli[c] \in LaunchType
  BY DEF Types
<1>3. PICK n : n = [cli[c] EXCEPT !.pc = "ping", !.version = installed, !.calm = calm]
  OBVIOUS
<1>4. n \in LaunchType /\ n.pc = "ping" /\ n.version = installed /\ n.calm = calm
  BY <1>1, <1>2, <1>3
<1>5. cli' = [cli EXCEPT ![c] = n]
  BY <1>3 DEF Types
<1>6. QED
  BY <1>4, <1>5 DEF Types

LEMMA PcNames ==
  /\ {"ping", "connect", "ask", "term", "wait", "clean", "spawn", "poll", "done"} \subseteq LaunchPcs
BY DEF LaunchPcs

(* The daemon a launch signals. *)
LEMMA Signalled ==
  ASSUME Types, AskedAll, NEW c \in Launch, cli[c].pc \in {"term", "wait"}
  PROVE  /\ cli[c].target \in Daemon /\ cli[c].target <= spawned /\ at[cli[c].target] # "new"
         /\ version[cli[c].target] # cli[c].version
<1>1. cli[c].target \in Daemon /\ cli[c].target <= spawned
      /\ version[cli[c].target] # cli[c].version
  BY DEF AskedAll, Asked
<1>2. cli[c].target \in Nat /\ spawned \in Nat
  BY <1>1, CountFacts DEF Types
<1>3. ~(cli[c].target > spawned)
  BY <1>1, <1>2
<1>4. QED
  BY <1>1, <1>3 DEF Types

(* The daemon a launch spawns has not been spawned before. *)
LEMMA Spawned ==
  ASSUME Types, NEW c \in Launch, cli[c].pc = "spawn"
  PROVE  /\ spawned + 1 \in Daemon /\ at[spawned + 1] = "new"
         /\ Cardinality(Spent \union {c}) = Cardinality(Spent) + 1
<1>1. c \notin Spent /\ Spent \union {c} \in SUBSET Launch /\ IsFiniteSet(Spent)
  BY CountFacts DEF Spent
<1>2. Cardinality(Spent \union {c}) = Cardinality(Spent) + 1
  BY <1>1, FS_AddElement
<1>3. Cardinality(Spent \union {c}) <= Cardinality(Launch)
  BY <1>1, FS_Subset
<1>4. spawned \in Nat /\ spawned <= Cardinality(Spent)
  BY DEF Types
<1>5. spawned + 1 \in 1..Cardinality(Launch) /\ spawned + 1 > spawned
  BY <1>2, <1>3, <1>4, CountFacts
<1>6. QED
  BY <1>2, <1>5 DEF Daemon, Types

LEMMA SpawnTypes ==
  ASSUME Types, AskedAll, NEW c \in Launch, Spawn(c)
  PROVE  Types' /\ AskedAll'
<1>1. /\ cli' \in [Launch -> LaunchType] /\ \A e \in Launch \ {c} : cli'[e] = cli[e]
      /\ cli[c].pc = "spawn" /\ cli'[c].pc = "poll"
  BY StepsFields, PcNames DEF Spawn
<1>2. spawned + 1 \in Daemon /\ Cardinality(Spent \union {c}) = Cardinality(Spent) + 1
  BY <1>1, Spawned
<1>3. Spent' = Spent \union {c}
  BY <1>1 DEF Spent
<1>4. spawned' = spawned + 1 /\ at' = [at EXCEPT ![spawned + 1] = "check"]
      /\ version' = [version EXCEPT ![spawned + 1] = installed]
      /\ UNCHANGED <<files, inode, installed, doctor, wanted, acts, scenario>>
  BY DEF Spawn
<1>5. spawned \in Nat /\ spawned <= Cardinality(Spent) /\ Cardinality(Spent) \in Nat
  BY CountFacts DEF Types
<1>6. spawned' \in Nat /\ spawned' <= Cardinality(Spent')
  BY <1>2, <1>3, <1>4, <1>5
<1>7. at' \in [Daemon -> DaemonPcs] /\ version' \in [Daemon -> Nat]
  BY <1>2, <1>4 DEF Types, DaemonPcs, Booting
<1>8. ASSUME NEW d \in Daemon
      PROVE  at'[d] = "new" <=> d > spawned'
  <2>1. d \in Nat /\ (d > spawned + 1 <=> d > spawned /\ d # spawned + 1)
    BY <1>5, CountFacts
  <2>2. at'[d] = IF d = spawned + 1 THEN "check" ELSE at[d]
    BY <1>4 DEF Types
  <2>3. at[d] = "new" <=> d > spawned
    BY DEF Types
  <2>4. QED
    BY <1>4, <2>1, <2>2, <2>3
<1>9. Types'
  BY <1>1, <1>4, <1>6, <1>7, <1>8 DEF Types, files
<1>10. ASSUME NEW e \in Launch
       PROVE  Asked(e)'
  <2>1. CASE e = c
    BY <1>1, <2>1 DEF Asked
  <2>2. CASE e # c
    <3>1. Asked(e) /\ cli'[e] = cli[e]
      BY <1>1, <2>2 DEF AskedAll
    <3>2. ASSUME cli[e].target \in Daemon, cli[e].target <= spawned
          PROVE  cli[e].target <= spawned' /\ version'[cli[e].target] = version[cli[e].target]
      <4>1. \A d \in Nat : d <= spawned => d # spawned + 1 /\ d <= spawned + 1
        BY <1>5
      <4>2. cli[e].target # spawned + 1 /\ cli[e].target <= spawned + 1
        BY <3>2, <4>1, CountFacts
      <4>3. QED
        BY <1>4, <3>2, <4>2 DEF Types
    <3>3. /\ cli[e].pc \in {"ask", "term", "wait"} => cli[e].target \in Daemon /\ cli[e].target <= spawned'
          /\ cli[e].pc \in {"term", "wait"} => version'[cli[e].target] # cli[e].version
      <4>1. /\ cli[e].pc \in {"ask", "term", "wait"} => cli[e].target \in Daemon /\ cli[e].target <= spawned
            /\ cli[e].pc \in {"term", "wait"} => version[cli[e].target] # cli[e].version
        BY <3>1 DEF Asked
      <4>2. QED
        BY <3>2, <4>1
    <3>4. cli'[e] = cli[e]
      BY <3>1
    <3>5. QED
      BY <3>3, <3>4 DEF Asked
  <2>3. QED
    BY <2>1, <2>2
<1>11. QED
  BY <1>9, <1>10 DEF AskedAll

(* A launch step that leaves the daemons as they are. *)
LEMMA QuietLaunch ==
  ASSUME Types, AskedAll, NEW c \in Launch, NEW from, NEW to \in LaunchPcs,
         from \notin {"poll", "done"}, to \in {"clean", "connect", "done", "term"},
         Steps(c, from, to), to = "term" => from = "ask" /\ version[cli[c].target] # cli[c].version,
         UNCHANGED <<daemons, pidFile, installed, doctor, acts, scenario>>,
         sock' \in [Path -> Daemon \union {None}], wanted' \in Nat
  PROVE  Types' /\ AskedAll'
<1>1. /\ cli' \in [Launch -> LaunchType] /\ \A e \in Launch \ {c} : cli'[e] = cli[e]
      /\ cli[c].pc = from /\ cli'[c].pc = to
      /\ cli'[c].version = cli[c].version /\ cli'[c].target = cli[c].target
  BY StepsFields
<1>2. UNCHANGED <<at, version, inode, spawned>>
  BY DEF daemons
<1>3. Asked(c)
  BY DEF AskedAll
<1>4. Asked(c)'
  BY <1>1, <1>2, <1>3 DEF Asked
<1>5. at' \in [Daemon -> DaemonPcs] /\ \A e \in Daemon : at'[e] = "new" <=> e > spawned'
  BY <1>2 DEF Types
<1>6. QED
  BY <1>1, <1>2, <1>4, <1>5, LaunchesMove

(* A launch ends. *)
LEMMA EndTypes ==
  ASSUME Types, AskedAll, NEW c \in Launch, NEW from, Ends(c, from),
         UNCHANGED <<files, daemons, installed, doctor, acts, scenario>>
  PROVE  Types' /\ AskedAll'
<1>1. /\ cli' \in [Launch -> LaunchType] /\ \A e \in Launch \ {c} : cli'[e] = cli[e]
      /\ cli'[c].pc = "done" /\ wanted' \in Nat
  BY EndsFields
<1>2. UNCHANGED <<at, version, inode, spawned, pidFile, sock>>
  BY DEF daemons, files
<1>3. Asked(c)'
  BY <1>1 DEF Asked
<1>4. /\ at' \in [Daemon -> DaemonPcs] /\ \A e \in Daemon : at'[e] = "new" <=> e > spawned'
      /\ sock' \in [Path -> Daemon \union {None}]
  BY <1>2 DEF Types
<1>5. QED
  BY <1>1, <1>2, <1>3, <1>4, LaunchesMove

(* A launch signals its daemon. *)
LEMMA SignalTypes ==
  ASSUME Types, AskedAll, NEW c \in Launch, NEW from \in {"term", "wait"}, NEW to \in {"wait", "clean"},
         Steps(c, from, to), NEW p \in DaemonPcs \ {"new"},
         at' = [at EXCEPT ![cli[c].target] = p],
         UNCHANGED <<files, version, inode, spawned, installed, doctor, wanted, acts, scenario>>
  PROVE  Types' /\ AskedAll'
<1>1. /\ cli' \in [Launch -> LaunchType] /\ \A e \in Launch \ {c} : cli'[e] = cli[e]
      /\ cli[c].pc = from /\ cli'[c].pc = to
      /\ cli'[c].version = cli[c].version /\ cli'[c].target = cli[c].target
  BY StepsFields, PcNames
<1>2. /\ cli[c].target \in Daemon /\ cli[c].target <= spawned /\ at[cli[c].target] # "new"
      /\ version[cli[c].target] # cli[c].version
  BY <1>1, Signalled
<1>3. at' \in [Daemon -> DaemonPcs] /\ \A e \in Daemon : at'[e] = "new" <=> e > spawned'
  BY <1>2, AtMoves
<1>4. Asked(c)'
  BY <1>1, <1>2 DEF Asked
<1>5. sock' \in [Path -> Daemon \union {None}] /\ wanted' \in Nat /\ UNCHANGED pidFile
  BY DEF Types, files
<1>6. QED
  BY <1>1, <1>3, <1>4, <1>5, LaunchesMove

LEMMA LaunchStepTypes ==
  ASSUME Types, AskedAll, NEW c \in Launch, LaunchStep(c)
  PROVE  Types' /\ AskedAll'
<1>f. sock \in [Path -> Daemon \union {None}] /\ wanted \in Nat
  BY DEF Types
<1>1. CASE Ping(c)
  <2>1. PICK to \in {"connect", "clean"} : Steps(c, "ping", to)
    BY <1>1 DEF Ping
  <2>2. QED
    BY <1>1, <1>f, <2>1, QuietLaunch, PcNames DEF Ping, files
<1>2. CASE Connect(c)
  <2>1. CASE Steps(c, "connect", "clean")
    BY <1>2, <1>f, <2>1, QuietLaunch, PcNames DEF Connect, files
  <2>2. CASE /\ Answering /\ cli[c].pc = "connect"
             /\ cli' = [cli EXCEPT ![c] = [@ EXCEPT !.pc = "ask", !.target = sock["mcp"]]]
    <3>1. PICK t \in Daemon : t = sock["mcp"] /\ Listening(t)
      BY <1>f, <2>2 DEF Answering, Path
    <3>2. /\ cli' \in [Launch -> LaunchType] /\ \A e \in Launch \ {c} : cli'[e] = cli[e]
          /\ cli'[c].pc = "ask" /\ cli'[c].target = t
      BY <2>2, <3>1, ConnectFields
    <3>3. UNCHANGED <<at, version, inode, spawned, pidFile, sock, installed, doctor, wanted, acts, scenario>>
      BY <1>2 DEF Connect, daemons, files
    <3>4. at[t] # "new" /\ t \in Nat /\ spawned \in Nat
      BY <3>1, CountFacts DEF Listening, Types
    <3>5. t <= spawned
      BY <3>1, <3>4 DEF Types
    <3>6. Asked(c)'
      BY <3>1, <3>2, <3>3, <3>5 DEF Asked
    <3>7. at' \in [Daemon -> DaemonPcs] /\ \A e \in Daemon : at'[e] = "new" <=> e > spawned'
      BY <3>3 DEF Types
    <3>8. QED
      BY <1>f, <2>2, <3>2, <3>3, <3>6, <3>7, LaunchesMove
  <2>3. QED
    BY <1>2, <2>1, <2>2 DEF Connect
<1>3. CASE Answer(c)
  <2>1. CASE Ends(c, "ask")
    BY <1>3, <2>1, EndTypes DEF Answer
  <2>2. CASE version[cli[c].target] # cli[c].version /\ Steps(c, "ask", "term") /\ UNCHANGED wanted
    BY <1>3, <1>f, <2>2, QuietLaunch, PcNames DEF Answer, files
  <2>3. QED
    BY <1>3, <2>1, <2>2 DEF Answer
<1>4. CASE NoAnswer(c)
  <2>1. CASE Ends(c, "ask")
    BY <1>4, <2>1, EndTypes DEF NoAnswer
  <2>2. CASE Steps(c, "ask", "clean") /\ UNCHANGED wanted
    BY <1>4, <1>f, <2>2, QuietLaunch, PcNames DEF NoAnswer, files
  <2>3. QED
    BY <1>4, <2>1, <2>2 DEF NoAnswer
<1>5. CASE SendTerm(c)
  <2>1. cli[c].pc = "term"
    BY <1>5 DEF SendTerm, Steps
  <2>2. Terminated(cli[c].target) \in DaemonPcs \ {"new"}
    BY <2>1, Signalled, SignalFacts
  <2>3. QED
    BY <1>5, <2>2, SignalTypes DEF SendTerm
<1>6. CASE AwaitExit(c)
  <2>1. cli[c].pc = "wait"
    BY <1>6 DEF AwaitExit, Steps
  <2>2. Killed(cli[c].target) \in DaemonPcs \ {"new"}
    BY <2>1, Signalled, SignalFacts
  <2>3. QED
    BY <1>6, <2>2, SignalTypes DEF AwaitExit
<1>7. CASE Clean(c)
  <2>1. /\ cli' \in [Launch -> LaunchType] /\ \A e \in Launch \ {c} : cli'[e] = cli[e]
        /\ cli[c].pc = "clean" /\ cli'[c].pc = "spawn"
    <3>1. Steps(c, "clean", "spawn") /\ "spawn" \in LaunchPcs
      BY <1>7, PcNames DEF Clean
    <3>2. QED
      BY <3>1, StepsFields
  <2>1a. Asked(c)'
    BY <2>1 DEF Asked
  <2>2. UNCHANGED <<at, version, inode, spawned, pidFile, installed, doctor, wanted, acts, scenario>>
    BY <1>7 DEF Clean, daemons
  <2>3. /\ at' \in [Daemon -> DaemonPcs] /\ \A e \in Daemon : at'[e] = "new" <=> e > spawned'
        /\ wanted' \in Nat
    BY <2>2 DEF Types
  <2>4. sock' \in [Path -> Daemon \union {None}]
    BY <1>7, SockMoves DEF Clean, Path
  <2>5. QED
    BY <2>1, <2>1a, <2>2, <2>3, <2>4, LaunchesMove
<1>8. CASE Spawn(c)
  BY <1>8, SpawnTypes
<1>9. CASE Poll(c)
  BY <1>9, EndTypes DEF Poll
<1>10. QED
  BY <1>1, <1>2, <1>3, <1>4, <1>5, <1>6, <1>7, <1>8, <1>9 DEF LaunchStep

LEMMA StartTypes ==
  ASSUME Types, AskedAll, NEW c \in Launch, Start(c)
  PROVE  Types' /\ AskedAll'
<1>c. NoneStopping \in BOOLEAN
  BY DEF NoneStopping
<1>1. /\ cli[c].pc = "idle"
      /\ cli' = [cli EXCEPT ![c] = [@ EXCEPT !.pc = "ping", !.version = installed,
                                            !.calm = NoneStopping]]
      /\ UNCHANGED <<at, version, inode, spawned, pidFile, sock, installed, doctor, wanted, acts, scenario>>
  BY DEF Start, daemons, files
<1>2. /\ cli' \in [Launch -> LaunchType] /\ \A e \in Launch \ {c} : cli'[e] = cli[e]
      /\ cli'[c].pc = "ping"
  BY <1>c, <1>1, StartFields
<1>3. Asked(c)'
  BY <1>2 DEF Asked
<1>4. /\ at' \in [Daemon -> DaemonPcs] /\ \A e \in Daemon : at'[e] = "new" <=> e > spawned'
      /\ sock' \in [Path -> Daemon \union {None}] /\ wanted' \in Nat
  BY <1>1 DEF Types
<1>5. QED
  BY <1>1, <1>2, <1>3, <1>4, LaunchesMove

LEMMA ActsTypes ==
  ASSUME Types, Acts
  PROVE  acts' = acts + 1 /\ acts + 1 \in 0..scenario.maxActs
<1>1. acts \in 0..scenario.maxActs /\ scenario.maxActs \in Nat /\ acts < scenario.maxActs
  BY ScenarioFacts DEF Types, Acts
<1>2. QED
  BY <1>1 DEF Acts

LEMMA StopTypes ==
  ASSUME Types, AskedAll, NEW d \in Daemon, Stop(d)
  PROVE  Types' /\ AskedAll'
<1>1. at[d] # "new"
  BY PcFacts DEF Stop
<1>2. PICK p \in DaemonPcs \ {"new"} : at' = [at EXCEPT ![d] = p]
  BY <1>1, SignalFacts DEF Stop
<1>3. wanted' = None /\ UNCHANGED <<pidFile, sock, version, inode, spawned, cli, installed, doctor, scenario>>
  BY DEF Stop, files
<1>4. at' \in [Daemon -> DaemonPcs] /\ \A e \in Daemon : at'[e] = "new" <=> e > spawned'
  BY <1>1, <1>2, <1>3, AtMoves
<1>5. acts' \in 0..scenario'.maxActs
  BY <1>3, ActsTypes DEF Stop
<1>6. /\ inode' \in [Daemon -> Daemon \union {None}]
      /\ pidFile' \in Daemon \union {None} /\ sock' \in [Path -> Daemon \union {None}]
      /\ installed' \in Nat \ {0} /\ doctor' \in [running : BOOLEAN, legit : Daemon \union {None}]
      /\ wanted' \in Nat /\ scenario' \in Scenarios
  BY <1>3 DEF Types, None
<1>7. QED
  BY <1>3, <1>4, <1>5, <1>6, DaemonsMove

LEMMA UpgradeTypes ==
  ASSUME Types, AskedAll, Upgrade
  PROVE  Types' /\ AskedAll'
<1>1. installed' = installed + 1
      /\ UNCHANGED <<pidFile, sock, at, version, inode, spawned, cli, doctor, wanted, scenario>>
  BY DEF Upgrade, files, daemons
<1>2. acts' \in 0..scenario'.maxActs
  BY <1>1, ActsTypes DEF Upgrade
<1>3. /\ at' \in [Daemon -> DaemonPcs] /\ \A e \in Daemon : at'[e] = "new" <=> e > spawned'
      /\ inode' \in [Daemon -> Daemon \union {None}]
      /\ pidFile' \in Daemon \union {None} /\ sock' \in [Path -> Daemon \union {None}]
      /\ doctor' \in [running : BOOLEAN, legit : Daemon \union {None}]
      /\ wanted' \in Nat /\ scenario' \in Scenarios
  BY <1>1 DEF Types
<1>4. installed' \in Nat \ {0}
  BY <1>1 DEF Types
<1>5. QED
  BY <1>1, <1>2, <1>3, <1>4, DaemonsMove

LEMMA DoctorTypes ==
  ASSUME Types, AskedAll, DoctorReads \/ DoctorKills
  PROVE  Types' /\ AskedAll'
<1>1. /\ UNCHANGED <<pidFile, sock, version, inode, spawned, cli, installed, scenario>>
      /\ doctor' \in [running : BOOLEAN, legit : Daemon \union {None}] /\ wanted' \in Nat
  <2>1. /\ UNCHANGED <<pidFile, sock, version, inode, spawned, cli, installed, scenario>>
        /\ wanted' \in {wanted, None}
    BY DEF DoctorReads, DoctorKills, files, daemons
  <2>2. pidFile \in Daemon \union {None} /\ wanted \in Nat /\ None \in Nat
    BY DEF Types, None
  <2>3. PICK b \in BOOLEAN, l \in {pidFile, None} : doctor' = [running |-> b, legit |-> l]
    BY DEF DoctorReads, DoctorKills
  <2>4. doctor' \in [running : BOOLEAN, legit : Daemon \union {None}]
    BY <2>2, <2>3
  <2>5. QED
    BY <2>1, <2>2, <2>4
<1>2. acts' \in 0..scenario'.maxActs
  <2>1. CASE DoctorReads
    BY <1>1, <2>1, ActsTypes DEF DoctorReads
  <2>2. CASE DoctorKills
    BY <1>1, <2>2 DEF DoctorKills, Types
  <2>3. QED
    BY <2>1, <2>2
<1>3. at' \in [Daemon -> DaemonPcs] /\ \A e \in Daemon : at'[e] = "new" <=> e > spawned'
  <2>1. CASE DoctorReads
    BY <2>1 DEF DoctorReads, daemons, Types
  <2>2. CASE DoctorKills
    <3>1. at' = [d \in Daemon |-> IF d = doctor.legit THEN at[d] ELSE Killed(d)]
      BY <2>2 DEF DoctorKills
    <3>2. \A d \in Daemon : at'[d] \in {at[d], Killed(d)}
      BY <3>1
    <3>3. \A d \in Daemon : at'[d] \in DaemonPcs /\ (at'[d] = "new" <=> at[d] = "new")
      BY <3>2, SignalFacts DEF Types
    <3>4. at' \in [Daemon -> DaemonPcs]
      BY <3>1, <3>3
    <3>5. QED
      BY <1>1, <3>3, <3>4 DEF Types
  <2>3. QED
    BY <2>1, <2>2
<1>4. /\ inode' \in [Daemon -> Daemon \union {None}]
      /\ pidFile' \in Daemon \union {None} /\ sock' \in [Path -> Daemon \union {None}]
      /\ installed' \in Nat \ {0} /\ scenario' \in Scenarios
  BY <1>1 DEF Types
<1>5. QED
  BY <1>1, <1>2, <1>3, <1>4, DaemonsMove

LEMMA InitTypes == Init => Types /\ AskedAll
<1> SUFFICES ASSUME Init PROVE Types /\ AskedAll
  OBVIOUS
<1>1. scenario \in Scenarios /\ scenario.maxActs \in Nat /\ acts = 0
  BY DEF Init
<1>2. acts \in 0..scenario.maxActs
  BY <1>1
<1>3. /\ at \in [Daemon -> DaemonPcs] /\ version \in [Daemon -> Nat]
      /\ inode \in [Daemon -> Daemon \union {None}]
      /\ pidFile \in Daemon \union {None} /\ sock \in [Path -> Daemon \union {None}]
      /\ installed \in Nat \ {0} /\ wanted \in Nat
      /\ doctor \in [running : BOOLEAN, legit : Daemon \union {None}]
  BY DEF Init, DaemonPcs, None
<1>4. \A d \in Daemon : at[d] = "new" /\ d > spawned
  BY CountFacts DEF Init
<1>5. cli = [c \in Launch |-> [pc |-> "idle", version |-> None, target |-> None, calm |-> TRUE]]
  BY DEF Init
<1>6. [pc |-> "idle", version |-> None, target |-> None, calm |-> TRUE] \in LaunchType
  BY DEF LaunchType, LaunchPcs, None
<1>7. cli \in [Launch -> LaunchType] /\ \A c \in Launch : cli[c].pc = "idle"
  BY <1>5, <1>6
<1>8. spawned \in Nat /\ spawned <= Cardinality(Spent)
  BY CountFacts DEF Init
<1>9. Types
  BY <1>1, <1>2, <1>3, <1>4, <1>7, <1>8 DEF Types
<1>10. QED
  BY <1>7, <1>9 DEF AskedAll, Asked

LEMMA NextTypes == Types /\ AskedAll /\ [Next]_vars => Types' /\ AskedAll'
<1> SUFFICES ASSUME Types, AskedAll, [Next]_vars PROVE Types' /\ AskedAll'
  OBVIOUS
<1>1. CASE UNCHANGED vars
  <2>1. UNCHANGED <<at, version, inode, spawned, pidFile, sock, cli, installed, doctor, wanted, acts, scenario>>
    BY <1>1 DEF vars, files, daemons
  <2>2. at' \in [Daemon -> DaemonPcs] /\ \A e \in Daemon : at'[e] = "new" <=> e > spawned'
    BY <2>1 DEF Types
  <2>3. /\ inode' \in [Daemon -> Daemon \union {None}]
        /\ pidFile' \in Daemon \union {None} /\ sock' \in [Path -> Daemon \union {None}]
        /\ installed' \in Nat \ {0} /\ doctor' \in [running : BOOLEAN, legit : Daemon \union {None}]
        /\ wanted' \in Nat /\ acts' \in 0..scenario'.maxActs /\ scenario' \in Scenarios
    BY <2>1 DEF Types
  <2>4. QED
    BY <2>1, <2>2, <2>3, DaemonsMove
<1>2. CASE Next
  BY <1>2, DaemonStepTypes, StopTypes, StartTypes, LaunchStepTypes, UpgradeTypes, DoctorTypes
     DEF Next
<1>3. QED
  BY <1>1, <1>2

LEMMA TypesAreTypeOK == Types /\ AskedAll => TypeOK
<1> SUFFICES ASSUME Types, AskedAll PROVE TypeOK
  OBVIOUS
<1>1. spawned \in 0..Cardinality(Launch)
  BY CountFacts DEF Types
<1>2. at \in [Daemon -> {"new", "run", "dead"} \union Booting \union Stopping]
  BY DEF Types, DaemonPcs
<1>3. ASSUME NEW c \in Launch
      PROVE  /\ cli[c].pc \in {"idle", "ping", "connect", "ask", "term", "wait", "clean",
                               "spawn", "poll", "done"}
             /\ cli[c].target \in Daemon \union {None}
             /\ cli[c].version \in Nat
             /\ cli[c].pc \in {"term", "wait"} => version[cli[c].target] # cli[c].version
  <2>1. cli[c] \in LaunchType /\ Asked(c)
    BY DEF Types, AskedAll
  <2>2. QED
    BY <2>1 DEF LaunchType, LaunchPcs, Asked
<1>4. QED
  BY <1>1, <1>2, <1>3 DEF Types, TypeOK

(* Every variable keeps its type and no launch ends a daemon of its own    *)
(* version, however many launches and daemons race.                        *)
THEOREM LifecycleTypeOK == Spec => []TypeOK
<1>1. Init => Types /\ AskedAll
  BY InitTypes
<1>2. Types /\ AskedAll /\ [Next]_vars => Types' /\ AskedAll'
  BY NextTypes
<1>3. Types /\ AskedAll => TypeOK
  BY TypesAreTypeOK
<1>4. QED
  BY <1>1, <1>2, <1>3, PTL DEF Spec

-----------------------------------------------------------------------------
(***************************************************************************)
(* SoloInv, one daemon step at a time.                                     *)
(***************************************************************************)
LEMMA PcSets ==
  /\ {"new", "run", "dead"} \cap (Booting \union Stopping) = {}
  /\ Booting \cap Stopping = {}
BY DEF Booting, Stopping

LEMMA DeadIsSound ==
  ASSUME NEW d \in Daemon, ~Alive(d)
  PROVE  Sound(d)
BY DEF Sound, Alive, Booting

(* What a daemon that is past the check finds is its own: nobody else is   *)
(* alive, but for a daemon at the check while it shuts down.               *)
LEMMA Others ==
  ASSUME SoloInv, NEW d \in Daemon
  PROVE  /\ at[d] \in (Booting \ {"check"}) \union {"run"} =>
              \A e \in Daemon \ {d} : ~Alive(e)
         /\ at[d] \in Stopping => \A e \in Daemon \ {d} : Alive(e) => at[e] = "check"
         /\ at[d] = "check" => \A e \in Daemon \ {d} : Alive(e) => at[e] \in Stopping
<1>1. ASSUME NEW e \in Daemon \ {d}, Alive(d), Alive(e)
      PROVE  \/ at[d] = "check" /\ at[e] \in Stopping
             \/ at[e] = "check" /\ at[d] \in Stopping
  BY <1>1 DEF SoloInv, OneDaemon
<1>2. "check" \in Booting /\ "check" \notin Stopping /\ (Booting \union {"run"}) \cap Stopping = {}
  BY DEF Booting, Stopping
<1>3. at[d] \in Booting \union {"run"} \union Stopping => Alive(d)
  BY DEF Alive
<1>4. QED
  BY <1>1, <1>2, <1>3

(* A daemon that boots, alone. *)
LEMMA SoloBoots ==
  ASSUME Types, SoloInv, NEW d \in Daemon, at[d] \in Booting, \A e \in Daemon \ {d} : ~Alive(e),
         at'[d] \in (Booting \ {"check"}) \union {"run"}, at[d] = "record" => at'[d] = "run",
         \A e \in Daemon \ {d} : at'[e] = at[e], Sound(d)',
         \/ sock'["mcp"] \in {sock["mcp"], None}
         \/ sock'["mcp"] = d /\ at'[d] = "record",
         UNCHANGED <<version, cli, installed, doctor, wanted, scenario>>
  PROVE  SoloInv'
<1>1. Alive(d) /\ at[d] \notin Stopping /\ at'[d] \notin Stopping
  BY PcSets DEF Alive
<1>2. \A e \in Daemon \ {d} : ~Alive(e)' /\ at'[e] \notin Stopping
  BY DEF Alive
<1>3. \A e \in Daemon : Sound(e)'
  <2>1. \A e \in Daemon \ {d} : Sound(e)'
    BY <1>2 DEF Sound, Alive, Booting
  <2>2. QED
    BY <2>1
<1>4. Launching' = Launching
  BY DEF Launching
<1>5. ASSUME NEW v, Up(v)
      PROVE  Up(v)'
  <2>1. version[d] = v
    BY <1>5, PcSets DEF Up, Alive
  <2>2. QED
    BY <2>1 DEF Up
<1>6. Booted => Booted'
  <2>1. Booted => at[d] = "record"
    BY <1>1 DEF Booted, Booting
  <2>2. QED
    BY <1>2, <2>1 DEF Booted
<1>7. NoneStopping'
  BY <1>1, <1>2 DEF NoneStopping
<1>8. ASSUME NEW c \in Launching
      PROVE  Turn(c)'
  <2>1. Turn(c) /\ cli' = cli
    BY DEF SoloInv
  <2>2. cli[c].pc \notin {"clean", "spawn"}
    BY <1>1, <2>1 DEF Turn
  <2>3. cli[c].pc \in {"ask", "term", "wait"} => \A e \in Daemon : Alive(e)' => e = cli[c].target
    BY <1>1, <1>2, <2>1 DEF Turn
  <2>4. ASSUME cli[c].pc \in {"ask", "term"}, cli[c].calm
        PROVE  at'[cli[c].target] \in {"record", "run"}
    <3>1. cli[c].target = d /\ at[d] \in {"record", "run"}
      BY <1>1, <2>1, <2>4 DEF Turn
    <3>2. QED
      BY <3>1, PcSets
  <2>5. ASSUME cli[c].pc = "poll", sock'["mcp"] # None
        PROVE  at'[sock'["mcp"]] \in {"record", "run"}
    <3>1. CASE sock'["mcp"] = sock["mcp"]
      <4>1. at[sock["mcp"]] \in {"record", "run"}
        BY <2>1, <2>5, <3>1 DEF Turn
      <4>2. CASE sock["mcp"] = d
        BY <3>1, <4>1, <4>2, PcSets
      <4>3. CASE sock["mcp"] # d
        <5>1. sock["mcp"] \in Daemon
          BY <2>5, <3>1 DEF Types, Path
        <5>2. QED
          BY <3>1, <4>1, <4>3, <5>1
      <4>4. QED
        BY <4>2, <4>3
    <3>2. CASE sock'["mcp"] = d /\ at'[d] = "record"
      BY <3>2
    <3>3. QED
      BY <2>5, <3>1, <3>2
  <2>6. cli[c].pc = "poll" /\ cli[c].calm => Up(cli[c].version)'
    BY <1>5, <2>1 DEF Turn
  <2>7. cli[c].version = installed' /\ ~doctor'.running /\ (cli[c].pc # "poll" => Booted')
    BY <1>6, <2>1 DEF Turn
  <2>8. QED
    BY <1>7, <2>1, <2>2, <2>3, <2>4, <2>5, <2>6, <2>7 DEF Turn
<1>9. OneDaemon' /\ OneLaunch'
  BY <1>2, <1>4 DEF OneDaemon, OneLaunch, SoloInv
<1>10. DoctorSpares'
  BY <1>1, <1>2 DEF DoctorSpares, SoloInv
<1>11. LastIsUp'
  BY <1>4, <1>5, <1>6 DEF LastIsUp, SoloInv
<1>12. QED
  BY <1>3, <1>4, <1>8, <1>9, <1>10, <1>11 DEF SoloInv

(* A daemon that shuts down. *)
LEMMA SoloStops ==
  ASSUME Types, SoloInv, NEW d \in Daemon, at[d] \in Stopping, at'[d] \in Stopping \union {"dead"},
         \A e \in Daemon \ {d} : at'[e] = at[e], Sound(d)',
         sock'["mcp"] \in {sock["mcp"], None},
         UNCHANGED <<version, cli, installed, doctor, wanted, scenario>>
  PROVE  SoloInv'
<1>1. Alive(d) /\ ~NoneStopping /\ at[d] \notin Booting \union {"run"}
  BY PcSets DEF Alive, NoneStopping
<1>2. \A e \in Daemon : Alive(e)' => Alive(e)
  BY <1>1 DEF Alive
<1>3. \A e \in Daemon \ {d} : Alive(e) => at[e] = "check"
  BY Others
<1>4. \A e \in Daemon : Sound(e)'
  <2>1. ASSUME NEW e \in Daemon \ {d}
        PROVE  Sound(e)'
    <3>1. at'[e] = "check" \/ ~Alive(e)'
      BY <1>2, <1>3
    <3>2. QED
      BY <3>1 DEF Sound, Alive, Booting, Stopping
  <2>2. QED
    BY <2>1
<1>5. Launching' = Launching
  BY DEF Launching
<1>6. ASSUME NEW v, Up(v)
      PROVE  Up(v)'
  <2>1. PICK e \in Daemon : at[e] \in Booting \union {"run"} /\ version[e] = v
    BY <1>6 DEF Up
  <2>2. at'[e] = at[e]
    BY <1>1, <2>1
  <2>3. QED
    BY <2>1, <2>2 DEF Up
<1>7. Booted => Booted'
  <2>1. Alive(d)' => at'[d] \in Stopping
    BY PcSets DEF Alive
  <2>2. QED
    BY <1>2, <2>1 DEF Booted
<1>8. ASSUME NEW c \in Launching
      PROVE  Turn(c)'
  <2>1. Turn(c) /\ cli' = cli
    BY DEF SoloInv
  <2>2. ~(cli[c].calm /\ cli[c].pc \in {"ping", "connect", "ask", "term", "clean", "spawn", "poll"})
    BY <1>1, <2>1 DEF Turn
  <2>3. cli[c].pc \in {"ask", "term", "wait"} => \A e \in Daemon : Alive(e)' => e = cli[c].target
    BY <1>2, <2>1 DEF Turn
  <2>4. ASSUME cli[c].pc \in {"clean", "spawn"}, NEW e \in Daemon, Alive(e)'
        PROVE  at'[e] \in Stopping /\ ~cli[c].calm
    <3>1. Alive(e) /\ at[e] \in Stopping
      BY <1>2, <2>1, <2>4 DEF Turn
    <3>2. e = d
      BY <1>3, <3>1 DEF Stopping
    <3>3. at'[d] # "dead"
      BY <2>4, <3>2, PcSets DEF Alive
    <3>4. QED
      BY <2>2, <2>4, <3>2, <3>3
  <2>5. ASSUME cli[c].pc \in {"spawn", "poll"}, sock'["mcp"] # None
        PROVE  at'[sock'["mcp"]] \in {"record", "run"}
    <3>1. sock'["mcp"] = sock["mcp"] /\ at[sock["mcp"]] \in {"record", "run"}
      BY <2>1, <2>5 DEF Turn
    <3>2. sock["mcp"] # d /\ sock["mcp"] \in Daemon
      BY <1>1, <2>5, <3>1 DEF Booting, Types, Path
    <3>3. QED
      BY <3>1, <3>2
  <2>6. cli[c].version = installed' /\ ~doctor'.running /\ (cli[c].pc # "poll" => Booted')
    BY <1>7, <2>1 DEF Turn
  <2>7. QED
    BY <2>1, <2>2, <2>3, <2>4, <2>5, <2>6 DEF Turn
<1>9. OneDaemon'
  <2>1. ASSUME NEW e \in Daemon \ {d}, Alive(e)', Alive(d)'
        PROVE  at'[e] = "check" /\ at'[d] \in Stopping
    BY <1>2, <1>3, <2>1, PcSets DEF Alive
  <2>2. ASSUME NEW e \in Daemon \ {d}, NEW f \in Daemon \ {d}, Alive(e)', Alive(f)'
        PROVE  e = f
    <3>1. at[e] = "check" /\ at[f] = "check" /\ Alive(e) /\ Alive(f) /\ "check" \notin Stopping
      BY <1>2, <1>3, <2>2 DEF Stopping
    <3>2. QED
      BY <3>1 DEF SoloInv, OneDaemon
  <2>3. QED
    BY <2>1, <2>2 DEF OneDaemon
<1>10. DoctorSpares' /\ OneLaunch'
  BY <1>2, <1>5 DEF DoctorSpares, OneLaunch, SoloInv
<1>11. LastIsUp'
  BY <1>5, <1>6, <1>7 DEF LastIsUp, SoloInv
<1>12. QED
  BY <1>4, <1>5, <1>8, <1>9, <1>10, <1>11 DEF SoloInv

(* A daemon that finds another one on the PID lock, which shuts down. *)
LEMMA SoloYields ==
  ASSUME Types, SoloInv, NEW d \in Daemon, at[d] = "check", at'[d] = "dead",
         NEW o \in Daemon, at[o] \in Stopping,
         \A e \in Daemon \ {d} : at'[e] = at[e],
         UNCHANGED <<files, inode, version, cli, installed, doctor, wanted, scenario>>
  PROVE  SoloInv'
<1>1. Alive(d) /\ ~Booted /\ ~NoneStopping
  BY DEF Alive, Booted, NoneStopping, Booting, Stopping
<1>2. /\ ~Alive(d)' /\ \A e \in Daemon : Alive(e)' => Alive(e)
      /\ UNCHANGED <<pidFile, sock>>
  BY PcSets DEF Alive, files
<1>3. \A e \in Daemon : Sound(e)'
  <2>1. Sound(d)'
    BY <1>2 DEF Sound, Alive, Booting
  <2>2. ASSUME NEW e \in Daemon \ {d}
        PROVE  Sound(e)'
    <3>1. Sound(e) /\ at'[e] = at[e] /\ UNCHANGED <<pidFile, sock, inode>>
      BY <1>2 DEF SoloInv
    <3>2. QED
      BY <3>1 DEF Sound
  <2>3. QED
    BY <2>1, <2>2
<1>4. Launching' = Launching /\ Launching # {}
  BY <1>1 DEF Launching, SoloInv, LastIsUp
<1>5. ASSUME NEW c \in Launching
      PROVE  Turn(c)'
  <2>1. Turn(c) /\ cli' = cli
    BY DEF SoloInv
  <2>2. cli[c].pc = "poll" /\ ~cli[c].calm
    BY <1>1, <2>1 DEF Turn
  <2>3. ASSUME sock'["mcp"] # None
        PROVE  at'[sock'["mcp"]] \in {"record", "run"}
    <3>1. sock'["mcp"] = sock["mcp"] /\ at[sock["mcp"]] \in {"record", "run"}
      BY <1>2, <2>1, <2>2, <2>3 DEF Turn
    <3>2. sock["mcp"] # d /\ sock["mcp"] \in Daemon
      BY <2>3, <3>1 DEF Types, Path
    <3>3. QED
      BY <3>1, <3>2
  <2>4. QED
    BY <2>1, <2>2, <2>3 DEF Turn
<1>6. OneDaemon'
  <2>1. ASSUME NEW e \in Daemon, NEW f \in Daemon, e # f, Alive(e)', Alive(f)'
        PROVE  \/ at'[e] = "check" /\ at'[f] \in Stopping
               \/ at'[f] = "check" /\ at'[e] \in Stopping
    <3>1. e # d /\ f # d /\ at'[e] = at[e] /\ at'[f] = at[f] /\ Alive(e) /\ Alive(f)
      BY <1>2, <2>1
    <3>2. QED
      BY <2>1, <3>1 DEF SoloInv, OneDaemon
  <2>2. QED
    BY <2>1 DEF OneDaemon
<1>7. DoctorSpares' /\ OneLaunch' /\ LastIsUp'
  BY <1>2, <1>4 DEF DoctorSpares, OneLaunch, LastIsUp, SoloInv
<1>8. QED
  BY <1>3, <1>4, <1>5, <1>6, <1>7 DEF SoloInv

LEMMA DaemonStepSolo ==
  ASSUME Types, SoloInv, NEW d \in Daemon, DaemonStep(d)
  PROVE  SoloInv'
<1>u. UNCHANGED <<version, spawned, cli, installed, doctor, wanted, scenario>>
  BY DEF DaemonStep, Check, Lock, Record, Watch, Exit, Clear, Bind, RemovePath
<1>s. Sound(d) /\ d # None
  BY CountFacts DEF SoloInv
<1>d. /\ "run" \in DaemonPcs \ {"new"} /\ "dead" \in DaemonPcs \ {"new"}
      /\ Booting \subseteq DaemonPcs \ {"new"} /\ Stopping \subseteq DaemonPcs \ {"new"}
      /\ {"check", "lock", "clear pane", "bind pane", "clear mcp", "bind mcp", "record"} = Booting
      /\ {"close mcp", "unlink mcp", "close pane", "unlink pane", "unlink pid"} = Stopping
  BY PcFacts DEF Booting, Stopping
<1>b. at[d] \in (Booting \ {"check"}) \union {"run"} => \A e \in Daemon \ {d} : ~Alive(e)
  BY Others
<1>1. CASE Check(d)
  <2>1. at[d] = "check" /\ at[d] \in Booting /\ at[d] # "record" /\ UNCHANGED <<files, inode>>
    BY <1>1, <1>d DEF Check, Goes
  <2>2. CASE pidFile \in Daemon \ {d} /\ Alive(pidFile)
    <3>1. Goes(d, "check", "dead")
      BY <1>1, <2>2 DEF Check
    <3>2. at'[d] = "dead" /\ \A e \in Daemon \ {d} : at'[e] = at[e]
      BY <1>u, <1>d, <3>1, GoesMoves
    <3>3. at[pidFile] \in Stopping
      BY <2>1, <2>2, Others
    <3>4. QED
      BY <1>u, <2>1, <2>2, <3>2, <3>3, SoloYields
  <2>3. CASE ~(pidFile \in Daemon \ {d} /\ Alive(pidFile))
    <3>1. Goes(d, "check", "lock")
      BY <1>1, <2>3 DEF Check
    <3>2. at'[d] = "lock" /\ \A e \in Daemon \ {d} : at'[e] = at[e]
      BY <1>u, <1>d, <3>1, GoesMoves
    <3>3. \A e \in Daemon \ {d} : ~Alive(e)
      <4>1. ASSUME NEW e \in Daemon \ {d}, Alive(e)
            PROVE  FALSE
        <5>1. at[e] \in Stopping /\ Sound(e)
          BY <2>1, <4>1, Others DEF SoloInv
        <5>2. pidFile = e
          BY <5>1 DEF Sound
        <5>3. QED
          BY <2>3, <4>1, <5>2
      <4>2. QED
        BY <4>1
    <3>4. Sound(d)' /\ sock' = sock
      BY <2>1, <3>2 DEF Sound, Booting, Stopping, files
    <3>5. at'[d] \in (Booting \ {"check"}) \union {"run"}
      BY <1>d, <3>2
    <3>6. QED
      BY <1>u, <2>1, <3>2, <3>3, <3>4, <3>5, SoloBoots
  <2>4. QED
    BY <2>2, <2>3
<1>2. CASE Lock(d)
  <2>1. Goes(d, "lock", "clear pane") /\ pidFile' = d /\ sock' = sock
    BY <1>2 DEF Lock
  <2>2. at[d] = "lock" /\ at'[d] = "clear pane" /\ \A e \in Daemon \ {d} : at'[e] = at[e]
    BY <1>u, <1>d, <2>1, GoesMoves
  <2>3. Sound(d)'
    BY <2>1, <2>2 DEF Sound, Booting, Stopping
  <2>4. /\ at[d] \in Booting \ {"check"} /\ at[d] # "record"
        /\ at'[d] \in (Booting \ {"check"}) \union {"run"}
    BY <1>d, <2>2
  <2>5. QED
    BY <1>u, <1>b, <2>1, <2>2, <2>3, <2>4, SoloBoots
<1>3. CASE Record(d)
  <2>1. Goes(d, "record", "run") /\ inode' = [inode EXCEPT ![d] = sock["mcp"]] /\ UNCHANGED <<pidFile, sock>>
    BY <1>3 DEF Record, files
  <2>2. at[d] = "record" /\ at'[d] = "run" /\ \A e \in Daemon \ {d} : at'[e] = at[e]
    BY <1>u, <1>d, <2>1, GoesMoves
  <2>3. sock["mcp"] = d /\ pidFile = d
    BY <1>s, <2>2 DEF Sound, Booting
  <2>4. inode'[d] = d
    BY <2>1, <2>3 DEF Types
  <2>5. Sound(d)'
    BY <2>1, <2>2, <2>3, <2>4 DEF Sound
  <2>6. at[d] \in Booting \ {"check"} /\ at'[d] \in (Booting \ {"check"}) \union {"run"}
    BY <1>d, <2>2
  <2>7. QED
    BY <1>u, <1>b, <2>1, <2>2, <2>5, <2>6, SoloBoots
<1>4. CASE Watch(d)
  <2>1. at[d] = "run" /\ Replaced(d)
    BY <1>4 DEF Watch, Goes
  <2>2. sock["mcp"] = d /\ inode[d] = d
    BY <1>s, <2>1 DEF Sound
  <2>3. QED
    BY <1>s, <2>1, <2>2 DEF Replaced
<1>5. CASE Exit(d)
  <2>1. /\ at[d] = "unlink pid" /\ at'[d] = "dead" /\ \A e \in Daemon \ {d} : at'[e] = at[e]
        /\ sock' = sock
    BY <1>5, <1>u, <1>d, GoesMoves DEF Exit
  <2>2. Sound(d)'
    BY <2>1 DEF Sound, Booting, Stopping
  <2>3. at[d] \in Stopping
    BY <1>d, <2>1
  <2>4. QED
    BY <1>u, <2>1, <2>2, <2>3, SoloStops
<1>6. CASE Clear(d, "pane") \/ Bind(d, "pane")
  <2>1. PICK from \in {"clear pane", "bind pane"}, to \in {"bind pane", "clear mcp"} :
          /\ Goes(d, from, to) /\ pidFile' = pidFile /\ sock'["mcp"] = sock["mcp"]
          /\ to = "bind pane" => sock'["pane"] = None
    <3>1. CASE Clear(d, "pane")
      <4>1. Goes(d, "clear pane", "bind pane") /\ sock' = [sock EXCEPT !["pane"] = None] /\ pidFile' = pidFile
        BY <3>1, Tables DEF Clear
      <4>2. sock'["pane"] = None /\ sock'["mcp"] = sock["mcp"]
        BY <4>1 DEF Types, Path
      <4>3. QED
        BY <4>1, <4>2
    <3>2. CASE Bind(d, "pane")
      <4>1. sock["pane"] # None => Goes(d, "bind pane", "dead")
        BY <3>2, Tables DEF Bind
      <4>2. sock["pane"] = None
        BY <1>s, <3>2, Tables DEF Bind, Goes, Sound
      <4>3. /\ Goes(d, "bind pane", "clear mcp") /\ pidFile' = pidFile
            /\ sock' = [sock EXCEPT !["pane"] = d]
        BY <3>2, <4>2, Tables DEF Bind
      <4>4. sock'["mcp"] = sock["mcp"]
        BY <4>3 DEF Types, Path
      <4>5. QED
        BY <4>3, <4>4
    <3>3. QED
      BY <1>6, <3>1, <3>2
  <2>2. at[d] = from /\ at'[d] = to /\ \A e \in Daemon \ {d} : at'[e] = at[e]
    BY <1>u, <1>d, <2>1, GoesMoves
  <2>3. pidFile = d
    BY <1>s, <2>2 DEF Sound, Booting
  <2>4. Sound(d)'
    BY <2>1, <2>2, <2>3 DEF Sound
  <2>5. /\ at[d] \in Booting \ {"check"} /\ at[d] # "record"
        /\ at'[d] \in (Booting \ {"check"}) \union {"run"}
    BY <1>d, <2>2
  <2>6. QED
    BY <1>u, <1>b, <2>1, <2>2, <2>4, <2>5, SoloBoots
<1>7. CASE Clear(d, "mcp") \/ Bind(d, "mcp")
  <2>1. PICK from \in {"clear mcp", "bind mcp"}, to \in {"bind mcp", "record"} :
          /\ Goes(d, from, to) /\ pidFile' = pidFile
          /\ from = "clear mcp" => to = "bind mcp" /\ sock'["mcp"] = None
          /\ from = "bind mcp" => to = "record" /\ sock'["mcp"] = d
    <3>1. CASE Clear(d, "mcp")
      <4>1. Goes(d, "clear mcp", "bind mcp") /\ sock' = [sock EXCEPT !["mcp"] = None] /\ pidFile' = pidFile
        BY <3>1, Tables DEF Clear
      <4>2. sock'["mcp"] = None
        BY <4>1 DEF Types, Path
      <4>3. QED
        BY <4>1, <4>2
    <3>2. CASE Bind(d, "mcp")
      <4>1. sock["mcp"] = None
        BY <1>s, <3>2, Tables DEF Bind, Goes, Sound
      <4>2. Goes(d, "bind mcp", "record") /\ sock' = [sock EXCEPT !["mcp"] = d] /\ pidFile' = pidFile
        BY <3>2, <4>1, Tables DEF Bind
      <4>3. sock'["mcp"] = d
        BY <4>2 DEF Types, Path
      <4>4. QED
        BY <4>2, <4>3
    <3>3. QED
      BY <1>7, <3>1, <3>2
  <2>2. at[d] = from /\ at'[d] = to /\ \A e \in Daemon \ {d} : at'[e] = at[e]
    BY <1>u, <1>d, <2>1, GoesMoves
  <2>3. pidFile = d
    BY <1>s, <2>2 DEF Sound, Booting
  <2>4. Sound(d)'
    BY <2>1, <2>2, <2>3 DEF Sound
  <2>5. /\ at[d] \in Booting \ {"check"} /\ at[d] # "record"
        /\ at'[d] \in (Booting \ {"check"}) \union {"run"}
    BY <1>d, <2>2
  <2>6. QED
    BY <1>u, <1>b, <2>1, <2>2, <2>4, <2>5, SoloBoots
<1>8. ASSUME NEW p \in Path, RemovePath(d, p)
      PROVE  SoloInv'
  <2>1. \A q \in Path : {StopAt[q][1], StopAt[q][2], StopAt[q][3]} \subseteq Stopping
    BY StopTable DEF Path, Stopping
  <2>2. PICK from \in Stopping, to \in Stopping : Goes(d, from, to) /\ pidFile' = pidFile
    BY <1>8, <2>1 DEF RemovePath
  <2>3. at[d] = from /\ at'[d] = to /\ \A e \in Daemon \ {d} : at'[e] = at[e]
    BY <1>u, <1>d, <2>2, GoesMoves
  <2>4. pidFile = d
    BY <1>s, <2>3 DEF Sound
  <2>5. to \notin Booting \union {"run"} /\ from \notin Booting
    BY PcSets
  <2>6. Sound(d)'
    BY <1>d, <2>2, <2>3, <2>4, <2>5 DEF Sound
  <2>7. sock'["mcp"] \in {sock["mcp"], None}
    BY <1>8 DEF RemovePath, Types, Path
  <2>8. QED
    BY <1>u, <2>3, <2>6, <2>7, SoloStops
<1>9. QED
  BY <1>1, <1>2, <1>3, <1>4, <1>5, <1>6, <1>7, <1>8 DEF DaemonStep, Path

-----------------------------------------------------------------------------
(***************************************************************************)
(* SoloInv, one launch step at a time.                                     *)
(***************************************************************************)

LEMMA OnlyLaunch ==
  ASSUME OneLaunch, NEW c \in Launch, cli[c].pc \notin {"idle", "done"},
         \A e \in Launch \ {c} : cli'[e] = cli[e], cli'[c].pc \notin {"idle", "done"}
  PROVE  Launching = {c} /\ Launching' = {c}
BY DEF OneLaunch, Launching

(* A launch step that leaves the daemons as they are and goes on. *)
LEMMA SoloAsks ==
  ASSUME SoloInv, NEW c \in Launch, cli[c].pc \notin {"idle", "done"},
         \A e \in Launch \ {c} : cli'[e] = cli[e],
         cli'[c].pc \notin {"idle", "done"}, Turn(c)',
         UNCHANGED <<at, version, inode, pidFile, doctor, installed, wanted, scenario>>,
         UNCHANGED sock \/ \A d \in Daemon : Alive(d) => at[d] \in Stopping
  PROVE  SoloInv'
<1>1. Launching = {c} /\ Launching' = {c}
  BY DEF SoloInv, OneLaunch, Launching
<1>2. ASSUME NEW d \in Daemon
      PROVE  Sound(d)' /\ (Alive(d)' <=> Alive(d))
  <2>1. Alive(d)' <=> Alive(d)
    BY DEF Alive
  <2>2. UNCHANGED <<at, inode, pidFile>> /\ Sound(d)
    BY DEF SoloInv
  <2>3. CASE UNCHANGED sock
    BY <2>1, <2>2, <2>3 DEF Sound
  <2>4. CASE Alive(d) => at[d] \in Stopping
    <3>1. at[d] \in Stopping \/ ~Alive(d)
      BY <2>4
    <3>2. at'[d] \notin {"bind pane", "bind mcp", "record", "run"}
      BY <2>2, <3>1 DEF Stopping, Alive, Booting
    <3>3. QED
      BY <2>1, <2>2, <3>2 DEF Sound
  <2>5. QED
    BY <2>1, <2>3, <2>4
<1>3. OneDaemon' /\ DoctorSpares'
  BY <1>2 DEF SoloInv, OneDaemon, DoctorSpares
<1>4. OneLaunch' /\ LastIsUp' /\ \A e \in Launching' : Turn(e)'
  BY <1>1 DEF OneLaunch, LastIsUp
<1>5. QED
  BY <1>2, <1>3, <1>4 DEF SoloInv

(* A launch ends. *)
LEMMA SoloEnds ==
  ASSUME Types, SoloInv, NEW c \in Launch, NEW from, from \notin {"idle", "done"},
         Ends(c, from), Booted, cli[c].calm => Up(cli[c].version),
         UNCHANGED <<files, daemons, installed, doctor, acts, scenario>>
  PROVE  SoloInv'
<1>1. /\ \A e \in Launch \ {c} : cli'[e] = cli[e]
      /\ cli[c].pc = from /\ cli'[c].pc = "done"
      /\ wanted' = IF cli[c].calm THEN cli[c].version ELSE None
  BY EndsFields
<1>2. UNCHANGED <<at, version, inode, pidFile, sock, doctor>>
  BY DEF daemons, files
<1>3. Launching = {c} /\ Launching' = {}
  BY <1>1 DEF SoloInv, OneLaunch, Launching
<1>4. \A d \in Daemon : Sound(d)' /\ (Alive(d)' <=> Alive(d))
  BY <1>2 DEF SoloInv, Sound, Alive
<1>5. OneDaemon' /\ DoctorSpares'
  BY <1>2, <1>4 DEF SoloInv, OneDaemon, DoctorSpares
<1>6. LastIsUp'
  <2>1. Booted'
    BY <1>2, <1>4 DEF Booted
  <2>2. ASSUME wanted' # None
        PROVE  Up(wanted)'
    <3>1. wanted' = cli[c].version /\ Up(cli[c].version)
      BY <1>1, <2>2
    <3>2. QED
      BY <1>2, <3>1 DEF Up
  <2>3. QED
    BY <2>1, <2>2 DEF LastIsUp
<1>7. QED
  BY <1>3, <1>4, <1>5, <1>6 DEF SoloInv, OneLaunch

(* A daemon that has opened its IPC server and does not stop answers. *)
LEMMA ReadyAnswers ==
  ASSUME Types, SoloInv, NEW d \in Daemon, at[d] \in {"record", "run"}
  PROVE  Answering /\ sock["mcp"] = d /\ Listening(d)
BY CountFacts DEF SoloInv, Sound, Answering, Listening

LEMMA SteadyRuns ==
  ASSUME Types, Steady, NEW d \in Daemon, Alive(d)
  PROVE  at[d] = "run"
BY PcSets DEF Steady, Alive

(* With none that boots there is one daemon at most. *)
LEMMA BootedAlone ==
  ASSUME SoloInv, Booted, NEW d \in Daemon, NEW e \in Daemon, Alive(d), Alive(e)
  PROVE  d = e
<1>1. at[d] # "check" /\ at[e] # "check"
  BY DEF Booted, Stopping
<1>2. QED
  BY <1>1 DEF SoloInv, OneDaemon

(* A launch signals the only daemon there is. *)
LEMMA SoloSignals ==
  ASSUME Types, SoloInv, NEW c \in Launch, cli[c].pc \in {"term", "wait"},
         \A e \in Launch \ {c} : cli'[e] = cli[e], cli'[c].pc \notin {"idle", "done"},
         NEW t \in Daemon, \A d \in Daemon : Alive(d) => d = t,
         at[t] = "run" => at'[t] \in {"close mcp", "dead"},
         at[t] # "run" => at'[t] \in {at[t], "dead"},
         \A d \in Daemon \ {t} : at'[d] = at[d],
         Turn(c)', UNCHANGED <<files, version, inode, installed, doctor, wanted, scenario>>
  PROVE  SoloInv'
<1>1. Launching = {c} /\ Launching' = {c}
  <2>1. cli[c].pc \notin {"idle", "done"} /\ OneLaunch
    BY DEF SoloInv
  <2>2. QED
    BY <2>1, OnlyLaunch
<1>2. ASSUME NEW d \in Daemon, Alive(d)'
      PROVE  d = t /\ Alive(d)
  <2>1. CASE d = t
    BY <1>2, <2>1, PcSets DEF Alive
  <2>2. CASE d # t
    BY <1>2, <2>2 DEF Alive
  <2>3. QED
    BY <2>1, <2>2
<1>3. OneDaemon' /\ DoctorSpares'
  BY <1>2 DEF SoloInv, OneDaemon, DoctorSpares
<1>4. Sound(t)'
  <2>1. UNCHANGED <<pidFile, sock, inode>> /\ Sound(t)
    BY DEF files, SoloInv
  <2>2. CASE at'[t] = "dead"
    BY <2>2 DEF Sound, Booting, Stopping
  <2>3. CASE at[t] = "run" /\ at'[t] = "close mcp"
    BY <2>1, <2>3 DEF Sound, Booting, Stopping
  <2>4. CASE at'[t] = at[t]
    BY <2>1, <2>4 DEF Sound
  <2>5. QED
    BY <2>2, <2>3, <2>4
<1>5. ASSUME NEW d \in Daemon \ {t}
      PROVE  Sound(d)'
  <2>1. ~Alive(d) /\ at'[d] = at[d]
    OBVIOUS
  <2>2. QED
    BY <2>1 DEF Sound, Alive, Booting
<1>6. OneLaunch' /\ LastIsUp' /\ \A e \in Launching' : Turn(e)'
  BY <1>1 DEF OneLaunch, LastIsUp
<1>7. QED
  BY <1>3, <1>4, <1>5, <1>6 DEF SoloInv

LEMMA LaunchStepSolo ==
  ASSUME Types, AskedAll, SoloInv, scenario.solo, NEW c \in Launch, LaunchStep(c)
  PROVE  SoloInv'
<1>p. cli[c].pc \notin {"idle", "done"}
  BY DEF LaunchStep, Ping, Connect, Answer, NoAnswer, SendTerm, AwaitExit, Clean, Spawn, Poll,
         Steps, Ends
<1>t. Turn(c)
  BY <1>p DEF SoloInv, Launching
<1>r. cli[c].version = installed /\ ~doctor.running
  BY <1>t DEF Turn
<1>s. UNCHANGED scenario
  BY DEF LaunchStep, Ping, Connect, Answer, NoAnswer, SendTerm, AwaitExit, Clean, Spawn, Poll
<1>n. ASSUME Booted, ~Answering
      PROVE  \A d \in Daemon : Alive(d) => at[d] \in Stopping /\ ~NoneStopping
  <2>1. ASSUME NEW d \in Daemon, Alive(d)
        PROVE  at[d] \in Stopping
    BY <1>n, <2>1, ReadyAnswers DEF Booted
  <2>2. QED
    BY <2>1 DEF NoneStopping
<1>1. CASE Ping(c)
  <2>1. PICK to \in {"connect", "clean"} : Steps(c, "ping", to) /\ (to = "clean" => ~Answering)
    BY <1>1 DEF Ping
  <2>2. /\ \A e \in Launch \ {c} : cli'[e] = cli[e]
        /\ cli[c].pc = "ping" /\ cli'[c].pc = to /\ cli'[c].version = cli[c].version
        /\ cli'[c].calm = cli[c].calm
    BY <2>1, StepsFields, PcNames
  <2>3. UNCHANGED <<at, version, inode, pidFile, sock, installed, doctor, wanted>>
    BY <1>1 DEF Ping, daemons, files
  <2>4. Booted /\ Booted' /\ (cli[c].calm => NoneStopping /\ NoneStopping')
    BY <1>t, <2>2, <2>3 DEF Turn, Booted, Alive, NoneStopping
  <2>5. to = "clean" => \A d \in Daemon : Alive(d)' => at'[d] \in Stopping /\ ~cli[c].calm
    BY <1>n, <2>1, <2>3, <2>4 DEF Alive
  <2>6. Turn(c)'
    BY <1>r, <2>2, <2>3, <2>4, <2>5 DEF Turn
  <2>7. QED
    BY <1>p, <1>s, <2>2, <2>3, <2>6, SoloAsks
<1>2. CASE Connect(c)
  <2>1. cli[c].pc = "connect" /\ UNCHANGED <<at, version, inode, pidFile, sock, installed, doctor, wanted>>
    BY <1>2 DEF Connect, Steps, daemons, files
  <2>2. Booted /\ Booted' /\ (cli[c].calm => NoneStopping /\ NoneStopping')
    BY <1>t, <2>1 DEF Turn, Booted, Alive, NoneStopping
  <2>3. CASE ~Answering /\ Steps(c, "connect", "clean")
    <3>1. /\ \A e \in Launch \ {c} : cli'[e] = cli[e]
          /\ cli'[c].pc = "clean" /\ cli'[c].version = cli[c].version /\ cli'[c].calm = cli[c].calm
      BY <2>3, StepsFields, PcNames
    <3>2. \A d \in Daemon : Alive(d)' => at'[d] \in Stopping /\ ~cli[c].calm
      BY <1>n, <2>1, <2>2, <2>3 DEF Alive
    <3>3. Turn(c)'
      BY <1>r, <2>1, <2>2, <3>1, <3>2 DEF Turn
    <3>4. QED
      BY <1>p, <1>s, <2>1, <3>1, <3>3, SoloAsks
  <2>4. CASE /\ Answering
             /\ cli' = [cli EXCEPT ![c] = [@ EXCEPT !.pc = "ask", !.target = sock["mcp"]]]
    <3>1. PICK t \in Daemon : t = sock["mcp"] /\ Listening(t) /\ Alive(t)
      BY <2>4, PcFacts DEF Answering, Types, Path
    <3>2. /\ \A e \in Launch \ {c} : cli'[e] = cli[e]
          /\ cli'[c].pc = "ask" /\ cli'[c].target = t /\ cli'[c].version = cli[c].version
          /\ cli'[c].calm = cli[c].calm
      BY <2>4, <3>1, ConnectFields
    <3>3. \A d \in Daemon : Alive(d)' => d = t
      BY <2>1, <2>2, <3>1, BootedAlone DEF Alive
    <3>4. cli[c].calm => at'[t] \in {"record", "run"}
      BY <2>1, <2>2, <3>1 DEF Booted, NoneStopping
    <3>5. Turn(c)'
      BY <1>r, <2>1, <2>2, <3>2, <3>3, <3>4 DEF Turn
    <3>6. QED
      BY <1>p, <1>s, <2>1, <3>2, <3>5, SoloAsks
  <2>5. QED
    BY <1>2, <2>3, <2>4 DEF Connect
<1>3. CASE Answer(c)
  <2>1. cli[c].pc = "ask" /\ UNCHANGED <<at, version, inode, pidFile, sock, installed, doctor>>
    BY <1>3 DEF Answer, daemons, files
  <2>2. /\ Booted /\ cli[c].target \in Daemon
        /\ \A d \in Daemon : Alive(d) => d = cli[c].target
        /\ cli[c].calm => NoneStopping /\ at[cli[c].target] \in {"record", "run"}
    BY <1>t, <2>1 DEF Turn, AskedAll, Asked
  <2>3. CASE version[cli[c].target] = cli[c].version /\ Ends(c, "ask")
    <3>1. cli[c].calm => Up(cli[c].version)
      BY <2>2, <2>3 DEF Up, Booting
    <3>2. QED
      BY <1>3, <2>2, <2>3, <3>1, SoloEnds DEF Answer
  <2>4. CASE Steps(c, "ask", "term") /\ UNCHANGED wanted
    <3>1. /\ \A e \in Launch \ {c} : cli'[e] = cli[e]
          /\ cli'[c].pc = "term" /\ cli'[c].calm = cli[c].calm
          /\ cli'[c].version = cli[c].version /\ cli'[c].target = cli[c].target
      BY <2>4, StepsFields, PcNames
    <3>2. Booted' /\ (cli[c].calm => NoneStopping')
          /\ \A d \in Daemon : Alive(d)' => d = cli[c].target
      BY <2>1, <2>2 DEF Booted, NoneStopping, Alive
    <3>3. Turn(c)'
      BY <1>r, <2>1, <2>2, <3>1, <3>2 DEF Turn
    <3>4. QED
      BY <1>p, <1>s, <2>1, <2>4, <3>1, <3>3, SoloAsks
  <2>5. QED
    BY <1>3, <2>3, <2>4 DEF Answer
<1>4. CASE NoAnswer(c)
  <2>1. /\ cli[c].pc = "ask" /\ ~Listening(cli[c].target)
        /\ UNCHANGED <<at, version, inode, pidFile, sock, installed, doctor>>
    BY <1>4 DEF NoAnswer, daemons, files
  <2>2. /\ Booted /\ ~cli[c].calm
        /\ \A d \in Daemon : Alive(d) => d = cli[c].target
    BY <1>t, <2>1 DEF Turn, Listening
  <2>3. CASE Ends(c, "ask")
    BY <1>4, <2>2, <2>3, SoloEnds DEF NoAnswer
  <2>4. CASE Steps(c, "ask", "clean") /\ UNCHANGED wanted
    <3>1. /\ \A e \in Launch \ {c} : cli'[e] = cli[e]
          /\ cli'[c].pc = "clean" /\ cli'[c].version = cli[c].version /\ cli'[c].calm = cli[c].calm
      BY <2>4, StepsFields, PcNames
    <3>2. \A d \in Daemon : Alive(d) => at[d] \in Stopping
      BY <2>1, <2>2 DEF Booted, Listening
    <3>3. Booted' /\ \A d \in Daemon : Alive(d)' => at'[d] \in Stopping
      BY <2>1, <2>2, <3>2 DEF Booted, Alive
    <3>4. Turn(c)'
      BY <1>r, <2>1, <2>2, <3>1, <3>3 DEF Turn
    <3>5. QED
      BY <1>p, <1>s, <2>1, <2>4, <3>1, <3>4, SoloAsks
  <2>5. QED
    BY <1>4, <2>3, <2>4 DEF NoAnswer
<1>5. CASE SendTerm(c)
  <2>1. /\ \A e \in Launch \ {c} : cli'[e] = cli[e]
        /\ cli[c].pc = "term" /\ cli'[c].pc = "wait"
        /\ cli'[c].version = cli[c].version /\ cli'[c].target = cli[c].target
    BY <1>5, StepsFields, PcNames DEF SendTerm
  <2>2. PICK t \in Daemon : t = cli[c].target
    BY <2>1, Signalled
  <2>3. at' = [at EXCEPT ![t] = Terminated(t)]
        /\ UNCHANGED <<files, version, inode, installed, doctor, wanted>>
    BY <1>5, <2>2 DEF SendTerm
  <2>4. at'[t] = Terminated(t) /\ \A d \in Daemon \ {t} : at'[d] = at[d]
    BY <2>3 DEF Types
  <2>5. /\ at[t] = "run" => at'[t] = "close mcp"
        /\ at[t] # "run" => at'[t] \in {at[t], "dead"} /\ ~(Alive(t) /\ at'[t] = at[t])
    <3>1. Alive(t) => at[t] # "dead"
      BY PcFacts
    <3>2. QED
      BY <2>4, <3>1 DEF Terminated
  <2>6. \A d \in Daemon : Alive(d) => d = t
    BY <1>t, <2>1, <2>2 DEF Turn
  <2>7. \A d \in Daemon : Alive(d)' => d = t /\ at'[d] \in Stopping
    <3>1. Alive(t)' => at'[t] = "close mcp"
      BY <2>5, PcSets DEF Alive
    <3>2. \A d \in Daemon \ {t} : ~Alive(d)'
      BY <2>4, <2>6 DEF Alive
    <3>3. QED
      BY <3>1, <3>2 DEF Stopping
  <2>8. Turn(c)'
    BY <1>r, <2>1, <2>2, <2>3, <2>7 DEF Turn, Booted
  <2>9. QED
    BY <1>s, <2>1, <2>3, <2>4, <2>5, <2>6, <2>8, SoloSignals
<1>6. CASE AwaitExit(c)
  <2>1. /\ \A e \in Launch \ {c} : cli'[e] = cli[e]
        /\ cli[c].pc = "wait" /\ cli'[c].pc = "clean"
        /\ cli'[c].version = cli[c].version
    BY <1>6, StepsFields, PcNames DEF AwaitExit
  <2>2. PICK t \in Daemon : t = cli[c].target
    BY <2>1, Signalled
  <2>3. \A d \in Daemon : Alive(d) => d = t
    BY <1>t, <2>1, <2>2 DEF Turn
  <2>4. Killed(t) \in {at[t], "dead"} /\ (Alive(t) => Killed(t) = "dead")
    BY DEF Killed
  <2>5. at' = [at EXCEPT ![t] = Killed(t)]
        /\ UNCHANGED <<files, version, inode, installed, doctor, wanted>>
    BY <1>6, <2>2 DEF AwaitExit
  <2>6. at'[t] = Killed(t) /\ \A d \in Daemon \ {t} : at'[d] = at[d]
    BY <2>5 DEF Types
  <2>7. \A d \in Daemon : ~Alive(d)'
    <3>1. ~Alive(t)'
      BY <2>4, <2>6, PcSets DEF Alive
    <3>2. \A d \in Daemon \ {t} : ~Alive(d)'
      BY <2>3, <2>6 DEF Alive
    <3>3. QED
      BY <3>1, <3>2
  <2>8. Turn(c)'
    BY <1>r, <2>1, <2>5, <2>7 DEF Turn, Booted
  <2>9. at[t] = "run" => at'[t] \in {"close mcp", "dead"}
    BY <2>4, <2>6 DEF Alive
  <2>10. at[t] # "run" => at'[t] \in {at[t], "dead"}
    BY <2>4, <2>6
  <2>11. QED
    BY <1>s, <2>1, <2>3, <2>5, <2>6, <2>8, <2>9, <2>10, SoloSignals
<1>7. CASE Clean(c)
  <2>1. /\ \A e \in Launch \ {c} : cli'[e] = cli[e]
        /\ cli[c].pc = "clean" /\ cli'[c].pc = "spawn" /\ cli'[c].version = cli[c].version
        /\ cli'[c].calm = cli[c].calm
    BY <1>7, StepsFields, PcNames DEF Clean
  <2>2. UNCHANGED <<at, version, inode, pidFile, installed, doctor, wanted>>
    BY <1>7 DEF Clean, daemons
  <2>3. \A d \in Daemon : Alive(d) => at[d] \in Stopping /\ ~cli[c].calm
    BY <1>t, <2>1 DEF Turn
  <2>4. \A d \in Daemon : Alive(d)' => at'[d] \in Stopping /\ ~cli[c].calm
    BY <2>2, <2>3 DEF Alive
  <2>5. sock'["mcp"] = None
    BY <1>7 DEF Clean, Types, Path
  <2>6. Turn(c)'
    BY <1>r, <2>1, <2>2, <2>4, <2>5 DEF Turn, Booted
  <2>7. QED
    BY <1>p, <1>s, <2>1, <2>2, <2>3, <2>6, SoloAsks
<1>8. CASE Spawn(c)
  <2>1. /\ \A e \in Launch \ {c} : cli'[e] = cli[e]
        /\ cli[c].pc = "spawn" /\ cli'[c].pc = "poll" /\ cli'[c].version = cli[c].version
        /\ cli'[c].calm = cli[c].calm
    BY <1>8, StepsFields, PcNames DEF Spawn
  <2>2. PICK n \in Daemon : n = spawned + 1 /\ at[n] = "new"
    BY <2>1, Spawned
  <2>3. /\ at' = [at EXCEPT ![n] = "check"] /\ version' = [version EXCEPT ![n] = installed]
        /\ UNCHANGED <<inode, pidFile, sock, installed, doctor>>
    BY <1>8, <2>2 DEF Spawn, files
  <2>4. /\ at'[n] = "check" /\ version'[n] = installed
        /\ \A d \in Daemon \ {n} : at'[d] = at[d]
    BY <2>3 DEF Types
  <2>5. /\ \A d \in Daemon : Alive(d) => at[d] \in Stopping /\ ~cli[c].calm
        /\ sock["mcp"] # None => at[sock["mcp"]] \in {"record", "run"}
    BY <1>t, <2>1 DEF Turn
  <2>6. ASSUME NEW d \in Daemon
        PROVE  (Alive(d)' => d = n \/ Alive(d)) /\ Sound(d)'
    <3>1. CASE d = n
      BY <2>4, <3>1 DEF Sound, Booting, Stopping
    <3>2. CASE d # n
      <4>1. at'[d] = at[d] /\ Sound(d)
        BY <2>4, <3>2 DEF SoloInv
      <4>2. QED
        BY <2>3, <4>1 DEF Sound, Alive
    <3>3. QED
      BY <3>1, <3>2
  <2>7. Up(installed)'
    BY <2>3, <2>4 DEF Up, Booting
  <2>8. cli[c].calm => NoneStopping'
    <3>1. at'[n] \notin Stopping
      BY <2>4 DEF Stopping
    <3>2. cli[c].calm => \A d \in Daemon \ {n} : at'[d] \notin Stopping
      BY <2>4, <2>5 DEF Alive
    <3>3. QED
      BY <3>1, <3>2 DEF NoneStopping
  <2>9. ASSUME sock'["mcp"] # None
        PROVE  at'[sock'["mcp"]] \in {"record", "run"}
    <3>1. sock["mcp"] \in Daemon /\ sock["mcp"] # n
      BY <2>2, <2>3, <2>5, <2>9 DEF Types, Path
    <3>2. QED
      BY <2>3, <2>4, <2>5, <2>9, <3>1
  <2>10. Turn(c)'
    BY <1>r, <2>1, <2>3, <2>7, <2>8, <2>9 DEF Turn
  <2>11. Launching = {c} /\ Launching' = {c}
    BY <1>p, <2>1, OnlyLaunch DEF SoloInv
  <2>12. DoctorSpares'
    BY <1>r, <2>3 DEF DoctorSpares
  <2>13. OneDaemon'
    <3>1. ASSUME NEW d \in Daemon \ {n}, Alive(d)'
          PROVE  at'[n] = "check" /\ at'[d] \in Stopping
      BY <2>4, <2>5, <2>6, <3>1
    <3>2. ASSUME NEW d \in Daemon \ {n}, NEW e \in Daemon \ {n}, Alive(d)', Alive(e)'
          PROVE  d = e
      <4>1. Alive(d) /\ Alive(e) /\ at[d] \in Stopping /\ at[e] \in Stopping
        BY <2>5, <2>6, <3>2
      <4>2. at[d] # "check" /\ at[e] # "check"
        BY <4>1 DEF Stopping
      <4>3. QED
        BY <4>1, <4>2 DEF SoloInv, OneDaemon
    <3>3. QED
      BY <3>1, <3>2 DEF OneDaemon
  <2>14. OneLaunch' /\ LastIsUp' /\ \A e \in Launching' : Turn(e)'
    BY <2>10, <2>11 DEF OneLaunch, LastIsUp
  <2>15. QED
    BY <2>6, <2>12, <2>13, <2>14 DEF SoloInv
<1>9. CASE Poll(c)
  <2>1. Ends(c, "poll") /\ cli[c].pc = "poll" /\ (Answering \/ Steady)
    BY <1>9 DEF Poll, Ends, Steps
  <2>2. cli[c].calm => Up(cli[c].version)
    BY <1>t, <2>1 DEF Turn
  <2>3. CASE Answering
    <3>1. PICK t \in Daemon : t = sock["mcp"] /\ at[t] \in {"record", "run"}
      BY <1>t, <2>1, <2>3 DEF Turn, Answering, Types, Path
    <3>2. at[t] \in (Booting \ {"check"}) \union {"run"}
      BY <3>1 DEF Booting
    <3>3. Booted
      BY <3>1, <3>2, Others DEF Booted
    <3>4. QED
      BY <1>9, <2>1, <2>2, <3>3, SoloEnds DEF Poll
  <2>4. CASE Steady
    <3>1. Booted
      BY <2>4, SteadyRuns DEF Booted
    <3>2. QED
      BY <1>9, <2>1, <2>2, <3>1, SoloEnds DEF Poll
  <2>5. QED
    BY <2>1, <2>3, <2>4
<1>10. QED
  BY <1>1, <1>2, <1>3, <1>4, <1>5, <1>6, <1>7, <1>8, <1>9 DEF LaunchStep

LEMMA StartSolo ==
  ASSUME Types, SoloInv, scenario.solo, NEW c \in Launch, Start(c)
  PROVE  SoloInv'
<1>1. Launching = {} /\ Booted /\ ~doctor.running
  BY DEF Start, SoloInv, LastIsUp
<1>c. NoneStopping \in BOOLEAN
  BY DEF NoneStopping
<1>2. /\ cli' = [cli EXCEPT ![c] = [@ EXCEPT !.pc = "ping", !.version = installed,
                                            !.calm = NoneStopping]]
      /\ UNCHANGED <<at, version, inode, pidFile, sock, installed, doctor, wanted, scenario>>
  BY DEF Start, daemons, files
<1>3. /\ \A e \in Launch \ {c} : cli'[e] = cli[e]
      /\ cli'[c].pc = "ping" /\ cli'[c].version = installed /\ cli'[c].calm = NoneStopping
  BY <1>c, <1>2, StartFields
<1>4. Launching' = {c}
  BY <1>1, <1>3 DEF Launching
<1>5. Booted' /\ (NoneStopping' <=> NoneStopping)
  BY <1>1, <1>2 DEF Booted, NoneStopping, Alive
<1>6. Turn(c)'
  BY <1>1, <1>2, <1>3, <1>5 DEF Turn
<1>7. \A d \in Daemon : Sound(d)' /\ (Alive(d)' <=> Alive(d))
  BY <1>2 DEF SoloInv, Sound, Alive
<1>8. OneDaemon' /\ DoctorSpares'
  BY <1>2, <1>7 DEF SoloInv, OneDaemon, DoctorSpares
<1>9. QED
  BY <1>4, <1>6, <1>7, <1>8 DEF SoloInv, OneLaunch, LastIsUp

(* Nobody acts while a launch is under way, ... *)
LEMMA StopSolo ==
  ASSUME Types, SoloInv, scenario.solo, NEW d \in Daemon, Stop(d)
  PROVE  SoloInv'
<1>1. Launching = {} /\ Launching' = {} /\ Booted
  BY DEF Stop, Acts, Launching, SoloInv, LastIsUp
<1>2. Alive(d) /\ wanted' = None /\ UNCHANGED <<pidFile, sock, inode, doctor, scenario>>
  BY DEF Stop, files
<1>3. PICK p \in {"close mcp", "dead"} : at' = [at EXCEPT ![d] = p] /\ (p = "close mcp" => at[d] = "run")
  BY <1>2 DEF Stop, Terminated, Killed
<1>4. at'[d] = p /\ \A e \in Daemon \ {d} : at'[e] = at[e] /\ ~Alive(e) /\ ~Alive(e)'
  BY <1>1, <1>2, <1>3, BootedAlone DEF Types, Alive
<1>5. Sound(d)'
  <2>1. CASE p = "dead"
    BY <1>4, <2>1 DEF Sound, Booting, Stopping
  <2>2. CASE p = "close mcp"
    <3>1. pidFile = d
      BY <1>3, <2>2 DEF SoloInv, Sound
    <3>2. QED
      BY <1>2, <1>4, <2>2, <3>1 DEF Sound
  <2>3. QED
    BY <2>1, <2>2
<1>6. \A e \in Daemon \ {d} : Sound(e)'
  BY <1>4 DEF Sound, Alive, Booting
<1>7. OneDaemon' /\ DoctorSpares'
  BY <1>2, <1>4 DEF SoloInv, OneDaemon, DoctorSpares
<1>8. Booted'
  <2>1. Alive(d)' => at'[d] \in Stopping
    BY <1>4, PcSets DEF Alive, Stopping
  <2>2. QED
    BY <1>4, <2>1 DEF Booted
<1>9. QED
  BY <1>1, <1>2, <1>5, <1>6, <1>7, <1>8 DEF SoloInv, OneLaunch, LastIsUp

LEMMA UpgradeSolo ==
  ASSUME Types, SoloInv, scenario.solo, Upgrade
  PROVE  SoloInv'
<1>1. Launching = {} /\ Launching' = {}
  BY DEF Upgrade, Acts, Launching
<1>2. UNCHANGED <<at, version, inode, pidFile, sock, doctor, wanted, scenario>>
  BY DEF Upgrade, files, daemons
<1>3. \A d \in Daemon : Sound(d)' /\ (Alive(d)' <=> Alive(d))
  BY <1>2 DEF SoloInv, Sound, Alive
<1>4. OneDaemon' /\ DoctorSpares'
  BY <1>2, <1>3 DEF SoloInv, OneDaemon, DoctorSpares
<1>5. LastIsUp'
  BY <1>1, <1>2, <1>3 DEF LastIsUp, Booted, Up, SoloInv
<1>6. QED
  BY <1>1, <1>3, <1>4, <1>5 DEF SoloInv, OneLaunch

(* ... so the PID file doctor reads in a profile's home names the daemon   *)
(* that is alive, ...                                                      *)
LEMMA DoctorReadsSolo ==
  ASSUME Types, SoloInv, scenario.solo, DoctorReads
  PROVE  SoloInv'
<1>1. Launching = {} /\ Launching' = {} /\ Booted
  BY DEF DoctorReads, Acts, Launching, SoloInv, LastIsUp
<1>2. UNCHANGED <<at, version, inode, pidFile, sock, wanted, scenario>>
      /\ doctor' = [running |-> TRUE, legit |-> IF scenario.profile THEN pidFile ELSE None]
  BY DEF DoctorReads, files, daemons
<1>3. \A d \in Daemon : Sound(d)' /\ (Alive(d)' <=> Alive(d))
  BY <1>2 DEF SoloInv, Sound, Alive
<1>4. \A d \in Daemon : Alive(d) => d = pidFile
  BY <1>1 DEF SoloInv, Sound, Booted, Booting
<1>5. scenario.profile => doctor'.legit = pidFile
  BY <1>2
<1>6. DoctorSpares' /\ OneDaemon'
  BY <1>2, <1>3, <1>4, <1>5 DEF DoctorSpares, SoloInv, OneDaemon
<1>7. LastIsUp'
  BY <1>1, <1>2, <1>3 DEF LastIsUp, Booted, Up, SoloInv
<1>8. QED
  BY <1>1, <1>3, <1>6, <1>7 DEF SoloInv, OneLaunch

(* ... and doctor finds nobody else to kill; in the default home it kills  *)
(* them all.                                                               *)
LEMMA DoctorKillsSolo ==
  ASSUME Types, SoloInv, DoctorKills
  PROVE  SoloInv'
<1>1. doctor.running /\ ~doctor'.running /\ UNCHANGED <<version, inode, pidFile, sock, scenario>>
  BY DEF DoctorKills, files
<1>2. Launching = {} /\ Launching' = {} /\ Booted
  <2>1. \A c \in Launching : ~doctor.running
    BY DEF SoloInv, Turn
  <2>2. Launching' = Launching
    BY DEF DoctorKills, Launching
  <2>3. QED
    BY <1>1, <2>1, <2>2 DEF SoloInv, LastIsUp
<1>3. \A d \in Daemon : at'[d] = IF d = doctor.legit THEN at[d] ELSE Killed(d)
  BY DEF DoctorKills
<1>4. ASSUME NEW d \in Daemon
      PROVE  at'[d] = at[d] \/ ~Alive(d)'
  <2>1. Killed(d) = at[d] \/ Killed(d) = "dead"
    BY DEF Killed
  <2>2. at'[d] = at[d] \/ at'[d] = "dead"
    BY <1>3, <2>1
  <2>3. QED
    BY <2>2, PcSets DEF Alive
<1>5. \A d \in Daemon : Sound(d)' /\ (Alive(d)' => Alive(d) /\ at'[d] = at[d])
  <2>1. ASSUME NEW d \in Daemon, at'[d] = at[d]
        PROVE  Sound(d)' /\ (Alive(d)' => Alive(d))
    <3>1. Sound(d) /\ UNCHANGED <<inode, pidFile, sock>>
      BY <1>1 DEF SoloInv
    <3>2. QED
      BY <2>1, <3>1 DEF Sound, Alive
  <2>2. ASSUME NEW d \in Daemon, ~Alive(d)'
        PROVE  Sound(d)'
    BY <2>2 DEF Sound, Alive, Booting
  <2>3. QED
    BY <1>4, <2>1, <2>2
<1>6. OneDaemon' /\ DoctorSpares' /\ Booted'
  BY <1>1, <1>2, <1>5, BootedAlone DEF OneDaemon, DoctorSpares, Booted
<1>7. wanted' # None => Up(wanted)'
  <2>1. CASE scenario.profile
    <3>1. wanted' = wanted
      BY <2>1 DEF DoctorKills
    <3>2. \A d \in Daemon : Alive(d) => d = doctor.legit
      BY <1>1, <2>1 DEF SoloInv, DoctorSpares
    <3>3. \A d \in Daemon : at'[d] = at[d]
      BY <1>3, <3>2 DEF Killed
    <3>4. QED
      BY <1>1, <1>2, <3>1, <3>3 DEF SoloInv, LastIsUp, Up
  <2>2. CASE ~scenario.profile
    BY <2>2 DEF DoctorKills
  <2>3. QED
    BY <2>1, <2>2
<1>8. QED
  BY <1>2, <1>5, <1>6, <1>7 DEF SoloInv, OneLaunch, LastIsUp

-----------------------------------------------------------------------------
LEMMA InitSolo == Init => SoloInv
<1> SUFFICES ASSUME Init PROVE SoloInv
  OBVIOUS
<1>1. \A d \in Daemon : at[d] = "new"
  BY DEF Init
<1>2. \A d \in Daemon : ~Alive(d) /\ Sound(d)
  BY <1>1, PcSets DEF Alive, Sound, Booting
<1>3. cli = [c \in Launch |-> [pc |-> "idle", version |-> None, target |-> None, calm |-> TRUE]]
      /\ wanted = None /\ ~doctor.running
  BY DEF Init
<1>4. Launching = {}
  <2>1. \A c \in Launch : cli[c].pc = "idle"
    BY <1>3
  <2>2. QED
    BY <2>1 DEF Launching
<1>5. QED
  BY <1>2, <1>3, <1>4 DEF SoloInv, OneDaemon, OneLaunch, DoctorSpares, LastIsUp, Booted

LEMMA NextSolo == LifeInv /\ [Next]_vars => OneByOne'
<1> SUFFICES ASSUME LifeInv, [Next]_vars, scenario'.solo PROVE SoloInv'
  BY DEF OneByOne
<1>1. Types /\ AskedAll
  BY DEF LifeInv, AskedAll
<1>2. scenario' = scenario
  BY DEF Next, vars, DaemonStep, Check, Lock, Record, Watch, Exit, Clear, Bind, RemovePath, Stop,
         Start, LaunchStep, Ping, Connect, Answer, NoAnswer, SendTerm, AwaitExit, Clean, Spawn,
         Poll, Upgrade, DoctorReads, DoctorKills
<1>3. scenario.solo /\ SoloInv
  BY <1>2 DEF LifeInv, OneByOne
<1>4. CASE UNCHANGED vars
  <2>1. UNCHANGED <<at, version, inode, pidFile, sock, cli, installed, doctor, wanted, scenario>>
    BY <1>4 DEF vars, files, daemons
  <2>2. \A d \in Daemon : Sound(d)' /\ (Alive(d)' <=> Alive(d))
    BY <1>3, <2>1 DEF SoloInv, Sound, Alive
  <2>3. Launching' = Launching /\ (Booted' <=> Booted) /\ (NoneStopping' <=> NoneStopping)
    BY <2>1, <2>2 DEF Launching, Booted, NoneStopping
  <2>4. \A v : Up(v) => Up(v)'
    BY <2>1 DEF Up
  <2>5. \A c \in Launching' : Turn(c)'
    <3>1. SUFFICES ASSUME NEW c \in Launching PROVE Turn(c)'
      BY <2>3
    <3>2. Turn(c) /\ cli'[c] = cli[c]
      BY <1>3, <2>1 DEF SoloInv
    <3>3. QED
      BY <2>1, <2>2, <2>3, <2>4, <3>2 DEF Turn
  <2>6. OneDaemon' /\ OneLaunch' /\ DoctorSpares' /\ LastIsUp'
    BY <1>3, <2>1, <2>2, <2>3, <2>4 DEF SoloInv, OneDaemon, OneLaunch, DoctorSpares, LastIsUp
  <2>7. QED
    BY <2>2, <2>5, <2>6 DEF SoloInv
<1>5. CASE Next
  BY <1>1, <1>3, <1>5, DaemonStepSolo, StopSolo, StartSolo, LaunchStepSolo, UpgradeSolo,
     DoctorReadsSolo, DoctorKillsSolo DEF Next
<1>6. QED
  BY <1>4, <1>5

(* The inductive invariant of the daemons and the launches. *)
THEOREM LifecycleInvariant == Spec => []LifeInv
<1>1. Init => LifeInv
  BY InitTypes, InitSolo DEF LifeInv, AskedAll, OneByOne
<1>2. LifeInv /\ [Next]_vars => LifeInv'
  <2>1. LifeInv => Types /\ AskedAll
    BY DEF LifeInv, AskedAll
  <2>2. Types' /\ AskedAll' /\ OneByOne' => LifeInv'
    BY DEF LifeInv, AskedAll
  <2>3. QED
    BY <2>1, <2>2, NextTypes, NextSolo
<1>3. QED
  BY <1>1, <1>2, PTL DEF Spec

(* The daemon that holds the relay session is the one the PID file names,  *)
(* when launches come one after the other.                                 *)
THEOREM LifecycleLockHolderOnly == Spec => []LockHolderOnly
<1>1. LifeInv => LockHolderOnly
  BY DEF LifeInv, OneByOne, SoloInv, Sound, LockHolderOnly
<1>2. QED
  BY <1>1, LifecycleInvariant, PTL

(* Once launches that came one after the other are over, of which the last *)
(* met no daemon in its shutdown, and nobody has stopped a daemon since    *)
(* (as doctor does in the default home), one of the last launch's version  *)
(* serves the IPC socket, whatever crashed and whatever files it left.     *)
THEOREM LifecycleServed == Spec => []Served
<1>1. LifeInv => Served
  <2> SUFFICES ASSUME LifeInv, scenario.solo, Settled, wanted # None
               PROVE  \E d \in Daemon : Serving(d) /\ version[d] = wanted
    BY DEF Served
  <2>1. Types /\ SoloInv /\ Launching = {} /\ Steady
    BY DEF LifeInv, OneByOne, Settled
  <2>2. PICK d \in Daemon : at[d] \in Booting \union {"run"} /\ version[d] = wanted
    BY <2>1 DEF SoloInv, LastIsUp, Up
  <2>3. at[d] = "run"
    BY <2>1, <2>2, SteadyRuns DEF Alive
  <2>4. sock["mcp"] = d
    BY <2>1, <2>3 DEF SoloInv, Sound
  <2>5. QED
    BY <2>2, <2>3, <2>4 DEF Serving
<1>2. QED
  BY <1>1, LifecycleInvariant, PTL
=============================================================================
