-------------------------- MODULE DaemonLifecycle --------------------------
(***************************************************************************)
(* The daemons of one LYY_HOME and the `lyy' launches that start, probe    *)
(* and replace them, through the files they share: the PID file, the IPC   *)
(* socket and the pane-registry socket.                                    *)
(*                                                                         *)
(* Daemons and launches are processes of their own, so a step is one       *)
(* operation on a file, one connection, or one signal.  A socket path is   *)
(* named by the daemon whose socket (whose inode) is bound there; the path *)
(* outlives the daemon.  A daemon is named by its pid, and a pid is not    *)
(* used twice.                                                             *)
(***************************************************************************)
EXTENDS Naturals, FiniteSets

CONSTANTS
  Launch,         \* runs of the `lyy' command
  Scenarios       \* what is assumed of a behaviour, one of:
                  \*   solo: one launch at a time, not disturbed by users,
                  \*     and daemons ready, or gone, within the 3 s that
                  \*     it waits for them?
                  \*   profile: is LYY_HOME one of ~/.lyy/profiles, or the
                  \*     default ~/.lyy?
                  \*   launches: the launches that happen
                  \*   maxActs: bound on crashes, stops, upgrades, doctors

ASSUME LifecycleAssumption ==
  /\ IsFiniteSet(Launch)
  /\ Scenarios \subseteq [solo : BOOLEAN, profile : BOOLEAN,
                           launches : SUBSET Launch, maxActs : Nat]

Daemon == 1..Cardinality(Launch)      \* a launch spawns one daemon at most
None == 0
Path == {"pane", "mcp"}

VARIABLES
  at,           \* at[d]: what daemon d does next
  version,      \* version[d]: the version it runs
  inode,        \* inode[d]: the socket its watchdog expects at mcp.sock
  spawned,      \* daemons spawned so far
  pidFile,      \* the pid in daemon.pid, or None
  sock,         \* sock[p]: whose socket is bound at p, or None
  cli,          \* the launches
  installed,    \* the version of the installed runtime
  doctor,       \* a run of `lyy doctor --fix-daemons'
  wanted,       \* the version of the last launch to end; None if a daemon
                \* was shutting down when it began, and once a user, a
                \* crash or, in the default home, doctor has stopped one
  acts,
  scenario      \* the one of Scenarios this behaviour follows

files == <<pidFile, sock>>
daemons == <<at, version, inode, spawned>>
vars == <<files, daemons, cli, installed, doctor, wanted, acts, scenario>>

Booting == {"check", "lock", "clear pane", "bind pane", "clear mcp", "bind mcp", "record"}
Stopping == {"close mcp", "unlink mcp", "close pane", "unlink pane", "unlink pid"}

Alive(d) == at[d] \in Booting \union {"run"} \union Stopping

(* The IPC server is open from its bind until mcp.stop, which a shutdown   *)
(* reaches after it has waited for the relay client to disconnect.         *)
Listening(d) == at[d] \in {"record", "run", "close mcp"}

(* A connection to mcp.sock is accepted. *)
Answering == sock["mcp"] # None /\ Listening(sock["mcp"])

Launching == {c \in Launch : cli[c].pc \notin {"idle", "done"}}

(* No daemon is starting or stopping; none is stopping. *)
Steady == \A d \in Daemon : at[d] \in {"new", "run", "dead"}
NoneStopping == \A d \in Daemon : at[d] \notin Stopping

Init ==
  /\ at = [d \in Daemon |-> "new"]
  /\ version = [d \in Daemon |-> None]
  /\ inode = [d \in Daemon |-> None]
  /\ spawned = 0
  /\ pidFile = None
  /\ sock = [p \in Path |-> None]
  /\ cli = [c \in Launch |-> [pc |-> "idle", version |-> None, target |-> None, calm |-> TRUE]]
  /\ installed = 1
  /\ doctor = [running |-> FALSE, legit |-> None]
  /\ wanted = None
  /\ acts = 0
  /\ scenario \in Scenarios

-----------------------------------------------------------------------------
(***************************************************************************)
(* A daemon.                                                               *)
(***************************************************************************)
Goes(d, from, to) == at[d] = from /\ at' = [at EXCEPT ![d] = to]

(* acquirePidLock: the check ... *)
Check(d) ==
  /\ Goes(d, "check", IF pidFile \in Daemon \ {d} /\ Alive(pidFile) THEN "dead" ELSE "lock")
  /\ UNCHANGED <<files, version, inode, spawned, cli, installed, doctor, wanted, acts, scenario>>

(* Mutant of Lock: the file is not written. *)
LockUnwritten(d) ==
  /\ Goes(d, "lock", "clear pane")
  /\ UNCHANGED <<files, version, inode, spawned, cli, installed, doctor, wanted, acts, scenario>>

(* ... and the write. *)
Lock(d) ==
  /\ Goes(d, "lock", "clear pane")
  /\ pidFile' = d
  /\ UNCHANGED <<sock, version, inode, spawned, cli, installed, doctor, wanted, acts, scenario>>

(* PaneRegistry.start and McpIpcServer.start, in this order: unlink what   *)
(* is there and bind.  If the path is taken again by then, listen() fails  *)
(* and the process exits, leaving its files behind.                        *)
ClearAt == [pane |-> "clear pane", mcp |-> "clear mcp"]
BindAt == [pane |-> "bind pane", mcp |-> "bind mcp"]
BoundAt == [pane |-> "clear mcp", mcp |-> "record"]

Clear(d, p) ==
  /\ Goes(d, ClearAt[p], BindAt[p])
  /\ sock' = [sock EXCEPT ![p] = None]
  /\ UNCHANGED <<pidFile, version, inode, spawned, cli, installed, doctor, wanted, acts, scenario>>

Bind(d, p) ==
  /\ \/ /\ sock[p] = None
        /\ Goes(d, BindAt[p], BoundAt[p])
        /\ sock' = [sock EXCEPT ![p] = d]
     \/ /\ sock[p] # None
        /\ Goes(d, BindAt[p], "dead")
        /\ UNCHANGED sock
  /\ UNCHANGED <<pidFile, version, inode, spawned, cli, installed, doctor, wanted, acts, scenario>>

(* The relay client connects and the watchdog notes the socket's inode. *)
Record(d) ==
  /\ Goes(d, "record", "run")
  /\ inode' = [inode EXCEPT ![d] = sock["mcp"]]
  /\ UNCHANGED <<files, version, spawned, cli, installed, doctor, wanted, acts, scenario>>

(* Mutant of Replaced: a missing socket is nothing to worry about. *)
ReplacedOnlyByOther(d) ==
  inode[d] # None /\ sock["mcp"] \notin {None, inode[d]}

(* What the watchdog takes as a sign that another daemon took over. *)
Replaced(d) ==
  sock["mcp"] = None \/ (inode[d] # None /\ sock["mcp"] # inode[d])

Watch(d) ==
  /\ Replaced(d)
  /\ Goes(d, "run", "close mcp")
  /\ UNCHANGED <<files, version, inode, spawned, cli, installed, doctor, wanted, acts, scenario>>

(* shutdown, after the relay client has disconnected.  Closing a server on *)
(* a Unix socket removes its path, whoever is bound there by now, and the  *)
(* code unlinks it once more.                                              *)
StopAt == [mcp |-> <<"close mcp", "unlink mcp", "close pane">>,
           pane |-> <<"close pane", "unlink pane", "unlink pid">>]

RemovePath(d, p) ==
  /\ \/ Goes(d, StopAt[p][1], StopAt[p][2])
     \/ Goes(d, StopAt[p][2], StopAt[p][3])
  /\ sock' = [sock EXCEPT ![p] = None]
  /\ UNCHANGED <<pidFile, version, inode, spawned, cli, installed, doctor, wanted, acts, scenario>>

Exit(d) ==
  /\ Goes(d, "unlink pid", "dead")
  /\ pidFile' = None
  /\ UNCHANGED <<sock, version, inode, spawned, cli, installed, doctor, wanted, acts, scenario>>

(* SIGTERM: a running daemon shuts down; one that is still booting has no  *)
(* handler, and in one that is shutting down the second shutdown() returns *)
(* at once and the process exits, leaving its files behind.                *)
Terminated(d) ==
  IF at[d] = "run" THEN "close mcp" ELSE IF Alive(d) THEN "dead" ELSE at[d]

Killed(d) == IF Alive(d) THEN "dead" ELSE at[d]

-----------------------------------------------------------------------------
(***************************************************************************)
(* A launch: ensureDaemonRunning.                                          *)
(***************************************************************************)
Steps(c, from, to) == cli[c].pc = from /\ cli' = [cli EXCEPT ![c].pc = to]

Ends(c, from) ==
  /\ Steps(c, from, "done")
  /\ wanted' = IF cli[c].calm THEN cli[c].version ELSE None

(* A launch, which may meet a daemon that is still shutting down. *)
Start(c) ==
  /\ scenario.solo => Launching = {} /\ ~doctor.running
  /\ c \in scenario.launches
  /\ cli[c].pc = "idle"
  /\ cli' = [cli EXCEPT ![c] = [@ EXCEPT !.pc = "ping", !.version = installed,
                                       !.calm = NoneStopping]]
  /\ UNCHANGED <<files, daemons, installed, doctor, wanted, acts, scenario>>

Ping(c) ==
  /\ Steps(c, "ping", IF Answering THEN "connect" ELSE "clean")
  /\ UNCHANGED <<files, daemons, installed, doctor, wanted, acts, scenario>>

(* queryDaemonVersion connects, which may fail now, ... *)
Connect(c) ==
  /\ \/ Answering /\ cli[c].pc = "connect"
                  /\ cli' = [cli EXCEPT ![c] = [@ EXCEPT !.pc = "ask", !.target = sock["mcp"]]]
     \/ ~Answering /\ Steps(c, "connect", "clean")
  /\ UNCHANGED <<files, daemons, installed, doctor, wanted, acts, scenario>>

(* Mutant of Answer: any version will be replaced. *)
AnswerReplacesAny(c) ==
  /\ cli[c].pc = "ask" /\ Listening(cli[c].target)
  /\ Steps(c, "ask", "term")
  /\ UNCHANGED <<files, daemons, installed, doctor, wanted, acts, scenario>>

(* ... and is answered: a daemon of this version is used. *)
Answer(c) ==
  /\ cli[c].pc = "ask" /\ Listening(cli[c].target)
  /\ \/ version[cli[c].target] = cli[c].version /\ Ends(c, "ask")
     \/ version[cli[c].target] # cli[c].version /\ Steps(c, "ask", "term") /\ UNCHANGED wanted
  /\ UNCHANGED <<files, daemons, installed, doctor, acts, scenario>>

(* ... or the daemon stops before it has answered: the connection is reset,*)
(* which counts as no answer, or closed, which leaves the launch waiting   *)
(* for nothing, so that the process ends.                                  *)
NoAnswer(c) ==
  /\ cli[c].pc = "ask"
  /\ ~Listening(cli[c].target)
  /\ \/ Steps(c, "ask", "clean") /\ UNCHANGED wanted
     \/ Ends(c, "ask")
  /\ UNCHANGED <<files, daemons, installed, doctor, acts, scenario>>

SendTerm(c) ==
  /\ Steps(c, "term", "wait")
  /\ at' = [at EXCEPT ![cli[c].target] = Terminated(cli[c].target)]
  /\ UNCHANGED <<files, version, inode, spawned, installed, doctor, wanted, acts, scenario>>

(* Mutant of AwaitExit: the exit is not waited for. *)
AwaitNothing(c) ==
  /\ Steps(c, "wait", "clean")
  /\ UNCHANGED <<files, daemons, installed, doctor, wanted, acts, scenario>>

(* The daemon has gone, or is killed when it has not within 3 s. *)
AwaitExit(c) ==
  /\ Steps(c, "wait", "clean")
  /\ at' = [at EXCEPT ![cli[c].target] = Killed(cli[c].target)]
  /\ UNCHANGED <<files, version, inode, spawned, installed, doctor, wanted, acts, scenario>>

(* "Stale socket from a dead daemon? Remove before respawn." *)
Clean(c) ==
  /\ Steps(c, "clean", "spawn")
  /\ sock' = [sock EXCEPT !["mcp"] = None]
  /\ UNCHANGED <<pidFile, daemons, installed, doctor, wanted, acts, scenario>>

Spawn(c) ==
  /\ Steps(c, "spawn", "poll")
  /\ spawned' = spawned + 1
  /\ at' = [at EXCEPT ![spawned + 1] = "check"]
  /\ version' = [version EXCEPT ![spawned + 1] = installed]
  /\ UNCHANGED <<files, inode, installed, doctor, wanted, acts, scenario>>

(* The launch ends when a daemon answers, or when none has within 3 s. *)
Poll(c) ==
  /\ Answering \/ ~scenario.solo \/ Steady
  /\ Ends(c, "poll")
  /\ UNCHANGED <<files, daemons, installed, doctor, acts, scenario>>

-----------------------------------------------------------------------------
(***************************************************************************)
(* Users and the operating system.                                         *)
(***************************************************************************)
Acts ==
  /\ scenario.solo => Launching = {}
  /\ acts < scenario.maxActs
  /\ acts' = acts + 1

(* Somebody stops a daemon, or it crashes. *)
Stop(d) ==
  /\ Acts
  /\ Alive(d)
  /\ \/ at' = [at EXCEPT ![d] = Terminated(d)]
     \/ at' = [at EXCEPT ![d] = Killed(d)]
  /\ wanted' = None
  /\ UNCHANGED <<files, version, inode, spawned, cli, installed, doctor, scenario>>

(* The runtime is upgraded. *)
Upgrade ==
  /\ Acts
  /\ installed' = installed + 1
  /\ UNCHANGED <<files, daemons, cli, doctor, wanted, scenario>>

(* `lyy doctor --fix-daemons' reads the PID files of the profiles, then    *)
(* kills the daemons they do not name.  A daemon of the default home has   *)
(* its PID file elsewhere and is always one of those.                      *)
DoctorReads ==
  /\ Acts
  /\ ~doctor.running
  /\ doctor' = [running |-> TRUE, legit |-> IF scenario.profile THEN pidFile ELSE None]
  /\ UNCHANGED <<files, daemons, cli, installed, wanted, scenario>>

DoctorKills ==
  /\ doctor.running
  /\ at' = [d \in Daemon |-> IF d = doctor.legit THEN at[d] ELSE Killed(d)]
  /\ doctor' = [running |-> FALSE, legit |-> None]
  /\ wanted' = IF scenario.profile THEN wanted ELSE None
  /\ UNCHANGED <<files, version, inode, spawned, cli, installed, acts, scenario>>

-----------------------------------------------------------------------------
DaemonStep(d) ==
  \/ Check(d) \/ Lock(d) \/ Record(d) \/ Watch(d) \/ Exit(d)
  \/ \E p \in Path : Clear(d, p) \/ Bind(d, p) \/ RemovePath(d, p)

LaunchStep(c) ==
  \/ Ping(c) \/ Connect(c) \/ Answer(c) \/ NoAnswer(c) \/ SendTerm(c)
  \/ AwaitExit(c) \/ Clean(c) \/ Spawn(c) \/ Poll(c)

Next ==
  \/ \E d \in Daemon : DaemonStep(d) \/ Stop(d)
  \/ \E c \in Launch : Start(c) \/ LaunchStep(c)
  \/ Upgrade
  \/ DoctorReads
  \/ DoctorKills

Spec == Init /\ [][Next]_vars

(* Fairness: processes run, and the watchdog's timer fires for ever. *)
FairSpec ==
  /\ Spec
  /\ \A d \in Daemon : WF_vars(DaemonStep(d))
  /\ \A c \in Launch : WF_vars(LaunchStep(c))
  /\ WF_vars(DoctorKills)

-----------------------------------------------------------------------------
(* Every variable has its type, and a launch ends only daemons of another  *)
(* version than its own.                                                   *)
TypeOK ==
  /\ at \in [Daemon -> {"new", "run", "dead"} \union Booting \union Stopping]
  /\ \A d \in Daemon : at[d] = "new" <=> d > spawned
  /\ version \in [Daemon -> Nat]
  /\ inode \in [Daemon -> Daemon \union {None}]
  /\ spawned \in 0..Cardinality(Launch)
  /\ pidFile \in Daemon \union {None}
  /\ sock \in [Path -> Daemon \union {None}]
  /\ \A c \in Launch :
       /\ cli[c].pc \in {"idle", "ping", "connect", "ask", "term", "wait", "clean",
                         "spawn", "poll", "done"}
       /\ cli[c].target \in Daemon \union {None}
       /\ cli[c].version \in Nat
       /\ cli[c].pc \in {"term", "wait"} => version[cli[c].target] # cli[c].version
  /\ installed \in Nat \ {0}
  /\ doctor \in [running : BOOLEAN, legit : Daemon \union {None}]
  /\ wanted \in Nat
  /\ acts \in 0..scenario.maxActs
  /\ scenario \in Scenarios

Serving(d) == at[d] = "run" /\ sock["mcp"] = d

(* Nothing more will happen until somebody acts. *)
Settled ==
  /\ Launching = {}
  /\ Steady
  /\ ~doctor.running
  /\ \A d \in Daemon : at[d] = "run" => ~Replaced(d)

(* Once launches that came one after the other are over, of which the last *)
(* met no daemon in its shutdown, and nobody has stopped a daemon since, a *)
(* daemon of that one's version serves the IPC socket, whatever crashed or *)
(* was killed before, and whatever files it left; and in a profile's home  *)
(* doctor has not killed it.                                               *)
Served ==
  scenario.solo /\ Settled /\ wanted # None => \E d \in Daemon : Serving(d) /\ version[d] = wanted

(* The daemon that holds the relay session is the one the PID file names,  *)
(* so there is one at most, as long as launches come one after the other,  *)
(* also when one meets a daemon in its shutdown; and in a profile's home   *)
(* doctor leaves it alone.                                                 *)
LockHolderOnly ==
  scenario.solo => \A d \in Daemon : at[d] = "run" => pidFile = d

(* A daemon that saw its own socket at mcp.sock and has lost the path ends,*)
(* however launches and daemons race: "so we don't become a zombie holding *)
(* a relay session".                                                       *)
OrphansLeave ==
  \A d \in Daemon :
    (at[d] = "run" /\ inode[d] = d /\ sock["mcp"] # d) ~> (at[d] = "dead")

=============================================================================
