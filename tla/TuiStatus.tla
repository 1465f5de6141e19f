----------------------------- MODULE TuiStatus -----------------------------
(***************************************************************************)
(* The status bar and the online markers of the terminal UI: the daemon's  *)
(* PresenceStore and relay flag, the MCP IPC server that pushes them to    *)
(* its subscribers, and the UI's subscribe(), which dials again whenever   *)
(* it loses a socket.                                                      *)
(*                                                                         *)
(* The PresenceStore is taken at its abstract specification, PresenceView, *)
(* which Presence implements.  A Unix socket connects in the kernel when   *)
(* it is dialled; the events of its two ends come later.                   *)
(***************************************************************************)
EXTENDS Naturals, Sequences, FiniteSets

CONSTANTS
  Daemon,       \* the one daemon of this machine
  Peer,
  Sock,         \* names for the sockets the UI may have at a time
  None,
  MaxEvents,    \* bound: connections to the relay and presence changes
  MaxStops,     \* bound: daemons stopped or killed
  MaxRefused    \* bound: dials while no daemon listens

ASSUME TuiStatusAssumption ==
  /\ None \notin Sock /\ IsFiniteSet(Sock)
  /\ MaxEvents \in Nat /\ MaxStops \in Nat /\ MaxRefused \in Nat

VARIABLES
  phase, view,  \* of the PresenceStore
  listening,    \* mcp.sock has a server
  line,         \* the sockets: [cl, srv, wire], the UI's end, the server's
                \* end, and the frames under way to the UI
  timers,       \* reconnect timers that have not fired; the code holds on
                \* to the last one only
  current,      \* currentSocket
  cancelled,    \* dispose() was called
  shown,        \* what App shows: [daemon, relay, online]
  events, stops, refused

daemonVars == <<phase, view, listening>>
uiVars == <<timers, current, cancelled, shown>>
bounds == <<events, stops, refused>>
vars == <<daemonVars, line, uiVars, bounds>>

Store == INSTANCE PresenceView WITH Store <- {Daemon}

(* relayConnected in main.ts: set by "connected", reset by "disconnected". *)
Connected == phase[Daemon] # "down"

PresenceFrame(online) == [event |-> "presence", online |-> online, connected |-> FALSE]

RelayFrame(connected) == [event |-> "relay:status", online |-> {}, connected |-> connected]

Free == [cl |-> "free", srv |-> "none", wire |-> <<>>]

Down == [daemon |-> FALSE, relay |-> FALSE, online |-> {}]

(* App starts with the daemon it has just read the state from. *)
Init ==
  /\ Store!Init
  /\ listening = TRUE
  /\ line = [s \in Sock |-> Free]
  /\ timers = 1                      \* stands for the first connect()
  /\ current = None
  /\ cancelled = FALSE
  /\ shown = [Down EXCEPT !.daemon = TRUE]
  /\ events = 0 /\ stops = 0 /\ refused = 0

Subscribers == {s \in Sock : line[s].srv = "subscribed"}

(* pushToSubscribers *)
Push(frames) ==
  line' = [s \in Sock |-> IF s \in Subscribers THEN [line[s] EXCEPT !.wire = @ \o frames]
                                               ELSE line[s]]

-----------------------------------------------------------------------------
(* The daemon *)

Event == listening /\ events < MaxEvents /\ events' = events + 1

(* The transport connects. *)
RelayOpen ==
  /\ Event
  /\ Store!Open(Daemon)
  /\ Push(<<RelayFrame(TRUE)>>)
  /\ UNCHANGED <<listening, uiVars, stops, refused>>

(* The relay's own "connected" sets the flag again; the snapshot follows. *)
RelaySeed ==
  /\ Event
  /\ Store!Seed(Daemon)
  /\ Push(<<RelayFrame(TRUE), PresenceFrame(view'[Daemon])>>)
  /\ UNCHANGED <<listening, uiVars, stops, refused>>

PeerChange ==
  /\ Event
  /\ Store!Change(Daemon)
  /\ Push(<<PresenceFrame(view'[Daemon])>>)
  /\ UNCHANGED <<listening, uiVars, stops, refused>>

(* Mutant of ClosingFrames: nothing is said of the relay. *)
ClosingFramesPresence == IF view[Daemon] = {} THEN <<>> ELSE <<PresenceFrame({})>>

(* An empty view is not announced again. *)
ClosingFrames ==
  (IF view[Daemon] = {} THEN <<>> ELSE <<PresenceFrame({})>>) \o <<RelayFrame(FALSE)>>

RelayClose ==
  /\ listening
  /\ Store!Close(Daemon)
  /\ Push(ClosingFrames)
  /\ UNCHANGED <<listening, uiVars, bounds>>

(* shutdown() leaves the relay first; stop(), or the death of the process, *)
(* destroys every socket; what is under way may still arrive or not.       *)
StopServer ==
  /\ listening
  /\ stops < MaxStops
  /\ listening' = FALSE
  /\ stops' = stops + 1
  /\ IF Connected THEN Store!Close(Daemon) ELSE UNCHANGED <<phase, view>>
  /\ line' = [s \in Sock |-> IF line[s].srv \in {"open", "subscribed"}
                             THEN [line[s] EXCEPT !.srv = "gone"] ELSE line[s]]
  /\ UNCHANGED <<uiVars, events, refused>>

StartServer ==
  /\ ~listening
  /\ listening' = TRUE
  /\ UNCHANGED <<phase, view, line, uiVars, bounds>>

(* Mutant of Seeds: presence only. *)
SeedsPresence == <<PresenceFrame(view[Daemon])>>

Seeds == <<PresenceFrame(view[Daemon]), RelayFrame(Connected)>>

(* The "subscribe" request is read: register, then seed. *)
Serve(s) ==
  /\ line[s].cl = "up" /\ line[s].srv = "open"
  /\ line' = [line EXCEPT ![s].srv = "subscribed", ![s].wire = @ \o Seeds]
  /\ UNCHANGED <<daemonVars, uiVars, bounds>>

-----------------------------------------------------------------------------
(* The UI *)

(* Mutant of LostShown: onDaemonDown does not touch the rest. *)
LostShownDaemon == [shown EXCEPT !.daemon = FALSE]

(* onDaemonDown *)
LostShown == [shown EXCEPT !.daemon = FALSE, !.relay = FALSE, !.online = {}]

(* drop(): called for "error" and for "close". *)
Drop ==
  /\ current' = None
  /\ shown' = LostShown
  /\ timers' = IF cancelled THEN timers ELSE timers + 1
  /\ UNCHANGED cancelled

(* A timer fires; after dispose() connect() returns at once. *)
Dial(s) ==
  /\ timers > 0
  /\ timers' = timers - 1
  /\ IF cancelled THEN UNCHANGED <<line, current, refused>>
     ELSE /\ line[s].cl = "free"
          /\ current' = s
          /\ IF listening
             THEN /\ line' = [line EXCEPT ![s] = [cl |-> "dialing", srv |-> "open", wire |-> <<>>]]
                  /\ UNCHANGED refused
             ELSE /\ refused < MaxRefused
                  /\ refused' = refused + 1
                  /\ line' = [line EXCEPT ![s].cl = "refused"]
  /\ UNCHANGED <<daemonVars, cancelled, shown, events, stops>>

(* "connect": the request is written and the bar says the daemon is up. *)
Established(s) ==
  /\ line[s].cl = "dialing"
  /\ line' = [line EXCEPT ![s].cl = "up"]
  /\ shown' = [shown EXCEPT !.daemon = TRUE]
  /\ UNCHANGED <<daemonVars, timers, current, cancelled, bounds>>

(* "error": the dial was refused, or the other end was reset. *)
Failed(s) ==
  /\ \/ line[s].cl = "refused"
     \/ line[s].cl = "up" /\ line[s].srv = "gone"
  /\ line' = [line EXCEPT ![s] = [Free EXCEPT !.cl = "failed"]]
  /\ Drop
  /\ UNCHANGED <<daemonVars, bounds>>

(* "close": after an error, after destroy(), or because the server left. *)
Closed(s) ==
  /\ \/ line[s].cl = "failed"
     \/ line[s].cl = "up" /\ line[s].srv = "gone"
  /\ line' = [line EXCEPT ![s] = Free]
  /\ Drop
  /\ UNCHANGED <<daemonVars, bounds>>

(* "data": App's onEvent. *)
Deliver(s) ==
  /\ line[s].cl = "up"
  /\ line[s].wire # <<>>
  /\ LET f == Head(line[s].wire)
     IN  shown' = IF f.event = "presence" THEN [shown EXCEPT !.online = f.online]
                                          ELSE [shown EXCEPT !.relay = f.connected]
  /\ line' = [line EXCEPT ![s].wire = Tail(@)]
  /\ UNCHANGED <<daemonVars, timers, current, cancelled, bounds>>

(* App is unmounted.  Timers fire in the order they were set, so the last  *)
(* one is pending whenever any is, and it is the only one cleared.         *)
Dispose ==
  /\ ~cancelled
  /\ cancelled' = TRUE
  /\ timers' = IF timers > 0 THEN timers - 1 ELSE 0
  /\ line' = IF current = None THEN line
             ELSE [line EXCEPT ![current] = [Free EXCEPT !.cl = "failed"]]
  /\ UNCHANGED <<daemonVars, current, shown, bounds>>

Next ==
  \/ RelayOpen \/ RelaySeed \/ PeerChange \/ RelayClose
  \/ StopServer \/ StartServer
  \/ \E s \in Sock : Serve(s) \/ Dial(s) \/ Established(s) \/ Failed(s) \/ Closed(s) \/ Deliver(s)
  \/ Dispose

Spec == Init /\ [][Next]_vars

(***************************************************************************)
(* Fairness: the event loops of the UI and of a running daemon go on, and  *)
(* a timer fires.  Nothing forces a daemon to be started, nor the relay to *)
(* be reachable.                                                           *)
(***************************************************************************)
FairSpec ==
  /\ Spec
  /\ WF_vars(\E s \in Sock : Dial(s))
  /\ \A s \in Sock : /\ WF_vars(Serve(s))
                     /\ WF_vars(Established(s))
                     /\ WF_vars(Failed(s) \/ Closed(s))
                     /\ WF_vars(Deliver(s))

-----------------------------------------------------------------------------
Truth == [daemon |-> listening, relay |-> Connected, online |-> view[Daemon]]

(* Nothing is under way: a socket is subscribed, its frames are delivered, *)
(* no other socket is being set up or torn down.                           *)
Quiet ==
  /\ ~cancelled
  /\ timers = 0
  /\ \E s \in Sock : line[s].cl # "free"
  /\ \A s \in Sock : line[s] \in {Free, [cl |-> "up", srv |-> "subscribed", wire |-> <<>>]}

(* When nothing is under way the bar shows the truth, though several       *)
(* sockets may be subscribed at once, each with frames of its own, and any *)
(* of them that closes blanks the bar (ipc.ts:87-118, mcp-ipc.ts:184-206). *)
QuietIsTrue == Quiet => shown = Truth

(* Once daemon and relay are left alone the bar comes to show the truth    *)
(* and keeps showing it, also that of a daemon that is down (app.tsx:      *)
(* 130-143, ipc.ts:110-117).                                               *)
StatusSettles == <>[](cancelled \/ shown = Truth)

=============================================================================
