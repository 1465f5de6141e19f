------------------------------ MODULE Presence ------------------------------
(***************************************************************************)
(* Who is online: the relay's per-peer session count, the events it sends  *)
(* on each Socket.IO connection, and the PresenceStore of every daemon.    *)
(*                                                                         *)
(* A connection has two ends that fail independently.  The relay's end is  *)
(* in `live' while Socket.IO keeps the socket in its namespace; the        *)
(* daemon's end is `sock[d]'.  A daemon may lose its end and reconnect     *)
(* while the relay still counts the old session, and the other way round.  *)
(* Events of one connection arrive in order; a packet written to a         *)
(* connection whose daemon has gone is lost.                               *)
(***************************************************************************)
EXTENDS Naturals, Sequences, FiniteSets

CONSTANTS
  Daemon,     \* the daemons; several may be logged in as the same peer
  Peer,       \* the peers of the organisation
  PeerOf,     \* PeerOf[d] is the peer whose token daemon d presents
  Slot,       \* names for the connections one daemon may have at a time
  NoSlot,     \* "RelayClient has no connected socket"
  MaxChurn    \* bound: connections cut, daemons stopped, relay restarts

ASSUME PresenceAssumption ==
  /\ PeerOf \in [Daemon -> Peer]
  /\ IsFiniteSet(Daemon)
  /\ IsFiniteSet(Slot)
  /\ NoSlot \notin Slot
  /\ MaxChurn \in Nat

VARIABLES
  up,         \* daemons whose process runs
  sock,       \* the daemon's end: the slot it is connected on, or NoSlot
  view,       \* PresenceStore.online of each daemon
  live,       \* the relay's end: connections in the Socket.IO namespace
  sessions,   \* onlinePeerSessions; 0 stands for "no entry"
  wire,       \* events sent on a connection and not yet received
  churn       \* disturbances so far

vars == <<up, sock, view, live, sessions, wire, churn>>

Conn == Daemon \X Slot

Owner(c) == PeerOf[c[1]]

(* The connection daemon d reads from. *)
ConnOf(d) == <<d, sock[d]>>

(* The daemon's end of c is open, so what the relay writes there arrives. *)
Heard(c) == sock[c[1]] = c[2]

(* Both ends of d's current connection are open. *)
Linked(d) == sock[d] # NoSlot /\ ConnOf(d) \in live

Online == {p \in Peer : sessions[p] > 0}

(***************************************************************************)
(* An event says of the peers in `about' which ones are online: a snapshot *)
(* of all peers, a change of one.                                          *)
(***************************************************************************)
Event ==
  {e \in [kind : {"snapshot", "change"}, about : SUBSET Peer, on : SUBSET Peer] :
     /\ e.on \subseteq e.about
     /\ e.kind = "change" => e.about # {}}

Snapshot(online) == [kind |-> "snapshot", about |-> Peer, on |-> online]

(* Mutant of Change: the payload does not name the peer. *)
ChangeUnnamed(p, online) ==
  [kind |-> "change", about |-> {}, on |-> IF online THEN {p} ELSE {}]

Change(p, online) ==
  [kind |-> "change", about |-> {p}, on |-> IF online THEN {p} ELSE {}]

(* Mutant of Apply: the store only ever adds. *)
ApplyAddOnly(online, e) == online \union e.on

(* What PresenceStore does with an event: replace all, add one, delete one. *)
Apply(online, e) == (online \ e.about) \union e.on

(* The event queues after `io.emit' of e: every socket of the namespace    *)
(* gets it.  `s.broadcast.emit' is the same without s.                     *)
Broadcast(sockets, e) ==
  [c \in Conn |-> IF c \in sockets /\ Heard(c) THEN Append(wire[c], e)
                                               ELSE wire[c]]

-----------------------------------------------------------------------------
Init ==
  /\ up = Daemon
  /\ sock = [d \in Daemon |-> NoSlot]
  /\ view = [d \in Daemon |-> {}]
  /\ live = {}
  /\ sessions = [p \in Peer |-> 0]
  /\ wire = [c \in Conn |-> <<>>]
  /\ churn = 0

(* A disturbance: possible only while the bound allows one more. *)
Disturb == churn < MaxChurn /\ churn' = churn + 1

(***************************************************************************)
(* The relay's io.on("connection") handler, for a connection daemon d has  *)
(* opened: count the session, send the snapshot to the new socket, tell    *)
(* the others if this is the peer's first session.                         *)
(***************************************************************************)
Connect(d, k) ==
  LET c    == <<d, k>>
      p    == PeerOf[d]
      prev == sessions[p]
  IN  /\ d \in up
      /\ sock[d] = NoSlot
      /\ c \notin live
      /\ sock' = [sock EXCEPT ![d] = k]
      /\ live' = live \union {c}
      /\ sessions' = [sessions EXCEPT ![p] = prev + 1]
      /\ LET others == IF prev = 0 THEN Broadcast(live, Change(p, TRUE)) ELSE wire
         IN  wire' = [others EXCEPT ![c] = <<Snapshot(Online')>>]
      /\ UNCHANGED <<up, view, churn>>

(* The daemon's PresenceStore handles the next event of its connection. *)
Receive(d) ==
  LET c == ConnOf(d)
  IN  /\ sock[d] # NoSlot
      /\ wire[c] # <<>>
      /\ view' = [view EXCEPT ![d] = Apply(@, Head(wire[c]))]
      /\ wire' = [wire EXCEPT ![c] = Tail(@)]
      /\ UNCHANGED <<up, sock, live, sessions, churn>>

(* Mutant of CloseClient: what was shown stays on the screen. *)
CloseClientKeeps(d) ==
  /\ sock' = [sock EXCEPT ![d] = NoSlot]
  /\ UNCHANGED view
  /\ wire' = [c \in Conn |-> IF c = ConnOf(d) THEN <<>> ELSE wire[c]]

(* What closing the daemon's end does: the view cannot be trusted any more *)
(* and is cleared; events still under way are lost.                        *)
CloseClient(d) ==
  /\ sock' = [sock EXCEPT ![d] = NoSlot]
  /\ view' = [view EXCEPT ![d] = {}]
  /\ wire' = [c \in Conn |-> IF c = ConnOf(d) THEN <<>> ELSE wire[c]]

(***************************************************************************)
(* The daemon sees its socket disconnect: because the relay's end has      *)
(* closed, or because the transport broke and the relay does not know yet. *)
(***************************************************************************)
ClientLost(d) ==
  /\ sock[d] # NoSlot
  /\ CloseClient(d)
  /\ \/ ~Linked(d) /\ UNCHANGED churn
     \/ Linked(d) /\ Disturb
  /\ UNCHANGED <<up, live, sessions>>

(* Mutants of RelayLost: the entry is deleted at every close; it is never  *)
(* deleted; every close is announced.                                      *)
LostWith(c, count, announced) ==
  /\ c \in live
  /\ live' = live \ {c}
  /\ sessions' = [sessions EXCEPT ![Owner(c)] = count]
  /\ wire' = IF announced THEN Broadcast(live', Change(Owner(c), FALSE)) ELSE wire
  /\ \/ ~Heard(c) /\ UNCHANGED churn
     \/ Heard(c) /\ Disturb
  /\ UNCHANGED <<up, sock, view>>

RelayLostForgets(c) == LostWith(c, 0, sessions[Owner(c)] <= 1)

RelayLostLeaks(c) ==
  LET n == sessions[Owner(c)] IN LostWith(c, IF n <= 1 THEN n ELSE n - 1, FALSE)

RelayLostAnnounces(c) ==
  LET n == sessions[Owner(c)] IN LostWith(c, IF n <= 1 THEN 0 ELSE n - 1, TRUE)

(***************************************************************************)
(* The relay's "disconnect" handler: the socket has already left the       *)
(* namespace when it runs.  It runs when the ping of a connection without  *)
(* a daemon times out, or when a working connection is cut.                *)
(***************************************************************************)
RelayLost(c) ==
  LET p    == Owner(c)
      last == sessions[p] <= 1    \* a missing entry is read as 1
  IN  /\ c \in live
      /\ live' = live \ {c}
      /\ sessions' = [sessions EXCEPT ![p] = IF last THEN 0 ELSE @ - 1]
      /\ wire' = IF last THEN Broadcast(live', Change(p, FALSE)) ELSE wire
      /\ \/ ~Heard(c) /\ UNCHANGED churn
         \/ Heard(c) /\ Disturb
      /\ UNCHANGED <<up, sock, view>>

(* The daemon's process stops (or dies); its PresenceStore goes with it. *)
Stop(d) ==
  /\ d \in up
  /\ up' = up \ {d}
  /\ CloseClient(d)
  /\ Disturb
  /\ UNCHANGED <<live, sessions>>

Start(d) ==
  /\ d \notin up
  /\ up' = up \union {d}
  /\ UNCHANGED <<sock, view, live, sessions, wire, churn>>

(* The relay restarts: its map is process memory and is lost with it. *)
RelayRestart ==
  /\ live' = {}
  /\ sessions' = [p \in Peer |-> 0]
  /\ Disturb
  /\ UNCHANGED <<up, sock, view, wire>>

Next ==
  \/ \E d \in Daemon, k \in Slot : Connect(d, k)
  \/ \E d \in Daemon : Receive(d) \/ ClientLost(d) \/ Stop(d) \/ Start(d)
  \/ \E c \in Conn : RelayLost(c)
  \/ RelayRestart

Spec == Init /\ [][Next]_vars

(***************************************************************************)
(* Fairness.  socket.io-client retries for ever (reconnection is on), both *)
(* ends detect a dead peer by ping timeout, and a connection delivers what *)
(* was written to it.  Nothing forces a stopped daemon to start.           *)
(***************************************************************************)
FairSpec ==
  /\ Spec
  /\ \A d \in Daemon : /\ WF_vars(\E k \in Slot : Connect(d, k))
                       /\ WF_vars(Receive(d))
                       /\ WF_vars(~Linked(d) /\ ClientLost(d))
  /\ \A c \in Conn : WF_vars(~Heard(c) /\ RelayLost(c))

-----------------------------------------------------------------------------
(* Every variable has its type. *)
TypeOK ==
  /\ up \in SUBSET Daemon
  /\ sock \in [Daemon -> Slot \union {NoSlot}]
  /\ view \in [Daemon -> SUBSET Peer]
  /\ live \in SUBSET Conn
  /\ sessions \in [Peer -> Nat]
  /\ wire \in [Conn -> Seq(Event)]
  /\ churn \in 0..MaxChurn

(* The count in onlinePeerSessions is the number of sockets the relay has  *)
(* for that peer, whatever the order of connects, reconnects and           *)
(* disconnects: a leak would keep a peer online for ever, an extra         *)
(* decrement would announce a peer offline that is still connected.        *)
SessionCount ==
  \A p \in Peer : sessions[p] = Cardinality({c \in live : Owner(c) = p})

(* A store that shows v and handles the first n events of w then agrees    *)
(* with `online' on p.                                                     *)
ShownAfter(v, w, n, p, online) ==
  \/ \E i \in 1..n : /\ p \in w[i].about
                     /\ p \in w[i].on <=> p \in online
                     /\ \A j \in (i + 1)..n : p \notin w[j].about
  \/ /\ \A i \in 1..n : p \notin w[i].about
     /\ p \in v <=> p \in online

(* A daemon with a working connection will, once it has handled the events *)
(* already sent to it, show exactly the peers the relay has as online: no  *)
(* event is missing between the snapshot and the deltas, none is sent      *)
(* twice, the daemon's own peer included.                                  *)
Converges ==
  \A d \in Daemon : Linked(d) =>
    LET w == wire[ConnOf(d)]
    IN  \A p \in Peer : ShownAfter(view[d], w, Len(w), p, Online)

(* Every `presence:change' a daemon handles changes what it shows: the     *)
(* relay announces a peer when its first session opens and its last one    *)
(* closes, and never repeats to a socket what its snapshot or an earlier   *)
(* change has said.                                                        *)
DeltasAreNews ==
  [][\A d \in Daemon :
       Receive(d) /\ Head(wire[ConnOf(d)]).kind = "change" => view'[d] # view[d]]_vars

(* Once the disturbances end, every running daemon comes to show exactly   *)
(* the peers that have a running daemon, and keeps showing them: no dead   *)
(* session stays counted, no view stays stale.                             *)
Truthful == <>[](\A d \in up : view[d] = {PeerOf[e] : e \in up})

(* What a connection of d has brought so far. *)
Phase(d) ==
  IF sock[d] = NoSlot THEN "down"
  ELSE IF wire[ConnOf(d)] # <<>> /\ Head(wire[ConnOf(d)]).kind = "snapshot"
       THEN "open" ELSE "seeded"

Views == INSTANCE PresenceView
           WITH Store <- Daemon, phase <- [d \in Daemon |-> Phase(d)]

(* The stores implement PresenceView: however connections, snapshots       *)
(* and changes interleave, a view is seeded once per connection, by the    *)
(* snapshot, before any change, and shows nobody without a connection      *)
(* (presence.ts:13-35).                                                    *)
ViewsRefine == Views!Spec

=============================================================================
