--------------------------- MODULE PresenceProofs ---------------------------
(***************************************************************************)
(* Proofs about Presence, for any number of daemons, peers, connections    *)
(* and disturbances: the type invariant, the session count, the            *)
(* convergence of every connected daemon's view, that a delta is never     *)
(* repeated, and that every store implements PresenceView.                 *)
(***************************************************************************)
EXTENDS Presence, FiniteSetTheorems, SequenceTheorems, TLAPS

USE PresenceAssumption

(* Snapshots and changes are events, and applying an event to a set of     *)
(* peers gives a set of peers.                                             *)
LEMMA EventTypes ==
  /\ \A online \in SUBSET Peer : Snapshot(online) \in Event
  /\ \A p \in Peer, b \in BOOLEAN : Change(p, b) \in Event
  /\ \A online \in SUBSET Peer, e \in Event : Apply(online, e) \in SUBSET Peer
BY DEF Snapshot, Change, Event, Apply

(* Sending an event to a set of connections leaves every queue a sequence  *)
(* of events.                                                              *)
LEMMA BroadcastType ==
  ASSUME TypeOK, NEW S \in SUBSET Conn, NEW e \in Event
  PROVE  Broadcast(S, e) \in [Conn -> Seq(Event)]
BY DEF TypeOK, Broadcast

(* The socket a daemon holds is one of the connections.                    *)
LEMMA ConnOfType ==
  ASSUME TypeOK, NEW d \in Daemon, sock[d] # NoSlot
  PROVE  ConnOf(d) \in Conn
BY DEF TypeOK, Conn, ConnOf

(* Closing the daemon's end of a connection keeps the types.               *)
LEMMA CloseClientType ==
  ASSUME TypeOK, NEW d \in Daemon, CloseClient(d)
  PROVE  /\ sock' \in [Daemon -> Slot \union {NoSlot}]
         /\ view' \in [Daemon -> SUBSET Peer]
         /\ wire' \in [Conn -> Seq(Event)]
BY DEF TypeOK, CloseClient

(* A disturbance is counted within its bound.                              *)
LEMMA DisturbType ==
  ASSUME TypeOK, Disturb
  PROVE  churn' \in 0..MaxChurn
BY DEF TypeOK, Disturb

(* No step takes a variable out of its type.                               *)
LEMMA StepTypeOK == TypeOK /\ [Next]_vars => TypeOK'
<1> SUFFICES ASSUME TypeOK, [Next]_vars PROVE TypeOK'
  OBVIOUS
<1>1. ASSUME NEW d \in Daemon, NEW k \in Slot, Connect(d, k) PROVE TypeOK'
  <2> DEFINE c == <<d, k>>
             p == PeerOf[d]
             others == IF sessions[p] = 0 THEN Broadcast(live, Change(p, TRUE))
                                          ELSE wire
  <2>1. c \in Conn /\ p \in Peer
    BY DEF Conn
  <2>2. /\ sock' \in [Daemon -> Slot \union {NoSlot}]
        /\ live' \in SUBSET Conn
    BY <1>1, <2>1 DEF TypeOK, Connect
  <2>3. sessions' = [sessions EXCEPT ![p] = sessions[p] + 1]
    BY <1>1 DEF Connect
  <2>4. sessions' \in [Peer -> Nat]
    BY <2>1, <2>3 DEF TypeOK
  <2>5. others \in [Conn -> Seq(Event)]
    BY <2>1, EventTypes, BroadcastType DEF TypeOK
  <2>6. Snapshot(Online') \in Event
    BY EventTypes DEF Online
  <2>7. wire' = [others EXCEPT ![c] = <<Snapshot(Online')>>]
    BY <1>1 DEF Connect
  <2> HIDE DEF c, p, others
  <2>8. wire' \in [Conn -> Seq(Event)]
    BY <2>1, <2>5, <2>6, <2>7
  <2>9. QED
    BY <1>1, <2>2, <2>8, <2>4 DEF TypeOK, Connect
<1>2. ASSUME NEW d \in Daemon, Receive(d) PROVE TypeOK'
  <2>1. ConnOf(d) \in Conn
    BY <1>2, ConnOfType DEF Receive
  <2>2. Head(wire[ConnOf(d)]) \in Event /\ Tail(wire[ConnOf(d)]) \in Seq(Event)
    BY <1>2, <2>1 DEF Receive, TypeOK
  <2>3. view' \in [Daemon -> SUBSET Peer]
    BY <1>2, <2>2, EventTypes DEF Receive, TypeOK
  <2>4. wire' \in [Conn -> Seq(Event)]
    BY <1>2, <2>1, <2>2 DEF Receive, TypeOK
  <2>5. QED
    BY <1>2, <2>3, <2>4 DEF TypeOK, Receive
<1>3. ASSUME NEW d \in Daemon, ClientLost(d) PROVE TypeOK'
  BY <1>3, CloseClientType, DisturbType DEF ClientLost, TypeOK
<1>4. ASSUME NEW c \in Conn, RelayLost(c) PROVE TypeOK'
  <2>1. Owner(c) \in Peer
    BY DEF Conn, Owner
  <2>2. live' \in SUBSET Conn
    BY <1>4 DEF TypeOK, RelayLost
  <2>3. sessions' = [sessions EXCEPT ![Owner(c)] =
                       IF sessions[Owner(c)] <= 1 THEN 0 ELSE sessions[Owner(c)] - 1]
    BY <1>4 DEF RelayLost
  <2>4. sessions' \in [Peer -> Nat]
    BY <2>1, <2>3 DEF TypeOK
  <2>5. wire' \in [Conn -> Seq(Event)]
    <3>1. wire' = IF sessions[Owner(c)] <= 1
                    THEN Broadcast(live', Change(Owner(c), FALSE)) ELSE wire
      BY <1>4 DEF RelayLost
    <3>2. Change(Owner(c), FALSE) \in Event
      BY <2>1, EventTypes
    <3>3. QED
      BY <2>2, <3>1, <3>2, BroadcastType DEF TypeOK
  <2>6. QED
    BY <1>4, <2>2, <2>5, <2>4, DisturbType DEF TypeOK, RelayLost
<1>5. ASSUME NEW d \in Daemon, Stop(d) PROVE TypeOK'
  BY <1>5, CloseClientType, DisturbType DEF Stop, TypeOK
<1>6. ASSUME NEW d \in Daemon, Start(d) PROVE TypeOK'
  BY <1>6 DEF Start, TypeOK
<1>7. CASE RelayRestart
  BY <1>7, DisturbType DEF RelayRestart, TypeOK
<1>8. CASE UNCHANGED vars
  BY <1>8 DEF vars, TypeOK
<1>9. QED
  BY <1>1, <1>2, <1>3, <1>4, <1>5, <1>6, <1>7, <1>8 DEF Next

(* Every variable keeps its type, for every organisation. *)
THEOREM PresenceTypeOK == Spec => []TypeOK
<1>1. Init => TypeOK
  BY DEF Init, TypeOK
<1>2. QED
  BY <1>1, StepTypeOK, PTL DEF Spec

-----------------------------------------------------------------------------
(* The sessions the relay holds for a peer. *)
SessionsOf(p) == {c \in live : Owner(c) = p}

(* The sessions of a peer are finitely many, so they can be counted.       *)
LEMMA LiveFinite ==
  ASSUME TypeOK, NEW p \in Peer
  PROVE  IsFiniteSet(SessionsOf(p))
<1>1. IsFiniteSet(Conn)
  BY FS_Product DEF Conn
<1>2. SessionsOf(p) \in SUBSET Conn
  BY DEF TypeOK, SessionsOf
<1>3. QED
  BY <1>1, <1>2, FS_Subset

(* Opening a session adds one to the count of its peer. *)
LEMMA CountConnect ==
  ASSUME TypeOK, SessionCount, NEW d \in Daemon, NEW k \in Slot, Connect(d, k)
  PROVE  SessionCount'
<1> DEFINE c == <<d, k>>
<1>1. SUFFICES ASSUME NEW p \in Peer
               PROVE  sessions'[p] = Cardinality(SessionsOf(p)')
  BY DEF SessionCount, SessionsOf
<1>2. live' = live \union {c} /\ c \notin live
  BY DEF Connect
<1>3. sessions' = [sessions EXCEPT ![PeerOf[d]] = sessions[PeerOf[d]] + 1]
  BY DEF Connect
<1>4. sessions[p] = Cardinality(SessionsOf(p))
  BY DEF SessionCount, SessionsOf
<1>5. Owner(c) = PeerOf[d]
  BY DEF Owner
<1> HIDE DEF c
<1>6. CASE p = PeerOf[d]
  <2>1. SessionsOf(p)' = SessionsOf(p) \union {c} /\ c \notin SessionsOf(p)
    BY <1>2, <1>5, <1>6 DEF SessionsOf, Owner
  <2>2. Cardinality(SessionsOf(p)') = Cardinality(SessionsOf(p)) + 1
    BY <2>1, LiveFinite, FS_AddElement
  <2>3. QED
    BY <1>3, <1>4, <1>6, <2>2 DEF TypeOK
<1>7. CASE p # PeerOf[d]
  <2>1. SessionsOf(p)' = SessionsOf(p)
    BY <1>2, <1>5, <1>7 DEF SessionsOf, Owner
  <2>2. QED
    BY <1>3, <1>4, <1>7, <2>1 DEF TypeOK
<1>8. QED
  BY <1>6, <1>7

(* Closing a session takes one from the count of its peer. *)
LEMMA CountRelayLost ==
  ASSUME TypeOK, SessionCount, NEW c \in Conn, RelayLost(c)
  PROVE  SessionCount'
<1>1. SUFFICES ASSUME NEW p \in Peer
               PROVE  sessions'[p] = Cardinality(SessionsOf(p)')
  BY DEF SessionCount, SessionsOf
<1>2. live' = live \ {c} /\ c \in live
  BY DEF RelayLost
<1>3. sessions' = [sessions EXCEPT ![Owner(c)] =
                     IF sessions[Owner(c)] <= 1 THEN 0 ELSE sessions[Owner(c)] - 1]
  BY DEF RelayLost
<1>4. sessions[p] = Cardinality(SessionsOf(p))
  BY DEF SessionCount, SessionsOf
<1>5. CASE p = Owner(c)
  <2>1. SessionsOf(p)' = SessionsOf(p) \ {c} /\ c \in SessionsOf(p)
    BY <1>2, <1>5 DEF SessionsOf, Owner
  <2>2. Cardinality(SessionsOf(p)') = Cardinality(SessionsOf(p)) - 1
    BY <2>1, LiveFinite, FS_RemoveElement
  <2>3. Cardinality(SessionsOf(p)) # 0 /\ Cardinality(SessionsOf(p)) \in Nat
    BY <2>1, LiveFinite, FS_EmptySet, FS_CardinalityType
  <2>4. sessions'[p] = IF sessions[p] <= 1 THEN 0 ELSE sessions[p] - 1
    BY <1>3, <1>5 DEF TypeOK
  <2>5. QED
    BY <1>4, <2>2, <2>3, <2>4
<1>6. CASE p # Owner(c)
  <2>1. SessionsOf(p)' = SessionsOf(p)
    BY <1>2, <1>6 DEF SessionsOf, Owner
  <2>2. QED
    BY <1>3, <1>4, <1>6, <2>1 DEF TypeOK
<1>7. QED
  BY <1>5, <1>6

(* No step separates the relay's count of a peer from the sessions it      *)
(* holds.                                                                  *)
LEMMA StepSessionCount ==
  TypeOK /\ SessionCount /\ [Next]_vars => SessionCount'
<1> SUFFICES ASSUME TypeOK, SessionCount, [Next]_vars PROVE SessionCount'
  OBVIOUS
<1>1. ASSUME NEW d \in Daemon, NEW k \in Slot, Connect(d, k) PROVE SessionCount'
  BY <1>1, CountConnect
<1>2. ASSUME NEW c \in Conn, RelayLost(c) PROVE SessionCount'
  BY <1>2, CountRelayLost
<1>3. ASSUME RelayRestart PROVE SessionCount'
  <2>1. ASSUME NEW p \in Peer PROVE sessions'[p] = Cardinality(SessionsOf(p)')
    BY <1>3, FS_EmptySet DEF RelayRestart, SessionsOf
  <2>2. QED
    BY <2>1 DEF SessionCount, SessionsOf
<1>4. ASSUME UNCHANGED <<live, sessions>> PROVE SessionCount'
  BY <1>4 DEF SessionCount, Owner
<1>5. QED
  BY <1>1, <1>2, <1>3, <1>4
     DEF Next, vars, Receive, ClientLost, Stop, Start

(* The relay counts the sessions of every peer exactly. *)
THEOREM PresenceSessionCount == Spec => []SessionCount
<1>1. Init => SessionCount
  <2> SUFFICES ASSUME Init, NEW p \in Peer
               PROVE  sessions[p] = Cardinality(SessionsOf(p))
    BY DEF SessionCount, SessionsOf
  <2> QED
    BY FS_EmptySet DEF Init, SessionsOf
<1>2. QED
  BY <1>1, StepSessionCount, PresenceTypeOK, PTL DEF Spec

-----------------------------------------------------------------------------
(***************************************************************************)
(* Convergence and news are proved together.  A change already on the wire *)
(* is news when it is handled only if it contradicts what the events       *)
(* before it leave behind, and it was written because it contradicted what *)
(* the relay's count said until then, that is, what Converges says the     *)
(* events before it lead to.                                               *)
(***************************************************************************)
NewsIn(v, w) ==
  \A j \in 1..Len(w) : w[j].kind = "change" =>
    \A p \in w[j].about : ShownAfter(v, w, j - 1, p, Peer \ w[j].on)

Alternates ==
  \A d \in Daemon : sock[d] # NoSlot => NewsIn(view[d], wire[ConnOf(d)])

PresenceInv == TypeOK /\ SessionCount /\ Converges /\ Alternates

(* What the first n events say does not depend on a later one. *)
LEMMA ShownPrefix ==
  ASSUME NEW v, NEW w \in Seq(Event), NEW e \in Event, NEW n \in 0..Len(w),
         NEW p, NEW online, ShownAfter(v, w, n, p, online)
  PROVE  ShownAfter(v, Append(w, e), n, p, online)
<1>1. \A i \in 1..Len(w) : Append(w, e)[i] = w[i]
  BY AppendProperties
<1>2. Len(w) \in Nat
  OBVIOUS
<1>3. QED
  BY <1>1, <1>2 DEF ShownAfter

(* An event that says nothing of p leaves what is shown of p. *)
LEMMA ShownOther ==
  ASSUME NEW v, NEW w \in Seq(Event), NEW e \in Event, NEW p, NEW online,
         p \notin e.about, ShownAfter(v, w, Len(w), p, online)
  PROVE  ShownAfter(v, Append(w, e), Len(Append(w, e)), p, online)
<1>1. /\ \A i \in 1..Len(w) : Append(w, e)[i] = w[i]
      /\ Append(w, e)[Len(w) + 1] = e
      /\ Len(Append(w, e)) = Len(w) + 1
  BY AppendProperties
<1>2. Len(w) \in Nat
  OBVIOUS
<1>3. QED
  BY <1>1, <1>2, SMTT(30) DEF ShownAfter

(* The last event decides for the peers it is about. *)
LEMMA ShownLast ==
  ASSUME NEW v, NEW w \in Seq(Event), NEW e \in Event, NEW p, NEW online,
         p \in e.about, p \in e.on <=> p \in online
  PROVE  ShownAfter(v, Append(w, e), Len(Append(w, e)), p, online)
<1>1. /\ Append(w, e)[Len(w) + 1] = e
      /\ Len(Append(w, e)) = Len(w) + 1
  BY AppendProperties
<1>2. Len(w) \in Nat
  OBVIOUS
<1>3. QED
  BY <1>1, <1>2 DEF ShownAfter

(* Only whether p itself is in `online' matters. *)
LEMMA ShownSame ==
  ASSUME NEW v, NEW w, NEW n, NEW p, NEW on1, NEW on2,
         p \in on1 <=> p \in on2, ShownAfter(v, w, n, p, on1)
  PROVE  ShownAfter(v, w, n, p, on2)
BY DEF ShownAfter

(* Handling the first event moves what it says into the view. *)
LEMMA ShownTail ==
  ASSUME NEW v, NEW w \in Seq(Event), w # <<>>, NEW n \in 1..Len(w),
         NEW p, NEW online, ShownAfter(v, w, n, p, online)
  PROVE  ShownAfter(Apply(v, Head(w)), Tail(w), n - 1, p, online)
<1>1. /\ \A i \in 1..(n - 1) : Tail(w)[i] = w[i + 1]
      /\ n - 1 \in Nat
      /\ Head(w) = w[1]
  <2>1. Len(Tail(w)) = Len(w) - 1 /\ Len(w) \in Nat
    BY HeadTailProperties
  <2>2. QED
    BY <2>1, HeadTailProperties
<1>2. w[1] \in Event
  OBVIOUS
<1>3. CASE \A i \in 1..n : p \notin w[i].about
  <2>1. p \notin w[1].about /\ (p \in v <=> p \in online)
    BY <1>3 DEF ShownAfter
  <2>2. p \in Apply(v, Head(w)) <=> p \in online
    BY <1>1, <1>2, <2>1 DEF Apply, Event
  <2>3. QED
    BY <1>1, <1>3, <2>2 DEF ShownAfter
<1>4. CASE \E i \in 1..n : p \in w[i].about
  <2>1. PICK i \in 1..n : /\ p \in w[i].about
                          /\ p \in w[i].on <=> p \in online
                          /\ \A j \in (i + 1)..n : p \notin w[j].about
    BY <1>4 DEF ShownAfter
  <2>2. CASE i = 1
    <3>1. p \in Apply(v, Head(w)) <=> p \in online
      BY <1>1, <2>1, <2>2 DEF Apply
    <3>2. \A j \in 1..(n - 1) : p \notin Tail(w)[j].about
      BY <1>1, <2>1, <2>2
    <3>3. QED
      BY <3>1, <3>2 DEF ShownAfter
  <2>3. CASE i # 1
    <3>1. i - 1 \in 1..(n - 1) /\ Tail(w)[i - 1] = w[i]
      BY <1>1, <2>3
    <3>2. \A j \in ((i - 1) + 1)..(n - 1) : p \notin Tail(w)[j].about
      BY <1>1, <2>1, <2>3
    <3>3. QED
      BY <2>1, <3>1, <3>2 DEF ShownAfter
  <2>4. QED
    BY <2>2, <2>3
<1>5. QED
  BY <1>3, <1>4

(* Announcing a real change keeps a queue convergent and made of news. *)
LEMMA AnnounceChange ==
  ASSUME NEW v, NEW w \in Seq(Event), NEW online, NEW online2, NewsIn(v, w),
         \A q \in Peer : ShownAfter(v, w, Len(w), q, online),
         NEW p \in Peer, NEW e \in Event, e.about = {p},
         p \in e.on <=> p \in online2, p \in online2 <=> p \notin online,
         \A q \in Peer : q # p => (q \in online2 <=> q \in online)
  PROVE  /\ \A q \in Peer :
              ShownAfter(v, Append(w, e), Len(Append(w, e)), q, online2)
         /\ NewsIn(v, Append(w, e))
<1> DEFINE w2 == Append(w, e)
<1>1. /\ \A i \in 1..Len(w) : w2[i] = w[i]
      /\ w2[Len(w) + 1] = e
      /\ Len(w2) = Len(w) + 1
      /\ Len(w) \in Nat
  BY AppendProperties
<1>2. ASSUME NEW q \in Peer PROVE ShownAfter(v, w2, Len(w2), q, online2)
  <2>1. CASE q = p
    <3>1. q \in e.about /\ (q \in e.on <=> q \in online2)
      BY <2>1
    <3>2. QED
      BY <3>1, ShownLast
  <2>2. CASE q # p
    <3>1. ShownAfter(v, w2, Len(w2), q, online)
      BY <2>2, ShownOther
    <3>2. QED
      BY <2>2, <3>1, ShownSame
  <2>3. QED
    BY <2>1, <2>2
<1>3. ASSUME NEW j \in 1..Len(w2), w2[j].kind = "change", NEW q \in w2[j].about
      PROVE  ShownAfter(v, w2, j - 1, q, Peer \ w2[j].on)
  <2>1. CASE j \in 1..Len(w)
    <3>1. w2[j] = w[j] /\ j - 1 \in 0..Len(w)
      BY <1>1, <2>1
    <3>2. ShownAfter(v, w, j - 1, q, Peer \ w[j].on)
      BY <1>3, <2>1, <3>1 DEF NewsIn
    <3>3. ShownAfter(v, w2, j - 1, q, Peer \ w[j].on)
      BY <3>1, <3>2, ShownPrefix
    <3>4. QED
      BY <3>1, <3>3
  <2>2. CASE j = Len(w) + 1
    <3>1. q = p /\ j - 1 = Len(w) /\ Len(w) \in 0..Len(w)
      BY <1>1, <1>3, <2>2
    <3>2. ShownAfter(v, w2, Len(w), p, online)
      BY <3>1, ShownPrefix
    <3>3. p \in online <=> p \in Peer \ w2[j].on
      BY <1>1, <2>2
    <3>4. QED
      BY <3>1, <3>2, <3>3, ShownSame
  <2>3. j \in 1..Len(w) \/ j = Len(w) + 1
    BY <1>1
  <2>4. QED
    BY <2>1, <2>2, <2>3
<1>4. QED
  BY <1>2, <1>3 DEF NewsIn

(* What the two invariants say of one daemon. *)
Good(d) ==
  sock[d] # NoSlot =>
    /\ NewsIn(view[d], wire[ConnOf(d)])
    /\ Linked(d) =>
         \A q \in Peer : ShownAfter(view[d], wire[ConnOf(d)],
                                    Len(wire[ConnOf(d)]), q, Online)

(* All daemons are good exactly when views converge and queued changes are *)
(* news.                                                                   *)
LEMMA GoodAll ==
  /\ (\A d \in Daemon : Good(d)) <=> Converges /\ Alternates
  /\ (\A d \in Daemon : Good(d)') <=> Converges' /\ Alternates'
BY DEF Good, Converges, Alternates, Linked

(* A daemon the step does not concern. *)
LEMMA GoodUntouched ==
  ASSUME NEW d \in Daemon, Good(d),
         sock'[d] = sock[d], view'[d] = view[d],
         wire'[ConnOf(d)] = wire[ConnOf(d)],
         Linked(d)' => Linked(d) /\ Online' = Online
  PROVE  Good(d)'
<1>1. SUFFICES ASSUME sock'[d] # NoSlot PROVE Good(d)'
  BY DEF Good
<1>2. ConnOf(d)' = ConnOf(d)
  BY DEF ConnOf
<1>3. QED
  BY <1>1, <1>2 DEF Good

(* A daemon to which the relay announces a real change. *)
LEMMA GoodAnnounced ==
  ASSUME TypeOK, NEW d \in Daemon, Good(d), NEW p \in Peer,
         NEW e \in Event, e.about = {p},
         sock'[d] = sock[d], view'[d] = view[d], Linked(d),
         wire'[ConnOf(d)] = Append(wire[ConnOf(d)], e),
         p \in e.on <=> p \in Online', p \in Online' <=> p \notin Online,
         \A q \in Peer : q # p => (q \in Online' <=> q \in Online)
  PROVE  Good(d)'
<1>1. sock[d] # NoSlot /\ ConnOf(d)' = ConnOf(d)
  BY DEF Linked, ConnOf
<1> DEFINE w == wire[ConnOf(d)]
           v == view[d]
<1>2. w \in Seq(Event)
  BY <1>1, ConnOfType DEF TypeOK
<1>3. NewsIn(v, w) /\ \A q \in Peer : ShownAfter(v, w, Len(w), q, Online)
  BY <1>1 DEF Good
<1>4. v = view'[d] /\ wire'[ConnOf(d)'] = Append(w, e)
  BY <1>1
<1> HIDE DEF w, v
<1>5. /\ \A q \in Peer : ShownAfter(v, Append(w, e), Len(Append(w, e)), q, Online')
      /\ NewsIn(v, Append(w, e))
  BY <1>2, <1>3, AnnounceChange
<1>6. QED
  BY <1>4, <1>5 DEF Good

(* A new connection is good at once, because its snapshot is taken after   *)
(* the count is raised; the others get the change exactly when it is one.  *)
LEMMA GoodConnect ==
  ASSUME TypeOK, \A x \in Daemon : Good(x),
         NEW d \in Daemon, NEW k \in Slot, Connect(d, k),
         NEW x \in Daemon
  PROVE  Good(x)'
<1> DEFINE c == <<d, k>>
           p == PeerOf[d]
           e == Change(p, TRUE)
           others == IF sessions[p] = 0 THEN Broadcast(live, e) ELSE wire
<1>1. /\ c \in Conn /\ p \in Peer
      /\ e \in Event /\ e.about = {p} /\ p \in e.on
  <2>1. p \in Peer
    OBVIOUS
  <2>2. e.about = {p} /\ p \in e.on
    BY DEF Change
  <2>3. QED
    BY <2>1, <2>2, EventTypes DEF Conn
<1>2. /\ sock[d] = NoSlot /\ k # NoSlot
      /\ sock' = [sock EXCEPT ![d] = k]
      /\ live' = live \union {c}
      /\ sessions' = [sessions EXCEPT ![p] = sessions[p] + 1]
      /\ wire' = [others EXCEPT ![c] = <<Snapshot(Online')>>]
      /\ view' = view
  BY DEF Connect
<1>3. others \in [Conn -> Seq(Event)]
  BY <1>1, BroadcastType DEF TypeOK
<1>4. /\ p \in Online' /\ (p \in Online <=> sessions[p] # 0)
      /\ \A q \in Peer : q # p => (q \in Online' <=> q \in Online)
  BY <1>1, <1>2 DEF Online, TypeOK
<1>5. CASE x = d
  <2>1. ConnOf(x)' = c
    BY <1>2, <1>5 DEF ConnOf, TypeOK
  <2>2. wire'[c] = <<Snapshot(Online')>>
    BY <1>1, <1>2, <1>3
  <2>3. wire'[ConnOf(x)'] = <<Snapshot(Online')>>
    BY <2>1, <2>2
  <2>4. /\ Snapshot(Online').kind = "snapshot"
        /\ Snapshot(Online').about = Peer
        /\ Snapshot(Online').on = Online'
    BY DEF Snapshot
  <2> DEFINE s == Snapshot(Online')
  <2> HIDE DEF s
  <2>5. NewsIn(view'[x], <<s>>)
    BY <2>4 DEF NewsIn, s
  <2>6. ASSUME NEW q \in Peer
        PROVE  ShownAfter(view'[x], <<s>>, Len(<<s>>), q, Online')
    BY <2>4 DEF ShownAfter, s
  <2>7. QED
    BY <2>3, <2>5, <2>6 DEF Good, s
<1>6. CASE x # d
  <2>1. ConnOf(x) # c /\ sock'[x] = sock[x] /\ view'[x] = view[x]
    BY <1>2, <1>6 DEF ConnOf, TypeOK
  <2>2. sock[x] # NoSlot =>
          ConnOf(x) \in Conn /\ wire'[ConnOf(x)] = others[ConnOf(x)]
    BY <1>2, <1>3, <2>1, ConnOfType
  <2>3. Linked(x)' <=> Linked(x)
    BY <1>2, <2>1 DEF Linked, ConnOf
  <2>4. CASE Linked(x) /\ sessions[p] = 0
    <3>1. ConnOf(x) \in Conn /\ Heard(ConnOf(x)) /\ ConnOf(x) \in live
      BY <2>4, ConnOfType DEF Linked, Heard, ConnOf
    <3>2. wire'[ConnOf(x)] = Append(wire[ConnOf(x)], e)
      BY <2>4, <2>2, <3>1 DEF Broadcast, Linked
    <3>3. p \in Online' <=> p \notin Online
      BY <1>4, <2>4
    <3> HIDE DEF e, p
    <3>4. QED
      BY <1>1, <1>4, <2>1, <2>4, <3>2, <3>3, GoodAnnounced
  <2>5. CASE sessions[p] # 0 /\ sock[x] # NoSlot
    <3>1. Online' = Online
      BY <1>4, <2>5 DEF Online
    <3>2. wire'[ConnOf(x)] = wire[ConnOf(x)]
      BY <2>5, <2>2
    <3>3. QED
      BY <2>1, <2>3, <3>1, <3>2, GoodUntouched
  <2>6. CASE ~Linked(x) /\ sock[x] # NoSlot
    <3>1. ConnOf(x) \in Conn /\ ConnOf(x) \notin live
      BY <2>6, ConnOfType DEF Linked
    <3>2. wire'[ConnOf(x)] = wire[ConnOf(x)]
      BY <2>6, <2>2, <3>1 DEF Broadcast
    <3>3. QED
      BY <2>1, <2>3, <2>6, <3>2, GoodUntouched
  <2>7. CASE sock[x] = NoSlot
    BY <2>1, <2>7 DEF Good
  <2>8. QED
    BY <2>4, <2>5, <2>6, <2>7
<1>7. QED
  BY <1>5, <1>6

(* Handling the first event of the queue leaves what the rest will show.   *)
LEMMA GoodReceive ==
  ASSUME TypeOK, \A x \in Daemon : Good(x),
         NEW d \in Daemon, Receive(d), NEW x \in Daemon
  PROVE  Good(x)'
<1> DEFINE w == wire[ConnOf(d)]
<1>1. /\ ConnOf(d) \in Conn /\ w \in Seq(Event) /\ w # <<>>
      /\ sock[d] # NoSlot
  BY ConnOfType DEF Receive, TypeOK
<1>2. /\ sock' = sock /\ live' = live /\ sessions' = sessions
      /\ view' = [view EXCEPT ![d] = Apply(view[d], Head(w))]
      /\ wire' = [wire EXCEPT ![ConnOf(d)] = Tail(w)]
  BY DEF Receive
<1>3. Online' = Online /\ ConnOf(x)' = ConnOf(x) /\ (Linked(x)' <=> Linked(x))
  BY <1>2 DEF Online, ConnOf, Linked
<1>4. CASE x = d
  <2>1. view'[x] = Apply(view[d], Head(w)) /\ wire'[ConnOf(x)'] = Tail(w)
    BY <1>1, <1>2, <1>3, <1>4 DEF TypeOK
  <2>2. /\ Len(w) \in Nat /\ Len(w) \in 1..Len(w) /\ Len(Tail(w)) = Len(w) - 1
        /\ \A j \in 1..Len(Tail(w)) : Tail(w)[j] = w[j + 1]
    BY <1>1, HeadTailProperties, EmptySeq
  <2>3. NewsIn(Apply(view[d], Head(w)), Tail(w))
    <3> SUFFICES ASSUME NEW j \in 1..Len(Tail(w)), Tail(w)[j].kind = "change",
                        NEW q \in Tail(w)[j].about
                 PROVE  ShownAfter(Apply(view[d], Head(w)), Tail(w), j - 1, q,
                                   Peer \ Tail(w)[j].on)
      BY DEF NewsIn
    <3>1. j + 1 \in 1..Len(w) /\ Tail(w)[j] = w[j + 1] /\ j \in 1..Len(w)
      BY <2>2
    <3>2. ShownAfter(view[d], w, (j + 1) - 1, q, Peer \ w[j + 1].on)
      BY <1>1, <3>1 DEF Good, NewsIn
    <3>3. (j + 1) - 1 = j
      BY <2>2
    <3>4. ShownAfter(view[d], w, j, q, Peer \ Tail(w)[j].on)
      BY <3>1, <3>2, <3>3
    <3> HIDE DEF w
    <3>5. QED
      BY <1>1, <3>1, <3>4, ShownTail
  <2>4. ASSUME Linked(x)', NEW q \in Peer
        PROVE  ShownAfter(Apply(view[d], Head(w)), Tail(w), Len(Tail(w)), q, Online')
    <3>1. ShownAfter(view[d], w, Len(w), q, Online)
      BY <1>1, <1>3, <1>4, <2>4 DEF Good
    <3> HIDE DEF w
    <3>2. QED
      BY <1>1, <1>3, <2>2, <3>1, ShownTail
  <2>5. QED
    BY <2>1, <2>3, <2>4 DEF Good
<1>5. CASE x # d
  <2>1. ConnOf(x) # ConnOf(d)
    BY <1>5 DEF ConnOf
  <2>2. sock'[x] = sock[x] /\ view'[x] = view[x]
        /\ wire'[ConnOf(x)] = wire[ConnOf(x)]
    BY <1>1, <1>2, <1>5, <2>1 DEF TypeOK
  <2>3. QED
    BY <1>3, <2>2, GoodUntouched
<1>6. QED
  BY <1>4, <1>5

(* A daemon that closes its socket owes nothing; the others are untouched. *)
LEMMA GoodClose ==
  ASSUME TypeOK, \A x \in Daemon : Good(x), NEW d \in Daemon, CloseClient(d),
         live' = live, sessions' = sessions, NEW x \in Daemon
  PROVE  Good(x)'
<1>1. CASE x = d
  BY <1>1 DEF Good, CloseClient, TypeOK
<1>2. CASE x # d /\ sock[x] = NoSlot
  BY <1>2 DEF Good, CloseClient, TypeOK
<1>3. CASE x # d /\ sock[x] # NoSlot
  <2>1. ConnOf(x) # ConnOf(d) /\ ConnOf(x) \in Conn
    BY <1>3, ConnOfType DEF ConnOf
  <2>2. /\ sock'[x] = sock[x] /\ view'[x] = view[x]
        /\ wire'[ConnOf(x)] = wire[ConnOf(x)]
    BY <1>3, <2>1 DEF CloseClient, TypeOK
  <2>3. Online' = Online /\ (Linked(x)' => Linked(x))
    BY <2>2 DEF Online, Linked, ConnOf
  <2>4. QED
    BY <2>2, <2>3, GoodUntouched
<1>4. QED
  BY <1>1, <1>2, <1>3

(* When the relay notices a lost session, it tells the remaining           *)
(* connections exactly if it was the peer's last.                          *)
LEMMA GoodRelayLost ==
  ASSUME TypeOK, SessionCount, \A x \in Daemon : Good(x),
         NEW c \in Conn, RelayLost(c), NEW x \in Daemon
  PROVE  Good(x)'
<1> DEFINE p == Owner(c)
           e == Change(p, FALSE)
<1>1. p \in Peer /\ e \in Event /\ e.about = {p} /\ p \notin e.on
  <2>1. p \in Peer
    BY DEF Owner, Conn
  <2>2. e.about = {p} /\ p \notin e.on
    BY DEF Change
  <2>3. QED
    BY <2>1, <2>2, EventTypes
<1>2. /\ c \in live /\ live' = live \ {c}
      /\ sessions' = [sessions EXCEPT ![p] =
                        IF sessions[p] <= 1 THEN 0 ELSE sessions[p] - 1]
      /\ wire' = IF sessions[p] <= 1 THEN Broadcast(live', e) ELSE wire
      /\ sock' = sock /\ view' = view
  BY DEF RelayLost
<1>3. sessions[p] \in Nat /\ sessions[p] > 0
  <2>1. sessions[p] = Cardinality(SessionsOf(p)) /\ c \in SessionsOf(p)
    BY <1>1, <1>2 DEF SessionCount, SessionsOf
  <2>2. QED
    BY <1>1, <2>1, LiveFinite, FS_EmptySet, FS_CardinalityType
<1> HIDE DEF p, e
<1>4. /\ p \in Online
      /\ p \in Online' <=> sessions[p] > 1
      /\ \A q \in Peer : q # p => (q \in Online' <=> q \in Online)
  <2>1. sessions'[p] = IF sessions[p] <= 1 THEN 0 ELSE sessions[p] - 1
    BY <1>1, <1>2 DEF TypeOK
  <2>2. \A q \in Peer : q # p => sessions'[q] = sessions[q]
    BY <1>2 DEF TypeOK
  <2>3. p \in Online' <=> sessions[p] > 1
    BY <1>1, <1>3, <2>1 DEF Online
  <2>4. QED
    BY <1>1, <1>3, <2>2, <2>3 DEF Online
<1>5. ConnOf(x)' = ConnOf(x) /\ (Linked(x)' => Linked(x))
  BY <1>2 DEF ConnOf, Linked
<1>6. CASE sock[x] = NoSlot
  BY <1>2, <1>6 DEF Good
<1>7. CASE sock[x] # NoSlot /\ sessions[p] > 1
  <2>1. \A q \in Peer : q \in Online' <=> q \in Online
    BY <1>4, <1>7
  <2>2. Online' = Online
    BY <2>1 DEF Online
  <2>3. wire' = wire
    BY <1>2, <1>3, <1>7
  <2>4. QED
    BY <1>2, <1>5, <2>2, <2>3, GoodUntouched
<1>8. CASE sock[x] # NoSlot /\ sessions[p] = 1 /\ ConnOf(x) \in live'
  <2>1. Linked(x) /\ ConnOf(x) \in Conn /\ Heard(ConnOf(x))
    BY <1>2, <1>8, ConnOfType DEF Linked, Heard, ConnOf
  <2>2. wire'[ConnOf(x)] = Append(wire[ConnOf(x)], e)
    BY <1>2, <1>3, <1>8, <2>1 DEF Broadcast
  <2>3. p \in Online' <=> p \notin Online
    BY <1>4, <1>8
  <2>4. p \in e.on <=> p \in Online'
    BY <1>1, <1>4, <1>8
  <2>5. QED
    BY <1>1, <1>2, <1>4, <2>1, <2>2, <2>3, <2>4, GoodAnnounced
<1>9. CASE sock[x] # NoSlot /\ sessions[p] = 1 /\ ConnOf(x) \notin live'
  <2>1. ~Linked(x)' /\ ConnOf(x) \in Conn
    BY <1>5, <1>9, ConnOfType DEF Linked
  <2>2. wire'[ConnOf(x)] = wire[ConnOf(x)]
    BY <1>2, <1>9, <2>1 DEF Broadcast
  <2>3. QED
    BY <1>2, <2>1, <2>2, GoodUntouched
<1>10. QED
  BY <1>3, <1>6, <1>7, <1>8, <1>9

(* The strengthened invariant is kept by every step.                       *)
LEMMA StepPresenceInv == PresenceInv /\ [Next]_vars => PresenceInv'
<1> SUFFICES ASSUME PresenceInv, [Next]_vars PROVE PresenceInv'
  OBVIOUS
<1>1. TypeOK /\ SessionCount /\ \A x \in Daemon : Good(x)
  BY GoodAll DEF PresenceInv
<1>2. TypeOK' /\ SessionCount'
  BY <1>1, StepTypeOK, StepSessionCount
<1>3. SUFFICES ASSUME NEW x \in Daemon PROVE Good(x)'
  BY <1>2, GoodAll DEF PresenceInv
<1>4. ASSUME NEW d \in Daemon, NEW k \in Slot, Connect(d, k) PROVE Good(x)'
  BY <1>1, <1>4, GoodConnect
<1>5. ASSUME NEW d \in Daemon, Receive(d) PROVE Good(x)'
  BY <1>1, <1>5, GoodReceive
<1>6. ASSUME NEW d \in Daemon, ClientLost(d) PROVE Good(x)'
  BY <1>1, <1>6, GoodClose DEF ClientLost
<1>7. ASSUME NEW d \in Daemon, Stop(d) PROVE Good(x)'
  BY <1>1, <1>7, GoodClose DEF Stop
<1>8. ASSUME NEW c \in Conn, RelayLost(c) PROVE Good(x)'
  BY <1>1, <1>8, GoodRelayLost
<1>9. CASE RelayRestart
  <2>1. /\ sock' = sock /\ view' = view /\ wire' = wire /\ ~Linked(x)'
    BY <1>9 DEF RelayRestart, Linked
  <2>2. QED
    BY <1>1, <2>1, GoodUntouched
<1>10. ASSUME UNCHANGED <<sock, view, live, sessions, wire>> PROVE Good(x)'
  BY <1>1, <1>10, GoodUntouched DEF Online, Linked, ConnOf
<1>11. QED
  BY <1>4, <1>5, <1>6, <1>7, <1>8, <1>9, <1>10 DEF Next, vars, Start

(* The relay's count, every daemon's view and the events on their way      *)
(* agree in every reachable state; this is the invariant the other         *)
(* theorems follow from.                                                   *)
THEOREM PresenceInvariant == Spec => []PresenceInv
<1>1. Init => PresenceInv
  <2> SUFFICES ASSUME Init PROVE PresenceInv
    OBVIOUS
  <2>1. \A d \in Daemon : Good(d)
    BY DEF Init, Good
  <2>2. TypeOK
    BY DEF Init, TypeOK
  <2>3. \A p \in Peer : sessions[p] = Cardinality({c \in live : Owner(c) = p})
    BY FS_EmptySet DEF Init
  <2>4. QED
    BY <2>1, <2>2, <2>3, GoodAll DEF PresenceInv, SessionCount
<1>2. QED
  BY <1>1, StepPresenceInv, PTL DEF Spec

(* A connected daemon that has caught up with its events shows exactly the *)
(* peers the relay has as online.                                          *)
THEOREM PresenceConverges == Spec => []Converges
BY PresenceInvariant, PTL DEF PresenceInv

(* A change handled by a daemon is never a repetition. *)
THEOREM PresenceDeltasAreNews == Spec => DeltasAreNews
<1>1. ASSUME PresenceInv, NEW d \in Daemon, Receive(d),
             Head(wire[ConnOf(d)]).kind = "change"
      PROVE  view'[d] # view[d]
  <2> DEFINE w == wire[ConnOf(d)]
  <2>1. /\ sock[d] # NoSlot /\ w \in Seq(Event) /\ w # <<>>
        /\ NewsIn(view[d], w)
    BY <1>1, ConnOfType DEF Receive, PresenceInv, TypeOK, Alternates
  <2>2. /\ view'[d] = Apply(view[d], Head(w))
        /\ Head(w) = w[1] /\ w[1] \in Event /\ 1 \in 1..Len(w)
    BY <1>1, <2>1 DEF Receive, PresenceInv, TypeOK
  <2>3. PICK p \in w[1].about : TRUE
    BY <1>1, <2>2 DEF Event
  <2>4. ShownAfter(view[d], w, 1 - 1, p, Peer \ w[1].on)
    BY <1>1, <2>1, <2>2, <2>3 DEF NewsIn
  <2>5. 1 - 1 = 0
    OBVIOUS
  <2>6. ShownAfter(view[d], w, 0, p, Peer \ w[1].on)
    BY <2>4, <2>5
  <2>7. p \in view[d] <=> p \notin w[1].on
    BY <2>2, <2>3, <2>6 DEF ShownAfter, Event
  <2>8. p \in view'[d] <=> p \in w[1].on
    BY <2>2, <2>3 DEF Apply
  <2>9. QED
    BY <2>7, <2>8
<1>2. PresenceInv /\ [Next]_vars =>
        [\A d \in Daemon :
           Receive(d) /\ Head(wire[ConnOf(d)]).kind = "change" => view'[d] # view[d]]_vars
  BY <1>1
<1>3. QED
  BY <1>2, PresenceInvariant, PTL DEF Spec, DeltasAreNews

-----------------------------------------------------------------------------
(***************************************************************************)
(* The daemons' PresenceStores, fed by the relay as Presence says,         *)
(* implement PresenceView.                                                 *)
(***************************************************************************)
(* The queue of a connection: a snapshot can only be its first event, and  *)
(* a change names one peer.                                                *)
Fed(w) ==
  /\ \A j \in 2..Len(w) : w[j].kind = "change"
  /\ \A j \in 1..Len(w) : w[j].kind = "change" => \E p \in Peer : w[j].about = {p}

(* What makes the steps of one store map to steps of the view. *)
FedInv ==
  \A d \in Daemon : /\ sock[d] = NoSlot => view[d] = {}
                    /\ sock[d] # NoSlot => Fed(wire[ConnOf(d)])

(* A change appended to a queue keeps its form. *)
LEMMA FedAppend ==
  ASSUME NEW w \in Seq(Event), Fed(w), NEW e \in Event, e.kind = "change",
         NEW p \in Peer, e.about = {p}
  PROVE  Fed(Append(w, e))
<1>1. /\ \A i \in 1..Len(w) : Append(w, e)[i] = w[i]
      /\ Append(w, e)[Len(w) + 1] = e
      /\ Len(Append(w, e)) = Len(w) + 1
      /\ Len(w) \in Nat
  BY AppendProperties
<1>2. QED
  BY <1>1 DEF Fed

(* So does handling the first event, after which no snapshot is left. *)
LEMMA FedTail ==
  ASSUME NEW w \in Seq(Event), w # <<>>, Fed(w)
  PROVE  /\ Fed(Tail(w))
         /\ Tail(w) # <<>> => Head(Tail(w)).kind = "change"
<1>1. /\ \A i \in 1..Len(Tail(w)) : Tail(w)[i] = w[i + 1]
      /\ Len(Tail(w)) = Len(w) - 1
      /\ Len(w) \in Nat
  BY HeadTailProperties
<1>2. Fed(Tail(w))
  BY <1>1 DEF Fed
<1>3. ASSUME Tail(w) # <<>> PROVE Head(Tail(w)).kind = "change"
  <2>1. Tail(w) \in Seq(Event) /\ Len(Tail(w)) \in Nat /\ Len(Tail(w)) # 0
    BY <1>3, HeadTailProperties, EmptySeq
  <2>2. Head(Tail(w)) = w[2] /\ 2 \in 2..Len(w)
    BY <1>1, <2>1
  <2>3. QED
    BY <2>2 DEF Fed
<1>4. QED
  BY <1>2, <1>3

(* The event the relay announces a peer with. *)
LEMMA ChangeForm ==
  ASSUME NEW p \in Peer, NEW b \in BOOLEAN
  PROVE  /\ Change(p, b) \in Event
         /\ Change(p, b).kind = "change"
         /\ Change(p, b).about = {p}
BY EventTypes DEF Change

(* An announcement keeps every queue in its form, and does not change the  *)
(* first event of a queue that has one.                                    *)
LEMMA FedBroadcast ==
  ASSUME TypeOK, NEW S \in SUBSET Conn, NEW p \in Peer, NEW b \in BOOLEAN,
         NEW c \in Conn, Fed(wire[c])
  PROVE  /\ Fed(Broadcast(S, Change(p, b))[c])
         /\ wire[c] # <<>> =>
              /\ Broadcast(S, Change(p, b))[c] # <<>>
              /\ Head(Broadcast(S, Change(p, b))[c]) = Head(wire[c])
         /\ wire[c] = <<>> /\ Broadcast(S, Change(p, b))[c] # <<>> =>
              Head(Broadcast(S, Change(p, b))[c]).kind = "change"
<1> DEFINE e == Change(p, b)
           w == wire[c]
<1>1. e \in Event /\ e.kind = "change" /\ e.about = {p}
  BY ChangeForm
<1>2. w \in Seq(Event)
  BY DEF TypeOK
<1>3. Broadcast(S, e)[c] = Append(w, e) \/ Broadcast(S, e)[c] = w
  BY DEF Broadcast
<1> HIDE DEF e, w
<1>4. Fed(Append(w, e))
  BY <1>1, <1>2, FedAppend DEF w
<1>5. /\ Append(w, e) # <<>>
      /\ w # <<>> => Head(Append(w, e)) = Head(w)
      /\ w = <<>> => Head(Append(w, e)) = e
  <2>1. /\ Append(w, e) \in Seq(Event)
        /\ Append(w, e) # <<>>
        /\ \A i \in 1..Len(w) : Append(w, e)[i] = w[i]
        /\ Append(w, e)[Len(w) + 1] = e
        /\ Len(w) \in Nat
    BY <1>1, <1>2, AppendProperties
  <2>2. Head(Append(w, e)) = Append(w, e)[1]
    BY <2>1
  <2>3. w # <<>> => Head(w) = w[1] /\ 1 \in 1..Len(w)
    BY <1>2
  <2>4. w = <<>> => Len(w) + 1 = 1
    OBVIOUS
  <2>5. QED
    BY <2>1, <2>2, <2>3, <2>4
<1>6. QED
  BY <1>1, <1>3, <1>4, <1>5 DEF e, w

-----------------------------------------------------------------------------
(* The phase of a store, when the step leaves it its socket. *)
LEMMA PhaseKept ==
  ASSUME TypeOK, FedInv, NEW x \in Daemon, sock'[x] = sock[x],
         sock[x] # NoSlot =>
           \/ wire'[ConnOf(x)] = wire[ConnOf(x)]
           \/ \E S \in SUBSET Conn, p \in Peer, b \in BOOLEAN :
                wire'[ConnOf(x)] = Broadcast(S, Change(p, b))[ConnOf(x)]
  PROVE  /\ Phase(x)' = Phase(x)
         /\ sock[x] # NoSlot => Fed(wire'[ConnOf(x)])
         /\ ConnOf(x)' = ConnOf(x)
<1>1. ConnOf(x)' = ConnOf(x)
  BY DEF ConnOf
<1>2. CASE sock[x] = NoSlot
  BY <1>1, <1>2 DEF Phase
<1>3. CASE sock[x] # NoSlot /\ wire'[ConnOf(x)] = wire[ConnOf(x)]
  BY <1>1, <1>3 DEF Phase, FedInv
<1>4. ASSUME sock[x] # NoSlot, NEW S \in SUBSET Conn, NEW p \in Peer,
             NEW b \in BOOLEAN,
             wire'[ConnOf(x)] = Broadcast(S, Change(p, b))[ConnOf(x)]
      PROVE  Phase(x)' = Phase(x) /\ Fed(wire'[ConnOf(x)])
  <2>1. ConnOf(x) \in Conn /\ Fed(wire[ConnOf(x)])
    BY <1>4, ConnOfType DEF FedInv
  <2>2. /\ Fed(wire'[ConnOf(x)])
        /\ wire[ConnOf(x)] # <<>> =>
             /\ wire'[ConnOf(x)] # <<>>
             /\ Head(wire'[ConnOf(x)]) = Head(wire[ConnOf(x)])
        /\ wire[ConnOf(x)] = <<>> /\ wire'[ConnOf(x)] # <<>> =>
             Head(wire'[ConnOf(x)]).kind = "change"
    BY <1>4, <2>1, FedBroadcast
  <2>3. QED
    BY <1>1, <1>4, <2>2 DEF Phase
<1>5. QED
  BY <1>1, <1>2, <1>3, <1>4

(* The phases of all stores, as PresenceView knows them. *)
Phases == [d \in Daemon |-> Phase(d)]

(* A step that changes the phase of no store and no view is a stutter. *)
LEMMA StutterMaps ==
  ASSUME \A x \in Daemon : Phase(x)' = Phase(x), view' = view
  PROVE  UNCHANGED Views!vars
BY DEF Views!vars

(* A step that concerns one store changes one phase. *)
LEMMA PhaseMaps ==
  ASSUME NEW d \in Daemon, NEW ph, Phase(d)' = ph,
         \A x \in Daemon \ {d} : Phase(x)' = Phase(x)
  PROVE  Phases' = [Phases EXCEPT ![d] = ph]
BY DEF Phases

(* Connecting opens the store of d; the others keep their phases. *)
LEMMA ConnectMaps ==
  ASSUME TypeOK, FedInv, NEW d \in Daemon, NEW k \in Slot, Connect(d, k)
  PROVE  FedInv' /\ Views!Open(d)
<1> DEFINE c == <<d, k>>
           p == PeerOf[d]
           others == IF sessions[p] = 0 THEN Broadcast(live, Change(p, TRUE))
                                        ELSE wire
           s == Snapshot(Online')
<1>1. /\ sock[d] = NoSlot /\ k # NoSlot /\ c \in Conn /\ p \in Peer
      /\ sock' = [sock EXCEPT ![d] = k]
      /\ wire' = [others EXCEPT ![c] = <<s>>]
      /\ view' = view
  BY DEF Connect, Conn
<1>2. others \in [Conn -> Seq(Event)]
  BY <1>1, EventTypes, BroadcastType DEF TypeOK
<1>3. ConnOf(d)' = c /\ sock'[d] # NoSlot
  BY <1>1 DEF ConnOf, TypeOK
<1>4. wire'[c] = <<s>>
  BY <1>1, <1>2
<1>5. s.kind = "snapshot"
  BY DEF Snapshot
<1>6. \A x \in Daemon \ {d} : /\ sock'[x] = sock[x]
                              /\ ConnOf(x) # c
  BY <1>1 DEF ConnOf, TypeOK
<1>7. ASSUME NEW x \in Daemon \ {d}
      PROVE  /\ Phase(x)' = Phase(x)
             /\ sock[x] # NoSlot => Fed(wire'[ConnOf(x)])
             /\ ConnOf(x)' = ConnOf(x)
  <2>1. sock[x] # NoSlot => /\ ConnOf(x) \in Conn
                            /\ wire'[ConnOf(x)] = others[ConnOf(x)]
    BY <1>1, <1>2, <1>6, ConnOfType
  <2>2. sock[x] # NoSlot =>
           \/ wire'[ConnOf(x)] = wire[ConnOf(x)]
           \/ \E S \in SUBSET Conn, q \in Peer, b \in BOOLEAN :
                wire'[ConnOf(x)] = Broadcast(S, Change(q, b))[ConnOf(x)]
    <3>1. live \in SUBSET Conn /\ p \in Peer /\ TRUE \in BOOLEAN
      BY <1>1 DEF TypeOK
    <3>2. QED
      BY <2>1, <3>1
  <2> HIDE DEF c, p, others, s
  <2>3. QED
    BY <1>6, <2>2, PhaseKept
<1> HIDE DEF c, p, others, s
<1>8. Fed(<<s>>)
  BY <1>5 DEF Fed
<1>9. FedInv'
  <2>1. ASSUME NEW x \in Daemon
        PROVE  /\ sock'[x] = NoSlot => view'[x] = {}
               /\ sock'[x] # NoSlot => Fed(wire'[ConnOf(x)'])
    <3>1. CASE x = d
      BY <1>3, <1>4, <1>8, <3>1
    <3>2. CASE x # d
      BY <1>1, <1>6, <1>7, <3>2 DEF FedInv
    <3>3. QED
      BY <3>1, <3>2
  <2>2. QED
    BY <2>1 DEF FedInv
<1>10. Phase(d) = "down" /\ Phase(d)' = "open"
  <2>1. Phase(d) = "down"
    BY <1>1 DEF Phase
  <2>2. wire'[ConnOf(d)'] # <<>> /\ Head(wire'[ConnOf(d)']).kind = "snapshot"
    BY <1>3, <1>4, <1>5
  <2>3. QED
    BY <1>3, <2>1, <2>2 DEF Phase
<1>11. Phases' = [Phases EXCEPT ![d] = "open"]
  BY <1>7, <1>10, PhaseMaps
<1>12. QED
  BY <1>1, <1>9, <1>10, <1>11 DEF Views!Open, Phases

(* Handling the snapshot seeds the store; handling a change adds or        *)
(* removes one peer.                                                       *)
LEMMA ReceiveMaps ==
  ASSUME TypeOK, FedInv, NEW d \in Daemon, Receive(d)
  PROVE  FedInv' /\ (Views!Seed(d) \/ Views!Change(d))
<1> DEFINE w == wire[ConnOf(d)]
           e == Head(w)
<1>1. /\ sock[d] # NoSlot /\ w # <<>>
      /\ sock' = sock
      /\ view' = [view EXCEPT ![d] = Apply(view[d], e)]
      /\ wire' = [wire EXCEPT ![ConnOf(d)] = Tail(w)]
  BY DEF Receive
<1>2. ConnOf(d) \in Conn /\ w \in Seq(Event) /\ Fed(w)
  BY <1>1, ConnOfType DEF TypeOK, FedInv
<1>3. e \in Event /\ e = w[1] /\ 1 \in 1..Len(w)
  BY <1>1, <1>2
<1>4. wire'[ConnOf(d)] = Tail(w) /\ ConnOf(d)' = ConnOf(d)
  BY <1>1, <1>2 DEF TypeOK, ConnOf
<1>5. Fed(Tail(w)) /\ (Tail(w) # <<>> => Head(Tail(w)).kind = "change")
  BY <1>1, <1>2, FedTail
<1>6. ASSUME NEW x \in Daemon \ {d}
      PROVE  /\ Phase(x)' = Phase(x)
             /\ sock[x] # NoSlot => Fed(wire'[ConnOf(x)])
             /\ ConnOf(x)' = ConnOf(x)
  <2>1. ConnOf(x) # ConnOf(d)
    BY DEF ConnOf
  <2>2. sock[x] # NoSlot => wire'[ConnOf(x)] = wire[ConnOf(x)]
    BY <1>1, <1>2, <2>1, ConnOfType DEF TypeOK
  <2>3. QED
    BY <1>1, <2>2, PhaseKept
<1>7. Phase(d) = IF e.kind = "snapshot" THEN "open" ELSE "seeded"
  BY <1>1 DEF Phase
<1> HIDE DEF w, e
<1>8. Phase(d)' = "seeded"
  BY <1>1, <1>4, <1>5 DEF Phase
<1>9. Phases' = [Phases EXCEPT ![d] = "seeded"]
  BY <1>6, <1>8, PhaseMaps
<1>10. FedInv'
  <2>1. ASSUME NEW x \in Daemon
        PROVE  /\ sock'[x] = NoSlot => view'[x] = {}
               /\ sock'[x] # NoSlot => Fed(wire'[ConnOf(x)'])
    <3>1. CASE x = d
      BY <1>1, <1>4, <1>5, <3>1
    <3>2. CASE x # d
      BY <1>1, <1>6, <3>2 DEF FedInv, TypeOK
    <3>3. QED
      BY <3>1, <3>2
  <2>2. QED
    BY <2>1 DEF FedInv
<1>11. view[d] \in SUBSET Peer /\ Apply(view[d], e) \in SUBSET Peer
  BY <1>3, EventTypes DEF TypeOK
<1>12. CASE e.kind = "snapshot"
  <2>1. Views!Seed(d)
    BY <1>1, <1>7, <1>9, <1>11, <1>12 DEF Views!Seed, Phases
  <2>2. QED
    BY <1>10, <2>1
<1>13. CASE e.kind # "snapshot"
  <2>1. PICK p \in Peer : e.about = {p}
    BY <1>2, <1>3, <1>13 DEF Fed, Event
  <2>2. e.on = {p} \/ e.on = {}
    BY <1>3, <2>1 DEF Event
  <2>3. \/ Apply(view[d], e) = view[d] \union {p}
        \/ Apply(view[d], e) = view[d] \ {p}
    BY <2>1, <2>2 DEF Apply
  <2>4. Phases' = Phases /\ Phases[d] = "seeded"
    <3>1. Phases[d] = "seeded" /\ Phases \in [Daemon -> {"down", "open", "seeded"}]
      BY <1>7, <1>13 DEF Phases, Phase
    <3>2. QED
      BY <1>9, <3>1
  <2>5. \/ view' = [view EXCEPT ![d] = view[d] \union {p}]
        \/ view' = [view EXCEPT ![d] = view[d] \ {p}]
    BY <1>1, <2>3
  <2>6. Views!Change(d)
    BY <2>4, <2>5 DEF Views!Change, Phases
  <2>7. QED
    BY <1>10, <2>6
<1>14. QED
  BY <1>12, <1>13

(* Closing the daemon's end closes the store, if it was not down already.  *)
LEMMA CloseMaps ==
  ASSUME TypeOK, FedInv, NEW d \in Daemon, CloseClient(d)
  PROVE  /\ FedInv'
         /\ sock[d] # NoSlot => Views!Close(d)
         /\ sock[d] = NoSlot => UNCHANGED Views!vars
<1>1. /\ sock' = [sock EXCEPT ![d] = NoSlot]
      /\ view' = [view EXCEPT ![d] = {}]
      /\ wire' = [c \in Conn |-> IF c = ConnOf(d) THEN <<>> ELSE wire[c]]
      /\ sock'[d] = NoSlot /\ view'[d] = {}
  BY DEF CloseClient, TypeOK
<1>2. ASSUME NEW x \in Daemon \ {d}
      PROVE  /\ Phase(x)' = Phase(x)
             /\ sock[x] # NoSlot => Fed(wire'[ConnOf(x)])
             /\ ConnOf(x)' = ConnOf(x)
  <2>1. ConnOf(x) # ConnOf(d) /\ sock'[x] = sock[x]
    BY <1>1 DEF ConnOf, TypeOK
  <2>2. sock[x] # NoSlot => wire'[ConnOf(x)] = wire[ConnOf(x)]
    BY <1>1, <2>1, ConnOfType
  <2>3. QED
    BY <2>1, <2>2, PhaseKept
<1>3. Phase(d)' = "down"
  BY <1>1 DEF Phase
<1>4. Phases' = [Phases EXCEPT ![d] = "down"]
  BY <1>2, <1>3, PhaseMaps
<1>5. FedInv'
  <2>1. ASSUME NEW x \in Daemon
        PROVE  /\ sock'[x] = NoSlot => view'[x] = {}
               /\ sock'[x] # NoSlot => Fed(wire'[ConnOf(x)'])
    <3>1. CASE x = d
      BY <1>1, <3>1
    <3>2. CASE x # d
      BY <1>1, <1>2, <3>2 DEF FedInv, TypeOK
    <3>3. QED
      BY <3>1, <3>2
  <2>2. QED
    BY <2>1 DEF FedInv
<1>6. ASSUME sock[d] # NoSlot PROVE Views!Close(d)
  <2>1. Phase(d) # "down"
    BY <1>6 DEF Phase
  <2>2. QED
    BY <1>1, <1>4, <2>1 DEF Views!Close, Phases
<1>7. ASSUME sock[d] = NoSlot PROVE UNCHANGED Views!vars
  <2>1. Phase(d) = "down" /\ view[d] = {}
    BY <1>7 DEF Phase, FedInv
  <2>2. view' = view
    BY <1>1, <2>1 DEF TypeOK
  <2>3. \A x \in Daemon : Phase(x)' = Phase(x)
    BY <1>2, <1>3, <2>1
  <2>4. QED
    BY <2>2, <2>3, StutterMaps
<1>8. QED
  BY <1>5, <1>6, <1>7

(* What the relay writes to queues, or forgets, leaves the stores alone.   *)
LEMMA RelayMaps ==
  ASSUME TypeOK, FedInv, sock' = sock, view' = view,
         \/ wire' = wire
         \/ \E S \in SUBSET Conn, p \in Peer, b \in BOOLEAN :
              wire' = Broadcast(S, Change(p, b))
  PROVE  FedInv' /\ UNCHANGED Views!vars
<1>1. ASSUME NEW x \in Daemon
      PROVE  /\ Phase(x)' = Phase(x)
             /\ sock[x] # NoSlot => Fed(wire'[ConnOf(x)])
             /\ ConnOf(x)' = ConnOf(x)
  <2>1. \/ wire'[ConnOf(x)] = wire[ConnOf(x)]
        \/ \E S \in SUBSET Conn, p \in Peer, b \in BOOLEAN :
             wire'[ConnOf(x)] = Broadcast(S, Change(p, b))[ConnOf(x)]
    OBVIOUS
  <2>2. sock'[x] = sock[x]
    OBVIOUS
  <2>3. QED
    BY <2>1, <2>2, PhaseKept
<1>2. FedInv'
  BY <1>1 DEF FedInv
<1>3. QED
  BY <1>1, <1>2, StutterMaps

(* Every step of the stores and the relay is a step of PresenceView or     *)
(* changes nothing in it.                                                  *)
LEMMA StepMaps ==
  TypeOK /\ FedInv /\ [Next]_vars => FedInv' /\ [Views!Next]_(Views!vars)
<1> SUFFICES ASSUME TypeOK, FedInv, [Next]_vars
             PROVE  FedInv' /\ [Views!Next]_(Views!vars)
  OBVIOUS
<1>1. ASSUME NEW d \in Daemon, NEW k \in Slot, Connect(d, k)
      PROVE  FedInv' /\ [Views!Next]_(Views!vars)
  BY <1>1, ConnectMaps DEF Views!Next
<1>2. ASSUME NEW d \in Daemon, Receive(d)
      PROVE  FedInv' /\ [Views!Next]_(Views!vars)
  BY <1>2, ReceiveMaps DEF Views!Next
<1>3. ASSUME NEW d \in Daemon, ClientLost(d) \/ Stop(d)
      PROVE  FedInv' /\ [Views!Next]_(Views!vars)
  <2>1. CloseClient(d)
    BY <1>3 DEF ClientLost, Stop
  <2>2. QED
    BY <2>1, CloseMaps DEF Views!Next
<1>4. ASSUME NEW c \in Conn, RelayLost(c)
      PROVE  FedInv' /\ [Views!Next]_(Views!vars)
  <2>1. live' \in SUBSET Conn /\ Owner(c) \in Peer /\ FALSE \in BOOLEAN
    BY <1>4 DEF RelayLost, TypeOK, Owner, Conn
  <2>2. /\ sock' = sock /\ view' = view
        /\ \/ wire' = wire
           \/ wire' = Broadcast(live', Change(Owner(c), FALSE))
    BY <1>4 DEF RelayLost
  <2>3. QED
    BY <2>1, <2>2, RelayMaps
<1>5. ASSUME UNCHANGED <<sock, view, wire>>
      PROVE  FedInv' /\ [Views!Next]_(Views!vars)
  BY <1>5, RelayMaps
<1>6. QED
  BY <1>1, <1>2, <1>3, <1>4, <1>5 DEF Next, Start, RelayRestart, vars

(* A view is seeded once per connection, by the snapshot and before any    *)
(* change, and shows nobody without a connection.                          *)
THEOREM PresenceViewsRefine == Spec => ViewsRefine
<1>1. Init => TypeOK /\ FedInv /\ Views!Init
  <2> SUFFICES ASSUME Init PROVE TypeOK /\ FedInv /\ Views!Init
    OBVIOUS
  <2>1. TypeOK /\ FedInv
    <3>1. TypeOK
      BY DEF Init, TypeOK
    <3>2. QED
      BY <3>1 DEF Init, FedInv
  <2>2. \A d \in Daemon : Phase(d) = "down"
    BY DEF Init, Phase
  <2>3. QED
    BY <2>1, <2>2 DEF Init, Views!Init
<1>2. QED
  BY <1>1, StepTypeOK, StepMaps, PTL DEF Spec, ViewsRefine, Views!Spec

=============================================================================
