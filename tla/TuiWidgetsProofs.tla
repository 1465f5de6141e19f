------------------------- MODULE TuiWidgetsProofs -------------------------
(***************************************************************************)
(* Proofs about two parts of the terminal UI that keep state of their own, *)
(* the status bar (TuiStatus) and the message editor (TextArea).           *)
(***************************************************************************)
EXTENDS TuiStatus, TextArea, SequenceTheorems, FiniteSetTheorems, WellFoundedInduction, TLAPS

(***************************************************************************)
(* The status bar is right whenever nothing is under way, for any number   *)
(* of sockets, peers, relay events, stopped daemons and refused dials.     *)
(*                                                                         *)
(* Sockets do not wait for each other: what one delivers late, another has *)
(* delivered before.  The argument is that the last frame of its kind on   *)
(* the way to any subscriber tells the truth, so the bar does too once the *)
(* last such frame is delivered, and that whatever blanks the bar leaves a *)
(* timer or a broken socket behind, after which a new subscription is      *)
(* seeded with both kinds.                                                 *)
(***************************************************************************)

USE TuiStatusAssumption

Frame == [event : {"presence", "relay:status"}, online : SUBSET Peer, connected : BOOLEAN]

Online == view[Daemon]

(* A frame says how things are: c of the relay, or o of the peers. *)
Tells(f, c, o) == IF f.event = "presence" THEN f.online = o ELSE f.connected = c

(* The last frame of each kind does. *)
Fresh(w, c, o) ==
  \A i \in 1..Len(w) :
    (\A j \in 1..Len(w) : j > i => w[j].event # w[i].event) => Tells(w[i], c, o)

HasKind(w, k) == \E i \in 1..Len(w) : w[i].event = k

(* A socket of the UI. *)
SockOK(r) ==
  \/ r \in {Free, [Free EXCEPT !.cl = "failed"], [Free EXCEPT !.cl = "refused"]}
  \/ /\ r \in [cl : {"dialing", "up"}, srv : {"open", "subscribed", "gone"}, wire : Seq(Frame)]
     /\ r.srv = "open" => r.wire = <<>>
     /\ r.cl = "dialing" => r.srv # "subscribed"

Types ==
  /\ phase \in [{Daemon} -> {"down", "open", "seeded"}]
  /\ view \in [{Daemon} -> SUBSET Peer]
  /\ listening \in BOOLEAN
  /\ DOMAIN line = Sock /\ \A s \in Sock : SockOK(line[s])
  /\ timers \in Nat /\ current \in Sock \union {None} /\ cancelled \in BOOLEAN
  /\ shown \in [daemon : BOOLEAN, relay : BOOLEAN, online : SUBSET Peer]

(* A timer will dial again, or a socket will be dropped, which sets one. *)
Broken ==
  \/ cancelled \/ timers > 0
  \/ \E s \in Sock : line[s].cl \in {"refused", "failed"} \/ line[s].srv = "gone"

Dialing == \E s \in Sock : line[s].cl = "dialing"

(* A socket waits to be subscribed, which seeds it. *)
Unserved == \E s \in Sock : line[s].srv = "open"

Coming(k) == \E s \in Subscribers : HasKind(line[s].wire, k)

(* The UI never gives up. *)
Trying == cancelled \/ timers > 0 \/ \E s \in Sock : line[s].cl # "free"

StatusInv ==
  /\ Types
  /\ Trying
  /\ \A s \in Sock : line[s].srv \in {"open", "subscribed"} => listening
  /\ \A s \in Subscribers : Fresh(line[s].wire, Connected, Online)
  /\ Broken \/ Dialing \/ shown.daemon
  /\ Broken \/ Unserved \/ Coming("relay:status") \/ shown.relay = Connected
  /\ Broken \/ Unserved \/ Coming("presence") \/ shown.online = Online

-----------------------------------------------------------------------------
(* Frames. *)
LEMMA FrameTypes ==
  /\ \A o \in SUBSET Peer : PresenceFrame(o) \in Frame
  /\ \A c \in BOOLEAN : RelayFrame(c) \in Frame
  /\ \A f \in Frame : f.event \in {"presence", "relay:status"}
BY DEF PresenceFrame, RelayFrame, Frame

(* More frames after those under way: what has changed must be among them. *)
LEMMA FreshConcat ==
  ASSUME NEW v \in Seq(Frame), NEW w \in Seq(Frame), NEW c, NEW o, NEW d, NEW p,
         Fresh(v, c, o), Fresh(w, d, p),
         d # c => HasKind(w, "relay:status"), p # o => HasKind(w, "presence")
  PROVE  /\ v \o w \in Seq(Frame)
         /\ Fresh(v \o w, d, p)
         /\ \A k : HasKind(v \o w, k) <=> HasKind(v, k) \/ HasKind(w, k)
<1> DEFINE u == v \o w
<1>1. /\ u \in Seq(Frame) /\ Len(u) = Len(v) + Len(w)
      /\ \A i \in 1..(Len(v) + Len(w)) : u[i] = IF i <= Len(v) THEN v[i] ELSE w[i - Len(v)]
      /\ Len(v) \in Nat /\ Len(w) \in Nat
  BY ConcatProperties, LenProperties
<1> HIDE DEF u
<1>2. /\ \A i \in 1..Len(v) : i \in 1..Len(u) /\ u[i] = v[i]
      /\ \A i \in 1..Len(w) : i + Len(v) \in 1..Len(u) /\ u[i + Len(v)] = w[i]
      /\ \A i \in 1..Len(u) : i \in 1..Len(v)
                              \/ (i > Len(v) /\ i - Len(v) \in 1..Len(w) /\ u[i] = w[i - Len(v)])
  <2>1. ASSUME NEW i \in 1..Len(v) PROVE i \in 1..Len(u) /\ u[i] = v[i]
    BY <1>1
  <2>2. ASSUME NEW i \in 1..Len(w)
        PROVE  i + Len(v) \in 1..Len(u) /\ u[i + Len(v)] = w[i]
    <3>1. i + Len(v) \in 1..(Len(v) + Len(w)) /\ ~(i + Len(v) <= Len(v))
          /\ (i + Len(v)) - Len(v) = i
      BY <1>1
    <3> QED
      BY <1>1, <3>1
  <2>3. ASSUME NEW i \in 1..Len(u), i \notin 1..Len(v)
        PROVE  i > Len(v) /\ i - Len(v) \in 1..Len(w) /\ u[i] = w[i - Len(v)]
    BY <1>1, <2>3
  <2> QED
    BY <2>1, <2>2, <2>3
<1>3. ASSUME NEW k
      PROVE  HasKind(u, k) <=> HasKind(v, k) \/ HasKind(w, k)
  <2>1. HasKind(v, k) \/ HasKind(w, k) => HasKind(u, k)
    BY <1>2, ZenonT(40) DEF HasKind
  <2>2. HasKind(u, k) => HasKind(v, k) \/ HasKind(w, k)
    <3> SUFFICES ASSUME NEW i \in 1..Len(u), u[i].event = k
                 PROVE  HasKind(v, k) \/ HasKind(w, k)
      BY DEF HasKind
    <3>1. CASE i \in 1..Len(v)
      BY <1>2, <3>1 DEF HasKind
    <3>2. CASE i - Len(v) \in 1..Len(w) /\ u[i] = w[i - Len(v)]
      BY <3>2 DEF HasKind
    <3> QED
      BY <1>2, <3>1, <3>2
  <2> QED
    BY <2>1, <2>2
<1>4. Fresh(u, d, p)
  <2> SUFFICES ASSUME NEW i \in 1..Len(u),
                      \A j \in 1..Len(u) : j > i => u[j].event # u[i].event
               PROVE  Tells(u[i], d, p)
    BY DEF Fresh
  <2>1. CASE i \in 1..Len(v)
    <3>1. u[i] = v[i] /\ v[i] \in Frame
      BY <1>2, <2>1, ElementOfSeq
    <3>2. \A j \in 1..Len(v) : j > i => v[j].event # v[i].event
      BY <1>2, <2>1
    <3>3. Tells(v[i], c, o)
      BY <2>1, <3>2 DEF Fresh
    <3>4. \A j \in 1..Len(w) : w[j].event # v[i].event
      BY <1>1, <1>2, <2>1
    <3>5. ~HasKind(w, v[i].event)
      BY <3>4 DEF HasKind
    <3>6. v[i].event \in {"presence", "relay:status"}
      BY <3>1, FrameTypes
    <3> QED
      BY <3>1, <3>3, <3>5, <3>6 DEF Tells
  <2>2. CASE i > Len(v) /\ i - Len(v) \in 1..Len(w)
    <3>1. PICK n \in 1..Len(w) : n = i - Len(v)
      BY <2>2
    <3>2. u[i] = w[n]
      BY <1>1, <1>2, <3>1
    <3>3. \A j \in 1..Len(w) : j > n => w[j].event # w[n].event
      <4> SUFFICES ASSUME NEW j \in 1..Len(w), j > n PROVE w[j].event # w[n].event
        OBVIOUS
      <4>1. j + Len(v) \in 1..Len(u) /\ u[j + Len(v)] = w[j] /\ j + Len(v) > i
        BY <1>1, <1>2, <3>1
      <4> QED
        BY <3>2, <4>1
    <3> QED
      BY <3>2, <3>3 DEF Fresh
  <2> QED
    BY <1>2, <2>1, <2>2
<1> QED
  BY <1>1, <1>3, <1>4 DEF u

(* The first frame is delivered: either it told the truth or another of    *)
(* its kind follows.                                                       *)
LEMMA FreshTail ==
  ASSUME NEW w \in Seq(Frame), w # <<>>, NEW c, NEW o, Fresh(w, c, o)
  PROVE  /\ Head(w) \in Frame /\ Tail(w) \in Seq(Frame)
         /\ Fresh(Tail(w), c, o)
         /\ HasKind(Tail(w), Head(w).event) \/ Tells(Head(w), c, o)
         /\ \A k : HasKind(w, k) => HasKind(Tail(w), k) \/ Head(w).event = k
<1> DEFINE t == Tail(w)
<1>1. /\ Len(w) \in Nat \ {0} /\ Head(w) = w[1] /\ Head(w) \in Frame
      /\ t \in Seq(Frame) /\ Len(t) = Len(w) - 1
      /\ \A i \in 1..Len(t) : t[i] = w[i + 1]
  BY HeadTailProperties, EmptySeq, LenProperties
<1> HIDE DEF t
<1>2. /\ \A i \in 1..Len(t) : i + 1 \in 1..Len(w)
      /\ \A i \in 1..Len(w) : i = 1 \/ (i - 1 \in 1..Len(t) /\ t[i - 1] = w[i])
  BY <1>1
<1>3. Fresh(t, c, o)
  <2> SUFFICES ASSUME NEW i \in 1..Len(t),
                      \A j \in 1..Len(t) : j > i => t[j].event # t[i].event
               PROVE  Tells(t[i], c, o)
    BY DEF Fresh
  <2>1. \A j \in 1..Len(w) : j > i + 1 => w[j].event # w[i + 1].event
    <3> SUFFICES ASSUME NEW j \in 1..Len(w), j > i + 1 PROVE w[j].event # w[i + 1].event
      OBVIOUS
    <3>1. j - 1 \in 1..Len(t) /\ t[j - 1] = w[j] /\ j - 1 > i
      BY <1>1, <1>2
    <3> QED
      BY <1>1, <3>1
  <2> QED
    BY <1>1, <1>2, <2>1 DEF Fresh
<1>4. HasKind(t, w[1].event) \/ Tells(w[1], c, o)
  <2> SUFFICES ASSUME ~HasKind(t, w[1].event) PROVE Tells(w[1], c, o)
    OBVIOUS
  <2>1. \A j \in 1..Len(w) : j > 1 => w[j].event # w[1].event
    BY <1>2 DEF HasKind
  <2> QED
    BY <1>1, <2>1 DEF Fresh
<1>5. \A k : HasKind(w, k) => HasKind(t, k) \/ w[1].event = k
  BY <1>2 DEF HasKind
<1> QED
  BY <1>1, <1>3, <1>4, <1>5 DEF t

(* One frame, or one of each kind. *)
LEMMA FreshFrames ==
  ASSUME NEW c \in BOOLEAN, NEW o \in SUBSET Peer
  PROVE  /\ <<RelayFrame(c)>> \in Seq(Frame) /\ Fresh(<<RelayFrame(c)>>, c, o)
         /\ HasKind(<<RelayFrame(c)>>, "relay:status")
         /\ <<PresenceFrame(o)>> \in Seq(Frame) /\ Fresh(<<PresenceFrame(o)>>, c, o)
         /\ HasKind(<<PresenceFrame(o)>>, "presence")
<1>1. PresenceFrame(o) \in Frame /\ RelayFrame(c) \in Frame
  BY FrameTypes
<1>2. /\ PresenceFrame(o).event = "presence" /\ PresenceFrame(o).online = o
      /\ RelayFrame(c).event = "relay:status" /\ RelayFrame(c).connected = c
  BY DEF PresenceFrame, RelayFrame
<1>3. ASSUME NEW f \in Frame, Tells(f, c, o)
      PROVE  <<f>> \in Seq(Frame) /\ Fresh(<<f>>, c, o) /\ HasKind(<<f>>, f.event)
  <2>1. <<f>> \in Seq(Frame) /\ Len(<<f>>) = 1 /\ <<f>>[1] = f
    OBVIOUS
  <2>2. 1..Len(<<f>>) = {1}
    BY <2>1
  <2> QED
    BY <1>3, <2>1, <2>2 DEF Fresh, HasKind
<1>4. Tells(PresenceFrame(o), c, o) /\ Tells(RelayFrame(c), c, o)
  BY <1>2 DEF Tells
<1> QED
  BY <1>1, <1>2, <1>3, <1>4

LEMMA PairIsConcat ==
  ASSUME NEW c \in BOOLEAN, NEW o \in SUBSET Peer
  PROVE  /\ <<PresenceFrame(o), RelayFrame(c)>> = <<PresenceFrame(o)>> \o <<RelayFrame(c)>>
         /\ <<RelayFrame(c), PresenceFrame(o)>> = <<RelayFrame(c)>> \o <<PresenceFrame(o)>>
OBVIOUS

LEMMA FreshBoth ==
  ASSUME NEW c \in BOOLEAN, NEW o \in SUBSET Peer
  PROVE  \A w \in {<<PresenceFrame(o), RelayFrame(c)>>, <<RelayFrame(c), PresenceFrame(o)>>} :
           /\ w \in Seq(Frame) /\ Fresh(w, c, o)
           /\ HasKind(w, "presence") /\ HasKind(w, "relay:status")
<1>1. /\ <<PresenceFrame(o), RelayFrame(c)>> = <<PresenceFrame(o)>> \o <<RelayFrame(c)>>
      /\ <<RelayFrame(c), PresenceFrame(o)>> = <<RelayFrame(c)>> \o <<PresenceFrame(o)>>
  BY PairIsConcat
<1>2. /\ <<RelayFrame(c)>> \in Seq(Frame) /\ Fresh(<<RelayFrame(c)>>, c, o)
      /\ HasKind(<<RelayFrame(c)>>, "relay:status")
      /\ <<PresenceFrame(o)>> \in Seq(Frame) /\ Fresh(<<PresenceFrame(o)>>, c, o)
      /\ HasKind(<<PresenceFrame(o)>>, "presence")
  BY FreshFrames
<1>3. ASSUME NEW v \in Seq(Frame), NEW w \in Seq(Frame), Fresh(v, c, o), Fresh(w, c, o)
      PROVE  /\ v \o w \in Seq(Frame) /\ Fresh(v \o w, c, o)
             /\ \A k : HasKind(v \o w, k) <=> HasKind(v, k) \/ HasKind(w, k)
  BY <1>3, FreshConcat
<1> QED
  BY <1>1, <1>2, <1>3, ZenonT(40)

-----------------------------------------------------------------------------
(* Sockets. *)
LEMMA SockFacts ==
  ASSUME NEW r, SockOK(r)
  PROVE  /\ r.cl \in {"free", "refused", "failed"} => r.srv = "none" /\ r.wire = <<>>
         /\ r.cl \in {"free", "refused", "failed", "dialing", "up"}
         /\ r.srv = "subscribed" => r.cl = "up"
         /\ r.cl \in {"dialing", "up"} => r.srv \in {"open", "subscribed", "gone"}
         /\ r.cl = "dialing" => r.srv \in {"open", "gone"}
         /\ r.wire \in Seq(Frame)
<1>1. <<>> \in Seq(Frame)
  BY EmptySeq
<1>2. CASE r \in {Free, [Free EXCEPT !.cl = "failed"], [Free EXCEPT !.cl = "refused"]}
  <2>1. r.cl \in {"free", "refused", "failed"} /\ r.srv = "none" /\ r.wire = <<>>
    BY <1>2 DEF Free
  <2> QED
    BY <1>1, <2>1
<1>3. CASE /\ r \in [cl : {"dialing", "up"}, srv : {"open", "subscribed", "gone"},
                     wire : Seq(Frame)]
           /\ r.srv = "open" => r.wire = <<>>
           /\ r.cl = "dialing" => r.srv # "subscribed"
  BY <1>3
<1> QED
  BY <1>2, <1>3 DEF SockOK

(* While the UI has not given up, there is somebody to push to, or a       *)
(* socket to be subscribed or dialled again.                               *)
LEMMA SomeSocket ==
  ASSUME StatusInv
  PROVE  Broken \/ Unserved \/ Subscribers # {}
<1>1. SUFFICES ASSUME NEW s \in Sock, line[s].cl # "free", ~Broken
               PROVE  Unserved \/ s \in Subscribers
  BY DEF StatusInv, Trying, Broken
<1>2. line[s].cl \in {"dialing", "up"} /\ line[s].srv \in {"open", "subscribed"}
  BY <1>1, SockFacts DEF StatusInv, Types, Broken
<1> QED
  BY <1>2 DEF Unserved, Subscribers

(* The daemon tells its subscribers what has changed. *)
LEMMA PushKeeps ==
  ASSUME StatusInv, NEW frames \in Seq(Frame), Push(frames),
         phase' \in [{Daemon} -> {"down", "open", "seeded"}],
         view' \in [{Daemon} -> SUBSET Peer],
         Fresh(frames, Connected', Online'),
         Connected' # Connected => HasKind(frames, "relay:status"),
         Online' # Online => HasKind(frames, "presence"),
         UNCHANGED <<listening, uiVars>>
  PROVE  StatusInv'
<1> USE DEF uiVars
<1>1. /\ DOMAIN line' = Sock
      /\ \A s \in Sock : line'[s] = IF s \in Subscribers
                                      THEN [line[s] EXCEPT !.wire = @ \o frames] ELSE line[s]
  BY DEF Push
<1>2. ASSUME NEW s \in Subscribers
      PROVE  /\ line[s] \in [cl : {"up"}, srv : {"subscribed"}, wire : Seq(Frame)]
             /\ Fresh(line[s].wire, Connected, Online)
  BY <1>2 DEF StatusInv, Types, Subscribers, SockOK, Free
<1>3. ASSUME NEW s \in Subscribers
      PROVE  /\ line[s].wire \in Seq(Frame)
             /\ line[s].wire \o frames \in Seq(Frame)
             /\ Fresh(line[s].wire \o frames, Connected', Online')
             /\ \A k : HasKind(line[s].wire \o frames, k)
                         <=> HasKind(line[s].wire, k) \/ HasKind(frames, k)
  <2>1. line[s].wire \in Seq(Frame)
    BY <1>2
  <2> QED
    BY <1>2, <2>1, FreshConcat
<1>4. ASSUME NEW s \in Subscribers
      PROVE  /\ line'[s].cl = line[s].cl /\ line'[s].srv = line[s].srv
             /\ line'[s].wire = line[s].wire \o frames
             /\ line'[s] \in [cl : {"up"}, srv : {"subscribed"}, wire : Seq(Frame)]
  <2>1. s \in Sock
    BY DEF Subscribers
  <2>2. line'[s] = [line[s] EXCEPT !.wire = @ \o frames]
    BY <1>1, <2>1
  <2> QED
    BY <1>2, <1>3, <2>2
<1>5. \A s \in Sock : line'[s].cl = line[s].cl /\ line'[s].srv = line[s].srv
  BY <1>1, <1>4
<1>6. Subscribers' = Subscribers
  BY <1>5 DEF Subscribers
<1>7. (Broken' <=> Broken) /\ (Unserved' <=> Unserved) /\ (Dialing' <=> Dialing)
      /\ (Trying' <=> Trying)
  BY <1>5 DEF Broken, Unserved, Dialing, Trying
<1>8. Types'
  <2>1. \A s \in Sock : SockOK(line'[s])
    <3> SUFFICES ASSUME NEW s \in Sock PROVE SockOK(line'[s])
      OBVIOUS
    <3>1. CASE s \in Subscribers
      BY <1>4, <3>1 DEF SockOK
    <3>2. CASE s \notin Subscribers
      BY <1>1, <3>2 DEF StatusInv, Types
    <3> QED
      BY <3>1, <3>2
  <2> QED
    BY <1>1, <2>1 DEF StatusInv, Types
<1>9. \A s \in Subscribers' : Fresh(line'[s].wire, Connected', Online')
  BY <1>3, <1>4, <1>6
<1>10. \A k : Coming(k)' <=> Coming(k) \/ (Subscribers # {} /\ HasKind(frames, k))
  BY <1>3, <1>4, <1>6 DEF Coming
<1>11. Broken' \/ Unserved' \/ Coming("relay:status")' \/ shown'.relay = Connected'
  BY <1>7, <1>10, SomeSocket DEF StatusInv
<1>12. Broken' \/ Unserved' \/ Coming("presence")' \/ shown'.online = Online'
  BY <1>7, <1>10, SomeSocket DEF StatusInv
<1>13. \A s \in Sock : line'[s].srv \in {"open", "subscribed"} => listening'
  BY <1>5 DEF StatusInv
<1>14. Broken' \/ Dialing' \/ shown'.daemon
  BY <1>7 DEF StatusInv
<1> QED
  BY <1>7, <1>8, <1>9, <1>11, <1>12, <1>13, <1>14 DEF StatusInv

(* A step after which something is broken has only its types to keep. *)
LEMMA BrokenKeeps ==
  ASSUME Types', Broken',
         \A s \in Sock : line'[s].srv \in {"open", "subscribed"} => listening',
         \A s \in Subscribers' : Fresh(line'[s].wire, Connected', Online')
  PROVE  StatusInv'
<1>1. Trying'
  <2>1. ASSUME NEW s \in Sock,
               line'[s].cl \in {"refused", "failed"} \/ line'[s].srv = "gone"
        PROVE  line'[s].cl # "free"
    <3>1. SockOK(line'[s])
      BY DEF Types
    <3> QED
      BY <2>1, <3>1, SockFacts
  <2> QED
    BY <2>1 DEF Broken, Trying
<1> QED
  BY <1>1 DEF StatusInv

-----------------------------------------------------------------------------
(* The daemon's steps. *)
LEMMA StoreFacts ==
  ASSUME Types
  PROVE  /\ Connected \in BOOLEAN /\ Online \in SUBSET Peer
         /\ Store!Open(Daemon) =>
              /\ phase' \in [{Daemon} -> {"down", "open", "seeded"}]
              /\ view' \in [{Daemon} -> SUBSET Peer]
              /\ Connected' = TRUE /\ Online' = Online
         /\ Store!Seed(Daemon) =>
              /\ phase' \in [{Daemon} -> {"down", "open", "seeded"}]
              /\ view' \in [{Daemon} -> SUBSET Peer]
              /\ Connected' = TRUE
         /\ Store!Change(Daemon) =>
              /\ phase' \in [{Daemon} -> {"down", "open", "seeded"}]
              /\ view' \in [{Daemon} -> SUBSET Peer]
              /\ Connected' = Connected
         /\ Store!Close(Daemon) =>
              /\ phase' \in [{Daemon} -> {"down", "open", "seeded"}]
              /\ view' \in [{Daemon} -> SUBSET Peer]
              /\ Connected' = FALSE /\ Online' = {}
<1>1. Connected \in BOOLEAN /\ Online \in SUBSET Peer
  BY DEF Types, Connected, Online
<1>2. ASSUME Store!Open(Daemon)
      PROVE  /\ phase' \in [{Daemon} -> {"down", "open", "seeded"}]
             /\ view' \in [{Daemon} -> SUBSET Peer]
             /\ Connected' = TRUE /\ Online' = Online
  BY <1>2 DEF Store!Open, Types, Connected, Online
<1>3. ASSUME Store!Seed(Daemon)
      PROVE  /\ phase' \in [{Daemon} -> {"down", "open", "seeded"}]
             /\ view' \in [{Daemon} -> SUBSET Peer]
             /\ Connected' = TRUE
  BY <1>3 DEF Store!Seed, Types, Connected
<1>4. ASSUME Store!Change(Daemon)
      PROVE  /\ phase' \in [{Daemon} -> {"down", "open", "seeded"}]
             /\ view' \in [{Daemon} -> SUBSET Peer]
             /\ Connected' = Connected
  BY <1>4 DEF Store!Change, Types, Connected
<1>5. ASSUME Store!Close(Daemon)
      PROVE  /\ phase' \in [{Daemon} -> {"down", "open", "seeded"}]
             /\ view' \in [{Daemon} -> SUBSET Peer]
             /\ Connected' = FALSE /\ Online' = {}
  BY <1>5 DEF Store!Close, Types, Connected, Online
<1> QED
  BY <1>1, <1>2, <1>3, <1>4, <1>5

LEMMA StoreKeeps ==
  ASSUME StatusInv, RelayOpen \/ RelaySeed \/ PeerChange \/ RelayClose
  PROVE  StatusInv'
<1>1. Types /\ Connected \in BOOLEAN /\ Online \in SUBSET Peer
  BY StoreFacts DEF StatusInv
<1>2. CASE RelayOpen
  <2>1. Connected' = TRUE /\ Online' = Online
        /\ phase' \in [{Daemon} -> {"down", "open", "seeded"}]
        /\ view' \in [{Daemon} -> SUBSET Peer]
    BY <1>1, <1>2, StoreFacts DEF RelayOpen
  <2>2. Push(<<RelayFrame(TRUE)>>) /\ UNCHANGED <<listening, uiVars>>
    BY <1>2 DEF RelayOpen
  <2>3. /\ <<RelayFrame(TRUE)>> \in Seq(Frame) /\ Fresh(<<RelayFrame(TRUE)>>, TRUE, Online)
        /\ HasKind(<<RelayFrame(TRUE)>>, "relay:status")
    BY <1>1, FreshFrames
  <2> QED
    BY <2>1, <2>2, <2>3, PushKeeps
<1>3. CASE RelaySeed
  <2>1. Connected' = TRUE
        /\ phase' \in [{Daemon} -> {"down", "open", "seeded"}]
        /\ view' \in [{Daemon} -> SUBSET Peer]
    BY <1>1, <1>3, StoreFacts DEF RelaySeed
  <2>2. Online' \in SUBSET Peer
    BY <2>1 DEF Online
  <2> DEFINE w == <<RelayFrame(TRUE), PresenceFrame(Online')>>
  <2>3. Push(w) /\ UNCHANGED <<listening, uiVars>>
    BY <1>3 DEF RelaySeed, Online
  <2>4. /\ w \in Seq(Frame) /\ Fresh(w, TRUE, Online')
        /\ HasKind(w, "relay:status") /\ HasKind(w, "presence")
    BY <2>2, FreshBoth
  <2> HIDE DEF w
  <2> QED
    BY <2>1, <2>3, <2>4, PushKeeps
<1>4. CASE PeerChange
  <2>1. Connected' = Connected
        /\ phase' \in [{Daemon} -> {"down", "open", "seeded"}]
        /\ view' \in [{Daemon} -> SUBSET Peer]
    BY <1>1, <1>4, StoreFacts DEF PeerChange
  <2>2. Online' \in SUBSET Peer
    BY <2>1 DEF Online
  <2> DEFINE w == <<PresenceFrame(Online')>>
  <2>3. Push(w) /\ UNCHANGED <<listening, uiVars>>
    BY <1>4 DEF PeerChange, Online
  <2>4. w \in Seq(Frame) /\ Fresh(w, Connected, Online') /\ HasKind(w, "presence")
    BY <1>1, <2>2, FreshFrames
  <2> HIDE DEF w
  <2> QED
    BY <2>1, <2>3, <2>4, PushKeeps
<1>5. CASE RelayClose
  <2>1. Connected' = FALSE /\ Online' = {}
        /\ phase' \in [{Daemon} -> {"down", "open", "seeded"}]
        /\ view' \in [{Daemon} -> SUBSET Peer]
    BY <1>1, <1>5, StoreFacts DEF RelayClose
  <2>2. Push(ClosingFrames) /\ UNCHANGED <<listening, uiVars>>
    BY <1>5 DEF RelayClose
  <2>3. {} \in SUBSET Peer /\ FALSE \in BOOLEAN
    OBVIOUS
  <2>4. /\ ClosingFrames \in Seq(Frame) /\ Fresh(ClosingFrames, FALSE, {})
        /\ HasKind(ClosingFrames, "relay:status")
        /\ Online # {} => HasKind(ClosingFrames, "presence")
    <3>1. CASE Online = {}
      <4>1. ClosingFrames = <<RelayFrame(FALSE)>>
        BY <3>1 DEF ClosingFrames, Online
      <4> QED
        BY <2>3, <3>1, <4>1, FreshFrames
    <3>2. CASE Online # {}
      <4>1. ClosingFrames = <<PresenceFrame({}), RelayFrame(FALSE)>>
        <5>1. ClosingFrames = <<PresenceFrame({})>> \o <<RelayFrame(FALSE)>>
          BY <3>2, Zenon DEF ClosingFrames, Online
        <5> QED
          BY <2>3, <5>1, PairIsConcat
      <4> QED
        BY <2>3, <4>1, FreshBoth
    <3> QED
      BY <3>1, <3>2
  <2> QED
    BY <2>1, <2>2, <2>4, PushKeeps
<1> QED
  BY <1>2, <1>3, <1>4, <1>5

(* The server stops: every socket it had is broken, and if it had none a   *)
(* timer is set or the UI is gone.                                         *)
LEMMA StopKeeps ==
  ASSUME StatusInv, StopServer
  PROVE  StatusInv'
<1>1. Types /\ UNCHANGED uiVars /\ listening' = FALSE
  BY DEF StatusInv, StopServer
<1>2. /\ phase' \in [{Daemon} -> {"down", "open", "seeded"}]
      /\ view' \in [{Daemon} -> SUBSET Peer]
  BY <1>1, StoreFacts DEF StopServer, Types
<1>3. /\ DOMAIN line' = Sock
      /\ \A s \in Sock : line'[s] = IF line[s].srv \in {"open", "subscribed"}
                                      THEN [line[s] EXCEPT !.srv = "gone"] ELSE line[s]
  BY DEF StopServer
<1>4. ASSUME NEW s \in Sock
      PROVE  /\ SockOK(line'[s]) /\ line'[s].cl = line[s].cl
             /\ line'[s].srv \notin {"open", "subscribed"}
             /\ line[s].srv \in {"open", "subscribed", "gone"} => line'[s].srv = "gone"
  <2>1. SockOK(line[s])
    BY <1>1 DEF Types
  <2>2. CASE line[s].srv \in {"open", "subscribed"}
    <3>1. line[s] \in [cl : {"dialing", "up"}, srv : {"open", "subscribed"}, wire : Seq(Frame)]
      BY <2>1, <2>2 DEF SockOK, Free
    <3>2. line'[s] = [line[s] EXCEPT !.srv = "gone"]
      BY <1>3, <2>2
    <3> QED
      BY <3>1, <3>2 DEF SockOK
  <2>3. CASE line[s].srv \notin {"open", "subscribed"}
    BY <1>3, <2>1, <2>3
  <2> QED
    BY <2>2, <2>3
<1>5. Subscribers' = {}
  BY <1>4 DEF Subscribers
<1>6. Types'
  BY <1>1, <1>2, <1>3, <1>4 DEF Types, uiVars
<1>7. Broken \/ Unserved \/ Subscribers # {} => Broken'
  BY <1>1, <1>4 DEF Broken, Unserved, Subscribers, uiVars
<1> QED
  BY <1>1, <1>4, <1>5, <1>6, <1>7, BrokenKeeps, SomeSocket

LEMMA StartKeeps ==
  ASSUME StatusInv, StartServer
  PROVE  StatusInv'
<1>1. UNCHANGED <<phase, view, line, timers, current, cancelled, shown>> /\ listening' = TRUE
  BY DEF StartServer, uiVars
<1>2. /\ Subscribers' = Subscribers /\ (Broken' <=> Broken) /\ (Dialing' <=> Dialing)
      /\ (Unserved' <=> Unserved) /\ (Trying' <=> Trying)
      /\ Connected' = Connected /\ Online' = Online
      /\ \A k : Coming(k)' <=> Coming(k)
  BY <1>1 DEF Subscribers, Broken, Dialing, Unserved, Trying, Connected, Online, Coming
<1>3. Types'
  BY <1>1 DEF StatusInv, Types
<1> QED
  BY <1>1, <1>2, <1>3 DEF StatusInv

-----------------------------------------------------------------------------
(* The steps of one socket. *)
LEMMA SockMoves ==
  ASSUME StatusInv, NEW s \in Sock, NEW r, SockOK(r), line' = [line EXCEPT ![s] = r],
         UNCHANGED daemonVars
  PROVE  /\ line'[s] = r /\ \A u \in Sock \ {s} : line'[u] = line[u]
         /\ DOMAIN line' = Sock /\ \A u \in Sock : SockOK(line'[u])
         /\ Connected' = Connected /\ Online' = Online
         /\ UNCHANGED <<phase, view, listening>>
<1>1. DOMAIN line = Sock /\ \A u \in Sock : SockOK(line[u])
  BY DEF StatusInv, Types
<1>2. line'[s] = r /\ (\A u \in Sock \ {s} : line'[u] = line[u]) /\ DOMAIN line' = Sock
  BY <1>1
<1>3. UNCHANGED <<phase, view, listening>>
  BY DEF daemonVars
<1> QED
  BY <1>1, <1>2, <1>3 DEF Connected, Online

(* A socket that fails or closes, or whose dial is refused. *)
LEMMA SockBreaks ==
  ASSUME StatusInv, NEW s \in Sock,
         NEW r \in {Free, [Free EXCEPT !.cl = "failed"], [Free EXCEPT !.cl = "refused"]},
         line' = [line EXCEPT ![s] = r], UNCHANGED daemonVars,
         timers' \in Nat, current' \in Sock \union {None}, cancelled' \in BOOLEAN,
         shown' \in [daemon : BOOLEAN, relay : BOOLEAN, online : SUBSET Peer],
         r # Free \/ timers' > 0 \/ cancelled'
  PROVE  StatusInv'
<1>1. SockOK(r) /\ r.srv = "none" /\ (r # Free => r.cl \in {"refused", "failed"})
  BY DEF SockOK, Free
<1>2. /\ line'[s] = r /\ \A u \in Sock \ {s} : line'[u] = line[u]
      /\ DOMAIN line' = Sock /\ \A u \in Sock : SockOK(line'[u])
      /\ Connected' = Connected /\ Online' = Online
      /\ UNCHANGED <<phase, view, listening>>
  BY <1>1, SockMoves
<1>3. Types'
  BY <1>2 DEF StatusInv, Types
<1>4. Broken'
  BY <1>1, <1>2 DEF Broken
<1>5. Subscribers' \subseteq Subscribers /\ s \notin Subscribers'
  BY <1>1, <1>2 DEF Subscribers
<1>6. \A u \in Subscribers' : Fresh(line'[u].wire, Connected', Online')
  BY <1>2, <1>5 DEF StatusInv, Subscribers
<1>7. \A u \in Sock : line'[u].srv \in {"open", "subscribed"} => listening'
  BY <1>1, <1>2 DEF StatusInv
<1> QED
  BY <1>3, <1>4, <1>6, <1>7, BrokenKeeps

LEMMA FailedClosedKeep ==
  ASSUME StatusInv, NEW s \in Sock, Failed(s) \/ Closed(s)
  PROVE  StatusInv'
<1>1. PICK r \in {Free, [Free EXCEPT !.cl = "failed"]} :
        line' = [line EXCEPT ![s] = r] /\ Drop /\ UNCHANGED daemonVars
  BY DEF Failed, Closed
<1>2. /\ timers \in Nat /\ cancelled \in BOOLEAN
      /\ shown \in [daemon : BOOLEAN, relay : BOOLEAN, online : SUBSET Peer]
  BY DEF StatusInv, Types
<1>3. /\ current' = None /\ cancelled' = cancelled
      /\ timers' = IF cancelled THEN timers ELSE timers + 1
      /\ shown' = [shown EXCEPT !.daemon = FALSE, !.relay = FALSE, !.online = {}]
  BY <1>1 DEF Drop, LostShown
<1>4. /\ timers' \in Nat /\ (timers' > 0 \/ cancelled')
      /\ shown' \in [daemon : BOOLEAN, relay : BOOLEAN, online : SUBSET Peer]
  <2>1. timers' \in Nat /\ (timers' > 0 \/ cancelled')
    BY <1>2, <1>3
  <2>2. shown' \in [daemon : BOOLEAN, relay : BOOLEAN, online : SUBSET Peer]
    BY <1>2, <1>3
  <2> QED
    BY <2>1, <2>2
<1> QED
  BY <1>1, <1>2, <1>3, <1>4, SockBreaks

(* Where a step leaves alone what is shown and what is on the way, and     *)
(* breaks or dials a socket, the rest stays true.                          *)
LEMMA DialKeeps ==
  ASSUME StatusInv, NEW s \in Sock, Dial(s)
  PROVE  StatusInv'
<1>1. /\ timers \in Nat /\ timers > 0 /\ timers' = timers - 1 /\ timers' \in Nat
      /\ UNCHANGED <<phase, view, listening, cancelled, shown>> /\ UNCHANGED daemonVars
      /\ current \in Sock \union {None}
  BY DEF StatusInv, Types, Dial, daemonVars
<1>2. CASE cancelled
  <2>1. UNCHANGED <<line, current>>
    BY <1>2 DEF Dial
  <2>2. Types' /\ Broken' /\ Subscribers' = Subscribers
        /\ Connected' = Connected /\ Online' = Online
    BY <1>1, <1>2, <2>1 DEF StatusInv, Types, Broken, Subscribers, Connected, Online
  <2> QED
    BY <1>1, <2>1, <2>2, BrokenKeeps DEF StatusInv
<1>3. CASE ~cancelled /\ listening
  <2> DEFINE r == [cl |-> "dialing", srv |-> "open", wire |-> <<>>]
  <2>1. current' = s /\ line' = [line EXCEPT ![s] = r] /\ line[s].cl = "free"
    BY <1>3 DEF Dial
  <2>2. SockOK(r) /\ r.cl = "dialing" /\ r.srv = "open"
    <3>1. <<>> \in Seq(Frame)
      BY EmptySeq
    <3> QED
      BY <3>1 DEF SockOK
  <2> HIDE DEF r
  <2>3. /\ line'[s] = r /\ \A u \in Sock \ {s} : line'[u] = line[u]
        /\ DOMAIN line' = Sock /\ \A u \in Sock : SockOK(line'[u])
        /\ Connected' = Connected /\ Online' = Online
    BY <1>1, <2>1, <2>2, SockMoves
  <2>4. Types'
    BY <1>1, <2>1, <2>3 DEF StatusInv, Types
  <2>5. Trying' /\ Dialing' /\ Unserved'
    BY <2>2, <2>3 DEF Trying, Dialing, Unserved
  <2>6. Subscribers' \subseteq Subscribers /\ s \notin Subscribers'
    BY <2>2, <2>3 DEF Subscribers
  <2>7. \A u \in Subscribers' : Fresh(line'[u].wire, Connected', Online')
    BY <2>3, <2>6 DEF StatusInv, Subscribers
  <2>8. \A u \in Sock : line'[u].srv \in {"open", "subscribed"} => listening'
    BY <1>1, <1>3
  <2> QED
    BY <2>4, <2>5, <2>7, <2>8 DEF StatusInv
<1>4. CASE ~cancelled /\ ~listening
  <2> DEFINE r == [Free EXCEPT !.cl = "refused"]
  <2>1. current' = s /\ line' = [line EXCEPT ![s].cl = "refused"] /\ line[s].cl = "free"
    BY <1>4 DEF Dial
  <2>2. line[s] = Free
    <3>1. SockOK(line[s])
      BY DEF StatusInv, Types
    <3> QED
      BY <2>1, <3>1 DEF SockOK, Free
  <2>3. line' = [line EXCEPT ![s] = r] /\ r # Free
    BY <2>1, <2>2 DEF Free
  <2>4. r \in {Free, [Free EXCEPT !.cl = "failed"], [Free EXCEPT !.cl = "refused"]}
    OBVIOUS
  <2> HIDE DEF r
  <2>5. /\ cancelled' \in BOOLEAN /\ current' \in Sock \union {None}
        /\ shown' \in [daemon : BOOLEAN, relay : BOOLEAN, online : SUBSET Peer]
    BY <1>1, <2>1 DEF StatusInv, Types
  <2> QED
    BY <1>1, <2>3, <2>4, <2>5, SockBreaks
<1> QED
  BY <1>2, <1>3, <1>4

LEMMA EstablishedKeeps ==
  ASSUME StatusInv, NEW s \in Sock, Established(s)
  PROVE  StatusInv'
<1>1. /\ line[s].cl = "dialing" /\ line' = [line EXCEPT ![s].cl = "up"]
      /\ shown' = [shown EXCEPT !.daemon = TRUE]
      /\ UNCHANGED <<timers, current, cancelled>> /\ UNCHANGED daemonVars
  BY DEF Established
<1> DEFINE r == [line[s] EXCEPT !.cl = "up"]
<1>2. line[s] \in [cl : {"dialing"}, srv : {"open", "gone"}, wire : Seq(Frame)]
      /\ (line[s].srv = "open" => line[s].wire = <<>>)
  <2>1. SockOK(line[s])
    BY DEF StatusInv, Types
  <2> QED
    BY <1>1, <2>1 DEF SockOK, Free
<1>3. SockOK(r) /\ r.srv = line[s].srv /\ r.wire = line[s].wire /\ r.cl = "up"
      /\ r.srv \in {"open", "gone"}
  BY <1>2 DEF SockOK
<1>4. line' = [line EXCEPT ![s] = r]
  BY <1>1 DEF StatusInv, Types
<1> HIDE DEF r
<1>5. /\ line'[s] = r /\ \A u \in Sock \ {s} : line'[u] = line[u]
      /\ DOMAIN line' = Sock /\ \A u \in Sock : SockOK(line'[u])
      /\ Connected' = Connected /\ Online' = Online
      /\ UNCHANGED <<phase, view, listening>>
  BY <1>1, <1>3, <1>4, SockMoves
<1>6. /\ shown' \in [daemon : BOOLEAN, relay : BOOLEAN, online : SUBSET Peer]
      /\ shown'.daemon /\ shown'.relay = shown.relay /\ shown'.online = shown.online
  BY <1>1 DEF StatusInv, Types
<1>7. Types'
  BY <1>1, <1>5, <1>6 DEF StatusInv, Types
<1>8. /\ \A u \in Sock : line'[u].srv = line[u].srv /\ line'[u].wire = line[u].wire
      /\ \A u \in Sock : line[u].cl \in {"refused", "failed"} => line'[u].cl = line[u].cl
  BY <1>1, <1>3, <1>5
<1>9. /\ Subscribers' = Subscribers /\ (Unserved' <=> Unserved)
      /\ (Broken => Broken') /\ \A k : Coming(k)' <=> Coming(k)
  BY <1>1, <1>8 DEF Subscribers, Unserved, Broken, Coming
<1>10. Trying'
  BY <1>3, <1>5 DEF Trying
<1>11. \A u \in Subscribers' : Fresh(line'[u].wire, Connected', Online')
  BY <1>5, <1>8, <1>9 DEF StatusInv, Subscribers
<1>12. \A u \in Sock : line'[u].srv \in {"open", "subscribed"} => listening'
  BY <1>5, <1>8 DEF StatusInv
<1> QED
  BY <1>5, <1>6, <1>7, <1>9, <1>10, <1>11, <1>12 DEF StatusInv

(* A new subscriber is told everything. *)
LEMMA ServeKeeps ==
  ASSUME StatusInv, NEW s \in Sock, Serve(s)
  PROVE  StatusInv'
<1>1. /\ line[s].cl = "up" /\ line[s].srv = "open"
      /\ line' = [line EXCEPT ![s].srv = "subscribed", ![s].wire = @ \o Seeds]
      /\ UNCHANGED <<timers, current, cancelled, shown>> /\ UNCHANGED daemonVars
  BY DEF Serve, uiVars
<1>2. Connected \in BOOLEAN /\ Online \in SUBSET Peer
  BY StoreFacts DEF StatusInv
<1>3. /\ Seeds \in Seq(Frame) /\ Fresh(Seeds, Connected, Online)
      /\ HasKind(Seeds, "presence") /\ HasKind(Seeds, "relay:status")
  <2>1. Seeds = <<PresenceFrame(Online), RelayFrame(Connected)>>
    BY DEF Seeds, Online
  <2> QED
    BY <1>2, <2>1, FreshBoth
<1>4. line[s] = [cl |-> "up", srv |-> "open", wire |-> <<>>]
  <2>1. SockOK(line[s])
    BY DEF StatusInv, Types
  <2> QED
    BY <1>1, <2>1 DEF SockOK, Free
<1> DEFINE r == [cl |-> "up", srv |-> "subscribed", wire |-> Seeds]
<1>5. line' = [line EXCEPT ![s] = r]
  <2>1. <<>> \o Seeds = Seeds
    BY <1>3, ConcatEmptySeq
  <2>2. line' = [line EXCEPT ![s] = [[line[s] EXCEPT !.srv = "subscribed"]
                                       EXCEPT !.wire = @ \o Seeds]]
    <3>1. DOMAIN line = Sock
      BY DEF StatusInv, Types
    <3> QED
      BY <1>1, <3>1, Zenon
  <2>3. [[line[s] EXCEPT !.srv = "subscribed"] EXCEPT !.wire = @ \o Seeds]
          = [cl |-> "up", srv |-> "subscribed", wire |-> <<>> \o Seeds]
    <3>1. [line[s] EXCEPT !.srv = "subscribed"]
            = [cl |-> "up", srv |-> "subscribed", wire |-> <<>>]
      BY <1>4
    <3>2. \A x : [[cl |-> "up", srv |-> "subscribed", wire |-> <<>>] EXCEPT !.wire = x]
                   = [cl |-> "up", srv |-> "subscribed", wire |-> x]
      OBVIOUS
    <3>3. [cl |-> "up", srv |-> "subscribed", wire |-> <<>>].wire = <<>>
      OBVIOUS
    <3> QED
      BY <3>1, <3>2, <3>3, Zenon
  <2> QED
    BY <2>1, <2>2, <2>3
<1>6. SockOK(r) /\ r.cl = "up" /\ r.srv = "subscribed" /\ r.wire = Seeds
  BY <1>3 DEF SockOK
<1> HIDE DEF r
<1>7. /\ line'[s] = r /\ \A u \in Sock \ {s} : line'[u] = line[u]
      /\ DOMAIN line' = Sock /\ \A u \in Sock : SockOK(line'[u])
      /\ Connected' = Connected /\ Online' = Online
      /\ UNCHANGED <<phase, view, listening>>
  BY <1>1, <1>5, <1>6, SockMoves
<1>8. Types'
  BY <1>1, <1>7 DEF StatusInv, Types
<1>9. s \in Subscribers' /\ Subscribers' \subseteq Subscribers \union {s}
  BY <1>6, <1>7 DEF Subscribers
<1>10. Coming("presence")' /\ Coming("relay:status")'
  BY <1>3, <1>6, <1>7, <1>9 DEF Coming
<1>11. /\ (Broken => Broken') /\ (Dialing => Dialing')
  BY <1>1, <1>7 DEF Broken, Dialing
<1>12. Trying'
  BY <1>6, <1>7 DEF Trying
<1>13. \A u \in Subscribers' : Fresh(line'[u].wire, Connected', Online')
  BY <1>3, <1>6, <1>7, <1>9 DEF StatusInv, Subscribers
<1>14. \A u \in Sock : line'[u].srv \in {"open", "subscribed"} => listening'
  BY <1>1, <1>7 DEF StatusInv
<1>15. Broken' \/ Dialing' \/ shown'.daemon
  BY <1>1, <1>11 DEF StatusInv
<1> QED
  BY <1>8, <1>10, <1>12, <1>13, <1>14, <1>15 DEF StatusInv

(* A frame is shown. *)
LEMMA DeliverKeeps ==
  ASSUME StatusInv, NEW s \in Sock, Deliver(s)
  PROVE  StatusInv'
<1> DEFINE w == line[s].wire
           f == Head(w)
           r == [line[s] EXCEPT !.wire = Tail(@)]
<1>1. /\ line[s].cl = "up" /\ w # <<>>
      /\ line' = [line EXCEPT ![s].wire = Tail(@)]
      /\ shown' = IF f.event = "presence" THEN [shown EXCEPT !.online = f.online]
                                          ELSE [shown EXCEPT !.relay = f.connected]
      /\ UNCHANGED <<timers, current, cancelled>> /\ UNCHANGED daemonVars
  BY DEF Deliver
<1>2. line[s] \in [cl : {"up"}, srv : {"subscribed", "gone"}, wire : Seq(Frame)]
  <2>1. SockOK(line[s])
    BY DEF StatusInv, Types
  <2> QED
    BY <1>1, <2>1 DEF SockOK, Free
<1>3. w \in Seq(Frame) /\ f \in Frame /\ Tail(w) \in Seq(Frame)
  BY <1>1, <1>2, HeadTailProperties
<1>4. SockOK(r) /\ r.cl = "up" /\ r.srv = line[s].srv /\ r.wire = Tail(w)
  BY <1>2, <1>3 DEF SockOK
<1>5. line' = [line EXCEPT ![s] = r]
  BY <1>1 DEF StatusInv, Types
<1>6. /\ shown' \in [daemon : BOOLEAN, relay : BOOLEAN, online : SUBSET Peer]
      /\ shown'.daemon = shown.daemon
      /\ f.event = "presence" => shown'.online = f.online /\ shown'.relay = shown.relay
      /\ f.event # "presence" => shown'.relay = f.connected /\ shown'.online = shown.online
  <2>1. f.online \in SUBSET Peer /\ f.connected \in BOOLEAN
    BY <1>3 DEF Frame
  <2> HIDE DEF f
  <2>2. shown \in [daemon : BOOLEAN, relay : BOOLEAN, online : SUBSET Peer]
    BY DEF StatusInv, Types
  <2>3. CASE f.event = "presence"
    BY <1>1, <2>1, <2>2, <2>3
  <2>4. CASE f.event # "presence"
    BY <1>1, <2>1, <2>2, <2>4
  <2> QED
    BY <2>3, <2>4
<1> HIDE DEF r
<1>7. /\ line'[s] = r /\ \A u \in Sock \ {s} : line'[u] = line[u]
      /\ DOMAIN line' = Sock /\ \A u \in Sock : SockOK(line'[u])
      /\ Connected' = Connected /\ Online' = Online
      /\ UNCHANGED <<phase, view, listening>>
  BY <1>1, <1>4, <1>5, SockMoves
<1>8. Types'
  BY <1>1, <1>6, <1>7 DEF StatusInv, Types
<1>9. \A u \in Sock : line'[u].srv = line[u].srv /\ line'[u].cl = line[u].cl
  BY <1>1, <1>4, <1>7
<1>10. /\ Subscribers' = Subscribers /\ (Unserved' <=> Unserved) /\ (Dialing' <=> Dialing)
       /\ (Broken' <=> Broken) /\ (Trying' <=> Trying)
  BY <1>1, <1>9 DEF Subscribers, Unserved, Dialing, Broken, Trying
<1>11. \A u \in Sock : line'[u].srv \in {"open", "subscribed"} => listening'
  BY <1>7, <1>9 DEF StatusInv
<1>12. CASE line[s].srv = "gone"
  <2>1. Broken'
    BY <1>10, <1>12 DEF Broken
  <2>2. s \notin Subscribers
    BY <1>12 DEF Subscribers
  <2>3. \A u \in Subscribers' : Fresh(line'[u].wire, Connected', Online')
    BY <1>7, <1>10, <2>2 DEF StatusInv, Subscribers
  <2> QED
    BY <1>8, <1>11, <2>1, <2>3, BrokenKeeps
<1>13. CASE line[s].srv = "subscribed"
  <2>1. s \in Subscribers /\ Fresh(w, Connected, Online)
    BY <1>13 DEF StatusInv, Subscribers
  <2>2. /\ Fresh(Tail(w), Connected, Online)
        /\ HasKind(Tail(w), f.event) \/ Tells(f, Connected, Online)
        /\ \A k : HasKind(w, k) => HasKind(Tail(w), k) \/ f.event = k
    BY <1>1, <1>3, <2>1, FreshTail
  <2> HIDE DEF w, f
  <2>3. \A u \in Subscribers' : Fresh(line'[u].wire, Connected', Online')
    BY <1>4, <1>7, <1>10, <2>2 DEF StatusInv, Subscribers
  <2>4. ASSUME NEW k, Coming(k)
        PROVE  Coming(k)' \/ f.event = k
    <3>1. PICK u \in Subscribers : HasKind(line[u].wire, k)
      BY <2>4 DEF Coming
    <3>2. CASE u = s
      <4>1. HasKind(Tail(w), k) \/ f.event = k
        BY <2>2, <3>1, <3>2 DEF w
      <4>2. HasKind(Tail(w), k) => Coming(k)'
        BY <1>4, <1>7, <1>10, <2>1 DEF Coming
      <4> QED
        BY <4>1, <4>2
    <3>3. CASE u # s
      <4>1. line'[u].wire = line[u].wire
        BY <1>7, <3>3 DEF Subscribers
      <4> QED
        BY <1>10, <3>1, <4>1 DEF Coming
    <3> QED
      BY <3>2, <3>3
  <2>5. \A k : HasKind(Tail(w), k) => Coming(k)'
    BY <1>4, <1>7, <1>10, <2>1 DEF Coming
  <2>6. f.event \in {"presence", "relay:status"}
    BY <1>3, FrameTypes
  <2>7. Broken' \/ Unserved' \/ Coming("relay:status")' \/ shown'.relay = Connected'
    <3>1. CASE f.event = "presence"
      BY <1>6, <1>7, <1>10, <2>4, <3>1 DEF StatusInv
    <3>2. CASE f.event = "relay:status"
      BY <1>6, <1>7, <2>2, <2>5, <3>2 DEF Tells
    <3> QED
      BY <2>6, <3>1, <3>2
  <2>8. Broken' \/ Unserved' \/ Coming("presence")' \/ shown'.online = Online'
    <3>1. CASE f.event = "presence"
      BY <1>6, <1>7, <2>2, <2>5, <3>1 DEF Tells
    <3>2. CASE f.event = "relay:status"
      BY <1>6, <1>7, <1>10, <2>4, <3>2 DEF StatusInv
    <3> QED
      BY <2>6, <3>1, <3>2
  <2>9. Broken' \/ Dialing' \/ shown'.daemon
    BY <1>6, <1>10 DEF StatusInv
  <2> QED
    BY <1>8, <1>10, <1>11, <2>3, <2>7, <2>8, <2>9 DEF StatusInv
<1> QED
  BY <1>2, <1>12, <1>13

LEMMA DisposeKeeps ==
  ASSUME StatusInv, Dispose
  PROVE  StatusInv'
<1>1. /\ cancelled' = TRUE /\ UNCHANGED <<phase, view, listening, current, shown>>
      /\ UNCHANGED daemonVars
      /\ timers \in Nat /\ timers' = IF timers > 0 THEN timers - 1 ELSE 0
  BY DEF Dispose, daemonVars, StatusInv, Types
<1>2. timers' \in Nat /\ cancelled' \in BOOLEAN /\ current' \in Sock \union {None}
      /\ shown' \in [daemon : BOOLEAN, relay : BOOLEAN, online : SUBSET Peer]
  BY <1>1 DEF StatusInv, Types
<1>3. CASE current = None
  <2>1. line' = line
    BY <1>3 DEF Dispose
  <2>2. Types' /\ Broken' /\ Subscribers' = Subscribers
        /\ Connected' = Connected /\ Online' = Online
    BY <1>1, <1>2, <2>1 DEF StatusInv, Types, Broken, Subscribers, Connected, Online
  <2> QED
    BY <1>1, <2>1, <2>2, BrokenKeeps DEF StatusInv
<1>4. CASE current # None
  <2>1. current \in Sock
    BY <1>4 DEF StatusInv, Types
  <2>2. line' = [line EXCEPT ![current] = [Free EXCEPT !.cl = "failed"]]
    BY <1>4 DEF Dispose
  <2> QED
    BY <1>1, <1>2, <2>1, <2>2, SockBreaks
<1> QED
  BY <1>3, <1>4

-----------------------------------------------------------------------------
LEMMA InitStatus == Init => StatusInv
<1> SUFFICES ASSUME Init PROVE StatusInv
  OBVIOUS
<1>1. Types
  BY DEF Init, Store!Init, Types, SockOK, Down
<1>2. Broken /\ Subscribers = {}
  BY DEF Init, Broken, Subscribers, Free
<1>3. \A s \in Sock : line[s].srv = "none"
  BY DEF Init, Free
<1>4. Trying
  BY DEF Init, Trying
<1> QED
  BY <1>1, <1>2, <1>3, <1>4 DEF StatusInv

(* What is under way makes up for what the bar does not show yet, however  *)
(* many sockets the UI has, whoever closes them and whatever changes.      *)
THEOREM TuiStatusInvariant == Spec => []StatusInv
<1>1. StatusInv /\ [Next]_vars => StatusInv'
  <2> SUFFICES ASSUME StatusInv, [Next]_vars PROVE StatusInv'
    OBVIOUS
  <2>1. CASE UNCHANGED vars
    <3>1. /\ UNCHANGED <<phase, view, listening, line, timers, current, cancelled, shown>>
      BY <2>1 DEF vars, daemonVars, uiVars
    <3>2. /\ Subscribers' = Subscribers /\ (Broken' <=> Broken) /\ (Dialing' <=> Dialing)
          /\ (Unserved' <=> Unserved) /\ (Trying' <=> Trying)
          /\ Connected' = Connected /\ Online' = Online
          /\ \A k : Coming(k)' <=> Coming(k)
      BY <3>1 DEF Subscribers, Broken, Dialing, Unserved, Trying, Connected, Online, Coming
    <3>3. Types'
      BY <3>1 DEF StatusInv, Types
    <3> QED
      BY <3>1, <3>2, <3>3 DEF StatusInv
  <2>2. CASE RelayOpen \/ RelaySeed \/ PeerChange \/ RelayClose
    BY <2>2, StoreKeeps
  <2>3. CASE StopServer \/ StartServer \/ Dispose
    BY <2>3, StopKeeps, StartKeeps, DisposeKeeps
  <2>4. ASSUME NEW s \in Sock,
               Serve(s) \/ Dial(s) \/ Established(s) \/ Failed(s) \/ Closed(s) \/ Deliver(s)
        PROVE  StatusInv'
    BY <2>4, ServeKeeps, DialKeeps, EstablishedKeeps, FailedClosedKeep, DeliverKeeps
  <2> QED
    BY <2>1, <2>2, <2>3, <2>4 DEF Next
<1> QED
  BY <1>1, InitStatus, PTL DEF Spec

(* With a subscribed socket and nothing under way the bar shows daemon,    *)
(* relay and peers as they are.                                            *)
THEOREM TuiStatusQuietIsTrue == Spec => []QuietIsTrue
<1>1. StatusInv => QuietIsTrue
  <2> SUFFICES ASSUME StatusInv, Quiet PROVE shown = Truth
    BY DEF QuietIsTrue
  <2>1. PICK s \in Sock : line[s].cl # "free"
    BY DEF Quiet
  <2>2. \A u \in Sock : line[u] \in {Free, [cl |-> "up", srv |-> "subscribed", wire |-> <<>>]}
    BY DEF Quiet
  <2>3. \A u \in Sock : /\ line[u].cl \in {"free", "up"}
                        /\ line[u].srv \in {"none", "subscribed"}
                        /\ line[u].wire = <<>>
    BY <2>2 DEF Free
  <2>4. line[s].srv = "subscribed"
    BY <2>1, <2>2 DEF Free
  <2>5. ~Broken /\ ~Unserved /\ ~Dialing
    BY <2>3 DEF Quiet, Broken, Unserved, Dialing
  <2>6. \A k : ~Coming(k)
    BY <2>3 DEF Coming, HasKind, Subscribers
  <2>7. listening /\ shown.daemon /\ shown.relay = Connected /\ shown.online = Online
    BY <2>4, <2>5, <2>6 DEF StatusInv
  <2>8. shown \in [daemon : BOOLEAN, relay : BOOLEAN, online : SUBSET Peer]
        /\ listening \in BOOLEAN
    BY DEF StatusInv, Types
  <2>9. shown.daemon = listening
    BY <2>7, <2>8
  <2>10. shown = [daemon |-> shown.daemon, relay |-> shown.relay, online |-> shown.online]
    BY <2>8
  <2> QED
    BY <2>7, <2>9, <2>10 DEF Truth, Online
<1> QED
  BY <1>1, TuiStatusInvariant, PTL

-----------------------------------------------------------------------------
HIDE TuiStatusAssumption

(***************************************************************************)
(* The message editor, for any texts, any insertions of whole characters   *)
(* and any limit of the undo stack.  A key that edits commits one text and *)
(* a key that moves one position (EditIsCommit, MoveIsMoveTo), so that     *)
(* what the properties say of keys are facts about positions in sequences. *)
(***************************************************************************)

-----------------------------------------------------------------------------
(* Least and greatest elements. *)

LEMMA LeastOf ==
  ASSUME NEW T, T \subseteq Nat, T # {}
  PROVE  \E x \in T : \A y \in T : x <= y
<1> DEFINE R == {ss \in Nat \X Nat : ss[1] < ss[2]}
<1>1. IsWellFoundedOn(R, Nat)
  BY NatLessThanWellFounded DEF OpToRel
<1>2. \A x, y \in Nat : <<y, x>> \in R <=> y < x
  OBVIOUS
<1> HIDE DEF R
<1>3. PICK x \in T : \A y \in T : ~(<<y, x>> \in R)
  BY <1>1, WFMin
<1>4. \A y \in T : y \in Nat /\ x \in Nat /\ ~(y < x)
  BY <1>2, <1>3
<1> QED
  BY <1>4

LEMMA MinOf ==
  ASSUME NEW T, T \subseteq Nat, T # {}
  PROVE  Min(T) \in T /\ \A y \in T : Min(T) <= y
<1>1. PICK x \in T : \A y \in T : x <= y
  BY LeastOf
<1>2. x \in T /\ \A y \in T : x =< y
  BY <1>1
<1> QED
  BY <1>2 DEF Min

LEMMA MaxOf ==
  ASSUME NEW n \in Nat, NEW T, T \subseteq 0..n, T # {}
  PROVE  Max(T) \in T /\ \A y \in T : y <= Max(T)
<1> DEFINE D == {n - x : x \in T}
<1>0. \A x \in T : x \in 0..n /\ n - x \in Nat
  OBVIOUS
<1>1. D \subseteq Nat /\ D # {}
  BY <1>0
<1>2. PICK d \in D : \A e \in D : d <= e
  BY <1>1, LeastOf
<1>3. PICK x \in T : d = n - x
  BY <1>2
<1>4. \A y \in T : n - y \in D /\ y \in 0..n
  OBVIOUS
<1>5. \A y \in T : x >= y
  BY <1>2, <1>3, <1>4
<1> QED
  BY <1>5 DEF Max

LEMMA MinOfTwo ==
  ASSUME NEW a \in Int, NEW b \in Int
  PROVE  Min({a, b}) = IF a <= b THEN a ELSE b
<1> DEFINE m == IF a <= b THEN a ELSE b
<1>1. m \in {a, b} /\ \A y \in {a, b} : m =< y
  OBVIOUS
<1>2. \A x \in {a, b} : (\A y \in {a, b} : x =< y) => x = m
  OBVIOUS
<1> QED
  BY <1>1, <1>2 DEF Min

LEMMA MaxOfTwo ==
  ASSUME NEW a \in Int, NEW b \in Int
  PROVE  Max({a, b}) = IF a >= b THEN a ELSE b
<1> DEFINE m == IF a >= b THEN a ELSE b
<1>1. m \in {a, b} /\ \A y \in {a, b} : m >= y
  OBVIOUS
<1>2. \A x \in {a, b} : (\A y \in {a, b} : x >= y) => x = m
  OBVIOUS
<1> QED
  BY <1>1, <1>2 DEF Max

-----------------------------------------------------------------------------
(* Texts before and after a position. *)

LEMMA BeforeIs ==
  ASSUME NEW S, NEW s \in Seq(S), NEW p \in Nat
  PROVE  /\ Before(s, p) \in Seq(S)
         /\ Len(Before(s, p)) = IF p <= Len(s) THEN p ELSE Len(s)
         /\ \A i \in 1..Len(Before(s, p)) : Before(s, p)[i] = s[i]
<1> DEFINE n == IF p <= Len(s) THEN p ELSE Len(s)
<1>1. Len(s) \in Nat /\ n \in Nat /\ n <= Len(s)
  OBVIOUS
<1>2. Before(s, p) = SubSeq(s, 1, n)
  BY <1>1, MinOfTwo DEF Before
<1>3. \A i \in 1..n : s[i] \in S
  BY <1>1
<1> HIDE DEF n
<1>4. /\ SubSeq(s, 1, n) \in Seq(S)
      /\ Len(SubSeq(s, 1, n)) = IF 1 <= n THEN n - 1 + 1 ELSE 0
      /\ \A i \in 1..(n - 1 + 1) : SubSeq(s, 1, n)[i] = s[1 + i - 1]
  BY <1>1, <1>3, SubSeqProperties
<1>5. Len(SubSeq(s, 1, n)) = n /\ \A i \in 1..n : SubSeq(s, 1, n)[i] = s[i]
  BY <1>1, <1>4
<1> QED
  BY <1>2, <1>4, <1>5 DEF n

LEMMA AfterIs ==
  ASSUME NEW S, NEW s \in Seq(S), NEW p \in Nat
  PROVE  /\ After(s, p) \in Seq(S)
         /\ Len(After(s, p)) = IF p <= Len(s) THEN Len(s) - p ELSE 0
         /\ \A i \in 1..Len(After(s, p)) : After(s, p)[i] = s[p + i]
<1>1. Len(s) \in Nat
  OBVIOUS
<1>2. \A i \in (p + 1)..Len(s) : s[i] \in S
  BY <1>1
<1>3. /\ After(s, p) \in Seq(S)
      /\ Len(After(s, p)) = IF p + 1 <= Len(s) THEN Len(s) - (p + 1) + 1 ELSE 0
      /\ \A i \in 1..(Len(s) - (p + 1) + 1) : After(s, p)[i] = s[(p + 1) + i - 1]
  BY <1>1, <1>2, SubSeqProperties DEF After
<1>4. \A i \in 1..Len(After(s, p)) : i \in 1..(Len(s) - (p + 1) + 1) /\ (p + 1) + i - 1 = p + i
  BY <1>1, <1>3
<1> QED
  BY <1>1, <1>3, <1>4

(* What stands before the place where two texts meet. *)
LEMMA BeforeConcat ==
  ASSUME NEW S, NEW s \in Seq(S), NEW t \in Seq(S)
  PROVE  Before(s \o t, Len(s)) = s
<1> DEFINE u == s \o t
<1>1. u \in Seq(S) /\ Len(u) = Len(s) + Len(t) /\ \A i \in 1..Len(s) : u[i] = s[i]
  BY ConcatProperties
<1>2. Len(s) \in Nat /\ Len(t) \in Nat /\ Len(s) <= Len(u)
  BY <1>1
<1> HIDE DEF u
<1>3. /\ Before(u, Len(s)) \in Seq(S) /\ Len(Before(u, Len(s))) = Len(s)
      /\ \A i \in 1..Len(s) : Before(u, Len(s))[i] = u[i]
  BY <1>1, <1>2, BeforeIs
<1>4. Before(u, Len(s)) = s
  BY <1>1, <1>3, SeqEqual
<1> QED
  BY <1>4 DEF u

-----------------------------------------------------------------------------
(* Positions *)

LEMMA StopsAre ==
  ASSUME NEW S, NEW s \in Seq(S)
  PROVE  Stops(s) \subseteq 0..Len(s) /\ 0 \in Stops(s) /\ Len(s) \in Stops(s)
BY LenProperties DEF Stops

LEMMA SnapPosIs ==
  ASSUME NEW S, NEW s \in Seq(S), NEW p \in Int
  PROVE  /\ SnapPos(s, p) \in Stops(s)
         /\ SnapPos(s, p) \in 0..Len(s)
         /\ p \in Stops(s) => SnapPos(s, p) = p
<1> DEFINE m == IF p <= 0 THEN 0 ELSE p
           T == {q \in Stops(s) : q <= m}
<1>0. Max({0, p}) = m
  <2>1. Max({0, p}) = IF 0 >= p THEN 0 ELSE p
    BY MaxOfTwo
  <2> QED
    BY <2>1
<1>1. SnapPos(s, p) = Max(T)
  <2> HIDE DEF m
  <2> QED
    BY <1>0 DEF SnapPos
<1>2. T \subseteq 0..Len(s) /\ T # {} /\ T \subseteq Stops(s) /\ Len(s) \in Nat
  BY StopsAre
<1>3. Max(T) \in T /\ \A q \in T : q <= Max(T)
  BY <1>2, MaxOf
<1>4. p \in Stops(s) => p \in T /\ \A q \in T : q <= p
  BY <1>2, StopsAre
<1> HIDE DEF T
<1>5. Max(T) \in Stops(s) /\ Max(T) \in 0..Len(s)
  BY <1>2, <1>3
<1>6. p \in Stops(s) => Max(T) = p
  BY <1>3, <1>4, <1>5
<1> QED
  BY <1>1, <1>5, <1>6

LEMMA PrevPosIs ==
  ASSUME NEW S, NEW s \in Seq(S), NEW p \in Int
  PROVE  PrevPos(s, p) \in Stops(s) /\ PrevPos(s, p) \in 0..Len(s)
<1> DEFINE T == {0} \union {q \in Stops(s) : q < SnapPos(s, p)}
<1>1. T \subseteq Stops(s) /\ T \subseteq 0..Len(s) /\ T # {} /\ Len(s) \in Nat
  BY StopsAre
<1>2. Max(T) \in T
  BY <1>1, MaxOf
<1> HIDE DEF T
<1>3. Max(T) \in Stops(s) /\ Max(T) \in 0..Len(s)
  BY <1>1, <1>2
<1> QED
  BY <1>3 DEF PrevPos, T

LEMMA NextPosIs ==
  ASSUME NEW S, NEW s \in Seq(S), NEW p \in Int
  PROVE  NextPos(s, p) \in 0..Len(s)
<1> DEFINE T == {Len(s)} \union {q \in Stops(s) : q > SnapPos(s, p)}
<1>1. T \subseteq 0..Len(s) /\ T \subseteq Nat /\ T # {}
  BY StopsAre
<1>2. Min(T) \in T
  BY <1>1, MinOf
<1> HIDE DEF T
<1>3. Min(T) \in 0..Len(s)
  BY <1>1, <1>2
<1> QED
  BY <1>3 DEF NextPos, T

LEMMA WordLeftIs ==
  ASSUME NEW S, NEW s \in Seq(S), NEW p \in Int
  PROVE  WordLeft(s, p) \in Stops(s) /\ WordLeft(s, p) \in 0..Len(s)
<1>1. Len(s) \in Nat /\ SnapPos(s, p) \in 0..Len(s)
  BY SnapPosIs
<1> DEFINE L == {0} \union {i \in 0..(SnapPos(s, p) - 1) : s[i + 1] \notin White}
           last == Max(L)
           T == {i \in 0..last : i = 0 \/ s[i] \in White}
<1>2. L \subseteq 0..Len(s) /\ L # {}
  BY <1>1
<1>3. last \in 0..Len(s)
  BY <1>1, <1>2, MaxOf
<1> HIDE DEF last
<1>4. T \subseteq 0..last /\ T # {} /\ last \in Nat
  <2>1. last \in Nat /\ 0 \in 0..last
    BY <1>1, <1>3
  <2> QED
    BY <2>1
<1>5. Max(T) \in T
  BY <1>4, MaxOf
<1>6. \A i \in T : i \in 0..Len(s) /\ (i = 0 \/ s[i] # "H")
  <2>1. \A u \in White : u # "H"
    BY DEF White
  <2>2. 0..last \subseteq 0..Len(s)
    BY <1>1, <1>3
  <2> QED
    BY <2>1, <2>2
<1>7. T \subseteq Stops(s) /\ T \subseteq 0..Len(s)
  BY <1>1, <1>6 DEF Stops
<1> HIDE DEF T
<1>8. Max(T) \in Stops(s) /\ Max(T) \in 0..Len(s)
  BY <1>5, <1>7
<1>9. WordLeft(s, p) = Max(T)
  BY DEF WordLeft, T, last
<1> QED
  BY <1>8, <1>9

LEMMA WordRightIs ==
  ASSUME NEW S, NEW s \in Seq(S), NEW p \in Int
  PROVE  WordRight(s, p) \in 0..Len(s)
<1>1. Len(s) \in Nat /\ SnapPos(s, p) \in 0..Len(s)
  BY SnapPosIs
<1> DEFINE E == {i \in SnapPos(s, p)..Len(s) : i = Len(s) \/ s[i + 1] \in White}
           end == Min(E)
           T == {i \in end..Len(s) : i = Len(s) \/ s[i + 1] \notin White}
<1>2. E \subseteq 0..Len(s) /\ E \subseteq Nat /\ E # {}
  BY <1>1
<1>3. end \in 0..Len(s)
  BY <1>2, MinOf
<1> HIDE DEF end
<1>4. T \subseteq 0..Len(s) /\ T \subseteq Nat /\ T # {}
  BY <1>1, <1>3
<1>5. Min(T) \in T
  BY <1>4, MinOf
<1> HIDE DEF T
<1>6. Min(T) \in 0..Len(s)
  BY <1>4, <1>5
<1>7. WordRight(s, p) = Min(T)
  BY DEF WordRight, T, end
<1> QED
  BY <1>6, <1>7

(* The newlines up to position p; position 0 is taken for 1. *)
LEMMA LineStartIs ==
  ASSUME NEW S, NEW s \in Seq(S), NEW p \in Int
  PROVE  LET a == LineStartBefore(s, p)
             m == IF 1 >= p THEN 1 ELSE p
         IN  /\ a \in 0..Len(s) /\ a <= m
             /\ a = 0 \/ s[a] = "nl"
             /\ \A i \in 1..Len(s) : i <= m /\ s[i] = "nl" => i <= a
<1> DEFINE a == LineStartBefore(s, p)
           m == IF 1 >= p THEN 1 ELSE p
           n == IF Len(s) <= m THEN Len(s) ELSE m
           T == {0} \union {i \in 1..n : s[i] = "nl"}
<1>1. Len(s) \in Nat /\ m \in Nat /\ n \in Nat /\ n <= Len(s) /\ n <= m
  OBVIOUS
<1>2. a = Max(T)
  <2>1. Max({1, p}) = m
    BY MaxOfTwo
  <2>2. Min({Len(s), m}) = n
    BY <1>1, MinOfTwo
  <2> HIDE DEF m, n
  <2> QED
    BY <2>1, <2>2 DEF LineStartBefore
<1>3. T \subseteq 0..n /\ T # {}
  BY <1>1
<1>4. Max(T) \in T /\ \A y \in T : y <= Max(T)
  BY <1>1, <1>3, MaxOf
<1>5. \A i \in 1..Len(s) : i <= m /\ s[i] = "nl" => i \in T
  BY <1>1
<1>6. \A i \in T : i \in 0..n /\ (i = 0 \/ s[i] = "nl")
  BY <1>1
<1> HIDE DEF T, n, m, a
<1>7. /\ a \in 0..Len(s) /\ a <= m
      /\ a = 0 \/ s[a] = "nl"
      /\ \A i \in 1..Len(s) : i <= m /\ s[i] = "nl" => i <= a
  BY <1>1, <1>2, <1>4, <1>5, <1>6
<1> QED
  BY <1>7 DEF m, a

LEMMA LineEndIs ==
  ASSUME NEW S, NEW s \in Seq(S), NEW p \in Nat
  PROVE  LET e == LineEndAt(s, p)
         IN  /\ e \in 0..Len(s)
             /\ e # Len(s) => p <= e /\ s[e + 1] = "nl"
             /\ \A i \in 1..Len(s) : p < i /\ s[i] = "nl" => e < i
<1> DEFINE e == LineEndAt(s, p)
           T == {Len(s)} \union {i \in p..(Len(s) - 1) : s[i + 1] = "nl"}
<1>1. Len(s) \in Nat
  OBVIOUS
<1>2. T \subseteq Nat /\ T # {} /\ e = Min(T)
  BY <1>1 DEF LineEndAt
<1>3. Min(T) \in T /\ \A y \in T : Min(T) <= y
  BY <1>2, MinOf
<1>4. \A i \in T : i \in 0..Len(s) /\ (i # Len(s) => p <= i /\ s[i + 1] = "nl")
  BY <1>1
<1>5. \A i \in 1..Len(s) : p < i /\ s[i] = "nl" => i - 1 \in T
  BY <1>1
<1> HIDE DEF T, e
<1>6. e \in T /\ e \in 0..Len(s)
  BY <1>2, <1>3, <1>4
<1>7. e # Len(s) => p <= e /\ s[e + 1] = "nl"
  BY <1>4, <1>6
<1>8. \A i \in 1..Len(s) : p < i /\ s[i] = "nl" => e < i
  BY <1>1, <1>2, <1>3, <1>5, <1>6
<1> QED
  BY <1>6, <1>7, <1>8 DEF e

LEMMA PositionsAreInt ==
  ASSUME NEW S, NEW s \in Seq(S), NEW p \in Nat
  PROVE  /\ PrevPos(s, p) \in Int /\ NextPos(s, p) \in Int
         /\ WordLeft(s, p) \in Int /\ WordRight(s, p) \in Int
         /\ LineStartBefore(s, p) \in Int /\ LineEndAt(s, p) \in Int
         /\ MoveUp(s, p) \in Int /\ MoveDown(s, p) \in Int
<1>0. Len(s) \in Nat
  OBVIOUS
<1>1. \A q \in Int : LineStartBefore(s, q) \in Nat
  <2> TAKE q \in Int
  <2>1. LineStartBefore(s, q) \in 0..Len(s)
    BY LineStartIs
  <2> QED
    BY <1>0, <2>1
<1>2. \A q \in Nat : LineEndAt(s, q) \in Nat
  <2> TAKE q \in Nat
  <2>1. LineEndAt(s, q) \in 0..Len(s)
    BY LineEndIs
  <2> QED
    BY <1>0, <2>1
<1>3. \A a, b \in Int : Min({a, b}) \in Int
  BY MinOfTwo
<1>4. MoveUp(s, p) \in Int
  <2> DEFINE start == LineStartBefore(s, p)
             prev == LineStartBefore(s, start - 1)
  <2>1. start \in Nat
    BY <1>1
  <2> HIDE DEF start
  <2>2. prev \in Nat
    BY <1>1, <2>1
  <2> HIDE DEF prev
  <2>3. Min({p - start, start - 1 - prev}) \in Int
    BY <1>3, <2>1, <2>2
  <2>4. MoveUp(s, p) = IF start = 0 THEN p ELSE prev + Min({p - start, start - 1 - prev})
    BY DEF MoveUp, start, prev
  <2> QED
    BY <2>2, <2>3, <2>4
<1>5. MoveDown(s, p) \in Int
  <2> DEFINE end == LineEndAt(s, p)
             next == LineEndAt(s, end + 1) - (end + 1)
             start == LineStartBefore(s, p)
  <2> HIDE DEF next
  <2>1. end \in Nat /\ start \in Nat
    <3>1. LineStartBefore(s, p) \in Nat
      BY <1>1
    <3>2. LineEndAt(s, p) \in Nat
      BY <1>2
    <3> QED
      BY <3>1, <3>2
  <2> HIDE DEF end, start
  <2>2. next \in Int
    BY <1>2, <2>1 DEF next
  <2>3. Min({p - start, next}) \in Int
    BY <1>3, <2>1, <2>2
  <2>4. MoveDown(s, p) = IF end = Len(s) THEN p ELSE end + 1 + Min({p - start, next})
    BY DEF MoveDown, start, end, next
  <2> QED
    BY <2>1, <2>3, <2>4
<1>6. 0..Len(s) \subseteq Int
  BY <1>0
<1>7. PrevPos(s, p) \in Int /\ NextPos(s, p) \in Int
  <2>1. PrevPos(s, p) \in 0..Len(s)
    BY PrevPosIs
  <2>2. NextPos(s, p) \in 0..Len(s)
    BY NextPosIs
  <2> QED
    BY <1>6, <2>1, <2>2
<1>8. WordLeft(s, p) \in Int /\ WordRight(s, p) \in Int
  <2>1. WordLeft(s, p) \in 0..Len(s)
    BY WordLeftIs
  <2>2. WordRight(s, p) \in 0..Len(s)
    BY WordRightIs
  <2> QED
    BY <1>6, <2>1, <2>2
<1>9. LineStartBefore(s, p) \in Int /\ LineEndAt(s, p) \in Int
  <2>1. LineStartBefore(s, p) \in Nat
    BY <1>1
  <2>2. LineEndAt(s, p) \in Nat
    BY <1>2
  <2> QED
    BY <2>1, <2>2
<1> QED
  BY <1>4, <1>5, <1>7, <1>8, <1>9

-----------------------------------------------------------------------------
(* Texts made of whole characters. *)

LEMMA BeforeWhole ==
  ASSUME NEW S, NEW s \in Seq(S), WellFormed(s), NEW p \in Nat, p \in Stops(s)
  PROVE  WellFormed(Before(s, p))
<1> DEFINE b == Before(s, p)
<1>1. Len(s) \in Nat
  OBVIOUS
<1>2. /\ Len(b) = IF p <= Len(s) THEN p ELSE Len(s)
      /\ \A i \in 1..Len(b) : b[i] = s[i]
  BY BeforeIs
<1> HIDE DEF b
<1>3. ASSUME NEW i \in 1..Len(b), b[i] = "H" PROVE i < Len(b) /\ b[i + 1] = "L"
  <2>1. i \in 1..Len(s) /\ s[i] = "H"
    BY <1>1, <1>2, <1>3
  <2>2. i < Len(s) /\ s[i + 1] = "L"
    BY <2>1 DEF WellFormed
  <2>3. i # p
    BY <1>1, <2>1, <2>2 DEF Stops
  <2>4. i < Len(b) /\ i + 1 \in 1..Len(b)
    BY <1>1, <1>2, <2>1, <2>2, <2>3
  <2> QED
    BY <1>2, <2>2, <2>4
<1>4. ASSUME NEW i \in 1..Len(b), b[i] = "L" PROVE i > 1 /\ b[i - 1] = "H"
  <2>1. i \in 1..Len(s) /\ s[i] = "L"
    BY <1>1, <1>2, <1>4
  <2>2. i > 1 /\ s[i - 1] = "H"
    BY <2>1 DEF WellFormed
  <2>3. i - 1 \in 1..Len(b)
    BY <1>1, <1>2, <2>1, <2>2
  <2> QED
    BY <1>2, <2>2, <2>3
<1>5. WellFormed(b)
  BY <1>3, <1>4 DEF WellFormed
<1> QED
  BY <1>5 DEF b

LEMMA AfterWhole ==
  ASSUME NEW S, NEW s \in Seq(S), WellFormed(s), NEW p \in Nat, p \in Stops(s)
  PROVE  WellFormed(After(s, p))
<1> DEFINE a == After(s, p)
<1>1. Len(s) \in Nat
  OBVIOUS
<1>2. /\ Len(a) = IF p <= Len(s) THEN Len(s) - p ELSE 0
      /\ \A i \in 1..Len(a) : a[i] = s[p + i]
  BY AfterIs
<1> HIDE DEF a
<1>3. ASSUME NEW i \in 1..Len(a), a[i] = "H" PROVE i < Len(a) /\ a[i + 1] = "L"
  <2>1. p + i \in 1..Len(s) /\ s[p + i] = "H"
    BY <1>1, <1>2, <1>3
  <2>2. p + i < Len(s) /\ s[p + i + 1] = "L"
    BY <2>1 DEF WellFormed
  <2>3. i < Len(a) /\ i + 1 \in 1..Len(a) /\ p + (i + 1) = p + i + 1
    BY <1>1, <1>2, <2>1, <2>2
  <2> QED
    BY <1>2, <2>2, <2>3
<1>4. ASSUME NEW i \in 1..Len(a), a[i] = "L" PROVE i > 1 /\ a[i - 1] = "H"
  <2>1. p + i \in 1..Len(s) /\ s[p + i] = "L"
    BY <1>1, <1>2, <1>4
  <2>2. p + i > 1 /\ s[p + i - 1] = "H"
    BY <2>1 DEF WellFormed
  <2>3. i # 1
    <3>1. ASSUME i = 1 PROVE FALSE
      <4>1. p \in 1..(Len(s) - 1) /\ s[p] = "H" /\ s[p + 1] = "L"
        BY <1>1, <2>1, <2>2, <3>1
      <4> QED
        BY <1>1, <4>1 DEF Stops
    <3> QED
      BY <3>1
  <2>4. i > 1 /\ i - 1 \in 1..Len(a) /\ p + (i - 1) = p + i - 1
    BY <1>1, <1>2, <2>1, <2>3
  <2> QED
    BY <1>2, <2>2, <2>4
<1>5. WellFormed(a)
  BY <1>3, <1>4 DEF WellFormed
<1> QED
  BY <1>5 DEF a

LEMMA ConcatWhole ==
  ASSUME NEW S, NEW s \in Seq(S), NEW t \in Seq(S), WellFormed(s), WellFormed(t)
  PROVE  WellFormed(s \o t)
<1> DEFINE u == s \o t
<1>1. /\ Len(u) = Len(s) + Len(t)
      /\ \A i \in 1..(Len(s) + Len(t)) : u[i] = IF i <= Len(s) THEN s[i] ELSE t[i - Len(s)]
  BY ConcatProperties
<1>2. Len(s) \in Nat /\ Len(t) \in Nat
  OBVIOUS
<1> HIDE DEF u
<1>3. ASSUME NEW i \in 1..Len(u)
      PROVE  /\ u[i] = "H" => i < Len(u) /\ u[i + 1] = "L"
             /\ u[i] = "L" => i > 1 /\ u[i - 1] = "H"
  <2>1. CASE i <= Len(s)
    <3>1. i \in 1..Len(s) /\ u[i] = s[i] /\ i + 1 \in Nat
      BY <1>1, <1>2, <2>1
    <3>2. s[i] = "H" => i < Len(u) /\ u[i + 1] = "L"
      <4>1. s[i] = "H" => i < Len(s) /\ s[i + 1] = "L"
        BY <3>1 DEF WellFormed
      <4>2. i < Len(s) => i + 1 \in 1..Len(u) /\ i + 1 <= Len(s) /\ i < Len(u)
        BY <1>1, <1>2, <3>1
      <4> QED
        BY <1>1, <4>1, <4>2
    <3>3. s[i] = "L" => i > 1 /\ u[i - 1] = "H"
      <4>1. s[i] = "L" => i > 1 /\ s[i - 1] = "H"
        BY <3>1 DEF WellFormed
      <4>2. i > 1 => i - 1 \in 1..Len(u) /\ i - 1 <= Len(s)
        BY <1>1, <1>2, <3>1
      <4> QED
        BY <1>1, <4>1, <4>2
    <3> QED
      BY <3>1, <3>2, <3>3
  <2>2. CASE ~(i <= Len(s))
    <3> DEFINE j == i - Len(s)
    <3>1. j \in 1..Len(t) /\ u[i] = t[j] /\ i = Len(s) + j
      BY <1>1, <1>2, <2>2
    <3> HIDE DEF j
    <3>2. t[j] = "H" => i < Len(u) /\ u[i + 1] = "L"
      <4>1. t[j] = "H" => j < Len(t) /\ t[j + 1] = "L"
        BY <3>1 DEF WellFormed
      <4>2. j < Len(t) => /\ i + 1 \in 1..Len(u) /\ ~(i + 1 <= Len(s)) /\ i < Len(u)
                          /\ (i + 1) - Len(s) = j + 1
        BY <1>1, <1>2, <3>1
      <4> QED
        BY <1>1, <4>1, <4>2
    <3>3. t[j] = "L" => i > 1 /\ u[i - 1] = "H"
      <4>1. t[j] = "L" => j > 1 /\ t[j - 1] = "H"
        BY <3>1 DEF WellFormed
      <4>2. j > 1 => /\ i - 1 \in 1..Len(u) /\ ~(i - 1 <= Len(s)) /\ i > 1
                     /\ (i - 1) - Len(s) = j - 1
        BY <1>1, <1>2, <3>1
      <4> QED
        BY <1>1, <4>1, <4>2
    <3> QED
      BY <3>1, <3>2, <3>3
  <2> QED
    BY <2>1, <2>2
<1>4. WellFormed(u)
  BY <1>3 DEF WellFormed
<1> QED
  BY <1>4 DEF u

-----------------------------------------------------------------------------
(* Keys *)

Entries == [value : Seq(Unit), cursor : Nat]

(* The stacks share the limit: redo holds what undo gave. *)
EditorTypes ==
  /\ scenario \in Scenarios
  /\ text \in Seq(Unit) /\ cursor \in Nat
  /\ undo \in Seq(Entries) /\ redo \in Seq(Entries)
  /\ Len(undo) + Len(redo) <= scenario.maxUndo
  /\ sending \subseteq Seq(Unit) /\ outside \in Nat

LEMMA EntriesHold ==
  ASSUME NEW e \in Entries
  PROVE  e.value \in Seq(Unit) /\ e.cursor \in Nat /\ e.cursor \in Int
BY DEF Entries

LEMMA SpliceIs ==
  ASSUME NEW s \in Seq(Unit), NEW p \in Nat, NEW x \in Seq(Unit), NEW q \in Nat
  PROVE  /\ Before(s, p) \o x \o After(s, q) \in Seq(Unit)
         /\ Before(s, p) \o After(s, q) \in Seq(Unit)
         /\ WellFormed(s) /\ p \in Stops(s) /\ q \in Stops(s) /\ WellFormed(x)
              => /\ WellFormed(Before(s, p) \o x \o After(s, q))
                 /\ WellFormed(Before(s, p) \o After(s, q))
<1>1. Before(s, p) \in Seq(Unit) /\ After(s, q) \in Seq(Unit)
  BY BeforeIs, AfterIs
<1>2. Before(s, p) \o x \in Seq(Unit)
  BY <1>1, ConcatProperties
<1>3. /\ (Before(s, p) \o x) \o After(s, q) \in Seq(Unit)
      /\ Before(s, p) \o After(s, q) \in Seq(Unit)
  BY <1>1, <1>2, ConcatProperties
<1>4. ASSUME WellFormed(s), p \in Stops(s), q \in Stops(s), WellFormed(x)
      PROVE  /\ WellFormed((Before(s, p) \o x) \o After(s, q))
             /\ WellFormed(Before(s, p) \o After(s, q))
  <2>1. WellFormed(Before(s, p)) /\ WellFormed(After(s, q))
    BY <1>4, BeforeWhole, AfterWhole
  <2>2. WellFormed(Before(s, p) \o x)
    BY <1>1, <1>4, <2>1, ConcatWhole
  <2> QED
    BY <1>1, <1>2, <2>1, <2>2, ConcatWhole
<1> QED
  BY <1>3, <1>4

(* A key that edits commits a text, one of whole characters. *)
EditsTo(next, at) ==
  /\ Commit(next, at)
  /\ WellFormed(text) /\ cursor \in Stops(text) => WellFormed(next)

LEMMA EditIsCommit ==
  ASSUME EditorTypes, Edit
  PROVE  \E next \in Seq(Unit), at \in Int : EditsTo(next, at)
<1>0. text \in Seq(Unit) /\ cursor \in Nat /\ Len(text) \in Nat
  BY DEF EditorTypes
<1>1. CASE Insert
  <2>1. PICK x \in scenario.inputs :
          Commit(Before(text, cursor) \o x \o After(text, cursor), cursor + Len(x))
    BY <1>1 DEF Insert
  <2>2. x \in Seq(Unit) /\ WellFormed(x)
    BY <2>1, TextAreaAssumption DEF EditorTypes
  <2> DEFINE next == Before(text, cursor) \o x \o After(text, cursor)
  <2>3. next \in Seq(Unit) /\ (WellFormed(text) /\ cursor \in Stops(text) => WellFormed(next))
    BY <1>0, <2>2, SpliceIs
  <2>4. cursor + Len(x) \in Int
    BY <1>0, <2>2
  <2> HIDE DEF next
  <2>5. EditsTo(next, cursor + Len(x))
    BY <2>1, <2>3 DEF EditsTo, next
  <2> QED
    BY <2>3, <2>4, <2>5
<1>2. CASE Newline
  <2>1. <<"nl">> \in Seq(Unit) /\ WellFormed(<<"nl">>)
    BY TextAreaAssumption DEF WellFormed
  <2>2. CASE Commit(Before(text, cursor) \o <<"nl">> \o After(text, cursor), cursor + 1)
    <3> DEFINE next == Before(text, cursor) \o <<"nl">> \o After(text, cursor)
    <3>1. next \in Seq(Unit) /\ (WellFormed(text) /\ cursor \in Stops(text) => WellFormed(next))
      BY <1>0, <2>1, SpliceIs
    <3> HIDE DEF next
    <3>2. EditsTo(next, cursor + 1)
      BY <2>2, <3>1 DEF EditsTo, next
    <3> QED
      BY <1>0, <3>1, <3>2
  <2>3. CASE /\ AfterBackslash
             /\ Commit(Before(text, cursor - 1) \o <<"nl">> \o After(text, cursor), cursor)
    <3> DEFINE next == Before(text, cursor - 1) \o <<"nl">> \o After(text, cursor)
    <3>1. cursor \in 1..Len(text) /\ text[cursor] = "bs"
      BY <2>3 DEF AfterBackslash
    <3>2. cursor - 1 \in Nat /\ cursor - 1 \in Stops(text)
      BY <1>0, <3>1 DEF Stops
    <3>3. next \in Seq(Unit) /\ (WellFormed(text) /\ cursor \in Stops(text) => WellFormed(next))
      BY <1>0, <2>1, <3>2, SpliceIs
    <3> HIDE DEF next
    <3>4. EditsTo(next, cursor)
      BY <2>3, <3>3 DEF EditsTo, next
    <3> QED
      BY <1>0, <3>3, <3>4
  <2> QED
    BY <1>2, <2>2, <2>3 DEF Newline
<1>3. ASSUME NEW t \in 0..Len(text), t \in Stops(text), DeleteFrom(t)
      PROVE  \E next \in Seq(Unit), at \in Int : EditsTo(next, at)
  <2> DEFINE next == Before(text, t) \o After(text, cursor)
  <2>1. <<>> \in Seq(Unit) /\ WellFormed(<<>>)
    BY DEF WellFormed
  <2>2. next \in Seq(Unit) /\ (WellFormed(text) /\ cursor \in Stops(text) => WellFormed(next))
    <3>1. t \in Nat
      BY <1>0
    <3> QED
      BY <1>0, <1>3, <2>1, <3>1, SpliceIs
  <2> HIDE DEF next
  <2>3. EditsTo(next, t)
    BY <1>3, <2>2 DEF EditsTo, next, DeleteFrom
  <2> QED
    BY <1>0, <2>2, <2>3
<1>4. CASE Backspace
  BY <1>0, <1>3, <1>4, PrevPosIs DEF Backspace
<1>5. CASE DeleteWord
  BY <1>0, <1>3, <1>5, WordLeftIs DEF DeleteWord
<1>6. CASE KillToStart
  <2>1. After(text, cursor) \in Seq(Unit)
    BY <1>0, AfterIs
  <2>2. EditsTo(After(text, cursor), 0)
    BY <1>0, <1>6, AfterWhole DEF KillToStart, EditsTo
  <2> QED
    BY <2>1, <2>2
<1>7. CASE KillToEnd
  <2>1. Before(text, cursor) \in Seq(Unit)
    BY <1>0, BeforeIs
  <2>2. EditsTo(Before(text, cursor), cursor)
    BY <1>0, <1>7, BeforeWhole DEF KillToEnd, EditsTo
  <2> QED
    BY <1>0, <2>1, <2>2
<1> QED
  BY <1>1, <1>2, <1>4, <1>5, <1>6, <1>7 DEF Edit

LEMMA MoveIsMoveTo ==
  ASSUME EditorTypes, Move
  PROVE  \E at \in Int : MoveTo(at)
<1>1. text \in Seq(Unit) /\ cursor \in Nat
  BY DEF EditorTypes
<1>2. /\ PrevPos(text, cursor) \in Int /\ NextPos(text, cursor) \in Int
      /\ WordLeft(text, cursor) \in Int /\ WordRight(text, cursor) \in Int
      /\ LineStartBefore(text, cursor) \in Int /\ LineEndAt(text, cursor) \in Int
      /\ MoveUp(text, cursor) \in Int /\ MoveDown(text, cursor) \in Int
  BY <1>1, PositionsAreInt
<1> QED
  BY <1>2 DEF Move, LeftArrow, RightArrow, UpArrow, DownArrow, LineStart, LineEnd

LEMMA SnapPosNat ==
  ASSUME NEW s \in Seq(Unit), NEW p \in Int
  PROVE  SnapPos(s, p) \in Nat
<1>1. SnapPos(s, p) \in 0..Len(s) /\ Len(s) \in Nat
  BY SnapPosIs
<1> QED
  BY <1>1

LEMMA PopIs ==
  ASSUME NEW stack \in Seq(Entries), stack # <<>>
  PROVE  /\ Len(stack) \in 1..Len(stack)
         /\ stack[Len(stack)] \in Entries
         /\ SubSeq(stack, 1, Len(stack) - 1) \in Seq(Entries)
         /\ Len(SubSeq(stack, 1, Len(stack) - 1)) = Len(stack) - 1
         /\ \A i \in 1..(Len(stack) - 1) : SubSeq(stack, 1, Len(stack) - 1)[i] = stack[i]
<1> DEFINE n == Len(stack) - 1
           top == SubSeq(stack, 1, n)
<1>1. Len(stack) \in Nat \ {0}
  BY EmptySeq
<1>2. Len(stack) \in 1..Len(stack) /\ n \in Nat /\ Len(stack) = n + 1
  BY <1>1
<1> HIDE DEF n
<1>3. \A i \in 1..n : stack[i] \in Entries
  BY <1>2
<1>4. /\ top \in Seq(Entries) /\ Len(top) = IF 1 <= n THEN n - 1 + 1 ELSE 0
      /\ \A i \in 1..(n - 1 + 1) : top[i] = stack[1 + i - 1]
  BY <1>2, <1>3, SubSeqProperties
<1> HIDE DEF top
<1>5. Len(top) = n /\ \A i \in 1..n : top[i] = stack[i]
  BY <1>2, <1>4
<1> QED
  BY <1>2, <1>4, <1>5 DEF top, n

LEMMA EntryType ==
  ASSUME EditorTypes
  PROVE  Entry \in Entries
BY DEF EditorTypes, Entry, Entries

LEMMA RememberIs ==
  ASSUME EditorTypes
  PROVE  /\ Remember(undo, Entry) \in Seq(Entries)
         /\ Remember(undo, Entry) = IF Len(undo) = scenario.maxUndo THEN Tail(Append(undo, Entry))
                                                                ELSE Append(undo, Entry)
         /\ Len(Remember(undo, Entry)) <= scenario.maxUndo
<1> DEFINE pushed == Append(undo, Entry)
<1>1. /\ undo \in Seq(Entries) /\ Len(undo) \in Nat /\ Len(redo) \in Nat
      /\ scenario.maxUndo \in Nat /\ Len(undo) <= scenario.maxUndo
  BY TextAreaAssumption DEF EditorTypes
<1>2. pushed \in Seq(Entries) /\ pushed # <<>> /\ Len(pushed) = Len(undo) + 1
  BY <1>1, EntryType, AppendProperties
<1> HIDE DEF pushed
<1>3. Tail(pushed) \in Seq(Entries) /\ Len(Tail(pushed)) = Len(undo)
  BY <1>1, <1>2, HeadTailProperties
<1>4. Remember(undo, Entry) = IF Len(undo) = scenario.maxUndo THEN Tail(pushed) ELSE pushed
  BY <1>1, <1>2 DEF Remember, pushed
<1> QED
  BY <1>1, <1>2, <1>3, <1>4 DEF pushed

LEMMA CommitTypes ==
  ASSUME EditorTypes, NEW next \in Seq(Unit), NEW at \in Int, Commit(next, at)
  PROVE  EditorTypes'
<1>1. /\ text' = next /\ cursor' = SnapPos(next, at)
      /\ UNCHANGED <<scenario, sending, outside>>
      /\ \/ undo' = Remember(undo, Entry) /\ redo' = <<>>
         \/ UNCHANGED <<undo, redo>>
  BY DEF Commit
<1>2. cursor' \in Nat
  BY <1>1, SnapPosNat
<1>3. undo' \in Seq(Entries) /\ redo' \in Seq(Entries) /\ Len(undo') + Len(redo') <= scenario.maxUndo
  <2>1. CASE undo' = Remember(undo, Entry) /\ redo' = <<>>
    <3>1. Len(redo') = 0 /\ redo' \in Seq(Entries)
      BY <2>1, EmptySeq
    <3>2. Len(undo') \in Nat
      BY <2>1, RememberIs, LenProperties
    <3> QED
      BY <2>1, <3>1, <3>2, RememberIs
  <2>2. CASE UNCHANGED <<undo, redo>>
    BY <2>2 DEF EditorTypes
  <2> QED
    BY <1>1, <2>1, <2>2
<1> QED
  BY <1>1, <1>2, <1>3 DEF EditorTypes

LEMMA SwapTypes ==
  ASSUME EditorTypes, Undo \/ Redo
  PROVE  EditorTypes'
<1>0. /\ undo \in Seq(Entries) /\ redo \in Seq(Entries) /\ Len(undo) \in Nat /\ Len(redo) \in Nat
      /\ Len(undo) + Len(redo) <= scenario.maxUndo /\ scenario.maxUndo \in Nat
  BY TextAreaAssumption DEF EditorTypes
<1>1. ASSUME NEW from \in Seq(Entries), from # <<>>, Pop(from)
      PROVE  text' \in Seq(Unit) /\ cursor' \in Nat /\ UNCHANGED <<scenario, sending, outside>>
  <2>1. from[Len(from)] \in Entries
    BY <1>1, PopIs
  <2>2. from[Len(from)].value \in Seq(Unit) /\ from[Len(from)].cursor \in Int
    BY <2>1, EntriesHold
  <2>3. /\ text' = from[Len(from)].value
        /\ cursor' = SnapPos(from[Len(from)].value, from[Len(from)].cursor)
        /\ UNCHANGED <<scenario, sending, outside>>
    BY <1>1 DEF Pop
  <2> QED
    BY <2>2, <2>3, SnapPosNat
<1>2. ASSUME NEW to \in Seq(Entries) PROVE Kept(to) \in Seq(Entries) /\ Len(Kept(to)) = Len(to) + 1
  BY <1>2, EntryType, AppendProperties DEF Kept
<1>3. CASE Undo
  <2>1. undo # <<>> /\ Pop(undo) /\ undo' = SubSeq(undo, 1, Len(undo) - 1) /\ redo' = Kept(redo)
    BY <1>3 DEF Undo
  <2>2. undo' \in Seq(Entries) /\ Len(undo') = Len(undo) - 1
    BY <1>0, <2>1, PopIs
  <2>3. redo' \in Seq(Entries) /\ Len(redo') = Len(redo) + 1
    BY <1>0, <1>2, <2>1
  <2>4. text' \in Seq(Unit) /\ cursor' \in Nat /\ UNCHANGED <<scenario, sending, outside>>
    BY <1>0, <1>1, <2>1
  <2>5. Len(undo') + Len(redo') <= scenario'.maxUndo
    BY <1>0, <2>2, <2>3, <2>4
  <2> QED
    BY <2>2, <2>3, <2>4, <2>5 DEF EditorTypes
<1>4. CASE Redo
  <2>1. redo # <<>> /\ Pop(redo) /\ redo' = SubSeq(redo, 1, Len(redo) - 1) /\ undo' = Kept(undo)
    BY <1>4 DEF Redo
  <2>2. redo' \in Seq(Entries) /\ Len(redo') = Len(redo) - 1
    BY <1>0, <2>1, PopIs
  <2>3. undo' \in Seq(Entries) /\ Len(undo') = Len(undo) + 1
    BY <1>0, <1>2, <2>1
  <2>4. text' \in Seq(Unit) /\ cursor' \in Nat /\ UNCHANGED <<scenario, sending, outside>>
    BY <1>0, <1>1, <2>1
  <2>5. Len(undo') + Len(redo') <= scenario'.maxUndo
    BY <1>0, <2>2, <2>3, <2>4
  <2> QED
    BY <2>2, <2>3, <2>4, <2>5 DEF EditorTypes
<1> QED
  BY <1>3, <1>4

LEMMA EditorStep ==
  ASSUME EditorTypes, [EditorNext]_editorVars
  PROVE  EditorTypes'
<1>1. CASE Edit
  BY <1>1, EditIsCommit, CommitTypes DEF EditsTo
<1>2. CASE Move
  <2>1. PICK at \in Int : MoveTo(at)
    BY <1>2, MoveIsMoveTo
  <2>2. cursor' \in Nat
    BY <2>1, SnapPosNat DEF MoveTo, EditorTypes
  <2> QED
    BY <2>1, <2>2 DEF MoveTo, EditorTypes
<1>3. CASE Undo \/ Redo
  BY <1>3, SwapTypes
<1>4. CASE Submit
  BY <1>4 DEF Submit, EditorTypes
<1>5. CASE Answered
  <2>1. PICK value \in sending : Sent(value) \/ SendFails(value)
    BY <1>5 DEF Answered
  <2> QED
    BY <2>1 DEF Sent, SendFails, EditorTypes
<1>6. CASE Accept
  BY <1>6, TextAreaAssumption DEF Accept, EditorTypes
<1>7. CASE UNCHANGED editorVars
  BY <1>7 DEF editorVars, EditorTypes
<1> QED
  BY <1>1, <1>2, <1>3, <1>4, <1>5, <1>6, <1>7 DEF EditorNext

LEMMA EditorTypesAlways == EditorSpec => []EditorTypes
<1>1. EditorInit => EditorTypes
  <2> SUFFICES ASSUME EditorInit PROVE EditorTypes
    OBVIOUS
  <2>1. <<>> \in Seq(Unit) /\ <<>> \in Seq(Entries) /\ Len(<<>>) = 0
    BY EmptySeq
  <2>2. scenario \in Scenarios /\ scenario.maxUndo \in Nat
    BY TextAreaAssumption DEF EditorInit
  <2> QED
    BY <2>1, <2>2 DEF EditorInit, EditorTypes
<1>2. EditorTypes /\ [EditorNext]_editorVars => EditorTypes'
  BY EditorStep
<1> QED
  BY <1>1, <1>2, PTL DEF EditorSpec

-----------------------------------------------------------------------------
(* The timeline *)

Line(u, t, r) ==
  [i \in DOMAIN u |-> u[i].value] \o <<t>> \o [i \in DOMAIN r |-> r[Len(r) + 1 - i].value]

LEMMA ValuesIs ==
  ASSUME NEW u \in Seq(Entries)
  PROVE  /\ Values(u) \in Seq(Seq(Unit)) /\ Len(Values(u)) = Len(u)
         /\ \A i \in 1..Len(u) : Values(u)[i] = u[i].value
<1>1. \A i \in 1..Len(u) : u[i].value \in Seq(Unit)
  BY ElementOfSeq, EntriesHold
<1> QED
  BY <1>1 DEF Values

LEMMA TextsJoin ==
  ASSUME NEW a \in Seq(Seq(Unit)), NEW b \in Seq(Seq(Unit))
  PROVE  /\ a \o b \in Seq(Seq(Unit)) /\ Len(a \o b) = Len(a) + Len(b)
         /\ \A i \in 1..(Len(a) + Len(b)) :
              (a \o b)[i] = IF i <= Len(a) THEN a[i] ELSE b[i - Len(a)]
BY ConcatProperties

LEMMA LineIs ==
  ASSUME NEW u \in Seq(Entries), NEW t \in Seq(Unit), NEW r \in Seq(Entries)
  PROVE  /\ Line(u, t, r) \in Seq(Seq(Unit))
         /\ Len(Line(u, t, r)) = Len(u) + 1 + Len(r)
         /\ \A i \in 1..(Len(u) + 1 + Len(r)) :
              /\ i <= Len(u) => Line(u, t, r)[i] = u[i].value
              /\ i = Len(u) + 1 => Line(u, t, r)[i] = t
              /\ i > Len(u) + 1 => Line(u, t, r)[i] = r[Len(u) + 2 + Len(r) - i].value
<1> DEFINE v == Values(u)
           w == [i \in DOMAIN r |-> r[Len(r) + 1 - i].value]
           a == v \o <<t>>
<1>1. Len(u) \in Nat /\ Len(r) \in Nat
  OBVIOUS
<1>2. v \in Seq(Seq(Unit)) /\ Len(v) = Len(u) /\ \A i \in 1..Len(u) : v[i] = u[i].value
  BY ValuesIs
<1>3. w \in Seq(Seq(Unit)) /\ Len(w) = Len(r) /\ \A i \in 1..Len(r) : w[i] = r[Len(r) + 1 - i].value
  <2>1. \A i \in 1..Len(r) : Len(r) + 1 - i \in 1..Len(r)
    BY <1>1
  <2>2. \A i \in 1..Len(r) : r[Len(r) + 1 - i].value \in Seq(Unit)
    BY <2>1, ElementOfSeq, EntriesHold
  <2> DEFINE x == [i \in 1..Len(r) |-> r[Len(r) + 1 - i].value]
  <2>3. x \in Seq(Seq(Unit)) /\ Len(x) = Len(r) /\ \A i \in 1..Len(r) : x[i] = r[Len(r) + 1 - i].value
    BY <1>1, <2>2
  <2>4. w = x
    <3>1. DOMAIN r = 1..Len(r)
      OBVIOUS
    <3> QED
      BY <3>1
  <2> HIDE DEF w, x
  <2> QED
    BY <2>3, <2>4
<1> HIDE DEF v, w
<1>4. /\ a \in Seq(Seq(Unit)) /\ Len(a) = Len(u) + 1
      /\ \A i \in 1..(Len(u) + 1) : a[i] = IF i <= Len(u) THEN u[i].value ELSE t
  <2>1. <<t>> \in Seq(Seq(Unit)) /\ Len(<<t>>) = 1 /\ <<t>>[1] = t
    OBVIOUS
  <2>2. /\ a \in Seq(Seq(Unit)) /\ Len(a) = Len(v) + 1
        /\ \A i \in 1..(Len(v) + 1) : a[i] = IF i <= Len(v) THEN v[i] ELSE <<t>>[i - Len(v)]
    BY <1>2, <2>1, ConcatProperties
  <2>3. ASSUME NEW i \in 1..(Len(u) + 1) PROVE a[i] = IF i <= Len(u) THEN u[i].value ELSE t
    <3>1. a[i] = IF i <= Len(u) THEN v[i] ELSE <<t>>[i - Len(u)]
      BY <1>2, <2>2
    <3>2. CASE i <= Len(u)
      <4>1. a[i] = v[i] /\ v[i] = u[i].value
        BY <1>1, <1>2, <3>1, <3>2
      <4> QED
        BY <3>2, <4>1
    <3>3. CASE ~(i <= Len(u))
      <4>1. i - Len(u) = 1
        BY <1>1, <3>3
      <4>2. a[i] = t
        BY <2>1, <3>1, <3>3, <4>1
      <4> QED
        BY <3>3, <4>2
    <3> QED
      BY <3>2, <3>3
  <2> QED
    BY <1>2, <2>2, <2>3
<1> HIDE DEF a
<1>5. /\ a \o w \in Seq(Seq(Unit)) /\ Len(a \o w) = Len(u) + 1 + Len(r)
      /\ \A i \in 1..(Len(u) + 1 + Len(r)) :
           (a \o w)[i] = IF i <= Len(u) + 1 THEN a[i] ELSE w[i - (Len(u) + 1)]
  <2>1. /\ a \o w \in Seq(Seq(Unit)) /\ Len(a \o w) = Len(a) + Len(w)
        /\ \A i \in 1..(Len(a) + Len(w)) :
             (a \o w)[i] = IF i <= Len(a) THEN a[i] ELSE w[i - Len(a)]
    <3>1. a \in Seq(Seq(Unit)) /\ w \in Seq(Seq(Unit))
      BY <1>3, <1>4
    <3> QED
      BY <3>1, TextsJoin
  <2>2. Len(a) = Len(u) + 1 /\ Len(w) = Len(r)
    BY <1>3, <1>4
  <2> QED
    BY <2>1, <2>2, Zenon
<1>6. ASSUME NEW i \in 1..(Len(u) + 1 + Len(r))
      PROVE  /\ i <= Len(u) => (a \o w)[i] = u[i].value
             /\ i = Len(u) + 1 => (a \o w)[i] = t
             /\ i > Len(u) + 1 => (a \o w)[i] = r[Len(u) + 2 + Len(r) - i].value
  <2>1. CASE i <= Len(u) + 1
    <3>1. i \in 1..(Len(u) + 1) /\ ~(i > Len(u) + 1)
      BY <1>1, <2>1
    <3>2. (a \o w)[i] = IF i <= Len(u) THEN u[i].value ELSE t
      BY <1>4, <1>5, <2>1, <3>1
    <3> QED
      BY <1>1, <3>1, <3>2
  <2>2. CASE ~(i <= Len(u) + 1)
    <3> DEFINE j == i - (Len(u) + 1)
    <3>1. j \in 1..Len(r) /\ Len(r) + 1 - j = Len(u) + 2 + Len(r) - i
      BY <1>1, <2>2
    <3>2. (a \o w)[i] = w[j]
      BY <1>5, <2>2
    <3> HIDE DEF j
    <3>3. w[j] = r[Len(u) + 2 + Len(r) - i].value
      BY <1>3, <3>1
    <3> QED
      BY <1>1, <2>2, <3>2, <3>3
  <2> QED
    BY <2>1, <2>2
<1>7. Line(u, t, r) = a \o w
  BY DEF Line, Values, a, v, w
<1> QED
  BY <1>5, <1>6, <1>7

LEMMA OnLine ==
  ASSUME NEW u \in Seq(Entries), NEW t \in Seq(Unit), NEW r \in Seq(Entries)
  PROVE  Line(u, t, r)[Len(u) + 1] = t
<1> DEFINE k == Len(u) + 1
<1>1. Len(u) \in Nat /\ Len(r) \in Nat
  OBVIOUS
<1>2. k \in 1..(Len(u) + 1 + Len(r))
  BY <1>1
<1>3. \A i \in 1..(Len(u) + 1 + Len(r)) : i = k => Line(u, t, r)[i] = t
  BY LineIs
<1> HIDE DEF k
<1>4. Line(u, t, r)[k] = t
  BY <1>2, <1>3, Zenon
<1> QED
  BY <1>4 DEF k

LEMMA TimelineIsLine ==
  Timeline = Line(undo, text, redo) /\ Timeline' = Line(undo', text', redo')
BY DEF Timeline, Values, Line

(* Moving the text on the screen to one stack and the top of the other     *)
(* to the screen is moving along the line.                                 *)
LEMMA LineShifts ==
  ASSUME NEW u \in Seq(Entries), u # <<>>, NEW t \in Seq(Unit), NEW r \in Seq(Entries),
         NEW e \in Entries, e.value = t
  PROVE  Line(SubSeq(u, 1, Len(u) - 1), u[Len(u)].value, Append(r, e)) = Line(u, t, r)
<1> DEFINE v == SubSeq(u, 1, Len(u) - 1)
           w == Append(r, e)
           s == u[Len(u)].value
<1>1. Len(u) \in Nat \ {0} /\ Len(r) \in Nat
  BY EmptySeq
<1>2. /\ v \in Seq(Entries) /\ Len(v) = Len(u) - 1 /\ s \in Seq(Unit)
      /\ \A i \in 1..(Len(u) - 1) : v[i] = u[i]
  BY PopIs, EntriesHold
<1>3. /\ w \in Seq(Entries) /\ Len(w) = Len(r) + 1 /\ w[Len(r) + 1].value = t
      /\ \A i \in 1..Len(r) : w[i] = r[i]
  BY AppendProperties
<1> HIDE DEF v, w
<1>4. s = u[Len(u)].value
  OBVIOUS
<1> HIDE DEF s
<1>8. v \in Seq(Entries) /\ s \in Seq(Unit) /\ w \in Seq(Entries)
  BY <1>2, <1>3
<1>5. /\ Line(v, s, w) \in Seq(Seq(Unit)) /\ Line(u, t, r) \in Seq(Seq(Unit))
      /\ Len(Line(v, s, w)) = Len(u) + 1 + Len(r) /\ Len(Line(u, t, r)) = Len(u) + 1 + Len(r)
  <2>1. Line(u, t, r) \in Seq(Seq(Unit)) /\ Len(Line(u, t, r)) = Len(u) + 1 + Len(r)
    BY LineIs
  <2>2. Line(v, s, w) \in Seq(Seq(Unit)) /\ Len(Line(v, s, w)) = Len(v) + 1 + Len(w)
    BY <1>8, LineIs
  <2>3. Len(v) + 1 + Len(w) = Len(u) + 1 + Len(r)
    BY <1>1, <1>2, <1>3
  <2> QED
    BY <2>1, <2>2, <2>3
<1>6. ASSUME NEW i \in 1..(Len(u) + 1 + Len(r)) PROVE Line(v, s, w)[i] = Line(u, t, r)[i]
  <2>1. /\ i <= Len(u) => Line(u, t, r)[i] = u[i].value
        /\ i = Len(u) + 1 => Line(u, t, r)[i] = t
        /\ i > Len(u) + 1 => Line(u, t, r)[i] = r[Len(u) + 2 + Len(r) - i].value
    BY LineIs
  <2>2. i \in 1..(Len(v) + 1 + Len(w))
    BY <1>1, <1>2, <1>3
  <2>3. /\ i <= Len(v) => Line(v, s, w)[i] = v[i].value
        /\ i = Len(v) + 1 => Line(v, s, w)[i] = s
        /\ i > Len(v) + 1 => Line(v, s, w)[i] = w[Len(v) + 2 + Len(w) - i].value
    BY <1>8, <2>2, LineIs
  <2>4. CASE i <= Len(u) - 1
    <3>1. i \in 1..(Len(u) - 1) /\ i <= Len(v) /\ i <= Len(u)
      BY <1>1, <1>2, <2>4
    <3> QED
      BY <1>2, <2>1, <2>3, <3>1
  <2>5. CASE i = Len(u)
    <3>1. i = Len(v) + 1 /\ i <= Len(u)
      BY <1>1, <1>2, <2>5
    <3> QED
      BY <1>4, <2>1, <2>3, <2>5, <3>1
  <2>6. CASE i = Len(u) + 1
    <3>1. i > Len(v) + 1 /\ Len(v) + 2 + Len(w) - i = Len(r) + 1
      BY <1>1, <1>2, <1>3, <2>6
    <3> QED
      BY <1>3, <2>1, <2>3, <2>6, <3>1
  <2>7. CASE i > Len(u) + 1
    <3>1. /\ i > Len(v) + 1
          /\ Len(v) + 2 + Len(w) - i = Len(u) + 2 + Len(r) - i
          /\ Len(u) + 2 + Len(r) - i \in 1..Len(r)
      BY <1>1, <1>2, <1>3, <2>7
    <3>2. w[Len(u) + 2 + Len(r) - i] = r[Len(u) + 2 + Len(r) - i]
      BY <1>3, <3>1
    <3> QED
      BY <2>1, <2>3, <2>7, <3>1, <3>2
  <2> QED
    BY <1>1, <2>4, <2>5, <2>6, <2>7
<1>7. Line(v, s, w) = Line(u, t, r)
  BY <1>5, <1>6, SeqEqual
<1> QED
  BY <1>7 DEF v, s, w

LEMMA KeysOnly ==
  ASSUME EditorTypes, [EditorNext]_editorVars, ByKey
  PROVE  Edit \/ Move \/ Undo \/ Redo \/ UNCHANGED editorVars
<1>1. ~Submit /\ ~Accept
  BY DEF Submit, Accept, ByKey, EditorTypes
<1>2. ~Answered
  BY DEF Answered, Sent, SendFails, ByKey
<1> QED
  BY <1>1, <1>2 DEF EditorNext

LEMMA EditKeepsLine ==
  ASSUME EditorTypes, Edit
  PROVE  LET past == Values(undo) \o <<text>>
             kept == IF Len(undo) = scenario.maxUndo THEN Tail(past) ELSE past
         IN  Timeline' = Timeline \/ Before(Timeline', Len(kept)) = kept
<1> DEFINE past == Values(undo) \o <<text>>
           kept == IF Len(undo) = scenario.maxUndo THEN Tail(past) ELSE past
           full == Append(undo, Entry)
           more == Remember(undo, Entry)
<1>0. /\ undo \in Seq(Entries) /\ text \in Seq(Unit) /\ Len(undo) \in Nat
      /\ Entry \in Entries /\ Entry.value = text
  BY EntryType DEF EditorTypes, Entry
<1>1. PICK next \in Seq(Unit), at \in Int : Commit(next, at)
  BY EditIsCommit DEF EditsTo
<1>2. CASE next = text
  <2>1. UNCHANGED <<text, undo, redo>>
    BY <1>1, <1>2 DEF Commit
  <2>2. Timeline' = Timeline
    BY <2>1, TimelineIsLine
  <2> QED
    BY <2>2
<1>3. CASE next # text
  <2>1. undo' = more /\ redo' = <<>> /\ text' = next
    BY <1>1, <1>3 DEF Commit
  <2>2. /\ full \in Seq(Entries) /\ Len(full) = Len(undo) + 1 /\ full # <<>>
        /\ \A i \in 1..Len(undo) : full[i] = undo[i]
        /\ full[Len(undo) + 1].value = text
    BY <1>0, AppendProperties
  <2> HIDE DEF full
  <2>3. Values(full) = past
    <3>1. /\ Values(undo) \in Seq(Seq(Unit)) /\ Len(Values(undo)) = Len(undo)
          /\ \A i \in 1..Len(undo) : Values(undo)[i] = undo[i].value
      BY <1>0, ValuesIs
    <3>2. <<text>> \in Seq(Seq(Unit)) /\ Len(<<text>>) = 1 /\ <<text>>[1] = text
      BY <1>0
    <3> DEFINE old == Values(undo)
               now == <<text>>
    <3> HIDE DEF old, now
    <3>3. /\ past \in Seq(Seq(Unit)) /\ Len(past) = Len(undo) + 1
          /\ \A i \in 1..(Len(undo) + 1) :
               past[i] = IF i <= Len(undo) THEN Values(undo)[i] ELSE <<text>>[i - Len(undo)]
      <4>1. /\ old \in Seq(Seq(Unit)) /\ now \in Seq(Seq(Unit))
            /\ Len(old) = Len(undo) /\ Len(now) = 1
        BY <3>1, <3>2 DEF old, now
      <4>2. /\ old \o now \in Seq(Seq(Unit)) /\ Len(old \o now) = Len(old) + Len(now)
            /\ \A i \in 1..(Len(old) + Len(now)) :
                 (old \o now)[i] = IF i <= Len(old) THEN old[i] ELSE now[i - Len(old)]
        <5>1. old \in Seq(Seq(Unit)) /\ now \in Seq(Seq(Unit))
          BY <4>1
        <5> QED
          BY <5>1, TextsJoin
      <4>3. past = old \o now
        BY Zenon DEF old, now
      <4> HIDE DEF past
      <4>4. /\ past \in Seq(Seq(Unit)) /\ Len(past) = Len(undo) + 1
            /\ \A i \in 1..(Len(undo) + 1) :
                 past[i] = IF i <= Len(undo) THEN old[i] ELSE now[i - Len(undo)]
        BY <4>1, <4>2, <4>3
      <4> QED
        BY <4>4 DEF old, now
    <3>4. /\ Values(full) \in Seq(Seq(Unit)) /\ Len(Values(full)) = Len(undo) + 1
          /\ \A i \in 1..(Len(undo) + 1) : Values(full)[i] = full[i].value
      BY <2>2, ValuesIs
    <3> HIDE DEF past
    <3>5. ASSUME NEW i \in 1..(Len(undo) + 1) PROVE Values(full)[i] = past[i]
      <4>1. i \in 1..Len(undo) \/ (i = Len(undo) + 1 /\ i - Len(undo) = 1 /\ ~(i <= Len(undo)))
        BY <1>0
      <4>2. CASE i \in 1..Len(undo)
        <5>1. i <= Len(undo)
          BY <1>0, <4>2
        <5> QED
          BY <2>2, <3>1, <3>3, <3>4, <4>2, <5>1
      <4>3. CASE i = Len(undo) + 1 /\ i - Len(undo) = 1 /\ ~(i <= Len(undo))
        BY <2>2, <3>2, <3>3, <3>4, <4>3
      <4> QED
        BY <4>1, <4>2, <4>3
    <3>6. \A i \in 1..Len(Values(full)) : Values(full)[i] = past[i]
      BY <3>4, <3>5
    <3> QED
      BY <3>3, <3>4, <3>6, SeqEqual
  <2>4. Values(Tail(full)) = Tail(past)
    <3>1. /\ Tail(full) \in Seq(Entries) /\ Len(Tail(full)) = Len(undo)
          /\ \A i \in 1..Len(undo) : Tail(full)[i] = full[i + 1]
      BY <1>0, <2>2, HeadTailProperties
    <3>2. /\ Values(Tail(full)) \in Seq(Seq(Unit)) /\ Len(Values(Tail(full))) = Len(undo)
          /\ \A i \in 1..Len(undo) : Values(Tail(full))[i] = full[i + 1].value
      BY <3>1, ValuesIs
    <3>3. /\ Values(full) \in Seq(Seq(Unit)) /\ Len(Values(full)) = Len(undo) + 1
          /\ \A i \in 1..(Len(undo) + 1) : Values(full)[i] = full[i].value
      BY <2>2, ValuesIs
    <3>4. Values(full) # <<>>
      BY <1>0, <3>3, EmptySeq
    <3>5. /\ Tail(Values(full)) \in Seq(Seq(Unit)) /\ Len(Tail(Values(full))) = Len(undo)
          /\ \A i \in 1..Len(undo) : Tail(Values(full))[i] = Values(full)[i + 1]
      BY <1>0, <3>3, <3>4, HeadTailProperties
    <3>6. \A i \in 1..Len(undo) : i + 1 \in 1..(Len(undo) + 1)
      BY <1>0
    <3>7. \A i \in 1..Len(Values(Tail(full))) : Values(Tail(full))[i] = Tail(Values(full))[i]
      BY <3>2, <3>3, <3>5, <3>6
    <3>8. Values(Tail(full)) = Tail(Values(full))
      BY <3>2, <3>5, <3>7, SeqEqual
    <3> QED
      BY <2>3, <3>8
  <2>5. more \in Seq(Entries) /\ more = IF Len(undo) = scenario.maxUndo THEN Tail(full) ELSE full
    BY RememberIs DEF full
  <2> HIDE DEF more, past
  <2>6. Values(more) = kept
    BY <2>3, <2>4, <2>5
  <2>7. Values(more) \in Seq(Seq(Unit)) /\ <<next>> \in Seq(Seq(Unit))
    <3>1. Values(more) \in Seq(Seq(Unit))
      BY <2>5, ValuesIs
    <3>2. <<next>> \in Seq(Seq(Unit))
      OBVIOUS
    <3> QED
      BY <3>1, <3>2
  <2>8. Timeline' = Values(more) \o <<next>>
    <3>1. Timeline' = Line(more, next, <<>>)
      BY <2>1, TimelineIsLine
    <3> DEFINE w == [i \in DOMAIN <<>> |-> <<>>[Len(<<>>) + 1 - i].value]
    <3>2. w = <<>>
      OBVIOUS
    <3>3. Line(more, next, <<>>) = (Values(more) \o <<next>>) \o w
      BY DEF Line, Values
    <3>4. Values(more) \o <<next>> \in Seq(Seq(Unit))
      BY <2>7, ConcatProperties
    <3> HIDE DEF w
    <3>5. (Values(more) \o <<next>>) \o <<>> = Values(more) \o <<next>>
      BY <3>4, ConcatEmptySeq
    <3> QED
      BY <3>1, <3>2, <3>3, <3>5
  <2>9. Before(Timeline', Len(kept)) = kept
    <3> HIDE DEF kept
    <3> DEFINE now == <<next>>
    <3> HIDE DEF now
    <3>1. kept \in Seq(Seq(Unit)) /\ now \in Seq(Seq(Unit)) /\ Timeline' = kept \o now
      BY <2>6, <2>7, <2>8 DEF now
    <3>2. Before(kept \o now, Len(kept)) = kept
      BY <3>1, BeforeConcat
    <3> QED
      BY <3>1, <3>2
  <2> QED
    BY <2>9 DEF past
<1> QED
  BY <1>2, <1>3

LEMMA SwapKeepsLine ==
  ASSUME EditorTypes, Undo \/ Redo
  PROVE  Timeline' = Timeline
<1>0. /\ undo \in Seq(Entries) /\ redo \in Seq(Entries) /\ text \in Seq(Unit)
      /\ Entry \in Entries /\ Entry.value = text
  BY EntryType DEF EditorTypes, Entry
<1>1. CASE Undo
  <2>1. /\ undo # <<>> /\ undo' = SubSeq(undo, 1, Len(undo) - 1)
        /\ redo' = Append(redo, Entry) /\ text' = undo[Len(undo)].value
    BY <1>1 DEF Undo, Pop, Kept
  <2>2. Line(undo', text', redo') = Line(undo, text, redo)
    BY <1>0, <2>1, LineShifts
  <2> QED
    BY <2>2, TimelineIsLine
<1>2. CASE Redo
  <2>1. /\ redo # <<>> /\ redo' = SubSeq(redo, 1, Len(redo) - 1)
        /\ undo' = Append(undo, Entry) /\ text' = redo[Len(redo)].value
    BY <1>2 DEF Redo, Pop, Kept
  <2>2. /\ undo' \in Seq(Entries) /\ redo' \in Seq(Entries) /\ text' \in Seq(Unit)
        /\ undo' # <<>> /\ SubSeq(undo', 1, Len(undo') - 1) = undo /\ undo'[Len(undo')].value = text
    <3>1. /\ undo' \in Seq(Entries) /\ undo' # <<>> /\ Len(undo') = Len(undo) + 1
          /\ \A i \in 1..Len(undo) : undo'[i] = undo[i]
          /\ undo'[Len(undo) + 1] = Entry
      BY <1>0, <2>1, AppendProperties
    <3>2. /\ SubSeq(undo', 1, Len(undo') - 1) \in Seq(Entries)
          /\ Len(SubSeq(undo', 1, Len(undo') - 1)) = Len(undo') - 1
          /\ \A i \in 1..(Len(undo') - 1) : SubSeq(undo', 1, Len(undo') - 1)[i] = undo'[i]
      BY <3>1, PopIs
    <3>3. Len(undo') - 1 = Len(undo)
      BY <1>0, <3>1
    <3>4. SubSeq(undo', 1, Len(undo') - 1) = undo
      BY <1>0, <3>1, <3>2, <3>3, SeqEqual
    <3>5. redo' \in Seq(Entries) /\ text' \in Seq(Unit)
      BY <1>0, <2>1, PopIs, EntriesHold
    <3> QED
      BY <1>0, <3>1, <3>4, <3>5
  <2>3. PICK e \in Entries : e = redo[Len(redo)] /\ e.value = text' /\ Append(redo', e) = redo
    <3>1. /\ redo[Len(redo)] \in Entries /\ Len(redo) \in 1..Len(redo)
          /\ redo' \in Seq(Entries) /\ Len(redo') = Len(redo) - 1
          /\ \A i \in 1..(Len(redo) - 1) : redo'[i] = redo[i]
      BY <1>0, <2>1, PopIs
    <3> DEFINE e == redo[Len(redo)]
               f == Append(redo', e)
    <3>2. /\ f \in Seq(Entries) /\ Len(f) = Len(redo') + 1
          /\ \A i \in 1..Len(redo') : f[i] = redo'[i]
          /\ f[Len(redo') + 1] = e
      BY <3>1, AppendProperties
    <3> HIDE DEF f
    <3>3. ASSUME NEW i \in 1..Len(f) PROVE f[i] = redo[i]
      <4>1. i \in 1..(Len(redo) - 1) \/ i = Len(redo)
        BY <1>0, <3>1, <3>2
      <4>2. CASE i \in 1..(Len(redo) - 1)
        BY <3>1, <3>2, <4>2
      <4>3. CASE i = Len(redo)
        <5>1. Len(redo') + 1 = Len(redo)
          BY <1>0, <3>1
        <5> QED
          BY <3>2, <4>3, <5>1
      <4> QED
        BY <4>1, <4>2, <4>3
    <3>4. Len(f) = Len(redo)
      BY <1>0, <3>1, <3>2
    <3>5. f = redo
      BY <1>0, <3>2, <3>3, <3>4, SeqEqual
    <3> QED
      BY <2>1, <3>1, <3>5 DEF f
  <2>4. Line(undo, text, redo) = Line(undo', text', redo')
    <3>1. Line(SubSeq(undo', 1, Len(undo') - 1), undo'[Len(undo')].value, Append(redo', e))
            = Line(undo', text', redo')
      BY <2>2, <2>3, LineShifts
    <3> QED
      BY <2>2, <2>3, <3>1
  <2> QED
    BY <2>4, TimelineIsLine
<1> QED
  BY <1>1, <1>2

(* No key makes a text unreachable that undo led to (NothingUndoneIsLost).  *)
THEOREM TextAreaNothingUndoneIsLost == EditorSpec => NothingUndoneIsLost
<1> DEFINE past == Values(undo) \o <<text>>
           kept == IF Len(undo) = scenario.maxUndo THEN Tail(past) ELSE past
           Held == ByKey => Timeline' = Timeline \/ Before(Timeline', Len(kept)) = kept
<1>1. EditorTypes /\ [EditorNext]_editorVars => Held
  <2> SUFFICES ASSUME EditorTypes, [EditorNext]_editorVars, ByKey
               PROVE  Timeline' = Timeline \/ Before(Timeline', Len(kept)) = kept
    OBVIOUS
  <2>1. CASE Edit
    BY <2>1, EditKeepsLine
  <2>2. CASE Move
    <3>1. PICK at \in Int : MoveTo(at)
      BY <2>2, MoveIsMoveTo
    <3> QED
      BY <3>1, TimelineIsLine DEF MoveTo
  <2>3. CASE Undo \/ Redo
    BY <2>3, SwapKeepsLine
  <2>4. CASE UNCHANGED editorVars
    BY <2>4, TimelineIsLine DEF editorVars
  <2> QED
    BY <2>1, <2>2, <2>3, <2>4, KeysOnly
<1>2. EditorTypes /\ [EditorNext]_editorVars => [Held]_editorVars
  BY <1>1
<1> QED
  BY <1>2, EditorTypesAlways, PTL DEF EditorSpec, NothingUndoneIsLost

(* No key splits a character or leaves the cursor in one                    *)
(* (KeysKeepGraphemes).                                                     *)
THEOREM TextAreaKeysKeepGraphemes == EditorSpec => KeysKeepGraphemes
<1> DEFINE Whole == /\ ByKey /\ cursor \in Stops(text)
                    /\ \A i \in DOMAIN Timeline : WellFormed(Timeline[i])
           Held == Whole => WellFormed(text') /\ cursor' \in Stops(text')
<1>1. EditorTypes /\ [EditorNext]_editorVars => Held
  <2> SUFFICES ASSUME EditorTypes, [EditorNext]_editorVars, Whole
               PROVE  WellFormed(text') /\ cursor' \in Stops(text')
    OBVIOUS
  <2>1. /\ undo \in Seq(Entries) /\ redo \in Seq(Entries) /\ text \in Seq(Unit)
        /\ Len(undo) \in Nat /\ Len(redo) \in Nat
    BY DEF EditorTypes
  <2>2. ASSUME NEW i \in 1..(Len(undo) + 1 + Len(redo)) PROVE WellFormed(Timeline[i])
    <3> DEFINE whole == Line(undo, text, redo)
    <3>0. whole \in Seq(Seq(Unit)) /\ Len(whole) = Len(undo) + 1 + Len(redo)
      BY <2>1, LineIs
    <3> HIDE DEF whole
    <3>1. Timeline \in Seq(Seq(Unit)) /\ Len(Timeline) = Len(undo) + 1 + Len(redo)
      BY <3>0, TimelineIsLine DEF whole
    <3>2. i \in DOMAIN Timeline
      BY <3>1, LenProperties
    <3> QED
      BY <3>2
  <2>3. WellFormed(text)
    <3>1. Len(undo) + 1 \in 1..(Len(undo) + 1 + Len(redo))
      BY <2>1
    <3>2. Line(undo, text, redo)[Len(undo) + 1] = text
      BY <2>1, OnLine
    <3>3. Timeline[Len(undo) + 1] = text
      BY <3>2, TimelineIsLine, Zenon
    <3> QED
      BY <2>2, <3>1, <3>3
  <2>4. CASE Edit
    <3>1. PICK next \in Seq(Unit), at \in Int : EditsTo(next, at)
      BY <2>4, EditIsCommit
    <3>2. text' = next /\ cursor' = SnapPos(next, at) /\ WellFormed(next)
      BY <2>3, <3>1 DEF EditsTo, Commit
    <3> QED
      BY <3>1, <3>2, SnapPosIs
  <2>5. CASE Move
    <3>1. PICK at \in Int : MoveTo(at)
      BY <2>5, MoveIsMoveTo
    <3>2. text' = text /\ cursor' = SnapPos(text, at)
      BY <3>1 DEF MoveTo
    <3> QED
      BY <2>1, <2>3, <3>1, <3>2, SnapPosIs
  <2>6. ASSUME NEW from \in Seq(Entries), from # <<>>, Pop(from),
               WellFormed(from[Len(from)].value)
        PROVE  WellFormed(text') /\ cursor' \in Stops(text')
    <3>1. from[Len(from)].value \in Seq(Unit) /\ from[Len(from)].cursor \in Int
      BY <2>6, PopIs, EntriesHold
    <3>2. /\ text' = from[Len(from)].value
          /\ cursor' = SnapPos(from[Len(from)].value, from[Len(from)].cursor)
      BY <2>6 DEF Pop
    <3> QED
      BY <2>6, <3>1, <3>2, SnapPosIs
  <2>7. CASE Undo
    <3>1. undo # <<>> /\ Pop(undo)
      BY <2>7 DEF Undo
    <3>2. Len(undo) \in 1..(Len(undo) + 1 + Len(redo)) /\ Len(undo) <= Len(undo)
      BY <2>1, <3>1, PopIs
    <3>3. Timeline[Len(undo)] = undo[Len(undo)].value
      BY <2>1, <3>2, LineIs, TimelineIsLine
    <3> QED
      BY <2>1, <2>2, <2>6, <3>1, <3>2, <3>3
  <2>8. CASE Redo
    <3>1. redo # <<>> /\ Pop(redo)
      BY <2>8 DEF Redo
    <3> DEFINE i == Len(undo) + 2
    <3>2. Len(redo) \in 1..Len(redo)
      BY <2>1, <3>1, PopIs
    <3>3. /\ i \in 1..(Len(undo) + 1 + Len(redo)) /\ i > Len(undo) + 1
          /\ Len(undo) + 2 + Len(redo) - i = Len(redo)
      BY <2>1, <3>2
    <3> HIDE DEF i
    <3>4. Timeline[i] = redo[Len(redo)].value
      <4>1. Line(undo, text, redo)[i] = redo[Len(undo) + 2 + Len(redo) - i].value
        BY <2>1, <3>3, LineIs
      <4> QED
        BY <3>3, <4>1, TimelineIsLine
    <3> QED
      BY <2>1, <2>2, <2>6, <3>1, <3>3, <3>4
  <2>9. CASE UNCHANGED editorVars
    BY <2>3, <2>9 DEF editorVars
  <2> QED
    BY <2>4, <2>5, <2>7, <2>8, <2>9, KeysOnly
<1>2. EditorTypes /\ [EditorNext]_editorVars => [Held]_editorVars
  BY <1>1
<1> QED
  BY <1>2, EditorTypesAlways, PTL DEF EditorSpec, KeysKeepGraphemes

-----------------------------------------------------------------------------
(* Rows and columns *)

Newlines(s, p) == {i \in 1..p : s[i] = "nl"}

LEMMA NewlinesFinite ==
  ASSUME NEW s, NEW p \in Nat
  PROVE  IsFiniteSet(Newlines(s, p)) /\ Row(s, p) = Cardinality(Newlines(s, p)) /\ Row(s, p) \in Nat
<1>1. IsFiniteSet(1..p)
  BY FS_Interval
<1>2. Newlines(s, p) \in SUBSET (1..p)
  BY DEF Newlines
<1>3. IsFiniteSet(Newlines(s, p))
  BY <1>1, <1>2, FS_Subset
<1>4. Row(s, p) = Cardinality(Newlines(s, p))
  BY DEF Row, Newlines
<1> QED
  BY <1>3, <1>4, FS_CardinalityType

LEMMA RowStep ==
  ASSUME NEW s, NEW p \in Nat, s[p + 1] = "nl"
  PROVE  Row(s, p + 1) = Row(s, p) + 1
<1>1. Newlines(s, p + 1) = Newlines(s, p) \union {p + 1} /\ p + 1 \notin Newlines(s, p)
  BY DEF Newlines
<1>2. IsFiniteSet(Newlines(s, p)) /\ p + 1 \in Nat
  BY NewlinesFinite
<1>3. Cardinality(Newlines(s, p + 1)) = Cardinality(Newlines(s, p)) + 1
  BY <1>1, <1>2, FS_AddElement
<1> QED
  BY <1>2, <1>3, NewlinesFinite

LEMMA RowGrows ==
  ASSUME NEW s, NEW p \in Nat, NEW q \in Nat, p <= q
  PROVE  Row(s, p) <= Row(s, q)
<1>1. Newlines(s, p) \in SUBSET Newlines(s, q)
  BY DEF Newlines
<1>2. Cardinality(Newlines(s, p)) <= Cardinality(Newlines(s, q))
  BY <1>1, NewlinesFinite, FS_Subset
<1> QED
  BY <1>2, NewlinesFinite

LEMMA RowStays ==
  ASSUME NEW s, NEW p \in Nat, NEW q \in Nat, p <= q, \A i \in (p + 1)..q : s[i] # "nl"
  PROVE  Row(s, p) = Row(s, q)
<1>1. \A i \in 1..q : s[i] = "nl" => i \in 1..p
  OBVIOUS
<1>2. Newlines(s, p) = Newlines(s, q)
  BY <1>1 DEF Newlines
<1> QED
  BY <1>2, NewlinesFinite

LEMMA RowPasses ==
  ASSUME NEW s, NEW p \in Nat, NEW q \in Nat, NEW i \in (p + 1)..q, s[i] = "nl"
  PROVE  Row(s, p) < Row(s, q)
<1>1. i - 1 \in Nat /\ i \in Nat /\ p <= i - 1 /\ i <= q /\ (i - 1) + 1 = i
  OBVIOUS
<1>2. Row(s, i) = Row(s, i - 1) + 1
  BY <1>1, RowStep
<1>3. Row(s, p) <= Row(s, i - 1) /\ Row(s, i) <= Row(s, q)
  BY <1>1, RowGrows
<1>4. Row(s, p) \in Nat /\ Row(s, i - 1) \in Nat /\ Row(s, i) \in Nat /\ Row(s, q) \in Nat
  BY <1>1, NewlinesFinite
<1> QED
  BY <1>2, <1>3, <1>4

(* The positions a to b are a line. *)
Spans(s, a, b) ==
  /\ a \in 0..Len(s) /\ b \in a..Len(s)
  /\ a = 0 \/ s[a] = "nl"
  /\ b = Len(s) \/ s[b + 1] = "nl"
  /\ \A i \in (a + 1)..b : s[i] # "nl"

LEMMA SpanIsRow ==
  ASSUME NEW S, NEW s \in Seq(S), NEW a, NEW b, Spans(s, a, b), NEW p \in a..b
  PROVE  /\ InRow(s, Row(s, p)) = a..b
         /\ Min(InRow(s, Row(s, p))) = a /\ Max(InRow(s, Row(s, p))) = b
         /\ Column(s, p) = p - a
<1>1. /\ Len(s) \in Nat /\ a \in Nat /\ b \in Nat /\ p \in Nat /\ a <= p /\ p <= b /\ b <= Len(s)
      /\ a = 0 \/ s[a] = "nl"
      /\ b = Len(s) \/ s[b + 1] = "nl"
      /\ \A i \in (a + 1)..b : s[i] # "nl"
  BY LenProperties DEF Spans
<1>2. ASSUME NEW q \in 0..Len(s) PROVE Row(s, q) = Row(s, p) <=> q \in a..b
  <2>0. q \in Nat /\ Row(s, q) \in Nat /\ Row(s, p) \in Nat
    BY <1>1, NewlinesFinite
  <2>1. CASE q < a
    <3>1. a \in (q + 1)..p /\ s[a] = "nl"
      BY <1>1, <2>0, <2>1
    <3>2. Row(s, q) < Row(s, p)
      BY <1>1, <2>0, <3>1, RowPasses
    <3> QED
      BY <1>1, <2>0, <2>1, <3>2
  <2>2. CASE q > b
    <3>1. b + 1 \in (p + 1)..q /\ s[b + 1] = "nl"
      BY <1>1, <2>0, <2>2
    <3>2. Row(s, p) < Row(s, q)
      BY <1>1, <2>0, <3>1, RowPasses
    <3> QED
      BY <1>1, <2>0, <2>2, <3>2
  <2>3. CASE q \in a..b
    <3>1. CASE q <= p
      <4>1. \A i \in (q + 1)..p : s[i] # "nl"
        BY <1>1, <2>0, <2>3
      <4> QED
        BY <1>1, <2>0, <2>3, <3>1, <4>1, RowStays
    <3>2. CASE p <= q
      <4>1. \A i \in (p + 1)..q : s[i] # "nl"
        BY <1>1, <2>0, <2>3
      <4> QED
        BY <1>1, <2>0, <2>3, <3>2, <4>1, RowStays
    <3> QED
      BY <1>1, <2>0, <3>1, <3>2
  <2> QED
    BY <1>1, <2>0, <2>1, <2>2, <2>3
<1>3. a..b \subseteq 0..Len(s)
  BY <1>1
<1>4. InRow(s, Row(s, p)) = a..b
  BY <1>2, <1>3 DEF InRow
<1>5. a..b # {} /\ a..b \subseteq Nat /\ a..b \subseteq 0..Len(s) /\ a \in a..b /\ b \in a..b
  BY <1>1
<1>6. Min(a..b) = a
  <2>1. Min(a..b) \in a..b /\ \A y \in a..b : Min(a..b) <= y
    BY <1>5, MinOf
  <2> QED
    BY <1>1, <1>5, <2>1
<1>7. Max(a..b) = b
  <2>1. Max(a..b) \in a..b /\ \A y \in a..b : y <= Max(a..b)
    BY <1>1, <1>5, MaxOf
  <2> QED
    BY <1>1, <1>5, <2>1
<1>8. Column(s, p) = p - a
  BY <1>4, <1>6 DEF Column
<1> QED
  BY <1>4, <1>6, <1>7, <1>8

LEMMA BesideIs ==
  ASSUME NEW S, NEW s \in Seq(S), NEW a, NEW b, Spans(s, a, b), NEW p \in a..b,
         NEW c, NEW d, Spans(s, c, d), NEW o \in c..d
  PROVE  Beside(s, p, Row(s, o)) = SnapPos(s, c + Min({p - a, d - c}))
<1>1. /\ Len(s) \in Nat /\ a \in Nat /\ p \in Nat /\ a <= p
      /\ c \in Nat /\ d \in Nat /\ c <= d /\ d <= Len(s)
  BY LenProperties DEF Spans
<1> DEFINE m == IF p - a <= d - c THEN p - a ELSE d - c
           T == {q \in InRow(s, Row(s, o)) : Column(s, q) <= Column(s, p)}
           U == {q \in c..d : q - c <= p - a}
<1>2. Min({p - a, d - c}) = m
  BY <1>1, MinOfTwo
<1>3. T = U
  <2>1. InRow(s, Row(s, o)) = c..d /\ Column(s, p) = p - a
    BY SpanIsRow
  <2>2. \A q \in c..d : Column(s, q) = q - c
    BY SpanIsRow
  <2> QED
    BY <2>1, <2>2
<1>4. c + m \in U /\ \A q \in U : q <= c + m
  BY <1>1
<1>5. Max(U) = c + m
  <2>1. U \subseteq 0..Len(s) /\ U # {}
    <3>1. c..d \subseteq 0..Len(s)
      BY <1>1
    <3>2. U # {}
      <4> HIDE DEF U, m
      <4> QED
        BY <1>4
    <3> QED
      BY <3>1, <3>2
  <2>2. Max(U) \in U /\ \A q \in U : q <= Max(U)
    BY <1>1, <2>1, MaxOf
  <2>3. Max(U) \in Nat /\ c + m \in Nat
    BY <1>1, <1>4, <2>1, <2>2
  <2> HIDE DEF U, m
  <2> QED
    BY <1>4, <2>2, <2>3
<1> HIDE DEF T, U, m
<1> QED
  BY <1>2, <1>3, <1>5 DEF Beside, T

(* The line of a position that is not before an empty first line. *)
LEMMA LineOf ==
  ASSUME NEW S, NEW s \in Seq(S), NEW p \in 0..Len(s), p # 0 \/ Len(s) = 0 \/ s[1] # "nl"
  PROVE  /\ Spans(s, LineStartBefore(s, p), LineEndAt(s, p))
         /\ p \in LineStartBefore(s, p)..LineEndAt(s, p)
<1> DEFINE a == LineStartBefore(s, p)
           b == LineEndAt(s, p)
           m == IF 1 >= p THEN 1 ELSE p
<1>1. Len(s) \in Nat /\ p \in Nat /\ p \in Int
  OBVIOUS
<1>2. /\ a \in 0..Len(s) /\ a <= m
      /\ a = 0 \/ s[a] = "nl"
      /\ \A i \in 1..Len(s) : i <= m /\ s[i] = "nl" => i <= a
  BY <1>1, LineStartIs
<1>3. /\ b \in 0..Len(s)
      /\ b # Len(s) => p <= b /\ s[b + 1] = "nl"
      /\ \A i \in 1..Len(s) : p < i /\ s[i] = "nl" => b < i
  BY <1>1, LineEndIs
<1> HIDE DEF a, b
<1>4. a <= p
  <2>1. CASE p = 0
    <3>1. a = 0 \/ a = 1
      BY <1>1, <1>2, <2>1
    <3>2. a # 1
      BY <1>1, <1>2, <2>1
    <3> QED
      BY <2>1, <3>1, <3>2
  <2>2. CASE p # 0
    BY <1>1, <1>2, <2>2
  <2> QED
    BY <2>1, <2>2
<1>5. p <= b
  BY <1>1, <1>3
<1>6. ASSUME NEW i \in (a + 1)..b PROVE s[i] # "nl"
  <2>1. i \in 1..Len(s)
    BY <1>1, <1>2, <1>3
  <2>2. CASE i <= p
    BY <1>1, <1>2, <2>1, <2>2
  <2>3. CASE p < i
    BY <1>1, <1>3, <2>1, <2>3
  <2> QED
    BY <1>1, <2>1, <2>2, <2>3
<1>7. b \in a..Len(s) /\ p \in a..b
  BY <1>1, <1>2, <1>3, <1>4, <1>5
<1>8. Spans(s, a, b)
  BY <1>2, <1>3, <1>6, <1>7 DEF Spans
<1> QED
  BY <1>7, <1>8 DEF a, b

LEMMA LineEndsAreStops ==
  ASSUME NEW S, NEW s \in Seq(S), NEW a, NEW b, Spans(s, a, b)
  PROVE  a \in Stops(s) /\ b \in Stops(s) /\ a \in Int /\ b \in Int
<1>1. /\ Len(s) \in Nat /\ a \in 0..Len(s) /\ b \in 0..Len(s)
      /\ a = 0 \/ s[a] = "nl"
      /\ b = Len(s) \/ s[b + 1] = "nl"
  BY LenProperties DEF Spans
<1>2. a \in Stops(s)
  BY <1>1 DEF Stops
<1>3. b \in Stops(s)
  BY <1>1 DEF Stops
<1> QED
  BY <1>1, <1>2, <1>3

LEMMA RowsEnd ==
  ASSUME NEW S, NEW s \in Seq(S), NEW a, NEW b, Spans(s, a, b), NEW p \in a..b
  PROVE  /\ Row(s, p) = 0 <=> a = 0
         /\ Row(s, p) = Row(s, Len(s)) <=> b = Len(s)
         /\ a # 0 => a - 1 \in Nat /\ Row(s, a - 1) = Row(s, p) - 1
         /\ b # Len(s) => b + 1 \in 0..Len(s) /\ Row(s, b + 1) = Row(s, p) + 1
<1>1. /\ Len(s) \in Nat /\ a \in Nat /\ b \in Nat /\ p \in Nat /\ a <= p /\ p <= b /\ b <= Len(s)
      /\ a = 0 \/ s[a] = "nl"
      /\ b = Len(s) \/ s[b + 1] = "nl"
      /\ \A i \in (a + 1)..b : s[i] # "nl"
  BY LenProperties DEF Spans
<1>2. Row(s, a) = Row(s, p) /\ Row(s, b) = Row(s, p)
  <2>1. (\A i \in (a + 1)..p : s[i] # "nl") /\ (\A i \in (p + 1)..b : s[i] # "nl")
    BY <1>1
  <2> QED
    BY <1>1, <2>1, RowStays
<1>3. a = 0 => Row(s, p) = 0
  <2>1. Newlines(s, 0) = {}
    BY DEF Newlines
  <2>2. Row(s, 0) = 0
    BY <2>1, NewlinesFinite, FS_EmptySet
  <2> QED
    BY <1>2, <2>2
<1>4. a # 0 => a - 1 \in Nat /\ Row(s, a - 1) \in Nat /\ Row(s, p) = Row(s, a - 1) + 1
  <2> SUFFICES ASSUME a # 0
               PROVE  a - 1 \in Nat /\ Row(s, a - 1) \in Nat /\ Row(s, p) = Row(s, a - 1) + 1
    OBVIOUS
  <2>1. a - 1 \in Nat /\ (a - 1) + 1 = a
    BY <1>1
  <2>2. Row(s, a) = Row(s, a - 1) + 1
    BY <1>1, <2>1, RowStep
  <2> QED
    BY <1>2, <2>1, <2>2, NewlinesFinite
<1>5. b # Len(s) => b + 1 \in 0..Len(s) /\ Row(s, b + 1) = Row(s, p) + 1
  <2> SUFFICES ASSUME b # Len(s) PROVE b + 1 \in 0..Len(s) /\ Row(s, b + 1) = Row(s, p) + 1
    OBVIOUS
  <2>1. Row(s, b + 1) = Row(s, b) + 1
    BY <1>1, RowStep
  <2> QED
    BY <1>1, <1>2, <2>1
<1>6. b # Len(s) => Row(s, p) < Row(s, Len(s))
  <2> SUFFICES ASSUME b # Len(s) PROVE Row(s, p) < Row(s, Len(s))
    OBVIOUS
  <2>1. b + 1 \in (p + 1)..Len(s) /\ s[b + 1] = "nl"
    BY <1>1
  <2> QED
    BY <1>1, <2>1, RowPasses
<1>7. Row(s, p) \in Nat /\ Row(s, Len(s)) \in Nat
  BY <1>1, NewlinesFinite
<1> QED
  BY <1>2, <1>3, <1>4, <1>5, <1>6, <1>7

(* The premise of LineKeys: a position in the text s that is not before an *)
(* empty first line.                                                       *)
Placed(s, p) == p \in Stops(s) /\ ~(p = 0 /\ s # <<>> /\ s[1] = "nl")

LEMMA PlacedLine ==
  ASSUME NEW S, NEW s \in Seq(S), NEW p, Placed(s, p)
  PROVE  /\ Len(s) \in Nat /\ p \in 0..Len(s) /\ SnapPos(s, p) = p
         /\ Spans(s, LineStartBefore(s, p), LineEndAt(s, p))
         /\ p \in LineStartBefore(s, p)..LineEndAt(s, p)
<1>1. Len(s) \in Nat /\ p \in 0..Len(s) /\ p \in Stops(s) /\ p \in Int
  BY StopsAre DEF Placed
<1>2. Len(s) = 0 <=> s = <<>>
  BY EmptySeq
<1>3. p # 0 \/ Len(s) = 0 \/ s[1] # "nl"
  BY <1>2 DEF Placed
<1> QED
  BY <1>1, <1>3, LineOf, SnapPosIs

LEMMA UpIs ==
  ASSUME NEW S, NEW s \in Seq(S), NEW p, Placed(s, p)
  PROVE  SnapPos(s, MoveUp(s, p)) = IF Row(s, p) = 0 THEN p ELSE Beside(s, p, Row(s, p) - 1)
<1> DEFINE a == LineStartBefore(s, p)
           b == LineEndAt(s, p)
           o == a - 1
           c == LineStartBefore(s, o)
           start == IF o = 0 /\ s[1] = "nl" THEN 0 ELSE c
           up == c + Min({p - a, o - c})
<1>1. Len(s) \in Nat /\ p \in 0..Len(s) /\ SnapPos(s, p) = p /\ Spans(s, a, b) /\ p \in a..b
  BY PlacedLine
<1>2. MoveUp(s, p) = IF a = 0 THEN p ELSE up
  BY DEF MoveUp
<1> HIDE DEF a, b
<1>3. Row(s, p) = 0 <=> a = 0
  BY <1>1, RowsEnd
<1>4. CASE a = 0
  BY <1>1, <1>2, <1>3, <1>4
<1>5. CASE a # 0
  <2>1. a \in 1..Len(s) /\ o \in 0..Len(s) /\ o + 1 = a /\ s[a] = "nl" /\ p \in Int /\ a <= p
    BY <1>1, <1>5 DEF Spans
  <2>2. Row(s, o) = Row(s, p) - 1
    BY <1>1, <1>5, RowsEnd
  <2> HIDE DEF o
  <2>3. Spans(s, start, o) /\ c + Min({p - a, o - c}) = start + Min({p - a, o - start})
    <3>1. CASE o = 0 /\ s[1] = "nl"
      <4>1. Spans(s, 0, o)
        BY <1>1, <2>1, <3>1 DEF Spans
      <4>2. c \in 0..Len(s) /\ c <= 1 /\ 1 <= c
        BY <1>1, <2>1, <3>1, LineStartIs
      <4>3. c = 1 /\ a = 1
        BY <1>1, <2>1, <3>1, <4>2
      <4>4. Min({p - a, o - c}) = 0 - 1 /\ Min({p - a, o - 0}) = 0
        BY <2>1, <3>1, <4>3, MinOfTwo
      <4> QED
        BY <3>1, <4>1, <4>3, <4>4
    <3>2. CASE ~(o = 0 /\ s[1] = "nl")
      <4>1. Spans(s, c, LineEndAt(s, o)) /\ o \in c..LineEndAt(s, o)
        BY <2>1, <3>2, LineOf
      <4>2. /\ c \in 0..Len(s) /\ o \in c..Len(s)
            /\ c = 0 \/ s[c] = "nl"
            /\ \A i \in (c + 1)..o : s[i] # "nl"
        BY <1>1, <2>1, <4>1 DEF Spans
      <4>3. Spans(s, c, o)
        BY <2>1, <4>2 DEF Spans
      <4> QED
        BY <3>2, <4>3
    <3> QED
      BY <3>1, <3>2
  <2> HIDE DEF c, start
  <2>4. o \in start..o
    BY <2>1, <2>3 DEF Spans
  <2>5. Beside(s, p, Row(s, o)) = SnapPos(s, start + Min({p - a, o - start}))
    BY <1>1, <2>3, <2>4, BesideIs
  <2>6. SnapPos(s, MoveUp(s, p)) = Beside(s, p, Row(s, o))
    BY <1>2, <1>5, <2>3, <2>5
  <2> QED
    BY <1>3, <1>5, <2>2, <2>6
<1> QED
  BY <1>4, <1>5

LEMMA DownIs ==
  ASSUME NEW S, NEW s \in Seq(S), NEW p, Placed(s, p)
  PROVE  SnapPos(s, MoveDown(s, p))
           = IF Row(s, p) = Row(s, Len(s)) THEN p ELSE Beside(s, p, Row(s, p) + 1)
<1> DEFINE a == LineStartBefore(s, p)
           b == LineEndAt(s, p)
           c == b + 1
           d == LineEndAt(s, c)
           down == c + Min({p - a, d - c})
<1>1. Len(s) \in Nat /\ p \in 0..Len(s) /\ SnapPos(s, p) = p /\ Spans(s, a, b) /\ p \in a..b
  BY PlacedLine
<1>2. MoveDown(s, p) = IF b = Len(s) THEN p ELSE down
  BY DEF MoveDown
<1> HIDE DEF a, b
<1>3. Row(s, p) = Row(s, Len(s)) <=> b = Len(s)
  BY <1>1, RowsEnd
<1>4. CASE b = Len(s)
  BY <1>1, <1>2, <1>3, <1>4
<1>5. CASE b # Len(s)
  <2>1. c \in 0..Len(s) /\ c # 0 /\ s[c] = "nl" /\ Row(s, c) = Row(s, p) + 1
    <3>1. c \in 0..Len(s) /\ Row(s, c) = Row(s, p) + 1
      BY <1>1, <1>5, RowsEnd
    <3>2. b \in Nat /\ s[b + 1] = "nl"
      BY <1>1, <1>5 DEF Spans
    <3> QED
      BY <3>1, <3>2
  <2> HIDE DEF c
  <2>2. Spans(s, LineStartBefore(s, c), d) /\ c \in LineStartBefore(s, c)..d
    BY <2>1, LineOf
  <2> HIDE DEF d
  <2>3. Spans(s, c, d) /\ c \in c..d
    <3>1. /\ c \in Nat /\ d \in c..Len(s)
          /\ d = Len(s) \/ s[d + 1] = "nl"
          /\ \A i \in (c + 1)..d : s[i] # "nl"
      BY <1>1, <2>1, <2>2 DEF Spans
    <3> QED
      BY <1>1, <2>1, <3>1 DEF Spans
  <2>4. Beside(s, p, Row(s, c)) = SnapPos(s, c + Min({p - a, d - c}))
    BY <1>1, <2>3, BesideIs
  <2> QED
    BY <1>2, <1>3, <1>5, <2>1, <2>4
<1> QED
  BY <1>4, <1>5

(* The line keys land where rows and columns say (LineKeys).                *)
THEOREM TextAreaLineKeys == EditorSpec => LineKeys
<1> DEFINE r == Row(text, cursor)
           rows == Row(text, Len(text))
           Held == ~(cursor = 0 /\ text # <<>> /\ text[1] = "nl") /\ cursor \in Stops(text) =>
                     /\ UpArrow => cursor' = IF r = 0 THEN cursor ELSE Beside(text, cursor, r - 1)
                     /\ DownArrow => cursor' = IF r = rows THEN cursor ELSE Beside(text, cursor, r + 1)
                     /\ LineStart => cursor' = Min(InRow(text, r))
                     /\ LineEnd => cursor' = Max(InRow(text, r))
<1>1. EditorTypes => Held
  <2> SUFFICES ASSUME EditorTypes, Placed(text, cursor)
               PROVE  /\ UpArrow => cursor' = IF r = 0 THEN cursor ELSE Beside(text, cursor, r - 1)
                      /\ DownArrow => cursor' = IF r = rows THEN cursor ELSE Beside(text, cursor, r + 1)
                      /\ LineStart => cursor' = Min(InRow(text, r))
                      /\ LineEnd => cursor' = Max(InRow(text, r))
    BY DEF Placed
  <2> DEFINE a == LineStartBefore(text, cursor)
             b == LineEndAt(text, cursor)
  <2>1. text \in Seq(Unit) /\ Spans(text, a, b) /\ cursor \in a..b
    BY PlacedLine DEF EditorTypes
  <2> HIDE DEF a, b
  <2>2. Min(InRow(text, r)) = a /\ Max(InRow(text, r)) = b
    BY <2>1, SpanIsRow
  <2>3. SnapPos(text, a) = a /\ SnapPos(text, b) = b
    BY <2>1, LineEndsAreStops, SnapPosIs
  <2>4. LineStart => cursor' = Min(InRow(text, r))
    BY <2>2, <2>3 DEF LineStart, MoveTo, a
  <2>5. LineEnd => cursor' = Max(InRow(text, r))
    BY <2>2, <2>3 DEF LineEnd, MoveTo, b
  <2>6. UpArrow => cursor' = IF r = 0 THEN cursor ELSE Beside(text, cursor, r - 1)
    BY <2>1, UpIs DEF UpArrow, MoveTo
  <2>7. DownArrow => cursor' = IF r = rows THEN cursor ELSE Beside(text, cursor, r + 1)
    BY <2>1, DownIs DEF DownArrow, MoveTo
  <2> QED
    BY <2>4, <2>5, <2>6, <2>7
<1>2. EditorTypes /\ [EditorNext]_editorVars => [Held]_editorVars
  BY <1>1
<1> QED
  BY <1>2, EditorTypesAlways, PTL DEF EditorSpec, LineKeys

=============================================================================
