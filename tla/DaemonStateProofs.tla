------------------------- MODULE DaemonStateProofs -------------------------
(***************************************************************************)
(* Proofs about DaemonState, for any threads, any number of syncs under    *)
(* way and any bounds, in two parts.                                       *)
(*                                                                         *)
(* First, with all handlers interleaving: a cursor is always at a message  *)
(* somebody kept, the total always agrees with the threads, and a line of  *)
(* a pane inbox is lost in two ways only.  The invariant says of every     *)
(* handler under way what the state.json it will write, or the cursors it  *)
(* has read, may hold, and of a drain what it has read and taken away.     *)
(*                                                                         *)
(* Second, when the writers of state.json do not overlap, but for the two  *)
(* syncs of a connection (~Overlap, which nothing in the code sees to):    *)
(* nothing unread is passed over, the counts agree with the relay's, and   *)
(* cursors only advance, over cuts, crashes and failing requests.  The     *)
(* invariant adds which handlers can be under way together, and what each  *)
(* of them has established about the relay, which does not change under    *)
(* its hands.                                                              *)
(***************************************************************************)
EXTENDS DaemonState, FiniteSetTheorems, SequenceTheorems, TLAPS

USE DaemonStateAssumption

(* The positions a thread's cursor may be at. *)
KeptAt(t) == {0} \union {s \in InThread(t) : s \in stored \/ messages[s].mine}

Kept == [t \in Thread |-> KeptAt(t)]
At == [t \in Thread |-> InThread(t)]
Seqs == DOMAIN messages

(* What may be written to state.json, when cursors may be at k. *)
GoodCursors(c, k) == c \in [Thread -> Nat] /\ \A t \in Thread : c[t] \in k[t]

GoodFile(f, k) == GoodCursors(f.lastSeen, k) /\ f.unreadCount = Total(f.threads)

GoodWrite(r, k) == r = Writing(r.next) /\ GoodFile(r.next, k)

(* What handleIncoming of message m has established, when n are the        *)
(* messages sent and d those kept.                                         *)
GoodRoute(m, r, k, n, d) ==
  \/ r = NoTask
  \/ r = [pc |-> "append", paneOpen |-> r.paneOpen] /\ m \in n
  \/ r = [pc |-> "update", paneOpen |-> r.paneOpen] /\ m \in d
  \/ GoodWrite(r, k)

(* A sync's new cursors are at messages that are kept or still to be       *)
(* appended.                                                               *)
GoodLoad(r, k, a, n) ==
  /\ DOMAIN r = {"pc", "loaded", "list", "since", "backfill", "todo"}
  /\ r.pc = "load"
  /\ "state" \in r.loaded => GoodCursors(r.since, k)
  /\ r.todo \subseteq n
  /\ \A t \in Thread \intersect DOMAIN r.backfill :
       r.backfill[t] \in k[t] \union (r.todo \intersect a[t])

GoodSync(r, k, a, n) == r = NoTask \/ GoodLoad(r, k, a, n) \/ GoodWrite(r, k)

GoodAck(r, k) == r = NoTask \/ r = [pc |-> "mark"] \/ r = [pc |-> "update"] \/ GoodWrite(r, k)

(* The inductive invariant. *)
MessagesGood ==
  /\ messages \in Seq(Message)
  /\ pushes \subseteq Seqs
  /\ stored \subseteq Seqs

RoutingGood ==
  /\ DOMAIN routing = Seq1
  /\ \A m \in Seq1 : GoodRoute(m, routing[m], Kept, Seqs, stored)

SyncingGood ==
  /\ DOMAIN syncing = SyncTask
  /\ \A i \in SyncTask : GoodSync(syncing[i], Kept, At, Seqs)

AckingGood ==
  /\ DOMAIN acking = Thread
  /\ \A t \in Thread : GoodAck(acking[t], Kept)

FilesInv ==
  /\ MessagesGood
  /\ GoodFile(file, Kept)
  /\ RoutingGood
  /\ SyncingGood
  /\ AckingGood

-----------------------------------------------------------------------------
(* What was good stays good when more messages are sent and more are kept. *)
LEMMA Grows ==
  ASSUME NEW k1, NEW k2, NEW a1, NEW a2, NEW n1, NEW n2, NEW d1, NEW d2,
         \A t \in Thread : k1[t] \subseteq k2[t] /\ a1[t] \subseteq a2[t],
         n1 \subseteq n2, d1 \subseteq d2
  PROVE  /\ \A f : GoodFile(f, k1) => GoodFile(f, k2)
         /\ \A m, r : GoodRoute(m, r, k1, n1, d1) => GoodRoute(m, r, k2, n2, d2)
         /\ \A r : GoodSync(r, k1, a1, n1) => GoodSync(r, k2, a2, n2)
         /\ \A r : GoodAck(r, k1) => GoodAck(r, k2)
<1>1. \A c : GoodCursors(c, k1) => GoodCursors(c, k2)
  BY DEF GoodCursors
<1>2. \A f : GoodFile(f, k1) => GoodFile(f, k2)
  BY <1>1 DEF GoodFile
<1>3. \A r : GoodWrite(r, k1) => GoodWrite(r, k2)
  BY <1>2 DEF GoodWrite
<1>4. \A m, r : GoodRoute(m, r, k1, n1, d1) => GoodRoute(m, r, k2, n2, d2)
  BY <1>3 DEF GoodRoute
<1>5. \A r : GoodLoad(r, k1, a1, n1) => GoodLoad(r, k2, a2, n2)
  <2> SUFFICES ASSUME NEW r, GoodLoad(r, k1, a1, n1) PROVE GoodLoad(r, k2, a2, n2)
    OBVIOUS
  <2>1. "state" \in r.loaded => GoodCursors(r.since, k2)
    BY <1>1 DEF GoodLoad
  <2>2. \A t \in Thread \intersect DOMAIN r.backfill :
          r.backfill[t] \in k2[t] \union (r.todo \intersect a2[t])
    BY DEF GoodLoad
  <2> QED
    BY <2>1, <2>2 DEF GoodLoad
<1>6. \A r : GoodSync(r, k1, a1, n1) => GoodSync(r, k2, a2, n2)
  BY <1>3, <1>5 DEF GoodSync
<1>7. \A r : GoodAck(r, k1) => GoodAck(r, k2)
  BY <1>3 DEF GoodAck
<1> QED
  BY <1>2, <1>4, <1>6, <1>7

(* Messages only get more, and what was kept stays kept. *)
LEMMA KeptGrows ==
  ASSUME MessagesGood, stored \subseteq stored',
         \/ messages' = messages
         \/ \E m \in Message : messages' = Append(messages, m)
  PROVE  /\ Seqs \subseteq Seqs'
         /\ \A t \in Thread : Kept[t] \subseteq Kept'[t] /\ At[t] \subseteq At'[t]
<1>1. /\ Seqs \subseteq Seqs'
      /\ \A s \in Seqs : messages'[s] = messages[s]
  <2>1. CASE messages' = messages
    BY <2>1 DEF Seqs
  <2>2. ASSUME NEW m \in Message, messages' = Append(messages, m)
        PROVE  /\ Seqs \subseteq Seqs'
               /\ \A s \in Seqs : messages'[s] = messages[s]
    <3>1. /\ DOMAIN messages' = 1..(Len(messages) + 1)
          /\ \A s \in 1..Len(messages) : messages'[s] = messages[s]
      BY <2>2 DEF MessagesGood
    <3>2. DOMAIN messages = 1..Len(messages)
      BY DEF MessagesGood
    <3> QED
      BY <3>1, <3>2 DEF MessagesGood, Seqs
  <2> QED
    BY <2>1, <2>2
<1>2. \A t \in Thread : InThread(t) \subseteq InThread(t)'
  BY <1>1 DEF InThread, Seqs
<1>3. \A t \in Thread : KeptAt(t) \subseteq KeptAt(t)'
  BY <1>1, <1>2 DEF KeptAt, InThread, Seqs
<1> QED
  BY <1>1, <1>2, <1>3 DEF Kept, At

(* The handlers under way, and state.json, stay good while others work. *)
LEMMA Frame ==
  ASSUME FilesInv, stored \subseteq stored',
         \/ messages' = messages
         \/ \E m \in Message : messages' = Append(messages, m)
  PROVE  /\ GoodFile(file, Kept')
         /\ \A m \in Seq1 : GoodRoute(m, routing[m], Kept', Seqs', stored')
         /\ \A i \in SyncTask : GoodSync(syncing[i], Kept', At', Seqs')
         /\ \A t \in Thread : GoodAck(acking[t], Kept')
<1>1. /\ Seqs \subseteq Seqs'
      /\ \A t \in Thread : Kept[t] \subseteq Kept'[t] /\ At[t] \subseteq At'[t]
  BY KeptGrows DEF FilesInv
<1>2. \A f : GoodFile(f, Kept) => GoodFile(f, Kept')
  BY <1>1, Grows, Zenon
<1>3. \A m, r : GoodRoute(m, r, Kept, Seqs, stored) => GoodRoute(m, r, Kept', Seqs', stored')
  BY <1>1, <1>2 DEF GoodRoute, GoodWrite
<1>4. \A r : GoodSync(r, Kept, At, Seqs) => GoodSync(r, Kept', At', Seqs')
  BY <1>1, Grows, Zenon
<1>5. \A r : GoodAck(r, Kept) => GoodAck(r, Kept')
  BY <1>1, Grows, Zenon
<1> QED
  BY <1>2, <1>3, <1>4, <1>5 DEF FilesInv, RoutingGood, SyncingGood, AckingGood

(* What the three handlers write is good. *)
LEMMA RoutedGood ==
  ASSUME FilesInv, NEW m \in stored, NEW b
  PROVE  GoodFile(Routed(file, m, b), Kept)
<1> DEFINE t == messages[m].thread
           next == Routed(file, m, b)
<1>1. m \in Nat \ {0} /\ m \in Seqs /\ t \in Thread
  <2>1. /\ messages \in Seq(Message)
        /\ m \in DOMAIN messages
    BY DEF FilesInv, MessagesGood, Seqs
  <2>2. m \in 1..Len(messages) /\ messages[m] \in Message
    BY <2>1
  <2> QED
    BY <2>1, <2>2 DEF Seqs, Message
<1>2. m \in Kept[t]
  BY <1>1 DEF Kept, KeptAt, InThread, Seqs
<1>3. GoodCursors(file.lastSeen, Kept)
  BY DEF FilesInv, GoodFile
<1>4. next.lastSeen = [file.lastSeen EXCEPT ![t] = Larger(@, m)]
  BY DEF Routed
<1>5. GoodCursors(next.lastSeen, Kept)
  BY <1>1, <1>2, <1>3, <1>4 DEF GoodCursors, Larger
<1>6. next.unreadCount = Total(next.threads)
  BY DEF Routed
<1> QED
  BY <1>5, <1>6 DEF GoodFile

(* The state a finished sync computes is good: its new cursors are seqs    *)
(* that it has put in the pane inbox.                                      *)
LEMMA MergedGood ==
  ASSUME FilesInv, NEW r, GoodLoad(r, Kept, At, Seqs), r.todo = {}
  PROVE  GoodFile(Merged(file, r.list, r.backfill), Kept)
<1> DEFINE next == Merged(file, r.list, r.backfill)
<1>1. GoodCursors(file.lastSeen, Kept)
  BY DEF FilesInv, GoodFile
<1>2. \A t \in Thread : Kept[t] \subseteq Nat
  BY DEF Kept, KeptAt, InThread, FilesInv, MessagesGood
<1>3. \A t \in Thread \intersect DOMAIN r.backfill : r.backfill[t] \in Kept[t]
  BY DEF GoodLoad
<1>4. next.lastSeen = [t \in Thread |-> IF t \in DOMAIN r.backfill THEN r.backfill[t]
                                                                 ELSE file.lastSeen[t]]
  BY DEF Merged
<1>5. GoodCursors(next.lastSeen, Kept)
  BY <1>1, <1>2, <1>3, <1>4 DEF GoodCursors
<1>6. next.unreadCount = Total(next.threads)
  BY DEF Merged
<1> QED
  BY <1>5, <1>6 DEF GoodFile

(* Marking a thread read leaves the cursors and recounts the unread.       *)
LEMMA AckedGood ==
  ASSUME FilesInv, NEW t
  PROVE  GoodFile(Acked(file, t), Kept)
BY DEF FilesInv, GoodFile, Acked

(* A fresh home directory satisfies the invariant.                         *)
LEMMA InitGood == Init => FilesInv
<1> SUFFICES ASSUME Init PROVE FilesInv
  OBVIOUS
<1>1. MessagesGood
  BY DEF Init, MessagesGood, Seqs
<1>2. file.unreadCount = Total(file.threads)
  <2>1. DOMAIN file.threads = {} /\ file.unreadCount = 0
    BY DEF Init, EmptyState
  <2>2. Total(file.threads) = Cardinality({})
    BY <2>1 DEF Total
  <2> QED
    BY <2>1, <2>2, FS_EmptySet
<1>3. GoodFile(file, Kept)
  BY <1>2 DEF Init, EmptyState, GoodFile, GoodCursors, Kept, KeptAt
<1>4. RoutingGood /\ SyncingGood /\ AckingGood
  BY DEF Init, RoutingGood, SyncingGood, AckingGood, GoodRoute, GoodSync, GoodAck
<1> QED
  BY <1>1, <1>3, <1>4 DEF FilesInv

-----------------------------------------------------------------------------
(* One step keeps the invariant.  First the steps that only send a message *)
(* or that touch none of what it speaks of; then the ends of a connection, *)
(* the router, the sync and the ack.                                       *)
LEMMA PostGood ==
  ASSUME FilesInv, NEW t \in Thread, NEW mine \in BOOLEAN, Post(t, mine)
  PROVE  FilesInv'
<1>1. /\ messages' = Append(messages, [thread |-> t, mine |-> mine])
      /\ [thread |-> t, mine |-> mine] \in Message
  BY DEF Post, Message
<1>2. UNCHANGED <<file, routing, syncing, acking, stored>>
  BY DEF Post, fileVars, taskVars, ghostVars
<1>3. /\ GoodFile(file, Kept')
      /\ \A m \in Seq1 : GoodRoute(m, routing[m], Kept', Seqs', stored')
      /\ \A i \in SyncTask : GoodSync(syncing[i], Kept', At', Seqs')
      /\ \A x \in Thread : GoodAck(acking[x], Kept')
  BY <1>1, <1>2, Frame
<1>4. MessagesGood'
  <2>1. /\ messages \in Seq(Message) /\ messages' \in Seq(Message)
        /\ Len(messages') = Len(messages) + 1
    BY <1>1, AppendProperties DEF FilesInv, MessagesGood
  <2>2. pushes' \subseteq pushes \union {Len(messages) + 1}
    BY DEF Post
  <2> QED
    BY <1>2, <2>1, <2>2 DEF FilesInv, MessagesGood, Seqs
<1>5. GoodFile(file, Kept)'
  BY <1>2, <1>3
<1>6. RoutingGood' /\ SyncingGood' /\ AckingGood'
  BY <1>2, <1>3 DEF FilesInv, RoutingGood, SyncingGood, AckingGood
<1> QED
  BY <1>4, <1>5, <1>6 DEF FilesInv

(* A step after which the messages, what is kept, and state.json are the   *)
(* same or good, and every handler is where it was or good.                *)
LEMMA LocalStep ==
  ASSUME FilesInv, messages' = messages, stored \subseteq stored',
         stored' \subseteq Seqs, pushes' \subseteq pushes,
         file' = file \/ GoodFile(file', Kept),
         DOMAIN routing' = Seq1, DOMAIN syncing' = SyncTask, DOMAIN acking' = Thread,
         \A m \in Seq1 : \/ routing'[m] = routing[m]
                         \/ GoodRoute(m, routing'[m], Kept', Seqs', stored'),
         \A i \in SyncTask : \/ syncing'[i] = syncing[i]
                             \/ GoodSync(syncing'[i], Kept', At', Seqs'),
         \A t \in Thread : \/ acking'[t] = acking[t]
                           \/ GoodAck(acking'[t], Kept')
  PROVE  FilesInv'
<1>1. /\ GoodFile(file, Kept')
      /\ \A m \in Seq1 : GoodRoute(m, routing[m], Kept', Seqs', stored')
      /\ \A i \in SyncTask : GoodSync(syncing[i], Kept', At', Seqs')
      /\ \A t \in Thread : GoodAck(acking[t], Kept')
  BY Frame
<1>2. MessagesGood'
  BY DEF FilesInv, MessagesGood, Seqs
<1>3. \A f : GoodFile(f, Kept) => GoodFile(f, Kept')
  BY KeptGrows, Grows, Zenon DEF FilesInv
<1>4. GoodFile(file, Kept)'
  BY <1>1, <1>3
<1>5. RoutingGood' /\ SyncingGood' /\ AckingGood'
  BY <1>1 DEF RoutingGood, SyncingGood, AckingGood
<1> QED
  BY <1>2, <1>4, <1>5 DEF FilesInv

(* Steps that touch none of what the invariant speaks of. *)
LEMMA IdleStepGood ==
  ASSUME FilesInv, pushes' \subseteq pushes,
         UNCHANGED <<messages, stored, file, routing, syncing, acking>>
  PROVE  FilesInv'
BY LocalStep DEF FilesInv, MessagesGood, RoutingGood, SyncingGood, AckingGood

(* The two "connected" events: a sync starts. *)
LEMMA ConnectGood ==
  ASSUME FilesInv, NEW i \in SyncTask, Connect(i) \/ Hello(i)
  PROVE  FilesInv'
<1>1. /\ syncing' = [syncing EXCEPT ![i] = Loading]
      /\ UNCHANGED <<messages, stored, pushes, file, routing, acking>>
  BY DEF Connect, Hello, StartSync, relayVars, fileVars, ghostVars
<1>2. GoodSync(Loading, Kept', At', Seqs')
  <2>1. GoodLoad(Loading, Kept', At', Seqs')
    BY DEF GoodLoad, Loading
  <2> QED
    BY <2>1 DEF GoodSync
<1> QED
  BY <1>1, <1>2, LocalStep
  DEF FilesInv, MessagesGood, RoutingGood, SyncingGood, AckingGood

(* A crash ends every handler. *)
LEMMA CrashGood ==
  ASSUME FilesInv, Crash
  PROVE  FilesInv'
<1>1. /\ UNCHANGED <<messages, stored, pushes, file>>
      /\ routing' = [m \in Seq1 |-> NoTask]
      /\ syncing' = [i \in SyncTask |-> NoTask]
      /\ acking' = [t \in Thread |-> NoTask]
  BY DEF Crash, relayVars, fileVars, ghostVars
<1>2. /\ \A m : GoodRoute(m, NoTask, Kept', Seqs', stored')
      /\ GoodSync(NoTask, Kept', At', Seqs')
      /\ GoodAck(NoTask, Kept')
  BY DEF GoodRoute, GoodSync, GoodAck
<1> QED
  BY <1>1, <1>2, LocalStep DEF FilesInv, MessagesGood

(* The router: a message is kept before its cursor is computed. *)
LEMMA RouteGood ==
  ASSUME FilesInv, NEW m \in Seq1,
         RouteStart(m) \/ RouteAppend(m) \/ RouteUpdate(m) \/ RouteWrite(m)
  PROVE  FilesInv'
<1> USE DEF relayVars, fileVars, ghostVars
<1>1. /\ DOMAIN routing = Seq1 /\ DOMAIN syncing = SyncTask /\ DOMAIN acking = Thread
      /\ stored \subseteq Seqs
      /\ GoodRoute(m, routing[m], Kept, Seqs, stored)
  BY DEF FilesInv, MessagesGood, RoutingGood, SyncingGood, AckingGood
<1>2. CASE RouteStart(m)
  <2> DEFINE task == [pc |-> "append", paneOpen |-> messages[m].thread \in panes]
  <2>1. /\ routing' = [routing EXCEPT ![m] = task]
        /\ pushes' \subseteq pushes /\ m \in pushes
        /\ UNCHANGED <<messages, stored, file, syncing, acking>>
    BY <1>2 DEF RouteStart
  <2>2. m \in Seqs'
    BY <2>1 DEF FilesInv, MessagesGood, Seqs
  <2>3. GoodRoute(m, task, Kept', Seqs', stored')
    BY <2>2 DEF GoodRoute
  <2> QED
    BY <1>1, <2>1, <2>3, LocalStep
<1>3. CASE RouteAppend(m)
  <2> DEFINE task == [routing[m] EXCEPT !.pc = "update"]
  <2>1. /\ routing' = [routing EXCEPT ![m] = task]
        /\ stored' = stored \union {m}
        /\ UNCHANGED <<messages, pushes, file, syncing, acking>>
        /\ routing[m].pc = "append"
    BY <1>3 DEF RouteAppend, AppendToInbox
  <2>2. /\ routing[m] = [pc |-> "append", paneOpen |-> routing[m].paneOpen]
        /\ m \in Seqs
    BY <1>1, <2>1 DEF GoodRoute, NoTask, GoodWrite, Writing
  <2>3. task = [pc |-> "update", paneOpen |-> task.paneOpen]
    BY <2>2
  <2>4. GoodRoute(m, task, Kept', Seqs', stored')
    BY <2>1, <2>3 DEF GoodRoute
  <2> QED
    BY <1>1, <2>1, <2>2, <2>4, LocalStep
<1>4. CASE RouteUpdate(m)
  <2> DEFINE next == Routed(file, m, routing[m].paneOpen)
  <2>1. /\ routing' = [routing EXCEPT ![m] = Writing(next)]
        /\ UNCHANGED <<messages, pushes, stored, file, syncing, acking>>
        /\ routing[m].pc = "update"
    BY <1>4 DEF RouteUpdate
  <2>2. m \in stored
    BY <1>1, <2>1 DEF GoodRoute, NoTask, GoodWrite, Writing
  <2>3. GoodFile(next, Kept)
    BY <2>2, RoutedGood
  <2>4. Kept' = Kept
    BY <2>1 DEF Kept, KeptAt, InThread
  <2>5. GoodRoute(m, Writing(next), Kept', Seqs', stored')
    <3>1. Writing(next).next = next
      BY DEF Writing
    <3> QED
      BY <2>3, <2>4, <3>1 DEF GoodRoute, GoodWrite
  <2> HIDE DEF next
  <2> QED
    BY <1>1, <2>1, <2>5, LocalStep
<1>5. CASE RouteWrite(m)
  <2>1. /\ routing' = [routing EXCEPT ![m] = NoTask]
        /\ file' = routing[m].next
        /\ UNCHANGED <<messages, pushes, stored, syncing, acking>>
        /\ routing[m].pc = "write"
    BY <1>5 DEF RouteWrite
  <2>2. GoodFile(file', Kept)
    BY <1>1, <2>1 DEF GoodRoute, NoTask, GoodWrite
  <2>3. GoodRoute(m, NoTask, Kept', Seqs', stored')
    BY DEF GoodRoute
  <2> QED
    BY <1>1, <2>1, <2>2, <2>3, LocalStep
<1> QED
  BY <1>2, <1>3, <1>4, <1>5

(* The ack. *)
LEMMA AckGood ==
  ASSUME FilesInv, NEW t \in Thread,
         AckStart(t) \/ AckMark(t) \/ AckUpdate(t) \/ AckWrite(t)
  PROVE  FilesInv'
<1> USE DEF relayVars, fileVars, ghostVars
<1>1. /\ DOMAIN routing = Seq1 /\ DOMAIN syncing = SyncTask /\ DOMAIN acking = Thread
      /\ stored \subseteq Seqs
      /\ GoodAck(acking[t], Kept)
  BY DEF FilesInv, MessagesGood, RoutingGood, SyncingGood, AckingGood
<1>2. CASE AckStart(t) \/ AckMark(t)
  <2>1. PICK task \in {NoTask, [pc |-> "mark"], [pc |-> "update"]} :
             acking' = [acking EXCEPT ![t] = task]
    <3>1. CASE AckStart(t)
      BY <3>1 DEF AckStart
    <3>2. CASE AckMark(t)
      <4>1. \/ acking' = [acking EXCEPT ![t].pc = "update"]
            \/ acking' = [acking EXCEPT ![t] = NoTask]
        BY <3>2 DEF AckMark
      <4>2. acking[t] = [pc |-> "mark"]
        BY <1>1, <3>2 DEF AckMark, GoodAck, NoTask, GoodWrite, Writing
      <4>3. [acking[t] EXCEPT !.pc = "update"] = [pc |-> "update"]
        BY <4>2
      <4> QED
        BY <4>1, <4>3
    <3> QED
      BY <1>2, <3>1, <3>2
  <2>2. UNCHANGED <<messages, pushes, stored, file, routing, syncing>>
    BY <1>2 DEF AckStart, AckMark
  <2>3. GoodAck(task, Kept')
    BY DEF GoodAck
  <2> QED
    BY <1>1, <2>1, <2>2, <2>3, LocalStep
<1>3. CASE AckUpdate(t)
  <2> DEFINE next == Acked(file, t)
  <2>1. /\ acking' = [acking EXCEPT ![t] = Writing(next)]
        /\ UNCHANGED <<messages, pushes, stored, file, routing, syncing>>
    BY <1>3 DEF AckUpdate
  <2>2. GoodFile(next, Kept)
    BY AckedGood
  <2>3. Kept' = Kept
    BY <2>1 DEF Kept, KeptAt, InThread
  <2>4. GoodAck(Writing(next), Kept')
    <3>1. Writing(next).next = next
      BY DEF Writing
    <3> QED
      BY <2>2, <2>3, <3>1 DEF GoodAck, GoodWrite
  <2> HIDE DEF next
  <2> QED
    BY <1>1, <2>1, <2>4, LocalStep
<1>4. CASE AckWrite(t)
  <2>1. /\ acking' = [acking EXCEPT ![t] = NoTask]
        /\ file' = acking[t].next
        /\ UNCHANGED <<messages, pushes, stored, routing, syncing>>
        /\ acking[t].pc = "write"
    BY <1>4 DEF AckWrite
  <2>2. GoodFile(file', Kept)
    BY <1>1, <2>1 DEF GoodAck, NoTask, GoodWrite
  <2>3. GoodAck(NoTask, Kept')
    BY DEF GoodAck
  <2> QED
    BY <1>1, <2>1, <2>2, <2>3, LocalStep
<1> QED
  BY <1>2, <1>3, <1>4

(* The sync: its new cursors are at messages it appends before it writes.  *)
LEMMA SyncTaskGood ==
  ASSUME FilesInv, NEW i \in SyncTask,
         \/ SyncList(i) \/ SyncRead(i) \/ SyncUpdate(i) \/ SyncWrite(i) \/ SyncFail(i)
         \/ \E t \in Thread : SyncFetch(i, t)
         \/ \E m \in Seq1 : SyncAppend(i, m)
  PROVE  FilesInv'
<1> USE DEF relayVars, fileVars, ghostVars
<1> DEFINE r == syncing[i]
<1>1. /\ DOMAIN routing = Seq1 /\ DOMAIN syncing = SyncTask /\ DOMAIN acking = Thread
      /\ stored \subseteq Seqs
      /\ GoodSync(r, Kept, At, Seqs)
  BY DEF FilesInv, MessagesGood, RoutingGood, SyncingGood, AckingGood
<1>a. r.pc = "load" => GoodLoad(r, Kept, At, Seqs)
  BY <1>1 DEF GoodSync, NoTask, GoodWrite, Writing
<1>b. r.pc = "write" => GoodWrite(r, Kept)
  BY <1>1 DEF GoodSync, NoTask, GoodLoad
(* What is left to show of a step that sets task i and nothing else. *)
<1>c. ASSUME NEW task, syncing' = [syncing EXCEPT ![i] = task],
             UNCHANGED <<messages, pushes, stored, file, routing, acking>>,
             GoodSync(task, Kept, At, Seqs)
      PROVE  FilesInv'
  <2>1. Kept' = Kept /\ At' = At /\ Seqs' = Seqs
    BY <1>c DEF Kept, KeptAt, At, InThread, Seqs
  <2>2. GoodSync(task, Kept', At', Seqs')
    BY <1>c, <2>1
  <2> QED
    BY <1>1, <1>c, <2>2, LocalStep
<1>2. CASE SyncList(i)
  <2> DEFINE task == [r EXCEPT !.list = Listing, !.loaded = @ \union {"list"}]
  <2>1. /\ syncing' = [syncing EXCEPT ![i] = task]
        /\ UNCHANGED <<messages, pushes, stored, file, routing, acking>>
        /\ r.pc = "load"
    BY <1>1, <1>2 DEF SyncList
  <2>2. GoodLoad(task, Kept, At, Seqs)
    <3> HIDE DEF r
    <3>1. /\ DOMAIN task = DOMAIN r /\ task.pc = r.pc
          /\ task.loaded = r.loaded \union {"list"} /\ task.since = r.since
          /\ task.backfill = r.backfill /\ task.todo = r.todo
      BY <1>a, <2>1 DEF GoodLoad
    <3> HIDE DEF task
    <3> QED
      BY <1>a, <2>1, <3>1 DEF GoodLoad
  <2> HIDE DEF task
  <2> QED
    BY <1>c, <2>1, <2>2 DEF GoodSync
<1>3. CASE SyncRead(i)
  <2> DEFINE task == [r EXCEPT !.since = file.lastSeen, !.loaded = @ \union {"state"}]
  <2>1. /\ syncing' = [syncing EXCEPT ![i] = task]
        /\ UNCHANGED <<messages, pushes, stored, file, routing, acking>>
        /\ r.pc = "load"
    BY <1>1, <1>3 DEF SyncRead
  <2>2. GoodCursors(file.lastSeen, Kept)
    BY DEF FilesInv, GoodFile
  <2>3. GoodLoad(task, Kept, At, Seqs)
    <3> HIDE DEF r
    <3>1. /\ DOMAIN task = DOMAIN r /\ task.pc = r.pc
          /\ task.since = file.lastSeen
          /\ task.backfill = r.backfill /\ task.todo = r.todo
      BY <1>a, <2>1 DEF GoodLoad
    <3> HIDE DEF task
    <3> QED
      BY <1>a, <2>1, <2>2, <3>1 DEF GoodLoad
  <2> HIDE DEF task
  <2> QED
    BY <1>c, <2>1, <2>3 DEF GoodSync
<1>4. ASSUME NEW t \in Thread, SyncFetch(i, t)
      PROVE  FilesInv'
  <2> DEFINE since == r.since[t]
             fetched == {s \in InThread(t) : s > since}
  <2>1. PICK maxSeq \in fetched \union {since} :
          syncing' = [syncing EXCEPT
             ![i].backfill = [x \in DOMAIN @ \union {t} |-> IF x = t THEN maxSeq ELSE @[x]],
             ![i].todo = @ \union (fetched \intersect Foreign)]
    BY <1>4 DEF SyncFetch
  <2> DEFINE backfill == [x \in DOMAIN r.backfill \union {t} |->
                            IF x = t THEN maxSeq ELSE r.backfill[x]]
             todo == r.todo \union (fetched \intersect Foreign)
             task == [r EXCEPT !.backfill = backfill, !.todo = todo]
  <2>2. /\ syncing' = [syncing EXCEPT ![i] = task]
        /\ UNCHANGED <<messages, pushes, stored, file, routing, acking>>
    BY <1>1, <1>4, <2>1 DEF SyncFetch
  <2>3. GoodLoad(r, Kept, At, Seqs) /\ "state" \in r.loaded
    BY <1>a, <1>4 DEF SyncFetch, Loaded
  <2>4. todo \subseteq Seqs
    BY <2>3 DEF GoodLoad, Foreign, Seqs
  <2>5. maxSeq \in Kept[t] \union (todo \intersect At[t])
    <3>1. CASE maxSeq = since
      BY <2>3, <3>1 DEF GoodLoad, GoodCursors
    <3>2. CASE maxSeq \in fetched
      <4>1. maxSeq \in InThread(t) /\ maxSeq \in DOMAIN messages
        BY <3>2 DEF InThread
      <4>2. CASE messages[maxSeq].mine
        BY <4>1, <4>2 DEF Kept, KeptAt
      <4>3. CASE ~messages[maxSeq].mine
        BY <3>2, <4>1, <4>3 DEF At, Foreign
      <4> QED
        BY <4>2, <4>3
    <3> QED
      BY <2>1, <3>1, <3>2
  <2>6. \A x \in Thread \intersect DOMAIN backfill :
          backfill[x] \in Kept[x] \union (todo \intersect At[x])
    <3>1. \A x \in Thread \intersect DOMAIN r.backfill :
            r.backfill[x] \in Kept[x] \union (todo \intersect At[x])
      BY <2>3 DEF GoodLoad
    <3> HIDE DEF todo
    <3> QED
      BY <2>5, <3>1
  <2>7. GoodLoad(task, Kept, At, Seqs)
    <3> HIDE DEF r, backfill, todo
    <3>1. /\ DOMAIN task = DOMAIN r /\ task.pc = r.pc
          /\ task.loaded = r.loaded /\ task.since = r.since
          /\ task.backfill = backfill /\ task.todo = todo
      BY <2>3 DEF GoodLoad
    <3> HIDE DEF task
    <3> QED
      BY <2>3, <2>4, <2>6, <3>1 DEF GoodLoad
  <2> HIDE DEF task
  <2> QED
    BY <1>c, <2>2, <2>7 DEF GoodSync
<1>5. ASSUME NEW m \in Seq1, SyncAppend(i, m)
      PROVE  FilesInv'
  <2> DEFINE todo == r.todo \ {m}
             task == [r EXCEPT !.todo = todo]
  <2>1. /\ syncing' = [syncing EXCEPT ![i] = task]
        /\ stored' = stored \union {m}
        /\ UNCHANGED <<messages, pushes, file, routing, acking>>
        /\ m \in r.todo
    BY <1>1, <1>5 DEF SyncAppend, AppendToInbox
  <2>2. GoodLoad(r, Kept, At, Seqs) /\ m \in Seqs
    <3>1. GoodLoad(r, Kept, At, Seqs)
      BY <1>a, <1>5 DEF SyncAppend, Fetched, Loaded
    <3> QED
      BY <2>1, <3>1 DEF GoodLoad
  <2>3. /\ Seqs' = Seqs /\ At' = At
        /\ \A t \in Thread : Kept[t] \subseteq Kept'[t]
        /\ \A t \in Thread : m \in At[t] => m \in Kept'[t]
    BY <2>1 DEF Seqs, At, Kept, KeptAt, InThread
  <2>4. "state" \in r.loaded => GoodCursors(r.since, Kept')
    BY <2>2, <2>3 DEF GoodLoad, GoodCursors
  <2>5. \A t \in Thread \intersect DOMAIN r.backfill :
          r.backfill[t] \in Kept'[t] \union (todo \intersect At'[t])
    BY <2>2, <2>3 DEF GoodLoad
  <2>6. GoodLoad(task, Kept', At', Seqs')
    <3> HIDE DEF r
    <3>1. /\ DOMAIN task = DOMAIN r /\ task.pc = r.pc
          /\ task.loaded = r.loaded /\ task.since = r.since
          /\ task.backfill = r.backfill /\ task.todo = todo
      BY <2>2 DEF GoodLoad
    <3>2. todo \subseteq Seqs'
      BY <2>2, <2>3 DEF GoodLoad
    <3> HIDE DEF task, todo
    <3> QED
      BY <2>2, <2>4, <2>5, <3>1, <3>2 DEF GoodLoad
  <2>7. GoodSync(task, Kept', At', Seqs')
    <3> HIDE DEF task
    <3> QED
      BY <2>6 DEF GoodSync
  <2> HIDE DEF task
  <2> QED
    BY <1>1, <2>1, <2>2, <2>7, LocalStep
<1>6. CASE SyncUpdate(i)
  <2> DEFINE next == Merged(file, r.list, r.backfill)
  <2>1. /\ syncing' = [syncing EXCEPT ![i] = Writing(next)]
        /\ UNCHANGED <<messages, pushes, stored, file, routing, acking>>
        /\ r.pc = "load" /\ r.todo = {}
    BY <1>6 DEF SyncUpdate, Fetched, Loaded
  <2>2. GoodFile(next, Kept)
    <3> HIDE DEF r
    <3> QED
      BY <1>a, <2>1, MergedGood
  <2> HIDE DEF next
  <2>3. Writing(next).next = next
    BY DEF Writing
  <2> QED
    BY <1>c, <2>1, <2>2, <2>3 DEF GoodSync, GoodWrite
<1>7. CASE SyncWrite(i)
  <2>1. /\ syncing' = [syncing EXCEPT ![i] = NoTask]
        /\ file' = r.next
        /\ UNCHANGED <<messages, pushes, stored, routing, acking>>
        /\ r.pc = "write"
    BY <1>7 DEF SyncWrite
  <2>2. GoodFile(file', Kept)
    BY <1>b, <2>1 DEF GoodWrite
  <2>3. GoodSync(NoTask, Kept', At', Seqs')
    BY DEF GoodSync
  <2> QED
    BY <1>1, <2>1, <2>2, <2>3, LocalStep
<1>8. CASE SyncFail(i)
  <2>1. /\ syncing' = [syncing EXCEPT ![i] = NoTask]
        /\ UNCHANGED <<messages, pushes, stored, file, routing, acking>>
    BY <1>8 DEF SyncFail
  <2>2. GoodSync(NoTask, Kept, At, Seqs)
    BY DEF GoodSync
  <2> QED
    BY <1>c, <2>1, <2>2
<1> QED
  BY <1>2, <1>3, <1>4, <1>5, <1>6, <1>7, <1>8

(* Every step of Next keeps the invariant. *)
LEMMA StepGood == FilesInv /\ [Next]_vars => FilesInv'
<1> SUFFICES ASSUME FilesInv, [Next]_vars PROVE FilesInv'
  OBVIOUS
<1> USE DEF relayVars, fileVars, taskVars, ghostVars
<1>1. ASSUME NEW t \in Thread, NEW mine \in BOOLEAN, Post(t, mine)
      PROVE  FilesInv'
  BY <1>1, PostGood
<1>2. ASSUME NEW m \in Seq1,
             LosePush(m) \/ RouteStart(m) \/ RouteAppend(m) \/ RouteUpdate(m) \/ RouteWrite(m)
      PROVE  FilesInv'
  <2>1. CASE LosePush(m)
    BY <2>1, IdleStepGood DEF LosePush
  <2> QED
    BY <1>2, <2>1, RouteGood
<1>3. ASSUME NEW i \in SyncTask,
             \/ Connect(i) \/ Hello(i) \/ SyncList(i) \/ SyncRead(i)
             \/ SyncUpdate(i) \/ SyncWrite(i) \/ SyncFail(i)
             \/ \E t \in Thread : SyncFetch(i, t)
             \/ \E m \in Seq1 : SyncAppend(i, m)
      PROVE  FilesInv'
  BY <1>3, ConnectGood, SyncTaskGood
<1>4. ASSUME NEW t \in Thread,
             \/ AckStart(t) \/ AckMark(t) \/ AckUpdate(t) \/ AckWrite(t)
             \/ DrainRead(t) \/ DrainUnlink(t) \/ DrainReturn(t)
             \/ TogglePane(t) \/ ToggleArchive(t)
      PROVE  FilesInv'
  <2>1. CASE DrainRead(t)
    BY <2>1, IdleStepGood DEF DrainRead
  <2>2. CASE DrainUnlink(t) \/ DrainReturn(t)
    BY <2>2, IdleStepGood DEF DrainUnlink, DrainReturn
  <2>3. CASE TogglePane(t)
    BY <2>3, IdleStepGood DEF TogglePane
  <2>4. CASE ToggleArchive(t)
    BY <2>4, IdleStepGood DEF ToggleArchive
  <2> QED
    BY <1>4, <2>1, <2>2, <2>3, <2>4, AckGood
<1>5. CASE Disconnect
  BY <1>5, IdleStepGood DEF Disconnect
<1>6. CASE Crash
  BY <1>6, CrashGood
<1>7. CASE UNCHANGED vars
  BY <1>7, IdleStepGood DEF vars
<1> QED
  BY <1>1, <1>2, <1>3, <1>4, <1>5, <1>6, <1>7 DEF Next

-----------------------------------------------------------------------------
(* Every behaviour, with however many handlers, keeps the invariant: what  *)
(* is on disk and what a handler is about to write name only messages that *)
(* somebody kept.                                                          *)
THEOREM DaemonStateInvariant == Spec => []FilesInv
<1>1. Init => FilesInv
  BY InitGood
<1>2. FilesInv /\ [Next]_vars => FilesInv'
  BY StepGood
<1> QED
  BY <1>1, <1>2, PTL DEF Spec

(* A cursor of state.json is at a message on disk or sent by this peer,    *)
(* for any threads, crashes and overlapping handlers: router and sync      *)
(* append to the pane inbox before they move the cursor.                   *)
THEOREM DaemonStateCursorIsStored == Spec => []CursorIsStored
<1>1. FilesInv => CursorIsStored
  <2> SUFFICES ASSUME FilesInv, NEW t \in Thread, file.lastSeen[t] > 0
               PROVE  /\ file.lastSeen[t] \in InThread(t)
                      /\ file.lastSeen[t] \in stored \/ messages[file.lastSeen[t]].mine
    BY DEF CursorIsStored
  <2>1. file.lastSeen[t] \in KeptAt(t)
    BY DEF FilesInv, GoodFile, GoodCursors, Kept
  <2>2. file.lastSeen[t] # 0
    OBVIOUS
  <2> QED
    BY <2>1, <2>2 DEF KeptAt
<1> QED
  BY <1>1, DaemonStateInvariant, PTL

(* The total in state.json is the sum over its active threads, for any     *)
(* threads and any interleaving: every handler recomputes it from what it  *)
(* writes.                                                                 *)
THEOREM DaemonStateCountAgrees == Spec => []CountAgrees
<1>1. FilesInv => CountAgrees
  BY DEF FilesInv, GoodFile, CountAgrees
<1> QED
  BY <1>1, DaemonStateInvariant, PTL

-----------------------------------------------------------------------------
(***************************************************************************)
(* Types: what the tasks under way have loaded or will write is a list of  *)
(* thread summaries, and everything kept is a message of somebody else.    *)
(***************************************************************************)
GoodThreads(th) == DOMAIN th \subseteq Thread /\ th \in [DOMAIN th -> Summary]

(* n is the set of the others' messages. *)
RouteTyped(m, r, n) ==
  /\ r.pc = "append" => m \in n
  /\ r.pc = "write" => GoodThreads(r.next.threads)

SyncTyped(r, n) ==
  /\ r.pc = "load" => r.todo \subseteq n /\ ("list" \in r.loaded => GoodThreads(r.list))
  /\ r.pc = "write" => GoodThreads(r.next.threads)

AckTyped(r) == r.pc = "write" => GoodThreads(r.next.threads)

DrainTyped(r, n) ==
  \/ r = NoTask
  \/ /\ r = [pc |-> r.pc, entries |-> r.entries]
     /\ r.pc \in {"unlink", "return"} /\ r.entries \in Seq(n)

TasksTyped ==
  /\ \A m \in Seq1 : RouteTyped(m, routing[m], Foreign)
  /\ \A i \in SyncTask : SyncTyped(syncing[i], Foreign)
  /\ \A t \in Thread : AckTyped(acking[t])
  /\ \A t \in Thread : DrainTyped(draining[t], Foreign)
  /\ DOMAIN draining = Thread

ForeignSets ==
  /\ reads \subseteq Foreign /\ pushes \subseteq Foreign /\ lost \subseteq Foreign
  /\ stored \subseteq Foreign /\ shown \subseteq Foreign /\ spilled \subseteq Foreign
  /\ muted \subseteq Foreign /\ missed \subseteq Foreign
  /\ inbox \in [Thread -> Seq(Foreign)]

PlainTypes ==
  /\ Len(messages) <= MaxMessages
  /\ archived \subseteq Thread /\ panes \subseteq Thread /\ unheard \subseteq Thread
  /\ link \in {"down", "open", "up"} /\ synced \in BOOLEAN
  /\ IsFiniteSet(lost) /\ Cardinality(lost) <= MaxLost
  /\ cuts \in Nat /\ cuts <= MaxCuts /\ failures \in Nat /\ failures <= MaxFailures
  /\ acts \in Nat /\ acts <= MaxActs

StateTypes == GoodThreads(file.threads) /\ TasksTyped /\ ForeignSets /\ PlainTypes

(* The total of a list of summaries is a number. *)
LEMMA TotalIsNat ==
  ASSUME NEW th, GoodThreads(th)
  PROVE  Total(th) \in Nat
<1> DEFINE active == {t \in DOMAIN th : ~th[t].archived}
           f == [t \in active |-> {t} \X (1..th[t].unread)]
           parts == {{t} \X (1..th[t].unread) : t \in active}
<1>1. IsFiniteSet(active)
  BY FS_Subset DEF GoodThreads
<1>2. f \in Surjection(active, parts)
  BY DEF Surjection
<1>3. IsFiniteSet(parts)
  BY <1>1, <1>2, FS_Surjection
<1>4. ASSUME NEW t \in active
      PROVE  IsFiniteSet({t} \X (1..th[t].unread))
  <2>1. th[t].unread \in Int
    BY DEF GoodThreads, Summary
  <2>2. \A u \in Int : IsFiniteSet(1..u)
    BY FS_Interval
  <2>3. IsFiniteSet(1..th[t].unread) /\ IsFiniteSet({t})
    BY <2>1, <2>2, FS_Singleton
  <2> QED
    BY <2>3, FS_Product
<1>5. IsFiniteSet(UNION parts)
  BY <1>3, <1>4, FS_UNION
<1>6. Total(th) = Cardinality(UNION parts)
  BY DEF Total
<1> QED
  BY <1>5, <1>6, FS_CardinalityType

(* The others' messages are finitely many, and stay theirs. *)
LEMMA ForeignFacts ==
  ASSUME MessagesGood
  PROVE  /\ Len(messages) \in Nat /\ DOMAIN messages = 1..Len(messages)
         /\ Foreign \subseteq 1..Len(messages) /\ IsFiniteSet(Foreign)
         /\ \A s \in DOMAIN messages : messages[s] \in Message
<1>1. Len(messages) \in Nat /\ DOMAIN messages = 1..Len(messages)
      /\ \A s \in DOMAIN messages : messages[s] \in Message
  BY LenProperties, ElementOfSeq DEF MessagesGood
<1>2. Foreign \subseteq 1..Len(messages)
  BY <1>1 DEF Foreign
<1>3. IsFiniteSet(1..Len(messages))
  BY <1>1, FS_Interval
<1> QED
  BY <1>1, <1>2, <1>3, FS_Subset

LEMMA UnreadFinite ==
  ASSUME MessagesGood, NEW t
  PROVE  IsFiniteSet(Unread(t)) /\ Cardinality(Unread(t)) \in Nat
<1>1. IsFiniteSet(Foreign) /\ Unread(t) \in SUBSET Foreign
  BY ForeignFacts DEF Unread
<1>2. IsFiniteSet(Unread(t))
  BY <1>1, FS_Subset
<1> QED
  BY <1>2, FS_CardinalityType

(* The relay's answer. *)
LEMMA ListingTyped ==
  ASSUME MessagesGood
  PROVE  GoodThreads(Listing)
<1>1. \A t : Cardinality(Unread(t)) \in Nat
  BY UnreadFinite
<1>2. \A t : [unread |-> Cardinality(Unread(t)), archived |-> t \in archived] \in Summary
  BY <1>1 DEF Summary
<1> QED
  BY <1>2 DEF Listing, GoodThreads

LEMMA BumpTyped ==
  ASSUME NEW th, GoodThreads(th), NEW t \in Thread, NEW n \in Nat
  PROVE  GoodThreads(Bump(th, t, n))
<1>1. \A s \in Summary : [s EXCEPT !.unread = @ + n] \in Summary
  BY DEF Summary
<1>2. [unread |-> n, archived |-> FALSE] \in Summary
  BY DEF Summary
<1>3. \A x \in DOMAIN th : th[x] \in Summary
  BY DEF GoodThreads
<1>4. /\ DOMAIN Bump(th, t, n) = DOMAIN th \union {t}
      /\ \A x \in DOMAIN th \union {t} : Bump(th, t, n)[x] =
           IF x # t THEN th[x]
           ELSE IF t \in DOMAIN th THEN [th[t] EXCEPT !.unread = @ + n]
           ELSE [unread |-> n, archived |-> FALSE]
  BY DEF Bump
<1>5. \A x \in DOMAIN th \union {t} : Bump(th, t, n)[x] \in Summary
  BY <1>1, <1>2, <1>3, <1>4
<1>6. Bump(th, t, n) = [x \in DOMAIN th \union {t} |-> Bump(th, t, n)[x]]
  BY DEF Bump
<1> QED
  BY <1>4, <1>5, <1>6 DEF GoodThreads

LEMMA AckedTyped ==
  ASSUME NEW s, GoodThreads(s.threads), NEW t
  PROVE  GoodThreads(Acked(s, t).threads)
<1>1. \A x \in Summary : [x EXCEPT !.unread = 0] \in Summary
  BY DEF Summary
<1>2. Acked(s, t).threads = [x \in DOMAIN s.threads |->
        IF x = t THEN [s.threads[x] EXCEPT !.unread = 0] ELSE s.threads[x]]
  BY DEF Acked
<1>3. \A x \in DOMAIN s.threads : s.threads[x] \in Summary
  BY DEF GoodThreads
<1> QED
  BY <1>1, <1>2, <1>3 DEF GoodThreads

(* Messages and the others' messages only get more. *)
LEMMA ForeignGrows ==
  ASSUME MessagesGood,
         \/ messages' = messages
         \/ \E m \in Message : messages' = Append(messages, m)
  PROVE  Foreign \subseteq Foreign'
<1>1. CASE messages' = messages
  BY <1>1 DEF Foreign
<1>2. ASSUME NEW m \in Message, messages' = Append(messages, m)
      PROVE  Foreign \subseteq Foreign'
  <2>1. /\ DOMAIN messages' = 1..(Len(messages) + 1) /\ DOMAIN messages = 1..Len(messages)
        /\ \A s \in 1..Len(messages) : messages'[s] = messages[s]
        /\ Len(messages) \in Nat
    BY <1>2, ForeignFacts DEF MessagesGood
  <2> QED
    BY <2>1 DEF Foreign
<1> QED
  BY <1>1, <1>2

LEMMA StepMessages ==
  ASSUME [Next]_vars
  PROVE  \/ messages' = messages
         \/ \E m \in Message : messages' = Append(messages, m)
<1> USE DEF relayVars
<1>1. ASSUME NEW t \in Thread, NEW mine \in BOOLEAN, Post(t, mine)
      PROVE  \E m \in Message : messages' = Append(messages, m)
  BY <1>1 DEF Post, Message
<1>2. ASSUME NEW m \in Seq1,
             LosePush(m) \/ RouteStart(m) \/ RouteAppend(m) \/ RouteUpdate(m) \/ RouteWrite(m)
      PROVE  messages' = messages
  BY <1>2 DEF LosePush, RouteStart, RouteAppend, RouteUpdate, RouteWrite
<1>3. ASSUME NEW i \in SyncTask,
             \/ Connect(i) \/ Hello(i) \/ SyncList(i) \/ SyncRead(i)
             \/ SyncUpdate(i) \/ SyncWrite(i) \/ SyncFail(i)
             \/ \E t \in Thread : SyncFetch(i, t)
             \/ \E m \in Seq1 : SyncAppend(i, m)
      PROVE  messages' = messages
  BY <1>3 DEF Connect, Hello, SyncList, SyncRead, SyncUpdate, SyncWrite, SyncFail, SyncFetch, SyncAppend
<1>4. ASSUME NEW t \in Thread,
             \/ AckStart(t) \/ AckMark(t) \/ AckUpdate(t) \/ AckWrite(t)
             \/ DrainRead(t) \/ DrainUnlink(t) \/ DrainReturn(t)
             \/ TogglePane(t) \/ ToggleArchive(t)
      PROVE  messages' = messages
  BY <1>4 DEF AckStart, AckMark, AckUpdate, AckWrite, DrainRead, DrainUnlink, DrainReturn,
              TogglePane, ToggleArchive
<1>5. CASE Disconnect \/ Crash \/ UNCHANGED vars
  BY <1>5 DEF Disconnect, Crash, vars
<1> QED
  BY <1>1, <1>2, <1>3, <1>4, <1>5 DEF Next

LEMMA PlainStep ==
  ASSUME MessagesGood, PlainTypes, [Next]_vars
  PROVE  PlainTypes'
<1> USE DEF relayVars, ghostVars, boundVars
<1>b. /\ MaxCuts \in Nat /\ MaxFailures \in Nat /\ MaxActs \in Nat /\ MaxLost \in Nat
      /\ MaxMessages \in Nat
  OBVIOUS
<1>1. ASSUME NEW t \in Thread, NEW mine \in BOOLEAN, Post(t, mine)
      PROVE  PlainTypes'
  <2>1. [thread |-> t, mine |-> mine] \in Message
    BY DEF Message
  <2>2. Len(messages') = Len(messages) + 1 /\ Len(messages) \in Nat
    BY <1>1, <2>1, AppendProperties, ForeignFacts DEF Post, MessagesGood
  <2>3. Len(messages') <= MaxMessages
    BY <1>1, <1>b, <2>2 DEF Post
  <2> QED
    BY <1>1, <2>3 DEF Post, PlainTypes
<1>2. ASSUME NEW m \in Seq1, LosePush(m)
      PROVE  PlainTypes'
  <2>1. IsFiniteSet(lost') /\ Cardinality(lost') <= MaxLost
    <3>1. CASE lost' = lost
      BY <3>1 DEF PlainTypes
    <3>2. CASE lost' = lost \union {m} /\ Cardinality(lost) < MaxLost
      <4>1. IsFiniteSet(lost) /\ Cardinality(lost) \in Nat
        BY FS_CardinalityType DEF PlainTypes
      <4>2. /\ IsFiniteSet(lost \union {m})
            /\ \/ m \in lost /\ Cardinality(lost \union {m}) = Cardinality(lost)
               \/ m \notin lost /\ Cardinality(lost \union {m}) = Cardinality(lost) + 1
        BY <4>1, FS_AddElement
      <4> QED
        BY <1>b, <3>2, <4>1, <4>2
    <3> QED
      BY <1>2, <3>1, <3>2 DEF LosePush
  <2>2. synced' \in BOOLEAN
    BY <1>2 DEF LosePush, PlainTypes
  <2> QED
    BY <1>2, <2>1, <2>2 DEF LosePush, PlainTypes
<1>3. ASSUME NEW m \in Seq1, RouteStart(m) \/ RouteAppend(m) \/ RouteUpdate(m) \/ RouteWrite(m)
      PROVE  PlainTypes'
  BY <1>3 DEF RouteStart, RouteAppend, RouteUpdate, RouteWrite, PlainTypes
<1>4. ASSUME NEW i \in SyncTask, Connect(i) \/ Hello(i) \/ SyncWrite(i)
      PROVE  PlainTypes'
  BY <1>4 DEF Connect, Hello, SyncWrite, PlainTypes
<1>5. ASSUME NEW i \in SyncTask,
             \/ SyncList(i) \/ SyncRead(i) \/ SyncUpdate(i)
             \/ \E t \in Thread : SyncFetch(i, t)
             \/ \E m \in Seq1 : SyncAppend(i, m)
      PROVE  PlainTypes'
  BY <1>5 DEF SyncList, SyncRead, SyncUpdate, SyncFetch, SyncAppend, PlainTypes
<1>6. ASSUME NEW i \in SyncTask, SyncFail(i)
      PROVE  PlainTypes'
  <2>1. failures' \in Nat /\ failures' <= MaxFailures
    BY <1>6, <1>b DEF SyncFail, Fail, PlainTypes
  <2> QED
    BY <1>6, <2>1 DEF SyncFail, PlainTypes
<1>7. ASSUME NEW t \in Thread, AckMark(t)
      PROVE  PlainTypes'
  <2>1. failures' \in Nat /\ failures' <= MaxFailures
    BY <1>7, <1>b DEF AckMark, Fail, PlainTypes
  <2>2. unheard' \subseteq Thread
    BY <1>7 DEF AckMark, PlainTypes
  <2> QED
    BY <1>7, <2>1, <2>2 DEF AckMark, PlainTypes
<1>8. ASSUME NEW t \in Thread, AckUpdate(t) \/ AckWrite(t) \/ DrainUnlink(t) \/ DrainReturn(t)
      PROVE  PlainTypes'
  BY <1>8 DEF AckUpdate, AckWrite, DrainUnlink, DrainReturn, PlainTypes
<1>9. ASSUME NEW t \in Thread, AckStart(t) \/ DrainRead(t) \/ TogglePane(t) \/ ToggleArchive(t)
      PROVE  PlainTypes'
  <2>1. acts' \in Nat /\ acts' <= MaxActs
    BY <1>9, <1>b DEF AckStart, DrainRead, TogglePane, ToggleArchive, UserActs, Act, PlainTypes
  <2>2. panes' \subseteq Thread /\ archived' \subseteq Thread
    BY <1>9 DEF AckStart, DrainRead, TogglePane, ToggleArchive, PlainTypes
  <2> QED
    BY <1>9, <2>1, <2>2 DEF AckStart, DrainRead, TogglePane, ToggleArchive, PlainTypes
<1>10. CASE Disconnect \/ Crash
  <2>1. cuts' \in Nat /\ cuts' <= MaxCuts
    BY <1>10, <1>b DEF Disconnect, Crash, Cut, PlainTypes
  <2> QED
    BY <1>10, <2>1 DEF Disconnect, Crash, PlainTypes
<1>11. CASE UNCHANGED vars
  BY <1>11 DEF vars, PlainTypes
<1> QED
  BY <1>1, <1>2, <1>3, <1>4, <1>5, <1>6, <1>7, <1>8, <1>9, <1>10, <1>11 DEF Next

(* A message put in a pane inbox is somebody else's. *)
LEMMA AppendTyped ==
  ASSUME ForeignSets, NEW m \in Foreign, AppendToInbox(m), messages' = messages
  PROVE  /\ inbox' \in [Thread -> Seq(Foreign')] /\ stored' \subseteq Foreign'
         /\ spilled' \subseteq Foreign'
<1>1. Foreign' = Foreign
  BY DEF Foreign
<1>2. \A t \in Thread : Append(inbox[t], m) \in Seq(Foreign)
  BY AppendProperties DEF ForeignSets
<1>3. inbox' = [inbox EXCEPT ![messages[m].thread] = Append(@, m)]
  BY DEF AppendToInbox
<1>4. stored' = stored \union {m} /\ spilled' \subseteq spilled \union {m}
  BY DEF AppendToInbox
<1>5. inbox' \in [Thread -> Seq(Foreign)]
  <2> DEFINE S == Seq(Foreign)
  <2>1. inbox \in [Thread -> S]
    BY DEF ForeignSets
  <2>2. \A t \in Thread : Append(inbox[t], m) \in S
    BY <1>2
  <2> HIDE DEF S
  <2> QED
    BY <1>3, <2>1, <2>2 DEF S
<1> QED
  BY <1>1, <1>4, <1>5 DEF ForeignSets

(* What is kept of somebody else's messages stays so. *)
LEMMA ForeignSetsStep ==
  ASSUME FilesInv, ForeignSets, TasksTyped, [Next]_vars
  PROVE  ForeignSets'
<1> USE DEF relayVars, fileVars, ghostVars, boundVars
<1>0. MessagesGood
  BY DEF FilesInv
<1>1. ASSUME NEW t \in Thread, NEW mine \in BOOLEAN, Post(t, mine)
      PROVE  ForeignSets'
  <2> DEFINE new == [thread |-> t, mine |-> mine]
  <2>1. messages' = Append(messages, new) /\ new \in Message
    BY <1>1 DEF Post, Message
  <2>2. Foreign \subseteq Foreign'
    BY <1>0, <2>1, ForeignGrows
  <2>3. pushes' \subseteq Foreign'
    <3>1. CASE mine
      BY <1>1, <2>2, <3>1 DEF Post, ForeignSets
    <3>2. CASE ~mine
      <4>1. /\ Len(messages) \in Nat /\ DOMAIN messages' = 1..(Len(messages) + 1)
            /\ messages'[Len(messages) + 1] = new
        BY <2>1, <1>0, ForeignFacts DEF MessagesGood
      <4>2. Len(messages) + 1 \in Foreign'
        BY <3>2, <4>1 DEF Foreign
      <4> QED
        BY <1>1, <2>2, <3>2, <4>2 DEF Post, ForeignSets
    <3> QED
      BY <3>1, <3>2
  <2>4. inbox' \in [Thread -> Seq(Foreign')]
    <3>1. \A s \in Seq(Foreign) : s \in Seq(Foreign')
      BY <2>2, SeqMonotonic
    <3> QED
      BY <1>1, <3>1 DEF Post, ForeignSets
  <2> QED
    BY <1>1, <2>2, <2>3, <2>4 DEF Post, ForeignSets
(* The other steps send no message. *)
<1>2. ASSUME messages' = messages,
             UNCHANGED inbox \/ inbox' \in [Thread -> Seq(Foreign')],
             \A s \in {<<reads, reads'>>, <<pushes, pushes'>>, <<lost, lost'>>, <<stored, stored'>>,
                       <<shown, shown'>>, <<spilled, spilled'>>, <<muted, muted'>>,
                       <<missed, missed'>>} :
               s[2] \subseteq s[1] \union Foreign
      PROVE  ForeignSets'
  <2>1. Foreign' = Foreign
    BY <1>2 DEF Foreign
  <2>2. /\ reads' \subseteq reads \union Foreign /\ pushes' \subseteq pushes \union Foreign
        /\ lost' \subseteq lost \union Foreign /\ stored' \subseteq stored \union Foreign
        /\ shown' \subseteq shown \union Foreign /\ muted' \subseteq muted \union Foreign
        /\ missed' \subseteq missed \union Foreign /\ spilled' \subseteq spilled \union Foreign
    BY <1>2
  <2>3. inbox' \in [Thread -> Seq(Foreign')]
    BY <1>2, <2>1 DEF ForeignSets
  <2> QED
    BY <2>1, <2>2, <2>3 DEF ForeignSets
<1>3. ASSUME NEW m \in Seq1, LosePush(m)
      PROVE  ForeignSets'
  BY <1>2, <1>3 DEF LosePush, ForeignSets
<1>4. ASSUME NEW m \in Seq1, RouteStart(m) \/ RouteWrite(m)
      PROVE  ForeignSets'
  BY <1>2, <1>4 DEF RouteStart, RouteWrite
<1>5. ASSUME NEW m \in Seq1, RouteAppend(m)
      PROVE  ForeignSets'
  <2>1. m \in Foreign
    BY <1>5 DEF RouteAppend, TasksTyped, RouteTyped
  <2>2. inbox' \in [Thread -> Seq(Foreign')]
    BY <1>5, <2>1, AppendTyped DEF RouteAppend
  <2> QED
    BY <1>2, <1>5, <2>1, <2>2 DEF RouteAppend, AppendToInbox
<1>6. ASSUME NEW m \in Seq1, RouteUpdate(m)
      PROVE  ForeignSets'
  <2>1. m \in Foreign
    BY <1>6 DEF RouteUpdate, FilesInv, RoutingGood, GoodRoute, NoTask, GoodWrite, Writing, ForeignSets
  <2> QED
    BY <1>2, <1>6, <2>1 DEF RouteUpdate
<1>7. ASSUME NEW i \in SyncTask,
             \/ Connect(i) \/ Hello(i) \/ SyncList(i) \/ SyncRead(i)
             \/ SyncUpdate(i) \/ SyncWrite(i)
             \/ \E t \in Thread : SyncFetch(i, t)
      PROVE  ForeignSets'
  <2>1. UNCHANGED <<messages, reads, pushes, lost, stored, shown, spilled, muted, missed, inbox>>
    <3>1. CASE Connect(i) \/ Hello(i) \/ SyncWrite(i)
      BY <3>1 DEF Connect, Hello, SyncWrite
    <3>2. CASE SyncList(i) \/ SyncRead(i) \/ SyncUpdate(i)
      BY <3>2 DEF SyncList, SyncRead, SyncUpdate
    <3>3. CASE \E t \in Thread : SyncFetch(i, t)
      BY <3>3 DEF SyncFetch
    <3> QED
      BY <1>7, <3>1, <3>2, <3>3
  <2> QED
    BY <1>2, <2>1
<1>8. ASSUME NEW i \in SyncTask, SyncFail(i)
      PROVE  ForeignSets'
  BY <1>2, <1>8 DEF SyncFail
<1>9. ASSUME NEW i \in SyncTask, NEW m \in Seq1, SyncAppend(i, m)
      PROVE  ForeignSets'
  <2>1. m \in Foreign
    BY <1>9 DEF SyncAppend, Fetched, Loaded, TasksTyped, SyncTyped
  <2>2. inbox' \in [Thread -> Seq(Foreign')]
    BY <1>9, <2>1, AppendTyped DEF SyncAppend
  <2> QED
    BY <1>2, <1>9, <2>1, <2>2 DEF SyncAppend, AppendToInbox
<1>10. ASSUME NEW t \in Thread,
              \/ AckStart(t) \/ AckMark(t) \/ AckUpdate(t) \/ AckWrite(t)
              \/ DrainRead(t) \/ TogglePane(t) \/ ToggleArchive(t)
       PROVE  ForeignSets'
  <2>1. CASE AckMark(t)
    BY <1>2, <2>1 DEF AckMark
  <2> QED
    BY <1>2, <1>10, <2>1 DEF AckStart, AckUpdate, AckWrite, DrainRead, TogglePane, ToggleArchive
<1>h. \A t \in Thread : InHand(t) \subseteq Foreign
  <2> SUFFICES ASSUME NEW t \in Thread, draining[t].pc = "return" PROVE InHand(t) \subseteq Foreign
    BY DEF InHand
  <2>1. draining[t].entries \in Seq(Foreign)
    BY DEF TasksTyped, DrainTyped, NoTask
  <2> QED
    BY <2>1, LenProperties DEF InHand
<1>11. ASSUME NEW t \in Thread, DrainUnlink(t)
       PROVE  ForeignSets'
  <2>1. inbox' \in [Thread -> Seq(Foreign')]
    <3>1. Foreign' = Foreign
      BY <1>11 DEF DrainUnlink, Foreign
    <3>2. <<>> \in Seq(Foreign)
      BY EmptySeq
    <3> QED
      BY <1>11, <3>1, <3>2 DEF DrainUnlink, ForeignSets
  <2> QED
    BY <1>2, <1>11, <2>1 DEF DrainUnlink
<1>12. ASSUME NEW t \in Thread, DrainReturn(t)
       PROVE  ForeignSets'
  BY <1>2, <1>h, <1>12 DEF DrainReturn
<1>13. CASE Crash
  BY <1>2, <1>h, <1>13 DEF Crash
<1>14. CASE Disconnect \/ UNCHANGED vars
  BY <1>2, <1>14 DEF Disconnect, vars
<1> QED
  BY <1>1, <1>3, <1>4, <1>5, <1>6, <1>7, <1>8, <1>9, <1>10, <1>11, <1>12, <1>13, <1>14 DEF Next

(* Handlers keep their types while others work. *)
LEMMA LocalTyped ==
  ASSUME TasksTyped, Foreign \subseteq Foreign', DOMAIN draining' = Thread,
         \A m \in Seq1 : routing'[m] = routing[m] \/ RouteTyped(m, routing'[m], Foreign'),
         \A i \in SyncTask : syncing'[i] = syncing[i] \/ SyncTyped(syncing'[i], Foreign'),
         \A t \in Thread : acking'[t] = acking[t] \/ AckTyped(acking'[t]),
         \A t \in Thread : draining'[t] = draining[t] \/ DrainTyped(draining'[t], Foreign')
  PROVE  TasksTyped'
<1>1. \A m \in Seq1 : RouteTyped(m, routing[m], Foreign')
  BY DEF TasksTyped, RouteTyped
<1>2. \A i \in SyncTask : SyncTyped(syncing[i], Foreign')
  BY DEF TasksTyped, SyncTyped
<1>3. \A t \in Thread : DrainTyped(draining[t], Foreign')
  <2>1. \A s \in Seq(Foreign) : s \in Seq(Foreign')
    BY SeqMonotonic
  <2> QED
    BY <2>1 DEF TasksTyped, DrainTyped
<1>4. \A t \in Thread : AckTyped(acking[t])
  BY DEF TasksTyped
<1>5. \A m \in Seq1 : RouteTyped(m, routing'[m], Foreign')
  BY <1>1
<1>6. \A i \in SyncTask : SyncTyped(syncing'[i], Foreign')
  BY <1>2
<1>7. \A t \in Thread : AckTyped(acking'[t])
  BY <1>4
<1>8. \A t \in Thread : DrainTyped(draining'[t], Foreign')
  BY <1>3
<1> QED
  BY <1>5, <1>6, <1>7, <1>8 DEF TasksTyped

(* What is written has its type. *)
LEMMA NothingTyped ==
  /\ \A m, n : RouteTyped(m, NoTask, n)
  /\ \A n : SyncTyped(NoTask, n) /\ SyncTyped(Loading, n) /\ DrainTyped(NoTask, n)
  /\ AckTyped(NoTask)
BY DEF RouteTyped, SyncTyped, DrainTyped, AckTyped, NoTask, Loading

LEMMA WritingTyped ==
  ASSUME NEW s, GoodThreads(s.threads)
  PROVE  /\ \A m, n : RouteTyped(m, Writing(s), n)
         /\ \A n : SyncTyped(Writing(s), n)
         /\ AckTyped(Writing(s))
BY DEF RouteTyped, SyncTyped, AckTyped, Writing

LEMMA RouteTypes ==
  ASSUME FilesInv, GoodThreads(file.threads), TasksTyped, ForeignSets,
         NEW m \in Seq1,
         RouteStart(m) \/ RouteAppend(m) \/ RouteUpdate(m) \/ RouteWrite(m)
  PROVE  GoodThreads(file'.threads) /\ TasksTyped'
<1> USE DEF relayVars, fileVars
<1>1. /\ messages' = messages /\ UNCHANGED <<syncing, acking, draining>>
      /\ Foreign' = Foreign /\ DOMAIN draining = Thread
      /\ DOMAIN routing = Seq1
  <2>1. messages' = messages /\ UNCHANGED <<syncing, acking, draining>>
    BY DEF RouteStart, RouteAppend, RouteUpdate, RouteWrite
  <2> QED
    BY <2>1 DEF Foreign, TasksTyped, FilesInv, RoutingGood
<1>2. ASSUME NEW r, routing' = [routing EXCEPT ![m] = r], RouteTyped(m, r, Foreign)
      PROVE  TasksTyped'
  BY <1>1, <1>2, LocalTyped
<1>3. CASE RouteStart(m)
  <2> DEFINE r == [pc |-> "append", paneOpen |-> messages[m].thread \in panes]
  <2>1. RouteTyped(m, r, Foreign)
    BY <1>3 DEF RouteStart, RouteTyped, ForeignSets
  <2> QED
    BY <1>2, <1>3, <2>1 DEF RouteStart
<1>4. CASE RouteAppend(m)
  <2> DEFINE r == [routing[m] EXCEPT !.pc = "update"]
  <2>1. routing[m] = [pc |-> "append", paneOpen |-> routing[m].paneOpen]
    BY <1>4 DEF RouteAppend, FilesInv, RoutingGood, GoodRoute, NoTask, GoodWrite, Writing
  <2>2. RouteTyped(m, r, Foreign)
    BY <2>1 DEF RouteTyped
  <2>3. routing' = [routing EXCEPT ![m] = r] /\ UNCHANGED file
    BY <1>1, <1>4 DEF RouteAppend
  <2> HIDE DEF r
  <2> QED
    BY <1>2, <2>2, <2>3
<1>5. CASE RouteUpdate(m)
  <2> DEFINE s == Routed(file, m, routing[m].paneOpen)
  <2>1. m \in Foreign
    BY <1>5 DEF RouteUpdate, FilesInv, RoutingGood, GoodRoute, NoTask, GoodWrite, Writing, ForeignSets
  <2>2. messages[m].thread \in Thread
    BY <2>1, ForeignFacts DEF FilesInv, Foreign, Message
  <2>3. GoodThreads(s.threads)
    <3>1. s.threads = Bump(file.threads, messages[m].thread, IF routing[m].paneOpen THEN 0 ELSE 1)
      BY DEF Routed
    <3> QED
      BY <2>2, <3>1, BumpTyped
  <2>4. RouteTyped(m, Writing(s), Foreign)
    BY <2>3, WritingTyped
  <2>5. routing' = [routing EXCEPT ![m] = Writing(s)] /\ UNCHANGED file
    BY <1>5 DEF RouteUpdate
  <2> HIDE DEF s
  <2> QED
    BY <1>2, <2>4, <2>5
<1>6. CASE RouteWrite(m)
  <2>1. GoodThreads(file'.threads)
    BY <1>6 DEF RouteWrite, TasksTyped, RouteTyped
  <2> QED
    BY <1>2, <1>6, <2>1, NothingTyped DEF RouteWrite
<1> QED
  BY <1>3, <1>4, <1>5, <1>6

LEMMA AckTypes ==
  ASSUME FilesInv, GoodThreads(file.threads), TasksTyped, ForeignSets,
         NEW t \in Thread,
         \/ AckStart(t) \/ AckMark(t) \/ AckUpdate(t) \/ AckWrite(t)
         \/ DrainRead(t) \/ DrainUnlink(t) \/ DrainReturn(t)
  PROVE  GoodThreads(file'.threads) /\ TasksTyped'
<1> USE DEF relayVars, fileVars
<1>1. /\ messages' = messages /\ UNCHANGED <<routing, syncing>>
      /\ Foreign' = Foreign /\ DOMAIN draining = Thread /\ DOMAIN acking = Thread
  <2>1. messages' = messages /\ UNCHANGED <<routing, syncing>>
    BY DEF AckStart, AckMark, AckUpdate, AckWrite, DrainRead, DrainUnlink, DrainReturn
  <2> QED
    BY <2>1 DEF Foreign, TasksTyped, FilesInv, AckingGood
<1>2. ASSUME NEW r, acking' = [acking EXCEPT ![t] = r], UNCHANGED draining, AckTyped(r)
      PROVE  TasksTyped'
  BY <1>1, <1>2, LocalTyped
<1>3. CASE AckStart(t)
  BY <1>2, <1>3 DEF AckStart, AckTyped
<1>4. CASE AckMark(t)
  <2>1. acking[t] = [pc |-> "mark"]
    BY <1>4 DEF AckMark, FilesInv, AckingGood, GoodAck, NoTask, GoodWrite, Writing
  <2>2. \/ acking' = [acking EXCEPT ![t] = [acking[t] EXCEPT !.pc = "update"]]
        \/ acking' = [acking EXCEPT ![t] = NoTask]
    BY <1>1, <1>4 DEF AckMark
  <2>3. AckTyped([acking[t] EXCEPT !.pc = "update"]) /\ AckTyped(NoTask)
    BY <2>1 DEF AckTyped, NoTask
  <2> QED
    BY <1>2, <1>4, <2>2, <2>3 DEF AckMark
<1>5. CASE AckUpdate(t)
  <2>1. AckTyped(Writing(Acked(file, t)))
    BY AckedTyped, WritingTyped
  <2> QED
    BY <1>2, <1>5, <2>1 DEF AckUpdate
<1>6. CASE AckWrite(t)
  <2>1. GoodThreads(file'.threads)
    BY <1>6 DEF AckWrite, TasksTyped, AckTyped
  <2> QED
    BY <1>2, <1>6, <2>1, NothingTyped DEF AckWrite
<1>7. CASE DrainRead(t)
  <2> DEFINE r == [pc |-> "unlink", entries |-> inbox[t]]
  <2>1. DrainTyped(r, Foreign)
    BY DEF DrainTyped, ForeignSets
  <2> QED
    BY <1>1, <1>7, <2>1, LocalTyped DEF DrainRead
<1>8. CASE DrainUnlink(t)
  <2> DEFINE r == [draining[t] EXCEPT !.pc = "return"]
  <2>1. /\ draining[t] = [pc |-> "unlink", entries |-> draining[t].entries]
        /\ draining[t].entries \in Seq(Foreign)
    BY <1>8 DEF DrainUnlink, TasksTyped, DrainTyped, NoTask
  <2>2. r = [pc |-> "return", entries |-> draining[t].entries]
    BY <2>1
  <2>3. DrainTyped(r, Foreign)
    BY <2>1, <2>2 DEF DrainTyped
  <2>4. draining' = [draining EXCEPT ![t] = r] /\ UNCHANGED <<file, acking>>
    BY <1>1, <1>8 DEF DrainUnlink
  <2> HIDE DEF r
  <2> QED
    BY <1>1, <2>3, <2>4, LocalTyped
<1>9. CASE DrainReturn(t)
  BY <1>1, <1>9, NothingTyped, LocalTyped DEF DrainReturn
<1> QED
  BY <1>3, <1>4, <1>5, <1>6, <1>7, <1>8, <1>9

LEMMA SyncTypes ==
  ASSUME FilesInv, GoodThreads(file.threads), TasksTyped,
         NEW i \in SyncTask,
         \/ Connect(i) \/ Hello(i) \/ SyncList(i) \/ SyncRead(i)
         \/ SyncUpdate(i) \/ SyncWrite(i) \/ SyncFail(i)
         \/ \E t \in Thread : SyncFetch(i, t)
         \/ \E m \in Seq1 : SyncAppend(i, m)
  PROVE  GoodThreads(file'.threads) /\ TasksTyped'
<1> USE DEF relayVars, fileVars
<1> DEFINE r == syncing[i]
<1>1. /\ messages' = messages /\ UNCHANGED <<routing, acking, draining>>
      /\ Foreign' = Foreign /\ DOMAIN draining = Thread /\ DOMAIN syncing = SyncTask
  <2>1. messages' = messages /\ UNCHANGED <<routing, acking, draining>>
    <3>1. CASE Connect(i) \/ Hello(i) \/ SyncWrite(i) \/ SyncFail(i)
      BY <3>1 DEF Connect, Hello, SyncWrite, SyncFail
    <3>2. CASE SyncList(i) \/ SyncRead(i) \/ SyncUpdate(i)
      BY <3>2 DEF SyncList, SyncRead, SyncUpdate
    <3>3. CASE \E t \in Thread : SyncFetch(i, t)
      BY <3>3 DEF SyncFetch
    <3>4. CASE \E m \in Seq1 : SyncAppend(i, m)
      BY <3>4 DEF SyncAppend
    <3> QED
      BY <3>1, <3>2, <3>3, <3>4
  <2> QED
    BY <2>1 DEF Foreign, TasksTyped, FilesInv, SyncingGood
<1>2. ASSUME NEW n, syncing' = [syncing EXCEPT ![i] = n], SyncTyped(n, Foreign)
      PROVE  TasksTyped'
  BY <1>1, <1>2, LocalTyped
<1>3. SyncTyped(r, Foreign)
  BY DEF TasksTyped
<1>4. r.pc = "load" => DOMAIN r = {"pc", "loaded", "list", "since", "backfill", "todo"}
  BY DEF FilesInv, SyncingGood, GoodSync, GoodLoad, GoodWrite, NoTask, Writing
<1>5. CASE Connect(i) \/ Hello(i)
  BY <1>2, <1>5, NothingTyped DEF Connect, Hello, StartSync
<1>6. CASE SyncList(i)
  <2> DEFINE n == [r EXCEPT !.list = Listing, !.loaded = @ \union {"list"}]
  <2>1. syncing' = [syncing EXCEPT ![i] = n] /\ r.pc = "load" /\ UNCHANGED file
    BY <1>1, <1>6 DEF SyncList
  <2>2. GoodThreads(Listing)
    BY ListingTyped DEF FilesInv
  <2>3. SyncTyped(n, Foreign)
    <3> HIDE DEF r
    <3>1. n.pc = "load" /\ n.list = Listing /\ n.todo = r.todo
      BY <1>4, <2>1
    <3> HIDE DEF n
    <3> QED
      BY <1>3, <2>1, <2>2, <3>1 DEF SyncTyped
  <2> HIDE DEF n
  <2> QED
    BY <1>2, <2>1, <2>3
<1>7. CASE SyncRead(i)
  <2> DEFINE n == [r EXCEPT !.since = file.lastSeen, !.loaded = @ \union {"state"}]
  <2>1. syncing' = [syncing EXCEPT ![i] = n] /\ r.pc = "load" /\ UNCHANGED file
    BY <1>1, <1>7 DEF SyncRead
  <2>2. SyncTyped(n, Foreign)
    <3> HIDE DEF r
    <3>1. n.pc = "load" /\ n.list = r.list /\ n.todo = r.todo
          /\ n.loaded = r.loaded \union {"state"}
      BY <1>4, <2>1
    <3> HIDE DEF n
    <3> QED
      BY <1>3, <2>1, <3>1 DEF SyncTyped
  <2> HIDE DEF n
  <2> QED
    BY <1>2, <2>1, <2>2
<1>8. ASSUME NEW t \in Thread, SyncFetch(i, t)
      PROVE  GoodThreads(file'.threads) /\ TasksTyped'
  <2> DEFINE since == r.since[t]
             fetched == {s \in InThread(t) : s > since}
  <2>1. PICK maxSeq \in fetched \union {since} :
          syncing' = [syncing EXCEPT
             ![i].backfill = [x \in DOMAIN @ \union {t} |-> IF x = t THEN maxSeq ELSE @[x]],
             ![i].todo = @ \union (fetched \intersect Foreign)]
    BY <1>8 DEF SyncFetch
  <2> DEFINE backfill == [x \in DOMAIN r.backfill \union {t} |->
                            IF x = t THEN maxSeq ELSE r.backfill[x]]
             todo == r.todo \union (fetched \intersect Foreign)
             n == [r EXCEPT !.backfill = backfill, !.todo = todo]
  <2>2. syncing' = [syncing EXCEPT ![i] = n] /\ r.pc = "load" /\ UNCHANGED file
    BY <1>1, <1>8, <2>1 DEF SyncFetch, Loaded
  <2>3. todo \subseteq Foreign
    BY <1>3, <2>2 DEF SyncTyped
  <2>4. SyncTyped(n, Foreign)
    <3> HIDE DEF r, todo, backfill
    <3>1. n.pc = "load" /\ n.list = r.list /\ n.todo = todo /\ n.loaded = r.loaded
      BY <1>4, <2>2
    <3> HIDE DEF n
    <3> QED
      BY <1>3, <2>2, <2>3, <3>1 DEF SyncTyped
  <2> HIDE DEF n
  <2> QED
    BY <1>2, <2>2, <2>4
<1>9. ASSUME NEW m \in Seq1, SyncAppend(i, m)
      PROVE  GoodThreads(file'.threads) /\ TasksTyped'
  <2> DEFINE todo == r.todo \ {m}
             n == [r EXCEPT !.todo = todo]
  <2>1. syncing' = [syncing EXCEPT ![i] = n] /\ r.pc = "load" /\ UNCHANGED file
    BY <1>1, <1>9 DEF SyncAppend, Fetched, Loaded
  <2>2. SyncTyped(n, Foreign)
    <3> HIDE DEF r
    <3>1. n.pc = "load" /\ n.list = r.list /\ n.todo = r.todo \ {m} /\ n.loaded = r.loaded
      BY <1>4, <2>1
    <3> HIDE DEF n
    <3> QED
      BY <1>3, <2>1, <3>1 DEF SyncTyped
  <2> HIDE DEF n
  <2> QED
    BY <1>2, <2>1, <2>2
<1>10. CASE SyncUpdate(i)
  <2> DEFINE s == Merged(file, r.list, r.backfill)
  <2>1. GoodThreads(s.threads)
    <3>1. s.threads = r.list
      BY DEF Merged
    <3> QED
      BY <1>3, <1>10, <3>1 DEF SyncUpdate, Fetched, Loaded, SyncTyped
  <2>2. SyncTyped(Writing(s), Foreign)
    BY <2>1, WritingTyped
  <2>3. syncing' = [syncing EXCEPT ![i] = Writing(s)] /\ UNCHANGED file
    BY <1>10 DEF SyncUpdate
  <2> HIDE DEF s
  <2> QED
    BY <1>2, <2>2, <2>3
<1>11. CASE SyncWrite(i)
  <2>1. GoodThreads(file'.threads)
    BY <1>3, <1>11 DEF SyncWrite, SyncTyped
  <2> QED
    BY <1>2, <1>11, <2>1, NothingTyped DEF SyncWrite
<1>12. CASE SyncFail(i)
  BY <1>2, <1>12, NothingTyped DEF SyncFail
<1> QED
  BY <1>5, <1>6, <1>7, <1>8, <1>9, <1>10, <1>11, <1>12

LEMMA TypesStep ==
  ASSUME FilesInv, StateTypes, [Next]_vars
  PROVE  StateTypes'
<1> USE DEF relayVars, fileVars, taskVars
<1>1. MessagesGood /\ TasksTyped /\ ForeignSets /\ PlainTypes /\ GoodThreads(file.threads)
  BY DEF FilesInv, StateTypes
<1>2. ForeignSets' /\ PlainTypes'
  BY <1>1, ForeignSetsStep, PlainStep
<1>3. Foreign \subseteq Foreign'
  BY <1>1, StepMessages, ForeignGrows
<1>4. GoodThreads(file'.threads) /\ TasksTyped'
  <2>1. ASSUME UNCHANGED <<file, routing, syncing, acking, draining>>
        PROVE  GoodThreads(file'.threads) /\ TasksTyped'
    <3>1. DOMAIN draining = Thread
      BY <1>1 DEF TasksTyped
    <3> QED
      BY <1>1, <1>3, <2>1, <3>1, LocalTyped
  <2>2. ASSUME NEW t \in Thread, NEW mine \in BOOLEAN, Post(t, mine)
        PROVE  GoodThreads(file'.threads) /\ TasksTyped'
    BY <2>1, <2>2 DEF Post
  <2>3. ASSUME NEW m \in Seq1,
               \/ LosePush(m) \/ RouteStart(m) \/ RouteAppend(m) \/ RouteUpdate(m)
               \/ RouteWrite(m)
        PROVE  GoodThreads(file'.threads) /\ TasksTyped'
    BY <1>1, <2>1, <2>3, RouteTypes DEF LosePush
  <2>4. ASSUME NEW i \in SyncTask,
               \/ Connect(i) \/ Hello(i) \/ SyncList(i) \/ SyncRead(i)
               \/ SyncUpdate(i) \/ SyncWrite(i) \/ SyncFail(i)
               \/ \E t \in Thread : SyncFetch(i, t)
               \/ \E m \in Seq1 : SyncAppend(i, m)
        PROVE  GoodThreads(file'.threads) /\ TasksTyped'
    BY <1>1, <2>4, SyncTypes
  <2>5. ASSUME NEW t \in Thread, TogglePane(t) \/ ToggleArchive(t)
        PROVE  GoodThreads(file'.threads) /\ TasksTyped'
    BY <2>1, <2>5 DEF TogglePane, ToggleArchive
  <2>6. ASSUME NEW t \in Thread,
               \/ AckStart(t) \/ AckMark(t) \/ AckUpdate(t) \/ AckWrite(t)
               \/ DrainRead(t) \/ DrainUnlink(t) \/ DrainReturn(t)
        PROVE  GoodThreads(file'.threads) /\ TasksTyped'
    BY <1>1, <2>6, AckTypes
  <2>7. CASE Disconnect \/ UNCHANGED vars
    BY <2>1, <2>7 DEF Disconnect, vars
  <2>8. CASE Crash
    <3>1. DOMAIN draining' = Thread /\ UNCHANGED file
      BY <2>8 DEF Crash
    <3> QED
      BY <1>1, <1>3, <2>8, <3>1, LocalTyped, NothingTyped DEF Crash
  <2> QED
    BY <2>2, <2>3, <2>4, <2>5, <2>6, <2>7, <2>8 DEF Next
<1>5. (GoodThreads(file.threads))'
  BY <1>4
<1> QED
  BY <1>2, <1>4, <1>5 DEF StateTypes

LEMMA InitTypes == Init => StateTypes
<1> SUFFICES ASSUME Init PROVE StateTypes
  OBVIOUS
<1>1. GoodThreads(file.threads)
  BY DEF Init, EmptyState, GoodThreads
<1>2. TasksTyped
  BY NothingTyped DEF Init, TasksTyped
<1>3. ForeignSets
  <2>1. <<>> \in Seq(Foreign)
    BY EmptySeq
  <2> QED
    BY <2>1 DEF Init, ForeignSets
<1>4. PlainTypes
  <2>1. IsFiniteSet(lost) /\ Cardinality(lost) = 0
    BY FS_EmptySet DEF Init
  <2>2. Len(messages) = 0
    BY EmptySeq DEF Init
  <2>3. /\ MaxCuts \in Nat /\ MaxFailures \in Nat /\ MaxActs \in Nat /\ MaxLost \in Nat
        /\ MaxMessages \in Nat
    OBVIOUS
  <2>4. /\ archived = {} /\ panes = {} /\ unheard = {} /\ link = "down" /\ synced = FALSE
        /\ cuts = 0 /\ failures = 0 /\ acts = 0
    BY DEF Init
  <2>5. /\ Len(messages) <= MaxMessages /\ Cardinality(lost) <= MaxLost
        /\ cuts <= MaxCuts /\ failures <= MaxFailures /\ acts <= MaxActs
    BY <2>1, <2>2, <2>3, <2>4
  <2> QED
    BY <2>1, <2>4, <2>5 DEF PlainTypes
<1> QED
  BY <1>1, <1>2, <1>3, <1>4 DEF StateTypes

(* Messages, files and handlers under way keep their types, whatever       *)
(* overlaps, fails or crashes: all that is kept, counted or read is a      *)
(* message of somebody else, and every total written is a number.          *)
THEOREM DaemonStateTypeOK == Spec => []TypeOK
<1>1. Init => FilesInv /\ StateTypes
  BY InitGood, InitTypes
<1>2. FilesInv /\ StateTypes /\ [Next]_vars => FilesInv' /\ StateTypes'
  BY StepGood, TypesStep
<1>3. FilesInv /\ StateTypes => TypeOK
  <2> SUFFICES ASSUME FilesInv, StateTypes PROVE TypeOK
    OBVIOUS
  <2>1. /\ file.lastSeen \in [Thread -> Nat]
        /\ file.unreadCount \in Nat
    BY TotalIsNat DEF FilesInv, GoodFile, GoodCursors, StateTypes
  <2>2. /\ DOMAIN file.threads \subseteq Thread
        /\ \A t \in DOMAIN file.threads : file.threads[t] \in Summary
    BY DEF StateTypes, GoodThreads
  <2>3. \A m \in Seq1 : routing[m].pc \in {"idle", "append", "update", "write"}
    BY DEF FilesInv, RoutingGood, GoodRoute, GoodWrite, NoTask, Writing
  <2>4. \A i \in SyncTask : syncing[i].pc \in {"idle", "load", "write"}
    BY DEF FilesInv, SyncingGood, GoodSync, GoodLoad, GoodWrite, NoTask, Writing
  <2>5. \A t \in Thread : acking[t].pc \in {"idle", "mark", "update", "write"}
    BY DEF FilesInv, AckingGood, GoodAck, GoodWrite, NoTask, Writing
  <2>6. \A t \in Thread : draining[t].pc \in {"idle", "unlink", "return"}
    BY DEF StateTypes, TasksTyped, DrainTyped, NoTask
  <2>7. /\ messages \in Seq(Message) /\ reads \subseteq Foreign /\ pushes \subseteq Foreign
        /\ inbox \in [Thread -> Seq(Foreign)] /\ lost \subseteq Foreign
        /\ {stored, shown, spilled, muted, missed} \subseteq SUBSET Foreign
    BY DEF FilesInv, MessagesGood, StateTypes, ForeignSets
  <2>8. PlainTypes
    BY DEF StateTypes
  <2> QED
    BY <2>1, <2>2, <2>3, <2>4, <2>5, <2>6, <2>7, <2>8 DEF TypeOK, PlainTypes
<1> QED
  BY <1>1, <1>2, <1>3, PTL DEF Spec

-----------------------------------------------------------------------------
(***************************************************************************)
(* Pane inboxes.  What a drain is about to unlink is what it has read, but *)
(* for what has spilled.                                                   *)
(***************************************************************************)
Taken(t) == {draining[t].entries[i] : i \in DOMAIN draining[t].entries}

DrainInv ==
  /\ DrainKeepsAll
  /\ \A t \in Thread : draining[t].pc = "unlink" => Lines(t) \subseteq Taken(t) \union spilled

LEMMA AppendKeeps ==
  ASSUME FilesInv, StateTypes, DrainInv, NEW m \in Foreign,
         AppendToInbox(m), UNCHANGED <<messages, shown, draining>>
  PROVE  DrainInv'
<1>1. PICK t0 \in Thread : t0 = messages[m].thread
  BY ForeignFacts DEF FilesInv, Foreign, Message
<1>2. inbox \in [Thread -> Seq(Foreign)]
  BY DEF StateTypes, ForeignSets
<1>3. /\ inbox' = [inbox EXCEPT ![t0] = Append(@, m)] /\ stored' = stored \union {m}
      /\ spilled \subseteq spilled' /\ (draining[t0].pc = "unlink" => m \in spilled')
  BY <1>1 DEF AppendToInbox
<1>4. Lines(t0)' = Lines(t0) \union {m}
  <2>1. inbox[t0] \in Seq(Foreign) /\ inbox'[t0] = Append(inbox[t0], m)
    BY <1>1, <1>2, <1>3
  <2>2. /\ Len(inbox[t0]) \in Nat /\ DOMAIN inbox[t0] = 1..Len(inbox[t0])
        /\ DOMAIN inbox'[t0] = 1..(Len(inbox[t0]) + 1)
        /\ \A i \in 1..Len(inbox[t0]) : inbox'[t0][i] = inbox[t0][i]
        /\ inbox'[t0][Len(inbox[t0]) + 1] = m
    BY <2>1, LenProperties, AppendProperties
  <2>3. ASSUME NEW x \in Lines(t0)' PROVE x \in Lines(t0) \union {m}
    <3>1. PICK i \in 1..(Len(inbox[t0]) + 1) : x = inbox'[t0][i]
      BY <2>2 DEF Lines
    <3>2. CASE i = Len(inbox[t0]) + 1
      BY <2>2, <3>1, <3>2
    <3>3. CASE i \in DOMAIN inbox[t0]
      BY <2>2, <3>1, <3>3 DEF Lines
    <3> QED
      BY <2>2, <3>2, <3>3
  <2>4. m \in Lines(t0)'
    <3>1. Len(inbox[t0]) + 1 \in DOMAIN inbox'[t0]
      BY <2>2
    <3> QED
      BY <2>2, <3>1 DEF Lines
  <2>5. ASSUME NEW x \in Lines(t0) PROVE x \in Lines(t0)'
    <3>1. PICK i \in DOMAIN inbox[t0] : x = inbox[t0][i]
      BY DEF Lines
    <3>2. i \in 1..Len(inbox[t0])
      BY <2>2, <3>1
    <3>3. inbox'[t0][i] = inbox[t0][i]
      BY <2>2, <3>2
    <3>4. i \in 1..(Len(inbox[t0]) + 1)
      BY <2>2, <3>2
    <3>5. i \in DOMAIN inbox'[t0] /\ x = inbox'[t0][i]
      BY <2>2, <3>1, <3>3, <3>4, Zenon
    <3> QED
      BY <3>5 DEF Lines
  <2> QED
    BY <2>3, <2>4, <2>5
<1>5. \A t \in Thread : t # t0 => Lines(t)' = Lines(t) /\ m \notin InThread(t)
  BY <1>1, <1>2, <1>3 DEF Lines, InThread
<1>6. \A t \in Thread : InThread(t)' = InThread(t) /\ InHand(t)' = InHand(t) /\ Taken(t)' = Taken(t)
  BY DEF InThread, InHand, Taken
<1>7. DrainKeepsAll'
  BY <1>3, <1>4, <1>5, <1>6 DEF DrainInv, DrainKeepsAll
<1>8. ASSUME NEW t \in Thread, draining'[t].pc = "unlink"
      PROVE  Lines(t)' \subseteq Taken(t)' \union spilled'
  <2>1. Lines(t) \subseteq Taken(t) \union spilled
    BY <1>8 DEF DrainInv
  <2>2. CASE t = t0
    BY <1>3, <1>4, <1>6, <1>8, <2>1, <2>2
  <2>3. CASE t # t0
    BY <1>3, <1>5, <1>6, <2>1, <2>3
  <2> QED
    BY <2>2, <2>3
<1> QED
  BY <1>7, <1>8 DEF DrainInv

(* No step loses a line. *)
LEMMA DrainStep ==
  ASSUME FilesInv, StateTypes, DrainInv, [Next]_vars
  PROVE  DrainInv'
<1> USE DEF relayVars, fileVars, taskVars, ghostVars
<1>d. DOMAIN draining = Thread /\ DOMAIN inbox = Thread
  BY DEF StateTypes, TasksTyped, ForeignSets
<1>a. ASSUME UNCHANGED <<messages, stored, inbox, shown, spilled, draining>>
      PROVE  DrainInv'
  <2>1. \A t \in Thread : /\ InThread(t)' = InThread(t) /\ Lines(t)' = Lines(t)
                          /\ InHand(t)' = InHand(t) /\ Taken(t)' = Taken(t)
    BY <1>a DEF InThread, Lines, InHand, Taken
  <2> QED
    BY <1>a, <2>1 DEF DrainInv, DrainKeepsAll
<1>1. ASSUME NEW t \in Thread, NEW mine \in BOOLEAN, Post(t, mine)
      PROVE  DrainInv'
  <2>1. UNCHANGED <<stored, inbox, shown, spilled, draining>>
    BY <1>1 DEF Post
  <2>2. /\ Len(messages) \in Nat /\ DOMAIN messages = 1..Len(messages)
        /\ DOMAIN messages' = 1..(Len(messages) + 1)
        /\ \A s \in 1..Len(messages) : messages'[s] = messages[s]
    BY <1>1, AppendProperties, ForeignFacts DEF Post, FilesInv, MessagesGood, Message
  <2>3. stored \subseteq DOMAIN messages
    BY DEF StateTypes, ForeignSets, Foreign
  <2>4. \A x \in Thread : stored \intersect InThread(x)' = stored \intersect InThread(x)
    BY <2>2, <2>3 DEF InThread
  <2>5. \A x \in Thread : /\ Lines(x)' = Lines(x) /\ InHand(x)' = InHand(x)
                          /\ Taken(x)' = Taken(x)
    BY <2>1 DEF Lines, InHand, Taken
  <2> QED
    BY <2>1, <2>4, <2>5 DEF DrainInv, DrainKeepsAll
<1>2. ASSUME NEW m \in Seq1, LosePush(m) \/ RouteStart(m) \/ RouteUpdate(m) \/ RouteWrite(m)
      PROVE  DrainInv'
  BY <1>2, <1>a DEF LosePush, RouteStart, RouteUpdate, RouteWrite
<1>3. ASSUME NEW m \in Seq1, RouteAppend(m)
      PROVE  DrainInv'
  <2>1. m \in Foreign
    BY <1>3 DEF RouteAppend, StateTypes, TasksTyped, RouteTyped
  <2> QED
    BY <1>3, <2>1, AppendKeeps DEF RouteAppend
<1>4. ASSUME NEW i \in SyncTask,
             \/ Connect(i) \/ Hello(i) \/ SyncList(i) \/ SyncRead(i)
             \/ SyncUpdate(i) \/ SyncWrite(i) \/ SyncFail(i)
             \/ \E t \in Thread : SyncFetch(i, t)
      PROVE  DrainInv'
  <2>1. CASE Connect(i) \/ Hello(i) \/ SyncWrite(i) \/ SyncFail(i)
    BY <1>a, <2>1 DEF Connect, Hello, SyncWrite, SyncFail
  <2>2. CASE SyncList(i) \/ SyncRead(i) \/ SyncUpdate(i)
    BY <1>a, <2>2 DEF SyncList, SyncRead, SyncUpdate
  <2>3. CASE \E t \in Thread : SyncFetch(i, t)
    BY <1>a, <2>3 DEF SyncFetch
  <2> QED
    BY <1>4, <2>1, <2>2, <2>3
<1>5. ASSUME NEW i \in SyncTask, NEW m \in Seq1, SyncAppend(i, m)
      PROVE  DrainInv'
  <2>1. m \in Foreign
    BY <1>5 DEF SyncAppend, Fetched, Loaded, StateTypes, TasksTyped, SyncTyped
  <2> QED
    BY <1>5, <2>1, AppendKeeps DEF SyncAppend
<1>6. ASSUME NEW t \in Thread,
             \/ AckStart(t) \/ AckMark(t) \/ AckUpdate(t) \/ AckWrite(t)
             \/ TogglePane(t) \/ ToggleArchive(t)
      PROVE  DrainInv'
  <2>1. CASE AckStart(t) \/ AckMark(t) \/ AckUpdate(t)
    BY <1>a, <2>1 DEF AckStart, AckMark, AckUpdate
  <2>2. CASE AckWrite(t) \/ TogglePane(t) \/ ToggleArchive(t)
    BY <1>a, <2>2 DEF AckWrite, TogglePane, ToggleArchive
  <2> QED
    BY <1>6, <2>1, <2>2
(* A drain's own steps leave the other threads alone. *)
<1>o. ASSUME NEW t \in Thread, UNCHANGED <<messages, stored>>,
             shown \subseteq shown', spilled \subseteq spilled',
             \A x \in Thread \ {t} : inbox'[x] = inbox[x] /\ draining'[x] = draining[x],
             stored \intersect InThread(t) \subseteq Lines(t)' \union InHand(t)' \union shown' \union spilled',
             draining'[t].pc = "unlink" => Lines(t)' \subseteq Taken(t)' \union spilled'
      PROVE  DrainInv'
  <2>1. \A x \in Thread : InThread(x)' = InThread(x)
    BY <1>o DEF InThread
  <2>2. \A x \in Thread \ {t} : /\ Lines(x)' = Lines(x) /\ InHand(x)' = InHand(x)
                                /\ Taken(x)' = Taken(x)
    BY <1>o DEF Lines, InHand, Taken
  <2>3. DrainKeepsAll'
    BY <1>o, <2>1, <2>2 DEF DrainInv, DrainKeepsAll
  <2> QED
    BY <1>o, <2>2, <2>3 DEF DrainInv
<1>k. \A t \in Thread : stored \intersect InThread(t)
                          \subseteq Lines(t) \union InHand(t) \union shown \union spilled
  BY DEF DrainInv, DrainKeepsAll
<1>7. ASSUME NEW t \in Thread, DrainRead(t)
      PROVE  DrainInv'
  <2>1. /\ UNCHANGED <<messages, stored, inbox, shown, spilled>> /\ draining[t].pc = "idle"
        /\ draining' = [draining EXCEPT ![t] = [pc |-> "unlink", entries |-> inbox[t]]]
    BY <1>7 DEF DrainRead
  <2>2. draining'[t] = [pc |-> "unlink", entries |-> inbox[t]]
    BY <1>d, <2>1
  <2>3. Lines(t)' = Lines(t) /\ Taken(t)' = Lines(t) /\ InHand(t) = {}
    BY <2>1, <2>2 DEF Lines, Taken, InHand
  <2> QED
    BY <1>d, <1>k, <1>o, <2>1, <2>3
<1>8. ASSUME NEW t \in Thread, DrainUnlink(t)
      PROVE  DrainInv'
  <2>1. /\ UNCHANGED <<messages, stored, shown, spilled>> /\ draining[t].pc = "unlink"
        /\ inbox' = [inbox EXCEPT ![t] = <<>>]
        /\ draining' = [draining EXCEPT ![t].pc = "return"]
    BY <1>8 DEF DrainUnlink
  <2>2. draining[t] = [pc |-> "unlink", entries |-> draining[t].entries]
    BY <2>1 DEF StateTypes, TasksTyped, DrainTyped, NoTask
  <2>3. draining'[t] = [pc |-> "return", entries |-> draining[t].entries]
    BY <1>d, <2>1, <2>2
  <2>4. InHand(t) = {} /\ InHand(t)' = Taken(t) /\ Lines(t) \subseteq Taken(t) \union spilled
    BY <2>1, <2>3 DEF InHand, Taken, DrainInv
  <2> QED
    BY <1>d, <1>k, <1>o, <2>1, <2>3, <2>4
<1>9. ASSUME NEW t \in Thread, DrainReturn(t)
      PROVE  DrainInv'
  <2>1. /\ UNCHANGED <<messages, stored, inbox>>
        /\ shown \subseteq shown' /\ spilled \subseteq spilled'
        /\ InHand(t) \subseteq shown' \union spilled'
        /\ draining' = [draining EXCEPT ![t] = NoTask]
    BY <1>9 DEF DrainReturn
  <2>2. Lines(t)' = Lines(t)
    BY <2>1 DEF Lines
  <2>3. draining'[t] = NoTask
    BY <1>d, <2>1
  <2> QED
    BY <1>d, <1>k, <1>o, <2>1, <2>2, <2>3 DEF NoTask
<1>10. CASE Disconnect \/ UNCHANGED vars
  BY <1>10, <1>a DEF Disconnect, vars
<1>11. CASE Crash
  <2>1. /\ UNCHANGED <<messages, stored, inbox, shown>>
        /\ spilled \subseteq spilled'
        /\ \A t \in Thread : InHand(t) \subseteq spilled' /\ draining'[t] = NoTask
    BY <1>11 DEF Crash
  <2>2. \A t \in Thread : InThread(t)' = InThread(t) /\ Lines(t)' = Lines(t)
    BY <2>1 DEF InThread, Lines
  <2>3. DrainKeepsAll'
    BY <1>k, <2>1, <2>2 DEF DrainKeepsAll
  <2> QED
    BY <2>1, <2>3 DEF DrainInv, NoTask
<1> QED
  BY <1>1, <1>2, <1>3, <1>4, <1>5, <1>6, <1>7, <1>8, <1>9, <1>10, <1>11 DEF Next

(* No line of a pane inbox is lost, but one appended between a drain's     *)
(* read and its unlink, or read by a drain that could not return it: for   *)
(* any threads, crashes and overlapping handlers.                          *)
THEOREM DaemonStateDrainKeepsAll == Spec => []DrainKeepsAll
<1>1. Init => FilesInv /\ StateTypes
  BY InitGood, InitTypes
<1>2. Init => DrainInv
  BY DEF Init, DrainInv, DrainKeepsAll, NoTask
<1>3. FilesInv /\ StateTypes /\ DrainInv /\ [Next]_vars => FilesInv' /\ StateTypes' /\ DrainInv'
  BY StepGood, TypesStep, DrainStep
<1>4. DrainInv => DrainKeepsAll
  BY DEF DrainInv
<1> QED
  BY <1>1, <1>2, <1>3, <1>4, PTL DEF Spec

-----------------------------------------------------------------------------
(* When ~Overlap.  Nothing below needs the constants' types. *)

HIDE DaemonStateAssumption

(* The handlers under way. *)
Busy(f) == {x \in DOMAIN f : f[x] # NoTask}
Routes == Busy(routing)
Syncs == Busy(syncing)
Acks == Busy(acking)

(* One writer of state.json at a time, but for syncs. *)
OneKind ==
  /\ pushes \subseteq {Len(messages)} /\ Routes \subseteq {Len(messages)}
  /\ pushes # {} => Routes = {}
  /\ pushes # {} \/ Routes # {} => Acks = {}
  /\ \A t, u \in Acks : t = u
  /\ Syncs # {} \/ link = "open" => pushes = {} /\ Routes = {} /\ Acks = {}
  /\ (pushes \union Routes) \intersect reads = {}

-----------------------------------------------------------------------------
LEMMA BusyFacts ==
  /\ \A S : Busy([x \in S |-> NoTask]) = {}
  /\ \A f, x, r : r # NoTask /\ x \in DOMAIN f
       => Busy([f EXCEPT ![x] = r]) = Busy(f) \union {x}
  /\ \A f, x : Busy([f EXCEPT ![x] = NoTask]) = Busy(f) \ {x}
BY DEF Busy

(* What the invariants of DaemonStateProofs say of the handlers' shapes. *)
LEMMA Shapes ==
  ASSUME FilesInv, StateTypes
  PROVE  /\ DOMAIN routing = Seq1 /\ DOMAIN syncing = SyncTask
         /\ DOMAIN acking = Thread /\ DOMAIN draining = Thread
         /\ \A m \in Seq1 : routing[m].pc = "idle" <=> routing[m] = NoTask
         /\ \A i \in SyncTask : syncing[i].pc = "idle" <=> syncing[i] = NoTask
         /\ \A t \in Thread : acking[t].pc = "idle" <=> acking[t] = NoTask
         /\ \A t \in Thread : draining[t].pc = "idle" <=> draining[t] = NoTask
<1>1. /\ DOMAIN routing = Seq1 /\ DOMAIN syncing = SyncTask
      /\ DOMAIN acking = Thread /\ DOMAIN draining = Thread
  BY DEF FilesInv, RoutingGood, SyncingGood, AckingGood, StateTypes, TasksTyped
<1>2. \A m \in Seq1 : routing[m].pc = "idle" <=> routing[m] = NoTask
  BY DEF FilesInv, RoutingGood, GoodRoute, GoodWrite, NoTask, Writing
<1>3. \A i \in SyncTask : syncing[i].pc = "idle" <=> syncing[i] = NoTask
  BY DEF FilesInv, SyncingGood, GoodSync, GoodLoad, GoodWrite, NoTask, Writing
<1>4. \A t \in Thread : acking[t].pc = "idle" <=> acking[t] = NoTask
  BY DEF FilesInv, AckingGood, GoodAck, GoodWrite, NoTask, Writing
<1>5. \A t \in Thread : draining[t].pc = "idle" <=> draining[t] = NoTask
  BY DEF StateTypes, TasksTyped, DrainTyped, NoTask
<1> QED
  BY <1>1, <1>2, <1>3, <1>4, <1>5

LEMMA QuietSets ==
  /\ Quiet => pushes = {} /\ Routes = {} /\ Acks = {}
  /\ Idle => pushes = {} /\ Routes = {} /\ Acks = {} /\ Syncs = {}
BY BusyFacts DEF Quiet, Idle, Routes, Acks, Syncs

(* What a step does to the sets of handlers under way. *)
LEMMA RouteSets ==
  ASSUME FilesInv, StateTypes, NEW m \in Seq1
  PROVE  /\ RouteStart(m) => Routes' = Routes \union {m}
         /\ RouteAppend(m) \/ RouteUpdate(m) => m \in Routes /\ Routes' = Routes
         /\ RouteWrite(m) => m \in Routes /\ Routes' = Routes \ {m}
<1>1. m \in DOMAIN routing /\ (routing[m].pc = "idle" <=> routing[m] = NoTask)
  BY Shapes
<1>2. ASSUME RouteStart(m) PROVE Routes' = Routes \union {m}
  <2>1. [pc |-> "append", paneOpen |-> messages[m].thread \in panes] # NoTask
    BY DEF NoTask
  <2> QED
    BY <1>1, <1>2, <2>1, BusyFacts DEF RouteStart, Routes
<1>3. ASSUME RouteAppend(m) PROVE m \in Routes /\ Routes' = Routes
  <2>1. m \in Routes /\ routing[m] = [pc |-> "append", paneOpen |-> routing[m].paneOpen]
    BY <1>1, <1>3 DEF RouteAppend, Routes, Busy, FilesInv, RoutingGood, GoodRoute, NoTask,
                      GoodWrite, Writing
  <2>2. [routing[m] EXCEPT !.pc = "update"] # NoTask
    BY <2>1 DEF NoTask
  <2>3. routing' = [routing EXCEPT ![m] = [routing[m] EXCEPT !.pc = "update"]]
    BY <1>1, <1>3 DEF RouteAppend
  <2>4. Routes' = Routes \union {m}
    BY <1>1, <2>2, <2>3, BusyFacts DEF Routes
  <2> QED
    BY <2>1, <2>4
<1>4. ASSUME RouteUpdate(m) PROVE m \in Routes /\ Routes' = Routes
  <2>1. m \in Routes
    BY <1>1, <1>4 DEF RouteUpdate, Routes, Busy, NoTask
  <2>2. \A s : Writing(s) # NoTask
    BY DEF NoTask, Writing
  <2>3. PICK s : routing' = [routing EXCEPT ![m] = Writing(s)]
    BY <1>4 DEF RouteUpdate
  <2>4. Busy([routing EXCEPT ![m] = Writing(s)]) = Busy(routing) \union {m}
    <3>1. m \in DOMAIN routing /\ Writing(s) # NoTask
      BY <1>1, <2>2
    <3> QED
      BY <3>1, BusyFacts, Zenon
  <2>5. Routes' = Routes \union {m}
    BY <2>3, <2>4, Zenon DEF Routes
  <2> QED
    BY <2>1, <2>5
<1>5. ASSUME RouteWrite(m) PROVE m \in Routes /\ Routes' = Routes \ {m}
  BY <1>1, <1>5, BusyFacts DEF RouteWrite, Routes, Busy, NoTask
<1> QED
  BY <1>2, <1>3, <1>4, <1>5

LEMMA AckSets ==
  ASSUME FilesInv, StateTypes, NEW t \in Thread
  PROVE  /\ AckStart(t) => Acks' = Acks \union {t}
         /\ AckMark(t) => t \in Acks /\ (Acks' = Acks \/ Acks' = Acks \ {t})
         /\ AckUpdate(t) => t \in Acks /\ Acks' = Acks
         /\ AckWrite(t) => t \in Acks /\ Acks' = Acks \ {t}
<1>1. t \in DOMAIN acking /\ (acking[t].pc = "idle" <=> acking[t] = NoTask)
  BY Shapes
<1>2. ASSUME AckStart(t) PROVE Acks' = Acks \union {t}
  <2>1. [pc |-> "mark"] # NoTask
    BY DEF NoTask
  <2> QED
    BY <1>1, <1>2, <2>1, BusyFacts DEF AckStart, Acks
<1>3. ASSUME AckMark(t) PROVE t \in Acks /\ (Acks' = Acks \/ Acks' = Acks \ {t})
  <2>1. t \in Acks /\ acking[t] = [pc |-> "mark"]
    BY <1>1, <1>3 DEF AckMark, Acks, Busy, FilesInv, AckingGood, GoodAck, NoTask, GoodWrite, Writing
  <2>2. [acking[t] EXCEPT !.pc = "update"] # NoTask
    BY <2>1 DEF NoTask
  <2>3. \/ acking' = [acking EXCEPT ![t] = [acking[t] EXCEPT !.pc = "update"]]
        \/ acking' = [acking EXCEPT ![t] = NoTask]
    BY <1>1, <1>3 DEF AckMark
  <2>4. Acks' = Acks \union {t} \/ Acks' = Acks \ {t}
    BY <1>1, <2>2, <2>3, BusyFacts DEF Acks
  <2> QED
    BY <2>1, <2>4
<1>4. ASSUME AckUpdate(t) PROVE t \in Acks /\ Acks' = Acks
  <2>1. t \in Acks
    BY <1>1, <1>4 DEF AckUpdate, Acks, Busy, NoTask
  <2>2. \A s : Writing(s) # NoTask
    BY DEF NoTask, Writing
  <2>3. PICK s : acking' = [acking EXCEPT ![t] = Writing(s)]
    BY <1>4 DEF AckUpdate
  <2>4. Busy([acking EXCEPT ![t] = Writing(s)]) = Busy(acking) \union {t}
    <3>1. t \in DOMAIN acking /\ Writing(s) # NoTask
      BY <1>1, <2>2
    <3> QED
      BY <3>1, BusyFacts, Zenon
  <2>5. Acks' = Acks \union {t}
    BY <2>3, <2>4, Zenon DEF Acks
  <2> QED
    BY <2>1, <2>5
<1>5. ASSUME AckWrite(t) PROVE t \in Acks /\ Acks' = Acks \ {t}
  BY <1>1, <1>5, BusyFacts DEF AckWrite, Acks, Busy, NoTask
<1> QED
  BY <1>2, <1>3, <1>4, <1>5

(* The steps of a sync that has not computed its state yet. *)
Fields(n, loaded, list, since, backfill, todo) ==
  /\ n.pc = "load" /\ n.loaded = loaded /\ n.list = list /\ n.since = since
  /\ n.backfill = backfill /\ n.todo = todo

After(t, c) == {s \in InThread(t) : s > c}
With(f, t, v) == [x \in DOMAIN f \union {t} |-> IF x = t THEN v ELSE f[x]]

LEMMA SyncFields ==
  ASSUME FilesInv, NEW i \in SyncTask, NEW r, r = syncing[i]
  PROVE  /\ SyncList(i) => r.pc = "load" /\ \E n :
              /\ syncing' = [syncing EXCEPT ![i] = n]
              /\ Fields(n, r.loaded \union {"list"}, Listing, r.since, r.backfill, r.todo)
         /\ SyncRead(i) => r.pc = "load" /\ \E n :
              /\ syncing' = [syncing EXCEPT ![i] = n]
              /\ Fields(n, r.loaded \union {"state"}, r.list, file.lastSeen, r.backfill, r.todo)
         /\ \A t \in Thread : SyncFetch(i, t) => r.pc = "load" /\ \E n, top :
              /\ syncing' = [syncing EXCEPT ![i] = n]
              /\ top \in After(t, r.since[t]) \union {r.since[t]}
              /\ \A s \in After(t, r.since[t]) : s <= top
              /\ Fields(n, r.loaded, r.list, r.since, With(r.backfill, t, top),
                        r.todo \union (After(t, r.since[t]) \intersect Foreign))
         /\ \A m \in Seq1 : SyncAppend(i, m) => r.pc = "load" /\ \E n :
              /\ syncing' = [syncing EXCEPT ![i] = n]
              /\ Fields(n, r.loaded, r.list, r.since, r.backfill, r.todo \ {m})
<1>1. DOMAIN syncing = SyncTask
  BY DEF FilesInv, SyncingGood
<1>2. r.pc = "load" => DOMAIN r = {"pc", "loaded", "list", "since", "backfill", "todo"}
  BY DEF FilesInv, SyncingGood, GoodSync, GoodLoad, GoodWrite, NoTask, Writing
<1>3. ASSUME SyncList(i)
      PROVE  r.pc = "load" /\ \E n :
              /\ syncing' = [syncing EXCEPT ![i] = n]
              /\ Fields(n, r.loaded \union {"list"}, Listing, r.since, r.backfill, r.todo)
  <2> DEFINE n == [r EXCEPT !.list = Listing, !.loaded = @ \union {"list"}]
  <2>1. syncing' = [syncing EXCEPT ![i] = n] /\ r.pc = "load"
    BY <1>1, <1>3 DEF SyncList
  <2>2. Fields(n, r.loaded \union {"list"}, Listing, r.since, r.backfill, r.todo)
    BY <1>2, <2>1 DEF Fields
  <2> HIDE DEF n
  <2> QED
    BY <2>1, <2>2
<1>4. ASSUME SyncRead(i)
      PROVE  r.pc = "load" /\ \E n :
              /\ syncing' = [syncing EXCEPT ![i] = n]
              /\ Fields(n, r.loaded \union {"state"}, r.list, file.lastSeen, r.backfill, r.todo)
  <2> DEFINE n == [r EXCEPT !.since = file.lastSeen, !.loaded = @ \union {"state"}]
  <2>1. syncing' = [syncing EXCEPT ![i] = n] /\ r.pc = "load"
    BY <1>1, <1>4 DEF SyncRead
  <2>2. Fields(n, r.loaded \union {"state"}, r.list, file.lastSeen, r.backfill, r.todo)
    BY <1>2, <2>1 DEF Fields
  <2> HIDE DEF n
  <2> QED
    BY <2>1, <2>2
<1>5. ASSUME NEW t \in Thread, SyncFetch(i, t)
      PROVE  r.pc = "load" /\ \E n, top :
              /\ syncing' = [syncing EXCEPT ![i] = n]
              /\ top \in After(t, r.since[t]) \union {r.since[t]}
              /\ \A s \in After(t, r.since[t]) : s <= top
              /\ Fields(n, r.loaded, r.list, r.since, With(r.backfill, t, top),
                        r.todo \union (After(t, r.since[t]) \intersect Foreign))
  <2> DEFINE since == r.since[t]
             fetched == {s \in InThread(t) : s > since}
  <2>1. PICK top \in fetched \union {since} :
          /\ \A s \in fetched : s <= top
          /\ syncing' = [syncing EXCEPT
               ![i].backfill = [x \in DOMAIN @ \union {t} |-> IF x = t THEN top ELSE @[x]],
               ![i].todo = @ \union (fetched \intersect Foreign)]
    BY <1>5, SMTT(60) DEF SyncFetch
  <2> DEFINE backfill == [x \in DOMAIN r.backfill \union {t} |->
                            IF x = t THEN top ELSE r.backfill[x]]
             todo == r.todo \union (fetched \intersect Foreign)
             n == [r EXCEPT !.backfill = backfill, !.todo = todo]
  <2>2. syncing' = [syncing EXCEPT ![i] = n] /\ r.pc = "load"
    BY <1>1, <1>5, <2>1 DEF SyncFetch, Loaded
  <2>3. Fields(n, r.loaded, r.list, r.since, backfill, todo)
    <3> HIDE DEF backfill, todo
    <3> QED
      BY <1>2, <2>2 DEF Fields
  <2>4. backfill = With(r.backfill, t, top) /\ fetched = After(t, since)
    BY DEF With, After
  <2> HIDE DEF n, backfill, fetched
  <2> QED
    BY <2>1, <2>2, <2>3, <2>4
<1>6. ASSUME NEW m \in Seq1, SyncAppend(i, m)
      PROVE  r.pc = "load" /\ \E n :
              /\ syncing' = [syncing EXCEPT ![i] = n]
              /\ Fields(n, r.loaded, r.list, r.since, r.backfill, r.todo \ {m})
  <2> DEFINE n == [r EXCEPT !.todo = @ \ {m}]
  <2>1. syncing' = [syncing EXCEPT ![i] = n] /\ r.pc = "load"
    BY <1>1, <1>6 DEF SyncAppend, Fetched, Loaded
  <2>2. Fields(n, r.loaded, r.list, r.since, r.backfill, r.todo \ {m})
    BY <1>2, <2>1 DEF Fields
  <2> HIDE DEF n
  <2> QED
    BY <2>1, <2>2
<1> QED
  BY <1>3, <1>4, <1>5, <1>6

LEMMA SyncSets ==
  ASSUME FilesInv, StateTypes, NEW i \in SyncTask
  PROVE  /\ Connect(i) \/ Hello(i) => i \notin Syncs /\ Syncs' = Syncs \union {i}
         /\ \/ SyncList(i) \/ SyncRead(i) \/ SyncUpdate(i)
            \/ \E t \in Thread : SyncFetch(i, t)
            \/ \E m \in Seq1 : SyncAppend(i, m)
            => i \in Syncs /\ Syncs' = Syncs
         /\ SyncWrite(i) \/ SyncFail(i) => i \in Syncs /\ Syncs' = Syncs \ {i}
<1>1. i \in DOMAIN syncing /\ (syncing[i].pc = "idle" <=> syncing[i] = NoTask)
  BY Shapes
<1>2. \A n : n.pc = "load" \/ n.pc = "write" => n # NoTask
  BY DEF NoTask
<1>3. ASSUME Connect(i) \/ Hello(i)
      PROVE  i \notin Syncs /\ Syncs' = Syncs \union {i}
  <2>1. Loading # NoTask
    BY DEF Loading, NoTask
  <2> QED
    BY <1>1, <1>3, <2>1, BusyFacts DEF Connect, Hello, StartSync, Syncs, Busy
<1>4. ASSUME \/ SyncList(i) \/ SyncRead(i)
             \/ \E t \in Thread : SyncFetch(i, t)
             \/ \E m \in Seq1 : SyncAppend(i, m)
      PROVE  i \in Syncs /\ Syncs' = Syncs
  <2>1. syncing[i].pc = "load"
    BY <1>4, SyncFields
  <2>2. \E n : n.pc = "load" /\ syncing' = [syncing EXCEPT ![i] = n]
    <3>1. CASE SyncList(i) \/ SyncRead(i)
      BY <3>1, SyncFields DEF Fields
    <3>2. ASSUME NEW t \in Thread, SyncFetch(i, t)
          PROVE  \E n : n.pc = "load" /\ syncing' = [syncing EXCEPT ![i] = n]
      BY <3>2, SyncFields DEF Fields
    <3>3. ASSUME NEW m \in Seq1, SyncAppend(i, m)
          PROVE  \E n : n.pc = "load" /\ syncing' = [syncing EXCEPT ![i] = n]
      BY <3>3, SyncFields DEF Fields
    <3> QED
      BY <1>4, <3>1, <3>2, <3>3
  <2>3. PICK n : n.pc = "load" /\ syncing' = [syncing EXCEPT ![i] = n]
    BY <2>2
  <2>4. i \in Syncs
    BY <1>1, <1>2, <2>1 DEF Syncs, Busy
  <2>5. Syncs' = Syncs \union {i}
    <3>1. n # NoTask
      BY <1>2, <2>3
    <3> QED
      BY <1>1, <2>3, <3>1, BusyFacts DEF Syncs
  <2> QED
    BY <2>4, <2>5
<1>5. ASSUME SyncUpdate(i) PROVE i \in Syncs /\ Syncs' = Syncs
  <2>1. i \in Syncs
    BY <1>1, <1>2, <1>5 DEF SyncUpdate, Fetched, Loaded, Syncs, Busy
  <2>2. PICK s : syncing' = [syncing EXCEPT ![i] = Writing(s)]
    BY <1>5 DEF SyncUpdate
  <2>3. Writing(s) # NoTask
    BY DEF Writing, NoTask
  <2>4. Syncs' = Syncs \union {i}
    BY <1>1, <2>2, <2>3, BusyFacts DEF Syncs
  <2> QED
    BY <2>1, <2>4
<1>6. ASSUME SyncWrite(i) \/ SyncFail(i) PROVE i \in Syncs /\ Syncs' = Syncs \ {i}
  <2>1. i \in Syncs
    BY <1>1, <1>2, <1>6 DEF SyncWrite, SyncFail, Syncs, Busy
  <2>2. syncing' = [syncing EXCEPT ![i] = NoTask]
    BY <1>6 DEF SyncWrite, SyncFail
  <2> QED
    BY <2>1, <2>2, BusyFacts DEF Syncs
<1> QED
  BY <1>3, <1>4, <1>5, <1>6

-----------------------------------------------------------------------------
(* Handlers of different kinds are never under way together.               *)
LEMMA StimulusSets ==
  ASSUME Overlap = FALSE, Stimulus
  PROVE  /\ pushes = {} /\ Routes = {} /\ Acks = {} /\ Syncs = {}
         /\ link # "open"
BY QuietSets DEF Stimulus

LEMMA OneKindStep ==
  ASSUME Overlap = FALSE, FilesInv, StateTypes, OneKind, [Next]_vars
  PROVE  OneKind'
<1> USE DEF relayVars, taskVars
<1> HIDE DEF Routes, Syncs, Acks
<1>u. UNCHANGED routing => Routes' = Routes
  BY DEF Routes
<1>v. UNCHANGED syncing => Syncs' = Syncs
  BY DEF Syncs
<1>w. UNCHANGED acking => Acks' = Acks
  BY DEF Acks
<1>1. ASSUME NEW t \in Thread, NEW mine \in BOOLEAN, Post(t, mine)
      PROVE  OneKind'
  <2>1. /\ pushes = {} /\ Routes = {} /\ Acks = {} /\ Syncs = {}
        /\ link # "open"
    BY <1>1, StimulusSets DEF Post
  <2>2. /\ Routes' = {} /\ Acks' = {} /\ Syncs' = {}
        /\ link' = link /\ reads' = reads
    BY <1>1, <1>u, <1>v, <1>w, <2>1 DEF Post
  <2>3. Len(messages') = Len(messages) + 1 /\ Len(messages) \in Nat
    BY <1>1, AppendProperties, ForeignFacts DEF Post, FilesInv, MessagesGood, Message
  <2>4. pushes' \subseteq {Len(messages) + 1}
    BY <1>1, <2>1 DEF Post
  <2>5. Len(messages) + 1 \notin reads
    BY <2>3, ForeignFacts DEF FilesInv, StateTypes, ForeignSets
  <2> QED
    BY <2>1, <2>2, <2>3, <2>4, <2>5 DEF OneKind
<1>2. ASSUME NEW m \in Seq1, LosePush(m)
      PROVE  OneKind'
  BY <1>2, <1>u, <1>v, <1>w DEF LosePush, OneKind
<1>3. ASSUME NEW m \in Seq1, RouteStart(m)
      PROVE  OneKind'
  <2>1. /\ UNCHANGED <<messages, reads, link>> /\ m \in pushes /\ pushes' = pushes \ {m}
        /\ link = "up" /\ Routes' = Routes \union {m}
        /\ Syncs' = Syncs /\ Acks' = Acks
    BY <1>3, <1>v, <1>w, RouteSets DEF RouteStart
  <2> QED
    BY <2>1 DEF OneKind
<1>4. ASSUME NEW m \in Seq1, RouteAppend(m) \/ RouteUpdate(m) \/ RouteWrite(m)
      PROVE  OneKind'
  <2>1. /\ UNCHANGED <<messages, reads, pushes, link, syncing, acking>>
        /\ Routes' \subseteq Routes
    BY <1>4, RouteSets DEF RouteAppend, RouteUpdate, RouteWrite
  <2>2. Syncs' = Syncs /\ Acks' = Acks
    BY <1>v, <1>w, <2>1
  <2> QED
    BY <2>1, <2>2 DEF OneKind
<1>5. ASSUME NEW i \in SyncTask, Connect(i)
      PROVE  OneKind'
  <2>1. /\ UNCHANGED <<messages, reads, pushes, routing, acking>>
        /\ pushes = {} /\ Routes = {} /\ Acks = {}
    BY <1>5, QuietSets DEF Connect
  <2>2. Routes' = Routes /\ Acks' = Acks
    BY <1>u, <1>w, <2>1
  <2> QED
    BY <2>1, <2>2 DEF OneKind
<1>6. ASSUME NEW i \in SyncTask, Hello(i)
      PROVE  OneKind'
  <2>1. /\ UNCHANGED <<messages, reads, pushes, routing, acking>>
        /\ link = "open"
    BY <1>6 DEF Hello
  <2>2. Routes' = Routes /\ Acks' = Acks
    BY <1>u, <1>w, <2>1
  <2> QED
    BY <2>1, <2>2 DEF OneKind
<1>7. ASSUME NEW i \in SyncTask,
             \/ SyncList(i) \/ SyncRead(i) \/ SyncUpdate(i) \/ SyncWrite(i) \/ SyncFail(i)
             \/ \E t \in Thread : SyncFetch(i, t)
             \/ \E m \in Seq1 : SyncAppend(i, m)
      PROVE  OneKind'
  <2>1. UNCHANGED <<messages, reads, pushes, link, routing, acking>>
    <3>1. CASE SyncList(i) \/ SyncRead(i) \/ SyncUpdate(i)
      BY <3>1 DEF SyncList, SyncRead, SyncUpdate
    <3>2. CASE SyncWrite(i) \/ SyncFail(i)
      BY <3>2 DEF SyncWrite, SyncFail
    <3>3. CASE \E t \in Thread : SyncFetch(i, t)
      BY <3>3 DEF SyncFetch
    <3>4. CASE \E m \in Seq1 : SyncAppend(i, m)
      BY <3>4 DEF SyncAppend
    <3> QED
      BY <1>7, <3>1, <3>2, <3>3, <3>4
  <2>2. Syncs # {} /\ Syncs' \subseteq Syncs
    BY <1>7, SyncSets
  <2>3. Routes' = Routes /\ Acks' = Acks
    BY <1>u, <1>w, <2>1
  <2> QED
    BY <2>1, <2>2, <2>3 DEF OneKind
<1>8. ASSUME NEW t \in Thread, AckStart(t)
      PROVE  OneKind'
  <2>1. /\ pushes = {} /\ Routes = {} /\ Acks = {} /\ Syncs = {}
        /\ link # "open"
    BY <1>8, StimulusSets DEF AckStart, UserActs
  <2>2. /\ UNCHANGED <<messages, reads, pushes, link, routing, syncing>>
        /\ Acks' = Acks \union {t}
    BY <1>8, AckSets DEF AckStart
  <2>3. Routes' = Routes /\ Syncs' = Syncs
    BY <1>u, <1>v, <2>2
  <2> QED
    BY <2>1, <2>2, <2>3 DEF OneKind
<1>9. ASSUME NEW t \in Thread, AckMark(t) \/ AckUpdate(t) \/ AckWrite(t)
      PROVE  OneKind'
  <2>1. /\ UNCHANGED <<messages, pushes, link, routing, syncing>>
        /\ t \in Acks /\ Acks' \subseteq Acks
    BY <1>9, AckSets DEF AckMark, AckUpdate, AckWrite
  <2>2. Routes' = Routes /\ Syncs' = Syncs
    BY <1>u, <1>v, <2>1
  <2> QED
    BY <2>1, <2>2 DEF OneKind
<1>10. ASSUME NEW t \in Thread, DrainRead(t) \/ DrainUnlink(t) \/ DrainReturn(t)
      PROVE  OneKind'
  <2>1. UNCHANGED <<messages, reads, pushes, link, routing, syncing, acking>>
    BY <1>10 DEF DrainRead, DrainUnlink, DrainReturn
  <2> QED
    BY <1>u, <1>v, <1>w, <2>1 DEF OneKind
<1>11. ASSUME NEW t \in Thread, TogglePane(t) \/ ToggleArchive(t)
      PROVE  OneKind'
  <2>1. UNCHANGED <<messages, reads, pushes, link, routing, syncing, acking>>
    BY <1>11 DEF TogglePane, ToggleArchive
  <2> QED
    BY <1>u, <1>v, <1>w, <2>1 DEF OneKind
<1>12. CASE Disconnect \/ UNCHANGED vars
  <2>1. /\ UNCHANGED <<messages, reads, pushes, routing, syncing, acking>>
        /\ link' = link \/ link' = "down"
    BY <1>12 DEF Disconnect, vars
  <2> QED
    BY <1>u, <1>v, <1>w, <2>1 DEF OneKind
<1>13. CASE Crash
  <2>1. UNCHANGED <<messages, reads, pushes>> /\ link' = "down"
    BY <1>13 DEF Crash
  <2>2. Routes' = {} /\ Acks' = {} /\ Syncs' = {}
    BY <1>13, BusyFacts DEF Crash, Routes, Syncs, Acks
  <2> QED
    BY <2>1, <2>2 DEF OneKind
<1> QED
  BY <1>1, <1>2, <1>3, <1>4, <1>5, <1>6, <1>7, <1>8, <1>9, <1>10, <1>11, <1>12, <1>13
  DEF Next

-----------------------------------------------------------------------------
(***************************************************************************)
(* Cursors.  The others' messages that nothing accounts for, and those a   *)
(* push or the router is about to put on disk.                             *)
(***************************************************************************)
Behind == Foreign \ (stored \union lost \union missed \union reads)
Appending == {m \in Routes : routing[m].pc = "append"}
Coming == pushes \union Appending

Live == synced /\ link # "down"

(* With a sync done, or none to come, all that is missing is on its way.   *)
UpToDate == Live \/ (link = "up" /\ Syncs = {}) \/ Routes # {}
Caught == UpToDate => Behind \subseteq Coming

(* Cursors c pass nothing of b, when a has the messages of each thread. *)
Safe(c, a, b) == \A t \in Thread : \A m \in a[t] \intersect b : m > c[t]

(* Threads with unread messages. *)
Pending == {t \in Thread : Unread(t) # {}}

(* What a sync has established while b was missing, the relay listed l,    *)
(* state.json had the cursors c, and the threads in p had unread messages: *)
(* it will have put all of b on disk before it moves a cursor.             *)
SyncCalm(r, b, l, c, a, p) ==
  /\ r.pc = "load" =>
       /\ "list" \in r.loaded => r.list = l
       /\ "state" \in r.loaded => Safe(r.since, a, b)
       /\ \A t \in DOMAIN r.backfill :
            /\ t \in p /\ a[t] \intersect b \subseteq r.todo
            /\ \A s \in a[t] : s <= r.backfill[t]
  /\ r.pc = "write" =>
       /\ b = {} /\ r.next.threads = l
       /\ \A t \in Thread :
            IF t \notin p THEN r.next.lastSeen[t] = c[t]
            ELSE \A s \in a[t] : s <= r.next.lastSeen[t]

SyncsCalm ==
  \A i \in SyncTask : SyncCalm(syncing[i], Behind, Listing, file.lastSeen, At, Pending)

CursorsCalm ==
  /\ Safe(file.lastSeen, At, Behind)
  /\ SyncsCalm
  /\ \A m \in Routes : routing[m].pc = "write" =>
       \A t \in Thread : routing[m].next.lastSeen[t] >= file.lastSeen[t]
  /\ \A t \in Acks : acking[t].pc = "write" => acking[t].next.lastSeen = file.lastSeen

(* The router keeps what it was told of. *)
LEMMA RouteComing ==
  ASSUME FilesInv, StateTypes, NEW m \in Seq1
  PROVE  /\ RouteStart(m) => Appending' = Appending \union {m}
         /\ RouteAppend(m) => m \in Appending /\ Appending' = Appending \ {m}
         /\ RouteUpdate(m) \/ RouteWrite(m) => m \notin Appending /\ Appending' = Appending
<1>1. /\ DOMAIN routing = Seq1
      /\ (routing[m].pc = "idle" <=> routing[m] = NoTask)
  BY Shapes
<1>2. \A f, r : f[m] = r /\ r.pc = "append" => r # NoTask
  BY DEF NoTask
<1>3. ASSUME NEW r, routing' = [routing EXCEPT ![m] = r]
      PROVE  /\ r.pc = "append" => Appending' = Appending \union {m}
             /\ r.pc # "append" => Appending' = Appending \ {m}
  <2>1. \A x \in Seq1 \ {m} : routing'[x] = routing[x]
    BY <1>1, <1>3
  <2>2. routing'[m] = r /\ DOMAIN routing' = Seq1
    BY <1>1, <1>3
  <2>3. \A f : {x \in Busy(f) : f[x].pc = "append"} = {x \in DOMAIN f : f[x].pc = "append"}
    BY DEF Busy, NoTask
  <2>4. /\ Appending = {x \in Seq1 : routing[x].pc = "append"}
        /\ Appending' = {x \in Seq1 : routing'[x].pc = "append"}
    BY <1>1, <2>2, <2>3 DEF Appending, Routes
  <2> QED
    BY <2>1, <2>2, <2>4
<1>4. ASSUME RouteStart(m) PROVE Appending' = Appending \union {m}
  <2> DEFINE r == [pc |-> "append", paneOpen |-> messages[m].thread \in panes]
  <2>1. routing' = [routing EXCEPT ![m] = r] /\ r.pc = "append"
    BY <1>4 DEF RouteStart
  <2> HIDE DEF r
  <2> QED
    BY <1>3, <2>1
<1>5. ASSUME RouteAppend(m) PROVE m \in Appending /\ Appending' = Appending \ {m}
  <2> DEFINE r == [routing[m] EXCEPT !.pc = "update"]
  <2>1. routing[m] = [pc |-> "append", paneOpen |-> routing[m].paneOpen]
    BY <1>1, <1>5 DEF RouteAppend, FilesInv, RoutingGood, GoodRoute, NoTask, GoodWrite, Writing
  <2>2. routing' = [routing EXCEPT ![m] = r] /\ r.pc # "append"
    BY <1>1, <1>5, <2>1 DEF RouteAppend
  <2>3. m \in Appending
    BY <1>1, <1>5 DEF RouteAppend, Appending, Routes, Busy, NoTask
  <2> HIDE DEF r
  <2> QED
    BY <1>3, <2>2, <2>3
<1>6. ASSUME RouteUpdate(m) PROVE m \notin Appending /\ Appending' = Appending
  <2>1. PICK s : routing' = [routing EXCEPT ![m] = Writing(s)]
    BY <1>6 DEF RouteUpdate
  <2>2. Writing(s).pc # "append"
    BY DEF Writing
  <2>3. m \notin Appending
    BY <1>6 DEF RouteUpdate, Appending
  <2> QED
    BY <1>3, <2>1, <2>2, <2>3
<1>7. ASSUME RouteWrite(m) PROVE m \notin Appending /\ Appending' = Appending
  <2>1. m \notin Appending /\ routing' = [routing EXCEPT ![m] = NoTask] /\ NoTask.pc # "append"
    BY <1>7 DEF RouteWrite, Appending, NoTask
  <2> QED
    BY <1>3, <2>1
<1> QED
  BY <1>4, <1>5, <1>6, <1>7

(* What is missing is on its way or counted as lost or missed. *)
LEMMA CaughtStep ==
  ASSUME Overlap = FALSE, FilesInv, StateTypes, OneKind, Caught, CursorsCalm, [Next]_vars
  PROVE  Caught'
<1> USE DEF relayVars, fileVars, taskVars, ghostVars, boundVars
<1> HIDE DEF Routes, Syncs, Acks
<1>a. ASSUME Behind' \subseteq Behind, Coming' = Coming, UpToDate' => UpToDate
      PROVE  Caught'
  BY <1>a DEF Caught
<1>b. ASSUME UNCHANGED <<messages, pushes, routing>>, reads \subseteq reads',
             stored \subseteq stored', lost \subseteq lost', missed \subseteq missed'
      PROVE  Behind' \subseteq Behind /\ Coming' = Coming /\ Routes' = Routes
  BY <1>b DEF Behind, Foreign, Coming, Appending, Routes
<1>c. ASSUME UNCHANGED <<link, synced>>, Routes' = Routes, Syncs' = Syncs
      PROVE  UpToDate' => UpToDate
  BY <1>c DEF UpToDate, Live
<1>d. UNCHANGED syncing => Syncs' = Syncs
  BY DEF Syncs
<1>1. ASSUME NEW t \in Thread, NEW mine \in BOOLEAN, Post(t, mine)
      PROVE  Caught'
  <2>1. /\ UNCHANGED <<reads, stored, lost, missed, routing, syncing, link, synced>>
        /\ pushes \subseteq pushes'
    BY <1>1 DEF Post
  <2>2. /\ Len(messages) \in Nat /\ DOMAIN messages = 1..Len(messages)
        /\ DOMAIN messages' = 1..(Len(messages) + 1)
        /\ \A s \in 1..Len(messages) : messages'[s] = messages[s]
        /\ messages'[Len(messages) + 1].mine = mine
    BY <1>1, AppendProperties, ForeignFacts DEF Post, FilesInv, MessagesGood, Message
  <2>3. Foreign' \subseteq Foreign \union pushes'
    BY <1>1, <2>2 DEF Foreign, Post
  <2>4. Behind' \subseteq Behind \union pushes'
    BY <2>1, <2>3 DEF Behind
  <2>5. Coming' = Appending \union pushes' /\ Routes' = Routes
    BY <2>1 DEF Coming, Appending, Routes
  <2> QED
    BY <1>c, <1>d, <2>1, <2>4, <2>5 DEF Caught, Coming
<1>2. ASSUME NEW m \in Seq1, LosePush(m)
      PROVE  Caught'
  <2>1. /\ UNCHANGED <<messages, reads, stored, missed, routing, syncing, link>>
        /\ m \in pushes /\ pushes' = pushes \ {m}
    BY <1>2 DEF LosePush
  <2>2. Routes' = Routes /\ Routes = {} /\ Syncs = {} /\ link # "open"
    BY <2>1 DEF OneKind, Routes
  <2>3. CASE link = "down"
    BY <2>1, <2>2, <2>3 DEF Caught, UpToDate, Live
  <2>4. CASE link # "down"
    <3>1. link = "up" /\ lost' = lost \union {m}
      BY <1>2, <2>2, <2>4 DEF LosePush, StateTypes, PlainTypes
    <3>2. Behind \subseteq Coming
      BY <2>2, <3>1 DEF Caught, UpToDate
    <3>3. Behind' = Behind \ {m}
      BY <2>1, <3>1 DEF Behind, Foreign
    <3>4. Coming \ {m} \subseteq Coming'
      BY <2>1 DEF Coming, Appending, Routes
    <3> QED
      BY <3>2, <3>3, <3>4 DEF Caught
  <2> QED
    BY <2>3, <2>4
<1>3. ASSUME NEW m \in Seq1, RouteStart(m)
      PROVE  Caught'
  <2>1. /\ UNCHANGED <<messages, reads, stored, lost, missed, syncing, link, synced>>
        /\ m \in pushes /\ pushes' = pushes \ {m} /\ link = "up"
    BY <1>3 DEF RouteStart
  <2>2. Syncs = {}
    BY <2>1 DEF OneKind
  <2>3. Behind' = Behind
    BY <2>1 DEF Behind, Foreign
  <2>4. Coming' = Coming
    BY <1>3, <2>1, RouteComing DEF Coming
  <2> QED
    BY <2>1, <2>2, <2>3, <2>4 DEF Caught, UpToDate
<1>4. ASSUME NEW m \in Seq1, RouteAppend(m)
      PROVE  Caught'
  <2>1. /\ UNCHANGED <<messages, reads, lost, missed, pushes>>
        /\ stored' = stored \union {m}
    BY <1>4 DEF RouteAppend, AppendToInbox
  <2>2. Behind' = Behind \ {m}
    BY <2>1 DEF Behind, Foreign
  <2>3. Coming \ {m} \subseteq Coming'
    BY <1>4, <2>1, RouteComing DEF Coming
  <2>4. Behind \subseteq Coming
    BY <1>4, RouteSets DEF Caught, UpToDate
  <2> QED
    BY <2>2, <2>3, <2>4 DEF Caught
<1>5. ASSUME NEW m \in Seq1, RouteUpdate(m) \/ RouteWrite(m)
      PROVE  Caught'
  <2>1. UNCHANGED <<messages, reads, stored, lost, missed, pushes>>
    BY <1>5 DEF RouteUpdate, RouteWrite
  <2>2. Behind' = Behind
    BY <2>1 DEF Behind, Foreign
  <2>3. Coming' = Coming
    BY <1>5, <2>1, RouteComing DEF Coming
  <2>4. Behind \subseteq Coming
    BY <1>5, RouteSets DEF Caught, UpToDate
  <2> QED
    BY <2>2, <2>3, <2>4 DEF Caught
<1>6. ASSUME NEW i \in SyncTask, Connect(i)
      PROVE  Caught'
  <2>1. synced' = FALSE /\ link' = "open" /\ UNCHANGED routing /\ Routes = {}
    BY <1>6, QuietSets DEF Connect
  <2>2. Routes' = {}
    BY <2>1 DEF Routes
  <2> QED
    BY <2>1, <2>2 DEF Caught, UpToDate, Live
<1>7. ASSUME NEW i \in SyncTask, Hello(i)
      PROVE  Caught'
  <2>1. /\ UNCHANGED <<messages, pushes, routing, reads, stored, lost, missed, synced>>
        /\ link = "open"
    BY <1>7 DEF Hello
  <2>2. Syncs' # {}
    BY <1>7, SyncSets
  <2>3. UpToDate' => UpToDate
    BY <1>b, <2>1, <2>2 DEF UpToDate, Live
  <2> QED
    BY <1>a, <1>b, <2>1, <2>3
<1>8. ASSUME NEW i \in SyncTask,
             \/ SyncList(i) \/ SyncRead(i) \/ SyncUpdate(i)
             \/ \E t \in Thread : SyncFetch(i, t)
             \/ \E m \in Seq1 : SyncAppend(i, m)
      PROVE  Caught'
  <2>1. /\ UNCHANGED <<messages, pushes, routing, reads, lost, missed, link, synced>>
        /\ stored \subseteq stored'
    <3>1. CASE SyncList(i) \/ SyncRead(i) \/ SyncUpdate(i)
      BY <3>1 DEF SyncList, SyncRead, SyncUpdate
    <3>2. CASE \E t \in Thread : SyncFetch(i, t)
      BY <3>2 DEF SyncFetch
    <3>3. CASE \E m \in Seq1 : SyncAppend(i, m)
      BY <3>3 DEF SyncAppend, AppendToInbox
    <3> QED
      BY <1>8, <3>1, <3>2, <3>3
  <2>2. Syncs' = Syncs
    BY <1>8, SyncSets
  <2> QED
    BY <1>a, <1>b, <1>c, <2>1, <2>2
<1>9. ASSUME NEW i \in SyncTask, SyncWrite(i)
      PROVE  Caught'
  <2>1. Behind = {}
    BY <1>9 DEF SyncWrite, CursorsCalm, SyncsCalm, SyncCalm
  <2>2. UNCHANGED <<messages, pushes, routing, reads, stored, lost, missed>>
    BY <1>9 DEF SyncWrite
  <2>3. Behind' = {}
    BY <1>b, <2>1, <2>2
  <2> QED
    BY <2>3 DEF Caught
<1>10. ASSUME NEW i \in SyncTask, SyncFail(i)
       PROVE  Caught'
  <2>1. /\ UNCHANGED <<messages, pushes, routing, reads, stored, lost, link, synced>>
        /\ missed \subseteq missed'
    BY <1>10 DEF SyncFail
  <2>2. Behind' \subseteq Behind /\ Coming' = Coming /\ Routes' = Routes
    BY <1>b, <2>1
  <2>3. CASE LastSync(i)
    <3>1. Behind' = {}
      BY <1>10, <2>1, <2>3 DEF SyncFail, Behind, Foreign
    <3> QED
      BY <3>1 DEF Caught
  <2>4. CASE ~LastSync(i)
    <3>1. \/ link # "up" \/ synced
          \/ \E j \in SyncTask \ {i} : syncing[j].pc # "idle"
      BY <2>4 DEF LastSync
    <3>2. ASSUME NEW j \in SyncTask \ {i}, syncing[j].pc # "idle"
          PROVE  Syncs' # {}
      <4>1. j \in Syncs /\ Syncs' = Syncs \ {i}
        BY <1>10, <3>2, SyncSets, Shapes DEF Syncs, Busy, NoTask
      <4> QED
        BY <4>1
    <3>3. UpToDate' => UpToDate
      BY <2>1, <2>2, <3>1, <3>2 DEF UpToDate, Live
    <3> QED
      BY <1>a, <2>2, <3>3
  <2> QED
    BY <2>3, <2>4
<1>11. ASSUME NEW t \in Thread,
             \/ AckStart(t) \/ AckMark(t) \/ AckUpdate(t) \/ AckWrite(t)
             \/ DrainRead(t) \/ DrainUnlink(t) \/ DrainReturn(t)
             \/ TogglePane(t) \/ ToggleArchive(t)
       PROVE  Caught'
  <2>1. /\ UNCHANGED <<messages, pushes, routing, syncing, stored, lost, missed, link, synced>>
        /\ reads \subseteq reads'
    <3>1. CASE AckStart(t) \/ AckMark(t) \/ AckUpdate(t) \/ AckWrite(t)
      BY <3>1 DEF AckStart, AckMark, AckUpdate, AckWrite
    <3>2. CASE DrainRead(t) \/ DrainUnlink(t) \/ DrainReturn(t)
      BY <3>2 DEF DrainRead, DrainUnlink, DrainReturn
    <3>3. CASE TogglePane(t) \/ ToggleArchive(t)
      BY <3>3 DEF TogglePane, ToggleArchive
    <3> QED
      BY <1>11, <3>1, <3>2, <3>3
  <2> QED
    BY <1>a, <1>b, <1>c, <1>d, <2>1
<1>12. CASE Disconnect
  <2>1. /\ UNCHANGED <<messages, pushes, routing, reads, stored, lost, missed>>
        /\ link' = "down"
    BY <1>12 DEF Disconnect
  <2>2. UpToDate' => UpToDate
    BY <1>b, <2>1 DEF UpToDate, Live
  <2> QED
    BY <1>a, <1>b, <2>1, <2>2
<1>13. CASE Crash
  <2>1. Routes' = {} /\ link' = "down"
    BY <1>13, BusyFacts DEF Crash, Routes
  <2> QED
    BY <2>1 DEF Caught, UpToDate, Live
<1>14. CASE UNCHANGED vars
  <2>1. /\ UNCHANGED <<messages, pushes, routing, syncing, stored, lost, missed, link, synced, reads>>
    BY <1>14 DEF vars
  <2> QED
    BY <1>a, <1>b, <1>c, <1>d, <2>1
<1> QED
  BY <1>1, <1>2, <1>3, <1>4, <1>5, <1>6, <1>7, <1>8, <1>9, <1>10, <1>11, <1>12, <1>13, <1>14
  DEF Next

(* What a sync has established stays true while the relay is left alone.   *)
LEMMA SyncKept ==
  ASSUME NEW r, NEW b1, NEW b2, NEW l, NEW c1, NEW c2, NEW a, NEW p,
         b2 \subseteq b1, \A t \in Thread \ p : c2[t] = c1[t],
         SyncCalm(r, b1, l, c1, a, p)
  PROVE  SyncCalm(r, b2, l, c2, a, p)
BY DEF SyncCalm, Safe

LEMMA SyncsFrame ==
  ASSUME SyncsCalm, UNCHANGED <<messages, reads, archived>>, Behind' \subseteq Behind,
         \A t \in Thread \ Pending : file'.lastSeen[t] = file.lastSeen[t],
         \A i \in SyncTask : \/ syncing'[i] = syncing[i]
                             \/ SyncCalm(syncing'[i], Behind', Listing, file'.lastSeen, At, Pending)
  PROVE  SyncsCalm'
<1>1. /\ Listing' = Listing /\ At' = At /\ Pending' = Pending
  BY DEF Listing, At, Pending, Unread, InThread, Foreign
<1>2. \A i \in SyncTask : SyncCalm(syncing'[i], Behind', Listing, file'.lastSeen, At, Pending)
  <2> SUFFICES ASSUME NEW i \in SyncTask, syncing'[i] = syncing[i]
               PROVE  SyncCalm(syncing'[i], Behind', Listing, file'.lastSeen, At, Pending)
    OBVIOUS
  <2>1. SyncCalm(syncing[i], Behind, Listing, file.lastSeen, At, Pending)
    BY DEF SyncsCalm
  <2>2. SyncCalm(syncing[i], Behind', Listing, file'.lastSeen, At, Pending)
    BY <2>1, SyncKept
  <2> QED
    BY <2>2
<1> QED
  BY <1>1, <1>2 DEF SyncsCalm

LEMMA NoSyncs ==
  ASSUME DOMAIN syncing' = SyncTask, Syncs' = {}
  PROVE  SyncsCalm'
BY DEF SyncsCalm, SyncCalm, Syncs, Busy, NoTask

(* The steps of a sync establish what SyncCalm says. *)
LEMMA SyncLoadCalm ==
  ASSUME FilesInv, StateTypes, CursorsCalm, NEW i \in SyncTask,
         \/ SyncList(i) \/ SyncRead(i)
         \/ \E t \in Thread : SyncFetch(i, t)
         \/ \E m \in Seq1 : SyncAppend(i, m)
  PROVE  SyncsCalm'
<1> USE DEF relayVars, fileVars, ghostVars, boundVars
<1> DEFINE r == syncing[i]
           Calm(n, b) == SyncCalm(n, b, Listing, file.lastSeen, At, Pending)
<1>1. i \in DOMAIN syncing /\ SyncCalm(r, Behind, Listing, file.lastSeen, At, Pending)
  BY Shapes DEF CursorsCalm, SyncsCalm
<1>2. UNCHANGED <<messages, reads, archived, lost, missed, file>> /\ stored \subseteq stored'
  <2>1. CASE SyncList(i) \/ SyncRead(i)
    BY <2>1 DEF SyncList, SyncRead
  <2>2. CASE \E t \in Thread : SyncFetch(i, t)
    BY <2>2 DEF SyncFetch
  <2>3. CASE \E m \in Seq1 : SyncAppend(i, m)
    BY <2>3 DEF SyncAppend, AppendToInbox
  <2> QED
    BY <2>1, <2>2, <2>3
<1>3. Behind' \subseteq Behind
  BY <1>2 DEF Behind, Foreign
<1>4. ASSUME NEW n, syncing' = [syncing EXCEPT ![i] = n],
             SyncCalm(n, Behind', Listing, file.lastSeen, At, Pending)
      PROVE  SyncsCalm'
  <2>1. SyncsCalm
    BY DEF CursorsCalm
  <2>2. \A j \in SyncTask : \/ syncing'[j] = syncing[j]
                            \/ syncing'[j] = n
    BY <1>1, <1>4
  <2>3. \A j \in SyncTask :
          \/ syncing'[j] = syncing[j]
          \/ SyncCalm(syncing'[j], Behind', Listing, file'.lastSeen, At, Pending)
    BY <1>2, <1>4, <2>2
  <2> QED
    BY <1>2, <1>3, <2>1, <2>3, SyncsFrame
<1>5. CASE SyncList(i)
  <2>1. PICK n : /\ syncing' = [syncing EXCEPT ![i] = n]
                 /\ Fields(n, r.loaded \union {"list"}, Listing, r.since, r.backfill, r.todo)
    BY <1>5, SyncFields
  <2>2. r.pc = "load"
    BY <1>5 DEF SyncList
  <2>3. SyncCalm(r, Behind', Listing, file.lastSeen, At, Pending)
    BY <1>1, <1>3, SyncKept
  <2>4. SyncCalm(n, Behind', Listing, file.lastSeen, At, Pending)
    <3> HIDE DEF r
    <3> QED
      BY <2>1, <2>2, <2>3 DEF SyncCalm, Fields
  <2> QED
    BY <1>4, <2>1, <2>4
<1>6. CASE SyncRead(i)
  <2>1. PICK n : /\ syncing' = [syncing EXCEPT ![i] = n]
                 /\ Fields(n, r.loaded \union {"state"}, r.list, file.lastSeen, r.backfill, r.todo)
    BY <1>6, SyncFields
  <2>2. r.pc = "load"
    BY <1>6 DEF SyncRead
  <2>3. SyncCalm(r, Behind', Listing, file.lastSeen, At, Pending)
    BY <1>1, <1>3, SyncKept
  <2>4. Safe(file.lastSeen, At, Behind')
    BY <1>3 DEF CursorsCalm, Safe
  <2>5. SyncCalm(n, Behind', Listing, file.lastSeen, At, Pending)
    <3> HIDE DEF r
    <3> QED
      BY <2>1, <2>2, <2>3, <2>4 DEF SyncCalm, Fields
  <2> QED
    BY <1>4, <2>1, <2>5
<1>7. ASSUME NEW t \in Thread, SyncFetch(i, t)
      PROVE  SyncsCalm'
  <2> DEFINE fetched == After(t, r.since[t])
  <2>1. PICK n, top :
          /\ syncing' = [syncing EXCEPT ![i] = n]
          /\ top \in fetched \union {r.since[t]}
          /\ \A s \in fetched : s <= top
          /\ Fields(n, r.loaded, r.list, r.since, With(r.backfill, t, top),
                    r.todo \union (fetched \intersect Foreign))
    BY <1>7, SyncFields
  <2>2. r.pc = "load" /\ "state" \in r.loaded /\ "list" \in r.loaded /\ t \in ToFetch(i)
    BY <1>7 DEF SyncFetch, Loaded
  <2>3. SyncCalm(r, Behind', Listing, file.lastSeen, At, Pending)
    BY <1>1, <1>3, SyncKept
  <2>4. t \in Pending
    <3>1. r.list = Listing
      BY <2>2, <2>3 DEF SyncCalm
    <3>2. t \in DOMAIN Listing /\ Listing[t].unread > 0
      BY <2>2, <3>1 DEF ToFetch
    <3>3. Cardinality(Unread(t)) > 0
      BY <3>2 DEF Listing
    <3>4. Unread(t) # {}
      BY <3>3, FS_EmptySet
    <3> QED
      BY <3>4 DEF Pending
  <2>5. r.since[t] \in Nat
    BY <2>2 DEF FilesInv, SyncingGood, GoodSync, GoodLoad, GoodWrite, NoTask, Writing, GoodCursors
  <2>6. At[t] \subseteq Nat /\ At[t] = InThread(t)
    BY ForeignFacts DEF At, InThread, FilesInv
  <2>7. At[t] \intersect Behind' \subseteq fetched \intersect Foreign
    <3>1. \A m \in At[t] \intersect Behind' : m > r.since[t]
      BY <2>2, <2>3 DEF SyncCalm, Safe
    <3>2. Behind' \subseteq Foreign
      BY <1>2 DEF Behind, Foreign
    <3> QED
      BY <2>6, <3>1, <3>2 DEF After
  <2>8. \A s \in At[t] : s <= top
    <3>1. top \in Nat /\ r.since[t] <= top
      BY <2>1, <2>5, <2>6 DEF After
    <3>2. \A s \in At[t] : s \in fetched \/ s <= r.since[t]
      BY <2>5, <2>6 DEF After
    <3> QED
      BY <2>1, <2>5, <2>6, <3>1, <3>2
  <2>9. SyncCalm(n, Behind', Listing, file.lastSeen, At, Pending)
    <3> HIDE DEF r, fetched
    <3>1. n.pc = "load" /\ n.loaded = r.loaded /\ n.list = r.list /\ n.since = r.since
      BY <2>1 DEF Fields
    <3>2. DOMAIN n.backfill = DOMAIN r.backfill \union {t}
      BY <2>1 DEF Fields, With
    <3>3. /\ n.backfill[t] = top
          /\ \A x \in DOMAIN r.backfill \ {t} : n.backfill[x] = r.backfill[x]
      BY <2>1 DEF Fields, With
    <3>4. n.todo = r.todo \union (fetched \intersect Foreign)
      BY <2>1 DEF Fields
    <3>5. \A x \in DOMAIN n.backfill :
            /\ x \in Pending /\ At[x] \intersect Behind' \subseteq n.todo
            /\ \A s \in At[x] : s <= n.backfill[x]
      <4>1. \A x \in DOMAIN r.backfill :
              /\ x \in Pending /\ At[x] \intersect Behind' \subseteq r.todo
              /\ \A s \in At[x] : s <= r.backfill[x]
        BY <2>2, <2>3 DEF SyncCalm
      <4> QED
        BY <2>4, <2>7, <2>8, <3>2, <3>3, <3>4, <4>1
    <3> QED
      BY <2>2, <2>3, <3>1, <3>5 DEF SyncCalm
  <2> QED
    BY <1>4, <2>1, <2>9
<1>8. ASSUME NEW m \in Seq1, SyncAppend(i, m)
      PROVE  SyncsCalm'
  <2>1. PICK n : /\ syncing' = [syncing EXCEPT ![i] = n]
                 /\ Fields(n, r.loaded, r.list, r.since, r.backfill, r.todo \ {m})
    BY <1>8, SyncFields
  <2>2. r.pc = "load" /\ stored' = stored \union {m}
    BY <1>8 DEF SyncAppend, Fetched, Loaded, AppendToInbox
  <2>3. SyncCalm(r, Behind', Listing, file.lastSeen, At, Pending)
    BY <1>1, <1>3, SyncKept
  <2>4. m \notin Behind'
    BY <2>2 DEF Behind
  <2>5. SyncCalm(n, Behind', Listing, file.lastSeen, At, Pending)
    <3> HIDE DEF r
    <3> QED
      BY <2>1, <2>2, <2>3, <2>4 DEF SyncCalm, Fields
  <2> QED
    BY <1>4, <2>1, <2>5
<1> QED
  BY <1>5, <1>6, <1>7, <1>8

(* When all is fetched and appended, nothing is missing. *)
LEMMA SyncUpdateCalm ==
  ASSUME FilesInv, StateTypes, CursorsCalm, NEW i \in SyncTask, SyncUpdate(i)
  PROVE  SyncsCalm'
<1> USE DEF relayVars, fileVars, ghostVars, boundVars
<1> DEFINE r == syncing[i]
           next == Merged(file, r.list, r.backfill)
<1>1. i \in DOMAIN syncing /\ SyncCalm(r, Behind, Listing, file.lastSeen, At, Pending)
  BY Shapes DEF CursorsCalm, SyncsCalm
<1>2. /\ UNCHANGED <<messages, reads, archived, stored, lost, missed, file>>
      /\ syncing' = [syncing EXCEPT ![i] = Writing(next)]
      /\ r.pc = "load" /\ r.loaded = {"list", "state"} /\ r.todo = {}
      /\ DOMAIN r.backfill = ToFetch(i)
  BY DEF SyncUpdate, Fetched, Loaded
<1>3. r.list = Listing
  BY <1>1, <1>2 DEF SyncCalm
<1>4. DOMAIN r.backfill = Pending
  <2>1. \A t \in Thread : Unread(t) # {} => Cardinality(Unread(t)) > 0 /\ InThread(t) # {}
    <3> SUFFICES ASSUME NEW t \in Thread, Unread(t) # {}
                 PROVE  Cardinality(Unread(t)) > 0 /\ InThread(t) # {}
      OBVIOUS
    <3>1. IsFiniteSet(Unread(t)) /\ Cardinality(Unread(t)) \in Nat
      BY UnreadFinite DEF FilesInv
    <3>2. Cardinality(Unread(t)) # 0
      BY <3>1, FS_EmptySet
    <3> QED
      BY <3>1, <3>2 DEF Unread
  <2>2. \A t \in DOMAIN Listing : Listing[t].unread = Cardinality(Unread(t))
    BY DEF Listing
  <2>3. DOMAIN Listing = {t \in Thread : InThread(t) # {}}
    BY DEF Listing
  <2>4. Cardinality({}) = 0
    BY FS_EmptySet
  <2>5. ToFetch(i) = {t \in DOMAIN Listing : Listing[t].unread > 0}
    BY <1>3 DEF ToFetch
  <2>6. \A t \in Thread : t \in Pending => t \in ToFetch(i)
    BY <2>1, <2>2, <2>3, <2>5 DEF Pending
  <2>7. \A t \in ToFetch(i) : t \in Pending
    <3>1. \A t \in ToFetch(i) : t \in Thread /\ Cardinality(Unread(t)) > 0
      BY <2>2, <2>3, <2>5
    <3> QED
      BY <2>4, <3>1 DEF Pending
  <2> QED
    BY <1>2, <2>6, <2>7 DEF Pending
<1>5. \A t \in Pending : At[t] \intersect Behind = {} /\ \A s \in At[t] : s <= r.backfill[t]
  BY <1>1, <1>2, <1>4 DEF SyncCalm
<1>6. Behind = {}
  <2> SUFFICES ASSUME NEW m \in Behind PROVE FALSE
    OBVIOUS
  <2>1. PICK t \in Thread : t = messages[m].thread
    BY ForeignFacts DEF FilesInv, Behind, Foreign, Message
  <2>2. m \in InThread(t) /\ m \in Unread(t)
    BY <2>1 DEF Behind, Foreign, InThread, Unread
  <2>3. t \in Pending /\ m \in At[t]
    BY <2>2 DEF Pending, At
  <2> QED
    BY <1>5, <2>3
<1>7. Behind' = Behind
  BY <1>2 DEF Behind, Foreign
<1>8. SyncCalm(Writing(next), Behind', Listing, file.lastSeen, At, Pending)
  <2>1. Writing(next).pc = "write" /\ Writing(next).next = next
    BY DEF Writing
  <2>2. next.threads = Listing
    BY <1>3 DEF Merged
  <2>3. \A t \in Thread : next.lastSeen[t] = IF t \in Pending THEN r.backfill[t] ELSE file.lastSeen[t]
    BY <1>4 DEF Merged
  <2> HIDE DEF next, r
  <2> QED
    BY <1>5, <1>6, <1>7, <2>1, <2>2, <2>3 DEF SyncCalm
<1>9. \A j \in SyncTask : \/ syncing'[j] = syncing[j]
                          \/ SyncCalm(syncing'[j], Behind', Listing, file'.lastSeen, At, Pending)
  <2> HIDE DEF next
  <2>1. \A j \in SyncTask : syncing'[j] = syncing[j] \/ syncing'[j] = Writing(next)
    BY <1>1, <1>2
  <2> QED
    BY <1>2, <1>8, <2>1
<1> QED
  BY <1>2, <1>7, <1>9, SyncsFrame DEF CursorsCalm

LEMMA SyncWriteCalm ==
  ASSUME FilesInv, StateTypes, CursorsCalm, NEW i \in SyncTask, SyncWrite(i)
  PROVE  Safe(file'.lastSeen, At', Behind') /\ SyncsCalm'
<1> USE DEF relayVars, ghostVars, boundVars
<1> DEFINE r == syncing[i]
<1>1. i \in DOMAIN syncing /\ SyncCalm(r, Behind, Listing, file.lastSeen, At, Pending)
  BY Shapes DEF CursorsCalm, SyncsCalm
<1>2. /\ UNCHANGED <<messages, reads, archived, stored, lost, missed>>
      /\ syncing' = [syncing EXCEPT ![i] = NoTask]
      /\ r.pc = "write" /\ file' = r.next
  BY DEF SyncWrite
<1>3. Behind' = {}
  BY <1>1, <1>2 DEF SyncCalm, Behind, Foreign
<1>4. \A t \in Thread \ Pending : file'.lastSeen[t] = file.lastSeen[t]
  BY <1>1, <1>2 DEF SyncCalm
<1>5. SyncCalm(NoTask, Behind', Listing, file'.lastSeen, At, Pending)
  BY DEF SyncCalm, NoTask
<1>6. SyncsCalm'
  <2>1. \A j \in SyncTask : syncing'[j] = syncing[j] \/ syncing'[j] = NoTask
    BY <1>1, <1>2
  <2>2. \A j \in SyncTask : \/ syncing'[j] = syncing[j]
                            \/ SyncCalm(syncing'[j], Behind', Listing, file'.lastSeen, At, Pending)
    BY <1>5, <2>1
  <2>3. SyncsCalm /\ Behind' \subseteq Behind
    BY <1>3 DEF CursorsCalm
  <2> QED
    BY <1>2, <1>4, <2>2, <2>3, SyncsFrame
<1> QED
  BY <1>3, <1>6 DEF Safe

RoutesCalm ==
  \A m \in Routes : routing[m].pc = "write" =>
    \A t \in Thread : routing[m].next.lastSeen[t] >= file.lastSeen[t]
AcksCalm ==
  \A t \in Acks : acking[t].pc = "write" => acking[t].next.lastSeen = file.lastSeen

(* A new message is above all cursors. *)
LEMMA PostSafe ==
  ASSUME FilesInv, StateTypes, Safe(file.lastSeen, At, Behind),
         NEW t \in Thread, NEW mine \in BOOLEAN, Post(t, mine)
  PROVE  Safe(file'.lastSeen, At', Behind')
<1>1. UNCHANGED <<reads, stored, lost, missed, file>>
  BY DEF Post, fileVars, ghostVars, boundVars
<1>2. /\ Len(messages) \in Nat /\ DOMAIN messages = 1..Len(messages)
      /\ DOMAIN messages' = 1..(Len(messages) + 1)
      /\ \A s \in 1..Len(messages) : messages'[s] = messages[s]
  BY AppendProperties, ForeignFacts DEF Post, FilesInv, MessagesGood, Message
<1>3. \A x \in Thread : file.lastSeen[x] \in Nat /\ file.lastSeen[x] <= Len(messages)
  BY <1>2 DEF FilesInv, GoodFile, GoodCursors, Kept, KeptAt, InThread
<1>4. SUFFICES ASSUME NEW x \in Thread, NEW m \in At'[x] \intersect Behind'
               PROVE  m > file.lastSeen[x]
  BY <1>1 DEF Safe
<1>5. m \in DOMAIN messages' /\ m \in InThread(x)' /\ m \in Behind'
  BY DEF At, InThread
<1>6. CASE m = Len(messages) + 1
  BY <1>2, <1>3, <1>6
<1>7. CASE m \in DOMAIN messages
  <2>1. m \in InThread(x) /\ m \in Foreign
    BY <1>2, <1>5, <1>7 DEF InThread, Foreign, Behind
  <2>2. m \in Behind /\ m \in At[x]
    BY <1>1, <1>5, <2>1 DEF Behind, At
  <2> QED
    BY <2>2 DEF Safe
<1> QED
  BY <1>2, <1>5, <1>6, <1>7

LEMMA CursorsStep ==
  ASSUME Overlap = FALSE, FilesInv, StateTypes, OneKind, OneKind', Caught, CursorsCalm,
         DOMAIN syncing' = SyncTask, [Next]_vars
  PROVE  CursorsCalm'
<1> USE DEF relayVars, fileVars, taskVars, ghostVars, boundVars
<1> HIDE DEF Routes, Syncs, Acks
<1>0. /\ Safe(file.lastSeen, At, Behind) /\ SyncsCalm /\ RoutesCalm /\ AcksCalm
      /\ DOMAIN routing = Seq1 /\ DOMAIN acking = Thread
  BY Shapes DEF CursorsCalm, RoutesCalm, AcksCalm
<1>q. ASSUME Safe(file'.lastSeen, At', Behind'), SyncsCalm', RoutesCalm', AcksCalm'
      PROVE  CursorsCalm'
  BY <1>q DEF CursorsCalm, RoutesCalm, AcksCalm
<1>a. ASSUME UNCHANGED <<messages, file>>, reads \subseteq reads',
             stored \subseteq stored', lost \subseteq lost', missed \subseteq missed'
      PROVE  Behind' \subseteq Behind /\ Safe(file'.lastSeen, At', Behind')
  <2>1. Behind' \subseteq Behind /\ At' = At
    BY <1>a DEF Behind, Foreign, At, InThread
  <2>2. file'.lastSeen = file.lastSeen
    BY <1>a
  <2> QED
    BY <1>0, <2>1, <2>2 DEF Safe
<1>b. ASSUME UNCHANGED syncing, Syncs = {}
      PROVE  Syncs' = {} /\ SyncsCalm'
  <2>1. Syncs' = {}
    BY <1>b DEF Syncs
  <2> QED
    BY <2>1, NoSyncs
<1>c. ASSUME UNCHANGED <<routing, file>>
      PROVE  Routes' = Routes /\ RoutesCalm'
  BY <1>0, <1>c DEF Routes, RoutesCalm
<1>d. ASSUME UNCHANGED <<acking, file>>
      PROVE  Acks' = Acks /\ AcksCalm'
  BY <1>0, <1>d DEF Acks, AcksCalm
<1>e. Routes' = {} => RoutesCalm'
  BY DEF RoutesCalm
<1>f. Acks' = {} => AcksCalm'
  BY DEF AcksCalm
<1>g. Acks = {} /\ UNCHANGED acking => Acks' = {}
  BY DEF Acks
<1>h. Routes = {} /\ UNCHANGED routing => Routes' = {}
  BY DEF Routes
<1>1. ASSUME NEW t \in Thread, NEW mine \in BOOLEAN, Post(t, mine)
      PROVE  CursorsCalm'
  <2>1. Syncs = {}
    BY <1>1, StimulusSets DEF Post
  <2>2. UNCHANGED <<file, routing, syncing, acking>>
    BY <1>1 DEF Post
  <2>3. Safe(file'.lastSeen, At', Behind')
    BY <1>0, <1>1, PostSafe
  <2> QED
    BY <1>b, <1>c, <1>d, <1>q, <2>1, <2>2, <2>3
<1>2. ASSUME NEW m \in Seq1, LosePush(m)
      PROVE  CursorsCalm'
  <2>1. /\ UNCHANGED <<messages, file, reads, stored, missed, routing, syncing, acking>>
        /\ lost \subseteq lost' /\ Syncs = {}
    BY <1>2 DEF LosePush, OneKind
  <2> QED
    BY <1>a, <1>b, <1>c, <1>d, <1>q, <2>1
<1>3. ASSUME NEW m \in Seq1, RouteStart(m)
      PROVE  CursorsCalm'
  <2>1. /\ UNCHANGED <<messages, file, reads, stored, lost, missed, syncing, acking>>
        /\ m \in pushes
        /\ routing' = [routing EXCEPT
             ![m] = [pc |-> "append", paneOpen |-> messages[m].thread \in panes]]
    BY <1>3 DEF RouteStart
  <2>2. Syncs = {} /\ Routes = {}
    BY <2>1 DEF OneKind
  <2>3. Routes' = {m} /\ routing'[m].pc = "append"
    BY <1>0, <1>3, <2>1, <2>2, RouteSets
  <2>4. RoutesCalm'
    BY <2>3 DEF RoutesCalm
  <2> QED
    BY <1>a, <1>b, <1>d, <1>q, <2>1, <2>2, <2>4
<1>4. ASSUME NEW m \in Seq1, RouteAppend(m)
      PROVE  CursorsCalm'
  <2>1. /\ UNCHANGED <<messages, file, reads, lost, missed, syncing, acking>>
        /\ stored \subseteq stored'
    BY <1>4 DEF RouteAppend, AppendToInbox
  <2>2. Syncs = {} /\ Routes' = Routes /\ Routes = {m}
    BY <1>4, RouteSets DEF OneKind
  <2>3. routing'[m].pc = "update"
    <3>1. routing[m] = [pc |-> "append", paneOpen |-> routing[m].paneOpen]
      BY <1>4 DEF RouteAppend, FilesInv, RoutingGood, GoodRoute, NoTask, GoodWrite, Writing
    <3> QED
      BY <1>0, <1>4, <3>1 DEF RouteAppend
  <2>4. RoutesCalm'
    BY <2>2, <2>3 DEF RoutesCalm
  <2> QED
    BY <1>a, <1>b, <1>d, <1>q, <2>1, <2>2, <2>4
<1>5. ASSUME NEW m \in Seq1, RouteUpdate(m)
      PROVE  CursorsCalm'
  <2> DEFINE next == Routed(file, m, routing[m].paneOpen)
  <2>1. /\ UNCHANGED <<messages, file, reads, stored, lost, missed, syncing, acking>>
        /\ routing' = [routing EXCEPT ![m] = Writing(next)]
    BY <1>5 DEF RouteUpdate
  <2>2. Syncs = {} /\ Routes' = Routes /\ Routes = {m}
    BY <1>5, RouteSets DEF OneKind
  <2>3. \A t \in Thread : next.lastSeen[t] >= file.lastSeen[t]
    <3>1. file.lastSeen \in [Thread -> Nat]
      BY DEF FilesInv, GoodFile, GoodCursors
    <3>2. next.lastSeen = [file.lastSeen EXCEPT ![messages[m].thread] = Larger(@, m)]
      BY DEF Routed
    <3>3. m \in Nat
      BY DEF Seq1
    <3> HIDE DEF next
    <3> QED
      BY <3>1, <3>2, <3>3 DEF Larger
  <2>4. routing'[m].next = next
    BY <1>0, <2>1 DEF Writing
  <2>5. RoutesCalm'
    <3> HIDE DEF next
    <3> QED
      BY <2>1, <2>2, <2>3, <2>4 DEF RoutesCalm
  <2> QED
    BY <1>a, <1>b, <1>d, <1>q, <2>1, <2>2, <2>5
<1>6. ASSUME NEW m \in Seq1, RouteWrite(m)
      PROVE  CursorsCalm'
  <2>1. /\ UNCHANGED <<messages, reads, stored, lost, missed, syncing, acking>>
        /\ routing[m].pc = "write"
    BY <1>6 DEF RouteWrite
  <2>2. Syncs = {} /\ Routes' = {} /\ Routes = {m} /\ pushes = {} /\ Acks = {}
    BY <1>6, RouteSets DEF OneKind
  <2>3. Behind = {}
    <3>1. Behind \subseteq Coming
      BY <2>2 DEF Caught, UpToDate
    <3> QED
      BY <2>1, <2>2, <3>1 DEF Coming, Appending
  <2>4. Behind' = {}
    BY <2>1, <2>3 DEF Behind, Foreign
  <2>5. Safe(file'.lastSeen, At', Behind')
    BY <2>4 DEF Safe
  <2> QED
    BY <1>b, <1>e, <1>f, <1>g, <1>q, <2>1, <2>2, <2>5
<1>7. ASSUME NEW i \in SyncTask, Connect(i) \/ Hello(i)
      PROVE  CursorsCalm'
  <2>1. /\ UNCHANGED <<messages, file, reads, archived, stored, lost, missed, routing, acking>>
        /\ syncing' = [syncing EXCEPT ![i] = Loading]
    BY <1>7 DEF Connect, Hello, StartSync
  <2>2. SyncCalm(Loading, Behind', Listing, file'.lastSeen, At, Pending)
    BY DEF SyncCalm, Loading
  <2>3. \A j \in SyncTask : \/ syncing'[j] = syncing[j]
                            \/ SyncCalm(syncing'[j], Behind', Listing, file'.lastSeen, At, Pending)
    <3>1. \A j \in SyncTask : syncing'[j] = syncing[j] \/ syncing'[j] = Loading
      BY <2>1, Shapes
    <3> QED
      BY <2>2, <3>1
  <2>4. SyncsCalm'
    BY <1>0, <1>a, <2>1, <2>3, SyncsFrame
  <2> QED
    BY <1>a, <1>c, <1>d, <1>q, <2>1, <2>4
<1>8. ASSUME NEW i \in SyncTask,
             \/ SyncList(i) \/ SyncRead(i)
             \/ \E t \in Thread : SyncFetch(i, t)
             \/ \E m \in Seq1 : SyncAppend(i, m)
      PROVE  CursorsCalm'
  <2>1. /\ UNCHANGED <<messages, file, reads, lost, missed, routing, acking>>
        /\ stored \subseteq stored'
    <3>1. CASE SyncList(i) \/ SyncRead(i)
      BY <3>1 DEF SyncList, SyncRead
    <3>2. CASE \E t \in Thread : SyncFetch(i, t)
      BY <3>2 DEF SyncFetch
    <3>3. CASE \E m \in Seq1 : SyncAppend(i, m)
      BY <3>3 DEF SyncAppend, AppendToInbox
    <3> QED
      BY <1>8, <3>1, <3>2, <3>3
  <2>2. SyncsCalm'
    BY <1>8, SyncLoadCalm
  <2> QED
    BY <1>a, <1>c, <1>d, <1>q, <2>1, <2>2
<1>9. ASSUME NEW i \in SyncTask, SyncUpdate(i)
      PROVE  CursorsCalm'
  <2>1. UNCHANGED <<messages, file, reads, stored, lost, missed, routing, acking>>
    BY <1>9 DEF SyncUpdate
  <2>2. SyncsCalm'
    BY <1>9, SyncUpdateCalm
  <2> QED
    BY <1>a, <1>c, <1>d, <1>q, <2>1, <2>2
<1>10. ASSUME NEW i \in SyncTask, SyncWrite(i)
       PROVE  CursorsCalm'
  <2>1. UNCHANGED <<routing, acking>> /\ Routes = {} /\ Acks = {}
    BY <1>10, SyncSets DEF SyncWrite, OneKind
  <2>2. Safe(file'.lastSeen, At', Behind') /\ SyncsCalm'
    BY <1>10, SyncWriteCalm
  <2> QED
    BY <1>e, <1>f, <1>g, <1>h, <1>q, <2>1, <2>2
<1>11. ASSUME NEW i \in SyncTask, SyncFail(i)
       PROVE  CursorsCalm'
  <2>1. /\ UNCHANGED <<messages, file, reads, archived, stored, lost, routing, acking>>
        /\ missed \subseteq missed'
        /\ syncing' = [syncing EXCEPT ![i] = NoTask]
    BY <1>11 DEF SyncFail
  <2>2. SyncCalm(NoTask, Behind', Listing, file'.lastSeen, At, Pending)
    BY DEF SyncCalm, NoTask
  <2>3. \A j \in SyncTask : \/ syncing'[j] = syncing[j]
                            \/ SyncCalm(syncing'[j], Behind', Listing, file'.lastSeen, At, Pending)
    <3>1. \A j \in SyncTask : syncing'[j] = syncing[j] \/ syncing'[j] = NoTask
      BY <2>1, Shapes
    <3> QED
      BY <2>2, <3>1
  <2>4. SyncsCalm'
    BY <1>0, <1>a, <2>1, <2>3, SyncsFrame
  <2> QED
    BY <1>a, <1>c, <1>d, <1>q, <2>1, <2>4
<1>12. ASSUME NEW t \in Thread, AckStart(t)
       PROVE  CursorsCalm'
  <2>1. Syncs = {} /\ Acks = {}
    BY <1>12, StimulusSets DEF AckStart, UserActs
  <2>2. /\ UNCHANGED <<messages, file, reads, stored, lost, missed, routing, syncing>>
        /\ acking' = [acking EXCEPT ![t] = [pc |-> "mark"]]
    BY <1>12 DEF AckStart
  <2>3. AcksCalm'
    <3>1. Acks' = {t} /\ acking'[t].pc = "mark"
      BY <1>0, <1>12, <2>1, <2>2, AckSets
    <3> QED
      BY <3>1 DEF AcksCalm
  <2> QED
    BY <1>a, <1>b, <1>c, <1>q, <2>1, <2>2, <2>3
<1>13. ASSUME NEW t \in Thread, AckMark(t)
       PROVE  CursorsCalm'
  <2>1. /\ Syncs = {} /\ Acks = {t}
    BY <1>13, AckSets DEF OneKind
  <2>2. /\ UNCHANGED <<messages, file, stored, lost, missed, routing, syncing>>
        /\ reads \subseteq reads'
    BY <1>13 DEF AckMark
  <2>3. AcksCalm'
    <3>1. Acks' \subseteq {t}
      BY <1>13, <2>1, AckSets
    <3>2. acking[t] = [pc |-> "mark"]
      BY <1>13 DEF AckMark, FilesInv, AckingGood, GoodAck, NoTask, GoodWrite, Writing
    <3>3. acking'[t].pc = "update" \/ acking'[t] = NoTask
      BY <1>0, <1>13, <3>2 DEF AckMark
    <3> QED
      BY <3>1, <3>3 DEF AcksCalm, NoTask
  <2> QED
    BY <1>a, <1>b, <1>c, <1>q, <2>1, <2>2, <2>3
<1>14. ASSUME NEW t \in Thread, AckUpdate(t)
       PROVE  CursorsCalm'
  <2>1. Syncs = {} /\ Acks = {t} /\ Acks' = {t}
    BY <1>14, AckSets DEF OneKind
  <2>2. /\ UNCHANGED <<messages, file, reads, stored, lost, missed, routing, syncing>>
        /\ acking' = [acking EXCEPT ![t] = Writing(Acked(file, t))]
    BY <1>14 DEF AckUpdate
  <2>3. AcksCalm'
    <3>1. acking'[t].next = Acked(file, t)
      BY <1>0, <2>2 DEF Writing
    <3>2. Acked(file, t).lastSeen = file.lastSeen
      BY DEF Acked
    <3> QED
      BY <2>1, <2>2, <3>1, <3>2 DEF AcksCalm
  <2> QED
    BY <1>a, <1>b, <1>c, <1>q, <2>1, <2>2, <2>3
<1>15. ASSUME NEW t \in Thread, AckWrite(t)
       PROVE  CursorsCalm'
  <2>1. Syncs = {} /\ Acks = {t} /\ Acks' = {} /\ Routes = {}
    BY <1>15, AckSets DEF OneKind
  <2>2. /\ UNCHANGED <<messages, reads, stored, lost, missed, routing, syncing>>
        /\ file'.lastSeen = file.lastSeen
    BY <1>0, <1>15, <2>1 DEF AckWrite, AcksCalm
  <2>3. Safe(file'.lastSeen, At', Behind')
    <3>1. Behind' = Behind /\ At' = At
      BY <2>2 DEF Behind, Foreign, At, InThread
    <3> QED
      BY <1>0, <2>2, <3>1
  <2> QED
    BY <1>b, <1>e, <1>f, <1>h, <1>q, <2>1, <2>2, <2>3
<1>16. ASSUME NEW t \in Thread,
              TogglePane(t) \/ ToggleArchive(t)
       PROVE  CursorsCalm'
  <2>1. Syncs = {}
    BY <1>16, StimulusSets DEF TogglePane, ToggleArchive, UserActs
  <2>2. UNCHANGED <<messages, file, reads, stored, lost, missed, routing, syncing, acking>>
    BY <1>16 DEF TogglePane, ToggleArchive
  <2> QED
    BY <1>a, <1>b, <1>c, <1>d, <1>q, <2>1, <2>2
<1>i. ASSUME UNCHANGED <<messages, file, reads, archived, stored, lost, missed, routing, syncing, acking>>
      PROVE  CursorsCalm'
  <2>1. SyncsCalm'
    BY <1>0, <1>a, <1>i, SyncsFrame
  <2> QED
    BY <1>a, <1>c, <1>d, <1>i, <1>q, <2>1
<1>17. ASSUME NEW t \in Thread, DrainRead(t) \/ DrainUnlink(t) \/ DrainReturn(t)
       PROVE  CursorsCalm'
  BY <1>i, <1>17 DEF DrainRead, DrainUnlink, DrainReturn
<1>18. CASE Disconnect \/ UNCHANGED vars
  BY <1>i, <1>18 DEF Disconnect, vars
<1>19. CASE Crash
  <2>1. UNCHANGED <<messages, file, reads, stored, lost, missed>>
    BY <1>19 DEF Crash
  <2>2. Routes' = {} /\ Acks' = {} /\ Syncs' = {}
    BY <1>19, BusyFacts DEF Crash, Routes, Acks, Syncs
  <2>3. SyncsCalm'
    BY <2>2, NoSyncs
  <2> QED
    BY <1>a, <1>e, <1>f, <1>q, <2>1, <2>2, <2>3
<1> QED
  BY <1>1, <1>2, <1>3, <1>4, <1>5, <1>6, <1>7, <1>8, <1>9, <1>10, <1>11, <1>12, <1>13, <1>14,
     <1>15, <1>16, <1>17, <1>18, <1>19 DEF Next

-----------------------------------------------------------------------------
(***************************************************************************)
(* Counts.  The summary of thread t agrees with the relay, where u are its *)
(* unread messages, o all the others' messages in it, k those the router   *)
(* counted as read because a pane was open, and h the threads whose ack the*)
(* relay carried out unheard.                                              *)
(***************************************************************************)
Agrees(th, t, u, o, k, h) ==
  /\ t \in DOMAIN th => /\ t \notin h => th[t].unread <= Cardinality(u)
                        /\ th[t].unread >= Cardinality(u \ k)
  /\ o # {} => t \in DOMAIN th

(* All threads agree, leaving aside the messages in x. *)
AllAgree(th, x, u, o, k, h) == \A t \in Thread : Agrees(th, t, u[t] \ x, o[t] \ x, k, h)

UnreadAt == [t \in Thread |-> Unread(t)]
OthersAt == [t \in Thread |-> Foreign \intersect InThread(t)]

(* With a sync done: the counts agree but for a push not yet handled, and  *)
(* so will those the router and the ack write.                             *)
FileAgrees == Acks = {} => AllAgree(file.threads, pushes \union Routes, UnreadAt, OthersAt, muted, unheard)

RoutesAgree ==
  \A m \in Routes : routing[m].pc = "write" =>
    AllAgree(routing[m].next.threads, {}, UnreadAt, OthersAt, muted, unheard)

AckAgrees(a, r, th, u, o, k, h) ==
  /\ r.pc = "mark" => AllAgree(th, {}, u, o, k, h)
  /\ r.pc = "update" =>
       /\ \A t \in Thread \ {a} : Agrees(th, t, u[t], o[t], k, h)
       /\ u[a] = {} /\ (o[a] # {} => a \in DOMAIN th)
  /\ r.pc = "write" => AllAgree(r.next.threads, {}, u, o, k, h)

AcksAgree ==
  \A a \in Acks : AckAgrees(a, acking[a], file.threads, UnreadAt, OthersAt, muted, unheard)

CountsCalm == Live => FileAgrees /\ RoutesAgree /\ AcksAgree

LEMMA UnreadAtFacts ==
  ASSUME FilesInv
  PROVE  \A t \in Thread : /\ UnreadAt[t] = Unread(t) /\ IsFiniteSet(UnreadAt[t])
                           /\ Cardinality(UnreadAt[t]) \in Nat
                           /\ OthersAt[t] = Foreign \intersect InThread(t)
BY UnreadFinite DEF FilesInv, UnreadAt, OthersAt

(* Cardinalities of what is left of a finite set. *)
LEMMA LessCard ==
  ASSUME NEW u, IsFiniteSet(u), NEW k1, NEW k2, k1 \subseteq k2
  PROVE  /\ Cardinality(u \ k1) \in Nat /\ Cardinality(u \ k2) \in Nat
         /\ Cardinality(u \ k2) <= Cardinality(u \ k1)
         /\ Cardinality(u \ k1) <= Cardinality(u)
<1>1. u \ k1 \in SUBSET u /\ u \ k2 \in SUBSET (u \ k1)
  OBVIOUS
<1>2. IsFiniteSet(u \ k1) /\ Cardinality(u \ k1) <= Cardinality(u)
  BY <1>1, FS_Subset
<1>3. IsFiniteSet(u \ k2) /\ Cardinality(u \ k2) <= Cardinality(u \ k1)
  BY <1>1, <1>2, FS_Subset
<1> QED
  BY <1>2, <1>3, FS_CardinalityType

LEMMA OneMore ==
  ASSUME NEW u, IsFiniteSet(u), NEW m \in u, NEW k
  PROVE  /\ Cardinality(u) = Cardinality(u \ {m}) + 1
         /\ Cardinality(u \ {m}) \in Nat
         /\ Cardinality(u \ (k \union {m})) = Cardinality((u \ {m}) \ k)
         /\ Cardinality(u \ k) <= Cardinality((u \ {m}) \ k) + 1
         /\ Cardinality(u \ k) \in Nat /\ Cardinality((u \ {m}) \ k) \in Nat
<1>1. IsFiniteSet(u \ {m}) /\ Cardinality(u \ {m}) = Cardinality(u) - 1
      /\ Cardinality(u) \in Nat
  BY FS_RemoveElement, FS_CardinalityType
<1>2. u \ (k \union {m}) = (u \ {m}) \ k
  OBVIOUS
<1>3. Cardinality(u \ k) <= Cardinality((u \ {m}) \ k) + 1
      /\ Cardinality(u \ k) \in Nat /\ Cardinality((u \ {m}) \ k) \in Nat
  <2>1. IsFiniteSet(u \ k) /\ IsFiniteSet((u \ {m}) \ k)
    <3>1. u \ k \in SUBSET u /\ (u \ {m}) \ k \in SUBSET u
      OBVIOUS
    <3> QED
      BY <3>1, FS_Subset
  <2>2. Cardinality(u \ k) \in Nat /\ Cardinality((u \ {m}) \ k) \in Nat
    BY <2>1, FS_CardinalityType
  <2>3. CASE m \in k
    <3>1. u \ k = (u \ {m}) \ k
      BY <2>3
    <3> QED
      BY <2>2, <3>1
  <2>4. CASE m \notin k
    <3>1. (u \ {m}) \ k = (u \ k) \ {m} /\ m \in u \ k
      BY <2>4
    <3>2. Cardinality((u \ k) \ {m}) = Cardinality(u \ k) - 1
      BY <2>1, <3>1, FS_RemoveElement
    <3> QED
      BY <2>2, <3>1, <3>2
  <2> QED
    BY <2>3, <2>4
<1>4. Cardinality(u \ {m}) \in Nat
  BY <1>1, FS_CardinalityType
<1> QED
  BY <1>1, <1>2, <1>3, <1>4

(* The relay's list agrees with the relay. *)
LEMMA ListingAgrees ==
  ASSUME FilesInv, NEW h
  PROVE  AllAgree(Listing, {}, UnreadAt, OthersAt, muted, h)
<1> SUFFICES ASSUME NEW t \in Thread
             PROVE  Agrees(Listing, t, UnreadAt[t] \ {}, OthersAt[t] \ {}, muted, h)
  BY DEF AllAgree
<1>1. /\ UnreadAt[t] \ {} = UnreadAt[t] /\ UnreadAt[t] = Unread(t) /\ IsFiniteSet(UnreadAt[t])
      /\ Cardinality(UnreadAt[t]) \in Nat
      /\ OthersAt[t] = Foreign \intersect InThread(t)
  BY UnreadAtFacts
<1>2. t \in DOMAIN Listing => Listing[t].unread = Cardinality(Unread(t))
  BY DEF Listing
<1>3. OthersAt[t] # {} => t \in DOMAIN Listing
  BY <1>1 DEF Listing
<1>4. /\ Cardinality(UnreadAt[t] \ muted) <= Cardinality(UnreadAt[t])
      /\ Cardinality(UnreadAt[t] \ muted) \in Nat
  BY <1>1, LessCard
<1> QED
  BY <1>1, <1>2, <1>3, <1>4 DEF Agrees

(* One more message, counted or, with a pane open, not. *)
LEMMA BumpAgrees ==
  ASSUME FilesInv, NEW th, GoodThreads(th), NEW m \in Foreign, m \notin reads,
         NEW t0 \in Thread, t0 = messages[m].thread, NEW d, NEW k,
         \/ d = 0 /\ k = muted \union {m}
         \/ d = 1 /\ k = muted,
         AllAgree(th, {m}, UnreadAt, OthersAt, muted, unheard)
  PROVE  AllAgree(Bump(th, t0, d), {}, UnreadAt, OthersAt, k, unheard)
<1> SUFFICES ASSUME NEW t \in Thread
             PROVE  Agrees(Bump(th, t0, d), t, UnreadAt[t] \ {}, OthersAt[t] \ {}, k, unheard)
  BY DEF AllAgree
<1> DEFINE n == Bump(th, t0, d)
<1>1. PICK u : u = UnreadAt[t]
  OBVIOUS
<1>2. PICK o : o = OthersAt[t]
  OBVIOUS
<1>3. /\ UnreadAt[t] \ {} = u /\ OthersAt[t] \ {} = o
  BY <1>1, <1>2
<1>4. /\ IsFiniteSet(u) /\ Cardinality(u) \in Nat /\ u \subseteq o
      /\ m \in u <=> t = t0
      /\ m \in o <=> t = t0
  BY <1>1, <1>2, UnreadAtFacts DEF Unread, InThread, Foreign
<1>5. Agrees(th, t, u \ {m}, o \ {m}, muted, unheard)
  BY <1>1, <1>2 DEF AllAgree
<1>6. /\ DOMAIN n = DOMAIN th \union {t0}
      /\ \A x \in DOMAIN th : x # t0 => n[x] = th[x]
  BY DEF Bump
<1>7. CASE t # t0
  <2>1. u \ {m} = u /\ o \ {m} = o /\ u \ k = u \ muted
    BY <1>4, <1>7
  <2>2. t \in DOMAIN n <=> t \in DOMAIN th
    BY <1>6, <1>7
  <2>3. t \in DOMAIN th => n[t] = th[t]
    BY <1>6, <1>7
  <2> HIDE DEF n
  <2>4. Agrees(n, t, u, o, k, unheard)
    BY <1>5, <2>1, <2>2, <2>3 DEF Agrees
  <2> QED
    BY <1>3, <2>4 DEF n
<1>8. CASE t = t0
  <2>1. m \in u /\ t \in DOMAIN n
    BY <1>4, <1>6, <1>8
  <2>2. /\ Cardinality(u) = Cardinality(u \ {m}) + 1
        /\ Cardinality(u \ {m}) \in Nat
        /\ Cardinality(u \ (muted \union {m})) = Cardinality((u \ {m}) \ muted)
        /\ Cardinality(u \ muted) <= Cardinality((u \ {m}) \ muted) + 1
        /\ Cardinality(u \ muted) \in Nat /\ Cardinality((u \ {m}) \ muted) \in Nat
    BY <1>4, <2>1, OneMore
  <2>3. PICK c : c = (IF t \in DOMAIN th THEN th[t].unread ELSE 0)
    OBVIOUS
  <2>4. /\ c \in Nat /\ (t \notin unheard => c <= Cardinality(u \ {m}))
        /\ c >= Cardinality((u \ {m}) \ muted)
    <3>1. CASE t \in DOMAIN th
      <4>1. th[t].unread \in Nat
        BY <3>1 DEF GoodThreads, Summary
      <4> QED
        BY <1>5, <2>3, <3>1, <4>1 DEF Agrees
    <3>2. CASE t \notin DOMAIN th
      <4>1. o \ {m} = {}
        BY <1>5, <3>2 DEF Agrees
      <4>2. u \ {m} = {} /\ (u \ {m}) \ muted = {}
        BY <1>4, <4>1
      <4>3. Cardinality({}) = 0
        BY FS_EmptySet
      <4> QED
        BY <2>3, <3>2, <4>2, <4>3
    <3> QED
      BY <3>1, <3>2
  <2>5. n[t].unread = c + d
    <3>1. \A s \in Summary : [s EXCEPT !.unread = @ + d].unread = s.unread + d
      BY DEF Summary
    <3>2. t \in DOMAIN th => th[t] \in Summary
      BY DEF GoodThreads
    <3>3. n[t] = IF t \in DOMAIN th THEN [th[t] EXCEPT !.unread = @ + d]
                 ELSE [unread |-> d, archived |-> FALSE]
      BY <1>8 DEF Bump
    <3>4. CASE t \in DOMAIN th
      BY <2>3, <3>1, <3>2, <3>3, <3>4
    <3>5. CASE t \notin DOMAIN th
      <4>1. n[t].unread = d
        BY <3>3, <3>5
      <4>2. c = 0 /\ d \in Nat
        BY <2>3, <3>5
      <4> HIDE DEF n
      <4> QED
        BY <4>1, <4>2
    <3> QED
      BY <3>4, <3>5
  <2>6. (t \notin unheard => c + d <= Cardinality(u)) /\ c + d >= Cardinality(u \ k)
    <3>1. CASE d = 0 /\ k = muted \union {m}
      BY <2>2, <2>4, <3>1
    <3>2. CASE d = 1 /\ k = muted
      BY <2>2, <2>4, <3>2
    <3> QED
      BY <3>1, <3>2
  <2> HIDE DEF n
  <2>7. Agrees(n, t, u, o, k, unheard)
    BY <2>1, <2>5, <2>6 DEF Agrees
  <2> QED
    BY <1>3, <2>7 DEF n
<1> QED
  BY <1>7, <1>8

(* A message counted as read, or an ack not heard of, only loosens what a  *)
(* count must be.                                                          *)
LEMMA MutedLoosens ==
  ASSUME FilesInv, NEW th, GoodThreads(th), NEW x, NEW k, muted \subseteq k,
         NEW h, unheard \subseteq h,
         AllAgree(th, x, UnreadAt, OthersAt, muted, unheard)
  PROVE  AllAgree(th, x, UnreadAt, OthersAt, k, h)
<1> SUFFICES ASSUME NEW t \in Thread
             PROVE  Agrees(th, t, UnreadAt[t] \ x, OthersAt[t] \ x, k, h)
  BY DEF AllAgree
<1>1. PICK u : u = UnreadAt[t] \ x
  OBVIOUS
<1>2. IsFiniteSet(u)
  <2>1. IsFiniteSet(UnreadAt[t]) /\ u \in SUBSET UnreadAt[t]
    BY <1>1, UnreadAtFacts
  <2> QED
    BY <2>1, FS_Subset
<1>3. Agrees(th, t, u, OthersAt[t] \ x, muted, unheard)
  BY <1>1 DEF AllAgree
<1>4. /\ Cardinality(u \ muted) \in Nat /\ Cardinality(u \ k) \in Nat
      /\ Cardinality(u \ k) <= Cardinality(u \ muted)
  BY <1>2, LessCard
<1>5. t \in DOMAIN th => th[t].unread \in Nat
  BY DEF GoodThreads, Summary
<1>6. Agrees(th, t, u, OthersAt[t] \ x, k, h)
  BY <1>3, <1>4, <1>5 DEF Agrees
<1> QED
  BY <1>1, <1>6

(* The thread that is acknowledged has nothing unread left. *)
LEMMA AckedAgrees ==
  ASSUME FilesInv, GoodThreads(file.threads), NEW a \in Thread,
         \A t \in Thread \ {a} : Agrees(file.threads, t, UnreadAt[t], OthersAt[t], muted, unheard),
         UnreadAt[a] = {}, OthersAt[a] # {} => a \in DOMAIN file.threads
  PROVE  AllAgree(Acked(file, a).threads, {}, UnreadAt, OthersAt, muted, unheard)
<1> SUFFICES ASSUME NEW t \in Thread
             PROVE  Agrees(Acked(file, a).threads, t, UnreadAt[t] \ {}, OthersAt[t] \ {}, muted, unheard)
  BY DEF AllAgree
<1> DEFINE n == Acked(file, a).threads
<1>1. n = [x \in DOMAIN file.threads |->
             IF x = a THEN [file.threads[x] EXCEPT !.unread = 0] ELSE file.threads[x]]
  BY DEF Acked
<1>2. UnreadAt[t] \ {} = UnreadAt[t] /\ OthersAt[t] \ {} = OthersAt[t]
  OBVIOUS
<1>3. CASE t # a
  <2>1. DOMAIN n = DOMAIN file.threads /\ (t \in DOMAIN n => n[t] = file.threads[t])
    BY <1>1, <1>3
  <2>2. Agrees(file.threads, t, UnreadAt[t], OthersAt[t], muted, unheard)
    BY <1>3
  <2> HIDE DEF n
  <2>3. Agrees(n, t, UnreadAt[t], OthersAt[t], muted, unheard)
    BY <2>1, <2>2 DEF Agrees
  <2> QED
    BY <1>2, <2>3 DEF n
<1>4. CASE t = a
  <2>1. DOMAIN n = DOMAIN file.threads
    BY <1>1
  <2>2. t \in DOMAIN n => n[t].unread = 0
    <3>1. \A s \in Summary : [s EXCEPT !.unread = 0].unread = 0
      BY DEF Summary
    <3>2. a \in DOMAIN file.threads => file.threads[a] \in Summary
      BY DEF GoodThreads
    <3>3. a \in DOMAIN file.threads => n[a] = [file.threads[a] EXCEPT !.unread = 0]
      BY <1>1
    <3> HIDE DEF n
    <3> QED
      BY <1>4, <2>1, <3>1, <3>2, <3>3
  <2>3. UnreadAt[t] = {} /\ UnreadAt[t] \ muted = {} /\ Cardinality({}) = 0
    BY <1>4, FS_EmptySet
  <2> HIDE DEF n
  <2>4. Agrees(n, t, UnreadAt[t], OthersAt[t], muted, unheard)
    BY <1>4, <2>1, <2>2, <2>3 DEF Agrees
  <2> QED
    BY <1>2, <2>4 DEF n
<1> QED
  BY <1>3, <1>4

LEMMA CountsStep ==
  ASSUME Overlap = FALSE, FilesInv, StateTypes, OneKind, CursorsCalm, CountsCalm, [Next]_vars
  PROVE  CountsCalm'
<1> USE DEF relayVars, fileVars, taskVars, ghostVars, boundVars
<1> HIDE DEF Routes, Syncs, Acks
<1>0. DOMAIN routing = Seq1 /\ DOMAIN acking = Thread /\ GoodThreads(file.threads)
  BY Shapes DEF StateTypes
<1>q. ASSUME Live' => FileAgrees' /\ RoutesAgree' /\ AcksAgree'
      PROVE  CountsCalm'
  BY <1>q DEF CountsCalm
<1>a. ASSUME ~Live' PROVE CountsCalm'
  BY <1>a DEF CountsCalm
<1>b. UNCHANGED <<messages, reads>> => UnreadAt' = UnreadAt /\ OthersAt' = OthersAt
  BY DEF UnreadAt, OthersAt, Unread, InThread, Foreign
<1>c. UNCHANGED routing => Routes' = Routes
  BY DEF Routes
<1>d. UNCHANGED acking => Acks' = Acks
  BY DEF Acks
<1>e. Routes' = {} => RoutesAgree'
  BY DEF RoutesAgree
<1>f. Acks' = {} => AcksAgree'
  BY DEF AcksAgree
<1>g. ASSUME UNCHANGED <<messages, reads, muted, unheard, file, pushes, routing, acking>>, Live' => Live
      PROVE  CountsCalm'
  <2>1. /\ UnreadAt' = UnreadAt /\ OthersAt' = OthersAt /\ Routes' = Routes /\ Acks' = Acks
    BY <1>b, <1>c, <1>d, <1>g
  <2>2. (FileAgrees => FileAgrees') /\ (RoutesAgree => RoutesAgree') /\ (AcksAgree => AcksAgree')
    BY <1>g, <2>1 DEF FileAgrees, RoutesAgree, AcksAgree
  <2> QED
    BY <1>g, <2>2 DEF CountsCalm
<1>1. ASSUME NEW t \in Thread, NEW mine \in BOOLEAN, Post(t, mine)
      PROVE  CountsCalm'
  <2>1. /\ pushes = {} /\ Routes = {} /\ Acks = {}
    BY <1>1, StimulusSets DEF Post
  <2>2. UNCHANGED <<reads, muted, unheard, file, routing, acking, link, synced>>
    BY <1>1 DEF Post
  <2>3. Routes' = {} /\ Acks' = {}
    BY <1>c, <1>d, <2>1, <2>2
  <2>4. /\ Len(messages) \in Nat /\ DOMAIN messages = 1..Len(messages)
        /\ DOMAIN messages' = 1..(Len(messages) + 1)
        /\ \A s \in 1..Len(messages) : messages'[s] = messages[s]
        /\ messages'[Len(messages) + 1].mine = mine
    BY <1>1, AppendProperties, ForeignFacts DEF Post, FilesInv, MessagesGood, Message
  <2>5. pushes' = IF mine THEN {} ELSE {Len(messages) + 1}
    BY <1>1, <2>1 DEF Post
  <2>6. /\ Foreign' = Foreign \union pushes'
        /\ Foreign \intersect pushes' = {}
    BY <2>4, <2>5 DEF Foreign
  <2>7. \A x \in Thread : Foreign \intersect InThread(x)' = Foreign \intersect InThread(x)
    BY <2>4 DEF Foreign, InThread
  <2>8. \A x \in Thread : /\ UnreadAt'[x] \ pushes' = UnreadAt[x]
                          /\ OthersAt'[x] \ pushes' = OthersAt[x]
    BY <2>2, <2>6, <2>7 DEF UnreadAt, OthersAt, Unread
  <2>9. Live => AllAgree(file.threads, {}, UnreadAt, OthersAt, muted, unheard)
    BY <2>1 DEF CountsCalm, FileAgrees
  <2>10. Live => AllAgree(file.threads, pushes', UnreadAt', OthersAt', muted, unheard)
    BY <2>8, <2>9 DEF AllAgree
  <2>11. Live' => FileAgrees'
    BY <2>2, <2>3, <2>10 DEF FileAgrees, Live
  <2> QED
    BY <1>e, <1>f, <1>q, <2>3, <2>11
<1>2. ASSUME NEW m \in Seq1, LosePush(m)
      PROVE  CountsCalm'
  <2>1. ~Live'
    BY <1>2 DEF LosePush, Live
  <2> QED
    BY <1>a, <2>1
<1>3. ASSUME NEW m \in Seq1, RouteStart(m)
      PROVE  CountsCalm'
  <2>1. /\ UNCHANGED <<messages, reads, muted, unheard, file, acking, link, synced>>
        /\ m \in pushes /\ pushes' = pushes \ {m}
        /\ routing' = [routing EXCEPT
             ![m] = [pc |-> "append", paneOpen |-> messages[m].thread \in panes]]
    BY <1>3 DEF RouteStart
  <2>2. pushes = {m} /\ Routes = {} /\ Routes' = {m} /\ Acks = {} /\ Acks' = {}
    BY <1>3, <1>d, <2>1, RouteSets DEF OneKind
  <2>3. routing'[m].pc = "append"
    BY <1>0, <2>1
  <2>4. RoutesAgree'
    BY <2>2, <2>3 DEF RoutesAgree
  <2>5. pushes' \union Routes' = pushes \union Routes
    BY <2>1, <2>2
  <2>6. Live' => FileAgrees'
    BY <1>b, <2>1, <2>2, <2>5 DEF FileAgrees, CountsCalm, Live
  <2> QED
    BY <1>f, <1>q, <2>2, <2>4, <2>6
<1>4. ASSUME NEW m \in Seq1, RouteAppend(m)
      PROVE  CountsCalm'
  <2>1. UNCHANGED <<messages, reads, muted, unheard, file, acking, link, synced, pushes>>
    BY <1>4 DEF RouteAppend
  <2>2. Routes = {m} /\ Routes' = {m} /\ Acks = {} /\ Acks' = {}
    BY <1>4, <1>d, <2>1, RouteSets DEF OneKind
  <2>3. routing'[m].pc = "update"
    <3>1. routing[m] = [pc |-> "append", paneOpen |-> routing[m].paneOpen]
      BY <1>4 DEF RouteAppend, FilesInv, RoutingGood, GoodRoute, NoTask, GoodWrite, Writing
    <3> QED
      BY <1>0, <1>4, <3>1 DEF RouteAppend
  <2>4. RoutesAgree'
    BY <2>2, <2>3 DEF RoutesAgree
  <2>5. Live' => FileAgrees'
    BY <1>b, <2>1, <2>2 DEF FileAgrees, CountsCalm, Live
  <2> QED
    BY <1>f, <1>q, <2>2, <2>4, <2>5
<1>5. ASSUME NEW m \in Seq1, RouteUpdate(m)
      PROVE  CountsCalm'
  <2> DEFINE open == routing[m].paneOpen
             next == Routed(file, m, open)
  <2>1. /\ UNCHANGED <<messages, reads, file, acking, link, synced, pushes>>
        /\ routing' = [routing EXCEPT ![m] = Writing(next)]
        /\ muted' = IF open THEN muted \union {m} ELSE muted
        /\ routing[m].pc = "update" /\ unheard' = unheard
    BY <1>5 DEF RouteUpdate
  <2>2. Routes = {m} /\ Routes' = {m} /\ Acks = {} /\ Acks' = {} /\ pushes = {} /\ m \notin reads
    BY <1>5, <1>d, <2>1, RouteSets DEF OneKind
  <2>3. m \in Foreign
    BY <2>1 DEF FilesInv, RoutingGood, GoodRoute, NoTask, GoodWrite, Writing, StateTypes, ForeignSets
  <2>4. PICK t0 \in Thread : t0 = messages[m].thread
    BY <2>3, ForeignFacts DEF FilesInv, Foreign, Message
  <2>5. PICK d : d = (IF open THEN 0 ELSE 1)
    OBVIOUS
  <2>6. next.threads = Bump(file.threads, t0, d)
    BY <2>4, <2>5 DEF Routed
  <2>7. ASSUME Live PROVE AllAgree(file.threads, {m}, UnreadAt, OthersAt, muted, unheard)
    BY <2>2, <2>7 DEF CountsCalm, FileAgrees
  <2>8. \/ d = 0 /\ muted' = muted \union {m}
        \/ d = 1 /\ muted' = muted
    BY <2>1, <2>5
  <2>9. ASSUME Live PROVE AllAgree(next.threads, {}, UnreadAt, OthersAt, muted', unheard)
    <3> HIDE DEF next
    <3> QED
      BY <1>0, <2>2, <2>3, <2>4, <2>6, <2>7, <2>8, <2>9, BumpAgrees
  <2>10. routing'[m].next = next
    BY <1>0, <2>1 DEF Writing
  <2>11. Live => RoutesAgree'
    <3> HIDE DEF next
    <3> QED
      BY <1>b, <2>1, <2>2, <2>9, <2>10 DEF RoutesAgree
  <2>12. ASSUME Live PROVE FileAgrees'
    <3>1. muted \subseteq muted'
      BY <2>8
    <3>2. AllAgree(file.threads, {m}, UnreadAt, OthersAt, muted', unheard)
      BY <1>0, <2>7, <2>12, <3>1, MutedLoosens
    <3>3. pushes' \union Routes' = {m}
      BY <2>1, <2>2
    <3> QED
      BY <1>b, <2>1, <3>2, <3>3 DEF FileAgrees
  <2>13. Live' => Live
    BY <2>1 DEF Live
  <2> QED
    BY <1>f, <1>q, <2>2, <2>11, <2>12, <2>13
<1>6. ASSUME NEW m \in Seq1, RouteWrite(m)
      PROVE  CountsCalm'
  <2>1. /\ UNCHANGED <<messages, reads, muted, unheard, acking, link, synced, pushes>>
        /\ file' = routing[m].next /\ routing[m].pc = "write"
    BY <1>6 DEF RouteWrite
  <2>2. Routes = {m} /\ Routes' = {} /\ Acks = {} /\ Acks' = {} /\ pushes = {}
    BY <1>6, <1>d, <2>1, RouteSets DEF OneKind
  <2>3. Live => AllAgree(file'.threads, {}, UnreadAt, OthersAt, muted, unheard)
    BY <2>1, <2>2 DEF CountsCalm, RoutesAgree
  <2>4. Live' => FileAgrees'
    BY <1>b, <2>1, <2>2, <2>3 DEF FileAgrees, Live
  <2> QED
    BY <1>e, <1>f, <1>q, <2>2, <2>4
<1>7. ASSUME NEW i \in SyncTask, Connect(i)
      PROVE  CountsCalm'
  <2>1. ~Live'
    BY <1>7 DEF Connect, Live
  <2> QED
    BY <1>a, <2>1
<1>8. ASSUME NEW i \in SyncTask,
             \/ Hello(i) \/ SyncList(i) \/ SyncRead(i) \/ SyncUpdate(i) \/ SyncFail(i)
             \/ \E t \in Thread : SyncFetch(i, t)
             \/ \E m \in Seq1 : SyncAppend(i, m)
      PROVE  CountsCalm'
  <2>1. /\ UNCHANGED <<messages, reads, muted, unheard, file, pushes, routing, acking, synced>>
        /\ link' # "down" => link # "down"
    <3>1. CASE Hello(i) \/ SyncFail(i)
      BY <3>1 DEF Hello, SyncFail
    <3>2. CASE SyncList(i) \/ SyncRead(i) \/ SyncUpdate(i)
      BY <3>2 DEF SyncList, SyncRead, SyncUpdate
    <3>3. CASE \E t \in Thread : SyncFetch(i, t)
      BY <3>3 DEF SyncFetch
    <3>4. CASE \E m \in Seq1 : SyncAppend(i, m)
      BY <3>4 DEF SyncAppend
    <3> QED
      BY <1>8, <3>1, <3>2, <3>3, <3>4
  <2> QED
    BY <1>g, <2>1 DEF Live
<1>9. ASSUME NEW i \in SyncTask, SyncWrite(i)
      PROVE  CountsCalm'
  <2>1. /\ UNCHANGED <<messages, reads, muted, pushes, routing, acking>>
        /\ file' = syncing[i].next /\ syncing[i].pc = "write"
    BY <1>9 DEF SyncWrite
  <2>2. pushes = {} /\ Routes' = {} /\ Acks' = {}
    BY <1>9, <1>c, <1>d, <2>1, SyncSets DEF OneKind
  <2>3. file'.threads = Listing
    BY <2>1 DEF CursorsCalm, SyncsCalm, SyncCalm
  <2>4. AllAgree(file'.threads, {}, UnreadAt, OthersAt, muted, unheard')
    BY <2>3, ListingAgrees
  <2>5. FileAgrees'
    BY <1>b, <2>1, <2>2, <2>4 DEF FileAgrees
  <2> QED
    BY <1>e, <1>f, <1>q, <2>2, <2>5
<1>10. ASSUME NEW t \in Thread, AckStart(t)
       PROVE  CountsCalm'
  <2>1. pushes = {} /\ Routes = {} /\ Acks = {}
    BY <1>10, StimulusSets DEF AckStart, UserActs
  <2>2. /\ UNCHANGED <<messages, reads, muted, unheard, file, pushes, routing, link, synced>>
        /\ acking' = [acking EXCEPT ![t] = [pc |-> "mark"]]
    BY <1>10 DEF AckStart
  <2>3. Acks' = {t} /\ acking'[t] = [pc |-> "mark"] /\ Routes' = {}
    BY <1>0, <1>10, <1>c, <2>1, <2>2, AckSets
  <2>4. Live => AllAgree(file.threads, {}, UnreadAt, OthersAt, muted, unheard)
    BY <2>1 DEF CountsCalm, FileAgrees
  <2>5. Live' => AcksAgree'
    BY <1>b, <2>2, <2>3, <2>4 DEF AcksAgree, AckAgrees, Live
  <2>6. FileAgrees'
    BY <2>3 DEF FileAgrees
  <2> QED
    BY <1>e, <1>q, <2>3, <2>5, <2>6
<1>11. ASSUME NEW t \in Thread, AckMark(t)
       PROVE  CountsCalm'
  <2>1. /\ UNCHANGED <<messages, muted, file, pushes, routing, link, synced>>
        /\ acking[t].pc = "mark"
    BY <1>11 DEF AckMark
  <2>2. Acks = {t} /\ pushes = {} /\ Routes' = {}
    BY <1>11, <1>c, <2>1, AckSets DEF OneKind
  <2>3. Live => AllAgree(file.threads, {}, UnreadAt, OthersAt, muted, unheard)
    BY <2>1, <2>2 DEF CountsCalm, AcksAgree, AckAgrees
  <2>4. ASSUME acking' = [acking EXCEPT ![t] = NoTask],
               Live => AllAgree(file.threads, {}, UnreadAt', OthersAt', muted, unheard')
        PROVE  CountsCalm'
    <3>1. Acks' = {}
      <4>1. Acks' = Acks \ {t}
        BY <2>4, BusyFacts DEF Acks
      <4> QED
        BY <2>2, <4>1
    <3>2. Live' => FileAgrees'
      BY <2>1, <2>2, <2>4 DEF FileAgrees, Live
    <3> QED
      BY <1>e, <1>f, <1>q, <2>2, <3>1, <3>2
  <2>5. CASE /\ reads' = reads /\ unheard' = unheard
             /\ acking' = [acking EXCEPT ![t] = NoTask]
    BY <1>b, <2>1, <2>3, <2>5, <2>4
  <2>6. CASE /\ reads' = reads \union (InThread(t) \intersect Foreign)
             /\ acking' = [acking EXCEPT ![t].pc = "update"] /\ unheard' = unheard
    <3>1. acking'[t].pc = "update"
      <4>1. acking[t] = [pc |-> "mark"]
        BY <2>1 DEF FilesInv, AckingGood, GoodAck, NoTask, GoodWrite, Writing
      <4> QED
        BY <1>0, <2>6, <4>1
    <3>2. Acks' = {t}
      <4>1. t \in Acks'
        BY <1>0, <2>6, <3>1 DEF Acks, Busy, NoTask
      <4> QED
        BY <1>11, <2>2, <4>1, AckSets
    <3>3. OthersAt' = OthersAt
      BY <2>1 DEF OthersAt, InThread, Foreign
    <3>4. UnreadAt'[t] = {} /\ \A x \in Thread \ {t} : UnreadAt'[x] = UnreadAt[x]
      BY <2>1, <2>6 DEF UnreadAt, Unread, InThread, Foreign
    <3>5. Live => /\ \A x \in Thread \ {t} :
                       Agrees(file.threads, x, UnreadAt'[x], OthersAt[x], muted, unheard)
                  /\ OthersAt[t] # {} => t \in DOMAIN file.threads
      <4>1. Live => \A x \in Thread :
              Agrees(file.threads, x, UnreadAt[x] \ {}, OthersAt[x] \ {}, muted, unheard)
        BY <2>3 DEF AllAgree
      <4>2. Live => \A x \in Thread : Agrees(file.threads, x, UnreadAt[x], OthersAt[x], muted, unheard)
        BY <4>1
      <4> QED
        BY <3>4, <4>2 DEF Agrees
    <3>6. Live' => AcksAgree'
      BY <2>1, <2>6, <3>1, <3>2, <3>3, <3>4, <3>5 DEF AcksAgree, AckAgrees, Live
    <3>7. FileAgrees'
      BY <3>2 DEF FileAgrees
    <3> QED
      BY <1>e, <1>q, <2>2, <3>6, <3>7
  <2>7. CASE /\ reads' = reads \union (InThread(t) \intersect Foreign)
             /\ acking' = [acking EXCEPT ![t] = NoTask] /\ unheard' = unheard \union {t}
    <3>1. OthersAt' = OthersAt
      BY <2>1 DEF OthersAt, InThread, Foreign
    <3>2. UnreadAt'[t] = {} /\ \A x \in Thread \ {t} : UnreadAt'[x] = UnreadAt[x]
      BY <2>1, <2>7 DEF UnreadAt, Unread, InThread, Foreign
    <3>3. SUFFICES ASSUME Live, NEW x \in Thread
                   PROVE  Agrees(file.threads, x, UnreadAt'[x] \ {}, OthersAt'[x] \ {}, muted, unheard')
      BY <2>4, <2>7 DEF AllAgree
    <3>4. Agrees(file.threads, x, UnreadAt[x] \ {}, OthersAt[x] \ {}, muted, unheard)
      BY <2>3, <3>3 DEF AllAgree
    <3>5. CASE x = t
      <4>1. Cardinality((UnreadAt'[x] \ {}) \ muted) = 0
        <5>1. (UnreadAt'[x] \ {}) \ muted = {}
          BY <3>2, <3>5
        <5> QED
          BY <5>1, FS_EmptySet
      <4>2. x \in DOMAIN file.threads => file.threads[x].unread \in Nat
        BY <1>0 DEF GoodThreads, Summary
      <4>3. x \in unheard'
        BY <2>7, <3>5
      <4> QED
        BY <3>1, <3>4, <4>1, <4>2, <4>3 DEF Agrees
    <3>6. CASE x # t
      <4>1. UnreadAt'[x] = UnreadAt[x] /\ (x \in unheard => x \in unheard')
        BY <2>7, <3>2, <3>6
      <4> QED
        BY <3>1, <3>4, <4>1 DEF Agrees
    <3> QED
      BY <3>5, <3>6
  <2> QED
    BY <1>11, <2>5, <2>6, <2>7 DEF AckMark
<1>12. ASSUME NEW t \in Thread, AckUpdate(t)
       PROVE  CountsCalm'
  <2> DEFINE next == Acked(file, t)
  <2>1. /\ UNCHANGED <<messages, reads, muted, unheard, file, pushes, routing, link, synced>>
        /\ acking[t].pc = "update" /\ acking' = [acking EXCEPT ![t] = Writing(next)]
    BY <1>12 DEF AckUpdate
  <2>2. Acks = {t} /\ Acks' = {t} /\ Routes' = {}
    BY <1>12, <1>c, <2>1, AckSets DEF OneKind
  <2>3. Live => AllAgree(next.threads, {}, UnreadAt, OthersAt, muted, unheard)
    <3>1. Live => /\ \A x \in Thread \ {t} :
                       Agrees(file.threads, x, UnreadAt[x], OthersAt[x], muted, unheard)
                  /\ UnreadAt[t] = {} /\ (OthersAt[t] # {} => t \in DOMAIN file.threads)
      BY <2>1, <2>2 DEF CountsCalm, AcksAgree, AckAgrees
    <3> QED
      BY <1>0, <3>1, AckedAgrees
  <2>4. acking'[t].next = next /\ acking'[t].pc = "write"
    BY <1>0, <2>1 DEF Writing
  <2> HIDE DEF next
  <2>5. Live' => AcksAgree'
    BY <1>b, <2>1, <2>2, <2>3, <2>4 DEF AcksAgree, AckAgrees, Live
  <2>6. FileAgrees'
    BY <2>2 DEF FileAgrees
  <2> QED
    BY <1>e, <1>q, <2>2, <2>5, <2>6
<1>13. ASSUME NEW t \in Thread, AckWrite(t)
       PROVE  CountsCalm'
  <2>1. /\ UNCHANGED <<messages, reads, muted, unheard, pushes, routing, link, synced>>
        /\ acking[t].pc = "write" /\ file' = acking[t].next
    BY <1>13 DEF AckWrite
  <2>2. Acks = {t} /\ Acks' = {} /\ Routes' = {} /\ pushes = {}
    BY <1>13, <1>c, <2>1, AckSets DEF OneKind
  <2>3. Live => AllAgree(file'.threads, {}, UnreadAt, OthersAt, muted, unheard)
    BY <2>1, <2>2 DEF CountsCalm, AcksAgree, AckAgrees
  <2>4. Live' => FileAgrees'
    BY <1>b, <2>1, <2>2, <2>3 DEF FileAgrees, Live
  <2> QED
    BY <1>e, <1>f, <1>q, <2>2, <2>4
<1>14. ASSUME NEW t \in Thread,
              \/ DrainRead(t) \/ DrainUnlink(t) \/ DrainReturn(t)
              \/ TogglePane(t) \/ ToggleArchive(t)
       PROVE  CountsCalm'
  <2>1. UNCHANGED <<messages, reads, muted, unheard, file, pushes, routing, acking, link, synced>>
    BY <1>14 DEF DrainRead, DrainUnlink, DrainReturn, TogglePane, ToggleArchive
  <2> QED
    BY <1>g, <2>1 DEF Live
<1>15. CASE Disconnect \/ Crash
  <2>1. ~Live'
    BY <1>15 DEF Disconnect, Crash, Live
  <2> QED
    BY <1>a, <2>1
<1>16. CASE UNCHANGED vars
  <2>1. UNCHANGED <<messages, reads, muted, unheard, file, pushes, routing, acking, link, synced>>
    BY <1>16 DEF vars
  <2> QED
    BY <1>g, <2>1 DEF Live
<1> QED
  BY <1>1, <1>2, <1>3, <1>4, <1>5, <1>6, <1>7, <1>8, <1>9, <1>10, <1>11, <1>12, <1>13, <1>14,
     <1>15, <1>16 DEF Next

-----------------------------------------------------------------------------
(* The invariant of a daemon that is given time to finish. *)
CalmInv == OneKind /\ Caught /\ CursorsCalm /\ CountsCalm

(* A daemon that starts for the first time has nothing to do. *)
LEMMA InitCalm == Init => CalmInv
<1> SUFFICES ASSUME Init PROVE CalmInv
  OBVIOUS
<1>1. Routes = {} /\ Syncs = {} /\ Acks = {}
  BY BusyFacts DEF Init, Routes, Syncs, Acks
<1>2. pushes = {} /\ stored = {} /\ link = "down" /\ ~synced /\ ~Live
  BY DEF Init, Live
<1>3. Foreign = {}
  BY DEF Init, Foreign
<1>4. OneKind
  BY <1>1, <1>2 DEF OneKind
<1>5. Caught
  BY <1>1, <1>2 DEF Caught, UpToDate
<1>6. CursorsCalm
  <2>1. Safe(file.lastSeen, At, Behind)
    BY <1>3 DEF Safe, Behind
  <2>2. SyncsCalm
    <3>1. \A i \in SyncTask : syncing[i].pc = "idle"
      BY DEF Init, NoTask
    <3> QED
      BY <3>1 DEF SyncsCalm, SyncCalm
  <2> QED
    BY <1>1, <2>1, <2>2 DEF CursorsCalm
<1>7. CountsCalm
  BY <1>2 DEF CountsCalm
<1> QED
  BY <1>4, <1>5, <1>6, <1>7 DEF CalmInv

LEMMA CalmStep ==
  ASSUME Overlap = FALSE, FilesInv, StateTypes, CalmInv, [Next]_vars
  PROVE  FilesInv' /\ StateTypes' /\ CalmInv'
<1>1. OneKind /\ Caught /\ CursorsCalm /\ CountsCalm
  BY DEF CalmInv
<1>2. FilesInv' /\ StateTypes'
  BY StepGood, TypesStep
<1>3. DOMAIN syncing' = SyncTask
  BY <1>2 DEF FilesInv, SyncingGood, StateTypes, TasksTyped
<1>4. OneKind'
  BY <1>1, OneKindStep
<1>5. Caught'
  BY <1>1, CaughtStep
<1>6. CursorsCalm'
  BY <1>1, <1>3, <1>4, CursorsStep
<1>7. CountsCalm'
  BY <1>1, CountsStep
<1> QED
  BY <1>2, <1>4, <1>5, <1>6, <1>7 DEF CalmInv

(* The invariant behind the results below: which handlers can be under way *)
(* together, that all that is missing is on its way once a sync has        *)
(* finished, that a sync puts everything missing on disk before it moves a *)
(* cursor, and that the counts held by state.json and by the handlers about*)
(* to write it are the relay's.                                            *)
LEMMA DaemonCalmInvariant ==
  ASSUME Overlap = FALSE
  PROVE  Spec => [](FilesInv /\ StateTypes /\ CalmInv)
<1>1. Init => FilesInv /\ StateTypes /\ CalmInv
  BY InitGood, InitTypes, InitCalm
<1>2. (FilesInv /\ StateTypes /\ CalmInv) /\ [Next]_vars
        => (FilesInv /\ StateTypes /\ CalmInv)'
  BY CalmStep
<1> QED
  BY <1>1, <1>2, PTL DEF Spec

(* lastSeenSeqByThread passes no unread message that is not on disk, bar   *)
(* those the relay dropped or the last sync of a connection failed to      *)
(* bring: what GET /messages?sinceSeq is asked for leaves nothing out.     *)
THEOREM DaemonCalmCursorNeverSkips ==
  ASSUME Overlap = FALSE
  PROVE  Spec => []CursorNeverSkips
<1>1. FilesInv /\ CalmInv => CursorNeverSkips
  <2> SUFFICES ASSUME FilesInv, CalmInv,
                      NEW t \in Thread, NEW m \in Unread(t),
                      m <= file.lastSeen[t], m \notin stored \union lost \union missed
               PROVE  FALSE
    BY DEF CursorNeverSkips
  <2>1. m \in At[t] \intersect Behind
    BY DEF At, Behind, Unread
  <2>2. m > file.lastSeen[t]
    BY <2>1 DEF CalmInv, CursorsCalm, Safe
  <2>3. m \in Nat /\ file.lastSeen[t] \in Nat
    <3>1. m \in DOMAIN messages
      BY DEF Unread, Foreign
    <3> QED
      BY <3>1, ForeignFacts DEF FilesInv, GoodFile, GoodCursors
  <2> QED
    BY <2>2, <2>3
<1> QED
  BY <1>1, DaemonCalmInvariant, PTL

(* Once a sync has finished and the daemon rests, the counts that Claude   *)
(* and the TUI are shown are the relay's, but for messages that went into  *)
(* an open pane, and for threads the relay has marked as read without its  *)
(* answer arriving: those may show too many until the next sync.           *)
THEOREM DaemonCalmCountsMatchRelay ==
  ASSUME Overlap = FALSE
  PROVE  Spec => []CountsMatchRelay
<1>1. FilesInv /\ CalmInv => CountsMatchRelay
  <2> SUFFICES ASSUME FilesInv, CalmInv, Idle, link = "up", synced,
                      NEW t \in Thread, Foreign \intersect InThread(t) # {}
               PROVE  /\ t \in DOMAIN file.threads
                      /\ t \notin unheard => file.threads[t].unread <= Cardinality(Unread(t))
                      /\ file.threads[t].unread >= Cardinality(Unread(t) \ muted)
    BY DEF CountsMatchRelay
  <2>1. pushes \union Routes = {} /\ Acks = {} /\ Live
    BY QuietSets DEF Live
  <2>2. AllAgree(file.threads, {}, UnreadAt, OthersAt, muted, unheard)
    BY <2>1 DEF CalmInv, CountsCalm, FileAgrees
  <2>3. Agrees(file.threads, t, UnreadAt[t], OthersAt[t], muted, unheard)
    <3>1. UnreadAt[t] \ {} = UnreadAt[t] /\ OthersAt[t] \ {} = OthersAt[t]
      OBVIOUS
    <3> QED
      BY <2>2, <3>1 DEF AllAgree
  <2>4. UnreadAt[t] = Unread(t) /\ OthersAt[t] = Foreign \intersect InThread(t)
    BY DEF UnreadAt, OthersAt
  <2> QED
    BY <2>3, <2>4 DEF Agrees
<1> QED
  BY <1>1, DaemonCalmInvariant, PTL

(* No write of state.json moves a cursor back: the router takes the larger *)
(* seq, the ack keeps the cursors, and a sync's backfill reaches at least  *)
(* the last message of the thread.                                         *)
LEMMA CursorsOnlyAdvance ==
  ASSUME FilesInv, StateTypes, CalmInv, [Next]_vars, NEW x \in Thread
  PROVE  file'.lastSeen[x] >= file.lastSeen[x]
<1> USE DEF relayVars, fileVars, taskVars, ghostVars, boundVars
<1>1. /\ file.lastSeen[x] \in Nat
      /\ file.lastSeen[x] = 0 \/ file.lastSeen[x] \in At[x]
  BY DEF FilesInv, GoodFile, GoodCursors, Kept, KeptAt, At
<1>2. CursorsCalm
  BY DEF CalmInv
<1>3. ASSUME UNCHANGED file
      PROVE  file'.lastSeen[x] >= file.lastSeen[x]
  BY <1>1, <1>3
<1>4. ASSUME NEW m \in Seq1, RouteWrite(m)
      PROVE  file'.lastSeen[x] >= file.lastSeen[x]
  BY <1>2, <1>4, RouteSets DEF RouteWrite, CursorsCalm
<1>5. ASSUME NEW i \in SyncTask, SyncWrite(i)
      PROVE  file'.lastSeen[x] >= file.lastSeen[x]
  <2>1. IF x \notin Pending THEN file'.lastSeen[x] = file.lastSeen[x]
        ELSE \A s \in At[x] : s <= file'.lastSeen[x]
    BY <1>2, <1>5 DEF SyncWrite, CursorsCalm, SyncsCalm, SyncCalm
  <2>2. file'.lastSeen[x] \in Nat
    BY <1>5 DEF SyncWrite, FilesInv, SyncingGood, GoodSync, GoodLoad, GoodWrite, GoodFile,
                GoodCursors, NoTask
  <2> QED
    BY <1>1, <2>1, <2>2
<1>6. ASSUME NEW t \in Thread, AckWrite(t)
      PROVE  file'.lastSeen[x] >= file.lastSeen[x]
  <2>1. t \in Acks /\ acking[t].pc = "write" /\ file' = acking[t].next
    BY <1>6, AckSets DEF AckWrite
  <2>2. acking[t].next.lastSeen = file.lastSeen
    BY <1>2, <2>1 DEF CursorsCalm
  <2>3. file'.lastSeen = file.lastSeen
    BY <2>1, <2>2
  <2> QED
    BY <1>1, <2>3
<1>7. ASSUME NEW m \in Seq1, LosePush(m) \/ RouteStart(m) \/ RouteAppend(m) \/ RouteUpdate(m)
      PROVE  UNCHANGED file
  BY <1>7 DEF LosePush, RouteStart, RouteAppend, RouteUpdate
<1>8. ASSUME NEW i \in SyncTask,
             \/ Connect(i) \/ Hello(i) \/ SyncList(i) \/ SyncRead(i)
             \/ SyncUpdate(i) \/ SyncFail(i)
             \/ \E t \in Thread : SyncFetch(i, t)
             \/ \E m \in Seq1 : SyncAppend(i, m)
      PROVE  UNCHANGED file
  BY <1>8 DEF Connect, Hello, SyncList, SyncRead, SyncUpdate, SyncFail, SyncFetch, SyncAppend
<1>9. ASSUME NEW t \in Thread,
             \/ AckStart(t) \/ AckMark(t) \/ AckUpdate(t)
             \/ DrainRead(t) \/ DrainUnlink(t) \/ DrainReturn(t)
             \/ TogglePane(t) \/ ToggleArchive(t)
      PROVE  UNCHANGED file
  BY <1>9 DEF AckStart, AckMark, AckUpdate, DrainRead, DrainUnlink, DrainReturn, TogglePane,
              ToggleArchive
<1>10. ASSUME \/ UNCHANGED vars \/ Disconnect \/ Crash
              \/ \E t \in Thread, mine \in BOOLEAN : Post(t, mine)
       PROVE  UNCHANGED file
  BY <1>10 DEF vars, Disconnect, Crash, Post
<1> QED
  BY <1>3, <1>4, <1>5, <1>6, <1>7, <1>8, <1>9, <1>10 DEF Next

(* "Always advance lastSeenSeq": while router and ack write state.json one *)
(* at a time and not during a sync, no cursor moves back, however the two  *)
(* syncs of a connection interleave, a connection ends, a request fails or *)
(* the daemon dies.                                                        *)
THEOREM DaemonCalmCursorAdvances ==
  ASSUME Overlap = FALSE
  PROVE  Spec => CursorAdvances
<1>1. FilesInv /\ StateTypes /\ CalmInv /\ [Next]_vars
        => [\A t \in Thread : file'.lastSeen[t] >= file.lastSeen[t]]_vars
  BY CursorsOnlyAdvance
<1> QED
  BY <1>1, DaemonCalmInvariant, PTL DEF Spec, CursorAdvances
=============================================================================
