-------------------------- MODULE RelayStoreProofs --------------------------
(***************************************************************************)
(* Proofs about RelayStore, for any peers, any number of overlapping       *)
(* transactions, any failures and any passing of time.                     *)
(***************************************************************************)
EXTENDS RelayStore, FiniteSetTheorems, TLAPS

USE RelayStoreAssumption

RequestType ==
  [pc : Pcs, from : Peer \union {None}, to : Peer \union {None}, thread : Nat,
   force : BOOLEAN, at : Nat, dayAgo : Nat, creates : BOOLEAN, seq : Nat, last : Nat]

ThreadType == [between : SUBSET Peer, forced : BOOLEAN, last : Nat]
MessageType == [seq : Nat, thread : Nat, from : Peer, at : Nat]

Types ==
  /\ serial \in BOOLEAN
  /\ threads \in [DOMAIN threads -> ThreadType]
  /\ messages \subseteq MessageType
  /\ req \in [Request -> RequestType]
  /\ {nextThread, nextSeq, clock, dayAgo} \subseteq Nat
  /\ clock <= MaxPosts /\ dayAgo <= clock
  /\ cursor \in [Peer -> [ThreadId -> Nat]]
  /\ got \in [Peer -> SUBSET Nat]
  /\ upsets \in 0..MaxUpsets

-----------------------------------------------------------------------------
Working(x) == req[x].pc \notin {"idle", "push"}
HasThread(x) == req[x].pc \in {"insert", "touch", "commit"}
HasSeq(x) == req[x].pc \in {"touch", "commit"}
WillCreate(x) == req[x].pc = "create" \/ (HasThread(x) /\ req[x].creates)

(* What the record of a request says at each of its steps. *)
Request1(x) ==
  LET r == req[x] IN
  /\ Working(x) =>
       r.from \in Peer /\ r.at \in 1..clock /\ r.dayAgo <= dayAgo
  /\ r.pc \in {"find", "create"} => ~r.creates
  /\ r.pc = "find" => IF r.to = None THEN r.thread \in DOMAIN threads ELSE r.to \in Peer
  /\ WillCreate(x) => r.to \in Peer /\ r.from # r.to
  /\ HasThread(x) =>
       IF r.creates THEN r.thread \in (1..nextThread) \ DOMAIN threads
                    ELSE r.thread \in DOMAIN threads
  /\ HasSeq(x) => r.seq \in 1..nextSeq /\ \A m \in messages : m.seq # r.seq
  /\ r.pc = "commit" => r.last = LastAfter(r)
  /\ r.pc = "push" => r.thread \in DOMAIN threads /\ \E m \in messages : m.seq = r.seq

Request2(x, y) ==
  /\ HasThread(x) /\ HasThread(y) /\ req[x].creates => req[x].thread # req[y].thread
  /\ HasSeq(x) /\ HasSeq(y) => req[x].seq # req[y].seq
  /\ req[x].pc = "commit" /\ req[y].pc = "commit" => req[x].thread # req[y].thread

Requests ==
  /\ \A x \in Request : Request1(x)
  /\ \A x, y \in Request : x # y => Request2(x, y)

Store ==
  /\ DOMAIN threads \subseteq 1..nextThread
  /\ \A t \in DOMAIN threads : threads[t].last \in 1..clock
  /\ \A m \in messages : /\ m.seq \in 1..nextSeq /\ m.thread \in DOMAIN threads
                         /\ m.at \in 1..clock
  /\ \A m, n \in messages : m.seq = n.seq => m = n
  /\ ThreadsWhole
  /\ LastMessageIsLatest

Pushable == {<<m.seq, p>> : m \in messages, p \in Peer}

Clients ==
  /\ told \subseteq Pushable
  /\ \A p \in Peer, t \in ThreadId : cursor[p][t] = 0 \/ \E m \in Of(t) : m.seq = cursor[p][t]
  /\ \A p \in Peer : got[p] \subseteq {m.seq : m \in messages}

(* What follows when transactions do not overlap. *)
Serially ==
  serial =>
    /\ \A x, y \in Request : Working(x) /\ Working(y) => x = y
    /\ \A x \in Request : HasSeq(x) => \A m \in messages : m.seq < req[x].seq
    /\ \A x \in Request : WillCreate(x) /\ ~req[x].force =>
         \A u \in DOMAIN threads :
           threads[u].between = {req[x].from, req[x].to} => threads[u].last <= req[x].dayAgo
    /\ SinceComplete

(* Requests that may still take a thread id, or a seq. *)
MayCreate == {x \in Request : req[x].pc \in {"find", "create"}}
MayInsert == {x \in Request : req[x].pc \in {"find", "create", "insert"}}

Counted ==
  /\ IsFiniteSet(MayInsert)
  /\ nextThread + Cardinality(MayCreate) <= clock
  /\ nextSeq + Cardinality(MayInsert) <= clock

StoreInv == Types /\ Requests /\ Store /\ Clients /\ Serially /\ Counted

-----------------------------------------------------------------------------
(* The fields of a request's record after it was changed. *)
LEMMA AtFields ==
  ASSUME NEW r \in RequestType, NEW pc \in Pcs, NEW n, n = [r EXCEPT !.pc = pc]
  PROVE  /\ n \in RequestType
         /\ n.pc = pc /\ n.from = r.from /\ n.to = r.to /\ n.thread = r.thread
         /\ n.force = r.force /\ n.at = r.at /\ n.dayAgo = r.dayAgo
         /\ n.creates = r.creates /\ n.seq = r.seq /\ n.last = r.last
BY DEF RequestType

LEMMA ThreadFields ==
  ASSUME NEW r \in RequestType, NEW t \in Nat, NEW n, n = [r EXCEPT !.thread = t]
  PROVE  /\ n \in RequestType
         /\ n.pc = r.pc /\ n.from = r.from /\ n.to = r.to /\ n.thread = t
         /\ n.force = r.force /\ n.at = r.at /\ n.dayAgo = r.dayAgo
         /\ n.creates = r.creates /\ n.seq = r.seq /\ n.last = r.last
BY DEF RequestType

LEMMA SeqFields ==
  ASSUME NEW r \in RequestType, NEW s \in Nat, NEW n, n = [r EXCEPT !.seq = s]
  PROVE  /\ n \in RequestType
         /\ n.pc = r.pc /\ n.from = r.from /\ n.to = r.to /\ n.thread = r.thread
         /\ n.force = r.force /\ n.at = r.at /\ n.dayAgo = r.dayAgo
         /\ n.creates = r.creates /\ n.seq = s /\ n.last = r.last
BY DEF RequestType

LEMMA LastFields ==
  ASSUME NEW r \in RequestType, NEW l \in Nat, NEW n, n = [r EXCEPT !.last = l]
  PROVE  /\ n \in RequestType
         /\ n.pc = r.pc /\ n.from = r.from /\ n.to = r.to /\ n.thread = r.thread
         /\ n.force = r.force /\ n.at = r.at /\ n.dayAgo = r.dayAgo
         /\ n.creates = r.creates /\ n.seq = r.seq /\ n.last = l
BY DEF RequestType

-----------------------------------------------------------------------------
(* A step of request x that leaves the tables alone: what the records of   *)
(* the others say still holds, so that only the record of x matters.       *)
Quiet(x) ==
  /\ \A y \in Request \ {x} : req'[y] = req[y]
  /\ req' \in [Request -> RequestType]
  /\ UNCHANGED <<serial, threads, messages, dayAgo, cursor, got>>
  /\ {nextThread', nextSeq', clock'} \subseteq Nat
  /\ nextThread <= nextThread' /\ nextSeq <= nextSeq' /\ clock <= clock'

LEMMA QuietStore ==
  ASSUME Types, Store, NEW x \in Request, Quiet(x)
  PROVE  Store'
<1>1. /\ threads' = threads /\ messages' = messages
      /\ {nextThread, nextSeq, clock, nextThread', nextSeq', clock'} \subseteq Nat
      /\ nextThread <= nextThread' /\ nextSeq <= nextSeq' /\ clock <= clock'
  BY DEF Quiet, Types
<1>2. ThreadsWhole' /\ LastMessageIsLatest'
  BY <1>1 DEF Store, ThreadsWhole, LastMessageIsLatest, Of
<1>3. DOMAIN threads' \subseteq 1..nextThread'
  BY <1>1 DEF Store
<1>4. \A t \in DOMAIN threads' : threads'[t].last \in 1..clock'
  BY <1>1 DEF Store
<1>5. \A m \in messages' : /\ m.seq \in 1..nextSeq' /\ m.thread \in DOMAIN threads'
                           /\ m.at \in 1..clock'
  BY <1>1 DEF Store
<1>6. QED
  BY <1>1, <1>2, <1>3, <1>4, <1>5 DEF Store

LEMMA QuietRequests ==
  ASSUME Types, Requests, NEW x \in Request, Quiet(x), Request1(x)',
         \A y \in Request \ {x} : Request2(x, y)' /\ Request2(y, x)'
  PROVE  Requests'
<1>1. /\ threads' = threads /\ messages' = messages /\ dayAgo' = dayAgo
      /\ {nextThread, nextSeq, clock, nextThread', nextSeq', clock'} \subseteq Nat
      /\ nextThread <= nextThread' /\ nextSeq <= nextSeq' /\ clock <= clock'
      /\ \A y \in Request \ {x} : req'[y] = req[y]
  BY DEF Quiet, Types
<1>2. ASSUME NEW y \in Request \ {x} PROVE Request1(y)'
  <2>1. Request1(y) /\ req'[y] = req[y]
    BY <1>1 DEF Requests
  <2>2. 1..clock \subseteq 1..clock' /\ 1..nextSeq \subseteq 1..nextSeq'
        /\ 1..nextThread \subseteq 1..nextThread'
    BY <1>1
  <2>3. LastAfter(req[y])' = LastAfter(req[y])
    BY <1>1, <2>1 DEF LastAfter, Larger
  <2>4. QED
    BY <1>1, <2>1, <2>2, <2>3 DEF Request1, Working, HasThread, HasSeq, WillCreate
<1>3. ASSUME NEW y \in Request \ {x}, NEW z \in Request \ {x}, y # z
      PROVE  Request2(y, z)'
  BY <1>1, <1>3 DEF Requests, Request2, HasThread, HasSeq
<1>4. QED
  BY <1>2, <1>3 DEF Requests

LEMMA QuietClients ==
  ASSUME Clients, NEW x \in Request, Quiet(x),
         told' \subseteq Pushable
  PROVE  Clients'
<1>1. Pushable' = Pushable
  BY DEF Pushable, Quiet
<1>2. QED
  BY <1>1 DEF Clients, Quiet, Of

LEMMA QuietSerially ==
  ASSUME Types, Serially, NEW x \in Request, Quiet(x),
         Working(x)' => Working(x) \/ (serial => \A y \in Request : ~Working(y)),
         serial /\ HasSeq(x)' => \A m \in messages : m.seq < req'[x].seq,
         serial /\ WillCreate(x)' /\ ~req'[x].force =>
           \A u \in DOMAIN threads :
             threads[u].between = {req'[x].from, req'[x].to} =>
               threads[u].last <= req'[x].dayAgo
  PROVE  Serially'
<1>1. /\ threads' = threads /\ messages' = messages /\ serial' = serial
      /\ cursor' = cursor /\ got' = got
      /\ \A y \in Request \ {x} : req'[y] = req[y]
  BY DEF Quiet
<1>2. SUFFICES ASSUME serial PROVE Serially'
  BY <1>1 DEF Serially
<1>3. \A y \in Request \ {x} : (Working(y)' <=> Working(y)) /\ (HasSeq(y)' <=> HasSeq(y))
                              /\ (WillCreate(y)' <=> WillCreate(y))
  BY <1>1 DEF Working, HasSeq, WillCreate, HasThread
<1>4. \A y, z \in Request : Working(y)' /\ Working(z)' => y = z
  BY <1>2, <1>3 DEF Serially
<1>5. \A y \in Request : HasSeq(y)' => \A m \in messages : m.seq < req'[y].seq
  BY <1>1, <1>2, <1>3 DEF Serially
<1>6. \A y \in Request : WillCreate(y)' /\ ~req'[y].force =>
        \A u \in DOMAIN threads :
          threads[u].between = {req'[y].from, req'[y].to} => threads[u].last <= req'[y].dayAgo
  BY <1>1, <1>2, <1>3 DEF Serially
<1>7. SinceComplete'
  BY <1>1, <1>2 DEF Serially, SinceComplete, Of
<1>8. QED
  BY <1>1, <1>4, <1>5, <1>6, <1>7 DEF Serially

-----------------------------------------------------------------------------
(* The sequences never run past the requests begun. *)
LEMMA CountedNats ==
  ASSUME Counted
  PROVE  /\ IsFiniteSet(MayCreate) /\ MayCreate \subseteq MayInsert
         /\ Cardinality(MayCreate) \in Nat /\ Cardinality(MayInsert) \in Nat
<1>1. MayCreate \subseteq MayInsert
  BY DEF MayCreate, MayInsert
<1>2. IsFiniteSet(MayCreate)
  BY <1>1, FS_Subset DEF Counted
<1>3. QED
  BY <1>1, <1>2, FS_CardinalityType DEF Counted

LEMMA CountedShrinks ==
  ASSUME Types, Counted, MayCreate' \subseteq MayCreate, MayInsert' \subseteq MayInsert,
         UNCHANGED <<nextThread, nextSeq, clock>>
  PROVE  Counted'
<1>1. /\ IsFiniteSet(MayCreate') /\ Cardinality(MayCreate') <= Cardinality(MayCreate)
      /\ IsFiniteSet(MayInsert') /\ Cardinality(MayInsert') <= Cardinality(MayInsert)
  BY CountedNats, FS_Subset DEF Counted
<1>2. Cardinality(MayCreate') \in Nat /\ Cardinality(MayInsert') \in Nat
  BY <1>1, FS_CardinalityType
<1>3. QED
  BY <1>1, <1>2, CountedNats DEF Counted, Types

LEMMA CountedCreates ==
  ASSUME Types, Counted, NEW x \in MayCreate,
         MayCreate' = MayCreate \ {x}, MayInsert' = MayInsert,
         nextThread' = nextThread + 1, UNCHANGED <<nextSeq, clock>>
  PROVE  Counted'
<1>1. Cardinality(MayCreate') = Cardinality(MayCreate) - 1
  BY CountedNats, FS_RemoveElement
<1>2. QED
  BY <1>1, CountedNats DEF Counted, Types

LEMMA CountedInserts ==
  ASSUME Types, Counted, NEW x \in MayInsert,
         MayInsert' = MayInsert \ {x}, MayCreate' = MayCreate,
         nextSeq' = nextSeq + 1, UNCHANGED <<nextThread, clock>>
  PROVE  Counted'
<1>1. Cardinality(MayInsert') = Cardinality(MayInsert) - 1 /\ IsFiniteSet(MayInsert')
  BY FS_RemoveElement DEF Counted
<1>2. QED
  BY <1>1, CountedNats DEF Counted, Types

LEMMA CountedBegins ==
  ASSUME Types, Counted, NEW x, x \notin MayInsert,
         MayInsert' = MayInsert \union {x}, MayCreate' = MayCreate \union {x},
         clock' = clock + 1, UNCHANGED <<nextThread, nextSeq>>
  PROVE  Counted'
<1>1. Cardinality(MayInsert') = Cardinality(MayInsert) + 1 /\ IsFiniteSet(MayInsert')
  BY FS_AddElement DEF Counted
<1>2. Cardinality(MayCreate') = Cardinality(MayCreate) + 1
  BY CountedNats, FS_AddElement
<1>3. QED
  BY <1>1, <1>2, CountedNats DEF Counted, Types

LEMMA CountedBounds ==
  ASSUME Types, Counted
  PROVE  nextThread <= clock /\ nextSeq <= clock
BY CountedNats DEF Counted, Types

(* What may still take an id changes with the step of x alone. *)
LEMMA MayAfter ==
  ASSUME NEW x \in Request, Quiet(x)
  PROVE  /\ MayCreate' = (MayCreate \ {x}) \union
                           (IF req'[x].pc \in {"find", "create"} THEN {x} ELSE {})
         /\ MayInsert' = (MayInsert \ {x}) \union
                           (IF req'[x].pc \in {"find", "create", "insert"} THEN {x} ELSE {})
BY DEF Quiet, MayCreate, MayInsert

-----------------------------------------------------------------------------
(* The parts of the invariant that a step of request x has to establish.   *)
LEMMA QuietStep ==
  ASSUME StoreInv, NEW x \in Request, Quiet(x), clock' <= MaxPosts,
         upsets' \in 0..MaxUpsets,
         told' \subseteq Pushable,
         Request1(x)',
         \A y \in Request \ {x} : Request2(x, y)' /\ Request2(y, x)',
         Serially', Counted'
  PROVE  StoreInv'
<1>1. Store' /\ Requests' /\ Clients'
  BY QuietStore, QuietRequests, QuietClients DEF StoreInv
<1>2. Types'
  BY DEF StoreInv, Types, Quiet
<1>3. QED
  BY <1>1, <1>2 DEF StoreInv

(* A request that ends, or waits for its broadcast, owes nothing. *)
LEMMA EndsStep ==
  ASSUME StoreInv, NEW x \in Request, NEW n \in RequestType, n.pc = "idle",
         req' = [req EXCEPT ![x] = n],
         UNCHANGED <<serial, dbVars, seqVars, clock, dayAgo, clientVars>>,
         upsets' \in 0..MaxUpsets,
         told' \subseteq Pushable
  PROVE  StoreInv'
<1>1. Quiet(x) /\ req'[x] = n
  BY DEF StoreInv, Types, Quiet, dbVars, seqVars, clientVars
<1>2. /\ ~Working(x)' /\ ~HasThread(x)' /\ ~HasSeq(x)' /\ ~WillCreate(x)'
      /\ req'[x].pc = "idle"
  BY <1>1 DEF Working, HasThread, HasSeq, WillCreate
<1>3. Request1(x)'
  BY <1>2 DEF Request1
<1>4. \A y \in Request \ {x} : Request2(x, y)' /\ Request2(y, x)'
  BY <1>2 DEF Request2
<1>5. Serially'
  BY <1>1, <1>2, QuietSerially DEF StoreInv
<1>6. Counted'
  <2>1. MayCreate' \subseteq MayCreate /\ MayInsert' \subseteq MayInsert
    BY <1>1, <1>2, MayAfter
  <2>2. QED
    BY <2>1, CountedShrinks DEF StoreInv, seqVars
<1>7. clock' <= MaxPosts
  BY DEF StoreInv, Types
<1>8. QED
  BY <1>1, <1>3, <1>4, <1>5, <1>6, <1>7, QuietStep

LEMMA IdleFields == Idle \in RequestType /\ Idle.pc = "idle" /\ ~Idle.creates
BY DEF Idle, None, RequestType, Pcs

LEMMA AbortStep ==
  ASSUME StoreInv, NEW x \in Request, Abort(x)
  PROVE  StoreInv'
<1>1. upsets' \in 0..MaxUpsets /\ req' = [req EXCEPT ![x] = Idle]
  BY DEF Abort, Upset, StoreInv, Types
<1>2. UNCHANGED <<serial, dbVars, seqVars, clock, dayAgo, told, clientVars>>
  BY DEF Abort
<1>3. told' \subseteq Pushable
  BY <1>2 DEF StoreInv, Clients
<1>4. QED
  BY <1>1, <1>2, <1>3, IdleFields, EndsStep DEF dbVars, seqVars, clientVars

(* What is pushed is committed. *)
LEMMA PushStep ==
  ASSUME StoreInv, NEW x \in Request, Push(x)
  PROVE  StoreInv'
<1>1. /\ req[x].pc = "push" /\ req' = [req EXCEPT ![x] = Idle]
      /\ told' = told \union {<<req[x].seq, p>> : p \in Recipients(req[x])}
      /\ UNCHANGED <<serial, dbVars, seqVars, clock, dayAgo, clientVars, upsets>>
  BY DEF Push, Goes
<1>2. req[x].thread \in DOMAIN threads /\ \E m \in messages : m.seq = req[x].seq
  BY <1>1 DEF StoreInv, Requests, Request1
<1>3. Recipients(req[x]) \subseteq Peer
  <2>1. threads[req[x].thread] \in ThreadType
    BY <1>2 DEF StoreInv, Types
  <2>2. QED
    BY <2>1 DEF Recipients, ThreadType
<1>4. told' \subseteq Pushable
  BY <1>1, <1>2, <1>3 DEF StoreInv, Clients, Pushable
<1>5. upsets' \in 0..MaxUpsets
  BY <1>1 DEF StoreInv, Types
<1>6. QED
  BY <1>1, <1>4, <1>5, IdleFields, EndsStep DEF dbVars, seqVars, clientVars

-----------------------------------------------------------------------------
(* The statements of a transaction before its commit. *)
LEMMA QuietBy ==
  ASSUME Types, NEW x \in Request, NEW n \in RequestType,
         req' = [req EXCEPT ![x] = n],
         UNCHANGED <<serial, dbVars, dayAgo, clientVars>>,
         {nextThread', nextSeq', clock'} \subseteq Nat,
         nextThread <= nextThread', nextSeq <= nextSeq', clock <= clock'
  PROVE  Quiet(x) /\ req'[x] = n
BY DEF Types, Quiet, dbVars, clientVars

LEMMA ToldKept ==
  ASSUME StoreInv, UNCHANGED <<told, upsets>>
  PROVE  told' \subseteq Pushable /\ upsets' \in 0..MaxUpsets
BY DEF StoreInv, Clients, Types

LEMMA BeginStep ==
  ASSUME StoreInv, NEW x \in Request, NEW p \in Peer, NEW t, NEW q, NEW force \in BOOLEAN,
         Begin(x, p, t, q, force),
         (t \in DOMAIN threads /\ q = None) \/ (t = None /\ q \in Peer)
  PROVE  StoreInv'
<1> DEFINE n == [Idle EXCEPT !.pc = "find", !.from = p, !.to = q, !.thread = t,
                             !.force = force, !.at = clock + 1, !.dayAgo = dayAgo]
<1>1. /\ req[x].pc = "idle" /\ clock < MaxPosts /\ clock' = clock + 1
      /\ req' = [req EXCEPT ![x] = n]
      /\ serial => \A y \in Request : req[y].pc \in {"idle", "push"}
      /\ t # None <=> q = None
      /\ UNCHANGED <<serial, dbVars, seqVars, dayAgo, told, clientVars, upsets>>
  BY DEF Begin, Goes
<1>2. {clock, dayAgo, nextThread, nextSeq, MaxPosts} \subseteq Nat /\ t \in Nat
  BY DEF StoreInv, Types, Store, None
<1>3. /\ n \in RequestType /\ n.pc = "find" /\ n.from = p /\ n.to = q /\ n.thread = t
      /\ n.at = clock + 1 /\ n.dayAgo = dayAgo /\ ~n.creates
  <2>1. q \in Peer \union {None}
    OBVIOUS
  <2>2. clock + 1 \in Nat /\ dayAgo \in Nat /\ t \in Nat /\ "find" \in Pcs
    BY <1>2 DEF Pcs
  <2>3. \A r \in RequestType :
          LET m == [r EXCEPT !.pc = "find", !.from = p, !.to = q, !.thread = t, !.force = force,
                             !.at = clock + 1, !.dayAgo = dayAgo] IN
          /\ m \in RequestType /\ m.pc = "find" /\ m.from = p /\ m.to = q /\ m.thread = t
          /\ m.at = clock + 1 /\ m.dayAgo = dayAgo /\ m.creates = r.creates
    BY <2>1, <2>2 DEF RequestType
  <2>4. QED
    BY <2>3, IdleFields
<1> HIDE DEF n
<1>4. Quiet(x) /\ req'[x] = n
  <2>1. UNCHANGED <<serial, dbVars, dayAgo, clientVars>>
    BY <1>1
  <2>2. /\ {nextThread', nextSeq', clock'} \subseteq Nat
        /\ nextThread <= nextThread' /\ nextSeq <= nextSeq' /\ clock <= clock'
    BY <1>1, <1>2 DEF seqVars
  <2>3. QED
    BY <1>1, <1>3, <2>1, <2>2, QuietBy DEF StoreInv
<1>5. /\ ~HasThread(x)' /\ ~HasSeq(x)' /\ ~WillCreate(x)' /\ Working(x)'
  BY <1>3, <1>4 DEF Working, HasThread, HasSeq, WillCreate
<1>6. Request1(x)'
  <2>1. n.at \in 1..clock' /\ n.dayAgo <= dayAgo' /\ threads' = threads
    BY <1>1, <1>2, <1>3 DEF dbVars
  <2>2. IF n.to = None THEN n.thread \in DOMAIN threads ELSE n.to \in Peer
    BY <1>1, <1>3
  <2>3. QED
    BY <1>3, <1>4, <1>5, <2>1, <2>2 DEF Request1
<1>7. \A y \in Request \ {x} : Request2(x, y)' /\ Request2(y, x)'
  BY <1>3, <1>4, <1>5 DEF Request2
<1>8. Serially'
  BY <1>1, <1>4, <1>5, QuietSerially DEF StoreInv, Working
<1>9. Counted'
  <2>1. x \notin MayInsert /\ x \notin MayCreate
    BY <1>1 DEF MayInsert, MayCreate
  <2>2. MayInsert' = MayInsert \union {x} /\ MayCreate' = MayCreate \union {x}
    BY <1>3, <1>4, <2>1, MayAfter
  <2>3. QED
    BY <1>1, <2>1, <2>2, CountedBegins DEF StoreInv, seqVars
<1>10. clock' <= MaxPosts
  BY <1>1, <1>2
<1>11. QED
  BY <1>1, <1>4, <1>6, <1>7, <1>8, <1>9, <1>10, QuietStep, ToldKept

(* The request has found a thread that is there. *)
LEMMA FoundStep ==
  ASSUME StoreInv, NEW x \in Request, req[x].pc = "find",
         NEW t \in DOMAIN threads, NEW n \in RequestType, req' = [req EXCEPT ![x] = n],
         n.pc = "insert", n.thread = t, n.from = req[x].from, n.at = req[x].at,
         n.dayAgo = req[x].dayAgo, n.creates = req[x].creates,
         UNCHANGED <<serial, dbVars, seqVars, clock, dayAgo, told, clientVars, upsets>>
  PROVE  StoreInv'
<1>1. Quiet(x) /\ req'[x] = n
  <2>1. UNCHANGED <<serial, dbVars, dayAgo, clientVars>>
    OBVIOUS
  <2>2. /\ {nextThread', nextSeq', clock'} \subseteq Nat
        /\ nextThread <= nextThread' /\ nextSeq <= nextSeq' /\ clock <= clock'
    BY DEF StoreInv, Types, seqVars
  <2>3. QED
    BY <2>1, <2>2, QuietBy DEF StoreInv
<1>2. Request1(x) /\ Working(x)
  BY DEF StoreInv, Requests, Working
<1>3. ~n.creates
  BY <1>2 DEF Request1
<1>4. ~HasSeq(x)' /\ ~WillCreate(x)' /\ Working(x)'
  BY <1>1, <1>3 DEF Working, HasThread, HasSeq, WillCreate
<1>5. Request1(x)'
  BY <1>1, <1>2, <1>3, <1>4 DEF Request1, dbVars
<1>6. ASSUME NEW y \in Request \ {x} PROVE Request2(x, y)' /\ Request2(y, x)'
  <2>1. req'[y] = req[y]
    BY <1>1 DEF Quiet
  <2>2. HasThread(y) /\ req[y].creates => req[y].thread # t
    BY DEF StoreInv, Requests, Request1
  <2>3. QED
    BY <1>1, <1>3, <1>4, <2>1, <2>2 DEF Request2, HasThread
<1>7. Serially'
  BY <1>1, <1>2, <1>4, QuietSerially DEF StoreInv
<1>8. Counted'
  <2>1. x \in MayInsert
    BY DEF MayInsert
  <2>2. MayInsert' \subseteq MayInsert /\ MayCreate' \subseteq MayCreate
    BY <1>1, <2>1, MayAfter
  <2>3. QED
    BY <2>2, CountedShrinks DEF StoreInv, seqVars
<1>9. clock' <= MaxPosts
  BY DEF StoreInv, Types
<1>10. QED
  BY <1>1, <1>5, <1>6, <1>7, <1>8, <1>9, QuietStep, ToldKept

(* The request will open a thread: with another peer, and when there is    *)
(* none, or it was asked to.                                               *)
LEMMA NotFoundStep ==
  ASSUME StoreInv, NEW x \in Request, req[x].pc = "find", ~Refused(req[x]),
         req[x].to # None, Candidates(req[x]) = {},
         NEW n, n = At(x, "create"), req' = [req EXCEPT ![x] = n],
         UNCHANGED <<serial, dbVars, seqVars, clock, dayAgo, told, clientVars, upsets>>
  PROVE  StoreInv'
<1> DEFINE r == req[x]
<1>1. /\ r \in RequestType /\ Request1(x) /\ Working(x)
      /\ r.pc = "find" /\ ~Refused(r) /\ r.to # None /\ Candidates(r) = {}
  BY DEF StoreInv, Types, Requests, Working
<1>2. /\ n \in RequestType /\ n.pc = "create" /\ n.from = r.from /\ n.to = r.to
      /\ n.force = r.force /\ n.at = r.at /\ n.dayAgo = r.dayAgo /\ n.creates = r.creates
  BY <1>1, AtFields DEF At, Pcs
<1>3. Quiet(x) /\ req'[x] = n
  <2>1. UNCHANGED <<serial, dbVars, dayAgo, clientVars>>
    OBVIOUS
  <2>2. /\ {nextThread', nextSeq', clock'} \subseteq Nat
        /\ nextThread <= nextThread' /\ nextSeq <= nextSeq' /\ clock <= clock'
    BY DEF StoreInv, Types, seqVars
  <2>3. QED
    BY <1>2, <2>1, <2>2, QuietBy DEF StoreInv
<1>4. ~HasThread(x)' /\ ~HasSeq(x)' /\ WillCreate(x)' /\ Working(x)'
  BY <1>2, <1>3 DEF Working, HasThread, HasSeq, WillCreate
<1>5. /\ r.from \in Peer /\ r.at \in 1..clock /\ r.dayAgo <= dayAgo /\ ~r.creates
      /\ r.to \in Peer /\ r.from # r.to
  BY <1>1 DEF Request1, Refused
<1> HIDE DEF r
<1>6. Request1(x)'
  BY <1>2, <1>3, <1>4, <1>5 DEF Request1
<1>7. \A y \in Request \ {x} : Request2(x, y)' /\ Request2(y, x)'
  BY <1>2, <1>3, <1>4 DEF Request2
<1>8. ASSUME ~n.force, NEW u \in DOMAIN threads, threads[u].between = {n.from, n.to}
      PROVE  threads[u].last <= n.dayAgo
  <2>1. u \notin Active(r.from, r.to, r.dayAgo)
    BY <1>1, <1>2, <1>8 DEF Candidates
  <2>2. ~(threads[u].last > r.dayAgo)
    BY <1>2, <1>8, <2>1 DEF Active
  <2>3. threads[u].last \in Nat /\ r.dayAgo \in Nat
    BY <1>1 DEF StoreInv, Types, ThreadType, RequestType
  <2>4. QED
    BY <1>2, <2>2, <2>3
<1>9. Serially'
  BY <1>1, <1>3, <1>4, <1>8, QuietSerially DEF StoreInv
<1>10. Counted'
  <2>1. x \in MayInsert /\ x \in MayCreate
    BY DEF MayInsert, MayCreate
  <2>2. MayInsert' \subseteq MayInsert /\ MayCreate' \subseteq MayCreate
    BY <1>3, <2>1, MayAfter
  <2>3. QED
    BY <2>2, CountedShrinks DEF StoreInv, seqVars
<1>11. clock' <= MaxPosts
  BY DEF StoreInv, Types
<1>12. QED
  BY <1>3, <1>6, <1>7, <1>9, <1>10, <1>11, QuietStep, ToldKept

LEMMA ResolveStep ==
  ASSUME StoreInv, NEW x \in Request, Resolve(x)
  PROVE  StoreInv'
<1> DEFINE r == req[x]
<1>1. /\ r.pc = "find" /\ r \in RequestType /\ Request1(x)
      /\ UNCHANGED <<serial, dbVars, seqVars, clock, dayAgo, told, clientVars, upsets>>
  BY DEF Resolve, StoreInv, Types, Requests
<1>2. CASE req' = [req EXCEPT ![x] = Idle]
  BY <1>1, <1>2, IdleFields, EndsStep, ToldKept DEF dbVars, seqVars, clientVars
<1>3. CASE r.to = None /\ req' = [req EXCEPT ![x] = At(x, "insert")]
  <2> DEFINE n == At(x, "insert")
  <2>1. /\ n \in RequestType /\ n.pc = "insert" /\ n.thread = r.thread /\ n.from = r.from
        /\ n.at = r.at /\ n.dayAgo = r.dayAgo /\ n.creates = r.creates
    BY <1>1, AtFields DEF At, Pcs
  <2>2. r.thread \in DOMAIN threads
    BY <1>1, <1>3 DEF Request1
  <2> HIDE DEF n
  <2>3. QED
    BY <1>1, <1>3, <2>1, <2>2, FoundStep DEF n
<1>4. ASSUME NEW t \in MostRecent(Candidates(r)),
             req' = [req EXCEPT ![x] = [At(x, "insert") EXCEPT !.thread = t]]
      PROVE  StoreInv'
  <2> DEFINE a == At(x, "insert")
             n == [a EXCEPT !.thread = t]
  <2>1. t \in DOMAIN threads
    BY <1>4 DEF MostRecent, Candidates, Active
  <2>2. t \in Nat
    BY <2>1 DEF StoreInv, Store, Types
  <2>3. /\ a \in RequestType /\ a.pc = "insert" /\ a.from = r.from
        /\ a.at = r.at /\ a.dayAgo = r.dayAgo /\ a.creates = r.creates
    BY <1>1, AtFields DEF At, Pcs
  <2>4. /\ n \in RequestType /\ n.pc = "insert" /\ n.thread = t /\ n.from = r.from
        /\ n.at = r.at /\ n.dayAgo = r.dayAgo /\ n.creates = r.creates
    <3> HIDE DEF a
    <3>1. QED
      BY <2>2, <2>3, ThreadFields
  <2>5. req' = [req EXCEPT ![x] = n]
    BY <1>4
  <2> HIDE DEF n, a
  <2>6. QED
    BY <1>1, <2>1, <2>4, <2>5, FoundStep
<1>5. CASE /\ ~Refused(r) /\ r.to # None /\ Candidates(r) = {}
           /\ req' = [req EXCEPT ![x] = At(x, "create")]
  BY <1>1, <1>5, NotFoundStep
<1>6. QED
  BY <1>2, <1>3, <1>4, <1>5 DEF Resolve, Goes

(* A new thread takes an id that no one has. *)
LEMMA CreateStep ==
  ASSUME StoreInv, NEW x \in Request, Create(x)
  PROVE  StoreInv'
<1> DEFINE r == req[x]
           a == At(x, "insert")
           n == [a EXCEPT !.thread = nextThread + 1, !.creates = TRUE]
<1>1. /\ r.pc = "create" /\ r \in RequestType /\ Request1(x)
      /\ req' = [req EXCEPT ![x] = n]
      /\ nextThread' = nextThread + 1
      /\ UNCHANGED <<serial, dbVars, nextSeq, clock, dayAgo, told, clientVars, upsets>>
  BY DEF Create, Goes, StoreInv, Types, Requests
<1>2. {nextThread, nextSeq, clock, MaxPosts} \subseteq Nat /\ clock <= MaxPosts
  BY DEF StoreInv, Types
<1>3. /\ a \in RequestType /\ a.pc = "insert" /\ a.from = r.from /\ a.to = r.to
      /\ a.force = r.force /\ a.at = r.at /\ a.dayAgo = r.dayAgo
  BY <1>1, AtFields DEF At, Pcs
<1> HIDE DEF a
<1>4. /\ n \in RequestType /\ n.pc = "insert" /\ n.from = r.from /\ n.to = r.to
      /\ n.force = r.force /\ n.at = r.at /\ n.dayAgo = r.dayAgo
      /\ n.thread = nextThread + 1 /\ n.creates
  <2>1. nextThread + 1 \in Nat
    BY <1>2
  <2>2. QED
    BY <1>3, <2>1 DEF RequestType
<1> HIDE DEF n
<1>5. Quiet(x) /\ req'[x] = n
  <2>1. UNCHANGED <<serial, dbVars, dayAgo, clientVars>>
    BY <1>1
  <2>2. /\ {nextThread', nextSeq', clock'} \subseteq Nat
        /\ nextThread <= nextThread' /\ nextSeq <= nextSeq' /\ clock <= clock'
    BY <1>1, <1>2
  <2>3. QED
    BY <1>1, <1>4, <2>1, <2>2, QuietBy DEF StoreInv
<1>6. Working(x) /\ WillCreate(x) /\ Working(x)' /\ WillCreate(x)' /\ HasThread(x)' /\ ~HasSeq(x)'
  BY <1>1, <1>4, <1>5 DEF Working, HasThread, HasSeq, WillCreate
<1>7. Request1(x)'
  <2>1. n.thread \in (1..nextThread') \ DOMAIN threads'
    BY <1>1, <1>2, <1>4 DEF StoreInv, Store, dbVars
  <2>2. n.from \in Peer /\ n.at \in 1..clock' /\ n.dayAgo <= dayAgo' /\ n.to \in Peer /\ n.from # n.to
    BY <1>1, <1>4, <1>6 DEF Request1
  <2>3. QED
    BY <1>4, <1>5, <1>6, <2>1, <2>2 DEF Request1
<1>8. ASSUME NEW y \in Request \ {x} PROVE Request2(x, y)' /\ Request2(y, x)'
  <2>1. req'[y] = req[y]
    BY <1>5 DEF Quiet
  <2>2. HasThread(y) => req[y].thread \in 1..nextThread
    BY DEF StoreInv, Requests, Request1, Store
  <2>3. HasThread(y) => req[y].thread # n.thread
    BY <1>2, <1>4, <2>2
  <2>4. QED
    BY <1>4, <1>5, <1>6, <2>1, <2>3 DEF Request2, HasThread
<1>9. Serially'
  <2>1. serial /\ ~n.force =>
           \A u \in DOMAIN threads :
             threads[u].between = {n.from, n.to} => threads[u].last <= n.dayAgo
    BY <1>4, <1>6 DEF StoreInv, Serially
  <2>2. QED
    BY <1>5, <1>6, <2>1, QuietSerially DEF StoreInv
<1>10. Counted'
  <2>1. x \in MayInsert /\ x \in MayCreate
    BY <1>1 DEF MayInsert, MayCreate
  <2>2. MayInsert' = MayInsert /\ MayCreate' = MayCreate \ {x}
    BY <1>4, <1>5, <2>1, MayAfter
  <2>3. QED
    BY <1>1, <2>1, <2>2, CountedCreates DEF StoreInv
<1>11. clock' <= MaxPosts
  BY <1>1, <1>2
<1>12. QED
  BY <1>1, <1>5, <1>7, <1>8, <1>9, <1>10, <1>11, QuietStep, ToldKept

(* A message takes a seq above every seq there is. *)
LEMMA InsertStep ==
  ASSUME StoreInv, NEW x \in Request, Insert(x)
  PROVE  StoreInv'
<1> DEFINE r == req[x]
           a == At(x, "touch")
           n == [a EXCEPT !.seq = nextSeq + 1]
<1>1. /\ r.pc = "insert" /\ r \in RequestType /\ Request1(x)
      /\ req' = [req EXCEPT ![x] = n]
      /\ nextSeq' = nextSeq + 1
      /\ UNCHANGED <<serial, dbVars, nextThread, clock, dayAgo, told, clientVars, upsets>>
  BY DEF Insert, Goes, StoreInv, Types, Requests
<1>2. {nextThread, nextSeq, clock, MaxPosts} \subseteq Nat /\ clock <= MaxPosts
  BY DEF StoreInv, Types
<1>3. /\ a \in RequestType /\ a.pc = "touch" /\ a.from = r.from /\ a.to = r.to
      /\ a.force = r.force /\ a.at = r.at /\ a.dayAgo = r.dayAgo /\ a.thread = r.thread
      /\ a.creates = r.creates
  BY <1>1, AtFields DEF At, Pcs
<1> HIDE DEF a
<1>4. /\ n \in RequestType /\ n.pc = "touch" /\ n.from = r.from /\ n.to = r.to
      /\ n.force = r.force /\ n.at = r.at /\ n.dayAgo = r.dayAgo /\ n.thread = r.thread
      /\ n.creates = r.creates /\ n.seq = nextSeq + 1
  BY <1>2, <1>3, SeqFields
<1> HIDE DEF n
<1>5. Quiet(x) /\ req'[x] = n
  <2>1. UNCHANGED <<serial, dbVars, dayAgo, clientVars>>
    BY <1>1
  <2>2. /\ {nextThread', nextSeq', clock'} \subseteq Nat
        /\ nextThread <= nextThread' /\ nextSeq <= nextSeq' /\ clock <= clock'
    BY <1>1, <1>2
  <2>3. QED
    BY <1>1, <1>4, <2>1, <2>2, QuietBy DEF StoreInv
<1>6. /\ Working(x) /\ HasThread(x) /\ Working(x)' /\ HasThread(x)' /\ HasSeq(x)'
      /\ WillCreate(x)' <=> WillCreate(x)
  BY <1>1, <1>4, <1>5 DEF Working, HasThread, HasSeq, WillCreate
<1>7. n.seq \in 1..nextSeq' /\ \A m \in messages : m.seq < n.seq
  BY <1>1, <1>2, <1>4 DEF StoreInv, Store
<1>8. Request1(x)'
  <2>1. \A m \in messages' : m.seq # n.seq
    BY <1>1, <1>7 DEF dbVars, StoreInv, Types, MessageType
  <2>2. threads' = threads /\ nextThread' = nextThread /\ clock' = clock /\ dayAgo' = dayAgo
    BY <1>1 DEF dbVars
  <2>3. QED
    BY <1>1, <1>4, <1>5, <1>6, <1>7, <2>1, <2>2 DEF Request1
<1>9. ASSUME NEW y \in Request \ {x} PROVE Request2(x, y)' /\ Request2(y, x)'
  <2>1. req'[y] = req[y] /\ Request2(x, y) /\ Request2(y, x)
    BY <1>5 DEF Quiet, StoreInv, Requests
  <2>2. HasSeq(y) => req[y].seq \in 1..nextSeq
    BY DEF StoreInv, Requests, Request1
  <2>3. HasSeq(y) => req[y].seq # n.seq
    BY <1>2, <1>4, <2>2
  <2>4. QED
    BY <1>4, <1>5, <1>6, <2>1, <2>3 DEF Request2, HasThread, HasSeq
<1>10. Serially'
  <2>1. serial /\ WillCreate(x)' /\ ~n.force =>
           \A u \in DOMAIN threads :
             threads[u].between = {n.from, n.to} => threads[u].last <= n.dayAgo
    BY <1>4, <1>6 DEF StoreInv, Serially
  <2>2. QED
    BY <1>5, <1>6, <1>7, <2>1, QuietSerially DEF StoreInv
<1>11. Counted'
  <2>1. x \in MayInsert /\ x \notin MayCreate
    BY <1>1 DEF MayInsert, MayCreate
  <2>2. MayInsert' = MayInsert \ {x} /\ MayCreate' = MayCreate
    BY <1>4, <1>5, <2>1, MayAfter
  <2>3. QED
    BY <1>1, <2>1, <2>2, CountedInserts DEF StoreInv
<1>12. clock' <= MaxPosts
  BY <1>1, <1>2
<1>13. QED
  BY <1>1, <1>5, <1>8, <1>9, <1>10, <1>11, <1>12, QuietStep, ToldKept

(* One request at a time holds the row of a thread, and has read it as it is. *)
LEMMA TouchStep ==
  ASSUME StoreInv, NEW x \in Request, Touch(x)
  PROVE  StoreInv'
<1> DEFINE r == req[x]
           a == At(x, "commit")
           n == [a EXCEPT !.last = LastAfter(r)]
<1>1. /\ r.pc = "touch" /\ r \in RequestType /\ Request1(x) /\ ~Locked(r.thread)
      /\ req' = [req EXCEPT ![x] = n]
      /\ UNCHANGED <<serial, dbVars, seqVars, clock, dayAgo, told, clientVars, upsets>>
  BY DEF Touch, Goes, StoreInv, Types, Requests
<1>2. {nextThread, nextSeq, clock, MaxPosts} \subseteq Nat /\ clock <= MaxPosts
  BY DEF StoreInv, Types
<1>3. /\ a \in RequestType /\ a.pc = "commit" /\ a.from = r.from /\ a.to = r.to
      /\ a.force = r.force /\ a.at = r.at /\ a.dayAgo = r.dayAgo /\ a.thread = r.thread
      /\ a.creates = r.creates /\ a.seq = r.seq
  BY <1>1, AtFields DEF At, Pcs
<1>4. LastAfter(r) \in Nat
  <2>1. ~r.creates => threads[r.thread] \in ThreadType
    BY <1>1 DEF Request1, HasThread, StoreInv, Types
  <2>2. QED
    BY <1>1, <2>1 DEF LastAfter, Larger, ThreadType, RequestType
<1> HIDE DEF a
<1>5. /\ n \in RequestType /\ n.pc = "commit" /\ n.from = r.from /\ n.to = r.to
      /\ n.force = r.force /\ n.at = r.at /\ n.dayAgo = r.dayAgo /\ n.thread = r.thread
      /\ n.creates = r.creates /\ n.seq = r.seq /\ n.last = LastAfter(r)
  BY <1>3, <1>4, LastFields
<1> HIDE DEF n
<1>6. Quiet(x) /\ req'[x] = n
  <2>1. UNCHANGED <<serial, dbVars, dayAgo, clientVars>>
    BY <1>1
  <2>2. /\ {nextThread', nextSeq', clock'} \subseteq Nat
        /\ nextThread <= nextThread' /\ nextSeq <= nextSeq' /\ clock <= clock'
    BY <1>1, <1>2 DEF seqVars
  <2>3. QED
    BY <1>1, <1>5, <2>1, <2>2, QuietBy DEF StoreInv
<1>7. /\ Working(x) /\ HasThread(x) /\ HasSeq(x) /\ Working(x)' /\ HasThread(x)' /\ HasSeq(x)'
      /\ WillCreate(x)' <=> WillCreate(x)
  BY <1>1, <1>5, <1>6 DEF Working, HasThread, HasSeq, WillCreate
<1>8. threads' = threads /\ messages' = messages /\ seqVars' = seqVars /\ clock' = clock
      /\ dayAgo' = dayAgo
  BY <1>1 DEF dbVars
<1>9. Request1(x)'
  <2>1. LastAfter(req[x])' = LastAfter(r)
    BY <1>5, <1>6, <1>8 DEF LastAfter, Larger
  <2>2. QED
    BY <1>1, <1>5, <1>6, <1>7, <1>8, <2>1 DEF Request1, seqVars
<1>10. ASSUME NEW y \in Request \ {x} PROVE Request2(x, y)' /\ Request2(y, x)'
  <2>1. req'[y] = req[y] /\ Request2(x, y) /\ Request2(y, x)
    BY <1>6 DEF Quiet, StoreInv, Requests
  <2>2. req[y].pc = "commit" => req[y].thread # n.thread
    BY <1>1, <1>5 DEF Locked
  <2>3. QED
    BY <1>5, <1>6, <1>7, <2>1, <2>2 DEF Request2, HasThread, HasSeq
<1>11. Serially'
  <2>1. serial /\ WillCreate(x)' /\ ~n.force =>
           \A u \in DOMAIN threads :
             threads[u].between = {n.from, n.to} => threads[u].last <= n.dayAgo
    BY <1>5, <1>7 DEF StoreInv, Serially
  <2>2. serial => \A m \in messages : m.seq < n.seq
    BY <1>5, <1>7 DEF StoreInv, Serially
  <2>3. QED
    BY <1>6, <1>7, <2>1, <2>2, QuietSerially DEF StoreInv
<1>12. Counted'
  <2>1. MayInsert' \subseteq MayInsert /\ MayCreate' \subseteq MayCreate
    BY <1>5, <1>6, MayAfter
  <2>2. QED
    BY <1>8, <2>1, CountedShrinks DEF StoreInv, seqVars
<1>13. clock' <= MaxPosts
  BY <1>2, <1>8
<1>14. QED
  BY <1>1, <1>6, <1>9, <1>10, <1>11, <1>12, <1>13, QuietStep, ToldKept

-----------------------------------------------------------------------------
(* What a commit makes of the tables. *)
Committed(r) == [seq |-> r.seq, thread |-> r.thread, from |-> r.from, at |-> r.at]

LEMMA CommitTables ==
  ASSUME StoreInv, NEW x \in Request, Commit(x), NEW r, r = req[x]
  PROVE  /\ r \in RequestType /\ r.pc = "commit" /\ Request1(x)
         /\ HasThread(x) /\ HasSeq(x) /\ Working(x)
         /\ DOMAIN threads' = DOMAIN threads \union {r.thread}
         /\ threads' \in [DOMAIN threads' -> ThreadType]
         /\ \A u \in DOMAIN threads : /\ u # r.thread => threads'[u] = threads[u]
                                      /\ threads'[u].between = threads[u].between
         /\ threads'[r.thread].last = r.last
         /\ r.creates => threads'[r.thread].between = {r.from, r.to}
         /\ messages' = messages \union {Committed(r)}
         /\ Committed(r) \in MessageType
         /\ Committed(r).seq = r.seq /\ Committed(r).thread = r.thread
         /\ Committed(r).at = r.at
<1>1. /\ r \in RequestType /\ r.pc = "commit" /\ Request1(x)
      /\ HasThread(x) /\ HasSeq(x) /\ Working(x)
  BY DEF Commit, Goes, StoreInv, Types, Requests, HasThread, HasSeq, Working
<1>2. r.from \in Peer /\ {r.thread, r.at, r.seq, r.last} \subseteq Nat /\ r.force \in BOOLEAN
  BY <1>1 DEF Request1, RequestType
<1>3. /\ messages' = messages \union {Committed(r)}
      /\ Committed(r) \in MessageType
      /\ Committed(r).seq = r.seq /\ Committed(r).thread = r.thread
      /\ Committed(r).at = r.at
  BY <1>2 DEF Commit, Committed, MessageType
<1>4. threads \in [DOMAIN threads -> ThreadType]
  BY DEF StoreInv, Types
<1>5. CASE r.creates
  <2>1. r.to \in Peer /\ r.thread \notin DOMAIN threads /\ r.last = r.at
    BY <1>1, <1>5 DEF Request1, WillCreate, LastAfter
  <2>2. /\ NewThread(r) \in ThreadType /\ NewThread(r).between = {r.from, r.to}
        /\ NewThread(r).last = r.at
    BY <1>2, <2>1 DEF NewThread, ThreadType
  <2>3. threads' = [t \in DOMAIN threads \union {r.thread} |->
                      IF t = r.thread THEN NewThread(r) ELSE threads[t]]
    BY <1>5 DEF Commit
  <2>4. QED
    BY <1>1, <1>3, <1>4, <2>1, <2>2, <2>3
<1>6. CASE ~r.creates
  <2>1. r.thread \in DOMAIN threads
    BY <1>1, <1>6 DEF Request1
  <2>2. threads' = [threads EXCEPT ![r.thread].last = r.last]
    BY <1>6 DEF Commit
  <2>3. \A h \in ThreadType : LET g == [h EXCEPT !.last = r.last] IN
          g \in ThreadType /\ g.between = h.between /\ g.last = r.last
    BY <1>2 DEF ThreadType
  <2>4. threads' = [threads EXCEPT ![r.thread] = [threads[r.thread] EXCEPT !.last = r.last]]
    BY <2>1, <2>2
  <2>5. QED
    BY <1>1, <1>3, <1>4, <1>6, <2>1, <2>3, <2>4, ZenonT(40)
<1>7. QED
  BY <1>5, <1>6

(* The messages of a thread after the commit. *)
LEMMA CommitMessages ==
  ASSUME StoreInv, NEW x \in Request, Commit(x), NEW r, r = req[x]
  PROVE  /\ Of(r.thread)' = Of(r.thread) \union {Committed(r)}
         /\ \A t : t # r.thread => Of(t)' = Of(t)
         /\ r.creates => Of(r.thread) = {}
<1>1. /\ messages' = messages \union {Committed(r)} /\ Committed(r).thread = r.thread
      /\ Request1(x) /\ HasThread(x)
  BY CommitTables
<1>2. r.creates => r.thread \notin DOMAIN threads
  BY <1>1 DEF Request1
<1>3. QED
  BY <1>1, <1>2 DEF Of, StoreInv, Store

LEMMA PairCardinality ==
  ASSUME NEW a, NEW b, a # b
  PROVE  Cardinality({a, b}) = 2
<1>1. Cardinality({a}) = 1 /\ IsFiniteSet({a})
  BY FS_Singleton
<1>2. {a, b} = {a} \union {b}
  OBVIOUS
<1>3. QED
  BY <1>1, <1>2, FS_AddElement

(* The tables are whole after a commit. *)
LEMMA CommitStore ==
  ASSUME StoreInv, NEW x \in Request, Commit(x)
  PROVE  Store'
<1>0. PICK r : r = req[x]
  OBVIOUS
<1>1. UNCHANGED <<nextThread, nextSeq, clock>> /\ {nextThread, nextSeq, clock} \subseteq Nat
  BY DEF Commit, seqVars, StoreInv, Types
<1>2. /\ r \in RequestType /\ r.pc = "commit" /\ Request1(x)
      /\ HasThread(x) /\ HasSeq(x) /\ Working(x)
      /\ DOMAIN threads' = DOMAIN threads \union {r.thread}
      /\ threads' \in [DOMAIN threads' -> ThreadType]
      /\ \A u \in DOMAIN threads : /\ u # r.thread => threads'[u] = threads[u]
                                   /\ threads'[u].between = threads[u].between
      /\ threads'[r.thread].last = r.last
      /\ r.creates => threads'[r.thread].between = {r.from, r.to}
      /\ messages' = messages \union {Committed(r)}
      /\ Committed(r).seq = r.seq /\ Committed(r).thread = r.thread
      /\ Committed(r).at = r.at
  BY <1>0, CommitTables
<1>3. /\ Of(r.thread)' = Of(r.thread) \union {Committed(r)}
      /\ \A t : t # r.thread => Of(t)' = Of(t)
      /\ r.creates => Of(r.thread) = {}
  BY <1>0, CommitMessages
<1>4. /\ r.from \in Peer /\ r.at \in 1..clock /\ r.at \in Nat
      /\ r.seq \in 1..nextSeq /\ \A m \in messages : m.seq # r.seq
      /\ r.last = LastAfter(r)
      /\ r.creates => r.to \in Peer /\ r.from # r.to
      /\ IF r.creates THEN r.thread \in (1..nextThread) \ DOMAIN threads
                      ELSE r.thread \in DOMAIN threads
  BY <1>0, <1>2 DEF Request1, WillCreate, RequestType
<1>5. ~r.creates => threads[r.thread].last \in 1..clock /\ threads[r.thread].last \in Nat
  BY <1>1, <1>4 DEF StoreInv, Store
<1>6. r.last \in 1..clock /\ r.at <= r.last
  BY <1>1, <1>4, <1>5 DEF LastAfter, Larger
<1>7. DOMAIN threads' \subseteq 1..nextThread'
  BY <1>1, <1>2, <1>4 DEF StoreInv, Store
<1>8. \A t \in DOMAIN threads' : threads'[t].last \in 1..clock'
  BY <1>1, <1>2, <1>6 DEF StoreInv, Store
<1>9. \A m \in messages' : /\ m.seq \in 1..nextSeq' /\ m.thread \in DOMAIN threads'
                           /\ m.at \in 1..clock'
  BY <1>1, <1>2, <1>4 DEF StoreInv, Store
<1>10. \A m, n \in messages' : m.seq = n.seq => m = n
  BY <1>2, <1>4 DEF StoreInv, Store
<1>11. ThreadsWhole'
  <2>1. ASSUME NEW t \in DOMAIN threads', t # r.thread
        PROVE  Cardinality(threads'[t].between) = 2 /\ Of(t)' # {}
    BY <1>2, <1>3, <2>1 DEF StoreInv, Store, ThreadsWhole
  <2>2. Cardinality(threads'[r.thread].between) = 2
    <3>1. CASE r.creates
      <4>1. r.from # r.to
        BY <1>4, <3>1
      <4>2. Cardinality({r.from, r.to}) = 2
        BY <4>1, PairCardinality
      <4>3. QED
        BY <1>2, <3>1, <4>2
    <3>2. CASE ~r.creates
      BY <1>2, <1>4, <3>2 DEF StoreInv, Store, ThreadsWhole
    <3>3. QED
      BY <3>1, <3>2
  <2>3. Of(r.thread)' # {}
    BY <1>3
  <2>4. QED
    BY <2>1, <2>2, <2>3 DEF ThreadsWhole
<1>12. LastMessageIsLatest'
  <2>1. ASSUME NEW t \in DOMAIN threads', t # r.thread
        PROVE  /\ \A m \in Of(t)' : m.at <= threads'[t].last
               /\ \E m \in Of(t)' : m.at = threads'[t].last
    BY <1>2, <1>3, <2>1 DEF StoreInv, Store, LastMessageIsLatest
  <2>2. /\ \A m \in Of(r.thread)' : m.at <= threads'[r.thread].last
        /\ \E m \in Of(r.thread)' : m.at = threads'[r.thread].last
    <3>1. CASE r.creates
      <4>1. Of(r.thread)' = {Committed(r)} /\ r.last = r.at
        BY <1>3, <1>4, <3>1 DEF LastAfter
      <4>2. QED
        BY <1>2, <1>4, <4>1
    <3>2. CASE ~r.creates
      <4>1. /\ \A m \in Of(r.thread) : m.at <= threads[r.thread].last
            /\ \E m \in Of(r.thread) : m.at = threads[r.thread].last
        BY <1>4, <3>2 DEF StoreInv, Store, LastMessageIsLatest
      <4>2. r.last = Larger(threads[r.thread].last, r.at)
        BY <1>4, <3>2 DEF LastAfter
      <4>3. \A m \in Of(r.thread) : m.at \in Nat
        BY DEF Of, StoreInv, Types, MessageType
      <4>4. QED
        BY <1>2, <1>3, <1>4, <1>5, <3>2, <4>1, <4>2, <4>3 DEF Larger
    <3>3. QED
      BY <3>1, <3>2
  <2>3. QED
    BY <2>1, <2>2 DEF LastMessageIsLatest
<1>13. QED
  BY <1>7, <1>8, <1>9, <1>10, <1>11, <1>12 DEF Store

(* What the other records say survives a commit: their threads, rows and seqs
   are not the ones this one wrote. *)
LEMMA CommitRequests ==
  ASSUME StoreInv, NEW x \in Request, Commit(x)
  PROVE  Requests'
<1>0. PICK r : r = req[x]
  OBVIOUS
<1>1. /\ r \in RequestType /\ r.pc = "commit" /\ Request1(x) /\ HasThread(x) /\ HasSeq(x)
      /\ DOMAIN threads' = DOMAIN threads \union {r.thread}
      /\ \A u \in DOMAIN threads : u # r.thread => threads'[u] = threads[u]
      /\ messages' = messages \union {Committed(r)}
      /\ Committed(r).seq = r.seq
  BY <1>0, CommitTables
<1>2. PICK n : n = At(x, "push")
  OBVIOUS
<1>3. /\ req' = [req EXCEPT ![x] = n] /\ n.pc = "push" /\ n.thread = r.thread /\ n.seq = r.seq
      /\ n \in RequestType
  BY <1>0, <1>1, <1>2, AtFields DEF Commit, Goes, At, Pcs
<1>4. /\ req'[x] = n /\ \A y \in Request \ {x} : req'[y] = req[y]
      /\ UNCHANGED <<nextThread, nextSeq, clock, dayAgo>>
  BY <1>3 DEF StoreInv, Types, Commit, seqVars
<1>5. ~Working(x)' /\ ~HasThread(x)' /\ ~HasSeq(x)' /\ ~WillCreate(x)'
  BY <1>3, <1>4 DEF Working, HasThread, HasSeq, WillCreate
<1>6. Request1(x)'
  BY <1>1, <1>3, <1>4, <1>5 DEF Request1
<1>7. ASSUME NEW y \in Request \ {x} PROVE Request1(y)'
  <2>1. Request1(y) /\ Request2(x, y) /\ Request2(y, x) /\ req'[y] = req[y]
    BY <1>4 DEF StoreInv, Requests
  <2>2. /\ Working(y)' <=> Working(y)
        /\ HasThread(y)' <=> HasThread(y)
        /\ HasSeq(y)' <=> HasSeq(y)
        /\ WillCreate(y)' <=> WillCreate(y)
    BY <2>1 DEF Working, HasThread, HasSeq, WillCreate
  <2>3. HasThread(y) =>
          IF req[y].creates THEN req[y].thread \in (1..nextThread) \ DOMAIN threads'
                            ELSE req[y].thread \in DOMAIN threads'
    BY <1>0, <1>1, <2>1 DEF Request1, Request2
  <2>4. HasSeq(y) => \A m \in messages' : m.seq # req[y].seq
    BY <1>0, <1>1, <2>1 DEF Request1, Request2
  <2>5. req[y].pc = "commit" => req[y].last = LastAfter(req[y])'
    <3>1. SUFFICES ASSUME req[y].pc = "commit" PROVE req[y].last = LastAfter(req[y])'
      OBVIOUS
    <3>2. req[y].thread # r.thread /\ req[y].last = LastAfter(req[y]) /\ HasThread(y)
      BY <1>0, <1>1, <2>1, <3>1 DEF Request1, Request2, HasThread
    <3>3. ~req[y].creates => threads'[req[y].thread] = threads[req[y].thread]
      BY <1>1, <2>1, <3>2 DEF Request1
    <3>4. QED
      BY <2>1, <3>2, <3>3 DEF LastAfter, Larger
  <2>6. req[y].pc = "push" =>
          req[y].thread \in DOMAIN threads' /\ \E m \in messages' : m.seq = req[y].seq
    BY <1>1, <2>1 DEF Request1
  <2>7. req[y].pc = "find" =>
          IF req[y].to = None THEN req[y].thread \in DOMAIN threads' ELSE req[y].to \in Peer
    BY <1>1, <2>1 DEF Request1
  <2>8. QED
    BY <1>4, <2>1, <2>2, <2>3, <2>4, <2>5, <2>6, <2>7 DEF Request1
<1>8. ASSUME NEW y \in Request, NEW z \in Request, y # z
      PROVE  Request2(y, z)'
  BY <1>3, <1>4, <1>5, <1>8 DEF StoreInv, Requests, Request2, HasThread, HasSeq
<1>9. QED
  BY <1>6, <1>7, <1>8 DEF Requests

(* When nothing overlaps, no one is left at work, and what is committed lies
   above every cursor. *)
LEMMA CommitSerially ==
  ASSUME StoreInv, NEW x \in Request, Commit(x)
  PROVE  Serially'
<1>0. PICK r : r = req[x]
  OBVIOUS
<1>1. /\ Request1(x) /\ HasThread(x) /\ HasSeq(x) /\ Working(x) /\ r.pc = "commit"
      /\ r \in RequestType
      /\ DOMAIN threads' = DOMAIN threads \union {r.thread}
      /\ \A u \in DOMAIN threads : threads'[u].between = threads[u].between
      /\ messages' = messages \union {Committed(r)}
      /\ Committed(r).seq = r.seq
  BY <1>0, CommitTables
<1>2. PICK n : n = At(x, "push")
  OBVIOUS
<1>3. req' = [req EXCEPT ![x] = n] /\ n.pc = "push"
  BY <1>0, <1>1, <1>2, AtFields DEF Commit, Goes, At, Pcs
<1>4. /\ req'[x] = n /\ \A y \in Request \ {x} : req'[y] = req[y]
      /\ UNCHANGED <<serial, cursor, got>>
  BY <1>3 DEF StoreInv, Types, Commit, clientVars
<1>5. SUFFICES ASSUME serial PROVE Serially'
  BY <1>4 DEF Serially
<1>6. \A y \in Request : ~Working(y)'
  BY <1>1, <1>3, <1>4, <1>5 DEF StoreInv, Serially, Working
<1>7. \A y \in Request : ~HasSeq(y)' /\ ~WillCreate(y)'
  BY <1>6 DEF Working, HasSeq, WillCreate, HasThread
<1>8. SinceComplete'
  <2>1. SUFFICES ASSUME NEW p \in Peer, NEW t \in DOMAIN threads', p \in threads'[t].between,
                        NEW m \in Of(t)', m.seq <= cursor[p][t]
                 PROVE  m.seq \in got[p]
    BY <1>4 DEF SinceComplete
  <2>2. /\ Of(r.thread)' = Of(r.thread) \union {Committed(r)}
        /\ \A u : u # r.thread => Of(u)' = Of(u)
        /\ r.creates => Of(r.thread) = {}
    BY <1>0, CommitMessages
  <2>3. CASE m \in Of(t)
    <3>1. t \in DOMAIN threads
      BY <2>3 DEF Of, StoreInv, Store
    <3>2. p \in threads[t].between
      BY <1>1, <2>1, <3>1
    <3>3. QED
      BY <1>5, <2>1, <2>3, <3>1, <3>2 DEF StoreInv, Serially, SinceComplete
  <2>4. CASE m = Committed(r) /\ t = r.thread
    <3>1. t \in ThreadId
      <4>1. t \in 1..nextThread
        BY <1>0, <1>1, <2>4 DEF Request1, StoreInv, Store
      <4>2. nextThread <= clock /\ clock <= MaxPosts /\ {nextThread, clock, MaxPosts} \subseteq Nat
        BY CountedBounds DEF StoreInv, Types
      <4>3. QED
        BY <4>1, <4>2 DEF ThreadId
    <3>2. \A k \in messages : k.seq < r.seq
      BY <1>0, <1>1, <1>5 DEF StoreInv, Serially
    <3>3. r.seq \in Nat /\ r.seq > 0
      BY <1>0, <1>1 DEF Request1, RequestType
    <3>4. cursor[p][t] = 0 \/ \E k \in Of(t) : k.seq = cursor[p][t]
      BY <3>1 DEF StoreInv, Clients
    <3>5. \A k \in Of(t) : k \in messages /\ k.seq \in Nat
      BY DEF Of, StoreInv, Types, MessageType
    <3>6. FALSE
      BY <1>1, <2>1, <2>4, <3>2, <3>3, <3>4, <3>5
    <3>7. QED
      BY <3>6
  <2>5. QED
    BY <2>1, <2>2, <2>3, <2>4
<1>9. QED
  BY <1>6, <1>7, <1>8 DEF Serially

LEMMA CommitStep ==
  ASSUME StoreInv, NEW x \in Request, Commit(x)
  PROVE  StoreInv'
<1>0. PICK r : r = req[x]
  OBVIOUS
<1>1. /\ r \in RequestType /\ r.pc = "commit"
      /\ threads' \in [DOMAIN threads' -> ThreadType]
      /\ messages' = messages \union {Committed(r)} /\ Committed(r) \in MessageType
  BY <1>0, CommitTables
<1>2. PICK n : n = At(x, "push")
  OBVIOUS
<1>3. req' = [req EXCEPT ![x] = n] /\ n \in RequestType /\ n.pc = "push"
  BY <1>0, <1>1, <1>2, AtFields DEF Commit, Goes, At, Pcs
<1>4. UNCHANGED <<serial, nextThread, nextSeq, clock, dayAgo, told, cursor, got, upsets>>
  BY DEF Commit, seqVars, clientVars
<1>5. Types'
  BY <1>1, <1>3, <1>4 DEF StoreInv, Types
<1>6. Clients'
  <2>1. Pushable \subseteq Pushable'
    BY <1>1 DEF Pushable
  <2>2. \A t : Of(t) \subseteq Of(t)'
    BY <1>1 DEF Of
  <2>3. {m.seq : m \in messages} \subseteq {m.seq : m \in messages'}
    BY <1>1
  <2>4. told' \subseteq Pushable'
    BY <1>4, <2>1 DEF StoreInv, Clients
  <2>5. \A p \in Peer, t \in ThreadId :
          cursor'[p][t] = 0 \/ \E m \in Of(t)' : m.seq = cursor'[p][t]
    BY <1>4, <2>2 DEF StoreInv, Clients
  <2>6. \A p \in Peer : got'[p] \subseteq {m.seq : m \in messages'}
    BY <1>4, <2>3 DEF StoreInv, Clients
  <2>7. QED
    BY <2>4, <2>5, <2>6 DEF Clients
<1>7. Counted'
  <2>1. req[x].pc = "commit" /\ req'[x].pc = "push" /\ \A y \in Request \ {x} : req'[y] = req[y]
    BY <1>0, <1>1, <1>3 DEF StoreInv, Types
  <2>2. MayInsert' \subseteq MayInsert /\ MayCreate' \subseteq MayCreate
    BY <2>1 DEF MayInsert, MayCreate
  <2>3. QED
    BY <1>4, <2>2, CountedShrinks DEF StoreInv
<1>8. QED
  BY <1>5, <1>6, <1>7, CommitStore, CommitRequests, CommitSerially DEF StoreInv

-----------------------------------------------------------------------------
(* A client that fetches has what the answer brings, up to its new cursor. *)
LEMMA FetchStep ==
  ASSUME StoreInv, NEW p \in Peer, NEW t \in ThreadId, Fetch(p, t)
  PROVE  StoreInv'
<1>1. PICK last \in Above(t, cursor[p][t]) :
        /\ \A m \in Above(t, cursor[p][t]) : m.seq <= last.seq
        /\ cursor' = [cursor EXCEPT ![p][t] = last.seq]
  BY DEF Fetch
<1>2. /\ UNCHANGED <<serial, threads, messages, nextThread, nextSeq, clock, dayAgo, req, told,
                     upsets>>
      /\ got' = [got EXCEPT ![p] = @ \union {m.seq : m \in Above(t, cursor[p][t])}]
      /\ t \in DOMAIN threads
  BY DEF Fetch, dbVars, seqVars
<1>3. Above(t, cursor[p][t]) \subseteq Of(t) /\ Of(t) \subseteq messages
  BY DEF Above, Of
<1>4. \A m \in messages : m.seq \in Nat
  BY DEF StoreInv, Types, MessageType
<1>5. /\ cursor'[p][t] = last.seq
      /\ \A q \in Peer, u \in ThreadId : q # p \/ u # t => cursor'[q][u] = cursor[q][u]
      /\ cursor' \in [Peer -> [ThreadId -> Nat]]
  BY <1>1, <1>3, <1>4 DEF StoreInv, Types
<1>6. /\ got'[p] = got[p] \union {m.seq : m \in Above(t, cursor[p][t])}
      /\ \A q \in Peer : got[q] \subseteq got'[q]
      /\ \A q \in Peer : q # p => got'[q] = got[q]
      /\ got' \in [Peer -> SUBSET Nat]
  BY <1>2, <1>3, <1>4 DEF StoreInv, Types
<1>7. Types' /\ Store' /\ Requests' /\ Counted'
  <2>1. Types'
    BY <1>2, <1>5, <1>6 DEF StoreInv, Types
  <2>2. Store'
    BY <1>2 DEF StoreInv, Store, ThreadsWhole, LastMessageIsLatest, Of
  <2>3. Requests'
    BY <1>2 DEF StoreInv, Requests, Request1, Request2, Working, HasThread, HasSeq,
                WillCreate, LastAfter
  <2>4. Counted'
    BY <1>2 DEF StoreInv, Counted, MayCreate, MayInsert
  <2>5. QED
    BY <2>1, <2>2, <2>3, <2>4
<1>8. \A u : Of(u)' = Of(u)
  BY <1>2 DEF Of
<1>9. Clients'
  <2>1. Pushable' = Pushable /\ told' = told
    BY <1>2 DEF Pushable
  <2>2. ASSUME NEW q \in Peer, NEW u \in ThreadId
        PROVE  cursor'[q][u] = 0 \/ \E m \in Of(u)' : m.seq = cursor'[q][u]
    <3>1. CASE q = p /\ u = t
      BY <1>1, <1>3, <1>5, <1>8, <3>1
    <3>2. CASE q # p \/ u # t
      BY <1>5, <1>8, <3>2 DEF StoreInv, Clients
    <3>3. QED
      BY <3>1, <3>2
  <2>3. \A q \in Peer : got'[q] \subseteq {m.seq : m \in messages'}
    BY <1>2, <1>3, <1>6 DEF StoreInv, Clients
  <2>4. QED
    BY <2>1, <2>2, <2>3 DEF StoreInv, Clients
<1>10. Serially'
  <2>1. SUFFICES ASSUME serial PROVE SinceComplete'
    BY <1>2 DEF StoreInv, Serially, Working, HasSeq, HasThread, WillCreate
  <2>2. SUFFICES ASSUME NEW q \in Peer, NEW u \in DOMAIN threads, q \in threads[u].between,
                        NEW m \in Of(u), m.seq <= cursor'[q][u]
                 PROVE  m.seq \in got'[q]
    BY <1>2, <1>8 DEF SinceComplete
  <2>3. m.seq <= cursor[q][u] => m.seq \in got[q]
    BY <2>1, <2>2 DEF StoreInv, Serially, SinceComplete
  <2>4. CASE q = p /\ u = t
    <3>1. CASE m.seq <= cursor[p][t]
      BY <1>6, <2>3, <2>4, <3>1
    <3>2. CASE ~(m.seq <= cursor[p][t])
      <4>1. m.seq \in Nat /\ cursor[p][t] \in Nat
        BY <1>3, <1>4, <2>2, <2>4 DEF StoreInv, Types
      <4>2. m \in Above(t, cursor[p][t])
        BY <2>2, <2>4, <3>2, <4>1 DEF Above
      <4>3. QED
        BY <1>6, <2>4, <4>2
    <3>3. QED
      BY <3>1, <3>2
  <2>5. CASE q # p \/ u # t
    <3>1. u \in ThreadId
      <4>1. u \in 1..nextThread
        BY <2>2 DEF StoreInv, Store
      <4>2. nextThread <= clock /\ clock <= MaxPosts /\ {nextThread, clock, MaxPosts} \subseteq Nat
        BY CountedBounds DEF StoreInv, Types
      <4>3. QED
        BY <4>1, <4>2 DEF ThreadId
    <3>2. QED
      BY <1>5, <1>6, <2>2, <2>3, <2>5, <3>1
  <2>6. QED
    BY <2>4, <2>5
<1>11. QED
  BY <1>7, <1>9, <1>10 DEF StoreInv

LEMMA DayPassesStep ==
  ASSUME StoreInv, DayPasses
  PROVE  StoreInv'
<1>1. /\ dayAgo' = clock /\ upsets' \in 0..MaxUpsets
      /\ UNCHANGED <<serial, threads, messages, nextThread, nextSeq, clock, req, told, cursor,
                     got>>
  BY DEF DayPasses, Upset, dbVars, seqVars, clientVars, StoreInv, Types
<1>2. Types'
  BY <1>1 DEF StoreInv, Types
<1>3. Requests'
  <2>1. dayAgo <= dayAgo' /\ {dayAgo, dayAgo'} \subseteq Nat
    BY <1>1 DEF StoreInv, Types
  <2>2. \A y \in Request : req[y].dayAgo \in Nat
    BY DEF StoreInv, Types, RequestType
  <2>3. ASSUME NEW y \in Request PROVE Request1(y)'
    BY <1>1, <2>1, <2>2 DEF StoreInv, Requests, Request1, Working, HasThread, HasSeq,
                            WillCreate, LastAfter
  <2>4. \A y, z \in Request : y # z => Request2(y, z)'
    BY <1>1 DEF StoreInv, Requests, Request2, HasThread, HasSeq
  <2>5. QED
    BY <2>3, <2>4 DEF Requests
<1>4. Store'
  BY <1>1 DEF StoreInv, Store, ThreadsWhole, LastMessageIsLatest, Of
<1>5. Clients'
  BY <1>1 DEF StoreInv, Clients, Pushable, Of
<1>6. Serially'
  BY <1>1 DEF StoreInv, Serially, Working, HasSeq, HasThread, WillCreate, SinceComplete, Of
<1>7. Counted'
  BY <1>1 DEF StoreInv, Counted, MayCreate, MayInsert
<1>8. QED
  BY <1>2, <1>3, <1>4, <1>5, <1>6, <1>7 DEF StoreInv

(* The invariant holds at first, and every step keeps it. *)
LEMMA InitStoreInv ==
  ASSUME Init
  PROVE  StoreInv
<1>1. \A x \in Request : req[x] = Idle /\ req[x].pc = "idle"
  BY IdleFields DEF Init
<1>2. \A x \in Request : ~Working(x) /\ ~HasThread(x) /\ ~HasSeq(x) /\ ~WillCreate(x)
  BY <1>1 DEF Working, HasThread, HasSeq, WillCreate
<1>3. DOMAIN threads = {} /\ messages = {}
  BY DEF Init
<1>4. Types
  BY IdleFields DEF Init, Types
<1>5. Requests
  BY <1>1, <1>2, IdleFields DEF Requests, Request1, Request2
<1>6. Store
  BY <1>3 DEF Store, ThreadsWhole, LastMessageIsLatest
<1>7. Clients
  BY DEF Init, Clients
<1>8. Serially
  BY <1>2, <1>3 DEF Serially, SinceComplete
<1>9. Counted
  <2>1. MayInsert = {} /\ MayCreate = {}
    BY <1>1 DEF MayInsert, MayCreate
  <2>2. QED
    BY <2>1, FS_EmptySet DEF Counted, Init
<1>10. QED
  BY <1>4, <1>5, <1>6, <1>7, <1>8, <1>9 DEF StoreInv

LEMMA StepStoreInv ==
  ASSUME StoreInv, [Next]_vars
  PROVE  StoreInv'
<1>1. ASSUME NEW x \in Request, NEW p \in Peer, NEW t \in DOMAIN threads,
             Begin(x, p, t, None, FALSE)
      PROVE  StoreInv'
  BY <1>1, BeginStep
<1>2. ASSUME NEW x \in Request, NEW p \in Peer, NEW q \in Peer, NEW force \in BOOLEAN,
             Begin(x, p, None, q, force)
      PROVE  StoreInv'
  BY <1>2, BeginStep
<1>3. ASSUME NEW x \in Request, \/ Resolve(x) \/ Create(x) \/ Insert(x) \/ Touch(x)
                                \/ Commit(x) \/ Push(x) \/ Abort(x)
      PROVE  StoreInv'
  BY <1>3, ResolveStep, CreateStep, InsertStep, TouchStep, CommitStep, PushStep, AbortStep
<1>4. CASE UNCHANGED vars
  <2>1. UNCHANGED <<serial, threads, messages, nextThread, nextSeq, clock, dayAgo, req, told,
                    cursor, got, upsets>>
    BY <1>4 DEF vars, dbVars, seqVars, clientVars
  <2>2. Types' /\ Clients'
    BY <2>1 DEF StoreInv, Types, Clients, Pushable, Of
  <2>3. Store' /\ Serially'
    BY <2>1 DEF StoreInv, Store, ThreadsWhole, LastMessageIsLatest, Of, Serially, Working,
                HasSeq, HasThread, WillCreate, SinceComplete
  <2>4. Requests' /\ Counted'
    BY <2>1 DEF StoreInv, Requests, Request1, Request2, Working, HasThread, HasSeq,
                WillCreate, LastAfter, Counted, MayCreate, MayInsert
  <2>5. QED
    BY <2>2, <2>3, <2>4 DEF StoreInv
<1>5. QED
  BY <1>1, <1>2, <1>3, <1>4, FetchStep, DayPassesStep DEF Next

(* The invariant, in every reachable state of any run. *)
THEOREM RelayStoreInvariant == Spec => []StoreInv
<1>1. Init => StoreInv
  BY InitStoreInv
<1>2. StoreInv /\ [Next]_vars => StoreInv'
  BY StepStoreInv
<1>3. QED
  BY <1>1, <1>2, PTL DEF Spec

(* Every variable keeps its type; in particular the sequences never run    *)
(* past the requests begun, and no two messages have one seq.              *)
THEOREM RelayStoreTypeOK == Spec => []TypeOK
<1>1. StoreInv => TypeOK
  <2>1. SUFFICES ASSUME StoreInv PROVE TypeOK
    OBVIOUS
  <2>2. /\ {nextThread, nextSeq, clock, dayAgo, MaxPosts} \subseteq Nat
        /\ nextThread <= clock /\ nextSeq <= clock /\ clock <= MaxPosts /\ dayAgo <= clock
    BY <2>1, CountedBounds DEF StoreInv, Types
  <2>3. /\ nextThread \in 0..MaxPosts /\ nextSeq \in 0..MaxPosts
        /\ clock \in 0..MaxPosts /\ dayAgo \in 0..clock
    BY <2>2
  <2>4. \A t \in DOMAIN threads : threads[t].between \subseteq Peer /\ threads[t].last \in 1..clock
    BY <2>1 DEF StoreInv, Types, Store, ThreadType
  <2>5. messages \subseteq [seq : 1..nextSeq, thread : DOMAIN threads, from : Peer, at : 1..clock]
    BY <2>1 DEF StoreInv, Types, Store, MessageType
  <2>6. told \subseteq {<<m.seq, p>> : m \in messages, p \in Peer}
    BY <2>1 DEF StoreInv, Clients, Pushable
  <2>7. \A m \in messages : m.seq \in 1..nextSeq
    BY <2>1 DEF StoreInv, Store
  <2>8. cursor \in [Peer -> [ThreadId -> 0..nextSeq]]
    <3>1. ASSUME NEW p \in Peer, NEW t \in ThreadId PROVE cursor[p][t] \in 0..nextSeq
      <4>1. cursor[p][t] = 0 \/ \E m \in messages : m.seq = cursor[p][t]
        BY <2>1 DEF StoreInv, Clients, Of
      <4>2. QED
        BY <2>2, <2>7, <4>1
    <3>2. cursor \in [Peer -> [ThreadId -> Nat]]
      BY <2>1 DEF StoreInv, Types
    <3>3. \A p \in Peer : cursor[p] \in [ThreadId -> 0..nextSeq]
      BY <3>1, <3>2
    <3>4. QED
      BY <3>2, <3>3
  <2>9. got \in [Peer -> SUBSET (1..nextSeq)]
    <3>1. \A p \in Peer : got[p] \subseteq 1..nextSeq
      BY <2>1, <2>7 DEF StoreInv, Clients
    <3>2. QED
      BY <2>1, <3>1 DEF StoreInv, Types
  <2>10. \A x \in Request : req[x].pc \in Pcs
    BY <2>1 DEF StoreInv, Types, RequestType
  <2>11. /\ serial \in BOOLEAN /\ upsets \in 0..MaxUpsets /\ DOMAIN threads \subseteq 1..nextThread
         /\ \A m, n \in messages : m.seq = n.seq => m = n
    BY <2>1 DEF StoreInv, Types, Store
  <2>12. QED
    BY <2>3, <2>4, <2>5, <2>6, <2>8, <2>9, <2>10, <2>11 DEF TypeOK
<1>2. QED
  BY <1>1, RelayStoreInvariant, PTL

(* Whatever fails, and however transactions overlap, a thread that anyone  *)
(* can see has its two participants and a message.                         *)
THEOREM RelayStoreThreadsWhole == Spec => []ThreadsWhole
<1>1. StoreInv => ThreadsWhole
  BY DEF StoreInv, Store
<1>2. QED
  BY <1>1, RelayStoreInvariant, PTL

(* A thread is listed at the time of its latest message: the lock that the *)
(* UPDATE takes makes every commit see the last one.                       *)
THEOREM RelayStoreLastMessageIsLatest == Spec => []LastMessageIsLatest
<1>1. StoreInv => LastMessageIsLatest
  BY DEF StoreInv, Store
<1>2. QED
  BY <1>1, RelayStoreInvariant, PTL

(* Without overlap, a client that pages with sinceSeq misses nothing: every *)
(* seq is committed before the next one is taken.                          *)
THEOREM RelayStoreSinceComplete == Spec => []SinceCompleteIfSerial
<1>1. StoreInv => SinceCompleteIfSerial
  BY DEF StoreInv, Serially, SinceCompleteIfSerial
<1>2. QED
  BY <1>1, RelayStoreInvariant, PTL

(* Without overlap, a second active thread between two peers opens only on *)
(* request: what the request found when it looked still holds when it      *)
(* commits.                                                                *)
THEOREM RelayStoreOneActiveThread == Spec => OneActiveThread
<1> DEFINE A == serial => \A t \in DOMAIN threads' \ DOMAIN threads :
                 \/ threads'[t].forced
                 \/ \A u \in DOMAIN threads :
                      threads[u].between = threads'[t].between => threads[u].last <= dayAgo
<1>1. StoreInv /\ [Next]_vars => [A]_vars
  <2>1. SUFFICES ASSUME StoreInv, Next, serial,
                        NEW t \in DOMAIN threads' \ DOMAIN threads, ~threads'[t].forced,
                        NEW u \in DOMAIN threads, threads[u].between = threads'[t].between
                 PROVE  threads[u].last <= dayAgo
    OBVIOUS
  <2>2. PICK x \in Request : Commit(x)
    <3>1. threads' # threads
      BY <2>1
    <3>2. QED
      BY <2>1, <3>1 DEF Next, Begin, Resolve, Create, Insert, Touch, Push, Abort, Fetch,
                        DayPasses, dbVars
  <2>3. PICK r : r = req[x]
    OBVIOUS
  <2>4. /\ t = r.thread /\ Request1(x) /\ HasThread(x) /\ Working(x) /\ r.pc = "commit"
        /\ r \in RequestType
        /\ r.creates => threads'[r.thread].between = {r.from, r.to}
    <3>1. /\ Request1(x) /\ HasThread(x) /\ Working(x) /\ r.pc = "commit" /\ r \in RequestType
          /\ DOMAIN threads' = DOMAIN threads \union {r.thread}
          /\ r.creates => threads'[r.thread].between = {r.from, r.to}
      BY <2>1, <2>2, <2>3, CommitTables
    <3>2. t = r.thread
      BY <3>1
    <3>3. QED
      BY <3>1, <3>2
  <2>5. r.creates
    BY <2>1, <2>3, <2>4 DEF Request1
  <2>6. ~r.force
    <3>1. threads'[r.thread] = NewThread(r)
      BY <2>2, <2>3, <2>5 DEF Commit
    <3>2. QED
      BY <2>1, <2>4, <3>1 DEF NewThread
  <2>7. threads[u].last <= r.dayAgo
    BY <2>1, <2>3, <2>4, <2>5, <2>6 DEF StoreInv, Serially, WillCreate
  <2>8. r.dayAgo <= dayAgo
    BY <2>3, <2>4 DEF Request1
  <2>9. threads[u].last \in Nat /\ r.dayAgo \in Nat /\ dayAgo \in Nat
    BY <2>1, <2>4 DEF StoreInv, Types, ThreadType, RequestType
  <2>10. QED
    BY <2>7, <2>8, <2>9
<1>2. QED
  BY <1>1, RelayStoreInvariant, PTL DEF Spec, OneActiveThread
=============================================================================
