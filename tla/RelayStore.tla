----------------------------- MODULE RelayStore -----------------------------
(***************************************************************************)
(* The relay's POST /messages as concurrent transactions of Postgres in    *)
(* its default isolation, READ COMMITTED, the push that follows a commit,  *)
(* and a client that pages through a thread with GET /messages?sinceSeq.   *)
(*                                                                         *)
(* A step is one statement: it sees what was committed before it.  What a  *)
(* transaction writes is kept in its own record until it commits.  A seq   *)
(* and a thread id are taken from a sequence at once and are never given   *)
(* back.  now() is the time a transaction began.                           *)
(***************************************************************************)
EXTENDS Naturals, FiniteSets

CONSTANTS
  Peer,
  Request,        \* names for POST /messages requests under way
  SerialModes,    \* the values of `serial' to consider
  MaxPosts,       \* bound: requests ever begun
  MaxUpsets       \* bound: failures, and times that every thread turns a day old

ASSUME RelayStoreAssumption ==
  /\ SerialModes \subseteq BOOLEAN
  /\ {MaxPosts, MaxUpsets} \subseteq Nat

VARIABLES
  serial,       \* does one transaction end before the next begins?  (fixed)
  threads,      \* the committed threads, by id
  messages,     \* the committed messages
  nextThread, nextSeq,    \* the sequences
  clock,        \* the time: transactions begun
  dayAgo,       \* what was 24 hours ago
  req,          \* the requests
  told,         \* <<seq, peer>> of every push emitted
  cursor,       \* cursor[p]: by thread, the last seq that p has fetched
  got,          \* got[p]: the seqs that p has fetched
  upsets

dbVars == <<threads, messages>>
seqVars == <<nextThread, nextSeq>>
clientVars == <<cursor, got>>
vars == <<serial, dbVars, seqVars, clock, dayAgo, req, told, clientVars, upsets>>

ThreadId == 1..MaxPosts      \* a request creates one thread at most
None == 0

Idle == [pc |-> "idle", from |-> None, to |-> None, thread |-> None, force |-> FALSE,
         at |-> None, dayAgo |-> None, creates |-> FALSE, seq |-> None, last |-> None]

Of(t) == {m \in messages : m.thread = t}
Larger(a, b) == IF a > b THEN a ELSE b

Upset == upsets < MaxUpsets /\ upsets' = upsets + 1

Init ==
  /\ serial \in SerialModes
  /\ threads = [t \in {} |-> None]
  /\ messages = {}
  /\ nextThread = 0 /\ nextSeq = 0
  /\ clock = 0 /\ dayAgo = 0
  /\ req = [x \in Request |-> Idle]
  /\ told = {}
  /\ cursor = [p \in Peer |-> [t \in ThreadId |-> 0]]
  /\ got = [p \in Peer |-> {}]
  /\ upsets = 0

-----------------------------------------------------------------------------
(***************************************************************************)
(* POST /messages                                                          *)
(***************************************************************************)
Goes(x, from, new) ==
  /\ req[x].pc = from
  /\ req' = [req EXCEPT ![x] = new]

At(x, pc) == [req[x] EXCEPT !.pc = pc]

(* BEGIN, of a request by p to a thread or to a peer (the other is None). *)
Begin(x, p, thread, to, force) ==
  /\ serial => \A y \in Request : req[y].pc \in {"idle", "push"}
  /\ clock < MaxPosts
  /\ thread # None <=> to = None
  /\ force => to # None
  /\ clock' = clock + 1
  /\ Goes(x, "idle", [Idle EXCEPT !.pc = "find", !.from = p, !.to = to, !.thread = thread,
                                  !.force = force, !.at = clock + 1, !.dayAgo = dayAgo])
  /\ UNCHANGED <<serial, dbVars, seqVars, dayAgo, told, clientVars, upsets>>

(* Mutant of Active: an off-by-one in the age. *)
ActiveRecently(p, q, since) ==
  {t \in DOMAIN threads : threads[t].between = {p, q} /\ threads[t].last > since + 1}

(* findActiveThread: the most recent thread of just these two with a       *)
(* message in the last 24 hours.                                           *)
Active(p, q, since) ==
  {t \in DOMAIN threads : threads[t].between = {p, q} /\ threads[t].last > since}

MostRecent(ts) == {t \in ts : \A u \in ts : threads[u].last <= threads[t].last}

Refused(r) ==
  IF r.to = None THEN r.from \notin threads[r.thread].between ELSE r.to = r.from

Candidates(r) == IF r.force THEN {} ELSE Active(r.from, r.to, r.dayAgo)

Resolve(x) ==
  LET r == req[x] IN
  /\ r.pc = "find"
  /\ \/ Refused(r) /\ Goes(x, "find", Idle)
     \/ ~Refused(r) /\ r.to = None /\ Goes(x, "find", At(x, "insert"))
     \/ ~Refused(r) /\ r.to # None /\ \E t \in MostRecent(Candidates(r)) :
          Goes(x, "find", [At(x, "insert") EXCEPT !.thread = t])
     \/ ~Refused(r) /\ r.to # None /\ Candidates(r) = {} /\ Goes(x, "find", At(x, "create"))
  /\ UNCHANGED <<serial, dbVars, seqVars, clock, dayAgo, told, clientVars, upsets>>

NewThread(r) == [between |-> {r.from, r.to}, forced |-> r.force, last |-> r.at]

(* Mutant of Create: the thread is created outside the transaction. *)
CreateCommitted(x) ==
  /\ nextThread' = nextThread + 1
  /\ Goes(x, "create", [At(x, "insert") EXCEPT !.thread = nextThread + 1])
  /\ threads' = [t \in DOMAIN threads \union {nextThread + 1} |->
                   IF t \in DOMAIN threads THEN threads[t] ELSE NewThread(req[x])]
  /\ UNCHANGED <<serial, messages, nextSeq, clock, dayAgo, told, clientVars, upsets>>

(* createThread *)
Create(x) ==
  /\ nextThread' = nextThread + 1
  /\ Goes(x, "create", [At(x, "insert") EXCEPT !.thread = nextThread + 1, !.creates = TRUE])
  /\ UNCHANGED <<serial, dbVars, nextSeq, clock, dayAgo, told, clientVars, upsets>>

(* Mutant of Insert: the next seq is counted from what is committed. *)
InsertAfterLast(x) ==
  /\ nextSeq' = Cardinality(messages) + 1
  /\ Goes(x, "insert", [At(x, "touch") EXCEPT !.seq = Cardinality(messages) + 1])
  /\ UNCHANGED <<serial, dbVars, nextThread, clock, dayAgo, told, clientVars, upsets>>

(* insertMessage: INSERT takes the seq ... *)
Insert(x) ==
  /\ nextSeq' = nextSeq + 1
  /\ Goes(x, "insert", [At(x, "touch") EXCEPT !.seq = nextSeq + 1])
  /\ UNCHANGED <<serial, dbVars, nextThread, clock, dayAgo, told, clientVars, upsets>>

(* ... and UPDATE takes the lock on the thread's row until the transaction *)
(* ends, and reads the row as it is by then.                               *)
Locked(t) == \E y \in Request : req[y].pc = "commit" /\ req[y].thread = t

(* Mutant of LastAfter: the plain assignment. *)
LastAfterOverwrites(r) == r.at

LastAfter(r) == IF r.creates THEN r.at ELSE Larger(threads[r.thread].last, r.at)

Touch(x) ==
  /\ req[x].pc = "touch"
  /\ ~Locked(req[x].thread)
  /\ Goes(x, "touch", [At(x, "commit") EXCEPT !.last = LastAfter(req[x])])
  /\ UNCHANGED <<serial, dbVars, seqVars, clock, dayAgo, told, clientVars, upsets>>

Commit(x) ==
  LET r == req[x] IN
  /\ Goes(x, "commit", At(x, "push"))
  /\ messages' = messages \union
       {[seq |-> r.seq, thread |-> r.thread, from |-> r.from, at |-> r.at]}
  /\ threads' = IF r.creates
       THEN [t \in DOMAIN threads \union {r.thread} |->
               IF t = r.thread THEN NewThread(r) ELSE threads[t]]
       ELSE [threads EXCEPT ![r.thread].last = r.last]
  /\ UNCHANGED <<serial, seqVars, clock, dayAgo, told, clientVars, upsets>>

Recipients(r) == threads[r.thread].between \ {r.from}

(* The broadcast to the other participants. *)
Push(x) ==
  /\ Goes(x, "push", Idle)
  /\ told' = told \union {<<req[x].seq, p>> : p \in Recipients(req[x])}
  /\ UNCHANGED <<serial, dbVars, seqVars, clock, dayAgo, clientVars, upsets>>

(* A statement, the relay or the broadcast fails.  What the transaction    *)
(* wrote is gone; what it took from the sequences is not given back.       *)
Abort(x) ==
  /\ Upset
  /\ req[x].pc # "idle"
  /\ req' = [req EXCEPT ![x] = Idle]
  /\ UNCHANGED <<serial, dbVars, seqVars, clock, dayAgo, told, clientVars>>

-----------------------------------------------------------------------------
(* Mutant of Above: an off-by-one. *)
AboveNext(t, s) == {m \in Of(t) : m.seq > s + 1}

(* listMessages *)
Above(t, s) == {m \in Of(t) : m.seq > s}

(* GET /messages: a participant asks for what lies above its cursor, and   *)
(* moves the cursor to the last message of the answer.                     *)
Fetch(p, t) ==
  /\ t \in DOMAIN threads
  /\ p \in threads[t].between
  /\ \E last \in Above(t, cursor[p][t]) :
       /\ \A m \in Above(t, cursor[p][t]) : m.seq <= last.seq
       /\ cursor' = [cursor EXCEPT ![p][t] = last.seq]
  /\ got' = [got EXCEPT ![p] = @ \union {m.seq : m \in Above(t, cursor[p][t])}]
  /\ UNCHANGED <<serial, dbVars, seqVars, clock, dayAgo, req, told, upsets>>

(* A day without messages goes by. *)
DayPasses ==
  /\ Upset
  /\ dayAgo' = clock
  /\ UNCHANGED <<serial, dbVars, seqVars, clock, req, told, clientVars>>

-----------------------------------------------------------------------------
Next ==
  \/ \E x \in Request :
       \/ \E p \in Peer, t \in DOMAIN threads : Begin(x, p, t, None, FALSE)
       \/ \E p, q \in Peer, force \in BOOLEAN : Begin(x, p, None, q, force)
       \/ Resolve(x) \/ Create(x) \/ Insert(x) \/ Touch(x) \/ Commit(x) \/ Push(x)
       \/ Abort(x)
  \/ \E p \in Peer, t \in ThreadId : Fetch(p, t)
  \/ DayPasses

Spec == Init /\ [][Next]_vars

-----------------------------------------------------------------------------
Pcs == {"idle", "find", "create", "insert", "touch", "commit", "push"}

(* Every variable has its type, no two messages have the same seq, and     *)
(* only a committed message is pushed.                                     *)
TypeOK ==
  /\ serial \in BOOLEAN
  /\ DOMAIN threads \subseteq 1..nextThread
  /\ \A t \in DOMAIN threads :
       /\ threads[t].between \subseteq Peer
       /\ threads[t].last \in 1..clock
  /\ messages \subseteq [seq : 1..nextSeq, thread : DOMAIN threads, from : Peer, at : 1..clock]
  /\ \A m, n \in messages : m.seq = n.seq => m = n
  /\ nextThread \in 0..MaxPosts /\ nextSeq \in 0..MaxPosts
  /\ clock \in 0..MaxPosts /\ dayAgo \in 0..clock
  /\ \A x \in Request : req[x].pc \in Pcs
  /\ told \subseteq {<<m.seq, p>> : m \in messages, p \in Peer}
  /\ cursor \in [Peer -> [ThreadId -> 0..nextSeq]]
  /\ got \in [Peer -> SUBSET (1..nextSeq)]
  /\ upsets \in 0..MaxUpsets

(* Every thread anyone can see has two participants and a message: it is   *)
(* created in one transaction with its first message.                      *)
ThreadsWhole ==
  \A t \in DOMAIN threads : Cardinality(threads[t].between) = 2 /\ Of(t) # {}

(* A thread is listed at the time of its latest message, in whatever order *)
(* the transactions that wrote to it began and committed.                  *)
LastMessageIsLatest ==
  \A t \in DOMAIN threads :
    /\ \A m \in Of(t) : m.at <= threads[t].last
    /\ \E m \in Of(t) : m.at = threads[t].last

(* A client that follows a thread with sinceSeq misses nothing below its   *)
(* cursor.                                                                 *)
SinceComplete ==
  \A p \in Peer : \A t \in DOMAIN threads : p \in threads[t].between =>
    \A m \in Of(t) : m.seq <= cursor[p][t] => m.seq \in got[p]

(* ... which holds when transactions do not overlap. *)
SinceCompleteIfSerial == serial => SinceComplete

(* A message to a peer opens a second thread between the two only when it  *)
(* is asked to or when the threads they have are a day old -- when         *)
(* transactions do not overlap.                                            *)
OneActiveThread ==
  [][serial => \A t \in DOMAIN threads' \ DOMAIN threads :
       \/ threads'[t].forced
       \/ \A u \in DOMAIN threads :
            threads[u].between = threads'[t].between => threads[u].last <= dayAgo]_vars

=============================================================================
