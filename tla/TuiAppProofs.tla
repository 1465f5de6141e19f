---------------------------- MODULE TuiAppProofs ----------------------------
(***************************************************************************)
(* Proofs about TuiApp, for any peers, any bounds on what is posted, sent, *)
(* failed and under way, and answers in any order: no message is shown     *)
(* that does not exist, nor twice; and when answers come in order, the     *)
(* open thread ends up complete.                                           *)
(*                                                                         *)
(* The provers have no induction over data; what Kept does is proved by    *)
(* induction on a set of numbers, which needs no operator as a parameter.  *)
(***************************************************************************)
EXTENDS TuiApp, WellFoundedInduction, SequenceTheorems, TLAPS

USE TuiAppAssumption

-----------------------------------------------------------------------------
(* Induction on a set of numbers. *)

LEMMA LeastNumber ==
  ASSUME NEW T, T \subseteq Nat, T # {}
  PROVE  \E x \in T : \A y \in T : x <= y
<1> DEFINE R == {ss \in Nat \X Nat : ss[1] < ss[2]}
<1>1. IsWellFoundedOn(R, Nat)
  BY NatLessThanWellFounded DEF OpToRel
<1>2. \A x, y \in Nat : <<y, x>> \in R <=> y < x
  OBVIOUS
<1> HIDE DEF R
<1>3. PICK x \in T : \A y \in T : ~(<<y, x>> \in R)
  BY <1>1, WFMin
<1>4. \A y \in T : y \in Nat /\ x \in Nat /\ ~(y < x)
  BY <1>2, <1>3
<1> QED
  BY <1>4

LEMMA InductionOnSet ==
  ASSUME NEW S, 0 \in S, \A n \in Nat : n \in S => n + 1 \in S
  PROVE  Nat \subseteq S
<1> SUFFICES ASSUME Nat \ S # {} PROVE FALSE
  OBVIOUS
<1>1. PICK x \in Nat \ S : \A y \in Nat \ S : x <= y
  BY LeastNumber
<1>2. x # 0 /\ x - 1 \in Nat /\ x - 1 \notin Nat \ S
  BY <1>1
<1>3. (x - 1) + 1 = x
  BY <1>2
<1> QED
  BY <1>1, <1>2, <1>3

-----------------------------------------------------------------------------
(* What Kept returns. *)

KeptUpTo(s, at, f, n) ==
  f = [k \in 0..n |-> IF k = 0 THEN <<>>
                      ELSE IF k \in at THEN Append(f[k - 1], s[k]) ELSE f[k - 1]]

LEMMA KeptUpToStep ==
  ASSUME NEW s, NEW at, NEW f, NEW n \in Nat, KeptUpTo(s, at, f, n)
  PROVE  \A k \in 0..n : f[k] = IF k = 0 THEN <<>>
                                ELSE IF k \in at THEN Append(f[k - 1], s[k]) ELSE f[k - 1]
<1> DEFINE E(k) == IF k = 0 THEN <<>>
                   ELSE IF k \in at THEN Append(f[k - 1], s[k]) ELSE f[k - 1]
<1>1. f = [k \in 0..n |-> E(k)]
  BY DEF KeptUpTo
<1>2. \A k \in 0..n : f[k] = E(k)
  <2> HIDE DEF E
  <2> QED
    BY <1>1
<1> QED
  BY <1>2

(* The recursive function exists. *)
LEMMA KeptExists ==
  ASSUME NEW s, NEW at
  PROVE  \A n \in Nat : \E f : KeptUpTo(s, at, f, n)
<1> DEFINE S == {n \in Nat : \E f : KeptUpTo(s, at, f, n)}
<1>1. 0 \in S
  <2> DEFINE f == [k \in 0..0 |-> <<>>]
  <2>1. KeptUpTo(s, at, f, 0)
    BY DEF KeptUpTo
  <2> QED
    BY <2>1
<1>2. ASSUME NEW n \in Nat, n \in S PROVE n + 1 \in S
  <2>1. PICK f : KeptUpTo(s, at, f, n)
    BY <1>2
  <2> DEFINE g == [k \in 0..(n + 1) |->
                     IF k <= n THEN f[k]
                     ELSE IF n + 1 \in at THEN Append(f[n], s[n + 1]) ELSE f[n]]
  <2> DEFINE h == [k \in 0..(n + 1) |-> IF k = 0 THEN <<>>
                     ELSE IF k \in at THEN Append(g[k - 1], s[k]) ELSE g[k - 1]]
  <2>2. ASSUME NEW k \in 0..(n + 1) PROVE g[k] = h[k]
    <3>1. CASE k = 0
      BY <2>1, <3>1, KeptUpToStep
    <3>2. CASE k \in 1..n
      <4>1. f[k] = IF k \in at THEN Append(f[k - 1], s[k]) ELSE f[k - 1]
        BY <2>1, <3>2, KeptUpToStep
      <4>2. g[k] = f[k] /\ g[k - 1] = f[k - 1]
        BY <3>2
      <4> QED
        BY <3>2, <4>1, <4>2
    <3>3. CASE k = n + 1
      <4>1. g[k - 1] = f[n] /\ k - 1 = n
        BY <3>3
      <4> QED
        BY <3>3, <4>1
    <3> QED
      BY <3>1, <3>2, <3>3
  <2>3. g = h
    BY <2>2
  <2>4. KeptUpTo(s, at, g, n + 1)
    BY <2>3 DEF KeptUpTo
  <2> QED
    BY <2>4
<1>3. Nat \subseteq S
  <2> HIDE DEF S
  <2> QED
    BY <1>1, <1>2, InductionOnSet
<1> QED
  BY <1>3

(* Kept by its steps. *)
LEMMA KeptSteps ==
  ASSUME NEW s, NEW at, Len(s) \in Nat
  PROVE  \E f : /\ Kept(s, at) = f[Len(s)]
                /\ f[0] = <<>>
                /\ \A k \in 1..Len(s) :
                     f[k] = IF k \in at THEN Append(f[k - 1], s[k]) ELSE f[k - 1]
<1>1. \E f : KeptUpTo(s, at, f, Len(s))
  BY KeptExists
<1>2. PICK f : KeptUpTo(s, at, f, Len(s)) /\ Kept(s, at) = f[Len(s)]
  BY <1>1 DEF Kept, KeptUpTo
<1> QED
  BY <1>2, KeptUpToStep

(* Each entry of Kept(s, at) comes from a position of s in `at', and two   *)
(* of them from different positions, in order.                             *)
LEMMA KeptFrom ==
  ASSUME NEW S, NEW s \in Seq(S), NEW at
  PROVE  /\ Kept(s, at) \in Seq(S)
         /\ \A i \in 1..Len(Kept(s, at)) :
              \E a \in 1..Len(s) : a \in at /\ Kept(s, at)[i] = s[a]
         /\ \A i, j \in 1..Len(Kept(s, at)) : i < j =>
              \E a, b \in 1..Len(s) :
                a < b /\ Kept(s, at)[i] = s[a] /\ Kept(s, at)[j] = s[b]
<1>1. Len(s) \in Nat
  OBVIOUS
<1>2. PICK f : /\ Kept(s, at) = f[Len(s)]
               /\ f[0] = <<>>
               /\ \A k \in 1..Len(s) :
                    f[k] = IF k \in at THEN Append(f[k - 1], s[k]) ELSE f[k - 1]
  BY <1>1, KeptSteps
<1> DEFINE Good(n) ==
      /\ f[n] \in Seq(S)
      /\ \A i \in 1..Len(f[n]) : \E a \in 1..n : a \in at /\ f[n][i] = s[a]
      /\ \A i, j \in 1..Len(f[n]) : i < j =>
           \E a, b \in 1..n : a < b /\ f[n][i] = s[a] /\ f[n][j] = s[b]
<1> DEFINE T == {n \in Nat : n <= Len(s) => Good(n)}
<1>3. 0 \in T
  <2>1. f[0] = <<>> /\ <<>> \in Seq(S) /\ Len(<<>>) = 0 /\ 1..0 = {}
    BY <1>2, EmptySeq
  <2>2. Good(0)
    BY <2>1
  <2> QED
    BY <2>2
<1>4. ASSUME NEW n \in Nat, n \in T PROVE n + 1 \in T
  <2> SUFFICES ASSUME n + 1 <= Len(s) PROVE Good(n + 1)
    OBVIOUS
  <2>1. Good(n)
    BY <1>1, <1>4
  <2>2. f[n + 1] = IF n + 1 \in at THEN Append(f[n], s[n + 1]) ELSE f[n]
    <3>1. n + 1 \in 1..Len(s) /\ (n + 1) - 1 = n
      BY <1>1
    <3> QED
      BY <1>2, <3>1
  <2>3. CASE n + 1 \notin at
    <3>1. f[n + 1] = f[n]
      BY <2>2, <2>3
    <3>2. \A a \in 1..n : a \in 1..(n + 1)
      OBVIOUS
    <3> QED
      BY <2>1, <3>1, <3>2
  <2>4. CASE n + 1 \in at
    <3> DEFINE o == f[n]
               u == f[n + 1]
    <3>1. u = Append(o, s[n + 1]) /\ o \in Seq(S) /\ s[n + 1] \in S
      BY <1>1, <2>1, <2>2, <2>4
    <3>2. /\ u \in Seq(S) /\ Len(o) \in Nat /\ Len(u) = Len(o) + 1
          /\ \A i \in 1..Len(o) : u[i] = o[i]
          /\ u[Len(o) + 1] = s[n + 1]
      <4> HIDE DEF o, u
      <4> QED
        BY <3>1
    <3>3. \A i \in 1..Len(o) : \E a \in 1..n : a \in at /\ o[i] = s[a]
      BY <2>1
    <3>4. \A i, j \in 1..Len(o) : i < j =>
            \E a, b \in 1..n : a < b /\ o[i] = s[a] /\ o[j] = s[b]
      BY <2>1
    <3> HIDE DEF o, u
    <3>5. ASSUME NEW i \in 1..Len(u) PROVE \E a \in 1..(n + 1) : a \in at /\ u[i] = s[a]
      <4>1. CASE i \in 1..Len(o)
        BY <3>2, <3>3, <4>1
      <4>2. CASE i = Len(o) + 1
        <5>1. n + 1 \in 1..(n + 1) /\ n + 1 \in at /\ u[i] = s[n + 1]
          BY <2>4, <3>2, <4>2
        <5> QED
          BY <5>1
      <4> QED
        BY <3>2, <4>1, <4>2
    <3>6. ASSUME NEW i \in 1..Len(u), NEW j \in 1..Len(u), i < j
          PROVE  \E a, b \in 1..(n + 1) : a < b /\ u[i] = s[a] /\ u[j] = s[b]
      <4>1. CASE j \in 1..Len(o)
        <5>1. i \in 1..Len(o) /\ u[i] = o[i] /\ u[j] = o[j]
          BY <3>2, <3>6, <4>1
        <5>2. PICK a \in 1..n, b \in 1..n : a < b /\ o[i] = s[a] /\ o[j] = s[b]
          BY <3>4, <3>6, <4>1, <5>1
        <5>3. a \in 1..(n + 1) /\ b \in 1..(n + 1)
          OBVIOUS
        <5> QED
          BY <5>1, <5>2, <5>3
      <4>2. CASE j = Len(o) + 1
        <5>1. i \in 1..Len(o) /\ u[i] = o[i] /\ u[j] = s[n + 1]
          BY <3>2, <3>6, <4>2
        <5>2. PICK a \in 1..n : o[i] = s[a]
          BY <3>3, <5>1
        <5>3. a < n + 1 /\ a \in 1..(n + 1) /\ n + 1 \in 1..(n + 1)
          OBVIOUS
        <5> QED
          BY <5>1, <5>2, <5>3
      <4> QED
        BY <3>2, <4>1, <4>2
    <3> QED
      BY <3>2, <3>5, <3>6 DEF o, u
  <2> QED
    BY <2>3, <2>4
<1>5. Nat \subseteq T
  <2> HIDE DEF T
  <2> QED
    BY <1>3, <1>4, InductionOnSet
<1>6. Good(Len(s))
  <2> HIDE DEF Good
  <2> QED
    BY <1>1, <1>5
<1> QED
  BY <1>2, <1>6

(* Kept looks at the sequence only up to its end. *)
LEMMA KeptAppend ==
  ASSUME NEW S, NEW s \in Seq(S), NEW m \in S, NEW at, NEW more,
         \A k \in 1..Len(s) : k \in at <=> k \in more,
         Len(s) + 1 \notin more
  PROVE  Kept(Append(s, m), more) = Kept(s, at)
<1> DEFINE t == Append(s, m)
<1>1. Len(s) \in Nat /\ Len(t) = Len(s) + 1 /\ \A k \in 1..Len(s) : t[k] = s[k]
  OBVIOUS
<1> HIDE DEF t
<1>2. PICK f : /\ Kept(s, at) = f[Len(s)]
               /\ f[0] = <<>>
               /\ \A k \in 1..Len(s) :
                    f[k] = IF k \in at THEN Append(f[k - 1], s[k]) ELSE f[k - 1]
  BY <1>1, KeptSteps
<1>3. PICK g : /\ Kept(t, more) = g[Len(t)]
               /\ g[0] = <<>>
               /\ \A k \in 1..Len(t) :
                    g[k] = IF k \in more THEN Append(g[k - 1], t[k]) ELSE g[k - 1]
  BY <1>1, KeptSteps
<1> DEFINE T == {n \in Nat : n <= Len(s) => f[n] = g[n]}
<1>4. 0 \in T
  BY <1>2, <1>3
<1>5. ASSUME NEW n \in Nat, n \in T PROVE n + 1 \in T
  <2> SUFFICES ASSUME n + 1 <= Len(s) PROVE f[n + 1] = g[n + 1]
    OBVIOUS
  <2>1. f[n] = g[n]
    BY <1>1, <1>5
  <2>2. n + 1 \in 1..Len(s) /\ n + 1 \in 1..Len(t) /\ (n + 1) - 1 = n
    BY <1>1
  <2>3. f[n + 1] = IF n + 1 \in at THEN Append(f[n], s[n + 1]) ELSE f[n]
    BY <1>2, <2>2
  <2>4. g[n + 1] = IF n + 1 \in more THEN Append(g[n], t[n + 1]) ELSE g[n]
    BY <1>3, <2>2
  <2> QED
    BY <1>1, <2>1, <2>2, <2>3, <2>4
<1>6. Nat \subseteq T
  <2> HIDE DEF T
  <2> QED
    BY <1>4, <1>5, InductionOnSet
<1>7. f[Len(s)] = g[Len(s)]
  BY <1>1, <1>6
<1>8. g[Len(t)] = g[Len(s)]
  <2>1. Len(s) + 1 \in 1..Len(t) /\ (Len(s) + 1) - 1 = Len(s)
    BY <1>1
  <2>2. g[Len(s) + 1] = g[Len(s)]
    BY <1>3, <2>1
  <2> QED
    BY <1>1, <2>2
<1> QED
  BY <1>2, <1>3, <1>7, <1>8 DEF t

-----------------------------------------------------------------------------
(* What RemoveAt returns. *)
LEMMA Removed ==
  ASSUME NEW S, NEW s \in Seq(S), NEW i \in 1..Len(s)
  PROVE  /\ RemoveAt(s, i) \in Seq(S)
         /\ Len(RemoveAt(s, i)) = Len(s) - 1
         /\ \A k \in 1..(Len(s) - 1) : RemoveAt(s, i)[k] = s[IF k < i THEN k ELSE k + 1]
<1> DEFINE a == SubSeq(s, 1, i - 1)
           b == SubSeq(s, i + 1, Len(s))
<1>1. Len(s) \in Nat /\ i \in Nat /\ i > 0 /\ i <= Len(s)
  OBVIOUS
<1>2. a \in Seq(S) /\ Len(a) = i - 1 /\ \A k \in 1..(i - 1) : a[k] = s[k]
  BY <1>1
<1>3. b \in Seq(S) /\ Len(b) = Len(s) - i /\ \A k \in 1..(Len(s) - i) : b[k] = s[i + k]
  BY <1>1
<1> HIDE DEF a, b
<1>4. RemoveAt(s, i) = a \o b
  BY DEF RemoveAt, a, b
<1>5. /\ a \o b \in Seq(S)
      /\ Len(a \o b) = Len(s) - 1
  <2>1. a \o b \in Seq(S) /\ Len(a \o b) = Len(a) + Len(b)
    BY <1>2, <1>3, ConcatProperties
  <2>2. (i - 1) + (Len(s) - i) = Len(s) - 1
    BY <1>1
  <2> QED
    BY <1>2, <1>3, <2>1, <2>2
<1>6. ASSUME NEW k \in 1..(Len(s) - 1) PROVE (a \o b)[k] = s[IF k < i THEN k ELSE k + 1]
  <2>1. (a \o b)[k] = IF k <= i - 1 THEN a[k] ELSE b[k - (i - 1)]
    BY <1>1, <1>2, <1>3, ConcatProperties
  <2>2. CASE k < i
    BY <1>1, <1>2, <2>1, <2>2
  <2>3. CASE ~(k < i)
    <3>1. k - (i - 1) \in 1..(Len(s) - i) /\ i + (k - (i - 1)) = k + 1
      BY <1>1, <2>3
    <3> QED
      BY <1>1, <1>3, <2>1, <2>3, <3>1
  <2> QED
    BY <2>2, <2>3
<1> QED
  BY <1>4, <1>5, <1>6

-----------------------------------------------------------------------------
(* The invariant. *)

Author == Peer \union {"me"}
Msg == [by : Author, n : Nat, local : BOOLEAN]

Answers == {"messages", "ack", "acked", "news", "send", "first", "fetched"}

CallRec == [op : Answers, peer : Peer \union {None}, n : Nat, first : BOOLEAN,
            at : {"asked", "served", "failed", "lost"},
            messages : Seq(Msg), threads : SUBSET Peer]

AppTypes ==
  /\ scenario \in Scenarios
  /\ log \in [Peer -> Seq(Msg)]
  /\ listening \in BOOLEAN /\ known \subseteq Peer /\ threads \subseteq Peer
  /\ news \in Nat /\ exited \in BOOLEAN
  /\ calls \in Seq(CallRec)
  /\ view.kind \in {"list", "thread", "newThread"}
  /\ view.kind # "list" => view.peer \in Peer
  /\ messages \in Seq(Msg)
  /\ posts \in Nat /\ sends \in Nat /\ faults \in Nat

Same(m, o) == m.by = o.by /\ m.n = o.n

(* No message of s stands in it twice. *)
Once(s) == \A i, j \in 1..Len(s) : Same(s[i], s[j]) => i = j

(* A message as the relay has it. *)
Copy(m) == Message(m.by, m.n, FALSE)

(* Everything the relay has is there once, in the thread it belongs to. *)
LogOK(lg, sent, posted) ==
  \A p \in Peer : \A i \in 1..Len(lg[p]) :
    /\ ~lg[p][i].local
    /\ lg[p][i].by \in {p, "me"}
    /\ lg[p][i].n <= (IF lg[p][i].by = "me" THEN sent ELSE posted)
    /\ \A q \in Peer : \A j \in 1..Len(lg[q]) :
         Same(lg[p][i], lg[q][j]) => p = q /\ i = j

(* What a call that sends a message knows of it, and what one that fetches *)
(* messages has read, when the relay has those in `relay'.                 *)
CallOK(c, relay, sent) ==
  /\ c.op # "news" => c.peer \in Peer
  /\ c.n > 0 <=> c.op \in {"send", "first", "fetched"}
  /\ c.n <= sent
  /\ Sends(c) /\ c.at = "asked" => Message("me", c.n, FALSE) \notin relay
  /\ Sends(c) /\ c.at = "served" => Message("me", c.n, FALSE) \in relay
  /\ c.op = "fetched" => Message("me", c.n, FALSE) \in relay
  /\ Once(c.messages)
  /\ \A k \in 1..Len(c.messages) : c.messages[k] \in relay

(* Moreover a message is sent by one call. *)
CallsOK(cs, relay, sent) ==
  /\ cs \in Seq(CallRec)
  /\ \A i \in 1..Len(cs) : CallOK(cs[i], relay, sent)
  /\ \A i, j \in 1..Len(cs) : cs[i].n = cs[j].n /\ cs[i].n > 0 => i = j

SendsMsg(cs, n) == n > 0 /\ \E j \in 1..Len(cs) : cs[j].n = n

(* NoGhosts, and that only one's own messages are shown before they are    *)
(* posted.                                                                 *)
ShownOK(ms, cs, relay) ==
  /\ Once(ms)
  /\ \A k \in 1..Len(ms) :
       /\ ms[k].local => ms[k].by = "me"
       /\ \/ Copy(ms[k]) \in relay
          \/ ms[k].local /\ SendsMsg(cs, ms[k].n)

GhostInv ==
  /\ AppTypes
  /\ LogOK(log, sends, posts)
  /\ CallsOK(calls, Posted, sends)
  /\ ~exited => ShownOK(messages, calls, Posted)
  /\ \A k \in 1..Len(messages) : messages[k].by = "me" => messages[k].n <= sends

(* A call whose answer is a list of threads. *)
Lists(c) == c.op \in {"acked", "news", "fetched"}

(* The list once the first call has been answered, if that is a list. *)
Heard(cs, list) ==
  IF Len(cs) > 0 /\ Lists(cs[1]) /\ cs[1].at = "served" THEN cs[1].threads ELSE list

ListComes(cs) == \E j \in 1..Len(cs) : Lists(cs[j]) /\ cs[j].at = "asked"

NewsComes(cs) == \E j \in 1..Len(cs) : cs[j].op = "news"

(* Call j is the last that fetches messages. *)
LastFetch(cs, j) ==
  /\ cs[j].op = "messages"
  /\ \A k \in 1..Len(cs) : k > j => cs[k].op # "messages"

(* What the last fetch brings, or has brought, is thread p. *)
FetchIsOf(cs, p, shown, thread) ==
  /\ \A j \in 1..Len(cs) : LastFetch(cs, j) =>
       /\ cs[j].peer = p
       /\ cs[j].at = "served" => FromPeers(cs[j].messages) = FromPeers(thread)
  /\ (\A j \in 1..Len(cs) : cs[j].op # "messages") => FromPeers(shown) = FromPeers(thread)

Orderly == scenario.inOrder /\ scenario.faults = 0

(* Only the first call is ever served. *)
InTurn(cs) == \A i \in 1..Len(cs) : cs[i].at = "asked" \/ (i = 1 /\ cs[i].at = "served")

OrderInv == Orderly =>
  /\ listening /\ ~exited
  /\ InTurn(calls)
  /\ news > 0 \/ ListComes(calls) \/ Heard(calls, threads) = known
  /\ view.kind = "thread" =>
       news > 0 \/ NewsComes(calls) \/ FetchIsOf(calls, view.peer, messages, log[view.peer])

-----------------------------------------------------------------------------
(* Records and sequences the steps make. *)

LEMMA CallTypes ==
  ASSUME NEW op \in Answers, NEW p \in Peer \union {None}, NEW n \in Nat, NEW b \in BOOLEAN
  PROVE  /\ Call(op, p, n, b) \in CallRec
         /\ Call(op, p, n, b).op = op /\ Call(op, p, n, b).peer = p
         /\ Call(op, p, n, b).n = n
         /\ Call(op, p, n, b).at = (IF listening THEN "asked" ELSE "failed")
         /\ Call(op, p, n, b).messages = <<>> /\ Call(op, p, n, b).threads = {}
  BY DEF Call, CallRec

LEMMA MessageTypes ==
  /\ \A b \in Author, n \in Nat, l \in BOOLEAN :
       /\ Message(b, n, l) \in Msg
       /\ Message(b, n, l).by = b /\ Message(b, n, l).n = n /\ Message(b, n, l).local = l
  /\ \A m \in Msg : /\ m.by \in Author /\ m.n \in Nat /\ m.local \in BOOLEAN
                    /\ m = Message(m.by, m.n, m.local)
                    /\ Copy(m) = [m EXCEPT !.local = FALSE]
<1>1. \A b \in Author, n \in Nat, l \in BOOLEAN :
       /\ Message(b, n, l) \in Msg
       /\ Message(b, n, l).by = b /\ Message(b, n, l).n = n /\ Message(b, n, l).local = l
  BY DEF Message, Msg
<1>2. ASSUME NEW m \in Msg
      PROVE  /\ m.by \in Author /\ m.n \in Nat /\ m.local \in BOOLEAN
             /\ m = Message(m.by, m.n, m.local)
  BY DEF Message, Msg
<1>3. ASSUME NEW m \in Msg PROVE Copy(m) = [m EXCEPT !.local = FALSE]
  <2> DEFINE e == [m EXCEPT !.local = FALSE]
  <2>1. e \in Msg /\ e.by = m.by /\ e.n = m.n /\ e.local = FALSE
    BY DEF Msg
  <2> HIDE DEF e
  <2>2. e = Message(e.by, e.n, e.local)
    BY <1>2, <2>1
  <2> QED
    BY <2>1, <2>2 DEF Copy, e
<1> QED
  BY <1>1, <1>2, <1>3

LEMMA NewMessage ==
  \A b \in Author, n \in Nat :
         /\ Message(b, n, FALSE) \in Msg /\ Message(b, n, TRUE) \in Msg
         /\ Message(b, n, FALSE).by = b /\ Message(b, n, TRUE).by = b
         /\ Message(b, n, FALSE).n = n /\ Message(b, n, TRUE).n = n
         /\ ~Message(b, n, FALSE).local /\ Message(b, n, TRUE).local
         /\ Copy(Message(b, n, TRUE)) = Message(b, n, FALSE)
  BY DEF Message, Msg, Copy

LEMMA OwnMessage ==
  ASSUME NEW n \in Nat
  PROVE  /\ Message("me", n, FALSE) \in Msg /\ Message("me", n, TRUE) \in Msg
         /\ Message("me", n, FALSE).by = "me" /\ Message("me", n, TRUE).by = "me"
         /\ Message("me", n, FALSE).n = n /\ Message("me", n, TRUE).n = n
         /\ ~Message("me", n, FALSE).local /\ Message("me", n, TRUE).local
  BY DEF Message, Msg, Author

(* Two more calls at the end of some. *)
LEMMA TwoMore ==
  ASSUME NEW S, NEW s \in Seq(S), NEW a \in S, NEW b \in S
  PROVE  /\ s \o <<a, b>> \in Seq(S)
         /\ Len(s \o <<a, b>>) = Len(s) + 2
         /\ \A k \in 1..Len(s) : (s \o <<a, b>>)[k] = s[k]
         /\ (s \o <<a, b>>)[Len(s) + 1] = a
         /\ (s \o <<a, b>>)[Len(s) + 2] = b
<1>1. <<a, b>> \in Seq(S) /\ Len(<<a, b>>) = 2 /\ <<a, b>>[1] = a /\ <<a, b>>[2] = b
  OBVIOUS
<1> DEFINE t == <<a, b>>
<1>2. /\ s \o t \in Seq(S) /\ Len(s \o t) = Len(s) + Len(t)
      /\ \A i \in 1..(Len(s) + Len(t)) :
           (s \o t)[i] = IF i <= Len(s) THEN s[i] ELSE t[i - Len(s)]
  BY <1>1, ConcatProperties
<1>3. Len(s) \in Nat
  OBVIOUS
<1> HIDE DEF t
<1>4. /\ Len(t) = 2 /\ t[1] = a /\ t[2] = b
      /\ (Len(s) + 1) - Len(s) = 1 /\ (Len(s) + 2) - Len(s) = 2
  BY <1>1, <1>3 DEF t
<1>5. /\ Len(s) + 1 \in 1..(Len(s) + Len(t)) /\ Len(s) + 2 \in 1..(Len(s) + Len(t))
      /\ \A k \in 1..Len(s) : k \in 1..(Len(s) + Len(t)) /\ k <= Len(s)
      /\ ~(Len(s) + 1 <= Len(s)) /\ ~(Len(s) + 2 <= Len(s))
  BY <1>3, <1>4
<1> QED
  BY <1>2, <1>4, <1>5 DEF t

LEMMA OneMore ==
  ASSUME NEW S, NEW s \in Seq(S), NEW a \in S
  PROVE  /\ Append(s, a) \in Seq(S) /\ Len(s) \in Nat
         /\ Len(Append(s, a)) = Len(s) + 1
         /\ \A k \in 1..Len(s) : Append(s, a)[k] = s[k]
         /\ Append(s, a)[Len(s) + 1] = a
  OBVIOUS

LEMMA TwoAppends ==
  ASSUME NEW S, NEW s \in Seq(S), NEW a \in S, NEW b \in S
  PROVE  s \o <<a, b>> = Append(Append(s, a), b)
<1> DEFINE all == s \o <<a, b>>
           one == Append(s, a)
<1>1. /\ all \in Seq(S) /\ Len(all) = Len(s) + 2
      /\ \A k \in 1..Len(s) : all[k] = s[k]
      /\ all[Len(s) + 1] = a /\ all[Len(s) + 2] = b
  BY TwoMore
<1>2. /\ one \in Seq(S) /\ Len(one) = Len(s) + 1 /\ Len(s) \in Nat
      /\ \A k \in 1..Len(s) : one[k] = s[k]
      /\ one[Len(s) + 1] = a
  BY OneMore
<1> HIDE DEF all, one
<1> DEFINE two == Append(one, b)
<1>3. /\ two \in Seq(S) /\ Len(two) = Len(one) + 1
      /\ \A k \in 1..Len(one) : two[k] = one[k]
      /\ two[Len(one) + 1] = b
  BY <1>2, OneMore
<1> HIDE DEF two
<1>4. Len(two) = Len(all) /\ (Len(s) + 1) + 1 = Len(s) + 2
  BY <1>1, <1>2, <1>3
<1>5. ASSUME NEW k \in 1..Len(all) PROVE all[k] = two[k]
  <2>1. k \in 1..Len(s) \/ k = Len(s) + 1 \/ k = Len(s) + 2
    BY <1>1, <1>2
  <2>2. \A l \in 1..Len(s) : l \in 1..Len(one)
    BY <1>2
  <2>3. Len(s) + 1 \in 1..Len(one)
    BY <1>2
  <2> QED
    BY <1>1, <1>2, <1>3, <1>4, <2>1, <2>2, <2>3
<1>6. all = two
  BY <1>1, <1>3, <1>4, <1>5, SeqEqual
<1> QED
  BY <1>6 DEF all, one, two

-----------------------------------------------------------------------------
(* Calls that leave and calls that are made. *)

LEMMA CallsWithout ==
  ASSUME NEW cs, NEW relay, NEW sent \in Nat, CallsOK(cs, relay, sent), NEW i \in 1..Len(cs)
  PROVE  LET rest == RemoveAt(cs, i)
         IN  /\ CallsOK(rest, relay, sent)
             /\ Len(rest) = Len(cs) - 1
             /\ \A k \in 1..Len(rest) : rest[k] = cs[IF k < i THEN k ELSE k + 1]
             /\ \A k \in 1..Len(rest) : rest[k].n = cs[i].n => cs[i].n = 0
             /\ \A n \in Nat : SendsMsg(cs, n) /\ n # cs[i].n => SendsMsg(rest, n)
<1> DEFINE rest == RemoveAt(cs, i)
           at(k) == IF k < i THEN k ELSE k + 1
<1>1. /\ cs \in Seq(CallRec) /\ Len(cs) \in Nat
      /\ \A k \in 1..Len(cs) : CallOK(cs[k], relay, sent) /\ cs[k] \in CallRec
      /\ \A k, l \in 1..Len(cs) : cs[k].n = cs[l].n /\ cs[k].n > 0 => k = l
  BY DEF CallsOK
<1>2. /\ rest \in Seq(CallRec) /\ Len(rest) = Len(cs) - 1
      /\ \A k \in 1..(Len(cs) - 1) : rest[k] = cs[at(k)]
  BY <1>1, Removed
<1> HIDE DEF rest
<1>3. \A k \in 1..Len(rest) : at(k) \in 1..Len(cs) /\ at(k) # i
  BY <1>1, <1>2
<1>4. \A k, l \in 1..Len(rest) : at(k) = at(l) => k = l
  BY <1>1, <1>2
<1>5. \A j \in 1..Len(cs) : j # i => \E k \in 1..Len(rest) : at(k) = j
  <2> TAKE j \in 1..Len(cs)
  <2> SUFFICES ASSUME j # i PROVE \E k \in 1..Len(rest) : at(k) = j
    OBVIOUS
  <2>1. CASE j < i
    <3>1. j \in 1..Len(rest) /\ at(j) = j
      BY <1>1, <1>2, <2>1
    <3> QED
      BY <3>1
  <2>2. CASE j > i
    <3>1. j - 1 \in 1..Len(rest) /\ at(j - 1) = j
      BY <1>1, <1>2, <2>2
    <3> QED
      BY <3>1
  <2> QED
    BY <1>1, <2>1, <2>2
<1> HIDE DEF at
<1>6. \A k \in 1..Len(rest) : rest[k] = cs[at(k)]
  BY <1>2
<1>7. CallsOK(rest, relay, sent)
  BY <1>1, <1>2, <1>3, <1>4, <1>6 DEF CallsOK
<1>8. ASSUME NEW k \in 1..Len(rest), rest[k].n = cs[i].n PROVE cs[i].n = 0
  <2>1. cs[i].n \in Nat
    BY <1>1 DEF CallRec
  <2>2. at(k) \in 1..Len(cs) /\ at(k) # i /\ cs[at(k)].n = cs[i].n
    BY <1>3, <1>6, <1>8
  <2>3. ~(cs[i].n > 0)
    BY <1>1, <2>2
  <2> QED
    BY <2>1, <2>3
<1>9. ASSUME NEW n \in Nat, SendsMsg(cs, n), n # cs[i].n PROVE SendsMsg(rest, n)
  <2>1. PICK j \in 1..Len(cs) : cs[j].n = n /\ n > 0
    BY <1>9 DEF SendsMsg
  <2>2. PICK k \in 1..Len(rest) : at(k) = j
    BY <1>5, <1>9, <2>1
  <2> QED
    BY <1>6, <2>1, <2>2 DEF SendsMsg
<1> QED
  BY <1>2, <1>7, <1>8, <1>9 DEF rest, at

LEMMA CallsWith ==
  ASSUME NEW cs, NEW relay, NEW sent \in Nat, CallsOK(cs, relay, sent),
         NEW c \in CallRec, CallOK(c, relay, sent),
         \A k \in 1..Len(cs) : cs[k].n = c.n => c.n = 0
  PROVE  /\ CallsOK(Append(cs, c), relay, sent)
         /\ \A n \in Nat : SendsMsg(cs, n) => SendsMsg(Append(cs, c), n)
         /\ c.n > 0 => SendsMsg(Append(cs, c), c.n)
<1> DEFINE all == Append(cs, c)
<1>1. /\ cs \in Seq(CallRec) /\ Len(cs) \in Nat
      /\ \A k \in 1..Len(cs) : CallOK(cs[k], relay, sent)
      /\ \A k, l \in 1..Len(cs) : cs[k].n = cs[l].n /\ cs[k].n > 0 => k = l
  BY DEF CallsOK
<1>2. /\ all \in Seq(CallRec) /\ Len(all) = Len(cs) + 1
      /\ \A k \in 1..Len(cs) : all[k] = cs[k]
      /\ all[Len(cs) + 1] = c
  BY <1>1, OneMore
<1> HIDE DEF all
<1>3. \A k \in 1..Len(all) : k \in 1..Len(cs) \/ k = Len(cs) + 1
  BY <1>1, <1>2
<1>4. c.n \in Nat
  BY DEF CallRec
<1>5. CallsOK(all, relay, sent)
  <2>1. \A k \in 1..Len(all) : CallOK(all[k], relay, sent)
    BY <1>1, <1>2, <1>3
  <2>2. ASSUME NEW k \in 1..Len(all), NEW l \in 1..Len(all), all[k].n = all[l].n, all[k].n > 0
        PROVE  k = l
    BY <1>1, <1>2, <1>3, <1>4, <2>2
  <2> QED
    BY <1>2, <2>1, <2>2 DEF CallsOK
<1>6. ASSUME NEW n \in Nat, SendsMsg(cs, n) PROVE SendsMsg(all, n)
  <2>1. PICK j \in 1..Len(cs) : cs[j].n = n /\ n > 0
    BY <1>6 DEF SendsMsg
  <2>2. j \in 1..Len(all) /\ all[j].n = n
    BY <1>1, <1>2, <2>1
  <2> QED
    BY <2>1, <2>2 DEF SendsMsg
<1>7. ASSUME c.n > 0 PROVE SendsMsg(all, c.n)
  <2>1. Len(cs) + 1 \in 1..Len(all)
    BY <1>1, <1>2
  <2> QED
    BY <1>2, <1>7, <2>1 DEF SendsMsg
<1> QED
  BY <1>5, <1>6, <1>7 DEF all

LEMMA NoCalls ==
  ASSUME NEW relay, NEW sent
  PROVE  CallsOK(<<>>, relay, sent)
  BY DEF CallsOK

(* A call that sends nothing and has read nothing is always in order. *)
LEMMA PlainCall ==
  ASSUME NEW op \in {"messages", "ack", "acked", "news"}, NEW p \in Peer \union {None},
         op # "news" => p \in Peer, NEW b \in BOOLEAN, NEW relay, NEW sent \in Nat
  PROVE  /\ Call(op, p, 0, b) \in CallRec /\ Call(op, p, 0, b).n = 0
         /\ CallOK(Call(op, p, 0, b), relay, sent)
<1> DEFINE c == Call(op, p, 0, b)
<1>1. /\ c \in CallRec /\ c.op = op /\ c.peer = p /\ c.n = 0 /\ c.messages = <<>>
  <2>1. op \in Answers /\ 0 \in Nat
    BY DEF Answers
  <2> QED
    BY <2>1, CallTypes
<1> HIDE DEF c
<1>2. 1..Len(c.messages) = {}
  BY <1>1
<1>3. c.op \notin {"send", "first", "fetched"} /\ ~(c.n > 0) /\ c.n <= sent
  BY <1>1
<1>4. Once(c.messages)
  BY <1>2 DEF Once
<1>5. CallOK(c, relay, sent)
  BY <1>1, <1>2, <1>3, <1>4 DEF CallOK, Sends
<1> QED
  BY <1>1, <1>5 DEF c

(* ShowThread's two calls. *)
LEMMA CallsShow ==
  ASSUME NEW cs, NEW relay, NEW sent \in Nat, CallsOK(cs, relay, sent),
         NEW p \in Peer, NEW b \in BOOLEAN
  PROVE  LET all == cs \o <<Call("messages", p, 0, b), Call("ack", p, 0, FALSE)>>
         IN  /\ CallsOK(all, relay, sent)
             /\ \A n \in Nat : SendsMsg(cs, n) => SendsMsg(all, n)
<1> DEFINE c == Call("messages", p, 0, b)
           d == Call("ack", p, 0, FALSE)
           one == Append(cs, c)
           all == cs \o <<c, d>>
<1>1. /\ c \in CallRec /\ d \in CallRec /\ c.n = 0 /\ d.n = 0
      /\ CallOK(c, relay, sent) /\ CallOK(d, relay, sent)
  BY PlainCall
<1> HIDE DEF c, d
<1>2. cs \in Seq(CallRec)
  BY DEF CallsOK
<1>3. all = Append(one, d)
  BY <1>1, <1>2, TwoAppends
<1>4. CallsOK(one, relay, sent) /\ \A n \in Nat : SendsMsg(cs, n) => SendsMsg(one, n)
  BY <1>1, CallsWith
<1> HIDE DEF one, all
<1>5. /\ CallsOK(Append(one, d), relay, sent)
      /\ \A n \in Nat : SendsMsg(one, n) => SendsMsg(Append(one, d), n)
  BY <1>1, <1>4, CallsWith
<1> QED
  BY <1>3, <1>4, <1>5 DEF all, c, d

(* The relay has more, or the user has sent more. *)
LEMMA CallsGrow ==
  ASSUME NEW cs, NEW relay, NEW sent \in Nat, CallsOK(cs, relay, sent),
         NEW more, relay \subseteq more, NEW later \in Nat, sent <= later,
         \A k \in 1..Len(cs) :
           Sends(cs[k]) /\ cs[k].at = "asked" => Message("me", cs[k].n, FALSE) \notin more
  PROVE  CallsOK(cs, more, later)
<1>1. ASSUME NEW k \in 1..Len(cs) PROVE CallOK(cs[k], more, later)
  <2>1. CallOK(cs[k], relay, sent) /\ cs[k] \in CallRec
    BY DEF CallsOK
  <2>2. cs[k].n \in Nat
    BY <2>1 DEF CallRec
  <2>3. Sends(cs[k]) /\ cs[k].at = "asked" => Message("me", cs[k].n, FALSE) \notin more
    OBVIOUS
  <2>4. cs[k].n <= later
    BY <2>1, <2>2 DEF CallOK
  <2> HIDE DEF CallOK
  <2> DEFINE c == cs[k]
  <2>5. CallOK(c, relay, sent)
    BY <2>1
  <2> HIDE DEF c
  <2>6. CallOK(c, more, later)
    BY <2>3, <2>4, <2>5 DEF CallOK, c
  <2> QED
    BY <2>6 DEF c
<1> QED
  BY <1>1 DEF CallsOK

LEMMA ShownGrows ==
  ASSUME NEW ms \in Seq(Msg), NEW cs, NEW relay, ShownOK(ms, cs, relay),
         NEW ds, NEW more, relay \subseteq more,
         \A n \in Nat : SendsMsg(cs, n) =>
           SendsMsg(ds, n) \/ Message("me", n, FALSE) \in more
  PROVE  ShownOK(ms, ds, more)
<1>1. ASSUME NEW k \in 1..Len(ms), ms[k].local, SendsMsg(cs, ms[k].n)
      PROVE  Copy(ms[k]) \in more \/ SendsMsg(ds, ms[k].n)
  <2>1. ms[k] \in Msg /\ ms[k].n \in Nat
    <3>1. ms[k] \in Msg
      OBVIOUS
    <3> QED
      BY <3>1, MessageTypes
  <2>2. ms[k].by = "me"
    BY <1>1 DEF ShownOK
  <2> QED
    BY <1>1, <2>1, <2>2 DEF Copy
<1> QED
  BY <1>1 DEF ShownOK

(* Without takes out what was sent by a call that is gone. *)
LEMMA ShownWithout ==
  ASSUME messages \in Seq(Msg), NEW cs, NEW relay, ShownOK(messages, cs, relay),
         NEW ds, NEW c \in Nat,
         \A n \in Nat : SendsMsg(cs, n) /\ n # c => SendsMsg(ds, n)
  PROVE  /\ Without(c) \in Seq(Msg)
         /\ ShownOK(Without(c), ds, relay)
         /\ \A i \in 1..Len(Without(c)) :
              \E a \in 1..Len(messages) : Without(c)[i] = messages[a]
<1> DEFINE w == Without(c)
           at == {i \in DOMAIN messages : ~(messages[i].local /\ messages[i].n = c)}
<1>1. /\ w \in Seq(Msg)
      /\ \A i \in 1..Len(w) : \E a \in 1..Len(messages) : a \in at /\ w[i] = messages[a]
      /\ \A i, j \in 1..Len(w) : i < j =>
           \E a, b \in 1..Len(messages) : a < b /\ w[i] = messages[a] /\ w[j] = messages[b]
  <2>1. w = Kept(messages, at)
    BY DEF Without
  <2> HIDE DEF w, at
  <2>2. /\ Kept(messages, at) \in Seq(Msg)
        /\ \A i \in 1..Len(Kept(messages, at)) :
             \E a \in 1..Len(messages) : a \in at /\ Kept(messages, at)[i] = messages[a]
        /\ \A i, j \in 1..Len(Kept(messages, at)) : i < j =>
             \E a, b \in 1..Len(messages) :
               a < b /\ Kept(messages, at)[i] = messages[a] /\ Kept(messages, at)[j] = messages[b]
    BY KeptFrom
  <2> QED
    BY <2>1, <2>2
<1> HIDE DEF w
<1>2. Once(w)
  <2> SUFFICES ASSUME NEW i \in 1..Len(w), NEW j \in 1..Len(w), i < j, Same(w[i], w[j])
               PROVE  FALSE
    <3>1. Len(w) \in Nat /\ \A i, j \in 1..Len(w) : i # j => i < j \/ j < i
      BY <1>1
    <3> QED
      BY <3>1 DEF Once, Same
  <2>1. PICK a \in 1..Len(messages), b \in 1..Len(messages) :
          a < b /\ w[i] = messages[a] /\ w[j] = messages[b]
    BY <1>1
  <2> QED
    BY <2>1 DEF ShownOK, Once
<1>3. ASSUME NEW i \in 1..Len(w)
      PROVE  /\ w[i].local => w[i].by = "me"
             /\ \/ Copy(w[i]) \in relay
                \/ w[i].local /\ SendsMsg(ds, w[i].n)
  <2>1. PICK a \in 1..Len(messages) : a \in at /\ w[i] = messages[a]
    BY <1>1
  <2>2. messages[a].n \in Nat /\ ~(messages[a].local /\ messages[a].n = c)
    <3>1. messages[a] \in Msg
      OBVIOUS
    <3> QED
      BY <2>1, <3>1, MessageTypes
  <2> QED
    BY <2>1, <2>2 DEF ShownOK
<1> QED
  BY <1>1, <1>2, <1>3 DEF ShownOK, w

-----------------------------------------------------------------------------
(* The relay's messages. *)

LEMMA PostedIs ==
  ASSUME log \in [Peer -> Seq(Msg)], NEW x
  PROVE  x \in Posted <=> \E p \in Peer : \E i \in 1..Len(log[p]) : x = log[p][i]
  BY DEF Posted

LEMMA LogGrows ==
  ASSUME AppTypes, LogOK(log, sends, posts),
         NEW p \in Peer, NEW m \in Msg, log' = [log EXCEPT ![p] = Append(@, m)],
         NEW sent \in Nat, NEW posted \in Nat, sends <= sent, posts <= posted,
         ~m.local, m.by \in {p, "me"}, m.n <= (IF m.by = "me" THEN sent ELSE posted),
         m \notin Posted
  PROVE  /\ log' \in [Peer -> Seq(Msg)]
         /\ Posted' = Posted \union {m}
         /\ LogOK(log', sent, posted)
<1>1. /\ log \in [Peer -> Seq(Msg)] /\ sends \in Nat /\ posts \in Nat
  BY DEF AppTypes
<1>2. log' \in [Peer -> Seq(Msg)] /\ \A q \in Peer : q # p => log'[q] = log[q]
  BY <1>1
<1>3. /\ log[p] \in Seq(Msg) /\ Len(log[p]) \in Nat
      /\ Len(log'[p]) = Len(log[p]) + 1
      /\ \A k \in 1..Len(log[p]) : log'[p][k] = log[p][k]
      /\ log'[p][Len(log[p]) + 1] = m
  <2>1. log'[p] = Append(log[p], m) /\ log[p] \in Seq(Msg)
    BY <1>1
  <2> QED
    BY <2>1, OneMore
<1>4. \A q \in Peer : \A i \in 1..Len(log[q]) : i \in 1..Len(log'[q]) /\ log'[q][i] = log[q][i]
  BY <1>2, <1>3
<1>5. ASSUME NEW q \in Peer, NEW i \in 1..Len(log'[q])
      PROVE  \/ i \in 1..Len(log[q]) /\ log'[q][i] = log[q][i]
             \/ q = p /\ i = Len(log[p]) + 1 /\ log'[q][i] = m
  <2>1. CASE q # p
    BY <1>2, <2>1
  <2>2. CASE q = p
    BY <1>3, <2>2
  <2> QED
    BY <2>1, <2>2
<1>6. Posted' = Posted \union {m}
  <2>1. \A x : x \in Posted' <=> \E q \in Peer : \E i \in 1..Len(log'[q]) : x = log'[q][i]
    BY <1>2 DEF Posted
  <2>2. \A x : x \in Posted <=> \E q \in Peer : \E i \in 1..Len(log[q]) : x = log[q][i]
    BY <1>1, PostedIs
  <2>3. ASSUME NEW x \in Posted' PROVE x \in Posted \union {m}
    BY <1>5, <2>1, <2>2
  <2>4. ASSUME NEW x \in Posted PROVE x \in Posted'
    BY <1>4, <2>1, <2>2
  <2>5. m \in Posted'
    <3>1. Len(log[p]) + 1 \in 1..Len(log'[p])
      BY <1>3
    <3> QED
      BY <1>3, <2>1, <3>1
  <2> QED
    BY <2>3, <2>4, <2>5
<1>7. ASSUME NEW q \in Peer, NEW i \in 1..Len(log[q])
      PROVE  ~Same(log[q][i], m)
  <2>1. log[q][i] \in Msg /\ log[q][i] \in Posted
    BY <1>1, PostedIs
  <2>2. log[q][i].local = FALSE /\ m.local = FALSE
    BY <2>1 DEF LogOK, Msg
  <2>3. log[q][i] = Message(log[q][i].by, log[q][i].n, FALSE) /\ m = Message(m.by, m.n, FALSE)
    BY <2>1, <2>2, MessageTypes
  <2> QED
    BY <2>1, <2>3 DEF Same
<1>8. LogOK(log', sent, posted)
  <2> SUFFICES ASSUME NEW q \in Peer, NEW i \in 1..Len(log'[q])
               PROVE  /\ ~log'[q][i].local
                      /\ log'[q][i].by \in {q, "me"}
                      /\ log'[q][i].n <= (IF log'[q][i].by = "me" THEN sent ELSE posted)
                      /\ \A r \in Peer : \A j \in 1..Len(log'[r]) :
                           Same(log'[q][i], log'[r][j]) => q = r /\ i = j
    BY DEF LogOK
  <2>1. CASE i \in 1..Len(log[q]) /\ log'[q][i] = log[q][i]
    <3>1. /\ ~log[q][i].local /\ log[q][i].by \in {q, "me"}
          /\ log[q][i].n <= (IF log[q][i].by = "me" THEN sends ELSE posts)
          /\ \A r \in Peer : \A j \in 1..Len(log[r]) :
               Same(log[q][i], log[r][j]) => q = r /\ i = j
      <4> DEFINE k == i
      <4>1. k \in 1..Len(log[q])
        BY <2>1
      <4> HIDE DEF k
      <4>2. /\ ~log[q][k].local /\ log[q][k].by \in {q, "me"}
            /\ log[q][k].n <= (IF log[q][k].by = "me" THEN sends ELSE posts)
            /\ \A r \in Peer : \A j \in 1..Len(log[r]) :
                 Same(log[q][k], log[r][j]) => q = r /\ k = j
        BY <4>1 DEF LogOK
      <4> QED
        BY <4>2 DEF k
    <3>2. log[q][i].n \in Nat
      <4>1. log[q][i] \in Msg
        BY <1>1, <2>1
      <4> QED
        BY <4>1, MessageTypes
    <3>3. log[q][i].n <= (IF log[q][i].by = "me" THEN sent ELSE posted)
      BY <1>1, <3>1, <3>2
    <3>4. ASSUME NEW r \in Peer, NEW j \in 1..Len(log'[r]), Same(log'[q][i], log'[r][j])
          PROVE  q = r /\ i = j
      BY <1>5, <1>7, <2>1, <3>1, <3>4
    <3> QED
      BY <2>1, <3>1, <3>3, <3>4
  <2>2. CASE q = p /\ i = Len(log[p]) + 1 /\ log'[q][i] = m
    <3>1. ASSUME NEW r \in Peer, NEW j \in 1..Len(log'[r]), Same(log'[q][i], log'[r][j])
          PROVE  q = r /\ i = j
      <4>1. CASE j \in 1..Len(log[r]) /\ log'[r][j] = log[r][j]
        <5>1. Same(log[r][j], m)
          BY <2>2, <3>1, <4>1 DEF Same
        <5> QED
          BY <1>7, <4>1, <5>1
      <4>2. CASE r = p /\ j = Len(log[p]) + 1
        BY <2>2, <4>2
      <4> QED
        BY <1>5, <4>1, <4>2
    <3> QED
      BY <2>2, <3>1
  <2> QED
    BY <1>5, <2>1, <2>2
<1> QED
  BY <1>2, <1>6, <1>8

-----------------------------------------------------------------------------
(* GhostInv: the steps. *)

LEMMA InitGhost == Init => GhostInv
<1> SUFFICES ASSUME Init PROVE GhostInv
  OBVIOUS
<1>1. scenario \in Scenarios /\ known = scenario.known /\ known \subseteq Peer
  BY DEF Init, TuiAppAssumption
<1>2. /\ log = [p \in Peer |-> IF p \in known THEN <<Message(p, 0, FALSE)>> ELSE <<>>]
      /\ listening = TRUE /\ news = 0 /\ calls = <<>> /\ view = List /\ messages = <<>>
      /\ threads = known /\ exited = FALSE /\ posts = 0 /\ sends = 0 /\ faults = 0
  BY DEF Init
<1>3. \A p \in Peer : Message(p, 0, FALSE) \in Msg
  BY MessageTypes DEF Author
<1>4. ASSUME NEW p \in Peer
      PROVE  /\ log[p] \in Seq(Msg) /\ Len(log[p]) \in Nat
             /\ \A i \in 1..Len(log[p]) : i = 1 /\ log[p][i] = Message(p, 0, FALSE)
  <2>1. CASE p \in known
    <3>1. log[p] = <<Message(p, 0, FALSE)>>
      BY <1>2, <2>1
    <3> DEFINE m == Message(p, 0, FALSE)
    <3>2. m \in Msg
      BY <1>3
    <3> HIDE DEF m
    <3>3. /\ <<m>> \in Seq(Msg) /\ Len(<<m>>) = 1 /\ <<m>>[1] = m
          /\ \A i \in 1..1 : i = 1
      BY <3>2
    <3> QED
      BY <3>1, <3>3 DEF m
  <2>2. CASE p \notin known
    <3>1. log[p] = <<>> /\ Len(<<>>) = 0 /\ <<>> \in Seq(Msg) /\ 1..0 = {}
      BY <1>2, <2>2
    <3> QED
      BY <3>1
  <2> QED
    BY <2>1, <2>2
<1>5. AppTypes
  <2>1. log \in [Peer -> Seq(Msg)]
    BY <1>2, <1>4
  <2>2. calls \in Seq(CallRec) /\ messages \in Seq(Msg) /\ view.kind = "list"
    BY <1>2 DEF List
  <2> QED
    BY <1>1, <1>2, <2>1, <2>2 DEF AppTypes
<1>6. LogOK(log, sends, posts)
  <2>1. ASSUME NEW p \in Peer PROVE /\ ~Message(p, 0, FALSE).local
                                    /\ Message(p, 0, FALSE).by = p
                                    /\ Message(p, 0, FALSE).n = 0
    BY DEF Message
  <2>2. ASSUME NEW p \in Peer, NEW i \in 1..Len(log[p])
        PROVE  i = 1 /\ ~log[p][i].local /\ log[p][i].by = p /\ log[p][i].n = 0
    <3>1. i = 1 /\ log[p][i] = Message(p, 0, FALSE)
      BY <1>4
    <3> QED
      BY <2>1, <3>1, Zenon
  <2>3. ASSUME NEW p \in Peer, NEW i \in 1..Len(log[p])
        PROVE  /\ ~log[p][i].local
               /\ log[p][i].by \in {p, "me"}
               /\ log[p][i].n <= (IF log[p][i].by = "me" THEN sends ELSE posts)
    <3>1. sends = 0 /\ posts = 0
      BY <1>2
    <3>2. log[p][i].n <= (IF log[p][i].by = "me" THEN sends ELSE posts)
      BY <2>2, <3>1
    <3> QED
      BY <2>2, <3>2
  <2>4. ASSUME NEW p \in Peer, NEW i \in 1..Len(log[p]),
               NEW q \in Peer, NEW j \in 1..Len(log[q]), Same(log[p][i], log[q][j])
        PROVE  p = q /\ i = j
    BY <2>2, <2>4 DEF Same
  <2> QED
    BY <2>3, <2>4 DEF LogOK
<1>7. CallsOK(calls, Posted, sends)
  BY <1>2, NoCalls
<1>8. 1..Len(messages) = {}
  BY <1>2
<1>9. ShownOK(messages, calls, Posted)
  BY <1>8 DEF ShownOK, Once
<1> QED
  BY <1>5, <1>6, <1>7, <1>8, <1>9 DEF GhostInv

LEMMA GhostPeerPosts ==
  ASSUME GhostInv, NEW p \in Peer, PeerPosts(p)
  PROVE  GhostInv'
<1>1. /\ AppTypes /\ LogOK(log, sends, posts) /\ CallsOK(calls, Posted, sends)
      /\ ~exited => ShownOK(messages, calls, Posted)
  BY DEF GhostInv
<1> DEFINE m == Message(p, posts + 1, FALSE)
<1>2. /\ posts' = posts + 1 /\ log' = [log EXCEPT ![p] = Append(@, m)]
      /\ known' \in {known, known \union {p}} /\ news' \in {news, news + 1}
      /\ UNCHANGED <<scenario, listening, calls, view, messages, threads, exited, sends, faults>>
  BY DEF PeerPosts, viewVars
<1>3. posts \in Nat /\ posts' \in Nat /\ sends \in Nat /\ posts <= posts' /\ log \in [Peer -> Seq(Msg)]
  BY <1>1, <1>2 DEF AppTypes
<1>4. m \in Msg /\ ~m.local /\ m.by = p /\ m.n = posts + 1 /\ p # "me"
  <2>1. p \in Author /\ posts + 1 \in Nat /\ FALSE \in BOOLEAN /\ p # "me"
    BY <1>3 DEF Author, TuiAppAssumption
  <2> DEFINE n == posts + 1
  <2>2. n \in Nat
    BY <2>1
  <2> HIDE DEF n
  <2>3. /\ Message(p, n, FALSE) \in Msg /\ ~Message(p, n, FALSE).local
        /\ Message(p, n, FALSE).by = p /\ Message(p, n, FALSE).n = n
    <3>1. p \in Author
      BY <2>1
    <3> QED
      BY <2>2, <3>1, NewMessage
  <2> QED
    BY <2>1, <2>3 DEF n
<1> HIDE DEF m
<1>5. m \notin Posted
  <2> SUFFICES ASSUME NEW q \in Peer, NEW i \in 1..Len(log[q]), m = log[q][i] PROVE FALSE
    BY <1>3, PostedIs
  <2>1. log[q][i].n <= posts
    BY <1>1, <1>4 DEF LogOK
  <2> QED
    BY <1>3, <1>4, <2>1
<1>6. /\ log' \in [Peer -> Seq(Msg)] /\ Posted' = Posted \union {m}
      /\ LogOK(log', sends, posts')
  <2>1. /\ m.n <= (IF m.by = "me" THEN sends ELSE posts') /\ sends <= sends
        /\ m.by \in {p, "me"}
    BY <1>2, <1>3, <1>4
  <2>2. log' = [log EXCEPT ![p] = Append(@, m)]
    BY <1>2
  <2> QED
    BY <1>1, <1>3, <1>4, <1>5, <2>1, <2>2, LogGrows
<1>7. AppTypes'
  BY <1>1, <1>2, <1>6 DEF AppTypes
<1>8. CallsOK(calls, Posted', sends)
  <2>1. ASSUME NEW k \in 1..Len(calls), Sends(calls[k]), calls[k].at = "asked"
        PROVE  Message("me", calls[k].n, FALSE) \notin Posted'
    <3>1. Message("me", calls[k].n, FALSE) \notin Posted
      BY <1>1, <2>1 DEF CallsOK, CallOK
    <3>2. Message("me", calls[k].n, FALSE) # m
      BY <1>4 DEF Message
    <3> QED
      BY <1>6, <3>1, <3>2
  <2>2. Posted \subseteq Posted' /\ sends <= sends
    BY <1>3, <1>6
  <2>3. \A k \in 1..Len(calls) : Sends(calls[k]) /\ calls[k].at = "asked" =>
          Message("me", calls[k].n, FALSE) \notin Posted'
    BY <2>1
  <2> QED
    BY <1>1, <1>3, <2>2, <2>3, CallsGrow
<1>9. ~exited => ShownOK(messages, calls, Posted')
  <2>1. Posted \subseteq Posted' /\ messages \in Seq(Msg)
    BY <1>1, <1>6 DEF AppTypes
  <2> QED
    BY <1>1, <2>1, ShownGrows
<1> QED
  BY <1>2, <1>6, <1>7, <1>8, <1>9 DEF GhostInv

LEMMA GhostStopDaemon ==
  ASSUME GhostInv, StopDaemon
  PROVE  GhostInv'
<1>1. /\ AppTypes /\ LogOK(log, sends, posts) /\ CallsOK(calls, Posted, sends)
      /\ ~exited => ShownOK(messages, calls, Posted)
  BY DEF GhostInv
<1>2. /\ listening' = FALSE /\ faults' = faults + 1
      /\ calls' = [i \in DOMAIN calls |-> IF calls[i].at = "asked"
                                          THEN [calls[i] EXCEPT !.at = "lost"] ELSE calls[i]]
      /\ UNCHANGED <<scenario, log, known, news, view, messages, threads, exited, posts, sends>>
  BY DEF StopDaemon, Fault, viewVars
<1>3. /\ calls \in Seq(CallRec) /\ Len(calls) \in Nat /\ DOMAIN calls = 1..Len(calls)
      /\ \A k \in 1..Len(calls) : calls[k] \in CallRec /\ CallOK(calls[k], Posted, sends)
  BY <1>1 DEF CallsOK
<1>4. ASSUME NEW k \in 1..Len(calls)
      PROVE  /\ calls'[k] \in CallRec /\ calls'[k].n = calls[k].n
             /\ CallOK(calls'[k], Posted, sends)
  <2>1. CASE calls[k].at = "asked"
    <3> DEFINE c == calls[k]
    <3>1. calls'[k] = [c EXCEPT !.at = "lost"]
      BY <1>2, <1>3, <2>1
    <3>2. c \in CallRec /\ CallOK(c, Posted, sends)
      BY <1>3
    <3> HIDE DEF c
    <3> DEFINE d == [c EXCEPT !.at = "lost"]
    <3>3. /\ d \in CallRec /\ d.n = c.n /\ d.op = c.op /\ d.peer = c.peer /\ d.at = "lost"
          /\ d.messages = c.messages
      BY <3>2 DEF CallRec
    <3> HIDE DEF d
    <3>4. CallOK(d, Posted, sends)
      BY <3>2, <3>3 DEF CallOK, Sends
    <3> QED
      BY <3>1, <3>3, <3>4 DEF c, d
  <2>2. CASE calls[k].at # "asked"
    BY <1>2, <1>3, <2>2
  <2> QED
    BY <2>1, <2>2
<1>5. calls' \in Seq(CallRec) /\ Len(calls') = Len(calls)
  <2>1. calls' \in [1..Len(calls) -> CallRec]
    BY <1>2, <1>3, <1>4
  <2> QED
    BY <1>3, <2>1
<1>6. CallsOK(calls', Posted, sends)
  BY <1>1, <1>4, <1>5 DEF CallsOK
<1>7. Posted' = Posted
  BY <1>2 DEF Posted
<1>8. ~exited => ShownOK(messages, calls', Posted)
  <2>1. \A n \in Nat : SendsMsg(calls, n) => SendsMsg(calls', n)
    BY <1>4, <1>5 DEF SendsMsg
  <2>2. messages \in Seq(Msg)
    BY <1>1 DEF AppTypes
  <2> QED
    BY <1>1, <2>1, <2>2, ShownGrows
<1>9. AppTypes'
  <2>1. faults' \in Nat
    BY <1>1, <1>2 DEF AppTypes
  <2>2. listening' \in BOOLEAN
    BY <1>2, Zenon
  <2> QED
    BY <1>1, <1>2, <1>5, <2>1, <2>2 DEF AppTypes
<1> QED
  BY <1>1, <1>2, <1>6, <1>7, <1>8, <1>9 DEF GhostInv

(* Steps that change neither messages nor calls. *)
LEMMA GhostElsewhere ==
  ASSUME GhostInv, AppTypes', UNCHANGED <<log, calls, messages, exited, posts, sends>>
  PROVE  GhostInv'
<1>1. Posted' = Posted
  BY DEF Posted
<1> QED
  BY <1>1 DEF GhostInv

LEMMA GhostStartDaemon ==
  ASSUME GhostInv, StartDaemon
  PROVE  GhostInv'
<1>1. AppTypes'
  BY DEF GhostInv, AppTypes, StartDaemon, viewVars, bounds
<1> QED
  BY <1>1, GhostElsewhere DEF StartDaemon, viewVars, bounds

LEMMA GhostOpenNew ==
  ASSUME GhostInv, NEW p \in Peer, OpenNew(p)
  PROVE  GhostInv'
<1>1. AppTypes'
  BY DEF GhostInv, AppTypes, OpenNew, NewThread, remoteVars, bounds
<1> QED
  BY <1>1, GhostElsewhere DEF OpenNew, remoteVars, bounds

LEMMA GhostEscape ==
  ASSUME GhostInv, Escape
  PROVE  GhostInv'
<1>1. AppTypes'
  BY DEF GhostInv, AppTypes, Escape, List, remoteVars, bounds
<1>2. Posted' = Posted
  BY DEF Posted, Escape, remoteVars
<1>3. messages' = <<>> /\ 1..Len(<<>>) = {}
  BY DEF Escape
<1>4. ShownOK(messages', calls, Posted)
  BY <1>3 DEF ShownOK, Once
<1>5. UNCHANGED <<log, calls, exited, posts, sends>>
  BY DEF Escape, remoteVars, bounds
<1> QED
  BY <1>1, <1>2, <1>3, <1>4, <1>5 DEF GhostInv

LEMMA GhostOpen ==
  ASSUME GhostInv, NEW p \in Peer, Open(p)
  PROVE  GhostInv'
<1>1. /\ AppTypes /\ LogOK(log, sends, posts) /\ CallsOK(calls, Posted, sends)
      /\ ~exited => ShownOK(messages, calls, Posted)
  BY DEF GhostInv
<1> DEFINE b == lastLoaded # p
<1>2. /\ view' = Thread(p)
      /\ calls' = calls \o <<Call("messages", p, 0, b), Call("ack", p, 0, FALSE)>>
      /\ UNCHANGED <<scenario, log, listening, known, news, messages, threads, exited,
                     posts, sends, faults>>
  BY DEF Open, ShowThread, remoteVars, bounds
<1>3. sends \in Nat /\ b \in BOOLEAN /\ messages \in Seq(Msg)
  BY <1>1 DEF AppTypes
<1> HIDE DEF b
<1>4. /\ CallsOK(calls', Posted, sends)
      /\ \A n \in Nat : SendsMsg(calls, n) => SendsMsg(calls', n)
  BY <1>1, <1>2, <1>3, CallsShow
<1>5. Posted' = Posted
  BY <1>2 DEF Posted
<1>6. AppTypes'
  BY <1>1, <1>2, <1>4 DEF AppTypes, CallsOK, Thread
<1>7. ~exited => ShownOK(messages, calls', Posted)
  BY <1>1, <1>3, <1>4, ShownGrows
<1> QED
  BY <1>1, <1>2, <1>4, <1>5, <1>6, <1>7 DEF GhostInv

LEMMA GhostHandleNews ==
  ASSUME GhostInv, HandleNews
  PROVE  GhostInv'
<1>1. /\ AppTypes /\ LogOK(log, sends, posts) /\ CallsOK(calls, Posted, sends)
      /\ ~exited => ShownOK(messages, calls, Posted)
  BY DEF GhostInv
<1> DEFINE c == Call("news", None, 0, FALSE)
<1>2. /\ news > 0 /\ news' = news - 1 /\ calls' = Append(calls, c)
      /\ UNCHANGED <<scenario, log, listening, known, view, messages, threads, exited,
                     posts, sends, faults>>
  BY DEF HandleNews, remoteVars, viewVars, bounds
<1>3. sends \in Nat /\ messages \in Seq(Msg) /\ news' \in Nat
  BY <1>1, <1>2 DEF AppTypes
<1>4. c \in CallRec /\ c.n = 0 /\ CallOK(c, Posted, sends)
  BY <1>3, PlainCall
<1> HIDE DEF c
<1>5. /\ CallsOK(calls', Posted, sends)
      /\ \A n \in Nat : SendsMsg(calls, n) => SendsMsg(calls', n)
  BY <1>1, <1>2, <1>3, <1>4, CallsWith
<1>6. Posted' = Posted
  BY <1>2 DEF Posted
<1>7. AppTypes'
  BY <1>1, <1>2, <1>3, <1>5 DEF AppTypes, CallsOK
<1>8. ~exited => ShownOK(messages, calls', Posted)
  BY <1>1, <1>3, <1>5, ShownGrows
<1> QED
  BY <1>1, <1>2, <1>5, <1>6, <1>7, <1>8 DEF GhostInv

LEMMA GhostSubmit ==
  ASSUME GhostInv, Submit
  PROVE  GhostInv'
<1>1. /\ AppTypes /\ LogOK(log, sends, posts) /\ CallsOK(calls, Posted, sends)
      /\ ~exited => ShownOK(messages, calls, Posted)
      /\ \A k \in 1..Len(messages) : messages[k].by = "me" => messages[k].n <= sends
  BY DEF GhostInv
<1>2. /\ sends' = sends + 1
      /\ messages' = Append(messages, Message("me", sends', TRUE))
      /\ UNCHANGED <<scenario, log, listening, known, news, view, threads, exited, posts, faults>>
  BY DEF Submit, remoteVars
<1>3. PICK op \in {"send", "first"} : /\ calls' = Append(calls, Call(op, view.peer, sends', FALSE))
                                      /\ view.peer \in Peer
  BY <1>1 DEF Submit, AppTypes
<1> DEFINE n == sends + 1
           m == Message("me", n, TRUE)
           c == Call(op, view.peer, n, FALSE)
<1>4. /\ sends \in Nat /\ posts \in Nat /\ messages \in Seq(Msg) /\ calls \in Seq(CallRec)
      /\ log \in [Peer -> Seq(Msg)]
  BY <1>1 DEF AppTypes
<1>5. n \in Nat /\ n > 0 /\ sends < n /\ sends' = n
  BY <1>2, <1>4
<1>6. messages' = Append(messages, m) /\ calls' = Append(calls, c)
  BY <1>2, <1>3
<1> HIDE DEF n
<1>7. m \in Msg /\ m.by = "me" /\ m.n = n /\ m.local
  BY <1>5, OwnMessage
<1>8. /\ c \in CallRec /\ c.op = op /\ c.peer = view.peer /\ c.n = n /\ c.messages = <<>>
      /\ c.at \in {"asked", "failed"}
  <2>1. op \in Answers /\ view.peer \in Peer \union {None} /\ FALSE \in BOOLEAN
    BY <1>3 DEF Answers
  <2>2. /\ c \in CallRec /\ c.op = op /\ c.peer = view.peer /\ c.n = n /\ c.messages = <<>>
        /\ c.at = (IF listening THEN "asked" ELSE "failed")
    <3> HIDE DEF c
    <3>1. \A p \in Peer \union {None}, b \in BOOLEAN :
            /\ Call(op, p, n, b) \in CallRec
            /\ Call(op, p, n, b).op = op /\ Call(op, p, n, b).peer = p
            /\ Call(op, p, n, b).n = n
            /\ Call(op, p, n, b).at = (IF listening THEN "asked" ELSE "failed")
            /\ Call(op, p, n, b).messages = <<>>
      BY <1>5, <2>1, CallTypes
    <3> QED
      BY <2>1, <3>1 DEF c
  <2> QED
    BY <2>2
<1> HIDE DEF m, c
<1>9. CallsOK(calls, Posted, n)
  <2>1. \A k \in 1..Len(calls) : Sends(calls[k]) /\ calls[k].at = "asked" =>
          Message("me", calls[k].n, FALSE) \notin Posted
    BY <1>1 DEF CallsOK, CallOK
  <2>2. sends <= n
    BY <1>4, <1>5
  <2> QED
    BY <1>1, <1>4, <1>5, <2>1, <2>2, CallsGrow
<1>10. Message("me", n, FALSE) \notin Posted
  <2> DEFINE o == Message("me", n, FALSE)
  <2>1. o.by = "me" /\ o.n = n
    BY DEF Message
  <2> HIDE DEF o
  <2>2. o \notin Posted
    <3> SUFFICES ASSUME NEW q \in Peer, NEW i \in 1..Len(log[q]), o = log[q][i] PROVE FALSE
      BY <1>4, PostedIs
    <3>1. log[q][i].n <= sends
      BY <1>1, <2>1 DEF LogOK
    <3> QED
      BY <1>4, <1>5, <2>1, <3>1
  <2> QED
    BY <2>2 DEF o
<1>11. CallOK(c, Posted, n)
  <2>1. 1..Len(c.messages) = {}
    BY <1>8
  <2>2. Once(c.messages)
    BY <2>1 DEF Once
  <2>3. n <= n
    BY <1>5
  <2>4. c.at # "served" /\ c.op \notin {"fetched", "news"} /\ c.op \in {"send", "first", "fetched"}
    BY <1>8
  <2> QED
    BY <1>3, <1>5, <1>8, <1>10, <2>1, <2>2, <2>3, <2>4 DEF CallOK, Sends
<1>12. \A k \in 1..Len(calls) : calls[k].n # n
  <2> TAKE k \in 1..Len(calls)
  <2>1. calls[k].n <= sends
    BY <1>1 DEF CallsOK, CallOK
  <2>2. calls[k].n \in Nat
    <3>1. calls[k] \in CallRec
      BY <1>4
    <3> QED
      BY <3>1 DEF CallRec
  <2> QED
    BY <1>4, <1>5, <2>1, <2>2
<1>13. /\ CallsOK(calls', Posted, n)
       /\ \A k \in Nat : SendsMsg(calls, k) => SendsMsg(calls', k)
       /\ SendsMsg(calls', n)
  BY <1>5, <1>6, <1>8, <1>9, <1>11, <1>12, CallsWith
<1>14. /\ messages' \in Seq(Msg) /\ Len(messages) \in Nat
       /\ Len(messages') = Len(messages) + 1
       /\ \A k \in 1..Len(messages) : messages'[k] = messages[k] /\ messages[k] \in Msg
       /\ messages'[Len(messages) + 1] = m
  BY <1>4, <1>6, <1>7, OneMore
<1>15. \A k \in 1..Len(messages') : k \in 1..Len(messages) \/ k = Len(messages) + 1
  BY <1>14
<1>16. ASSUME NEW k \in 1..Len(messages), messages[k].by = "me" PROVE messages[k].n # n
  <2>1. messages[k].n \in Nat
    BY <1>14, MessageTypes
  <2>2. messages[k].n <= sends
    BY <1>1, <1>16
  <2> QED
    BY <1>4, <1>5, <2>1, <2>2
<1>17. Posted' = Posted
  BY <1>2 DEF Posted
<1>18. ASSUME ~exited PROVE ShownOK(messages', calls', Posted)
  <2>1. ShownOK(messages, calls', Posted)
    BY <1>1, <1>4, <1>13, <1>18, ShownGrows
  <2>2. Once(messages')
    <3> SUFFICES ASSUME NEW i \in 1..Len(messages'), NEW j \in 1..Len(messages'),
                        Same(messages'[i], messages'[j])
                 PROVE  i = j
      BY DEF Once
    <3>1. CASE i \in 1..Len(messages) /\ j \in 1..Len(messages)
      BY <1>14, <2>1, <3>1 DEF ShownOK, Once
    <3>2. CASE i \in 1..Len(messages) /\ j = Len(messages) + 1
      BY <1>7, <1>14, <1>16, <3>2 DEF Same
    <3>3. CASE i = Len(messages) + 1 /\ j \in 1..Len(messages)
      BY <1>7, <1>14, <1>16, <3>3 DEF Same
    <3> QED
      BY <1>15, <3>1, <3>2, <3>3
  <2>3. ASSUME NEW k \in 1..Len(messages')
        PROVE  /\ messages'[k].local => messages'[k].by = "me"
               /\ \/ Copy(messages'[k]) \in Posted
                  \/ messages'[k].local /\ SendsMsg(calls', messages'[k].n)
    <3>1. CASE k \in 1..Len(messages)
      BY <1>14, <2>1, <3>1 DEF ShownOK
    <3>2. CASE k = Len(messages) + 1
      BY <1>7, <1>13, <1>14, <3>2
    <3> QED
      BY <1>15, <3>1, <3>2
  <2> QED
    BY <2>2, <2>3 DEF ShownOK
<1>19. LogOK(log, n, posts)
  <2> SUFFICES ASSUME NEW p \in Peer, NEW i \in 1..Len(log[p])
               PROVE  log[p][i].n <= (IF log[p][i].by = "me" THEN n ELSE posts)
    BY <1>1 DEF LogOK
  <2>1. log[p][i].n <= (IF log[p][i].by = "me" THEN sends ELSE posts)
    BY <1>1 DEF LogOK
  <2>2. log[p][i].n \in Nat
    <3>1. log[p][i] \in Msg
      BY <1>4
    <3> QED
      BY <3>1, MessageTypes
  <2> QED
    BY <1>4, <1>5, <2>1, <2>2
<1>20. AppTypes'
  BY <1>1, <1>2, <1>5, <1>13, <1>14 DEF AppTypes, CallsOK
<1>21. \A k \in 1..Len(messages') : messages'[k].by = "me" => messages'[k].n <= n
  <2> TAKE k \in 1..Len(messages')
  <2>1. CASE k \in 1..Len(messages)
    <3>1. messages[k].n \in Nat /\ (messages[k].by = "me" => messages[k].n <= sends)
      BY <1>1, <1>14, <2>1, MessageTypes
    <3> QED
      BY <1>4, <1>5, <1>14, <2>1, <3>1
  <2>2. CASE k = Len(messages) + 1
    BY <1>5, <1>7, <1>14, <2>2
  <2> QED
    BY <1>15, <2>1, <2>2
<1> QED
  BY <1>2, <1>5, <1>13, <1>17, <1>18, <1>19, <1>20, <1>21 DEF GhostInv

(* Serve's answer in place of the call. *)
LEMMA GhostAnswered ==
  ASSUME GhostInv, NEW i \in 1..Len(calls), calls[i].at = "asked",
         NEW at \in {"served", "failed"}, Answered(i, at),
         NEW more, Posted \subseteq more,
         \A n \in Nat : Message("me", n, FALSE) \in more =>
           Message("me", n, FALSE) \in Posted \/ n = calls[i].n,
         Sends(calls[i]) /\ at = "served" => Message("me", calls[i].n, FALSE) \in more
  PROVE  /\ CallsOK(calls', more, sends)
         /\ \A n \in Nat : SendsMsg(calls, n) => SendsMsg(calls', n)
<1>1. /\ AppTypes /\ LogOK(log, sends, posts) /\ CallsOK(calls, Posted, sends)
  BY DEF GhostInv
<1>2. /\ calls \in Seq(CallRec) /\ Len(calls) \in Nat
      /\ \A k \in 1..Len(calls) : calls[k] \in CallRec /\ CallOK(calls[k], Posted, sends)
      /\ \A k, l \in 1..Len(calls) : calls[k].n = calls[l].n /\ calls[k].n > 0 => k = l
      /\ log \in [Peer -> Seq(Msg)] /\ known \subseteq Peer /\ sends \in Nat
  BY <1>1 DEF CallsOK, AppTypes
<1> DEFINE c == calls[i]
           ms == IF c.op = "messages" THEN log[c.peer] ELSE <<>>
           ts == IF c.op \in {"acked", "news", "fetched"} THEN known ELSE {}
           d == [c EXCEPT !.at = at, !.messages = ms, !.threads = ts]
<1>3. calls' = [calls EXCEPT ![i] = d]
  BY DEF Answered
<1>4. c \in CallRec /\ CallOK(c, Posted, sends)
  BY <1>2
<1>5. /\ c.op = "messages" => c.peer \in Peer
      /\ ms \in Seq(Msg) /\ ts \in SUBSET Peer
  BY <1>2, <1>4 DEF CallOK
<1>6. Once(ms) /\ \A k \in 1..Len(ms) : ms[k] \in Posted
  <2>1. CASE c.op = "messages"
    <3>1. ms = log[c.peer] /\ c.peer \in Peer
      BY <1>5, <2>1
    <3>2. \A q \in Peer : \A k \in 1..Len(log[q]) : log[q][k] \in Posted
      BY <1>2, PostedIs
    <3>3. \A q \in Peer : Once(log[q])
      BY <1>1 DEF LogOK, Once
    <3> QED
      BY <3>1, <3>2, <3>3
  <2>2. CASE c.op # "messages"
    <3>1. ms = <<>> /\ 1..Len(<<>>) = {}
      BY <2>2
    <3> QED
      BY <3>1 DEF Once
  <2> QED
    BY <2>1, <2>2
<1> HIDE DEF ms, ts
<1>7. /\ d \in CallRec /\ d.at = at /\ d.messages = ms /\ d.op = c.op /\ d.peer = c.peer
      /\ d.n = c.n
  <2> HIDE DEF c
  <2> QED
    BY <1>4, <1>5 DEF CallRec
<1>8. c.at = "asked"
  OBVIOUS
<1>9. CallOK(d, more, sends)
  <2> DEFINE e == d
  <2>1. /\ e.at = at /\ e.messages = ms /\ e.op = c.op /\ e.peer = c.peer /\ e.n = c.n
    BY <1>7
  <2>2. Sends(c) /\ at = "served" => Message("me", c.n, FALSE) \in more
    OBVIOUS
  <2> HIDE DEF e, c
  <2>3. CallOK(e, more, sends)
    BY <1>4, <1>6, <1>8, <2>1, <2>2 DEF CallOK, Sends
  <2> QED
    BY <2>3 DEF e
<1>10. /\ calls' \in Seq(CallRec) /\ Len(calls') = Len(calls)
       /\ \A k \in 1..Len(calls) : calls'[k] = IF k = i THEN d ELSE calls[k]
  <2> HIDE DEF d
  <2> QED
    BY <1>2, <1>3, <1>7, ExceptSeq
<1>11. \A k \in 1..Len(calls) : calls'[k].n = calls[k].n
  BY <1>7, <1>10
<1>12. ASSUME NEW k \in 1..Len(calls) PROVE CallOK(calls'[k], more, sends)
  <2>1. CASE k = i
    BY <1>9, <1>10, <2>1
  <2>2. CASE k # i
    <3> DEFINE b == calls[k]
    <3>1. calls'[k] = b /\ b \in CallRec /\ CallOK(b, Posted, sends)
      BY <1>2, <1>10, <2>2
    <3>2. b.n # c.n \/ ~(b.n > 0)
      BY <1>2, <2>2
    <3> HIDE DEF b, c
    <3>3. b.n \in Nat
      BY <3>1 DEF CallRec
    <3>4. Sends(b) => b.n > 0
      BY <3>1 DEF CallOK, Sends
    <3>5. Sends(b) /\ Message("me", b.n, FALSE) \notin Posted => Message("me", b.n, FALSE) \notin more
      BY <3>2, <3>3, <3>4 DEF c
    <3>6. CallOK(b, more, sends)
      BY <3>1, <3>5 DEF CallOK
    <3> QED
      BY <3>1, <3>6
  <2> QED
    BY <2>1, <2>2
<1>13. CallsOK(calls', more, sends)
  BY <1>2, <1>10, <1>11, <1>12 DEF CallsOK
<1>14. \A n \in Nat : SendsMsg(calls, n) => SendsMsg(calls', n)
  BY <1>10, <1>11 DEF SendsMsg
<1> QED
  BY <1>13, <1>14

LEMMA GhostServe ==
  ASSUME GhostInv, NEW i \in 1..Len(calls), Serve(i)
  PROVE  GhostInv'
<1>1. /\ AppTypes /\ LogOK(log, sends, posts) /\ CallsOK(calls, Posted, sends)
      /\ ~exited => ShownOK(messages, calls, Posted)
  BY DEF GhostInv
<1>2. /\ calls[i].at = "asked"
      /\ UNCHANGED <<scenario, listening, known, news, view, messages, threads, exited, posts, sends>>
      /\ faults' \in Nat
  <2>1. /\ calls[i].at = "asked" /\ (faults' = faults + 1 \/ UNCHANGED faults)
        /\ UNCHANGED <<scenario, listening, known, news, view, messages, threads, exited, posts, sends>>
    BY DEF Serve, viewVars, Fault
  <2>2. faults \in Nat
    BY <1>1 DEF AppTypes
  <2> QED
    BY <2>1, <2>2
<1>3. /\ sends \in Nat /\ posts \in Nat /\ log \in [Peer -> Seq(Msg)] /\ messages \in Seq(Msg)
      /\ sends <= sends /\ posts <= posts
  BY <1>1 DEF AppTypes
<1>4. calls[i] \in CallRec /\ CallOK(calls[i], Posted, sends)
  BY <1>1 DEF CallsOK
<1>5. calls[i].n \in Nat
  BY <1>4 DEF CallRec
<1>6. ASSUME NEW more, Posted' = more, Posted \subseteq more, log' \in [Peer -> Seq(Msg)],
             LogOK(log', sends, posts), CallsOK(calls', more, sends),
             \A n \in Nat : SendsMsg(calls, n) => SendsMsg(calls', n)
      PROVE  GhostInv'
  <2>1. AppTypes'
    BY <1>1, <1>2, <1>6 DEF AppTypes, CallsOK
  <2>2. ~exited => ShownOK(messages, calls', more)
    BY <1>1, <1>3, <1>6, ShownGrows
  <2>3. \A k \in 1..Len(messages) : messages[k].by = "me" => messages[k].n <= sends
    BY DEF GhostInv
  <2> QED
    BY <1>2, <1>6, <2>1, <2>2, <2>3 DEF GhostInv
<1>7. CASE log' = log
  <2>1. Posted' = Posted
    BY <1>7 DEF Posted
  <2>2. ASSUME NEW at \in {"served", "failed"}, Answered(i, at),
               ~(Sends(calls[i]) /\ at = "served")
        PROVE  GhostInv'
    <3>1. /\ CallsOK(calls', Posted, sends)
          /\ \A n \in Nat : SendsMsg(calls, n) => SendsMsg(calls', n)
      BY <1>2, <2>2, GhostAnswered
    <3> QED
      BY <1>1, <1>3, <1>6, <1>7, <2>1, <3>1
  <2>3. CASE Answered(i, "failed")
    BY <2>2, <2>3
  <2>4. CASE Answered(i, "served") /\ ~Sends(calls[i])
    BY <2>2, <2>4
  <2>5. CASE Sends(calls[i]) /\ log' = [log EXCEPT ![calls[i].peer] =
                                 Append(@, Message("me", calls[i].n, FALSE))]
    <3>1. calls[i].peer \in Peer /\ log[calls[i].peer] \in Seq(Msg)
      BY <1>3, <1>4, <2>5 DEF CallOK, Sends
    <3>2. log'[calls[i].peer] = Append(log[calls[i].peer], Message("me", calls[i].n, FALSE))
      BY <1>3, <2>5, <3>1
    <3> DEFINE s == log[calls[i].peer]
               m == Message("me", calls[i].n, FALSE)
    <3>3. m \in Msg
      BY <1>5, OwnMessage
    <3>4. s \in Seq(Msg) /\ s = Append(s, m)
      BY <1>7, <3>1, <3>2
    <3> HIDE DEF s, m
    <3>5. Len(s) \in Nat /\ Len(s) = Len(s) + 1
      BY <3>3, <3>4, OneMore
    <3> QED
      BY <3>5
  <2> QED
    BY <2>3, <2>4, <2>5 DEF Serve
<1>8. CASE log' # log
  <2> DEFINE c == calls[i]
             m == Message("me", c.n, FALSE)
  <2>1. /\ Sends(c)
        /\ log' = [log EXCEPT ![c.peer] = Append(@, m)]
        /\ Answered(i, "served") \/ Answered(i, "failed")
    BY <1>8 DEF Serve
  <2>2. c.peer \in Peer /\ c.n > 0 /\ c.n <= sends /\ m \notin Posted
    BY <1>2, <1>4, <2>1 DEF CallOK, Sends
  <2>3. m \in Msg /\ m.by = "me" /\ m.n = c.n /\ ~m.local
    <3>1. c.n \in Nat
      BY <1>5
    <3> QED
      BY <3>1, OwnMessage
  <2>4. m.n <= (IF m.by = "me" THEN sends ELSE posts) /\ m.by \in {c.peer, "me"}
    BY <2>2, <2>3
  <2>5. \A n \in Nat : m = Message("me", n, FALSE) => n = c.n
    BY <2>3 DEF Message
  <2> HIDE DEF m
  <2>6. /\ log' \in [Peer -> Seq(Msg)] /\ Posted' = Posted \union {m}
        /\ LogOK(log', sends, posts)
    BY <1>1, <1>3, <2>1, <2>2, <2>3, <2>4, LogGrows
  <2> DEFINE more == Posted \union {m}
  <2>7. /\ Posted \subseteq more
        /\ \A n \in Nat : Message("me", n, FALSE) \in more =>
             Message("me", n, FALSE) \in Posted \/ n = c.n
        /\ Message("me", c.n, FALSE) \in more
    BY <2>5 DEF m
  <2> HIDE DEF more
  <2>8. /\ CallsOK(calls', more, sends)
        /\ \A n \in Nat : SendsMsg(calls, n) => SendsMsg(calls', n)
    BY <1>2, <2>1, <2>7, GhostAnswered
  <2> QED
    BY <1>6, <2>6, <2>7, <2>8 DEF more
<1> QED
  BY <1>7, <1>8

(* What a reply has to establish. *)
LEMMA GhostReplied ==
  ASSUME GhostInv, UNCHANGED <<scenario, remoteVars, news, bounds>>,
         threads' \subseteq Peer, exited' \in BOOLEAN,
         view'.kind \in {"list", "thread", "newThread"},
         view'.kind # "list" => view'.peer \in Peer,
         messages' \in Seq(Msg), CallsOK(calls', Posted, sends),
         ~exited' => ShownOK(messages', calls', Posted),
         \A k \in 1..Len(messages') : messages'[k].by = "me" => messages'[k].n <= sends
  PROVE  GhostInv'
<1>1. /\ AppTypes /\ LogOK(log, sends, posts)
  BY DEF GhostInv
<1>2. UNCHANGED <<scenario, log, listening, known, news, posts, sends, faults>>
  BY DEF remoteVars, bounds
<1>3. Posted' = Posted
  BY <1>2 DEF Posted
<1>4. AppTypes'
  BY <1>1, <1>2 DEF AppTypes, CallsOK
<1> QED
  BY <1>1, <1>2, <1>3, <1>4 DEF GhostInv

(* The call that is answered leaves. *)
LEMMA GhostLeaves ==
  ASSUME GhostInv, ~exited, NEW i \in 1..Len(calls)
  PROVE  /\ Rest(i) \in Seq(CallRec) /\ CallsOK(Rest(i), Posted, sends)
         /\ calls[i] \in CallRec /\ CallOK(calls[i], Posted, sends)
         /\ \A n \in Nat : SendsMsg(calls, n) => n = calls[i].n \/ SendsMsg(Rest(i), n)
         /\ \A k \in 1..Len(Rest(i)) : Rest(i)[k].n = calls[i].n => calls[i].n = 0
         /\ messages \in Seq(Msg) /\ ShownOK(messages, calls, Posted)
         /\ sends \in Nat /\ threads \subseteq Peer /\ calls[i].threads \subseteq Peer
         /\ view.kind \in {"list", "thread", "newThread"}
         /\ view.kind # "list" => view.peer \in Peer
         /\ \A k \in 1..Len(messages) : messages[k].by = "me" => messages[k].n <= sends
<1>1. /\ AppTypes /\ CallsOK(calls, Posted, sends) /\ ShownOK(messages, calls, Posted)
      /\ \A k \in 1..Len(messages) : messages[k].by = "me" => messages[k].n <= sends
  BY DEF GhostInv
<1>2. /\ sends \in Nat /\ threads \subseteq Peer /\ messages \in Seq(Msg)
      /\ view.kind \in {"list", "thread", "newThread"}
      /\ view.kind # "list" => view.peer \in Peer
  BY <1>1 DEF AppTypes
<1>3. calls[i] \in CallRec /\ CallOK(calls[i], Posted, sends)
  BY <1>1 DEF CallsOK
<1>4. calls[i].threads \subseteq Peer
  BY <1>3 DEF CallRec
<1>5. /\ CallsOK(Rest(i), Posted, sends)
      /\ \A n \in Nat : SendsMsg(calls, n) => n = calls[i].n \/ SendsMsg(Rest(i), n)
      /\ \A k \in 1..Len(Rest(i)) : Rest(i)[k].n = calls[i].n => calls[i].n = 0
  BY <1>1, <1>2, CallsWithout DEF Rest
<1>6. Rest(i) \in Seq(CallRec)
  BY <1>5 DEF CallsOK
<1> QED
  BY <1>1, <1>2, <1>3, <1>4, <1>5, <1>6

(* Without the call, its message may stay if the relay has it. *)
LEMMA GhostStays ==
  ASSUME GhostInv, ~exited, NEW i \in 1..Len(calls), NEW cs,
         calls[i].n > 0 => Message("me", calls[i].n, FALSE) \in Posted,
         \A n \in Nat : SendsMsg(Rest(i), n) => SendsMsg(cs, n)
  PROVE  ShownOK(messages, cs, Posted)
<1>1. /\ \A n \in Nat : SendsMsg(calls, n) => n = calls[i].n \/ SendsMsg(Rest(i), n)
      /\ messages \in Seq(Msg) /\ ShownOK(messages, calls, Posted)
  BY GhostLeaves
<1>2. ASSUME NEW n \in Nat, SendsMsg(calls, n)
      PROVE  SendsMsg(cs, n) \/ Message("me", n, FALSE) \in Posted
  <2>1. n > 0
    BY <1>2 DEF SendsMsg
  <2> QED
    BY <1>1, <1>2, <2>1
<1> QED
  BY <1>1, <1>2, ShownGrows

LEMMA GhostGetMessages ==
  ASSUME GhostInv, ~exited, NEW i \in 1..Len(calls), calls[i].at \in {"served", "failed"},
         GetMessages(i), UNCHANGED <<scenario, remoteVars, news, bounds>>
  PROVE  GhostInv'
<1> DEFINE c == calls[i]
<1>1. /\ CallsOK(Rest(i), Posted, sends) /\ c \in CallRec /\ CallOK(c, Posted, sends)
      /\ messages \in Seq(Msg) /\ ShownOK(messages, calls, Posted)
      /\ sends \in Nat /\ threads \subseteq Peer
      /\ view.kind \in {"list", "thread", "newThread"}
      /\ view.kind # "list" => view.peer \in Peer
      /\ \A k \in 1..Len(messages) : messages[k].by = "me" => messages[k].n <= sends
  BY GhostLeaves
<1>2. UNCHANGED <<view, threads>> /\ c.op = "messages"
  BY DEF GetMessages
<1>3. CASE c.at = "failed"
  <2>1. exited' /\ calls' = <<>> /\ messages' = messages
    BY <1>3 DEF GetMessages
  <2>2. CallsOK(calls', Posted, sends)
    BY <2>1, NoCalls
  <2>3. exited' \in BOOLEAN
    BY DEF GetMessages
  <2> QED
    BY <1>1, <1>2, <2>1, <2>2, <2>3, GhostReplied
<1>4. CASE c.at = "served"
  <2>1. ~exited' /\ calls' = Rest(i) /\ messages' = c.messages
    BY <1>4 DEF GetMessages
  <2>2. exited' \in BOOLEAN
    BY DEF GetMessages
  <2>3. messages' \in Seq(Msg)
    BY <1>1, <2>1 DEF CallRec
  <2>4. Once(messages') /\ \A k \in 1..Len(messages') : messages'[k] \in Posted
    BY <1>1, <2>1 DEF CallOK
  <2>5. ASSUME NEW k \in 1..Len(messages')
        PROVE  /\ ~messages'[k].local
               /\ messages'[k].by = "me" => messages'[k].n <= sends
    <3>1. /\ log \in [Peer -> Seq(Msg)] /\ LogOK(log, sends, posts)
      BY DEF GhostInv, AppTypes
    <3>2. PICK p \in Peer : \E j \in 1..Len(log[p]) : messages'[k] = log[p][j]
      BY <2>4, <3>1, PostedIs
    <3>3. PICK j \in 1..Len(log[p]) : messages'[k] = log[p][j]
      BY <3>2
    <3> QED
      BY <3>1, <3>3 DEF LogOK
  <2>6. \A k \in 1..Len(messages') : Copy(messages'[k]) = messages'[k]
    <3> TAKE k \in 1..Len(messages')
    <3>1. messages'[k] \in Msg
      BY <2>3
    <3>2. messages'[k].local = FALSE
      BY <2>5, <3>1 DEF Msg
    <3> QED
      BY <3>1, <3>2, MessageTypes DEF Copy
  <2>7. ShownOK(messages', calls', Posted)
    BY <2>4, <2>5, <2>6 DEF ShownOK
  <2> QED
    BY <1>1, <1>2, <2>1, <2>2, <2>3, <2>5, <2>7, GhostReplied
<1> QED
  BY <1>3, <1>4

LEMMA GhostGetAck ==
  ASSUME GhostInv, ~exited, NEW i \in 1..Len(calls), calls[i].at \in {"served", "failed"},
         GetAck(i), UNCHANGED <<scenario, remoteVars, news, bounds>>
  PROVE  GhostInv'
<1> DEFINE c == calls[i]
           a == Call("acked", c.peer, 0, FALSE)
<1>1. /\ CallsOK(Rest(i), Posted, sends) /\ c \in CallRec /\ CallOK(c, Posted, sends)
      /\ messages \in Seq(Msg)
      /\ sends \in Nat /\ threads \subseteq Peer /\ c.threads \subseteq Peer
      /\ view.kind \in {"list", "thread", "newThread"}
      /\ view.kind # "list" => view.peer \in Peer
      /\ \A k \in 1..Len(messages) : messages[k].by = "me" => messages[k].n <= sends
  BY GhostLeaves
<1>2. /\ UNCHANGED <<view, messages, exited>>
      /\ threads' \subseteq Peer /\ c.op \in {"ack", "acked"}
      /\ calls' = Rest(i) \/ calls' = Append(Rest(i), a)
  BY <1>1 DEF GetAck
<1>3. exited' \in BOOLEAN
  BY <1>2 DEF GhostInv, AppTypes
<1>4. c.peer \in Peer /\ c.n = 0
  <2>1. c.n \in Nat
    BY <1>1 DEF CallRec
  <2> QED
    BY <1>1, <1>2, <2>1 DEF CallOK
<1>5. a \in CallRec /\ a.n = 0 /\ CallOK(a, Posted, sends)
  BY <1>1, <1>4, PlainCall
<1> HIDE DEF a
<1>6. /\ CallsOK(calls', Posted, sends)
      /\ \A n \in Nat : SendsMsg(Rest(i), n) => SendsMsg(calls', n)
  <2> DEFINE r == Rest(i)
  <2>1. CallsOK(r, Posted, sends)
    BY <1>1
  <2> HIDE DEF r
  <2>2. /\ CallsOK(Append(r, a), Posted, sends)
        /\ \A n \in Nat : SendsMsg(r, n) => SendsMsg(Append(r, a), n)
    BY <1>1, <1>5, <2>1, CallsWith
  <2>3. calls' = r \/ calls' = Append(r, a)
    BY <1>2 DEF r
  <2>4. /\ CallsOK(calls', Posted, sends)
        /\ \A n \in Nat : SendsMsg(r, n) => SendsMsg(calls', n)
    BY <2>1, <2>2, <2>3
  <2> QED
    BY <2>4 DEF r
<1>7. ShownOK(messages, calls', Posted)
  <2>1. ~(c.n > 0)
    BY <1>4
  <2> QED
    BY <1>6, <2>1, GhostStays
<1> QED
  BY <1>1, <1>2, <1>3, <1>6, <1>7, GhostReplied

LEMMA GhostGetNews ==
  ASSUME GhostInv, ~exited, NEW i \in 1..Len(calls), calls[i].at \in {"served", "failed"},
         GetNews(i), UNCHANGED <<scenario, remoteVars, news, bounds>>
  PROVE  GhostInv'
<1> DEFINE c == calls[i]
<1>1. /\ CallsOK(Rest(i), Posted, sends) /\ c \in CallRec /\ CallOK(c, Posted, sends)
      /\ messages \in Seq(Msg)
      /\ sends \in Nat /\ threads \subseteq Peer /\ c.threads \subseteq Peer
      /\ view.kind \in {"list", "thread", "newThread"}
      /\ view.kind # "list" => view.peer \in Peer
      /\ \A k \in 1..Len(messages) : messages[k].by = "me" => messages[k].n <= sends
  BY GhostLeaves
<1>2. UNCHANGED <<view, messages>> /\ threads' \subseteq Peer /\ c.op = "news"
  BY <1>1 DEF GetNews
<1>3. exited' \in BOOLEAN
  BY DEF GetNews
<1>4. ~(c.n > 0)
  BY <1>1, <1>2 DEF CallOK
<1>5. /\ CallsOK(calls', Posted, sends)
      /\ ~exited' => \A n \in Nat : SendsMsg(Rest(i), n) => SendsMsg(calls', n)
  <2>1. CASE c.at = "served" /\ view.kind = "thread"
    <3> DEFINE b == lastLoaded # view.peer
    <3>1. /\ calls' = Rest(i) \o <<Call("messages", view.peer, 0, b),
                                   Call("ack", view.peer, 0, FALSE)>>
          /\ view.peer \in Peer /\ b \in BOOLEAN
      BY <1>1, <2>1 DEF GetNews, ShowThread
    <3> HIDE DEF b
    <3> QED
      BY <1>1, <3>1, CallsShow
  <2>2. CASE ~(c.at = "served" /\ view.kind = "thread")
    <3>1. calls' = IF exited' THEN <<>> ELSE Rest(i)
      BY <2>2 DEF GetNews
    <3> QED
      BY <1>1, <3>1, NoCalls
  <2> QED
    BY <2>1, <2>2
<1>6. ~exited' => ShownOK(messages, calls', Posted)
  BY <1>4, <1>5, GhostStays
<1> QED
  BY <1>1, <1>2, <1>3, <1>5, <1>6, GhostReplied

(* A message that was not sent is taken back. *)
LEMMA GhostTakenBack ==
  ASSUME GhostInv, ~exited, NEW i \in 1..Len(calls),
         messages' = Without(calls[i].n), calls' = Rest(i), UNCHANGED <<view, threads, exited>>,
         UNCHANGED <<scenario, remoteVars, news, bounds>>
  PROVE  GhostInv'
<1> DEFINE n == calls[i].n
           w == Without(n)
<1>1. /\ CallsOK(Rest(i), Posted, sends) /\ calls[i] \in CallRec
      /\ \A k \in Nat : SendsMsg(calls, k) => k = n \/ SendsMsg(Rest(i), k)
      /\ messages \in Seq(Msg) /\ ShownOK(messages, calls, Posted)
      /\ threads \subseteq Peer
      /\ view.kind \in {"list", "thread", "newThread"}
      /\ view.kind # "list" => view.peer \in Peer
      /\ \A k \in 1..Len(messages) : messages[k].by = "me" => messages[k].n <= sends
  BY GhostLeaves
<1>2. n \in Nat
  BY <1>1 DEF CallRec
<1>3. exited' \in BOOLEAN
  BY DEF GhostInv, AppTypes
<1>4. messages' = w
  OBVIOUS
<1> HIDE DEF n
<1>5. /\ w \in Seq(Msg)
      /\ ShownOK(w, Rest(i), Posted)
      /\ \A j \in 1..Len(w) : \E a \in 1..Len(messages) : w[j] = messages[a]
  BY <1>1, <1>2, ShownWithout
<1> HIDE DEF w
<1>6. \A k \in 1..Len(w) : w[k].by = "me" => w[k].n <= sends
  BY <1>1, <1>5
<1> QED
  BY <1>1, <1>3, <1>4, <1>5, <1>6, GhostReplied

LEMMA GhostGetSent ==
  ASSUME GhostInv, ~exited, NEW i \in 1..Len(calls), calls[i].at \in {"served", "failed"},
         GetSent(i), UNCHANGED <<scenario, remoteVars, news, bounds>>
  PROVE  GhostInv'
<1> DEFINE c == calls[i]
<1>1. /\ CallsOK(Rest(i), Posted, sends) /\ CallOK(c, Posted, sends)
      /\ messages \in Seq(Msg) /\ threads \subseteq Peer
      /\ view.kind \in {"list", "thread", "newThread"}
      /\ view.kind # "list" => view.peer \in Peer
      /\ \A k \in 1..Len(messages) : messages[k].by = "me" => messages[k].n <= sends
  BY GhostLeaves
<1>2. calls' = Rest(i) /\ UNCHANGED <<view, threads, exited>> /\ c.op = "send"
  BY DEF GetSent
<1>3. CASE c.at = "served"
  <2>1. messages' = messages /\ Message("me", c.n, FALSE) \in Posted
    BY <1>1, <1>2, <1>3 DEF GetSent, CallOK, Sends
  <2>2. ShownOK(messages, Rest(i), Posted)
    BY <2>1, GhostStays
  <2>3. exited' \in BOOLEAN
    BY <1>2 DEF GhostInv, AppTypes
  <2> QED
    BY <1>1, <1>2, <2>1, <2>2, <2>3, GhostReplied
<1>4. CASE c.at = "failed"
  <2>1. messages' = Without(c.n)
    BY <1>4 DEF GetSent
  <2> QED
    BY <1>2, <2>1, GhostTakenBack
<1> QED
  BY <1>3, <1>4

LEMMA GhostGetFirst ==
  ASSUME GhostInv, ~exited, NEW i \in 1..Len(calls), calls[i].at \in {"served", "failed"},
         GetFirst(i), UNCHANGED <<scenario, remoteVars, news, bounds>>
  PROVE  GhostInv'
<1> DEFINE c == calls[i]
<1>1. /\ CallsOK(Rest(i), Posted, sends) /\ c \in CallRec /\ CallOK(c, Posted, sends)
      /\ \A k \in 1..Len(Rest(i)) : Rest(i)[k].n = c.n => c.n = 0
      /\ messages \in Seq(Msg) /\ sends \in Nat
      /\ threads \subseteq Peer /\ c.threads \subseteq Peer
      /\ view.kind \in {"list", "thread", "newThread"}
      /\ view.kind # "list" => view.peer \in Peer
      /\ \A k \in 1..Len(messages) : messages[k].by = "me" => messages[k].n <= sends
  BY GhostLeaves
<1>2. UNCHANGED exited /\ c.op \in {"first", "fetched"}
  BY DEF GetFirst
<1>3. exited' \in BOOLEAN
  BY <1>2 DEF GhostInv, AppTypes
<1>4. c.peer \in Peer /\ c.n \in Nat /\ c.n > 0 /\ c.n <= sends
  BY <1>1, <1>2 DEF CallOK, CallRec
<1>5. CASE c.at = "failed"
  <2>1. messages' = Without(c.n) /\ calls' = Rest(i) /\ UNCHANGED <<view, threads, exited>>
    BY <1>5 DEF GetFirst
  <2> QED
    BY <2>1, GhostTakenBack
<1>6. CASE c.at = "served" /\ c.op = "first"
  <2> DEFINE d == Call("fetched", c.peer, c.n, FALSE)
  <2>1. /\ messages' = messages /\ calls' = Append(Rest(i), d)
        /\ UNCHANGED <<view, threads>>
        /\ Message("me", c.n, FALSE) \in Posted
    BY <1>1, <1>6 DEF GetFirst, CallOK, Sends
  <2>2. /\ d \in CallRec /\ d.op = "fetched" /\ d.peer = c.peer /\ d.n = c.n
        /\ d.messages = <<>>
    <3> DEFINE p == c.peer
               n == c.n
    <3>1. "fetched" \in Answers /\ p \in Peer \union {None} /\ n \in Nat
      BY <1>4 DEF Answers
    <3> HIDE DEF p, n
    <3>2. \A b \in BOOLEAN :
            /\ Call("fetched", p, n, b) \in CallRec
            /\ Call("fetched", p, n, b).op = "fetched" /\ Call("fetched", p, n, b).peer = p
            /\ Call("fetched", p, n, b).n = n /\ Call("fetched", p, n, b).messages = <<>>
      BY <3>1, CallTypes
    <3> QED
      BY <3>2 DEF p, n
  <2> HIDE DEF d
  <2>3. CallOK(d, Posted, sends)
    <3>1. 1..Len(d.messages) = {}
      BY <2>2
    <3>2. Once(d.messages)
      BY <3>1 DEF Once
    <3> QED
      BY <1>4, <2>1, <2>2, <3>1, <3>2 DEF CallOK, Sends
  <2>4. /\ CallsOK(calls', Posted, sends)
        /\ \A n \in Nat : SendsMsg(Rest(i), n) => SendsMsg(calls', n)
    BY <1>1, <2>1, <2>2, <2>3, CallsWith
  <2>5. ShownOK(messages, calls', Posted)
    BY <2>1, <2>4, GhostStays
  <2> QED
    BY <1>1, <1>2, <1>3, <2>1, <2>4, <2>5, GhostReplied
<1>7. CASE c.at = "served" /\ c.op = "fetched"
  <2> DEFINE b == lastLoaded # c.peer
  <2>1. /\ messages' = messages /\ threads' = c.threads /\ view' = Thread(c.peer)
        /\ calls' = Rest(i) \o <<Call("messages", c.peer, 0, b), Call("ack", c.peer, 0, FALSE)>>
        /\ b \in BOOLEAN
    BY <1>7 DEF GetFirst, ShowThread
  <2>2. Message("me", c.n, FALSE) \in Posted
    BY <1>1, <1>7 DEF CallOK
  <2> HIDE DEF b
  <2>3. /\ CallsOK(calls', Posted, sends)
        /\ \A n \in Nat : SendsMsg(Rest(i), n) => SendsMsg(calls', n)
    BY <1>1, <1>4, <2>1, CallsShow
  <2>4. ShownOK(messages, calls', Posted)
    BY <2>2, <2>3, GhostStays
  <2>5. view'.kind = "thread" /\ view'.peer = c.peer
    BY <2>1 DEF Thread
  <2> QED
    BY <1>1, <1>3, <1>4, <2>1, <2>3, <2>4, <2>5, GhostReplied
<1> QED
  BY <1>2, <1>5, <1>6, <1>7

LEMMA GhostReply ==
  ASSUME GhostInv, NEW i \in 1..Len(calls), Reply(i)
  PROVE  GhostInv'
<1>1. /\ ~exited /\ calls[i].at \in {"served", "failed"}
      /\ UNCHANGED <<scenario, remoteVars, news, bounds>>
      /\ GetMessages(i) \/ GetAck(i) \/ GetNews(i) \/ GetSent(i) \/ GetFirst(i)
  BY DEF Reply
<1> QED
  BY <1>1, GhostGetMessages, GhostGetAck, GhostGetNews, GhostGetSent, GhostGetFirst

(* Where every optimistic message is (app.tsx:211-231, 260-284): shown    *)
(* once, posted once or carried by the one call that sends it, and what a  *)
(* fetch has read the relay has.                                           *)
THEOREM TuiAppGhosts == Spec => []GhostInv
<1>1. GhostInv /\ [Next]_vars => GhostInv'
  <2> SUFFICES ASSUME GhostInv, [Next]_vars PROVE GhostInv'
    OBVIOUS
  <2>1. CASE UNCHANGED vars
    <3>1. AppTypes'
      BY <2>1 DEF GhostInv, AppTypes, vars, remoteVars, viewVars, bounds
    <3> QED
      BY <2>1, <3>1, GhostElsewhere DEF vars, remoteVars, viewVars, bounds
  <2>2. DOMAIN calls = 1..Len(calls)
    BY DEF GhostInv, AppTypes
  <2>3. ASSUME NEW p \in Peer, PeerPosts(p) \/ Open(p) \/ OpenNew(p) PROVE GhostInv'
    BY <2>3, GhostPeerPosts, GhostOpen, GhostOpenNew
  <2>4. ASSUME NEW i \in DOMAIN calls, Serve(i) \/ Reply(i) PROVE GhostInv'
    BY <2>2, <2>4, GhostServe, GhostReply
  <2>5. CASE StopDaemon \/ StartDaemon
    BY <2>5, GhostStopDaemon, GhostStartDaemon
  <2>6. CASE Escape \/ Submit \/ HandleNews
    BY <2>6, GhostEscape, GhostSubmit, GhostHandleNews
  <2> QED
    BY <2>1, <2>3, <2>4, <2>5, <2>6 DEF Next
<1> QED
  BY <1>1, InitGhost, PTL DEF Spec

(* The open thread shows nothing that was neither posted nor is being      *)
(* sent, and nothing twice, in whatever order calls are answered           *)
(* (app.tsx:174-181, 211-231).                                             *)
THEOREM TuiAppNoGhosts == Spec => []NoGhosts
<1>1. GhostInv => NoGhosts
  <2> SUFFICES ASSUME GhostInv, ~exited PROVE NoGhosts
    BY DEF NoGhosts
  <2>1. /\ ShownOK(messages, calls, Posted) /\ messages \in Seq(Msg) /\ calls \in Seq(CallRec)
        /\ DOMAIN messages = 1..Len(messages) /\ DOMAIN calls = 1..Len(calls)
    BY DEF GhostInv, AppTypes
  <2>2. ASSUME NEW i \in DOMAIN messages
        PROVE  \/ [messages[i] EXCEPT !.local = FALSE] \in Posted
               \/ messages[i].local /\ \E j \in DOMAIN calls : calls[j].n = messages[i].n
    <3>1. messages[i] \in Msg
      BY <2>1
    <3>2. Copy(messages[i]) = [messages[i] EXCEPT !.local = FALSE]
      BY <3>1, MessageTypes
    <3>3. \/ Copy(messages[i]) \in Posted
          \/ messages[i].local /\ \E j \in 1..Len(calls) : calls[j].n = messages[i].n
      BY <2>1 DEF ShownOK, SendsMsg
    <3> QED
      BY <2>1, <3>2, <3>3
  <2>3. ASSUME NEW i \in DOMAIN messages, NEW j \in DOMAIN messages,
               <<messages[i].by, messages[i].n>> = <<messages[j].by, messages[j].n>>
        PROVE  i = j
    BY <2>1, <2>3 DEF ShownOK, Once, Same
  <2> QED
    BY <2>2, <2>3 DEF NoGhosts
<1> QED
  BY <1>1, TuiAppGhosts, PTL

-----------------------------------------------------------------------------
(* Answers in order. *)

(* What is one's own does not count. *)
LEMMA FromPeersAppend ==
  ASSUME NEW s \in Seq(Msg), NEW m \in Msg, m.by = "me"
  PROVE  FromPeers(Append(s, m)) = FromPeers(s)
<1> DEFINE t == Append(s, m)
           at == {i \in DOMAIN s : s[i].by # "me"}
           more == {i \in DOMAIN t : t[i].by # "me"}
<1>1. /\ t \in Seq(Msg) /\ Len(s) \in Nat /\ Len(t) = Len(s) + 1
      /\ \A k \in 1..Len(s) : t[k] = s[k]
      /\ t[Len(s) + 1] = m
      /\ DOMAIN s = 1..Len(s) /\ DOMAIN t = 1..Len(t)
  BY OneMore
<1>2. FromPeers(t) = Kept(t, more) /\ FromPeers(s) = Kept(s, at)
  BY DEF FromPeers
<1> HIDE DEF t
<1>3. \A k \in 1..Len(s) : k \in at <=> k \in more
  BY <1>1
<1>4. Len(s) + 1 \notin more
  BY <1>1
<1> HIDE DEF at, more
<1>5. Kept(Append(s, m), more) = Kept(s, at)
  BY <1>3, <1>4, KeptAppend
<1> QED
  BY <1>2, <1>5 DEF t

(* A call made at the end. *)
LEMMA OrderAdded ==
  ASSUME NEW cs \in Seq(CallRec), InTurn(cs), NEW c \in CallRec, c.at = "asked"
  PROVE  LET all == Append(cs, c)
         IN  /\ all \in Seq(CallRec) /\ InTurn(all)
             /\ ListComes(cs) \/ Lists(c) => ListComes(all)
             /\ \A list : Heard(all, list) = Heard(cs, list)
             /\ NewsComes(cs) \/ c.op = "news" => NewsComes(all)
             /\ \A p, shown, thread :
                  (IF c.op = "messages" THEN c.peer = p ELSE FetchIsOf(cs, p, shown, thread))
                  => FetchIsOf(all, p, shown, thread)
<1> DEFINE all == Append(cs, c)
<1>1. /\ all \in Seq(CallRec) /\ Len(cs) \in Nat /\ Len(all) = Len(cs) + 1
      /\ \A k \in 1..Len(cs) : all[k] = cs[k]
      /\ all[Len(cs) + 1] = c
  BY OneMore
<1> HIDE DEF all
<1>2. /\ \A k \in 1..Len(all) : k \in 1..Len(cs) \/ k = Len(cs) + 1
      /\ \A k \in 1..Len(cs) : k \in 1..Len(all)
      /\ Len(cs) + 1 \in 1..Len(all)
      /\ \A k \in 1..Len(cs) : Len(cs) + 1 > k
  BY <1>1
<1>3. InTurn(all)
  <2> SUFFICES ASSUME NEW k \in 1..Len(all)
               PROVE  all[k].at = "asked" \/ (k = 1 /\ all[k].at = "served")
    BY DEF InTurn
  <2>1. CASE k \in 1..Len(cs)
    BY <1>1, <2>1 DEF InTurn
  <2>2. CASE k = Len(cs) + 1
    BY <1>1, <2>2
  <2> QED
    BY <1>2, <2>1, <2>2
<1>4. ListComes(cs) \/ Lists(c) => ListComes(all)
  <2>1. ASSUME ListComes(cs) PROVE ListComes(all)
    BY <1>1, <1>2, <2>1 DEF ListComes
  <2>2. ASSUME Lists(c) PROVE ListComes(all)
    BY <1>1, <1>2, <2>2 DEF ListComes
  <2> QED
    BY <2>1, <2>2
<1>5. ASSUME NEW list PROVE Heard(all, list) = Heard(cs, list)
  <2>1. CASE Len(cs) > 0
    <3>1. 1 \in 1..Len(cs) /\ Len(all) > 0 /\ all[1] = cs[1]
      BY <1>1, <2>1
    <3> QED
      BY <2>1, <3>1 DEF Heard
  <2>2. CASE ~(Len(cs) > 0)
    <3>1. Len(cs) + 1 = 1 /\ all[1] = c
      BY <1>1, <2>2
    <3> QED
      BY <2>2, <3>1 DEF Heard
  <2> QED
    BY <2>1, <2>2
<1>6. NewsComes(cs) \/ c.op = "news" => NewsComes(all)
  <2>1. ASSUME NewsComes(cs) PROVE NewsComes(all)
    BY <1>1, <1>2, <2>1 DEF NewsComes
  <2>2. ASSUME c.op = "news" PROVE NewsComes(all)
    BY <1>1, <1>2, <2>2 DEF NewsComes
  <2> QED
    BY <2>1, <2>2
<1>7. ASSUME NEW p, NEW shown, NEW thread,
             IF c.op = "messages" THEN c.peer = p ELSE FetchIsOf(cs, p, shown, thread)
      PROVE  FetchIsOf(all, p, shown, thread)
  <2>1. CASE c.op = "messages"
    <3>1. ASSUME NEW j \in 1..Len(all), LastFetch(all, j) PROVE j = Len(cs) + 1
      BY <1>1, <1>2, <2>1, <3>1 DEF LastFetch
    <3>2. ASSUME NEW j \in 1..Len(all), LastFetch(all, j)
          PROVE  /\ all[j].peer = p
                 /\ all[j].at = "served" => FromPeers(all[j].messages) = FromPeers(thread)
      <4>1. all[j] = c /\ c.peer = p /\ c.at # "served"
        BY <1>1, <1>7, <2>1, <3>1, <3>2
      <4> QED
        BY <4>1
    <3>3. ~\A j \in 1..Len(all) : all[j].op # "messages"
      BY <1>1, <1>2, <2>1
    <3> QED
      BY <3>2, <3>3 DEF FetchIsOf
  <2>2. CASE c.op # "messages"
    <3>1. FetchIsOf(cs, p, shown, thread)
      BY <1>7, <2>2
    <3>2. ASSUME NEW j \in 1..Len(all), LastFetch(all, j)
          PROVE  /\ all[j].peer = p
                 /\ all[j].at = "served" => FromPeers(all[j].messages) = FromPeers(thread)
      <4>1. j \in 1..Len(cs) /\ all[j] = cs[j]
        BY <1>1, <1>2, <2>2, <3>2 DEF LastFetch
      <4>2. LastFetch(cs, j)
        BY <1>1, <1>2, <3>2, <4>1 DEF LastFetch
      <4> QED
        BY <3>1, <4>1, <4>2 DEF FetchIsOf
    <3>3. (\A j \in 1..Len(all) : all[j].op # "messages") =>
            \A j \in 1..Len(cs) : cs[j].op # "messages"
      BY <1>1, <1>2
    <3>4. (\A j \in 1..Len(all) : all[j].op # "messages") => FromPeers(shown) = FromPeers(thread)
      BY <3>1, <3>3 DEF FetchIsOf
    <3> QED
      BY <3>2, <3>4 DEF FetchIsOf
  <2> QED
    BY <2>1, <2>2
<1> QED
  BY <1>1, <1>3, <1>4, <1>5, <1>6, <1>7 DEF all

(* ShowThread's two calls at the end. *)
LEMMA OrderShown ==
  ASSUME NEW cs \in Seq(CallRec), InTurn(cs), listening, NEW p \in Peer, NEW b \in BOOLEAN
  PROVE  LET all == cs \o <<Call("messages", p, 0, b), Call("ack", p, 0, FALSE)>>
         IN  /\ InTurn(all)
             /\ ListComes(cs) => ListComes(all)
             /\ \A list : Heard(all, list) = Heard(cs, list)
             /\ \A shown, thread : FetchIsOf(all, p, shown, thread)
<1> DEFINE c == Call("messages", p, 0, b)
           d == Call("ack", p, 0, FALSE)
           one == Append(cs, c)
           all == cs \o <<c, d>>
<1>1. /\ c \in CallRec /\ c.op = "messages" /\ c.peer = p /\ c.at = "asked"
      /\ d \in CallRec /\ d.op = "ack" /\ d.at = "asked"
  <2>1. /\ "messages" \in Answers /\ "ack" \in Answers
        /\ p \in Peer \union {None} /\ 0 \in Nat /\ FALSE \in BOOLEAN
    BY DEF Answers
  <2>2. \A op \in Answers, e \in BOOLEAN :
          /\ Call(op, p, 0, e) \in CallRec /\ Call(op, p, 0, e).op = op
          /\ Call(op, p, 0, e).peer = p
          /\ Call(op, p, 0, e).at = (IF listening THEN "asked" ELSE "failed")
    BY <2>1, CallTypes
  <2> QED
    BY <2>1, <2>2
<1> HIDE DEF c, d
<1>2. all = Append(one, d)
  BY <1>1, TwoAppends
<1>3. /\ one \in Seq(CallRec) /\ InTurn(one)
      /\ ListComes(cs) => ListComes(one)
      /\ \A list : Heard(one, list) = Heard(cs, list)
      /\ \A shown, thread : FetchIsOf(one, p, shown, thread)
  BY <1>1, OrderAdded
<1> HIDE DEF one, all
<1>4. /\ InTurn(Append(one, d))
      /\ ListComes(one) => ListComes(Append(one, d))
      /\ \A list : Heard(Append(one, d), list) = Heard(one, list)
      /\ \A shown, thread : FetchIsOf(one, p, shown, thread) =>
                            FetchIsOf(Append(one, d), p, shown, thread)
  BY <1>1, <1>3, OrderAdded
<1>5. /\ InTurn(all)
      /\ ListComes(cs) => ListComes(all)
      /\ \A list : Heard(all, list) = Heard(cs, list)
      /\ \A shown, thread : FetchIsOf(all, p, shown, thread)
  BY <1>2, <1>3, <1>4
<1> QED
  BY <1>5 DEF all, c, d

(* The first call, once answered, leaves. *)
LEMMA OrderLeft ==
  ASSUME NEW cs \in Seq(CallRec), InTurn(cs), Len(cs) > 0, cs[1].at = "served"
  PROVE  LET rest == RemoveAt(cs, 1)
         IN  /\ rest \in Seq(CallRec) /\ InTurn(rest)
             /\ ListComes(cs) => ListComes(rest)
             /\ \A list : Heard(rest, list) = list
             /\ NewsComes(cs) /\ cs[1].op # "news" => NewsComes(rest)
             /\ \A p, shown, thread : FetchIsOf(cs, p, shown, thread) =>
                  FetchIsOf(rest, p, IF cs[1].op = "messages" THEN cs[1].messages ELSE shown,
                            thread)
<1> DEFINE rest == RemoveAt(cs, 1)
<1>1. Len(cs) \in Nat /\ 1 \in 1..Len(cs)
  OBVIOUS
<1>2. /\ rest \in Seq(CallRec) /\ Len(rest) = Len(cs) - 1 /\ Len(rest) \in Nat
      /\ \A k \in 1..Len(rest) : rest[k] = cs[k + 1] /\ k + 1 \in 1..Len(cs) /\ k + 1 # 1
  <2>1. /\ rest \in Seq(CallRec) /\ Len(rest) = Len(cs) - 1
        /\ \A k \in 1..(Len(cs) - 1) : rest[k] = cs[IF k < 1 THEN k ELSE k + 1]
    BY <1>1, Removed
  <2> HIDE DEF rest
  <2>2. ASSUME NEW k \in 1..Len(rest)
        PROVE  rest[k] = cs[k + 1] /\ k + 1 \in 1..Len(cs) /\ k + 1 # 1
    <3>1. ~(k < 1) /\ k \in 1..(Len(cs) - 1)
      BY <1>1, <2>1
    <3>2. rest[k] = cs[k + 1]
      BY <2>1, <3>1
    <3>3. k + 1 \in 1..Len(cs) /\ k + 1 # 1
      BY <1>1, <3>1
    <3> QED
      BY <3>2, <3>3
  <2> QED
    BY <2>1, <2>2
<1> HIDE DEF rest
<1>3. \A j \in 1..Len(cs) : j # 1 => j - 1 \in 1..Len(rest) /\ rest[j - 1] = cs[j]
  <2> TAKE j \in 1..Len(cs)
  <2> SUFFICES ASSUME j # 1 PROVE j - 1 \in 1..Len(rest) /\ rest[j - 1] = cs[j]
    OBVIOUS
  <2>1. j - 1 \in 1..Len(rest) /\ (j - 1) + 1 = j
    BY <1>1, <1>2
  <2> QED
    BY <1>2, <2>1
<1>4. \A k \in 1..Len(rest) : rest[k].at = "asked"
  <2> TAKE k \in 1..Len(rest)
  <2>1. rest[k] = cs[k + 1] /\ k + 1 \in 1..Len(cs) /\ k + 1 # 1
    BY <1>2
  <2> QED
    BY <2>1 DEF InTurn
<1>5. InTurn(rest)
  BY <1>4 DEF InTurn
<1>6. ASSUME ListComes(cs) PROVE ListComes(rest)
  <2>1. PICK j \in 1..Len(cs) : Lists(cs[j]) /\ cs[j].at = "asked"
    BY <1>6 DEF ListComes
  <2>2. j # 1
    BY <2>1
  <2> QED
    BY <1>3, <2>1, <2>2 DEF ListComes
<1>7. ASSUME NEW list PROVE Heard(rest, list) = list
  <2>1. Len(rest) > 0 => rest[1].at = "asked"
    BY <1>2, <1>4
  <2> QED
    BY <2>1 DEF Heard
<1>8. ASSUME NewsComes(cs), cs[1].op # "news" PROVE NewsComes(rest)
  <2>1. PICK j \in 1..Len(cs) : cs[j].op = "news"
    BY <1>8 DEF NewsComes
  <2>2. j # 1
    BY <1>8, <2>1
  <2> QED
    BY <1>3, <2>1, <2>2 DEF NewsComes
<1>9. ASSUME NEW p, NEW shown, NEW thread, FetchIsOf(cs, p, shown, thread)
      PROVE  FetchIsOf(rest, p, IF cs[1].op = "messages" THEN cs[1].messages ELSE shown, thread)
  <2>1. ASSUME NEW k \in 1..Len(rest), LastFetch(rest, k)
        PROVE  rest[k].peer = p /\ rest[k].at # "served"
    <3>1. rest[k] = cs[k + 1] /\ k + 1 \in 1..Len(cs)
      BY <1>2
    <3>2. ASSUME NEW j \in 1..Len(cs), j > k + 1 PROVE cs[j].op # "messages"
      <4>1. j - 1 \in 1..Len(rest) /\ rest[j - 1] = cs[j] /\ j - 1 > k
        BY <1>1, <1>2, <1>3, <3>2
      <4> QED
        BY <2>1, <4>1 DEF LastFetch
    <3>3. LastFetch(cs, k + 1)
      BY <2>1, <3>1, <3>2 DEF LastFetch
    <3>4. cs[k + 1].peer = p
      BY <1>9, <3>1, <3>3 DEF FetchIsOf
    <3>5. rest[k].at = "asked"
      BY <1>4
    <3> QED
      BY <3>1, <3>4, <3>5
  <2>2. ASSUME \A k \in 1..Len(rest) : rest[k].op # "messages"
        PROVE  FromPeers(IF cs[1].op = "messages" THEN cs[1].messages ELSE shown) = FromPeers(thread)
    <3>1. \A j \in 1..Len(cs) : j # 1 => cs[j].op # "messages"
      BY <1>3, <2>2
    <3>2. CASE cs[1].op = "messages"
      <4>1. LastFetch(cs, 1)
        BY <1>1, <3>1, <3>2 DEF LastFetch
      <4>2. FromPeers(cs[1].messages) = FromPeers(thread)
        BY <1>1, <1>9, <4>1 DEF FetchIsOf
      <4> QED
        BY <3>2, <4>2
    <3>3. CASE cs[1].op # "messages"
      <4>1. \A j \in 1..Len(cs) : cs[j].op # "messages"
        BY <3>1, <3>3
      <4>2. FromPeers(shown) = FromPeers(thread)
        BY <1>9, <4>1 DEF FetchIsOf
      <4> QED
        BY <3>3, <4>2
    <3> QED
      BY <3>2, <3>3
  <2> QED
    BY <2>1, <2>2 DEF FetchIsOf
<1> QED
  BY <1>2, <1>5, <1>6, <1>7, <1>8, <1>9 DEF rest

-----------------------------------------------------------------------------
(* OrderInv: the steps. *)

InOrderNow ==
  /\ listening /\ ~exited
  /\ InTurn(calls)
  /\ news > 0 \/ ListComes(calls) \/ Heard(calls, threads) = known
  /\ view.kind = "thread" =>
       news > 0 \/ NewsComes(calls) \/ FetchIsOf(calls, view.peer, messages, log[view.peer])

LEMMA OrderUses ==
  ASSUME GhostInv, InOrderNow, Orderly
  PROVE  /\ calls \in Seq(CallRec) /\ Len(calls) \in Nat /\ DOMAIN calls = 1..Len(calls)
         /\ InTurn(calls) /\ listening /\ ~exited /\ ~Fault
         /\ news \in Nat /\ messages \in Seq(Msg) /\ log \in [Peer -> Seq(Msg)]
         /\ view.kind # "list" => view.peer \in Peer
         /\ scenario.inOrder
<1>1. AppTypes
  BY DEF GhostInv
<1>2. faults \in Nat /\ scenario.faults = 0 /\ scenario.inOrder
  BY <1>1 DEF AppTypes, Orderly
<1>3. ~Fault
  BY <1>2 DEF Fault
<1> QED
  BY <1>1, <1>2, <1>3 DEF AppTypes, InOrderNow

LEMMA OrderPeerPosts ==
  ASSUME GhostInv, InOrderNow, Orderly, NEW p \in Peer, PeerPosts(p)
  PROVE  InOrderNow'
<1>1. news' = news + 1 /\ UNCHANGED <<listening, exited, calls, view>>
  BY DEF PeerPosts, InOrderNow, viewVars
<1>2. news' > 0
  BY <1>1, OrderUses
<1> QED
  BY <1>1, <1>2 DEF InOrderNow

(* The first call is answered by the daemon. *)
LEMMA OrderServe ==
  ASSUME GhostInv, InOrderNow, Orderly, NEW i \in 1..Len(calls), Serve(i)
  PROVE  InOrderNow'
<1>1. /\ calls \in Seq(CallRec) /\ Len(calls) \in Nat /\ InTurn(calls) /\ ~Fault
      /\ log \in [Peer -> Seq(Msg)]
      /\ view.kind # "list" => view.peer \in Peer
      /\ scenario.inOrder
  BY OrderUses
<1>2. i = 1 /\ calls[1].at = "asked" /\ 1 \in 1..Len(calls)
  BY <1>1 DEF Serve, Turn
<1> DEFINE c == calls[1]
           ms == IF c.op = "messages" THEN log[c.peer] ELSE <<>>
           ts == IF c.op \in {"acked", "news", "fetched"} THEN known ELSE {}
           d == [c EXCEPT !.at = "served", !.messages = ms, !.threads = ts]
<1>3. /\ Answered(1, "served")
      /\ UNCHANGED <<listening, known, news, view, messages, threads, exited>>
      /\ log' = log \/ (Sends(c) /\ log' = [log EXCEPT ![c.peer] =
                                          Append(@, Message("me", c.n, FALSE))])
  BY <1>1, <1>2 DEF Serve, viewVars
<1>4. calls' = [calls EXCEPT ![1] = d]
  BY <1>3 DEF Answered
<1>5. c \in CallRec /\ CallOK(c, Posted, sends)
  BY <1>2 DEF GhostInv, CallsOK
<1>6. d.at = "served" /\ d.op = c.op /\ d.peer = c.peer /\ d.messages = ms /\ d.threads = ts
  <2> HIDE DEF ms, ts, c
  <2> QED
    BY <1>5 DEF CallRec
<1>7. /\ Len(calls') = Len(calls) /\ calls'[1] = d
      /\ \A k \in 1..Len(calls) : k # 1 => calls'[k] = calls[k]
      /\ \A k \in 1..Len(calls) : calls'[k].op = calls[k].op /\ calls'[k].peer = calls[k].peer
  <2> HIDE DEF d
  <2>1. Len(calls') = Len(calls) /\ DOMAIN calls = 1..Len(calls)
    BY <1>1, <1>4
  <2>2. /\ calls'[1] = d
        /\ \A k \in 1..Len(calls) : k # 1 => calls'[k] = calls[k]
    BY <1>2, <1>4, <2>1
  <2> QED
    BY <1>6, <2>1, <2>2
<1> HIDE DEF d
<1>8. InTurn(calls')
  BY <1>1, <1>6, <1>7 DEF InTurn
<1>9. news > 0 \/ ListComes(calls') \/ Heard(calls', threads) = known
  <2>1. CASE Lists(c)
    <3>1. d.threads = known
      BY <1>6, <2>1 DEF Lists
    <3>2. Lists(d)
      BY <1>6, <2>1 DEF Lists
    <3>3. Heard(calls', threads) = known
      BY <1>2, <1>6, <1>7, <3>1, <3>2 DEF Heard
    <3> QED
      BY <3>3
  <2>2. CASE ~Lists(c)
    <3>1. ~Lists(d)
      BY <1>6, <2>2 DEF Lists
    <3>2. Heard(calls', threads) = Heard(calls, threads)
      BY <1>7, <2>2, <3>1 DEF Heard
    <3>3. ASSUME ListComes(calls) PROVE ListComes(calls')
      <4>1. PICK j \in 1..Len(calls) : Lists(calls[j]) /\ calls[j].at = "asked"
        BY <3>3 DEF ListComes
      <4>2. j # 1
        BY <2>2, <4>1
      <4> QED
        BY <1>7, <4>1, <4>2 DEF ListComes
    <3> QED
      BY <3>2, <3>3 DEF InOrderNow
  <2> QED
    BY <2>1, <2>2
<1>10. ASSUME view.kind = "thread"
       PROVE  news > 0 \/ NewsComes(calls') \/ FetchIsOf(calls', view.peer, messages, log'[view.peer])
  <2>1. ASSUME NewsComes(calls) PROVE NewsComes(calls')
    BY <1>7, <2>1 DEF NewsComes
  <2>2. view.peer \in Peer /\ log[view.peer] \in Seq(Msg)
    BY <1>1, <1>10
  <2>3. FromPeers(log'[view.peer]) = FromPeers(log[view.peer])
    <3>1. CASE log'[view.peer] = log[view.peer]
      BY <3>1
    <3>2. CASE Sends(c) /\ log'[view.peer] = Append(log[view.peer], Message("me", c.n, FALSE))
      <4>1. c.n \in Nat
        BY <1>5 DEF CallRec
      <4> DEFINE m == Message("me", c.n, FALSE)
      <4>2. m \in Msg /\ m.by = "me"
        BY <4>1, OwnMessage
      <4> HIDE DEF m
      <4>3. FromPeers(Append(log[view.peer], m)) = FromPeers(log[view.peer])
        BY <2>2, <4>2, FromPeersAppend
      <4> QED
        BY <3>2, <4>3 DEF m
    <3>3. CASE Sends(c) /\ log' = [log EXCEPT ![c.peer] = Append(@, Message("me", c.n, FALSE))]
      <4>1. log'[view.peer] = IF view.peer = c.peer
                              THEN Append(log[view.peer], Message("me", c.n, FALSE))
                              ELSE log[view.peer]
        BY <1>1, <2>2, <3>3
      <4> QED
        BY <3>1, <3>2, <3>3, <4>1
    <3> QED
      BY <1>3, <3>1, <3>3
  <2>4. ASSUME FetchIsOf(calls, view.peer, messages, log[view.peer])
        PROVE  FetchIsOf(calls', view.peer, messages, log'[view.peer])
    <3>1. ASSUME NEW j \in 1..Len(calls'), LastFetch(calls', j)
          PROVE  /\ calls'[j].peer = view.peer
                 /\ calls'[j].at = "served" =>
                      FromPeers(calls'[j].messages) = FromPeers(log'[view.peer])
      <4>1. LastFetch(calls, j) /\ j \in 1..Len(calls)
        BY <1>7, <3>1 DEF LastFetch
      <4>2. calls[j].peer = view.peer
        BY <2>4, <4>1 DEF FetchIsOf
      <4>3. CASE j = 1
        <5>1. c.op = "messages" /\ c.peer = view.peer
          BY <4>1, <4>2, <4>3 DEF LastFetch
        <5>2. d.messages = log[view.peer]
          BY <1>6, <5>1
        <5> QED
          BY <1>7, <2>3, <4>2, <4>3, <5>2
      <4>4. CASE j # 1
        <5>1. calls'[j].at # "served"
          BY <1>1, <1>7, <4>1, <4>4 DEF InTurn
        <5> QED
          BY <1>7, <4>1, <4>2, <5>1
      <4> QED
        BY <4>3, <4>4
    <3>2. ASSUME \A j \in 1..Len(calls') : calls'[j].op # "messages"
          PROVE  FromPeers(messages) = FromPeers(log'[view.peer])
      <4>1. \A j \in 1..Len(calls) : calls[j].op # "messages"
        BY <1>7, <3>2
      <4> QED
        BY <2>3, <2>4, <4>1 DEF FetchIsOf
    <3> QED
      BY <3>1, <3>2 DEF FetchIsOf
  <2> QED
    BY <1>10, <2>1, <2>4 DEF InOrderNow
<1> QED
  BY <1>3, <1>8, <1>9, <1>10 DEF InOrderNow

LEMMA OrderOpen ==
  ASSUME GhostInv, InOrderNow, Orderly, NEW p \in Peer, Open(p)
  PROVE  InOrderNow'
<1>1. calls \in Seq(CallRec) /\ InTurn(calls) /\ listening
  BY OrderUses
<1> DEFINE b == lastLoaded # p
<1>2. /\ calls' = calls \o <<Call("messages", p, 0, b), Call("ack", p, 0, FALSE)>>
      /\ view' = Thread(p) /\ b \in BOOLEAN
      /\ UNCHANGED <<listening, exited, news, known, threads, messages, log>>
  BY DEF Open, ShowThread, remoteVars
<1> HIDE DEF b
<1>3. /\ InTurn(calls')
      /\ ListComes(calls) => ListComes(calls')
      /\ \A list : Heard(calls', list) = Heard(calls, list)
      /\ \A shown, thread : FetchIsOf(calls', p, shown, thread)
  BY <1>1, <1>2, OrderShown
<1>4. view'.peer = p
  BY <1>2 DEF Thread
<1>5. FetchIsOf(calls', view'.peer, messages', log'[view'.peer])
  BY <1>3, <1>4
<1>6. Heard(calls', threads) = Heard(calls, threads)
  BY <1>3
<1> QED
  BY <1>2, <1>3, <1>5, <1>6 DEF InOrderNow

(* The list, or the first message to a peer, shows no thread. *)
LEMMA OrderNoThread ==
  ASSUME InOrderNow, view'.kind # "thread",
         UNCHANGED <<listening, exited, calls, news, known, threads>>
  PROVE  InOrderNow'
  BY DEF InOrderNow

LEMMA OrderSubmit ==
  ASSUME GhostInv, InOrderNow, Orderly, Submit
  PROVE  InOrderNow'
<1>1. /\ calls \in Seq(CallRec) /\ InTurn(calls) /\ listening /\ messages \in Seq(Msg)
      /\ view.kind # "list" => view.peer \in Peer
  BY OrderUses
<1>2. /\ sends' = sends + 1
      /\ messages' = Append(messages, Message("me", sends', TRUE))
      /\ UNCHANGED <<listening, exited, news, known, threads, log, view>>
  BY DEF Submit, remoteVars
<1>3. PICK op \in {"send", "first"} : /\ calls' = Append(calls, Call(op, view.peer, sends', FALSE))
                                      /\ view.peer \in Peer
  BY <1>1 DEF Submit
<1> DEFINE n == sends + 1
<1>4. n \in Nat /\ sends' = n
  BY <1>2 DEF GhostInv, AppTypes
<1> HIDE DEF n
<1> DEFINE c == Call(op, view.peer, n, FALSE)
           m == Message("me", n, TRUE)
<1>5. /\ c \in CallRec /\ c.op = op /\ c.at = "asked"
  <2>1. op \in Answers /\ FALSE \in BOOLEAN /\ view.peer \in Peer \union {None}
    BY <1>3 DEF Answers
  <2>2. \A p \in Peer \union {None}, e \in BOOLEAN :
          /\ Call(op, p, n, e) \in CallRec /\ Call(op, p, n, e).op = op
          /\ Call(op, p, n, e).at = (IF listening THEN "asked" ELSE "failed")
    BY <1>4, <2>1, CallTypes
  <2> QED
    BY <1>1, <2>1, <2>2
<1>6. m \in Msg /\ m.by = "me"
  BY <1>4, OwnMessage
<1>7. calls' = Append(calls, c) /\ messages' = Append(messages, m)
  BY <1>2, <1>3, <1>4
<1> HIDE DEF c, m
<1>8. /\ InTurn(calls')
      /\ ListComes(calls) => ListComes(calls')
      /\ \A list : Heard(calls', list) = Heard(calls, list)
      /\ NewsComes(calls) => NewsComes(calls')
      /\ \A p, shown, thread : FetchIsOf(calls, p, shown, thread) =>
                               FetchIsOf(calls', p, shown, thread)
  <2>1. c.op # "messages"
    BY <1>5
  <2> QED
    BY <1>1, <1>5, <1>7, <2>1, OrderAdded
<1>9. FromPeers(messages') = FromPeers(messages)
  BY <1>1, <1>6, <1>7, FromPeersAppend
<1>10. ASSUME FetchIsOf(calls, view.peer, messages, log[view.peer])
       PROVE  FetchIsOf(calls', view.peer, messages', log[view.peer])
  <2>1. FetchIsOf(calls', view.peer, messages, log[view.peer])
    BY <1>8, <1>10
  <2> QED
    BY <1>9, <2>1 DEF FetchIsOf
<1>11. Heard(calls', threads) = Heard(calls, threads)
  BY <1>8
<1> QED
  BY <1>2, <1>8, <1>10, <1>11 DEF InOrderNow

LEMMA OrderHandleNews ==
  ASSUME GhostInv, InOrderNow, Orderly, HandleNews
  PROVE  InOrderNow'
<1>1. calls \in Seq(CallRec) /\ InTurn(calls) /\ listening
  BY OrderUses
<1> DEFINE c == Call("news", None, 0, FALSE)
<1>2. /\ calls' = Append(calls, c)
      /\ UNCHANGED <<listening, exited>>
  BY DEF HandleNews, remoteVars
<1>3. c \in CallRec /\ c.op = "news" /\ c.at = "asked"
  <2>1. "news" \in Answers /\ 0 \in Nat /\ None \in Peer \union {None} /\ FALSE \in BOOLEAN
    BY DEF Answers
  <2>2. \A p \in Peer \union {None}, e \in BOOLEAN :
          /\ Call("news", p, 0, e) \in CallRec /\ Call("news", p, 0, e).op = "news"
          /\ Call("news", p, 0, e).at = (IF listening THEN "asked" ELSE "failed")
    BY <2>1, CallTypes
  <2> QED
    BY <1>1, <2>1, <2>2
<1> HIDE DEF c
<1>4. Lists(c)
  BY <1>3 DEF Lists
<1>5. InTurn(calls') /\ ListComes(calls') /\ NewsComes(calls')
  BY <1>1, <1>2, <1>3, <1>4, OrderAdded
<1> QED
  BY <1>2, <1>5 DEF InOrderNow

(* The first answer arrives. *)
LEMMA OrderReply ==
  ASSUME GhostInv, InOrderNow, Orderly, NEW i \in 1..Len(calls), Reply(i)
  PROVE  InOrderNow'
<1>1. /\ calls \in Seq(CallRec) /\ Len(calls) \in Nat /\ InTurn(calls) /\ listening /\ ~exited
      /\ view.kind # "list" => view.peer \in Peer
      /\ scenario.inOrder
  BY OrderUses
<1>2. i = 1 /\ Len(calls) > 0 /\ 1 \in 1..Len(calls) /\ calls[1].at = "served"
  <2>1. i = 1 /\ calls[i].at \in {"served", "failed"}
    BY <1>1 DEF Reply, Turn
  <2>2. calls[i].at \in {"asked", "served"}
    BY <1>1 DEF InTurn
  <2> QED
    BY <1>1, <2>1, <2>2
<1> DEFINE c == calls[1]
           rest == RemoveAt(calls, 1)
<1>3. /\ rest \in Seq(CallRec) /\ InTurn(rest)
      /\ ListComes(calls) => ListComes(rest)
      /\ \A list : Heard(rest, list) = list
      /\ NewsComes(calls) /\ c.op # "news" => NewsComes(rest)
      /\ \A p, shown, thread : FetchIsOf(calls, p, shown, thread) =>
           FetchIsOf(rest, p, IF c.op = "messages" THEN c.messages ELSE shown, thread)
  BY <1>1, <1>2, OrderLeft
<1>4. UNCHANGED <<listening, known, news, log>> /\ Rest(1) = rest
  BY DEF Reply, remoteVars, Rest
<1>5. c \in CallRec /\ CallOK(c, Posted, sends)
  BY <1>2 DEF GhostInv, CallsOK
<1>6. c.n \in Nat
  BY <1>5 DEF CallRec
<1> HIDE DEF rest
(* The list that is heard of is the one that is now shown. *)
<1>7. ASSUME threads' = Heard(calls, threads)
      PROVE  news > 0 \/ ListComes(rest) \/ Heard(rest, threads') = known
  BY <1>3, <1>7 DEF InOrderNow
<1>8. CASE GetMessages(1)
  <2>1. /\ c.op = "messages" /\ messages' = c.messages /\ calls' = rest
        /\ UNCHANGED <<view, threads>> /\ ~exited'
    BY <1>2, <1>4, <1>8 DEF GetMessages
  <2>2. threads' = Heard(calls, threads)
    BY <2>1 DEF Heard, Lists
  <2>3. NewsComes(calls) => NewsComes(rest)
    BY <1>3, <2>1
  <2>4. \A p, thread : FetchIsOf(calls, p, messages, thread) => FetchIsOf(rest, p, messages', thread)
    <3>1. (IF c.op = "messages" THEN c.messages ELSE messages) = messages'
      BY <2>1
    <3> QED
      BY <1>3, <3>1
  <2> QED
    BY <1>1, <1>3, <1>4, <1>7, <2>1, <2>2, <2>3, <2>4 DEF InOrderNow
<1> DEFINE Keeps(cs) ==
      /\ NewsComes(calls) /\ c.op # "news" => NewsComes(cs)
      /\ c.op # "messages" =>
           \A p, shown, thread : FetchIsOf(calls, p, shown, thread) => FetchIsOf(cs, p, shown, thread)
<1>9. Keeps(rest)
  <2>1. ASSUME c.op # "messages", NEW p, NEW shown, NEW thread, FetchIsOf(calls, p, shown, thread)
        PROVE  FetchIsOf(rest, p, shown, thread)
    <3>1. (IF c.op = "messages" THEN c.messages ELSE shown) = shown
      BY <2>1
    <3> QED
      BY <1>3, <2>1, <3>1
  <2> QED
    BY <1>3, <2>1
<1>10. ASSUME NEW p \in Peer, NEW n \in Nat, NEW op \in {"acked", "fetched"},
              calls' = Append(rest, Call(op, p, n, FALSE)), c.op # "messages", c.op # "news",
              UNCHANGED <<view, messages, exited>>
       PROVE  InOrderNow'
  <2> DEFINE d == Call(op, p, n, FALSE)
  <2>1. d \in CallRec /\ d.op = op /\ d.at = "asked"
    <3>1. op \in Answers /\ p \in Peer \union {None} /\ FALSE \in BOOLEAN
      BY DEF Answers
    <3>2. \A e \in BOOLEAN :
            /\ Call(op, p, n, e) \in CallRec /\ Call(op, p, n, e).op = op
            /\ Call(op, p, n, e).at = (IF listening THEN "asked" ELSE "failed")
      BY <3>1, CallTypes
    <3> QED
      BY <1>1, <3>1, <3>2
  <2>2. calls' = Append(rest, d)
    BY <1>10
  <2> HIDE DEF d
  <2>3. Lists(d) /\ d.op # "messages"
    BY <2>1 DEF Lists
  <2>4. /\ InTurn(calls') /\ ListComes(calls')
        /\ NewsComes(rest) => NewsComes(calls')
        /\ \A q, shown, thread : FetchIsOf(rest, q, shown, thread) =>
                                 FetchIsOf(calls', q, shown, thread)
    BY <1>3, <2>1, <2>2, <2>3, OrderAdded
  <2> QED
    BY <1>1, <1>4, <1>9, <1>10, <2>4 DEF InOrderNow
<1>11. ASSUME NEW p \in Peer, NEW b \in BOOLEAN,
              calls' = rest \o <<Call("messages", p, 0, b), Call("ack", p, 0, FALSE)>>,
              threads' = Heard(calls, threads), view'.peer = p, ~exited'
       PROVE  InOrderNow'
  <2>1. /\ InTurn(calls')
        /\ ListComes(rest) => ListComes(calls')
        /\ \A list : Heard(calls', list) = Heard(rest, list)
        /\ \A shown, thread : FetchIsOf(calls', p, shown, thread)
    <3> DEFINE all == rest \o <<Call("messages", p, 0, b), Call("ack", p, 0, FALSE)>>
    <3>1. /\ InTurn(all)
          /\ ListComes(rest) => ListComes(all)
          /\ \A list : Heard(all, list) = Heard(rest, list)
          /\ \A shown, thread : FetchIsOf(all, p, shown, thread)
      BY <1>1, <1>3, OrderShown
    <3>2. calls' = all
      BY <1>11
    <3> HIDE DEF all
    <3> QED
      BY <3>1, <3>2
  <2>2. Heard(calls', threads') = Heard(rest, threads')
    BY <2>1
  <2>3. FetchIsOf(calls', view'.peer, messages', log'[view'.peer])
    BY <1>11, <2>1
  <2> QED
    BY <1>1, <1>4, <1>7, <1>11, <2>1, <2>2, <2>3 DEF InOrderNow
<1>12. ASSUME calls' = rest, threads' = Heard(calls, threads), c.op # "messages",
              view'.kind = "thread" => c.op # "news" /\ UNCHANGED <<view, messages>>,
              ~exited'
       PROVE  InOrderNow'
  BY <1>1, <1>3, <1>4, <1>7, <1>9, <1>12 DEF InOrderNow
<1> HIDE DEF Keeps
<1>13. CASE GetAck(1)
  <2>1. UNCHANGED <<view, messages, exited>> /\ c.op \in {"ack", "acked"}
    BY <1>13 DEF GetAck
  <2>2. CASE c.op = "ack"
    <3>1. calls' = Append(rest, Call("acked", c.peer, 0, FALSE)) /\ c.peer \in Peer
      BY <1>2, <1>4, <1>5, <1>13, <2>2 DEF GetAck, CallOK
    <3> QED
      BY <1>10, <2>1, <2>2, <3>1
  <2>3. CASE c.op = "acked"
    <3>1. calls' = rest /\ threads' = c.threads
      BY <1>2, <1>4, <1>13, <2>3 DEF GetAck
    <3>2. threads' = Heard(calls, threads)
      BY <1>2, <2>3, <3>1 DEF Heard, Lists
    <3> QED
      BY <1>1, <1>12, <2>1, <2>3, <3>1, <3>2
  <2> QED
    BY <2>1, <2>2, <2>3
<1>14. CASE GetNews(1)
  <2>1. /\ c.op = "news" /\ threads' = c.threads /\ ~exited' /\ UNCHANGED <<view, messages>>
    BY <1>2, <1>14 DEF GetNews
  <2>2. threads' = Heard(calls, threads)
    BY <1>2, <2>1 DEF Heard, Lists
  <2>3. CASE view.kind = "thread"
    <3> DEFINE b == lastLoaded # view.peer
    <3>1. /\ calls' = rest \o <<Call("messages", view.peer, 0, b), Call("ack", view.peer, 0, FALSE)>>
          /\ view.peer \in Peer /\ b \in BOOLEAN /\ view'.peer = view.peer
      BY <1>1, <1>2, <1>4, <1>14, <2>1, <2>3 DEF GetNews, ShowThread
    <3> HIDE DEF b
    <3> QED
      BY <1>11, <2>1, <2>2, <3>1
  <2>4. CASE view.kind # "thread"
    <3>1. calls' = rest
      BY <1>4, <1>14, <2>1, <2>4 DEF GetNews
    <3> QED
      BY <1>12, <2>1, <2>2, <2>4, <3>1
  <2> QED
    BY <2>3, <2>4
<1>15. CASE GetSent(1)
  <2>1. /\ c.op = "send" /\ calls' = rest /\ messages' = messages
        /\ UNCHANGED <<view, threads, exited>>
    BY <1>2, <1>4, <1>15 DEF GetSent
  <2>2. threads' = Heard(calls, threads)
    BY <2>1 DEF Heard, Lists
  <2> QED
    BY <1>1, <1>12, <2>1, <2>2
<1>16. CASE GetFirst(1)
  <2>1. c.op \in {"first", "fetched"} /\ messages' = messages /\ UNCHANGED exited
    BY <1>2, <1>16 DEF GetFirst
  <2>2. c.peer \in Peer
    BY <1>5, <2>1 DEF CallOK
  <2>3. CASE c.op = "first"
    <3>1. calls' = Append(rest, Call("fetched", c.peer, c.n, FALSE)) /\ UNCHANGED view
      BY <1>2, <1>4, <1>16, <2>3 DEF GetFirst
    <3> QED
      BY <1>6, <1>10, <2>1, <2>2, <2>3, <3>1
  <2>4. CASE c.op = "fetched"
    <3> DEFINE b == lastLoaded # c.peer
    <3>1. /\ calls' = rest \o <<Call("messages", c.peer, 0, b), Call("ack", c.peer, 0, FALSE)>>
          /\ view' = Thread(c.peer) /\ threads' = c.threads /\ b \in BOOLEAN
      BY <1>2, <1>4, <1>16, <2>4 DEF GetFirst, ShowThread
    <3>2. threads' = Heard(calls, threads)
      BY <1>2, <2>4, <3>1 DEF Heard, Lists
    <3>3. view'.peer = c.peer
      BY <3>1 DEF Thread
    <3>4. ~exited'
      BY <1>1, <2>1
    <3> HIDE DEF b
    <3> QED
      BY <1>11, <2>2, <3>1, <3>2, <3>3, <3>4
  <2> QED
    BY <2>1, <2>3, <2>4
<1> QED
  BY <1>2, <1>8, <1>13, <1>14, <1>15, <1>16 DEF Reply

(* When calls are answered in order and none fails, what the UI shows is   *)
(* behind only while something that will bring it up to date is on its     *)
(* way (app.tsx:120-146, 169-196).                                         *)
THEOREM TuiAppOrder == Spec => []OrderInv
<1>1. Init => OrderInv
  <2> SUFFICES ASSUME Init PROVE OrderInv
    OBVIOUS
  <2>1. /\ listening = TRUE /\ exited = FALSE /\ threads = known /\ calls = <<>>
        /\ view.kind = "list"
    BY DEF Init, List
  <2>2. Len(calls) = 0 /\ InTurn(calls) /\ Heard(calls, threads) = known
    BY <2>1 DEF InTurn, Heard
  <2> QED
    BY <2>1, <2>2 DEF OrderInv
<1>2. GhostInv /\ OrderInv /\ [Next]_vars => OrderInv'
  <2> SUFFICES ASSUME GhostInv, OrderInv, [Next]_vars, Orderly' PROVE InOrderNow'
    BY DEF OrderInv, InOrderNow
  <2>1. scenario' = scenario
    BY DEF Next, vars, PeerPosts, Open, OpenNew, StopDaemon, StartDaemon, Serve, Reply,
           Escape, Submit, HandleNews
  <2>2. Orderly /\ InOrderNow
    BY <2>1 DEF Orderly, OrderInv, InOrderNow
  <2>3. DOMAIN calls = 1..Len(calls) /\ ~Fault /\ listening
    BY <2>2, OrderUses
  <2>4. CASE UNCHANGED vars
    BY <2>2, <2>4 DEF InOrderNow, vars, remoteVars, viewVars
  <2>5. ASSUME NEW p \in Peer, PeerPosts(p) \/ Open(p) PROVE InOrderNow'
    BY <2>2, <2>5, OrderPeerPosts, OrderOpen
  <2>6. ASSUME NEW p \in Peer, OpenNew(p) PROVE InOrderNow'
    <3>1. view'.kind # "thread"
      BY <2>6 DEF OpenNew, NewThread
    <3> QED
      BY <2>2, <2>6, <3>1, OrderNoThread DEF OpenNew, remoteVars
  <2>7. ASSUME NEW i \in DOMAIN calls, Serve(i) \/ Reply(i) PROVE InOrderNow'
    BY <2>2, <2>3, <2>7, OrderServe, OrderReply
  <2>8. CASE StopDaemon \/ StartDaemon
    BY <2>3, <2>8 DEF StopDaemon, StartDaemon
  <2>9. CASE Escape
    <3>1. view'.kind # "thread"
      BY <2>9 DEF Escape, List
    <3> QED
      BY <2>2, <2>9, <3>1, OrderNoThread DEF Escape, remoteVars
  <2>10. CASE Submit \/ HandleNews
    BY <2>2, <2>10, OrderSubmit, OrderHandleNews
  <2> QED
    BY <2>4, <2>5, <2>6, <2>7, <2>8, <2>9, <2>10 DEF Next
<1> QED
  BY <1>1, <1>2, TuiAppGhosts, PTL DEF Spec

(* When calls are answered in order and none fails: once all are answered, *)
(* the open thread shows all its peer has posted and the list is that of   *)
(* state.json (app.tsx:120-146, 169-196).                                  *)
THEOREM TuiAppSettledShowsAll == Spec => []SettledShowsAll
<1>1. OrderInv => SettledShowsAll
  <2> SUFFICES ASSUME OrderInv, scenario.inOrder, scenario.faults = 0, calls = <<>>, news = 0
               PROVE  /\ view.kind = "thread" => FromPeers(messages) = FromPeers(log[view.peer])
                      /\ threads = known
    BY DEF SettledShowsAll
  <2>1. Len(calls) = 0 /\ ~(news > 0) /\ 1..Len(calls) = {}
    OBVIOUS
  <2>2. ~ListComes(calls) /\ ~NewsComes(calls) /\ Heard(calls, threads) = threads
    BY <2>1 DEF ListComes, NewsComes, Heard
  <2>3. Orderly
    BY DEF Orderly
  <2>4. /\ Heard(calls, threads) = known
        /\ view.kind = "thread" => FetchIsOf(calls, view.peer, messages, log[view.peer])
    BY <2>1, <2>2, <2>3 DEF OrderInv
  <2> QED
    BY <2>1, <2>2, <2>4 DEF FetchIsOf
<1> QED
  BY <1>1, TuiAppOrder, PTL
=============================================================================
