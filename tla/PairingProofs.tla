--------------------------- MODULE PairingProofs ---------------------------
(***************************************************************************)
(* Proofs about Pairing, for any number of machines, codes, requests,      *)
(* failures and crashes: the user's hooks survive mergeHooks, types and    *)
(* unique peers, one peer per invite, and one holder per identity.         *)
(***************************************************************************)
EXTENDS Pairing, WellFoundedInduction, SequenceTheorems, TLAPS

-----------------------------------------------------------------------------
(* Induction over sequences, with a set in place of a predicate.           *)

LEMMA LeastOf ==
  ASSUME NEW T, T \subseteq Nat, T # {}
  PROVE  \E x \in T : \A y \in T : x <= y
<1> DEFINE R == {ss \in Nat \X Nat : ss[1] < ss[2]}
<1>1. IsWellFoundedOn(R, Nat)
  BY NatLessThanWellFounded DEF OpToRel
<1>2. \A x, y \in Nat : <<y, x>> \in R <=> y < x
  OBVIOUS
<1> HIDE DEF R
<1>3. PICK x \in T : \A y \in T : ~(<<y, x>> \in R)
  BY <1>1, WFMin
<1>4. \A y \in T : y \in Nat /\ x \in Nat /\ ~(y < x)
  BY <1>2, <1>3
<1> QED
  BY <1>4

LEMMA NatInSet ==
  ASSUME NEW T, 0 \in T, \A n \in Nat : n \in T => n + 1 \in T
  PROVE  Nat \subseteq T
<1> SUFFICES ASSUME Nat \ T # {} PROVE FALSE
  OBVIOUS
<1>1. PICK x \in Nat \ T : \A y \in Nat \ T : x <= y
  BY LeastOf
<1>2. x # 0 /\ x - 1 \in Nat /\ (x - 1) + 1 = x /\ x - 1 \notin Nat \ T
  BY <1>1
<1> QED
  BY <1>1, <1>2

LEMMA SeqInSet ==
  ASSUME NEW S, NEW P, <<>> \in P,
         \A s \in Seq(S), e \in S : s \in P => Append(s, e) \in P
  PROVE  Seq(S) \subseteq P
<1>0. ASSUME NEW s \in Seq(S), NEW n \in Nat, Len(s) = n + 1
      PROVE  \E f \in Seq(S), e \in S : Len(f) = n /\ s = Append(f, e)
  <2> DEFINE f == [k \in 1..n |-> s[k]]
             e == s[n + 1]
  <2>1. n + 1 \in 1..Len(s) /\ \A k \in 1..n : k \in 1..Len(s)
    BY <1>0
  <2>2. f \in Seq(S) /\ Len(f) = n /\ e \in S
    BY <2>1
  <2>3. \A k \in 1..n : f[k] = s[k]
    OBVIOUS
  <2> HIDE DEF f
  <2>4. /\ Append(f, e) \in Seq(S) /\ Len(Append(f, e)) = n + 1
        /\ \A k \in 1..n : Append(f, e)[k] = s[k]
        /\ Append(f, e)[n + 1] = e
    BY <2>2, <2>3
  <2>5. \A k \in 1..Len(s) : s[k] = Append(f, e)[k]
    BY <1>0, <2>4
  <2>6. s = Append(f, e)
    BY <1>0, <2>4, <2>5, SeqEqual
  <2> QED
    BY <2>2, <2>6
<1> DEFINE T == {n \in Nat : \A s \in Seq(S) : Len(s) = n => s \in P}
<1>1. 0 \in T
  <2>1. \A s \in Seq(S) : Len(s) = 0 => s = <<>>
    BY EmptySeq
  <2> QED
    BY <2>1
<1>2. ASSUME NEW n \in Nat, n \in T PROVE n + 1 \in T
  <2>1. ASSUME NEW s \in Seq(S), Len(s) = n + 1 PROVE s \in P
    <3>1. PICK f \in Seq(S), e \in S : Len(f) = n /\ s = Append(f, e)
      BY <1>0, <2>1
    <3> QED
      BY <1>2, <3>1
  <2> QED
    BY <2>1
<1>3. Nat \subseteq T
  <2> HIDE DEF T
  <2> QED
    BY <1>1, <1>2, NatInSet
<1>4. \A s \in Seq(S) : Len(s) \in Nat
  OBVIOUS
<1> QED
  BY <1>3, <1>4

-----------------------------------------------------------------------------
(* What FlattenSeq returns. *)

FlatUpTo(ss, f, n) == f = [k \in 1..n |-> IF k = 1 THEN ss[k] ELSE f[k - 1] \o ss[k]]

LEMMA FlatStep ==
  ASSUME NEW ss, NEW f, NEW n \in Nat, FlatUpTo(ss, f, n)
  PROVE  \A k \in 1..n : f[k] = IF k = 1 THEN ss[k] ELSE f[k - 1] \o ss[k]
<1> DEFINE E(k) == IF k = 1 THEN ss[k] ELSE f[k - 1] \o ss[k]
<1>1. f = [k \in 1..n |-> E(k)]
  BY DEF FlatUpTo
<1>2. \A k \in 1..n : f[k] = E(k)
  <2> HIDE DEF E
  <2> QED
    BY <1>1
<1> QED
  BY <1>2

LEMMA FlatExists ==
  ASSUME NEW ss
  PROVE  \A n \in Nat : \E f : FlatUpTo(ss, f, n)
<1> DEFINE T == {n \in Nat : \E f : FlatUpTo(ss, f, n)}
<1>1. 0 \in T
  <2> DEFINE f == [k \in 1..0 |-> <<>>]
  <2>1. FlatUpTo(ss, f, 0)
    BY DEF FlatUpTo
  <2> QED
    BY <2>1
<1>2. ASSUME NEW n \in Nat, n \in T PROVE n + 1 \in T
  <2>1. PICK f : FlatUpTo(ss, f, n)
    BY <1>2
  <2> DEFINE last == IF n + 1 = 1 THEN ss[n + 1] ELSE f[n] \o ss[n + 1]
             g == [k \in 1..(n + 1) |-> IF k <= n THEN f[k] ELSE last]
             h == [k \in 1..(n + 1) |-> IF k = 1 THEN ss[k] ELSE g[k - 1] \o ss[k]]
  <2>2. ASSUME NEW k \in 1..(n + 1) PROVE g[k] = h[k]
    <3>1. CASE k \in 1..n
      <4>1. f[k] = IF k = 1 THEN ss[k] ELSE f[k - 1] \o ss[k]
        BY <2>1, <3>1, FlatStep
      <4>2. g[k] = f[k] /\ (k # 1 => g[k - 1] = f[k - 1])
        BY <3>1
      <4>3. h[k] = IF k = 1 THEN ss[k] ELSE g[k - 1] \o ss[k]
        OBVIOUS
      <4> HIDE DEF g, h
      <4> QED
        BY <4>1, <4>2, <4>3
    <3>2. CASE k = n + 1
      <4>1. g[k] = last /\ (k # 1 => g[k - 1] = f[n])
        BY <3>2
      <4>2. h[k] = IF k = 1 THEN ss[k] ELSE g[k - 1] \o ss[k]
        OBVIOUS
      <4> HIDE DEF g, h
      <4> QED
        BY <3>2, <4>1, <4>2
    <3> QED
      BY <3>1, <3>2
  <2>3. g = h
    BY <2>2
  <2>4. FlatUpTo(ss, g, n + 1)
    BY <2>3 DEF FlatUpTo
  <2> QED
    BY <2>4
<1>3. Nat \subseteq T
  <2> HIDE DEF T
  <2> QED
    BY <1>1, <1>2, NatInSet
<1> QED
  BY <1>3

(* FlattenSeq by its steps. *)
LEMMA FlatSteps ==
  ASSUME NEW S, NEW ss \in Seq(Seq(S))
  PROVE  \E g : /\ g[0] = <<>>
                /\ \A k \in 1..Len(ss) : g[k] = g[k - 1] \o ss[k]
                /\ FlattenSeq(ss) = g[Len(ss)]
<1>1. Len(ss) \in Nat
  OBVIOUS
<1>2. CASE Len(ss) = 0
  <2> DEFINE g == [k \in 0..0 |-> <<>>]
  <2>1. ss = <<>>
    BY <1>2, EmptySeq
  <2>2. FlattenSeq(ss) = <<>>
    BY <1>2, <2>1 DEF FlattenSeq
  <2>3. /\ g[0] = <<>> /\ FlattenSeq(ss) = g[Len(ss)]
        /\ \A k \in 1..Len(ss) : g[k] = g[k - 1] \o ss[k]
    BY <1>2, <2>2
  <2> QED
    BY <2>3
<1>3. CASE Len(ss) # 0
  <2>1. \E f : FlatUpTo(ss, f, Len(ss))
    BY <1>1, FlatExists
  <2>2. PICK f : FlatUpTo(ss, f, Len(ss)) /\ FlattenSeq(ss) = f[Len(ss)]
    BY <1>3, <2>1 DEF FlattenSeq, FlatUpTo
  <2>3. \A k \in 1..Len(ss) : f[k] = IF k = 1 THEN ss[k] ELSE f[k - 1] \o ss[k]
    BY <1>1, <2>2, FlatStep
  <2> DEFINE g == [k \in 0..Len(ss) |-> IF k = 0 THEN <<>> ELSE f[k]]
  <2>4. g[0] = <<>> /\ FlattenSeq(ss) = g[Len(ss)]
    BY <1>1, <1>3, <2>2
  <2>5. ASSUME NEW k \in 1..Len(ss) PROVE g[k] = g[k - 1] \o ss[k]
    <3>1. CASE k = 1
      <4>1. g[k] = f[1] /\ g[k - 1] = <<>> /\ f[1] = ss[1] /\ ss[1] \in Seq(S)
        BY <1>1, <2>3, <3>1
      <4> HIDE DEF g
      <4> QED
        BY <3>1, <4>1, ConcatEmptySeq
    <3>2. CASE k # 1
      <4>1. f[k] = f[k - 1] \o ss[k]
        BY <2>3, <3>2
      <4>2. k \in 0..Len(ss) /\ k - 1 \in 0..Len(ss) /\ k # 0 /\ k - 1 # 0
        BY <1>1, <3>2
      <4>3. g[k] = f[k] /\ g[k - 1] = f[k - 1]
        BY <4>2
      <4> HIDE DEF g
      <4> QED
        BY <4>1, <4>3
    <3> QED
      BY <3>1, <3>2
  <2> HIDE DEF g
  <2> QED
    BY <2>4, <2>5
<1> QED
  BY <1>2, <1>3

LEMMA FlatEmpty == FlattenSeq(<<>>) = <<>>
BY DEF FlattenSeq

LEMMA FlatAppend ==
  ASSUME NEW S, NEW ss \in Seq(Seq(S)), NEW t \in Seq(S)
  PROVE  FlattenSeq(Append(ss, t)) = FlattenSeq(ss) \o t
<1> DEFINE more == Append(ss, t)
<1>1. /\ more \in Seq(Seq(S)) /\ Len(ss) \in Nat /\ Len(more) = Len(ss) + 1
      /\ \A k \in 1..Len(ss) : more[k] = ss[k]
      /\ more[Len(ss) + 1] = t
  OBVIOUS
<1> HIDE DEF more
<1>2. PICK f : /\ f[0] = <<>>
               /\ \A k \in 1..Len(ss) : f[k] = f[k - 1] \o ss[k]
               /\ FlattenSeq(ss) = f[Len(ss)]
  BY FlatSteps
<1>3. PICK g : /\ g[0] = <<>>
               /\ \A k \in 1..Len(more) : g[k] = g[k - 1] \o more[k]
               /\ FlattenSeq(more) = g[Len(more)]
  BY <1>1, FlatSteps
<1> DEFINE T == {n \in Nat : n <= Len(ss) => g[n] = f[n]}
<1>4. 0 \in T
  BY <1>2, <1>3
<1>5. ASSUME NEW n \in Nat, n \in T PROVE n + 1 \in T
  <2> SUFFICES ASSUME n + 1 <= Len(ss) PROVE g[n + 1] = f[n + 1]
    OBVIOUS
  <2>1. n + 1 \in 1..Len(ss) /\ n + 1 \in 1..Len(more) /\ (n + 1) - 1 = n /\ g[n] = f[n]
    BY <1>1, <1>5
  <2>2. f[n + 1] = f[n] \o ss[n + 1]
    BY <1>2, <2>1
  <2>3. g[n + 1] = g[n] \o more[n + 1]
    BY <1>3, <2>1
  <2> QED
    BY <1>1, <2>1, <2>2, <2>3
<1>6. Nat \subseteq T
  <2> HIDE DEF T
  <2> QED
    BY <1>4, <1>5, NatInSet
<1>7. g[Len(ss)] = f[Len(ss)]
  BY <1>1, <1>6
<1>8. Len(ss) + 1 \in 1..Len(more) /\ (Len(ss) + 1) - 1 = Len(ss)
  BY <1>1
<1>9. g[Len(ss) + 1] = g[Len(ss)] \o more[Len(ss) + 1]
  BY <1>3, <1>8
<1> QED
  BY <1>1, <1>2, <1>3, <1>7, <1>9 DEF more

LEMMA FlatType ==
  ASSUME NEW S
  PROVE  \A ss \in Seq(Seq(S)) : FlattenSeq(ss) \in Seq(S)
<1> DEFINE P == {ss \in Seq(Seq(S)) : FlattenSeq(ss) \in Seq(S)}
<1>1. <<>> \in P
  BY FlatEmpty, EmptySeq
<1>2. ASSUME NEW ss \in Seq(Seq(S)), NEW t \in Seq(S), ss \in P
      PROVE  Append(ss, t) \in P
  <2>1. FlattenSeq(Append(ss, t)) = FlattenSeq(ss) \o t
    BY FlatAppend
  <2>2. FlattenSeq(ss) \o t \in Seq(S)
    BY <1>2, ConcatProperties
  <2>3. Append(ss, t) \in Seq(Seq(S))
    BY AppendProperties
  <2> QED
    BY <2>1, <2>2, <2>3
<1>3. Seq(Seq(S)) \subseteq P
  <2> HIDE DEF P
  <2> QED
    BY <1>1, <1>2, SeqInSet
<1> QED
  BY <1>3

(* A function applied to each entry. *)
Each(G, s) == [i \in DOMAIN s |-> G[s[i]]]

LEMMA EachAppend ==
  ASSUME NEW S, NEW R, NEW G \in [S -> R], NEW s \in Seq(S), NEW e \in S
  PROVE  Each(G, Append(s, e)) = Append(Each(G, s), G[e])
<1>1. \A u \in Seq(S) : /\ Each(G, u) \in Seq(R) /\ Len(Each(G, u)) = Len(u) /\ Len(u) \in Nat
                        /\ \A k \in 1..Len(u) : Each(G, u)[k] = G[u[k]]
  BY DEF Each
<1> DEFINE t == Append(s, e)
           u == Each(G, s)
           v == Each(G, t)
<1>2. /\ t \in Seq(S) /\ Len(t) = Len(s) + 1 /\ Len(s) \in Nat
      /\ \A k \in 1..Len(s) : t[k] = s[k]
      /\ t[Len(s) + 1] = e
  OBVIOUS
<1>3. /\ u \in Seq(R) /\ Len(u) = Len(s) /\ \A k \in 1..Len(s) : u[k] = G[s[k]]
  BY <1>1
<1> HIDE DEF t
<1>4. /\ v \in Seq(R) /\ Len(v) = Len(t) /\ \A k \in 1..Len(t) : v[k] = G[t[k]]
  BY <1>1, <1>2
<1> HIDE DEF u, v
<1> DEFINE w == Append(u, G[e])
<1>5. /\ w \in Seq(R) /\ Len(w) = Len(s) + 1
      /\ \A k \in 1..Len(s) : w[k] = u[k]
      /\ w[Len(s) + 1] = G[e]
  BY <1>3
<1> HIDE DEF w
<1>6. ASSUME NEW k \in 1..Len(v) PROVE v[k] = w[k]
  <2>1. k \in 1..Len(t) /\ (k \in 1..Len(s) \/ k = Len(s) + 1) /\ v[k] = G[t[k]]
    BY <1>2, <1>4
  <2>2. CASE k \in 1..Len(s)
    BY <1>2, <1>3, <1>5, <2>1, <2>2
  <2>3. CASE k = Len(s) + 1
    BY <1>2, <1>5, <2>1, <2>3
  <2> QED
    BY <2>1, <2>2, <2>3
<1>7. v = w
  BY <1>2, <1>4, <1>5, <1>6, SeqEqual
<1> QED
  BY <1>7 DEF t, u, v, w

-----------------------------------------------------------------------------
(* Lists of hooks. *)

Entry(C) == [h \in Command |-> IF h \in C THEN <<h>> ELSE <<>>]

LEMMA OnlyFacts ==
  ASSUME NEW C
  PROVE  /\ Only(<<>>, C) = <<>>
         /\ \A s \in Seq(Command) : Only(s, C) \in Seq(Command)
         /\ \A s \in Seq(Command), e \in Command :
              Only(Append(s, e), C) = Only(s, C) \o (IF e \in C THEN <<e>> ELSE <<>>)
<1>1. Entry(C) \in [Command -> Seq(Command)]
  BY DEF Entry
<1>2. \A s \in Seq(Command) : Only(s, C) = FlattenSeq(Each(Entry(C), s))
  <2> TAKE s \in Seq(Command)
  <2>1. \A i \in DOMAIN s : Entry(C)[s[i]] = IF s[i] \in C THEN <<s[i]>> ELSE <<>>
    BY DEF Entry
  <2>2. Each(Entry(C), s) = [i \in DOMAIN s |-> IF s[i] \in C THEN <<s[i]>> ELSE <<>>]
    BY <2>1 DEF Each
  <2> QED
    BY <2>2 DEF Only
<1>3. \A s \in Seq(Command) : Each(Entry(C), s) \in Seq(Seq(Command))
  <2> TAKE s \in Seq(Command)
  <2>1. \A i \in 1..Len(s) : Entry(C)[s[i]] \in Seq(Command)
    BY <1>1
  <2> QED
    BY <2>1 DEF Each
<1>4. Only(<<>>, C) = <<>>
  BY FlatEmpty DEF Only
<1>5. \A s \in Seq(Command) : Only(s, C) \in Seq(Command)
  BY <1>2, <1>3, FlatType
<1>6. ASSUME NEW s \in Seq(Command), NEW e \in Command
      PROVE  Only(Append(s, e), C) = Only(s, C) \o (IF e \in C THEN <<e>> ELSE <<>>)
  <2>1. Each(Entry(C), Append(s, e)) = Append(Each(Entry(C), s), Entry(C)[e])
    BY <1>1, EachAppend, Zenon
  <2>2. Entry(C)[e] = (IF e \in C THEN <<e>> ELSE <<>>) /\ Entry(C)[e] \in Seq(Command)
    BY <1>1 DEF Entry
  <2>3. FlattenSeq(Append(Each(Entry(C), s), Entry(C)[e]))
          = FlattenSeq(Each(Entry(C), s)) \o Entry(C)[e]
    BY <1>3, <2>2, FlatAppend
  <2>4. Append(s, e) \in Seq(Command)
    BY AppendProperties
  <2> QED
    BY <1>2, <2>1, <2>2, <2>3, <2>4
<1> QED
  BY <1>4, <1>5, <1>6

LEMMA OnlyTwice ==
  ASSUME NEW C, NEW D, C \intersect D = {}
  PROVE  \A s \in Seq(Command) :
           /\ Only(Only(s, C), C) = Only(s, C)
           /\ Only(Only(s, C), D) = <<>>
<1> DEFINE P == {s \in Seq(Command) : /\ Only(Only(s, C), C) = Only(s, C)
                                      /\ Only(Only(s, C), D) = <<>>}
<1>1. <<>> \in P
  BY OnlyFacts, EmptySeq
<1>2. ASSUME NEW s \in Seq(Command), NEW e \in Command, s \in P
      PROVE  Append(s, e) \in P
  <2>1. /\ Append(s, e) \in Seq(Command)
        /\ Only(s, C) \in Seq(Command)
        /\ Only(Append(s, e), C) = Only(s, C) \o (IF e \in C THEN <<e>> ELSE <<>>)
    BY OnlyFacts, AppendProperties
  <2>2. Only(Only(s, C), C) = Only(s, C) /\ Only(Only(s, C), D) = <<>>
    BY <1>2
  <2> DEFINE o == Only(s, C)
  <2> HIDE DEF P, o
  <2>3. CASE e \in C
    <3>1. Only(Append(s, e), C) = Append(o, e)
      BY <2>1, <2>3 DEF o
    <3>2. Only(Append(o, e), C) = Only(o, C) \o <<e>>
      BY <2>1, <2>3, OnlyFacts DEF o
    <3>3. Only(Append(o, e), D) = Only(o, D) \o <<>>
      BY <2>1, <2>3, OnlyFacts DEF o
    <3>4. o \o <<e>> = Append(o, e) /\ <<>> \o <<>> = <<>>
      BY <2>1 DEF o
    <3> QED
      BY <2>1, <2>2, <3>1, <3>2, <3>3, <3>4 DEF P, o
  <2>4. CASE e \notin C
    <3>1. o \o <<>> = o
      BY <2>1, ConcatEmptySeq DEF o
    <3>2. Only(Append(s, e), C) = o
      BY <2>1, <2>4, <3>1 DEF o
    <3> QED
      BY <2>1, <2>2, <3>2 DEF P, o
  <2> QED
    BY <2>3, <2>4
<1>3. Seq(Command) \subseteq P
  <2> HIDE DEF P
  <2> QED
    BY <1>1, <1>2, SeqInSet
<1> QED
  BY <1>3

HooksOf == [g \in Group |-> g.hooks]
KeptOf == [g \in Group |-> Stripped(g)]

LEMMA StrippedType ==
  ASSUME NEW g \in Group
  PROVE  /\ g.hooks \in Seq(Command)
         /\ Stripped(g) \in Seq(Group)
         /\ LET hooks == Only(g.hooks, Mine)
            IN  \/ hooks = <<>> /\ Stripped(g) = <<>>
                \/ \E h \in Group : Stripped(g) = <<h>> /\ h.hooks = hooks
<1>1. g.hooks \in Seq(Command)
  BY DEF Group
<1> DEFINE hooks == Only(g.hooks, Mine)
           h == [matcher |-> None, hooks |-> hooks]
<1>2. hooks \in Seq(Command)
  BY <1>1, OnlyFacts
<1>3. Stripped(g) = IF hooks = <<>> THEN <<>> ELSE <<h>>
  BY DEF Stripped
<1> HIDE DEF hooks
<1>4. h \in Group /\ h.hooks = hooks
  BY <1>2, PairingAssumption DEF Group
<1> HIDE DEF h
<1>5. <<>> \in Seq(Group) /\ <<h>> \in Seq(Group)
  BY <1>4
<1> QED
  BY <1>1, <1>3, <1>4, <1>5 DEF hooks

LEMMA CommandsFacts ==
  /\ Commands(<<>>) = <<>>
  /\ \A gs \in Seq(Group) : Commands(gs) \in Seq(Command)
  /\ \A gs \in Seq(Group), g \in Group : Commands(Append(gs, g)) = Commands(gs) \o g.hooks
<1>1. HooksOf \in [Group -> Seq(Command)]
  BY DEF HooksOf, Group
<1>2. \A gs \in Seq(Group) : /\ Commands(gs) = FlattenSeq(Each(HooksOf, gs))
                             /\ Each(HooksOf, gs) \in Seq(Seq(Command))
  <2> TAKE gs \in Seq(Group)
  <2>1. \A i \in DOMAIN gs : HooksOf[gs[i]] = gs[i].hooks
    BY DEF HooksOf
  <2>2. Each(HooksOf, gs) = [i \in DOMAIN gs |-> gs[i].hooks]
    BY <2>1 DEF Each
  <2>3. \A i \in 1..Len(gs) : HooksOf[gs[i]] \in Seq(Command)
    BY <1>1
  <2>4. Each(HooksOf, gs) \in Seq(Seq(Command))
    BY <2>3 DEF Each
  <2> QED
    BY <2>2, <2>4 DEF Commands
<1>3. Commands(<<>>) = <<>>
  BY FlatEmpty DEF Commands
<1>4. \A gs \in Seq(Group) : Commands(gs) \in Seq(Command)
  BY <1>2, FlatType
<1>5. ASSUME NEW gs \in Seq(Group), NEW g \in Group
      PROVE  Commands(Append(gs, g)) = Commands(gs) \o g.hooks
  <2>1. Each(HooksOf, Append(gs, g)) = Append(Each(HooksOf, gs), HooksOf[g])
    BY <1>1, EachAppend, Zenon
  <2>2. HooksOf[g] = g.hooks /\ HooksOf[g] \in Seq(Command)
    BY <1>1 DEF HooksOf
  <2>3. FlattenSeq(Append(Each(HooksOf, gs), HooksOf[g]))
          = FlattenSeq(Each(HooksOf, gs)) \o HooksOf[g]
    BY <1>2, <2>2, FlatAppend
  <2>4. Append(gs, g) \in Seq(Group)
    BY AppendProperties
  <2> QED
    BY <1>2, <2>1, <2>2, <2>3, <2>4
<1> QED
  BY <1>3, <1>4, <1>5

(* MergeHooks without the entry it adds. *)
Rid(gs) == FlattenSeq([i \in DOMAIN gs |-> Stripped(gs[i])])

LEMMA RidFacts ==
  /\ Rid(<<>>) = <<>>
  /\ \A gs \in Seq(Group) : Rid(gs) \in Seq(Group)
  /\ \A gs \in Seq(Group), g \in Group : Rid(Append(gs, g)) = Rid(gs) \o Stripped(g)
<1>1. KeptOf \in [Group -> Seq(Group)]
  BY StrippedType DEF KeptOf
<1>2. \A gs \in Seq(Group) : /\ Rid(gs) = FlattenSeq(Each(KeptOf, gs))
                             /\ Each(KeptOf, gs) \in Seq(Seq(Group))
  <2> TAKE gs \in Seq(Group)
  <2>1. \A i \in DOMAIN gs : KeptOf[gs[i]] = Stripped(gs[i])
    BY DEF KeptOf
  <2>2. Each(KeptOf, gs) = [i \in DOMAIN gs |-> Stripped(gs[i])]
    BY <2>1 DEF Each
  <2>3. \A i \in 1..Len(gs) : KeptOf[gs[i]] \in Seq(Group)
    BY <1>1
  <2>4. Each(KeptOf, gs) \in Seq(Seq(Group))
    BY <2>3 DEF Each
  <2> QED
    BY <2>2, <2>4 DEF Rid
<1>3. Rid(<<>>) = <<>>
  BY FlatEmpty DEF Rid
<1>4. \A gs \in Seq(Group) : Rid(gs) \in Seq(Group)
  BY <1>2, FlatType
<1>5. ASSUME NEW gs \in Seq(Group), NEW g \in Group
      PROVE  Rid(Append(gs, g)) = Rid(gs) \o Stripped(g)
  <2>1. Each(KeptOf, Append(gs, g)) = Append(Each(KeptOf, gs), KeptOf[g])
    BY <1>1, EachAppend, Zenon
  <2>2. KeptOf[g] = Stripped(g) /\ KeptOf[g] \in Seq(Group)
    BY <1>1 DEF KeptOf
  <2>3. FlattenSeq(Append(Each(KeptOf, gs), KeptOf[g]))
          = FlattenSeq(Each(KeptOf, gs)) \o KeptOf[g]
    BY <1>2, <2>2, FlatAppend
  <2>4. Append(gs, g) \in Seq(Group)
    BY AppendProperties
  <2> QED
    BY <1>2, <2>1, <2>2, <2>3, <2>4
<1> QED
  BY <1>3, <1>4, <1>5

LEMMA OnlyConcat ==
  ASSUME NEW C, NEW s \in Seq(Command)
  PROVE  \A t \in Seq(Command) : Only(s \o t, C) = Only(s, C) \o Only(t, C)
<1> DEFINE P == {t \in Seq(Command) : Only(s \o t, C) = Only(s, C) \o Only(t, C)}
<1>1. <<>> \in P
  <2>1. s \o <<>> = s /\ Only(s, C) \o <<>> = Only(s, C) /\ <<>> \in Seq(Command)
    BY OnlyFacts, ConcatEmptySeq, EmptySeq
  <2> QED
    BY <2>1, OnlyFacts
<1>2. ASSUME NEW t \in Seq(Command), NEW e \in Command, t \in P
      PROVE  Append(t, e) \in P
  <2> DEFINE x == IF e \in C THEN <<e>> ELSE <<>>
  <2>1. x \in Seq(Command)
    OBVIOUS
  <2>2. s \o t \in Seq(Command) /\ Append(t, e) \in Seq(Command)
    BY ConcatProperties, AppendProperties
  <2>3. s \o Append(t, e) = Append(s \o t, e)
    OBVIOUS
  <2>4. /\ Only(Append(t, e), C) = Only(t, C) \o x
        /\ Only(Append(s \o t, e), C) = Only(s \o t, C) \o x
        /\ Only(s, C) \in Seq(Command) /\ Only(t, C) \in Seq(Command)
    <3>1. Only(Append(t, e), C) = Only(t, C) \o x
      BY OnlyFacts, Zenon
    <3>2. Only(Append(s \o t, e), C) = Only(s \o t, C) \o x
      BY <2>2, OnlyFacts, Zenon
    <3>3. Only(s, C) \in Seq(Command) /\ Only(t, C) \in Seq(Command)
      BY OnlyFacts
    <3> QED
      BY <3>1, <3>2, <3>3
  <2> HIDE DEF x
  <2>5. (Only(s, C) \o Only(t, C)) \o x = Only(s, C) \o (Only(t, C) \o x)
    <3> DEFINE a == Only(s, C)
               b == Only(t, C)
    <3>1. a \in Seq(Command) /\ b \in Seq(Command) /\ x \in Seq(Command)
      BY <2>1, <2>4
    <3> HIDE DEF P, a, b
    <3>2. (a \o b) \o x = a \o (b \o x)
      BY <3>1, ConcatAssociative, SMTT(40)
    <3> QED
      BY <3>2 DEF a, b
  <2>6. Only(s \o t, C) = Only(s, C) \o Only(t, C)
    BY <1>2
  <2> QED
    BY <2>2, <2>3, <2>4, <2>5, <2>6
<1>3. Seq(Command) \subseteq P
  <2> HIDE DEF P
  <2> QED
    BY <1>1, <1>2, SeqInSet
<1> QED
  BY <1>3

(* What mergeHooks leaves of a list of groups are the commands of others. *)
LEMMA RidKeepsMine ==
  \A gs \in Seq(Group) : Commands(Rid(gs)) = Only(Commands(gs), Mine)
<1> DEFINE P == {gs \in Seq(Group) : Commands(Rid(gs)) = Only(Commands(gs), Mine)}
<1>1. <<>> \in P
  BY RidFacts, CommandsFacts, OnlyFacts, EmptySeq
<1>2. ASSUME NEW gs \in Seq(Group), NEW g \in Group, gs \in P
      PROVE  Append(gs, g) \in P
  <2>1. /\ Commands(Append(gs, g)) = Commands(gs) \o g.hooks
        /\ Commands(gs) \in Seq(Command) /\ Append(gs, g) \in Seq(Group)
    BY CommandsFacts, AppendProperties
  <2>2. Rid(Append(gs, g)) = Rid(gs) \o Stripped(g) /\ Rid(gs) \in Seq(Group)
    BY RidFacts
  <2>3. /\ g.hooks \in Seq(Command)
        /\ \/ Only(g.hooks, Mine) = <<>> /\ Stripped(g) = <<>>
           \/ \E h \in Group : Stripped(g) = <<h>> /\ h.hooks = Only(g.hooks, Mine)
    BY StrippedType
  <2>4. Only(Commands(gs) \o g.hooks, Mine) = Only(Commands(gs), Mine) \o Only(g.hooks, Mine)
    BY <2>1, <2>3, OnlyConcat
  <2>5. Commands(Rid(gs)) = Only(Commands(gs), Mine) /\ Only(Commands(gs), Mine) \in Seq(Command)
    BY <1>2, <2>1, OnlyFacts
  <2> HIDE DEF P
  <2>6. CASE Only(g.hooks, Mine) = <<>> /\ Stripped(g) = <<>>
    <3>1. Rid(gs) \o <<>> = Rid(gs) /\ Only(Commands(gs), Mine) \o <<>> = Only(Commands(gs), Mine)
      BY <2>2, <2>5, ConcatEmptySeq
    <3> QED
      BY <2>1, <2>2, <2>4, <2>5, <2>6, <3>1 DEF P
  <2>7. ASSUME NEW h \in Group, Stripped(g) = <<h>>, h.hooks = Only(g.hooks, Mine)
        PROVE  Append(gs, g) \in P
    <3>1. Rid(gs) \o <<h>> = Append(Rid(gs), h)
      BY <2>2
    <3>2. Commands(Append(Rid(gs), h)) = Commands(Rid(gs)) \o h.hooks
      BY <2>2, CommandsFacts
    <3> QED
      BY <2>1, <2>2, <2>4, <2>5, <2>7, <3>1, <3>2 DEF P
  <2> QED
    BY <2>3, <2>6, <2>7
<1>3. Seq(Group) \subseteq P
  <2> HIDE DEF P
  <2> QED
    BY <1>1, <1>2, SeqInSet
<1> QED
  BY <1>3

LEMMA MergeKeeps ==
  ASSUME NEW gs \in Seq(Group)
  PROVE  /\ MergeHooks(gs) \in Seq(Group)
         /\ Only(Commands(MergeHooks(gs)), Mine) = Only(Commands(gs), Mine)
         /\ Only(Commands(MergeHooks(gs)), LyyHooks) = <<"lyy">>
<1> DEFINE s == Commands(gs)
           o == Only(s, Mine)
<1>1. MergeHooks(gs) = Append(Rid(gs), LyyGroup)
  BY DEF MergeHooks, Rid
<1>2. LyyGroup \in Group /\ LyyGroup.hooks = <<"lyy">> /\ "lyy" \in Command
  BY PairingAssumption DEF LyyGroup, Group
<1>3. Rid(gs) \in Seq(Group) /\ Commands(Rid(gs)) = o
  BY RidFacts, RidKeepsMine
<1>4. s \in Seq(Command) /\ o \in Seq(Command)
  BY CommandsFacts, OnlyFacts
<1>5. "lyy" \notin Mine /\ "lyy" \in LyyHooks /\ Mine \intersect LyyHooks = {}
  BY DEF Mine, LyyHooks
<1>6. Only(o, Mine) = o /\ Only(o, LyyHooks) = <<>>
  BY <1>4, <1>5, OnlyTwice
<1> HIDE DEF s, o
<1>7. Commands(MergeHooks(gs)) = Append(o, "lyy")
  <2>1. Commands(Append(Rid(gs), LyyGroup)) = Commands(Rid(gs)) \o LyyGroup.hooks
    BY <1>2, <1>3, CommandsFacts
  <2>2. o \o <<"lyy">> = Append(o, "lyy")
    BY <1>2, <1>4
  <2> QED
    BY <1>1, <1>2, <1>3, <2>1, <2>2
<1>8. /\ Only(Append(o, "lyy"), Mine) = Only(o, Mine) \o <<>>
      /\ Only(Append(o, "lyy"), LyyHooks) = Only(o, LyyHooks) \o <<"lyy">>
  BY <1>2, <1>4, <1>5, OnlyFacts
<1>9. o \o <<>> = o /\ <<>> \o <<"lyy">> = <<"lyy">>
  BY <1>2, <1>4, ConcatEmptySeq
<1>10. MergeHooks(gs) \in Seq(Group)
  BY <1>1, <1>2, <1>3, AppendProperties
<1> QED
  BY <1>6, <1>7, <1>8, <1>9, <1>10 DEF o, s

-----------------------------------------------------------------------------
(* The settings files. *)
SettingsType == [json : BOOLEAN, groups : Seq(Group)]

SettingsTyped == settings \in [Person -> SettingsType]

LEMMA StepSettings == SettingsTyped /\ [Next]_vars => SettingsTyped'
<1> SUFFICES ASSUME SettingsTyped, [Next]_vars PROVE SettingsTyped'
  OBVIOUS
<1>1. \A groups \in Edits : Settings(groups) \in SettingsType
  BY PairingAssumption DEF Settings, SettingsType
<1>2. Torn \in SettingsType
  BY EmptySeq DEF Torn, SettingsType
<1>3. ASSUME NEW p \in Person, MergeSettings(p) PROVE SettingsTyped'
  <2>1. CASE UNCHANGED settings
    BY <2>1 DEF SettingsTyped
  <2>2. CASE settings' = [settings EXCEPT ![p].groups = MergeHooks(@)]
    <3> DEFINE f == settings[p]
               g == [f EXCEPT !.groups = MergeHooks(f.groups)]
    <3>1. f \in SettingsType /\ f.groups \in Seq(Group)
      BY DEF SettingsTyped, SettingsType
    <3>2. MergeHooks(f.groups) \in Seq(Group)
      BY <3>1, MergeKeeps
    <3>3. g \in SettingsType
      BY <3>1, <3>2 DEF SettingsType
    <3>4. settings' = [settings EXCEPT ![p] = g]
      BY <2>2
    <3> HIDE DEF g
    <3> QED
      BY <3>3, <3>4 DEF SettingsTyped
  <2> QED
    BY <1>3, <2>1, <2>2 DEF MergeSettings
<1>4. ASSUME NEW p \in Person, Kill(p) \/ Edit(p) PROVE SettingsTyped'
  BY <1>1, <1>2, <1>4 DEF Kill, Edit, SettingsTyped
<1>5. CASE UNCHANGED settings
  BY <1>5 DEF SettingsTyped
<1>6. ASSUME NEW c \in Code, Expire(c) \/ \E e \in Spelling : Invite(c, e)
      PROVE  UNCHANGED settings
  BY <1>6 DEF Expire, Invite, homeVars
<1>7. ASSUME NEW x \in Request, RequestStep(x) \/ Abort(x) \/ LoseAnswer(x)
      PROVE  UNCHANGED settings
  BY <1>7 DEF RequestStep, ReadInvite, FindPeer, CreatePeer, Commit, Answer, Abort, LoseAnswer,
              homeVars
<1>8. ASSUME NEW x \in Request, NEW p \in Person, NEW c \in Code, NEW n \in Name,
             NEW e \in Spelling, StartInit(p, x, c, n, e)
      PROVE  UNCHANGED settings
  BY <1>8 DEF StartInit, homeVars
<1>9. ASSUME NEW p \in Person,
             WriteIdentity(p) \/ Unregister(p) \/ Register(p) \/ StartRepair(p)
      PROVE  UNCHANGED settings
  BY <1>9 DEF WriteIdentity, Unregister, Register, StartRepair, homeVars
<1>10. CASE UNCHANGED vars
  BY <1>5, <1>10 DEF vars, homeVars
<1> QED
  BY <1>3, <1>4, <1>5, <1>6, <1>7, <1>8, <1>9, <1>10 DEF Next, RunStep

(* A settings file that is not torn always holds groups of commands. *)
THEOREM PairingSettings == Spec => []SettingsTyped
<1>1. Init => SettingsTyped
  <2>1. \A groups \in Edits : Settings(groups) \in SettingsType
    BY PairingAssumption DEF Settings, SettingsType
  <2> QED
    BY <2>1 DEF Init, SettingsTyped
<1> QED
  BY <1>1, StepSettings, PTL DEF Spec

(* mergeHooks keeps every command of the user in its order and leaves      *)
(* exactly one of lyy, the current one, whatever list of groups it finds   *)
(* (init.ts:207-229).                                                      *)
THEOREM PairingHooksKept == Spec => HooksKept
<1> DEFINE Keeps == \A p \in Person : MergeSettings(p) /\ settings[p].json =>
       /\ Only(Commands(settings'[p].groups), Mine) = Only(Commands(settings[p].groups), Mine)
       /\ Only(Commands(settings'[p].groups), LyyHooks) = <<"lyy">>
<1>1. SettingsTyped /\ [Next]_vars => [Keeps]_vars
  <2> SUFFICES ASSUME SettingsTyped, NEW p \in Person, MergeSettings(p), settings[p].json
               PROVE  /\ Only(Commands(settings'[p].groups), Mine)
                           = Only(Commands(settings[p].groups), Mine)
                      /\ Only(Commands(settings'[p].groups), LyyHooks) = <<"lyy">>
    OBVIOUS
  <2>1. settings' = [settings EXCEPT ![p].groups = MergeHooks(@)]
    BY DEF MergeSettings
  <2>2. settings[p].groups \in Seq(Group) /\ settings[p] \in SettingsType
    BY DEF SettingsTyped, SettingsType
  <2>3. settings'[p].groups = MergeHooks(settings[p].groups)
    BY <2>1, <2>2 DEF SettingsTyped, SettingsType
  <2> QED
    BY <2>2, <2>3, MergeKeeps
<1> QED
  BY <1>1, PairingSettings, PTL DEF Spec, HooksKept

-----------------------------------------------------------------------------
(* Requests, rows and tokens.                                              *)

USE PairingAssumption

RequestPcs == {"idle", "read", "find", "insert", "commit", "answer"}
RunPcs == {"idle", "ask", "identity", "settings", "unregister", "register"}

RequestType == [pc : RequestPcs, code : Code \union {None}, name : Name \union {None},
                email : Spelling \union {None}, result : Name \union {None}]
RunType == [pc : RunPcs, req : Request \union {None}, token : Name \union {None}]
InviteType == [for : {Mailbox[e] : e \in Spelling}, consumed : BOOLEAN, expired : BOOLEAN]

Types ==
  /\ DOMAIN invites \subseteq Code
  /\ invites \in [DOMAIN invites -> InviteType]
  /\ peers \subseteq [name : Name, email : Spelling, by : Code]
  /\ req \in [Request -> RequestType]
  /\ cli \in [Person -> RunType]
  /\ identity \in [Person -> Name \union {None, Broken}]
  /\ mcp \subseteq Person
  /\ runs \in 0..MaxRuns /\ faults \in 0..MaxFaults

-----------------------------------------------------------------------------
(* The database.                                                           *)

Under == {"read", "find", "insert", "commit"}

(* The transaction of request x holds the lock of its invite. *)
Holding(x) == req[x].pc \in {"find", "insert", "commit"}

(* A request under way has asked for something and has no result yet. *)
Asked ==
  \A x \in Request : req[x].pc \in Under =>
    /\ req[x].code \in Code /\ req[x].name \in Name /\ req[x].email \in Spelling
    /\ req[x].result = None

(* An invite has one transaction at most, and it finds it unused. *)
Locks ==
  /\ \A x \in Request : Holding(x) =>
       req[x].code \in DOMAIN invites /\ ~invites[req[x].code].consumed
  /\ \A x, y \in Request : Holding(x) /\ Holding(y) /\ req[x].code = req[y].code => x = y

(* No two rows share a name or an address, whether they are committed or   *)
(* about to be.                                                            *)
Unique ==
  /\ \A p, q \in peers : Clash(p, q) => p = q
  /\ \A x \in Request : req[x].pc = "commit" => \A p \in peers : ~Clash(p, req[x])
  /\ \A x, y \in Request :
       req[x].pc = "commit" /\ req[y].pc = "commit" /\ Clash(req[x], req[y]) => x = y

ByInvite == \A p \in peers : p.by \in DOMAIN invites

DbInv == Asked /\ Locks /\ Unique /\ ByInvite /\ InviteOnce

-----------------------------------------------------------------------------
(* The tokens.                                                             *)

(* Names whose token the answer of request x carries, and those whose      *)
(* token machine p has.                                                    *)
Carried(x) == (IF req[x].pc = "answer" THEN {req[x].result} ELSE {}) \ {None, Broken}

Has(p) ==
  ((IF cli[p].pc = "identity" THEN {cli[p].token} ELSE {}) \union {identity[p]})
    \ {None, Broken}

Names == {p.name : p \in peers}

(* A run waits for a request that is its own and has not ended. *)
Waits ==
  /\ \A p \in Person : cli[p].req # None =>
       cli[p].pc = "ask" /\ req[cli[p].req].pc # "idle"
  /\ \A p, q \in Person : cli[p].req # None /\ cli[p].req = cli[q].req => p = q

(* A run that will write a token has one. *)
Tokens == \A p \in Person : cli[p].pc = "identity" => cli[p].token \in Name

(* Every token under way or held is that of a committed peer, and is in    *)
(* one place only.                                                         *)
Own ==
  /\ \A x \in Request : Carried(x) \subseteq Names
  /\ \A p \in Person : Has(p) \subseteq Names
  /\ \A x, y \in Request : x # y => Carried(x) \cap Carried(y) = {}
  /\ \A p, q \in Person : p # q => Has(p) \cap Has(q) = {}
  /\ \A x \in Request, p \in Person : Carried(x) \cap Has(p) = {}

OwnInv == Waits /\ Tokens /\ Own

PairInv == Types /\ DbInv /\ OwnInv

-----------------------------------------------------------------------------
(* Request x goes on to `to' and nothing else of it changes. *)
Advances(x, to) == req' = [req EXCEPT ![x] = [req[x] EXCEPT !.pc = to]]

LEMMA AdvanceFacts ==
  ASSUME Types, NEW x \in Request, NEW to \in RequestPcs, Advances(x, to)
  PROVE  /\ req' \in [Request -> RequestType]
         /\ req'[x].pc = to /\ req'[x].code = req[x].code
         /\ req'[x].name = req[x].name /\ req'[x].email = req[x].email
         /\ req'[x].result = req[x].result
         /\ \A y \in Request \ {x} : req'[y] = req[y]
BY DEF Advances, Types, RequestType

(* A request that only moves on leaves every token where it is. *)
LEMMA AdvanceOwn ==
  ASSUME Types, DbInv, OwnInv, NEW x \in Request, NEW to \in RequestPcs,
         Advances(x, to), req[x].pc \in Under, to # "idle",
         UNCHANGED <<peers, cli, identity>>
  PROVE  OwnInv'
<1>1. /\ req'[x].pc = to /\ req'[x].result = None
      /\ \A y \in Request \ {x} : req'[y] = req[y]
  BY AdvanceFacts DEF DbInv, Asked
<1>2. \A y \in Request : Carried(y)' = Carried(y)
  <2>1. Carried(x)' = {} /\ Carried(x) = {}
    BY <1>1 DEF Carried, Under
  <2>2. \A y \in Request \ {x} : Carried(y)' = Carried(y)
    BY <1>1 DEF Carried
  <2>3. QED
    BY <2>1, <2>2
<1>3. \A p \in Person : Has(p)' = Has(p)
  BY DEF Has
<1>4. Own'
  <2>1. Names' = Names
    BY DEF Names
  <2>2. QED
    BY <1>2, <1>3, <2>1 DEF OwnInv, Own
<1>5. Waits' /\ Tokens'
  <2>1. \A p \in Person : cli[p].req # None => cli[p].req \in Request
    BY DEF Types, RunType
  <2>2. \A y \in Request : req[y].pc # "idle" => req'[y].pc # "idle"
    BY <1>1
  <2>3. QED
    BY <2>1, <2>2 DEF OwnInv, Waits, Tokens
<1>6. QED
  BY <1>4, <1>5 DEF OwnInv

(* A request that holds no lock afterwards disturbs nobody. *)
LEMMA RefuseDb ==
  ASSUME Types, DbInv, NEW x \in Request, Advances(x, "answer"),
         UNCHANGED <<invites, peers>>
  PROVE  DbInv'
<1>1. /\ req'[x].pc = "answer"
      /\ \A y \in Request \ {x} : req'[y] = req[y]
  BY AdvanceFacts DEF RequestPcs
<1>2. \A y \in Request : Holding(y)' => y # x /\ Holding(y)
  BY <1>1 DEF Holding
<1>3. Asked' /\ ByInvite' /\ InviteOnce'
  BY <1>1 DEF DbInv, Asked, ByInvite, InviteOnce, Under
<1>4. Locks'
  BY <1>1, <1>2 DEF DbInv, Locks
<1>5. Unique'
  BY <1>1 DEF DbInv, Unique
<1>6. QED
  BY <1>3, <1>4, <1>5 DEF DbInv

(* Reading a usable invite takes its lock. *)
LEMMA ReadDb ==
  ASSUME Types, DbInv, NEW x \in Request, Advances(x, "find"),
         req[x].pc = "read", ~Locked(req[x].code), Usable(req[x].code, req[x].email),
         UNCHANGED <<invites, peers>>
  PROVE  DbInv'
<1>1. /\ req'[x].pc = "find" /\ req'[x].code = req[x].code
      /\ req'[x].name = req[x].name /\ req'[x].email = req[x].email
      /\ req'[x].result = req[x].result
      /\ \A y \in Request \ {x} : req'[y] = req[y]
  BY AdvanceFacts DEF RequestPcs
<1>2. Asked' /\ ByInvite' /\ InviteOnce'
  BY <1>1 DEF DbInv, Asked, ByInvite, InviteOnce, Under
<1>3. Locks'
  <2>1. \A y \in Request : Holding(y) => req[y].code # req[x].code
    BY DEF Locked, Holding
  <2>2. \A y \in Request \ {x} : (Holding(y)' <=> Holding(y)) /\ req'[y].code = req[y].code
    BY <1>1 DEF Holding
  <2>3. req[x].code \in DOMAIN invites /\ ~invites[req[x].code].consumed
    BY DEF Usable
  <2>4. QED
    BY <1>1, <2>1, <2>2, <2>3 DEF DbInv, Locks
<1>4. Unique'
  BY <1>1 DEF DbInv, Unique
<1>5. QED
  BY <1>2, <1>3, <1>4 DEF DbInv

(* Going on with a lock keeps it; before the commit it must be known that  *)
(* the row clashes with no other.                                          *)
LEMMA HoldDb ==
  ASSUME Types, DbInv, NEW x \in Request, NEW to \in {"insert", "commit"},
         Advances(x, to), Holding(x),
         to = "commit" =>
           /\ \A y \in Request \ {x} : req[y].pc = "commit" => ~Clash(req[y], req[x])
           /\ \A p \in peers : ~Clash(p, req[x]),
         UNCHANGED <<invites, peers>>
  PROVE  DbInv'
<1>1. /\ req'[x].pc = to /\ req'[x].code = req[x].code
      /\ req'[x].name = req[x].name /\ req'[x].email = req[x].email
      /\ req'[x].result = req[x].result
      /\ \A y \in Request \ {x} : req'[y] = req[y]
  BY AdvanceFacts DEF RequestPcs
<1>2. Asked' /\ ByInvite' /\ InviteOnce'
  BY <1>1 DEF DbInv, Asked, ByInvite, InviteOnce, Under, Holding
<1>3. Locks'
  <2>1. \A y \in Request : (Holding(y)' <=> Holding(y)) /\ req'[y].code = req[y].code
    BY <1>1 DEF Holding
  <2>2. QED
    BY <2>1 DEF DbInv, Locks
<1>4. Unique'
  <2>1. \A y, z \in Request : Clash(req'[y], req'[z]) <=> Clash(req[y], req[z])
    BY <1>1 DEF Clash
  <2>2. \A p : Clash(p, req'[x]) <=> Clash(p, req[x])
    BY <1>1 DEF Clash
  <2>3. \A y, z \in Request : Clash(req[y], req[z]) => Clash(req[z], req[y])
    BY DEF Clash
  <2>4. \A y \in Request \ {x} : req'[y].pc = req[y].pc
    BY <1>1
  <2>5. ASSUME NEW y \in Request, NEW z \in Request,
               req'[y].pc = "commit", req'[z].pc = "commit", Clash(req'[y], req'[z])
        PROVE  y = z
    <3>1. Clash(req[y], req[z]) /\ Clash(req[z], req[y])
      BY <2>1, <2>3, <2>5
    <3>2. CASE y # x /\ z # x
      BY <2>4, <2>5, <3>1, <3>2 DEF DbInv, Unique
    <3>3. CASE y = x \/ z = x
      BY <1>1, <2>4, <2>5, <3>1, <3>3
    <3>4. QED
      BY <3>2, <3>3
  <2>6. ASSUME NEW y \in Request, req'[y].pc = "commit", NEW p \in peers
        PROVE  ~Clash(p, req'[y])
    BY <1>1, <2>2, <2>6 DEF DbInv, Unique
  <2>7. QED
    BY <2>5, <2>6 DEF DbInv, Unique
<1>5. QED
  BY <1>2, <1>3, <1>4 DEF DbInv

(* Setting a flag of an invite leaves it an invite. *)
LEMMA InviteFlags ==
  ASSUME NEW i \in InviteType
  PROVE  /\ [i EXCEPT !.consumed = TRUE] \in InviteType
         /\ [i EXCEPT !.consumed = TRUE].consumed = TRUE
         /\ [i EXCEPT !.expired = TRUE] \in InviteType
         /\ [i EXCEPT !.expired = TRUE].consumed = i.consumed
BY DEF InviteType

(* Putting an invite in the place of another. *)
LEMMA InvitePut ==
  ASSUME NEW f, NEW D, f \in [D -> InviteType], NEW c \in D, NEW i \in InviteType,
         NEW g, g = [f EXCEPT ![c] = i]
  PROVE  /\ g \in [D -> InviteType] /\ DOMAIN g = D
         /\ g[c] = i
         /\ \A d \in D \ {c} : g[d] = f[d]
OBVIOUS

(* The row committed is unique, and its invite is consumed with it. *)
LEMMA CommitDb ==
  ASSUME Types, DbInv, NEW x \in Request, Commit(x)
  PROVE  DbInv' /\ invites' \in [DOMAIN invites -> InviteType]
         /\ peers' \subseteq [name : Name, email : Spelling, by : Code]
<1> DEFINE r == req[x]
           row == Row(r)
<1>1. /\ r.pc = "commit" /\ r.code \in Code /\ r.name \in Name /\ r.email \in Spelling
      /\ r.code \in DOMAIN invites /\ ~invites[r.code].consumed
      /\ r \in RequestType
  BY DEF Commit, Moves, DbInv, Asked, Locks, Holding, Under, Types
<1>2. /\ req' = [req EXCEPT ![x] = [r EXCEPT !.pc = "answer", !.result = r.name]]
      /\ peers' = peers \union {row}
      /\ invites' = [invites EXCEPT ![r.code].consumed = TRUE]
  BY DEF Commit, Moves
<1>3. row.name = r.name /\ row.email = r.email /\ row.by = r.code
      /\ row \in [name : Name, email : Spelling, by : Code]
  BY <1>1 DEF Row
<1>4. /\ DOMAIN invites' = DOMAIN invites
      /\ invites'[r.code].consumed = TRUE
      /\ \A c \in DOMAIN invites \ {r.code} : invites'[c] = invites[c]
      /\ invites' \in [DOMAIN invites -> InviteType]
  <2>1. invites[r.code] \in InviteType /\ invites \in [DOMAIN invites -> InviteType]
    BY <1>1 DEF Types
  <2>2. invites' = [invites EXCEPT ![r.code] = [invites[r.code] EXCEPT !.consumed = TRUE]]
    BY <1>2
  <2>3. QED
    BY <1>1, <2>1, <2>2, InviteFlags, InvitePut
<1>5. /\ req'[x].pc = "answer"
      /\ \A y \in Request \ {x} : req'[y] = req[y]
  BY <1>1, <1>2 DEF Types, RequestType
<1> HIDE DEF row
<1>6. Asked' /\ ByInvite'
  BY <1>1, <1>2, <1>3, <1>4, <1>5 DEF DbInv, Asked, ByInvite, Under
<1>7. Locks'
  <2>1. \A y \in Request \ {x} : Holding(y) => req[y].code # r.code
    BY <1>1 DEF DbInv, Locks, Holding
  <2>2. \A y \in Request : Holding(y)' => y # x /\ Holding(y) /\ req'[y] = req[y]
    BY <1>5 DEF Holding
  <2>3. QED
    BY <1>4, <2>1, <2>2 DEF DbInv, Locks
<1>8. Unique'
  <2>1. \A p \in peers : ~Clash(p, row) /\ ~Clash(row, p)
    BY <1>1, <1>3 DEF DbInv, Unique, Clash
  <2>2. \A y \in Request \ {x} : req[y].pc = "commit" => ~Clash(row, req[y])
    BY <1>1, <1>3 DEF DbInv, Unique, Clash
  <2>3. \A p, q \in peers' : Clash(p, q) => p = q
    BY <1>2, <2>1 DEF DbInv, Unique
  <2>4. \A y \in Request : req'[y].pc = "commit" => \A p \in peers' : ~Clash(p, req'[y])
    BY <1>2, <1>5, <2>2 DEF DbInv, Unique
  <2>5. QED
    BY <1>5, <2>3, <2>4 DEF DbInv, Unique
<1>9. InviteOnce'
  <2>1. \A p \in peers : p.by \in DOMAIN invites /\ p.by # r.code
    BY <1>1 DEF DbInv, ByInvite, InviteOnce
  <2>2. \A p, q \in peers' : p.by = q.by => p = q
    BY <1>2, <1>3, <2>1 DEF DbInv, InviteOnce
  <2>3. ASSUME NEW c \in DOMAIN invites
        PROVE  invites'[c].consumed <=> \E p \in peers' : p.by = c
    <3>1. CASE c = r.code
      BY <1>2, <1>3, <1>4, <3>1
    <3>2. CASE c # r.code
      BY <1>2, <1>3, <1>4, <3>2 DEF DbInv, InviteOnce
    <3>3. QED
      BY <3>1, <3>2
  <2>4. QED
    BY <1>4, <2>2, <2>3 DEF InviteOnce
<1>10. QED
  BY <1>2, <1>3, <1>4, <1>6, <1>7, <1>8, <1>9 DEF DbInv, Types

(* Nobody had the name before, so its token is in one place. *)
LEMMA CommitOwn ==
  ASSUME Types, DbInv, OwnInv, NEW x \in Request, Commit(x)
  PROVE  OwnInv'
<1> DEFINE n == req[x].name
<1>1. /\ req[x].pc = "commit" /\ n \in Name /\ n \notin Names
      /\ peers' = peers \union {Row(req[x])}
      /\ cli' = cli /\ identity' = identity
      /\ req' = [req EXCEPT ![x] = [req[x] EXCEPT !.pc = "answer", !.result = n]]
  BY DEF Commit, Moves, DbInv, Asked, Unique, Clash, Under, homeVars, Names
<1>2. /\ req'[x].pc = "answer" /\ req'[x].result = n
      /\ \A y \in Request \ {x} : req'[y] = req[y]
  BY <1>1 DEF Types, RequestType
<1>3. Names' = Names \union {n}
  <2>1. Row(req[x]).name = n
    BY DEF Row
  <2>2. QED
    BY <1>1, <2>1 DEF Names
<1> HIDE DEF n
<1>4. /\ Carried(x)' \subseteq {n}
      /\ \A y \in Request \ {x} : Carried(y)' = Carried(y)
      /\ \A p \in Person : Has(p)' = Has(p)
  BY <1>1, <1>2 DEF Carried, Has
<1>5. /\ \A y \in Request : n \notin Carried(y)
      /\ \A p \in Person : n \notin Has(p)
  BY <1>1 DEF OwnInv, Own
<1>6. Own'
  <2>1. \A y \in Request : Carried(y)' \subseteq Names'
    BY <1>3, <1>4 DEF OwnInv, Own
  <2>2. \A p \in Person : Has(p)' \subseteq Names'
    BY <1>3, <1>4 DEF OwnInv, Own
  <2>3. ASSUME NEW y \in Request, NEW z \in Request, y # z
        PROVE  Carried(y)' \cap Carried(z)' = {}
    <3>1. CASE y = x
      BY <1>4, <1>5, <2>3, <3>1
    <3>2. CASE z = x
      BY <1>4, <1>5, <2>3, <3>2
    <3>3. CASE y # x /\ z # x
      BY <1>4, <2>3, <3>3 DEF OwnInv, Own
    <3>4. QED
      BY <3>1, <3>2, <3>3
  <2>4. \A p, q \in Person : p # q => Has(p)' \cap Has(q)' = {}
    BY <1>4 DEF OwnInv, Own
  <2>5. ASSUME NEW y \in Request, NEW p \in Person
        PROVE  Carried(y)' \cap Has(p)' = {}
    <3>1. CASE y = x
      BY <1>4, <1>5, <3>1
    <3>2. CASE y # x
      BY <1>4, <3>2 DEF OwnInv, Own
    <3>3. QED
      BY <3>1, <3>2
  <2>6. QED
    BY <2>1, <2>2, <2>3, <2>4, <2>5 DEF Own
<1>7. Waits' /\ Tokens'
  <2>1. \A p \in Person : cli[p].req # None => cli[p].req \in Request
    BY DEF Types, RunType
  <2>2. QED
    BY <1>1, <1>2, <2>1 DEF OwnInv, Waits, Tokens
<1>8. QED
  BY <1>6, <1>7 DEF OwnInv

-----------------------------------------------------------------------------
(* A request slot that is free, or has just been given a request to read,  *)
(* holds nothing.                                                          *)
LEMMA SlotDb ==
  ASSUME Types, DbInv, NEW x \in Request, NEW new \in RequestType,
         new.pc = "idle" \/
           (/\ new.pc = "read" /\ new.code \in Code /\ new.name \in Name
            /\ new.email \in Spelling /\ new.result = None),
         req' = [req EXCEPT ![x] = new],
         UNCHANGED <<invites, peers>>
  PROVE  DbInv' /\ req' \in [Request -> RequestType]
<1>1. /\ req'[x] = new
      /\ \A y \in Request \ {x} : req'[y] = req[y]
      /\ req' \in [Request -> RequestType]
  BY DEF Types
<1>2. \A y \in Request : Holding(y)' => y # x /\ Holding(y)
  BY <1>1 DEF Holding
<1>3. Asked' /\ ByInvite' /\ InviteOnce'
  BY <1>1 DEF DbInv, Asked, ByInvite, InviteOnce, Under
<1>4. Locks'
  BY <1>1, <1>2 DEF DbInv, Locks
<1>5. Unique'
  BY <1>1 DEF DbInv, Unique
<1>6. QED
  BY <1>1, <1>3, <1>4, <1>5 DEF DbInv

(* New and expired invites leave what was consumed. *)
LEMMA InvitesDb ==
  ASSUME Types, DbInv, NEW c \in Code,
         Expire(c) \/ \E e \in Spelling : Invite(c, e)
  PROVE  Types' /\ DbInv' /\ UNCHANGED <<peers, req, cli, identity>>
<1>1. UNCHANGED <<peers, req, cli, homeVars, runs, faults>>
  BY DEF Expire, Invite
<1>2. /\ DOMAIN invites \subseteq DOMAIN invites'
      /\ DOMAIN invites' \subseteq DOMAIN invites \union {c}
      /\ invites' \in [DOMAIN invites' -> InviteType]
      /\ \A d \in DOMAIN invites : invites'[d].consumed = invites[d].consumed
      /\ c \notin DOMAIN invites /\ c \in DOMAIN invites' => ~invites'[c].consumed
  <2>1. CASE Expire(c)
    <3>1. /\ c \in DOMAIN invites
          /\ invites' = [invites EXCEPT ![c] = [invites[c] EXCEPT !.expired = TRUE]]
      BY <2>1 DEF Expire
    <3>2. invites[c] \in InviteType /\ invites \in [DOMAIN invites -> InviteType]
      BY <3>1 DEF Types
    <3>3. /\ invites' \in [DOMAIN invites -> InviteType] /\ DOMAIN invites' = DOMAIN invites
          /\ invites'[c] = [invites[c] EXCEPT !.expired = TRUE]
          /\ \A d \in DOMAIN invites \ {c} : invites'[d] = invites[d]
      BY <3>1, <3>2, InviteFlags, InvitePut
    <3>4. invites'[c].consumed = invites[c].consumed
      BY <3>2, <3>3, InviteFlags
    <3>5. QED
      BY <3>1, <3>3, <3>4
  <2>2. ASSUME NEW e \in Spelling, Invite(c, e)
        PROVE  /\ DOMAIN invites \subseteq DOMAIN invites'
               /\ DOMAIN invites' \subseteq DOMAIN invites \union {c}
               /\ invites' \in [DOMAIN invites' -> InviteType]
               /\ \A d \in DOMAIN invites : invites'[d].consumed = invites[d].consumed
               /\ c \notin DOMAIN invites /\ c \in DOMAIN invites' => ~invites'[c].consumed
    <3>1. /\ c \notin DOMAIN invites
          /\ invites' = [d \in DOMAIN invites \union {c} |->
               IF d = c THEN [for |-> Mailbox[e], consumed |-> FALSE, expired |-> FALSE]
                        ELSE invites[d]]
      BY <2>2 DEF Invite
    <3> DEFINE i == [for |-> Mailbox[e], consumed |-> FALSE, expired |-> FALSE]
    <3>2. i \in InviteType /\ ~i.consumed
      BY DEF InviteType
    <3> HIDE DEF i
    <3>3. \A d \in DOMAIN invites : invites[d] \in InviteType
      BY DEF Types
    <3>4. DOMAIN invites' = DOMAIN invites \union {c} /\ invites'[c] = i
      BY <3>1 DEF i
    <3>5. \A d \in DOMAIN invites : invites'[d] = invites[d]
      BY <3>1
    <3>6. invites' \in [DOMAIN invites \union {c} -> InviteType]
      BY <3>1, <3>2, <3>3 DEF i
    <3>7. QED
      BY <3>1, <3>2, <3>4, <3>5, <3>6
  <2>3. QED
    BY <2>1, <2>2
<1>3. Types'
  BY <1>1, <1>2 DEF Types, homeVars
<1>4. Asked' /\ Unique' /\ ByInvite'
  BY <1>1, <1>2 DEF DbInv, Asked, Unique, ByInvite
<1>5. Locks'
  BY <1>1, <1>2 DEF DbInv, Locks, Holding
<1>6. InviteOnce'
  BY <1>1, <1>2 DEF DbInv, InviteOnce, ByInvite
<1>7. QED
  BY <1>1, <1>3, <1>4, <1>5, <1>6 DEF DbInv, homeVars

-----------------------------------------------------------------------------
(* What one machine and one request have says when Own goes on to hold:    *)
(* no token is in more places than before, or it moved from one place to   *)
(* another.                                                                *)
LEMMA OwnShrinks ==
  ASSUME Own, UNCHANGED peers,
         \A x \in Request : Carried(x)' \subseteq Carried(x),
         \A p \in Person : Has(p)' \subseteq Has(p)
  PROVE  Own'
<1>1. Names' = Names
  BY DEF Names
<1>2. QED
  BY <1>1 DEF Own

LEMMA OwnMoves ==
  ASSUME Own, UNCHANGED peers, NEW x \in Request, NEW p \in Person,
         Carried(x)' = {},
         \A y \in Request \ {x} : Carried(y)' = Carried(y),
         Has(p)' \subseteq Has(p) \union Carried(x),
         \A q \in Person \ {p} : Has(q)' \subseteq Has(q)
  PROVE  Own'
<1>1. Names' = Names
  BY DEF Names
<1>2. \A y \in Request : Carried(y)' \subseteq Names'
  BY <1>1 DEF Own
<1>3. \A q \in Person : Has(q)' \subseteq Names'
  BY <1>1 DEF Own
<1>4. \A y, z \in Request : y # z => Carried(y)' \cap Carried(z)' = {}
  BY DEF Own
<1>5. ASSUME NEW q \in Person, NEW r \in Person, q # r
      PROVE  Has(q)' \cap Has(r)' = {}
  <2>1. CASE q = p
    BY <1>5, <2>1 DEF Own
  <2>2. CASE r = p
    BY <1>5, <2>2 DEF Own
  <2>3. CASE q # p /\ r # p
    BY <1>5, <2>3 DEF Own
  <2>4. QED
    BY <2>1, <2>2, <2>3
<1>6. ASSUME NEW y \in Request, NEW q \in Person
      PROVE  Carried(y)' \cap Has(q)' = {}
  <2>1. CASE y = x
    BY <2>1
  <2>2. CASE y # x /\ q = p
    BY <2>2 DEF Own
  <2>3. CASE y # x /\ q # p
    BY <2>3 DEF Own
  <2>4. QED
    BY <2>1, <2>2, <2>3
<1>7. QED
  BY <1>2, <1>3, <1>4, <1>5, <1>6 DEF Own

(* The answer of x ends the request and reaches at most one run, which has *)
(* the token then, or it is lost.                                          *)
LEMMA AnswerOwn ==
  ASSUME Types, DbInv, OwnInv, NEW x \in Request, Answer(x) \/ LoseAnswer(x)
  PROVE  Types' /\ DbInv' /\ OwnInv'
<1>1. /\ req[x].pc = "answer"
      /\ req' = [req EXCEPT ![x] = NoRequest]
      /\ UNCHANGED <<dbVars, homeVars, runs>>
      /\ faults' \in 0..MaxFaults
  BY DEF Answer, LoseAnswer, Moves, Fault, Types
<1>2. NoRequest \in RequestType /\ NoRequest.pc = "idle" /\ NoRequest.result = None
  BY DEF NoRequest, RequestType, RequestPcs
<1>3. DbInv' /\ req' \in [Request -> RequestType]
  BY <1>1, <1>2, SlotDb DEF dbVars
<1>4. /\ req'[x].pc = "idle"
      /\ \A y \in Request \ {x} : req'[y] = req[y]
  BY <1>1, <1>2 DEF Types
<1> DEFINE got == [pc |-> "identity", req |-> None, token |-> req[x].result]
<1>5. /\ Resting \in RunType /\ Resting.pc = "idle" /\ Resting.req = None
      /\ got.pc = "identity" /\ got.req = None /\ got.token = req[x].result
      /\ req[x].result \in Name \union {None}
      /\ got \in RunType
  <2>1. Resting \in RunType /\ Resting.pc = "idle" /\ Resting.req = None
    BY DEF Resting, RunType, RunPcs
  <2>2. req[x].result \in Name \union {None}
    BY DEF Types, RequestType
  <2>3. QED
    BY <2>1, <2>2 DEF RunType, RunPcs
<1>6. /\ cli' \in [Person -> RunType]
      /\ \A p \in Person : cli[p].req # x => cli'[p] = cli[p]
      /\ \A p \in Person : cli[p].req = x =>
           \/ cli'[p] = Resting
           \/ cli'[p] = got /\ req[x].result # None
  <2>1. CASE Answer(x)
    <3>1. cli' = [p \in Person |-> IF cli[p].req # x THEN cli[p]
                                   ELSE IF req[x].result = None THEN Resting ELSE got]
      BY <2>1 DEF Answer
    <3> HIDE DEF got
    <3>2. QED
      BY <1>5, <3>1 DEF Types
  <2>2. CASE LoseAnswer(x)
    <3>1. cli' = [p \in Person |-> IF cli[p].req = x THEN Resting ELSE cli[p]]
      BY <2>2 DEF LoseAnswer
    <3> HIDE DEF got
    <3>2. QED
      BY <1>5, <3>1 DEF Types
  <2>3. QED
    BY <2>1, <2>2
<1> HIDE DEF got
<1>7. Types'
  BY <1>1, <1>3, <1>6 DEF Types, dbVars, homeVars
<1>8. Waits' /\ Tokens'
  <2>1. \A p \in Person : cli'[p].req # None => cli'[p] = cli[p] /\ cli[p].req # x
    BY <1>5, <1>6
  <2>2. \A p \in Person : cli[p].req # None => cli[p].req \in Request
    BY DEF Types, RunType
  <2>3. Waits'
    BY <1>4, <2>1, <2>2 DEF OwnInv, Waits
  <2>4. Tokens'
    BY <1>5, <1>6 DEF OwnInv, Tokens
  <2>5. QED
    BY <2>3, <2>4
<1>9. /\ Carried(x)' = {}
      /\ \A y \in Request \ {x} : Carried(y)' = Carried(y)
  BY <1>4 DEF Carried
<1>10. \A p \in Person : cli[p].req # x => Has(p)' = Has(p)
  BY <1>1, <1>6 DEF Has, homeVars
<1>11. \A p \in Person : cli[p].req = x => Has(p)' \subseteq Has(p) \union Carried(x)
  <2> SUFFICES ASSUME NEW p \in Person, cli[p].req = x
               PROVE  Has(p)' \subseteq Has(p) \union Carried(x)
    OBVIOUS
  <2>1. identity' = identity
    BY <1>1 DEF homeVars
  <2>2. CASE cli'[p] = Resting
    BY <1>5, <2>1, <2>2 DEF Has
  <2>3. CASE cli'[p] = got
    BY <1>1, <1>5, <2>1, <2>3 DEF Has, Carried
  <2>4. QED
    BY <1>6, <2>2, <2>3
<1>12. Own'
  <2>1. CASE \E p \in Person : cli[p].req = x
    <3>1. PICK p \in Person : cli[p].req = x
      BY <2>1
    <3>2. \A q \in Person \ {p} : cli[q].req # x
      BY <3>1 DEF OwnInv, Waits
    <3>3. QED
      BY <1>1, <1>9, <1>10, <1>11, <3>1, <3>2, OwnMoves DEF OwnInv, dbVars
  <2>2. CASE \A p \in Person : cli[p].req # x
    BY <1>1, <1>9, <1>10, <2>2, OwnShrinks DEF OwnInv, dbVars
  <2>3. QED
    BY <2>1, <2>2
<1>13. QED
  BY <1>3, <1>7, <1>8, <1>12 DEF OwnInv

(* A run of init asks with a request of its own. *)
LEMMA StartInitOwn ==
  ASSUME Types, DbInv, OwnInv, NEW p \in Person, NEW x \in Request, NEW c \in Code,
         NEW n \in Name, NEW e \in Spelling, StartInit(p, x, c, n, e)
  PROVE  Types' /\ DbInv' /\ OwnInv'
<1> DEFINE new == [pc |-> "read", code |-> c, name |-> n, email |-> e, result |-> None]
           asks == [Resting EXCEPT !.pc = "ask", !.req = x]
<1>1. /\ cli[p].pc = "idle" /\ req[x].pc = "idle"
      /\ req' = [req EXCEPT ![x] = new]
      /\ cli' = [cli EXCEPT ![p] = asks]
      /\ UNCHANGED <<dbVars, homeVars, faults>>
      /\ runs' \in 0..MaxRuns
  BY DEF StartInit, Runs, Moves, Types
<1>2. /\ new \in RequestType /\ new.pc = "read" /\ new.code = c /\ new.name = n
      /\ new.email = e /\ new.result = None
      /\ asks \in RunType /\ asks.pc = "ask" /\ asks.req = x
  BY DEF RequestType, RequestPcs, RunType, RunPcs, Resting
<1> HIDE DEF new, asks
<1>3. DbInv' /\ req' \in [Request -> RequestType]
  BY <1>1, <1>2, SlotDb DEF dbVars
<1>4. /\ req'[x].pc = "read"
      /\ \A y \in Request \ {x} : req'[y] = req[y]
      /\ cli' \in [Person -> RunType]
      /\ cli'[p] = asks
      /\ \A q \in Person \ {p} : cli'[q] = cli[q]
  BY <1>1, <1>2 DEF Types
<1>5. Types'
  BY <1>1, <1>3, <1>4 DEF Types, dbVars, homeVars
<1>6. Waits' /\ Tokens'
  <2>1. \A q \in Person : cli[q].req # None => cli[q].req \in Request /\ cli[q].req # x
    BY <1>1 DEF Types, RunType, OwnInv, Waits
  <2>2. \A q \in Person : cli'[q].req # None =>
          q = p \/ (q # p /\ cli'[q] = cli[q] /\ cli[q].req \in Request /\ cli[q].req # x)
    BY <1>4, <2>1
  <2>3. Waits'
    BY <1>2, <1>4, <2>2 DEF OwnInv, Waits
  <2>4. Tokens'
    BY <1>2, <1>4 DEF OwnInv, Tokens
  <2>5. QED
    BY <2>3, <2>4
<1>7. /\ \A y \in Request : Carried(y)' \subseteq Carried(y)
      /\ \A q \in Person : Has(q)' \subseteq Has(q)
  BY <1>1, <1>2, <1>4 DEF Carried, Has, homeVars
<1>8. Own'
  BY <1>1, <1>7, OwnShrinks DEF OwnInv, dbVars
<1>9. QED
  BY <1>3, <1>5, <1>6, <1>8 DEF OwnInv

(* A run that goes on without asking, and without a token that is not in   *)
(* its file, holds no more than before.                                    *)
LEMMA RunOwn ==
  ASSUME Types, DbInv, OwnInv, NEW p \in Person, NEW r \in RunType,
         cli' = [cli EXCEPT ![p] = r], r.req = None, r.pc # "identity",
         identity' \in [Person -> Name \union {None, Broken}],
         \A q \in Person \ {p} : identity'[q] = identity[q],
         \/ identity'[p] \in {identity[p], Broken}
         \/ cli[p].pc = "identity" /\ identity'[p] = cli[p].token,
         UNCHANGED <<dbVars, req>>, mcp' \subseteq Person,
         runs' \in 0..MaxRuns, faults' \in 0..MaxFaults
  PROVE  Types' /\ DbInv' /\ OwnInv'
<1>1. /\ cli' \in [Person -> RunType]
      /\ cli'[p] = r
      /\ \A q \in Person \ {p} : cli'[q] = cli[q]
      /\ invites' = invites /\ peers' = peers /\ req' = req
  BY DEF Types, dbVars
<1>2. Types'
  BY <1>1 DEF Types
<1>3. DbInv'
  BY <1>1 DEF DbInv, Asked, Locks, Holding, Unique, ByInvite, InviteOnce
<1>4. Waits' /\ Tokens'
  <2>1. \A q \in Person : cli'[q].req # None => q # p /\ cli'[q] = cli[q]
    BY <1>1
  <2>2. QED
    BY <1>1, <2>1 DEF OwnInv, Waits, Tokens
<1>5. /\ \A y \in Request : Carried(y)' \subseteq Carried(y)
      /\ \A q \in Person : Has(q)' \subseteq Has(q)
  BY <1>1 DEF Carried, Has
<1>6. Own'
  BY <1>1, <1>5, OwnShrinks DEF OwnInv
<1>7. QED
  BY <1>2, <1>3, <1>4, <1>6 DEF OwnInv

(* What a run is after it went on to `to'. *)
LEMMA RunGoes ==
  ASSUME Types, OwnInv, NEW p \in Person, NEW to \in RunPcs, cli[p].pc # "ask"
  PROVE  /\ [cli[p] EXCEPT !.pc = to] \in RunType
         /\ [cli[p] EXCEPT !.pc = to].pc = to
         /\ [cli[p] EXCEPT !.pc = to].req = None
<1>1. cli[p] \in RunType /\ cli[p].req = None
  BY DEF Types, OwnInv, Waits
<1>2. QED
  BY <1>1 DEF RunType

LEMMA RestingRun ==
  Resting \in RunType /\ Resting.pc = "idle" /\ Resting.req = None
BY DEF Resting, RunType, RunPcs

(* What does not concern the state the invariant is about. *)
LEMMA PairUntouched ==
  ASSUME Types, DbInv, OwnInv,
         UNCHANGED <<dbVars, req, cli, identity, mcp, runs, faults>>
  PROVE  Types' /\ DbInv' /\ OwnInv'
<1>1. /\ invites' = invites /\ peers' = peers /\ req' = req /\ cli' = cli
      /\ identity' = identity /\ mcp' = mcp /\ runs' = runs /\ faults' = faults
  BY DEF dbVars
<1>2. Types'
  BY <1>1 DEF Types
<1>3. DbInv'
  BY <1>1 DEF DbInv, Asked, Locks, Holding, Unique, ByInvite, InviteOnce
<1>4. Waits' /\ Tokens'
  BY <1>1 DEF OwnInv, Waits, Tokens
<1>5. Own'
  BY <1>1, OwnShrinks DEF OwnInv, Carried, Has
<1>6. QED
  BY <1>2, <1>3, <1>4, <1>5 DEF OwnInv

(* The steps on a machine. *)
LEMMA HomeStep ==
  ASSUME Types, DbInv, OwnInv, NEW p \in Person,
         RunStep(p) \/ StartRepair(p) \/ Kill(p) \/ Edit(p)
  PROVE  Types' /\ DbInv' /\ OwnInv'
<1>1. CASE WriteIdentity(p)
  <2> DEFINE r == [cli[p] EXCEPT !.pc = "settings"]
  <2>1. /\ cli[p].pc = "identity" /\ cli' = [cli EXCEPT ![p] = r]
        /\ identity' = [identity EXCEPT ![p] = cli[p].token]
        /\ UNCHANGED <<dbVars, req, mcp, runs, faults>>
    BY <1>1 DEF WriteIdentity, Goes
  <2>2. r \in RunType /\ r.pc = "settings" /\ r.req = None
    BY <2>1, RunGoes DEF RunPcs
  <2>3. cli[p].token \in Name
    BY <2>1 DEF OwnInv, Tokens
  <2>4. /\ identity' \in [Person -> Name \union {None, Broken}]
        /\ \A q \in Person \ {p} : identity'[q] = identity[q]
        /\ identity'[p] = cli[p].token
    BY <2>1, <2>3 DEF Types
  <2> HIDE DEF r
  <2>5. QED
    BY <2>1, <2>2, <2>4, RunOwn DEF Types
<1>2. ASSUME NEW to \in RunPcs \ {"identity", "ask"}, cli[p].pc # "ask",
             cli' = [cli EXCEPT ![p].pc = to] \/ cli' = [cli EXCEPT ![p] = Resting],
             UNCHANGED <<dbVars, req, identity>>, mcp' \subseteq Person,
             runs' \in 0..MaxRuns, faults' \in 0..MaxFaults
      PROVE  Types' /\ DbInv' /\ OwnInv'
  <2>1. PICK r \in RunType : /\ cli' = [cli EXCEPT ![p] = r]
                             /\ r.req = None /\ r.pc # "identity"
    <3>1. CASE cli' = [cli EXCEPT ![p].pc = to]
      <4> DEFINE r == [cli[p] EXCEPT !.pc = to]
      <4>1. r \in RunType /\ r.pc = to /\ r.req = None
        BY <1>2, RunGoes
      <4>2. cli' = [cli EXCEPT ![p] = r]
        BY <3>1
      <4> HIDE DEF r
      <4>3. QED
        BY <1>2, <4>1, <4>2
    <3>2. CASE cli' = [cli EXCEPT ![p] = Resting]
      BY <3>2, RestingRun
    <3>3. QED
      BY <1>2, <3>1, <3>2
  <2>2. identity' \in [Person -> Name \union {None, Broken}] /\ identity' = identity
    BY <1>2 DEF Types
  <2>3. QED
    BY <1>2, <2>1, <2>2, RunOwn
<1>3. CASE StartRepair(p)
  <2>1. /\ cli[p].pc = "idle" /\ cli' = [cli EXCEPT ![p].pc = "settings"]
        /\ UNCHANGED <<dbVars, req, homeVars, faults>> /\ runs' \in 0..MaxRuns
    BY <1>3 DEF StartRepair, Runs, Goes, Types
  <2>2. QED
    BY <1>2, <2>1 DEF RunPcs, Types, homeVars
<1>4. CASE MergeSettings(p)
  <2>1. /\ cli[p].pc = "settings"
        /\ cli' = [cli EXCEPT ![p].pc = "unregister"] \/ cli' = [cli EXCEPT ![p] = Resting]
        /\ UNCHANGED <<dbVars, req, identity, mcp, runs, faults>>
    BY <1>4 DEF MergeSettings, Goes
  <2>2. QED
    BY <1>2, <2>1 DEF RunPcs, Types
<1>5. CASE Unregister(p)
  <2>1. /\ cli[p].pc = "unregister" /\ cli' = [cli EXCEPT ![p].pc = "register"]
        /\ UNCHANGED <<dbVars, req, identity, runs, faults>> /\ mcp' \subseteq Person
    BY <1>5 DEF Unregister, Goes, Types
  <2>2. QED
    BY <1>2, <2>1 DEF RunPcs, Types
<1>6. CASE Register(p)
  <2>1. /\ cli[p].pc = "register" /\ cli' = [cli EXCEPT ![p] = Resting]
        /\ UNCHANGED <<dbVars, req, identity, runs>> /\ mcp' \subseteq Person
        /\ faults' \in 0..MaxFaults
    BY <1>6 DEF Register, Fault, Types
  <2>2. QED
    BY <1>2, <2>1 DEF RunPcs, Types
<1>7. CASE Kill(p)
  <2>1. /\ cli' = [cli EXCEPT ![p] = Resting]
        /\ UNCHANGED <<dbVars, req, mcp, runs>> /\ faults' \in 0..MaxFaults
        /\ identity' = identity \/ identity' = [identity EXCEPT ![p] = Broken]
    BY <1>7 DEF Kill, Fault, Types
  <2>2. /\ identity' \in [Person -> Name \union {None, Broken}]
        /\ \A q \in Person \ {p} : identity'[q] = identity[q]
        /\ identity'[p] \in {identity[p], Broken}
    BY <2>1 DEF Types
  <2>3. QED
    BY <2>1, <2>2, RestingRun, RunOwn DEF Types
<1>8. CASE Edit(p)
  <2>1. UNCHANGED <<dbVars, req, cli, identity, mcp, runs, faults>>
    BY <1>8 DEF Edit
  <2>2. QED
    BY <2>1, PairUntouched
<1>9. QED
  BY <1>1, <1>3, <1>4, <1>5, <1>6, <1>7, <1>8 DEF RunStep

(* The statements of a transaction. *)
LEMMA RequestMoves ==
  ASSUME Types, DbInv, OwnInv, NEW x \in Request,
         ReadInvite(x) \/ FindPeer(x) \/ CreatePeer(x) \/ Commit(x) \/ Abort(x)
  PROVE  Types' /\ DbInv' /\ OwnInv'
<1>1. ASSUME NEW to \in RequestPcs \ {"idle"}, Advances(x, to), req[x].pc \in Under, DbInv',
             UNCHANGED <<dbVars, cli, homeVars, runs>>, faults' \in 0..MaxFaults
      PROVE  Types' /\ DbInv' /\ OwnInv'
  <2>1. OwnInv'
    BY <1>1, AdvanceOwn DEF dbVars, homeVars
  <2>2. req' \in [Request -> RequestType]
    BY <1>1, AdvanceFacts
  <2>3. QED
    BY <1>1, <2>1, <2>2 DEF Types, dbVars, homeVars
<1>2. ASSUME NEW from \in Under, Refuses(x, from),
             UNCHANGED <<dbVars, cli, homeVars, runs>>, faults' \in 0..MaxFaults
      PROVE  Types' /\ DbInv' /\ OwnInv'
  <2>1. Advances(x, "answer") /\ req[x].pc \in Under
    BY <1>2 DEF Refuses, Moves, Advances
  <2>2. QED
    BY <1>1, <1>2, <2>1, RefuseDb DEF RequestPcs, dbVars
<1>3. faults \in 0..MaxFaults
  BY DEF Types
<1>4. CASE ReadInvite(x)
  <2>1. UNCHANGED <<dbVars, cli, homeVars, runs, faults>> /\ ~Locked(req[x].code)
    BY <1>4 DEF ReadInvite
  <2>2. \/ /\ Advances(x, "find") /\ req[x].pc = "read"
           /\ Usable(req[x].code, req[x].email)
        \/ Refuses(x, "read")
    BY <1>4 DEF ReadInvite, Moves, Advances
  <2>3. QED
    BY <1>1, <1>2, <1>3, <2>1, <2>2, ReadDb DEF RequestPcs, Under, dbVars
<1>5. CASE FindPeer(x)
  <2>1. UNCHANGED <<dbVars, cli, homeVars, runs, faults>>
    BY <1>5 DEF FindPeer
  <2>2. (Advances(x, "insert") /\ req[x].pc = "find") \/ Refuses(x, "find")
    BY <1>5 DEF FindPeer, Moves, Advances
  <2>3. QED
    BY <1>1, <1>2, <1>3, <2>1, <2>2, HoldDb DEF RequestPcs, Under, dbVars, Holding
<1>6. CASE CreatePeer(x)
  <2>1. /\ UNCHANGED <<dbVars, cli, homeVars, runs, faults>>
        /\ \A y \in Request \ {x} : req[y].pc = "commit" => ~Clash(req[y], req[x])
    BY <1>6 DEF CreatePeer
  <2>2. \/ /\ Advances(x, "commit") /\ req[x].pc = "insert"
           /\ \A p \in peers : ~Clash(p, req[x])
        \/ Refuses(x, "insert")
    BY <1>6 DEF CreatePeer, Moves, Advances
  <2>3. QED
    BY <1>1, <1>2, <1>3, <2>1, <2>2, HoldDb DEF RequestPcs, Under, dbVars, Holding
<1>7. CASE Abort(x)
  <2>1. UNCHANGED <<dbVars, cli, homeVars, runs>> /\ faults' \in 0..MaxFaults
    BY <1>7 DEF Abort, Fault, Types
  <2>2. \E from \in Under : Refuses(x, from)
    BY <1>7 DEF Abort, Under
  <2>3. QED
    BY <1>2, <2>1, <2>2
<1>8. CASE Commit(x)
  <2>1. /\ DbInv' /\ OwnInv'
        /\ invites' \in [DOMAIN invites -> InviteType]
        /\ peers' \subseteq [name : Name, email : Spelling, by : Code]
    BY <1>8, CommitDb, CommitOwn
  <2>2. UNCHANGED <<cli, homeVars, runs, faults>>
    BY <1>8 DEF Commit
  <2> DEFINE n == req[x].name
             new == [req[x] EXCEPT !.pc = "answer", !.result = n]
  <2>3. req' = [req EXCEPT ![x] = new] /\ n \in Name /\ req[x] \in RequestType
    BY <1>8 DEF Commit, Moves, DbInv, Asked, Under, Types
  <2>4. new \in RequestType
    BY <2>3 DEF RequestType, RequestPcs
  <2> HIDE DEF n, new
  <2>5. req' \in [Request -> RequestType] /\ DOMAIN invites' = DOMAIN invites
    BY <2>1, <2>3, <2>4 DEF Types
  <2>6. QED
    BY <2>1, <2>2, <2>5 DEF Types, homeVars
<1>9. QED
  BY <1>4, <1>5, <1>6, <1>7, <1>8

(* The invariant is kept by every step. *)
LEMMA StepPairInv == PairInv /\ [Next]_vars => PairInv'
<1> SUFFICES ASSUME PairInv, [Next]_vars PROVE PairInv'
  OBVIOUS
<1>0. Types /\ DbInv /\ OwnInv
  BY DEF PairInv
<1>1. ASSUME NEW c \in Code, Expire(c) \/ \E e \in Spelling : Invite(c, e) PROVE PairInv'
  <2>1. Types' /\ DbInv' /\ UNCHANGED <<peers, req, cli, identity>>
    BY <1>0, <1>1, InvitesDb
  <2>2. OwnInv'
    BY <1>0, <2>1 DEF OwnInv, Own, Waits, Tokens, Carried, Has, Names
  <2>3. QED
    BY <2>1, <2>2 DEF PairInv
<1>2. ASSUME NEW x \in Request, RequestStep(x) \/ Abort(x) \/ LoseAnswer(x) PROVE PairInv'
  BY <1>0, <1>2, RequestMoves, AnswerOwn DEF RequestStep, PairInv
<1>3. ASSUME NEW p \in Person, NEW x \in Request, NEW c \in Code, NEW n \in Name,
             NEW e \in Spelling, StartInit(p, x, c, n, e)
      PROVE  PairInv'
  BY <1>0, <1>3, StartInitOwn DEF PairInv
<1>4. ASSUME NEW p \in Person, RunStep(p) \/ StartRepair(p) \/ Kill(p) \/ Edit(p)
      PROVE  PairInv'
  BY <1>0, <1>4, HomeStep DEF PairInv
<1>5. CASE UNCHANGED vars
  BY <1>0, <1>5, PairUntouched DEF vars, homeVars, PairInv
<1>6. QED
  BY <1>1, <1>2, <1>3, <1>4, <1>5 DEF Next

LEMMA InitPairInv == Init => PairInv
<1> SUFFICES ASSUME Init PROVE PairInv
  OBVIOUS
<1>1. NoRequest \in RequestType /\ NoRequest.pc = "idle"
  BY DEF NoRequest, RequestType, RequestPcs
<1>2. Types
  BY <1>1, RestingRun DEF Init, Types
<1>3. \A x \in Request : req[x].pc = "idle"
  BY <1>1 DEF Init
<1>4. DbInv
  BY <1>3 DEF Init, DbInv, Asked, Under, Locks, Holding, Unique, ByInvite, InviteOnce
<1>5. /\ \A x \in Request : Carried(x) = {}
      /\ \A p \in Person : Has(p) = {} /\ cli[p] = Resting
  BY <1>3, RestingRun DEF Init, Carried, Has
<1>6. OwnInv
  BY <1>5, RestingRun DEF OwnInv, Own, Waits, Tokens
<1>7. QED
  BY <1>2, <1>4, <1>6 DEF PairInv

(* Requests, rows and tokens agree in every reachable state; the theorems  *)
(* below follow from it.                                                   *)
THEOREM PairingInvariant == Spec => []PairInv
BY InitPairInv, StepPairInv, PTL DEF Spec

(* Every variable has its type, and no two peers share a name or address,  *)
(* whatever requests overlap.                                              *)
THEOREM PairingTypeOK == Spec => []TypeOK
<1>1. PairInv /\ SettingsTyped => TypeOK
  <2> SUFFICES ASSUME PairInv, SettingsTyped PROVE TypeOK
    OBVIOUS
  <2>1. Types /\ \A p, q \in peers : Clash(p, q) => p = q
    BY DEF PairInv, DbInv, Unique
  <2>2. \A c \in DOMAIN invites : invites[c] \in InviteType
    BY <2>1 DEF Types
  <2>3. \A x \in Request : req[x].pc \in RequestPcs
    BY <2>1 DEF Types, RequestType
  <2>4. \A p \in Person : cli[p].pc \in RunPcs /\ identity[p] \in Name \union {None, Broken}
    BY <2>1 DEF Types, RunType
  <2>5. QED
    BY <2>1, <2>2, <2>3, <2>4 DEF TypeOK, Types, InviteType, RequestPcs, RunPcs,
                                  SettingsTyped, SettingsType
<1>2. QED
  BY <1>1, PairingInvariant, PairingSettings, PTL

(* An invite makes one peer at most, and is consumed exactly if it did. *)
THEOREM PairingInviteOnce == Spec => []InviteOnce
<1>1. PairInv => InviteOnce
  BY DEF PairInv, DbInv
<1>2. QED
  BY <1>1, PairingInvariant, PTL

(* An identity file names a peer of the relay, and no other machine has    *)
(* the same.                                                               *)
THEOREM PairingIdentityIsOwn == Spec => []IdentityIsOwn
<1>1. PairInv => IdentityIsOwn
  <2> SUFFICES ASSUME PairInv, NEW p \in Person, identity[p] \notin {None, Broken}
               PROVE  /\ \E row \in peers : row.name = identity[p]
                      /\ \A q \in Person : identity[q] = identity[p] => q = p
    BY DEF IdentityIsOwn
  <2>1. identity[p] \in Has(p)
    BY DEF Has
  <2>2. \A q \in Person : identity[q] = identity[p] => identity[p] \in Has(q)
    BY DEF Has
  <2>3. Own
    BY DEF PairInv, OwnInv
  <2>4. identity[p] \in Names
    BY <2>1, <2>3 DEF Own
  <2>5. \A q \in Person : identity[q] = identity[p] => q = p
    BY <2>1, <2>2, <2>3 DEF Own
  <2>6. QED
    BY <2>4, <2>5 DEF Names
<1>2. QED
  BY <1>1, PairingInvariant, PTL

=============================================================================
