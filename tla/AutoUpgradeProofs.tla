------------------------- MODULE AutoUpgradeProofs -------------------------
(***************************************************************************)
(* Proofs about AutoUpgrade, for any launches, packages, releases and      *)
(* faults.  When launches come one after the other the runtime stays whole *)
(* and recoverable, and a launch without a fault leaves it up to date.     *)
(***************************************************************************)
EXTENDS AutoUpgrade, TLAPS

USE UpgradeAssumption

All == Pkg \union {"VERSION"}
TreeType == {Missing} \union [tag : Release, has : SUBSET All]
RmType == [path : Dir \union {"none"}, left : SUBSET All]
RunType ==
  [pc : Pcs, version : Release \union {None}, prev : Release \union {None},
   tag : Release \union {None}, rm : RmType, orphans : SUBSET Launch, hurt : BOOLEAN,
   stranded : BOOLEAN]

Types ==
  /\ scenario \in Scenarios
  /\ dir \in [Dir -> TreeType]
  /\ etag \in Release \union {None} /\ released \in Release
  /\ run \in [Launch -> RunType]
  /\ fetching \in [Launch -> SUBSET Pkg]
  /\ faults \in 0..MaxFaults

(* A launch installs a later release than its own, and downloads one. *)
Newer(x) ==
  /\ run[x].pc \notin {"idle", "clean", "ask", "done", "dead"} => run[x].tag > run[x].version
  /\ fetching[x] # {} => run[x].tag \in Release

-----------------------------------------------------------------------------
(* What holds when launches come one after the other. *)

(* The release that would run, or that a manual recovery would bring back. *)
Live == IF Exists("runtime") THEN dir["runtime"].tag ELSE dir["old"].tag

(* Why runtime/ may be missing. *)
Away(x) == run[x].pc \in {"promote", "restore"} \/ run[x].stranded

GoodStore ==
  /\ Exists("runtime") => Complete(dir["runtime"])
  /\ Exists("runtime") \/ Complete(dir["old"])
  /\ ~Exists("runtime") => \E x \in Launch : Away(x)
  /\ etag <= Live

BeforeSwap ==
  {"clean", "ask", "manifest", "download", "stamp", "clear", "away", "promote"}

(* What launch x removes, and that nobody adds to the backup meanwhile. *)
Removal(x) ==
  LET r == run[x] IN
  \/ r.rm = NotRemoving
  \/ r.pc = "clean" /\ r.rm.path \in r.orphans
  \/ r.pc \in {"clear", "drop"} /\ r.rm.path = "old" /\ dir["old"].has \subseteq r.rm.left
  \/ r.pc = "discard" /\ r.rm.path = x

(* How far launch x is, and what the directories hold by then. *)
Good(x) ==
  LET r == run[x] IN
  /\ ~Upgrading(x) => r.rm = NotRemoving
  /\ Removal(x)
  /\ r.stranded => r.pc \in {"discard", "done", "dead"}
  /\ Upgrading(x) /\ r.pc \notin {"promote", "restore", "discard"} => Exists("runtime")
  /\ r.pc = "promote" => ~Exists("runtime")
  /\ r.pc = "away" => dir["old"] = Missing
  /\ r.pc \in BeforeSwap => r.version = Live
  /\ r.pc = "ask" => r.prev <= Live
  /\ r.pc = "download" /\ ~r.hurt => Pkg \subseteq dir[x].has \union fetching[x]
  /\ r.pc = "stamp" => Pkg \subseteq dir[x].has
  /\ r.pc \in {"clear", "away", "promote"} => Complete(dir[x]) /\ dir[x].tag = r.tag
  /\ r.pc \in {"drop", "store"} => dir["runtime"].tag = r.tag
  /\ r.pc \in {"restore", "discard"} => r.hurt

Solo ==
  scenario.solo =>
    /\ \A x, y \in Launch : Upgrading(x) /\ Upgrading(y) => x = y
    /\ \A x \in Launch : Good(x)
    /\ GoodStore

UpInv == Types /\ (\A x \in Launch : Newer(x)) /\ Solo

-----------------------------------------------------------------------------
(* Trees. *)
LEMMA TreeFacts ==
  ASSUME NEW t \in TreeType
  PROVE  /\ t.has \subseteq All /\ t.tag \in Release \union {None}
         /\ t = Missing <=> t.tag = None
         /\ t.has # {} => t.tag \in Release /\ t # Missing
         /\ \A e : [t EXCEPT !.has = @ \ {e}] \in TreeType
                   /\ [t EXCEPT !.has = @ \ {e}].has = t.has \ {e}
<1>1. CASE t = Missing
  <2>1. t.has = {} /\ t.tag = None /\ None \notin Release
    BY <1>1 DEF Missing, Release, None
  <2>2. \A e : [t EXCEPT !.has = @ \ {e}] = Missing
    BY <1>1 DEF Missing
  <2>3. QED
    BY <1>1, <2>1, <2>2 DEF TreeType
<1>2. CASE t \in [tag : Release, has : SUBSET All]
  <2>1. None \notin Release /\ Missing.tag = None
    BY DEF Missing, Release, None
  <2>2. QED
    BY <1>2, <2>1 DEF TreeType
<1>3. QED
  BY <1>1, <1>2 DEF TreeType

LEMMA TreesMade ==
  /\ Missing \in TreeType /\ Missing.has = {} /\ Missing.tag = None
  /\ \A tag \in Release, has \in SUBSET All :
       /\ Tree(tag, has) \in TreeType /\ Tree(tag, has) # Missing
       /\ Tree(tag, has).has = has /\ Tree(tag, has).tag = tag
<1>1. None \notin Release
  BY DEF Release, None
<1>2. QED
  BY <1>1 DEF Missing, Tree, TreeType

(* A complete tree is there, and has every package. *)
LEMMA CompleteFacts ==
  ASSUME NEW t \in TreeType, Complete(t)
  PROVE  t # Missing /\ Pkg \subseteq t.has /\ t.tag \in Release /\ t.has # {}
<1>1. t.has # {} /\ Pkg \subseteq t.has
  BY DEF Complete
<1>2. QED
  BY <1>1, TreeFacts

LEMMA DirFacts ==
  /\ "runtime" \in Dir /\ "old" \in Dir /\ Launch \subseteq Dir
  /\ "runtime" # "old"
  /\ \A x \in Launch : x \notin {"runtime", "old", "none"}
BY DEF Dir

(* The store and the other launches after a step of launch x. *)
LEMMA LiveNat ==
  ASSUME Types
  PROVE  Live \in Nat
<1>1. dir["runtime"] \in TreeType /\ dir["old"] \in TreeType
  BY DirFacts DEF Types
<1>2. dir["runtime"].tag \in Nat /\ dir["old"].tag \in Nat
  BY <1>1, TreeFacts DEF Release, None
<1>3. QED
  BY <1>2 DEF Live

LEMMA SoloStep ==
  ASSUME UpInv, NEW x \in Launch, scenario' = scenario,
         \A y \in Launch \ {x} : run'[y] = run[y] /\ fetching'[y] = fetching[y],
         scenario.solo =>
           /\ Upgrading(x) \/ (etag' = etag /\ \A d \in Dir \ {x} : dir'[d] = dir[d])
           /\ Upgrading(x)' => Upgrading(x) \/ \A y \in Launch : ~Upgrading(y)
           /\ Good(x)'
           /\ GoodStore'
  PROVE  Solo'
<1>1. SUFFICES ASSUME scenario.solo PROVE Solo'
  BY DEF Solo
<1>2. /\ \A y, z \in Launch : Upgrading(y) /\ Upgrading(z) => y = z
      /\ \A y \in Launch : Good(y)
  BY <1>1 DEF UpInv, Solo
<1>3. \A y \in Launch \ {x} : Upgrading(y)' <=> Upgrading(y)
  BY DEF Upgrading
<1>4. \A y, z \in Launch : Upgrading(y)' /\ Upgrading(z)' => y = z
  BY <1>1, <1>2, <1>3
<1>5. ASSUME NEW y \in Launch \ {x} PROVE Good(y)'
  <2>1. Good(y) /\ run'[y] = run[y] /\ fetching'[y] = fetching[y]
    BY <1>2
  <2>2. CASE ~Upgrading(y)
    <3>1. run[y].pc \in {"idle", "done", "reexec", "dead"} /\ run[y].rm = NotRemoving
      BY <2>1, <2>2 DEF Upgrading, Good
    <3>2. QED
      BY <2>1, <3>1 DEF Good, Removal, Upgrading, Away, BeforeSwap
  <2>3. CASE Upgrading(y)
    <3>1. ~Upgrading(x)
      BY <1>2, <2>3
    <3>2. dir'["runtime"] = dir["runtime"] /\ dir'["old"] = dir["old"] /\ dir'[y] = dir[y]
      BY <1>1, <3>1, DirFacts
    <3>3. Live' = Live /\ (Exists("runtime")' <=> Exists("runtime"))
      BY <3>2 DEF Live, Exists
    <3>4. QED
      BY <2>1, <3>2, <3>3 DEF Good, Removal, Upgrading, Away
  <2>4. QED
    BY <2>2, <2>3
<1>6. QED
  BY <1>1, <1>4, <1>5 DEF Solo

(* A step that touches neither the runtime, nor the backup, nor the etag. *)
LEMMA StoreKept ==
  ASSUME UpInv, scenario.solo, NEW x \in Launch, etag' = etag,
         dir'["runtime"] = dir["runtime"], dir'["old"] = dir["old"],
         \A y \in Launch \ {x} : run'[y] = run[y],
         Away(x) => Exists("runtime") \/ Away(x)'
  PROVE  GoodStore' /\ Live' = Live /\ (Exists("runtime")' <=> Exists("runtime"))
<1>1. Live' = Live /\ (Exists("runtime")' <=> Exists("runtime"))
  BY DEF Live, Exists
<1>2. GoodStore
  BY DEF UpInv, Solo
<1>3. ~Exists("runtime") => \E y \in Launch : Away(y)'
  BY <1>2 DEF GoodStore, Away
<1>4. QED
  BY <1>1, <1>2, <1>3 DEF GoodStore

-----------------------------------------------------------------------------
(* The record of a launch after each kind of step. *)
LEMMA RmTypes ==
  /\ NotRemoving \in RmType /\ NotRemoving.path = "none" /\ NotRemoving.left = {}
  /\ \A d \in Dir, left \in SUBSET All :
       LET m == [path |-> d, left |-> left] IN
       m \in RmType /\ m.path = d /\ m.left = left /\ m # NotRemoving
<1>1. "none" \notin Dir
  BY DEF Dir
<1>2. QED
  BY <1>1 DEF NotRemoving, RmType

Others(x) == \A y \in Launch \ {x} : run'[y] = run[y]

LEMMA GoesFields ==
  ASSUME Types, NEW x \in Launch, NEW from \in Pcs, NEW to \in Pcs, Goes(x, from, to)
  PROVE  /\ run[x].pc = from /\ run' \in [Launch -> RunType] /\ Others(x)
         /\ run'[x].pc = to /\ run'[x].rm = run[x].rm /\ run'[x].hurt = run[x].hurt
         /\ run'[x].stranded = run[x].stranded
         /\ run'[x].version = run[x].version /\ run'[x].tag = run[x].tag
         /\ run'[x].prev = run[x].prev
<1>1. run[x] \in RunType /\ run' = [run EXCEPT ![x] = [run[x] EXCEPT !.pc = to]]
  BY DEF Types, Goes
<1>2. \A r \in RunType : LET n == [r EXCEPT !.pc = to] IN
        /\ n \in RunType /\ n.pc = to /\ n.rm = r.rm /\ n.hurt = r.hurt
        /\ n.stranded = r.stranded
        /\ n.version = r.version /\ n.tag = r.tag /\ n.prev = r.prev
  BY DEF RunType
<1>3. QED
  BY <1>1, <1>2 DEF Types, Goes, Others

(* rmSync ends, and the launch goes on. *)
Ends(x, to) == run' = [run EXCEPT ![x].pc = to, ![x].rm = NotRemoving]

LEMMA EndsFields ==
  ASSUME Types, NEW x \in Launch, NEW to \in Pcs, Ends(x, to)
  PROVE  /\ run' \in [Launch -> RunType] /\ Others(x)
         /\ run'[x].pc = to /\ run'[x].rm = NotRemoving /\ run'[x].hurt = run[x].hurt
         /\ run'[x].stranded = run[x].stranded
         /\ run'[x].version = run[x].version /\ run'[x].tag = run[x].tag
<1>1. /\ run[x] \in RunType
      /\ run' = [run EXCEPT ![x] = [run[x] EXCEPT !.pc = to, !.rm = NotRemoving]]
  BY DEF Types, Ends
<1>2. \A r \in RunType : LET n == [r EXCEPT !.pc = to, !.rm = NotRemoving] IN
        /\ n \in RunType /\ n.pc = to /\ n.rm = NotRemoving /\ n.hurt = r.hurt
        /\ n.stranded = r.stranded
        /\ n.version = r.version /\ n.tag = r.tag
  BY RmTypes DEF RunType
<1>3. PICK n : n = [run[x] EXCEPT !.pc = to, !.rm = NotRemoving]
  OBVIOUS
<1>4. run'[x] = n /\ Others(x) /\ run' \in [Launch -> RunType]
  BY <1>1, <1>2, <1>3 DEF Types, Others
<1>5. QED
  BY <1>1, <1>2, <1>3, <1>4

LEMMA ThrowsFields ==
  ASSUME Types, NEW x \in Launch, Throws(x)
  PROVE  /\ run' \in [Launch -> RunType] /\ Others(x)
         /\ run'[x].pc = "restore" /\ run'[x].rm = NotRemoving /\ run'[x].hurt = run[x].hurt
         /\ run'[x].stranded = run[x].stranded
         /\ run'[x].version = run[x].version /\ run'[x].tag = run[x].tag
BY EndsFields DEF Throws, Ends, Pcs

LEMMA FaultType ==
  ASSUME Types, Fault
  PROVE  faults' \in 0..MaxFaults
BY DEF Types, Fault

LEMMA BreaksFields ==
  ASSUME Types, NEW x \in Launch, Breaks(x)
  PROVE  /\ run' \in [Launch -> RunType] /\ Others(x) /\ faults' \in 0..MaxFaults
         /\ run'[x].pc = "restore" /\ run'[x].rm = NotRemoving /\ run'[x].hurt
         /\ run'[x].stranded = run[x].stranded
         /\ run'[x].version = run[x].version /\ run'[x].tag = run[x].tag
<1>1. /\ run[x] \in RunType
      /\ run' = [run EXCEPT ![x] =
                   [run[x] EXCEPT !.pc = "restore", !.rm = NotRemoving, !.hurt = TRUE]]
  BY DEF Types, Breaks
<1>2. \A r \in RunType :
        LET n == [r EXCEPT !.pc = "restore", !.rm = NotRemoving, !.hurt = TRUE] IN
        /\ n \in RunType /\ n.pc = "restore" /\ n.rm = NotRemoving /\ n.hurt
        /\ n.stranded = r.stranded
        /\ n.version = r.version /\ n.tag = r.tag
  BY RmTypes DEF RunType, Pcs
<1>3. PICK n : n = [run[x] EXCEPT !.pc = "restore", !.rm = NotRemoving, !.hurt = TRUE]
  OBVIOUS
<1>4. run'[x] = n /\ Others(x) /\ run' \in [Launch -> RunType]
  BY <1>1, <1>2, <1>3 DEF Types, Others
<1>5. faults' \in 0..MaxFaults
  BY FaultType DEF Breaks
<1>6. QED
  BY <1>1, <1>2, <1>3, <1>4, <1>5

(* What rmSync lists and removes. *)
LEMMA RmListFields ==
  ASSUME Types, NEW x \in Launch, NEW d \in Dir, RmList(x, d)
  PROVE  /\ run' \in [Launch -> RunType] /\ Others(x)
         /\ run'[x].pc = run[x].pc /\ run'[x].hurt = run[x].hurt
         /\ run'[x].stranded = run[x].stranded
         /\ run'[x].rm.path = d /\ run'[x].rm.left = dir[d].has
         /\ run'[x].version = run[x].version /\ run'[x].tag = run[x].tag
         /\ run'[x].prev = run[x].prev /\ run'[x].orphans = run[x].orphans
         /\ run[x].rm = NotRemoving
         /\ UNCHANGED <<scenario, dir, etag, released, fetching, faults>>
<1> DEFINE m == [path |-> d, left |-> dir[d].has]
<1>1. /\ run[x] \in RunType
      /\ run' = [run EXCEPT ![x] = [run[x] EXCEPT !.rm = m]]
      /\ run[x].rm = NotRemoving
      /\ UNCHANGED <<scenario, dir, etag, released, fetching, faults>>
  BY DEF Types, RmList
<1>2. m \in RmType /\ m.path = d /\ m.left = dir[d].has
  BY RmTypes, TreeFacts DEF Types
<1> HIDE DEF m
<1>3. \A r \in RunType : LET n == [r EXCEPT !.rm = m] IN
        /\ n \in RunType /\ n.pc = r.pc /\ n.rm = m /\ n.hurt = r.hurt
        /\ n.stranded = r.stranded
        /\ n.version = r.version /\ n.tag = r.tag /\ n.prev = r.prev /\ n.orphans = r.orphans
  BY <1>2 DEF RunType
<1>4. QED
  BY <1>1, <1>2, <1>3 DEF Types, Others

LEMMA RmEntryFields ==
  ASSUME Types, NEW x \in Launch, RmEntry(x)
  PROVE  \E d \in Dir, e \in All :
           /\ run[x].rm.path = d /\ run[x].rm # NotRemoving
           /\ run' \in [Launch -> RunType] /\ Others(x)
           /\ run'[x].pc = run[x].pc /\ run'[x].hurt = run[x].hurt
           /\ run'[x].stranded = run[x].stranded
           /\ run'[x].rm.path = d /\ run'[x].rm.left = run[x].rm.left \ {e}
           /\ run'[x].version = run[x].version /\ run'[x].tag = run[x].tag
           /\ run'[x].prev = run[x].prev /\ run'[x].orphans = run[x].orphans
           /\ dir' \in [Dir -> TreeType] /\ dir'[d].has = dir[d].has \ {e}
           /\ \A c \in Dir \ {d} : dir'[c] = dir[c]
           /\ UNCHANGED <<scenario, etag, released, fetching, faults>>
<1>1. PICK d \in Dir, e \in run[x].rm.left :
        /\ run[x].rm.path = d
        /\ dir' = [dir EXCEPT ![d].has = @ \ {e}]
        /\ run' = [run EXCEPT ![x].rm.left = @ \ {e}]
        /\ UNCHANGED <<scenario, etag, released, fetching, faults>>
  BY DEF RmEntry, Removes
<1>2. run[x] \in RunType /\ run[x].rm \in RmType /\ dir[d] \in TreeType
  BY DEF Types, RunType
<1>3. e \in All /\ run[x].rm # NotRemoving
  BY <1>1, <1>2, RmTypes DEF RmType
<1>4. \A m \in RmType : LET k == [m EXCEPT !.left = @ \ {e}] IN
        k \in RmType /\ k.path = m.path /\ k.left = m.left \ {e}
  BY DEF RmType
<1>5. \A r \in RunType, k \in RmType : LET n == [r EXCEPT !.rm = k] IN
        /\ n \in RunType /\ n.pc = r.pc /\ n.rm = k /\ n.hurt = r.hurt
        /\ n.stranded = r.stranded
        /\ n.version = r.version /\ n.tag = r.tag /\ n.prev = r.prev /\ n.orphans = r.orphans
  BY DEF RunType
<1>6. run' = [run EXCEPT ![x] = [run[x] EXCEPT !.rm = [run[x].rm EXCEPT !.left = @ \ {e}]]]
  BY <1>1, <1>2 DEF Types
<1>7. PICK k : k = [run[x].rm EXCEPT !.left = @ \ {e}]
  OBVIOUS
<1>8. k \in RmType /\ k.path = d /\ k.left = run[x].rm.left \ {e}
  BY <1>1, <1>2, <1>4, <1>7
<1>9. PICK n : n = [run[x] EXCEPT !.rm = k]
  OBVIOUS
<1>10. /\ n \in RunType /\ n.pc = run[x].pc /\ n.rm = k /\ n.hurt = run[x].hurt
       /\ n.stranded = run[x].stranded
       /\ n.version = run[x].version /\ n.tag = run[x].tag /\ n.prev = run[x].prev
       /\ n.orphans = run[x].orphans
  BY <1>2, <1>5, <1>8, <1>9
<1>11. run' = [run EXCEPT ![x] = n]
  BY <1>6, <1>7, <1>9
<1>12. run' \in [Launch -> RunType] /\ run'[x] = n /\ Others(x)
  BY <1>10, <1>11 DEF Types, Others
<1>13. PICK t : t = [dir[d] EXCEPT !.has = @ \ {e}]
  OBVIOUS
<1>14. t \in TreeType /\ t.has = dir[d].has \ {e}
  BY <1>2, <1>13, TreeFacts
<1>15. dir' = [dir EXCEPT ![d] = t]
  BY <1>1, <1>2, <1>13 DEF Types
<1>16. dir' \in [Dir -> TreeType] /\ dir'[d] = t /\ \A c \in Dir \ {d} : dir'[c] = dir[c]
  BY <1>14, <1>15 DEF Types
<1>17. QED
  BY <1>1, <1>3, <1>8, <1>10, <1>12, <1>14, <1>16

-----------------------------------------------------------------------------
(* Steps that leave the runtime and the backup alone. *)
LEMMA QuietStep ==
  ASSUME UpInv, NEW x \in Launch, UNCHANGED <<scenario, etag>>, Types', Others(x),
         \A y \in Launch \ {x} : fetching'[y] = fetching[y],
         Newer(x)',
         scenario.solo =>
           /\ dir'["runtime"] = dir["runtime"] /\ dir'["old"] = dir["old"]
           /\ Upgrading(x) \/ \A d \in Dir \ {x} : dir'[d] = dir[d]
           /\ Upgrading(x)' => Upgrading(x) \/ \A y \in Launch : ~Upgrading(y)
           /\ run[x].stranded => run'[x].stranded
           /\ run[x].pc \in {"promote", "restore"} =>
                Exists("runtime") \/ run'[x].pc \in {"promote", "restore"} \/ run'[x].stranded
           /\ Good(x)'
  PROVE  UpInv'
<1>1. \A y \in Launch : Newer(y)'
  BY DEF UpInv, Newer, Others
<1>2. Solo'
  <2>1. scenario.solo => GoodStore'
    BY StoreKept DEF Others, Away
  <2>2. QED
    BY <2>1, SoloStep DEF Others
<1>3. QED
  BY <1>1, <1>2 DEF UpInv

(* What is known of a launch in a solo scenario. *)
LEMMA SoloFacts ==
  ASSUME UpInv, NEW x \in Launch
  PROVE  /\ Types /\ Newer(x) /\ run[x] \in RunType /\ dir[x] \in TreeType
         /\ dir["runtime"] \in TreeType /\ dir["old"] \in TreeType
         /\ scenario.solo => Good(x) /\ GoodStore
BY DirFacts DEF UpInv, Types, Solo

(* A launch throws: its catch will put the backup back if it has to. *)
LEMMA ThrowStep ==
  ASSUME UpInv, NEW x \in Launch,
         run[x].pc \notin {"idle", "clean", "ask", "discard", "done", "dead"}, Upgrading(x),
         run' \in [Launch -> RunType], Others(x),
         run'[x].pc = "restore", run'[x].rm = NotRemoving,
         run'[x].version = run[x].version, run'[x].tag = run[x].tag,
         scenario.solo => run'[x].hurt,
         run'[x].stranded = run[x].stranded,
         UNCHANGED <<scenario, dir, etag, released>>,
         fetching' \in [Launch -> SUBSET Pkg], fetching'[x] \subseteq fetching[x],
         \A y \in Launch \ {x} : fetching'[y] = fetching[y],
         faults' \in 0..MaxFaults
  PROVE  UpInv'
<1>1. Types'
  BY DEF UpInv, Types
<1>2. Newer(x)'
  BY SoloFacts DEF Newer
<1>3. scenario.solo => Good(x)'
  <2>1. scenario.solo => ~run[x].stranded
    BY SoloFacts DEF Good
  <2>2. QED
    BY <2>1 DEF Good, Removal, Upgrading, BeforeSwap
<1>4. QED
  BY <1>1, <1>2, <1>3, QuietStep

(* A step of an upgrading launch that changes the runtime or the backup. *)
LEMMA SwapStep ==
  ASSUME UpInv, NEW x \in Launch, scenario' = scenario, Types', Others(x),
         \A y \in Launch \ {x} : fetching'[y] = fetching[y],
         Newer(x)',
         scenario.solo => Upgrading(x) /\ Good(x)' /\ GoodStore'
  PROVE  UpInv'
<1>1. \A y \in Launch : Newer(y)'
  BY DEF UpInv, Newer, Others
<1>2. Solo'
  BY SoloStep DEF Others
<1>3. QED
  BY <1>1, <1>2 DEF UpInv

LEMMA PublishStep ==
  ASSUME UpInv, Publish
  PROVE  UpInv'
<1>1. /\ released' = released + 1 /\ released < MaxReleases
      /\ UNCHANGED <<scenario, dir, etag, run, fetching, faults>>
  BY DEF Publish
<1>2. released' \in Release
  BY <1>1 DEF UpInv, Types, Release
<1>3. Types' /\ \A x \in Launch : Newer(x)'
  BY <1>1, <1>2 DEF UpInv, Types, Newer
<1>4. Solo'
  BY <1>1 DEF UpInv, Solo, Good, Removal, GoodStore, Upgrading, Live, Exists, Away
<1>5. QED
  BY <1>3, <1>4 DEF UpInv

(* A launch starts from a runtime that is there, and so whole. *)
LEMMA StartStep ==
  ASSUME UpInv, NEW x \in Launch, Start(x)
  PROVE  UpInv'
<1> DEFINE os == {y \in Launch : Exists(y)}
           n == [run[x] EXCEPT !.pc = "clean", !.version = dir["runtime"].tag, !.orphans = os]
<1>1. /\ run[x].pc = "idle" /\ "cli" \in dir["runtime"].has /\ run' = [run EXCEPT ![x] = n]
      /\ scenario.solo => \A y \in Launch : ~Upgrading(y)
      /\ UNCHANGED <<scenario, dir, etag, released, fetching, faults>>
  BY DEF Start, UpInv, Types
<1>2. /\ Types /\ Newer(x) /\ run[x] \in RunType /\ dir["runtime"] \in TreeType
      /\ scenario.solo => Good(x) /\ GoodStore
  BY SoloFacts
<1>3. dir["runtime"] # Missing /\ dir["runtime"].tag \in Release
  BY <1>1, <1>2, TreeFacts
<1>4. /\ n \in RunType /\ n.pc = "clean" /\ n.version = dir["runtime"].tag /\ n.rm = run[x].rm
      /\ n.tag = run[x].tag /\ n.stranded = run[x].stranded
  BY <1>2, <1>3 DEF RunType, Pcs
<1> HIDE DEF n
<1>5. run' \in [Launch -> RunType] /\ run'[x] = n /\ Others(x)
  BY <1>1, <1>2, <1>4 DEF Types, Others
<1>6. Types' /\ Newer(x)'
  BY <1>1, <1>2, <1>4, <1>5 DEF Types, Newer
<1>7. scenario.solo => Good(x)'
  <2>1. SUFFICES ASSUME scenario.solo PROVE Good(x)'
    OBVIOUS
  <2>2. n.rm = NotRemoving /\ ~n.stranded
    BY <1>1, <1>2, <1>4, <2>1 DEF Good, Upgrading
  <2>3. Exists("runtime")' /\ Live' = dir["runtime"].tag
    BY <1>1, <1>3 DEF Exists, Live
  <2>4. QED
    BY <1>4, <1>5, <2>2, <2>3 DEF Good, Removal, Upgrading, BeforeSwap
<1>8. QED
  BY <1>1, <1>4, <1>5, <1>6, <1>7, QuietStep DEF Upgrading

(* A launch that is cleaning lists, removes, or is done with it. *)
LEMMA CleanStep ==
  ASSUME UpInv, NEW x \in Launch, Clean(x)
  PROVE  UpInv'
<1>1. PICK y \in run[x].orphans :
       \/ RmList(x, y)
       \/ /\ RmEnds(x, y)
          /\ dir' = [dir EXCEPT ![y] = Missing]
          /\ run' = [run EXCEPT ![x].rm = NotRemoving, ![x].orphans = @ \ {y}]
          /\ UNCHANGED <<scenario, etag, released, fetching, faults>>
       \/ /\ RmFails(x, y)
          /\ run' = [run EXCEPT ![x].rm = NotRemoving, ![x].orphans = {}]
          /\ UNCHANGED <<scenario, dir, etag, released, fetching, faults>>
  BY DEF Clean
<1>2. /\ Types /\ Newer(x) /\ run[x] \in RunType
      /\ scenario.solo => Good(x) /\ GoodStore
  BY SoloFacts
<1>3. y \in Launch /\ y \in Dir /\ y \notin {"runtime", "old"} /\ run[x].pc = "clean"
  BY <1>2, DirFacts DEF Clean, RunType
<1>4. CASE RmList(x, y)
  <2>1. /\ run' \in [Launch -> RunType] /\ Others(x)
        /\ run'[x].stranded = run[x].stranded
        /\ run'[x].pc = "clean" /\ run'[x].rm.path = y /\ run'[x].orphans = run[x].orphans
        /\ run'[x].version = run[x].version /\ run'[x].tag = run[x].tag
        /\ UNCHANGED <<scenario, dir, etag, released, fetching, faults>>
    BY <1>2, <1>3, <1>4, RmListFields
  <2>2. Types' /\ Newer(x)'
    BY <1>2, <2>1 DEF Types, Newer
  <2>3. scenario.solo => Good(x)'
    BY <1>2, <1>3, <2>1 DEF Good, Removal, Upgrading, Away, BeforeSwap, Live, Exists
  <2>4. QED
    BY <1>3, <2>1, <2>2, <2>3, QuietStep DEF Upgrading
<1>5. ASSUME NEW os \in SUBSET Launch,
             run' = [run EXCEPT ![x].rm = NotRemoving, ![x].orphans = os],
             dir' \in [Dir -> TreeType], \A d \in Dir \ {y} : dir'[d] = dir[d],
             UNCHANGED <<scenario, etag, released, fetching, faults>>
      PROVE  UpInv'
  <2>1. \A r \in RunType : LET n == [r EXCEPT !.rm = NotRemoving, !.orphans = os] IN
          /\ n \in RunType /\ n.pc = r.pc /\ n.rm = NotRemoving /\ n.hurt = r.hurt
          /\ n.stranded = r.stranded
          /\ n.version = r.version /\ n.tag = r.tag
    BY RmTypes DEF RunType
  <2>2. PICK n : n = [run[x] EXCEPT !.rm = NotRemoving, !.orphans = os]
    OBVIOUS
  <2>3. /\ n \in RunType /\ n.pc = "clean" /\ n.rm = NotRemoving
        /\ n.version = run[x].version /\ n.tag = run[x].tag /\ n.stranded = run[x].stranded
    BY <1>2, <1>3, <2>1, <2>2
  <2>4. run' = [run EXCEPT ![x] = n]
    BY <1>2, <1>5, <2>2 DEF Types
  <2>5. run' \in [Launch -> RunType] /\ run'[x] = n /\ Others(x)
    BY <1>2, <2>3, <2>4 DEF Types, Others
  <2>6. Types' /\ Newer(x)'
    BY <1>2, <1>3, <1>5, <2>3, <2>5 DEF Types, Newer
  <2>7. dir'["runtime"] = dir["runtime"] /\ dir'["old"] = dir["old"]
    BY <1>3, <1>5, DirFacts
  <2>8. scenario.solo => Good(x)'
    BY <1>2, <1>3, <1>5, <2>3, <2>5, <2>7 DEF Good, Removal, Upgrading, Away, BeforeSwap, Live, Exists
  <2>9. QED
    BY <1>3, <1>5, <2>3, <2>5, <2>6, <2>7, <2>8, QuietStep DEF Upgrading
<1>6. CASE /\ dir' = [dir EXCEPT ![y] = Missing]
           /\ run' = [run EXCEPT ![x].rm = NotRemoving, ![x].orphans = @ \ {y}]
           /\ UNCHANGED <<scenario, etag, released, fetching, faults>>
  <2>1. run[x].orphans \ {y} \in SUBSET Launch
    BY <1>2 DEF RunType
  <2>2. dir' \in [Dir -> TreeType] /\ \A d \in Dir \ {y} : dir'[d] = dir[d]
    BY <1>2, <1>6, TreesMade DEF Types
  <2>3. run' = [run EXCEPT ![x].rm = NotRemoving, ![x].orphans = run[x].orphans \ {y}]
    BY <1>2, <1>6 DEF Types
  <2>4. QED
    BY <1>5, <1>6, <2>1, <2>2, <2>3
<1>7. CASE /\ run' = [run EXCEPT ![x].rm = NotRemoving, ![x].orphans = {}]
           /\ UNCHANGED <<scenario, dir, etag, released, fetching, faults>>
  <2>1. dir' \in [Dir -> TreeType] /\ \A d \in Dir \ {y} : dir'[d] = dir[d]
    BY <1>2, <1>7 DEF Types
  <2>2. QED
    BY <1>5, <1>7, <2>1
<1>8. QED
  BY <1>1, <1>4, <1>6, <1>7

LEMMA ReadEtagStep ==
  ASSUME UpInv, NEW x \in Launch, ReadEtag(x)
  PROVE  UpInv'
<1>1. /\ Types /\ Newer(x) /\ run[x] \in RunType
      /\ scenario.solo => Good(x) /\ GoodStore
  BY SoloFacts
<1>2. \A r \in RunType : LET n == [r EXCEPT !.pc = "ask", !.prev = etag] IN
        /\ n \in RunType /\ n.pc = "ask" /\ n.rm = r.rm /\ n.prev = etag
        /\ n.version = r.version /\ n.tag = r.tag /\ n.stranded = r.stranded
  BY <1>1 DEF RunType, Pcs, Types
<1>3. PICK n : n = [run[x] EXCEPT !.pc = "ask", !.prev = etag]
  OBVIOUS
<1>4. /\ n \in RunType /\ n.pc = "ask" /\ n.rm = run[x].rm /\ n.prev = etag
      /\ n.version = run[x].version /\ n.tag = run[x].tag /\ n.stranded = run[x].stranded
  BY <1>1, <1>2, <1>3
<1>5. /\ run[x].pc = "clean" /\ run[x].orphans = {} /\ run' = [run EXCEPT ![x] = n]
      /\ UNCHANGED <<scenario, dir, etag, released, fetching, faults>>
  BY <1>1, <1>3 DEF ReadEtag, Types
<1>6. run' \in [Launch -> RunType] /\ run'[x] = n /\ Others(x)
  BY <1>1, <1>4, <1>5 DEF Types, Others
<1>7. Types' /\ Newer(x)'
  BY <1>1, <1>4, <1>5, <1>6 DEF Types, Newer
<1>8. scenario.solo => Good(x)'
  BY <1>1, <1>4, <1>5, <1>6 DEF Good, GoodStore, Removal, Upgrading, BeforeSwap, Live, Exists
<1>9. QED
  BY <1>4, <1>5, <1>6, <1>7, <1>8, QuietStep DEF Upgrading

-----------------------------------------------------------------------------
(* Asking for the newest release, and downloading it. *)
LEMMA ToldFields ==
  ASSUME Types, NEW x \in Launch, NEW to \in Pcs, Told(x, to)
  PROVE  /\ run[x].pc = "ask" /\ run' \in [Launch -> RunType] /\ Others(x)
         /\ run'[x].pc = to /\ run'[x].tag = released /\ run'[x].rm = run[x].rm
         /\ run'[x].version = run[x].version /\ run'[x].hurt = run[x].hurt
         /\ run'[x].stranded = run[x].stranded
<1>1. run[x] \in RunType /\ released \in Release
  BY DEF Types
<1>2. \A r \in RunType : LET n == [r EXCEPT !.pc = to, !.tag = released] IN
        /\ n \in RunType /\ n.pc = to /\ n.tag = released /\ n.rm = r.rm
        /\ n.version = r.version /\ n.hurt = r.hurt /\ n.stranded = r.stranded
  BY <1>1 DEF RunType
<1>3. PICK n : n = [run[x] EXCEPT !.pc = to, !.tag = released]
  OBVIOUS
<1>4. run[x].pc = "ask" /\ run' = [run EXCEPT ![x] = n]
  BY <1>1, <1>3 DEF Told, Types
<1>5. run'[x] = n /\ Others(x) /\ run' \in [Launch -> RunType]
  BY <1>1, <1>2, <1>3, <1>4 DEF Types, Others
<1>6. QED
  BY <1>1, <1>2, <1>3, <1>4, <1>5

LEMMA AskTagStep ==
  ASSUME UpInv, NEW x \in Launch, AskTag(x)
  PROVE  UpInv'
<1>1. /\ Types /\ Newer(x) /\ run[x] \in RunType /\ dir[x] \in TreeType
      /\ scenario.solo => Good(x) /\ GoodStore
  BY SoloFacts
<1>2. "done" \in Pcs /\ "manifest" \in Pcs
  BY DEF Pcs
<1>3. UNCHANGED <<scenario, released, fetching, faults>> /\ released \in Release
  BY <1>1 DEF AskTag, Types
<1>4. CASE released = run[x].prev /\ Told(x, "done") /\ UNCHANGED <<dir, etag>>
  <2>1. /\ run[x].pc = "ask" /\ run' \in [Launch -> RunType] /\ Others(x)
        /\ run'[x].stranded = run[x].stranded
        /\ run'[x].pc = "done" /\ run'[x].rm = run[x].rm /\ run'[x].tag = released
    BY <1>1, <1>2, <1>4, ToldFields
  <2>2. Types' /\ Newer(x)'
    BY <1>1, <1>3, <1>4, <2>1 DEF Types, Newer
  <2>3. scenario.solo => Good(x)'
    BY <1>1, <2>1 DEF Good, Removal, Upgrading, Away, BeforeSwap
  <2>4. QED
    BY <1>3, <1>4, <2>1, <2>2, <2>3, QuietStep DEF Upgrading
<1>5. CASE /\ released <= run[x].version /\ Told(x, "done")
           /\ etag' = released /\ UNCHANGED dir
  <2>1. /\ run[x].pc = "ask" /\ run' \in [Launch -> RunType] /\ Others(x)
        /\ run'[x].stranded = run[x].stranded
        /\ run'[x].pc = "done" /\ run'[x].rm = run[x].rm /\ run'[x].tag = released
    BY <1>1, <1>2, <1>5, ToldFields
  <2>2. Types' /\ Newer(x)'
    BY <1>1, <1>3, <1>5, <2>1 DEF Types, Newer
  <2>3. \A y \in Launch : Newer(y)'
    BY <1>3, <2>1, <2>2 DEF UpInv, Newer, Others
  <2>4. ASSUME scenario.solo PROVE Good(x)' /\ GoodStore'
    <3>1. Good(x)'
      BY <1>1, <2>1, <2>4 DEF Good, Removal, Upgrading, Away, BeforeSwap
    <3>2. Exists("runtime") /\ run[x].version = Live
      BY <1>1, <2>1, <2>4 DEF Good, Upgrading, BeforeSwap
    <3>3. Exists("runtime")' /\ Live' = Live /\ (Complete(dir["runtime"]))'
      BY <1>1, <1>5, <2>4, <3>2 DEF GoodStore, Exists, Live, Complete
    <3>4. etag' <= Live'
      BY <1>5, <3>2, <3>3
    <3>5. QED
      BY <3>1, <3>3, <3>4 DEF GoodStore
  <2>5. Upgrading(x) /\ ~Upgrading(x)'
    BY <2>1 DEF Upgrading
  <2>6. Solo'
    BY <1>3, <2>1, <2>4, <2>5, SoloStep DEF Others
  <2>7. QED
    BY <2>2, <2>3, <2>6 DEF UpInv
<1>6. CASE /\ released > run[x].version /\ Told(x, "manifest")
           /\ dir' = [dir EXCEPT ![x] = Tree(released, {})] /\ UNCHANGED etag
  <2>1. /\ run[x].pc = "ask" /\ run' \in [Launch -> RunType] /\ Others(x)
        /\ run'[x].stranded = run[x].stranded
        /\ run'[x].pc = "manifest" /\ run'[x].rm = run[x].rm /\ run'[x].tag = released
        /\ run'[x].version = run[x].version
    BY <1>1, <1>2, <1>6, ToldFields
  <2>2. dir' \in [Dir -> TreeType] /\ \A d \in Dir \ {x} : dir'[d] = dir[d]
    BY <1>1, <1>3, <1>6, TreesMade DEF Types
  <2>3. Types' /\ Newer(x)'
    BY <1>1, <1>3, <1>6, <2>1, <2>2 DEF Types, Newer
  <2>4. dir'["runtime"] = dir["runtime"] /\ dir'["old"] = dir["old"]
    BY <2>2, DirFacts
  <2>5. scenario.solo => Good(x)'
    BY <1>1, <2>1, <2>4 DEF Good, Removal, Upgrading, Away, BeforeSwap, Live, Exists
  <2>6. QED
    BY <1>3, <1>6, <2>1, <2>3, <2>4, <2>5, QuietStep DEF Upgrading
<1>7. QED
  BY <1>4, <1>5, <1>6 DEF AskTag

LEMMA AskFailsStep ==
  ASSUME UpInv, NEW x \in Launch, AskFails(x)
  PROVE  UpInv'
<1>1. /\ Types /\ Newer(x) /\ run[x] \in RunType
      /\ scenario.solo => Good(x) /\ GoodStore
  BY SoloFacts
<1>2. \A r \in RunType : LET n == [r EXCEPT !.pc = "done", !.hurt = TRUE] IN
        /\ n \in RunType /\ n.pc = "done" /\ n.rm = r.rm /\ n.tag = r.tag /\ n.stranded = r.stranded
  BY DEF RunType, Pcs
<1>3. PICK n : n = [run[x] EXCEPT !.pc = "done", !.hurt = TRUE]
  OBVIOUS
<1>4. n \in RunType /\ n.pc = "done" /\ n.rm = run[x].rm /\ n.tag = run[x].tag /\ n.stranded = run[x].stranded
  BY <1>1, <1>2, <1>3
<1>5. /\ run[x].pc = "ask" /\ run' = [run EXCEPT ![x] = n]
      /\ UNCHANGED <<scenario, dir, etag, released, fetching>> /\ Fault
  BY <1>1, <1>3 DEF AskFails, Types
<1>6. run' \in [Launch -> RunType] /\ run'[x] = n /\ Others(x)
  BY <1>1, <1>4, <1>5 DEF Types, Others
<1>7. Types' /\ Newer(x)'
  BY <1>1, <1>4, <1>5, <1>6, FaultType DEF Types, Newer
<1>8. scenario.solo => Good(x)'
  BY <1>1, <1>4, <1>5, <1>6 DEF Good, Removal, Upgrading, Away, BeforeSwap
<1>9. QED
  BY <1>4, <1>5, <1>6, <1>7, <1>8, QuietStep DEF Upgrading

LEMMA PutFields ==
  ASSUME Types, NEW x \in Launch, run[x].tag \in Release, NEW entries \in SUBSET All,
         dir' = Put(x, entries)
  PROVE  /\ dir' \in [Dir -> TreeType] /\ \A d \in Dir \ {x} : dir'[d] = dir[d]
         /\ dir'["runtime"] = dir["runtime"] /\ dir'["old"] = dir["old"]
         /\ dir'[x].has = dir[x].has \union entries /\ dir'[x].tag = run[x].tag
<1>1. dir[x] \in TreeType /\ dir[x].has \subseteq All
  BY DirFacts, TreeFacts DEF Types
<1>2. PICK t : t = Tree(run[x].tag, dir[x].has \union entries)
  OBVIOUS
<1>3. t \in TreeType /\ t.has = dir[x].has \union entries /\ t.tag = run[x].tag
  BY <1>1, <1>2, TreesMade
<1>4. dir' = [dir EXCEPT ![x] = t]
  BY <1>2, DirFacts DEF Put, Types
<1>5. dir' \in [Dir -> TreeType] /\ dir'[x] = t /\ \A d \in Dir \ {x} : dir'[d] = dir[d]
  BY <1>3, <1>4, DirFacts DEF Types
<1>6. QED
  BY <1>3, <1>5, DirFacts

(* What a launch past its question installs is a release. *)
LEMMA TagOf ==
  ASSUME UpInv, NEW x \in Launch,
         run[x].pc \notin {"idle", "clean", "ask", "done", "dead"} \/ fetching[x] # {}
  PROVE  run[x].tag \in Release
<1>1. Newer(x) /\ run[x] \in RunType
  BY SoloFacts
<1>2. run[x].tag \in Release \union {None} /\ run[x].version \in Release \union {None}
  BY <1>1 DEF RunType
<1>3. QED
  BY <1>1, <1>2 DEF Newer, Release, None

LEMMA ManifestStep ==
  ASSUME UpInv, NEW x \in Launch, Manifest(x)
  PROVE  UpInv'
<1>1. /\ Types /\ Newer(x) /\ run[x] \in RunType /\ dir[x] \in TreeType
      /\ scenario.solo => Good(x) /\ GoodStore
  BY SoloFacts
<1>2. /\ Goes(x, "manifest", "download") /\ dir' = Put(x, {})
      /\ fetching' = [fetching EXCEPT ![x] = Pkg]
      /\ UNCHANGED <<scenario, etag, released, faults>>
  BY DEF Manifest
<1>3. "manifest" \in Pcs /\ "download" \in Pcs
  BY DEF Pcs
<1>4. /\ run[x].pc = "manifest" /\ run' \in [Launch -> RunType] /\ Others(x)
      /\ run'[x].stranded = run[x].stranded
      /\ run'[x].pc = "download" /\ run'[x].rm = run[x].rm
      /\ run'[x].version = run[x].version /\ run'[x].tag = run[x].tag
  BY <1>1, <1>2, <1>3, GoesFields
<1>5. run[x].tag \in Release
  BY <1>4, TagOf
<1>6. /\ dir' \in [Dir -> TreeType]
      /\ dir'["runtime"] = dir["runtime"] /\ dir'["old"] = dir["old"]
  BY <1>1, <1>2, <1>5, PutFields
<1>7. /\ fetching' \in [Launch -> SUBSET Pkg] /\ fetching'[x] = Pkg
      /\ \A y \in Launch \ {x} : fetching'[y] = fetching[y]
  BY <1>1, <1>2 DEF Types
<1>8. Types' /\ Newer(x)'
  BY <1>1, <1>2, <1>4, <1>5, <1>6, <1>7 DEF Types, Newer
<1>9. scenario.solo => Good(x)'
  BY <1>1, <1>4, <1>6, <1>7 DEF Good, Removal, Upgrading, Away, BeforeSwap, Live, Exists
<1>10. QED
  BY <1>2, <1>4, <1>6, <1>7, <1>8, <1>9, QuietStep DEF Upgrading

(* A package that arrives is no longer fetched; nor is one that fails. *)
LEMMA ExtractStep ==
  ASSUME UpInv, NEW x \in Launch, NEW p \in Pkg, Extract(x, p)
  PROVE  UpInv'
<1>1. /\ Types /\ Newer(x) /\ run[x] \in RunType /\ dir[x] \in TreeType
      /\ scenario.solo => Good(x) /\ GoodStore
  BY SoloFacts
<1>2. /\ run[x].pc \in {"download", "done"} /\ p \in fetching[x] /\ dir' = Put(x, {p})
      /\ fetching' = [fetching EXCEPT ![x] = @ \ {p}]
      /\ UNCHANGED <<scenario, etag, released, run, faults>>
  BY DEF Extract, Listens
<1>3. run[x].tag \in Release /\ {p} \in SUBSET All
  BY <1>2, TagOf DEF All
<1>4. /\ dir' \in [Dir -> TreeType] /\ \A d \in Dir \ {x} : dir'[d] = dir[d]
      /\ dir'["runtime"] = dir["runtime"] /\ dir'["old"] = dir["old"]
      /\ dir'[x].has = dir[x].has \union {p}
  BY <1>1, <1>2, <1>3, PutFields
<1>5. /\ fetching' \in [Launch -> SUBSET Pkg] /\ fetching'[x] = fetching[x] \ {p}
      /\ \A y \in Launch \ {x} : fetching'[y] = fetching[y]
  BY <1>1, <1>2 DEF Types
<1>6. Types' /\ Newer(x)'
  BY <1>1, <1>2, <1>3, <1>4, <1>5 DEF Types, Newer
<1>7. scenario.solo => Good(x)'
  BY <1>1, <1>2, <1>4, <1>5 DEF Good, Removal, Upgrading, Away, BeforeSwap, Live, Exists
<1>8. Others(x)
  BY <1>2 DEF Others
<1>9. QED
  BY <1>2, <1>4, <1>5, <1>6, <1>7, <1>8, QuietStep DEF Upgrading

LEMMA ExtractFailsStep ==
  ASSUME UpInv, NEW x \in Launch, NEW p \in Pkg, ExtractFails(x, p)
  PROVE  UpInv'
<1>1. /\ Types /\ Newer(x) /\ run[x] \in RunType
      /\ scenario.solo => Good(x) /\ GoodStore
  BY SoloFacts
<1>2. /\ run[x].pc \in {"download", "done"} /\ p \in fetching[x]
      /\ fetching' = [fetching EXCEPT ![x] = @ \ {p}]
      /\ UNCHANGED <<scenario, dir, etag, released>>
  BY DEF ExtractFails, Listens
<1>3. /\ fetching' \in [Launch -> SUBSET Pkg] /\ fetching'[x] = fetching[x] \ {p}
      /\ \A y \in Launch \ {x} : fetching'[y] = fetching[y]
  BY <1>1, <1>2 DEF Types
<1>4. CASE run[x].pc = "download" /\ Breaks(x)
  <2>1. /\ run' \in [Launch -> RunType] /\ Others(x) /\ faults' \in 0..MaxFaults
        /\ run'[x].pc = "restore" /\ run'[x].rm = NotRemoving /\ run'[x].hurt
        /\ run'[x].stranded = run[x].stranded
        /\ run'[x].version = run[x].version /\ run'[x].tag = run[x].tag
    BY <1>1, <1>4, BreaksFields
  <2>2. QED
    BY <1>2, <1>3, <1>4, <2>1, ThrowStep DEF Upgrading
<1>5. CASE Fault /\ run' = [run EXCEPT ![x].hurt = TRUE]
  <2>1. \A r \in RunType : LET n == [r EXCEPT !.hurt = TRUE] IN
          /\ n \in RunType /\ n.pc = r.pc /\ n.rm = r.rm /\ n.hurt
          /\ n.stranded = r.stranded
          /\ n.version = r.version /\ n.tag = r.tag
    BY DEF RunType
  <2>2. PICK n : n = [run[x] EXCEPT !.hurt = TRUE]
    OBVIOUS
  <2>3. /\ n \in RunType /\ n.pc = run[x].pc /\ n.rm = run[x].rm /\ n.hurt
        /\ n.stranded = run[x].stranded
        /\ n.version = run[x].version /\ n.tag = run[x].tag
    BY <1>1, <2>1, <2>2
  <2>4. run' = [run EXCEPT ![x] = n]
    BY <1>1, <1>5, <2>2 DEF Types
  <2>5. run' \in [Launch -> RunType] /\ run'[x] = n /\ Others(x)
    BY <1>1, <2>3, <2>4 DEF Types, Others
  <2>6. Types' /\ Newer(x)'
    BY <1>1, <1>2, <1>3, <1>5, <2>3, <2>5, FaultType DEF Types, Newer
  <2>7. scenario.solo => Good(x)'
    BY <1>1, <1>2, <2>3, <2>5 DEF Good, Removal, Upgrading, Away, BeforeSwap, Live, Exists
  <2>8. QED
    BY <1>2, <1>3, <2>3, <2>5, <2>6, <2>7, QuietStep DEF Upgrading
<1>6. QED
  BY <1>4, <1>5 DEF ExtractFails

(* All packages have come or the launch met a fault. *)
LEMMA ValidateStep ==
  ASSUME UpInv, NEW x \in Launch, Validate(x)
  PROVE  UpInv'
<1>1. /\ Types /\ Newer(x) /\ run[x] \in RunType
      /\ scenario.solo => Good(x) /\ GoodStore
  BY SoloFacts
<1>2. /\ fetching[x] = {} /\ run[x].pc = "download"
      /\ UNCHANGED <<scenario, dir, etag, released, fetching, faults>>
  BY DEF Validate
<1>3. CASE Pkg \subseteq dir[x].has /\ Goes(x, "download", "stamp")
  <2>1. "download" \in Pcs /\ "stamp" \in Pcs
    BY DEF Pcs
  <2>2. /\ run' \in [Launch -> RunType] /\ Others(x)
        /\ run'[x].stranded = run[x].stranded
        /\ run'[x].pc = "stamp" /\ run'[x].rm = run[x].rm
        /\ run'[x].version = run[x].version /\ run'[x].tag = run[x].tag
    BY <1>1, <1>3, <2>1, GoesFields
  <2>3. Types' /\ Newer(x)'
    BY <1>1, <1>2, <2>2 DEF Types, Newer
  <2>4. scenario.solo => Good(x)'
    BY <1>1, <1>2, <1>3, <2>2 DEF Good, Removal, Upgrading, Away, BeforeSwap, Live, Exists
  <2>5. QED
    BY <1>2, <2>2, <2>3, <2>4, QuietStep DEF Upgrading
<1>4. CASE ~(Pkg \subseteq dir[x].has) /\ Throws(x)
  <2>1. /\ run' \in [Launch -> RunType] /\ Others(x)
        /\ run'[x].pc = "restore" /\ run'[x].rm = NotRemoving /\ run'[x].hurt = run[x].hurt
        /\ run'[x].stranded = run[x].stranded
        /\ run'[x].version = run[x].version /\ run'[x].tag = run[x].tag
    BY <1>1, <1>4, ThrowsFields
  <2>2. scenario.solo => run[x].hurt
    BY <1>1, <1>2, <1>4 DEF Good
  <2>3. /\ fetching' \in [Launch -> SUBSET Pkg] /\ faults' \in 0..MaxFaults
    BY <1>1, <1>2 DEF Types
  <2>4. QED
    BY <1>2, <2>1, <2>2, <2>3, ThrowStep DEF Upgrading
<1>5. QED
  BY <1>3, <1>4 DEF Validate

LEMMA StampStep ==
  ASSUME UpInv, NEW x \in Launch, Stamp(x)
  PROVE  UpInv'
<1>1. /\ Types /\ Newer(x) /\ run[x] \in RunType /\ dir[x] \in TreeType
      /\ scenario.solo => Good(x) /\ GoodStore
  BY SoloFacts
<1>2. run[x].pc = "stamp" /\ UNCHANGED <<scenario, etag, released, fetching, faults>>
  BY DEF Stamp
<1>3. run[x].tag \in Release /\ {"VERSION"} \in SUBSET All
  BY <1>2, TagOf DEF All
<1>4. CASE Goes(x, "stamp", "clear") /\ dir' = Put(x, {"VERSION"})
  <2>1. "stamp" \in Pcs /\ "clear" \in Pcs
    BY DEF Pcs
  <2>2. /\ run' \in [Launch -> RunType] /\ Others(x)
        /\ run'[x].stranded = run[x].stranded
        /\ run'[x].pc = "clear" /\ run'[x].rm = run[x].rm
        /\ run'[x].version = run[x].version /\ run'[x].tag = run[x].tag
    BY <1>1, <1>4, <2>1, GoesFields
  <2>3. /\ dir' \in [Dir -> TreeType]
        /\ dir'["runtime"] = dir["runtime"] /\ dir'["old"] = dir["old"]
        /\ dir'[x].has = dir[x].has \union {"VERSION"} /\ dir'[x].tag = run[x].tag
    BY <1>1, <1>3, <1>4, PutFields
  <2>4. Types' /\ Newer(x)'
    BY <1>1, <1>2, <1>3, <2>2, <2>3 DEF Types, Newer
  <2>5. scenario.solo => Complete(dir'[x])
    BY <1>1, <1>2, <2>3, TreeFacts DEF Good, Complete, All
  <2>6. scenario.solo => Good(x)'
    BY <1>1, <1>2, <2>2, <2>3, <2>5
    DEF Good, Removal, Upgrading, Away, BeforeSwap, Live, Exists, Complete
  <2>7. QED
    BY <1>2, <2>2, <2>3, <2>4, <2>6, QuietStep DEF Upgrading
<1>5. CASE ~Exists(x) /\ Throws(x) /\ UNCHANGED dir
  <2>1. /\ run' \in [Launch -> RunType] /\ Others(x)
        /\ run'[x].stranded = run[x].stranded
        /\ run'[x].pc = "restore" /\ run'[x].rm = NotRemoving
        /\ run'[x].version = run[x].version /\ run'[x].tag = run[x].tag
    BY <1>1, <1>5, ThrowsFields
  <2>2. ~scenario.solo
    BY <1>1, <1>2, <1>5, TreesMade DEF Good, Exists
  <2>3. fetching' \in [Launch -> SUBSET Pkg] /\ faults' \in 0..MaxFaults
    BY <1>1, <1>2 DEF Types
  <2>4. QED
    BY <1>2, <1>5, <2>1, <2>2, <2>3, ThrowStep DEF Upgrading
<1>6. QED
  BY <1>4, <1>5 DEF Stamp

-----------------------------------------------------------------------------
(* The swap. *)
LEMMA ClearBackupStep ==
  ASSUME UpInv, NEW x \in Launch, NEW from, NEW to, ClearBackup(x, from, to),
         \/ from = "clear" /\ to = "away"
         \/ from = "drop" /\ to = "store"
  PROVE  UpInv'
<1>1. /\ Types /\ Newer(x) /\ run[x] \in RunType
      /\ dir["runtime"] \in TreeType /\ dir["old"] \in TreeType
      /\ scenario.solo => Good(x) /\ GoodStore
  BY SoloFacts
<1>2. run[x].pc = from /\ from \in {"clear", "drop"} /\ to \in Pcs /\ Upgrading(x)
  BY DEF ClearBackup, Pcs, Upgrading
<1>3. CASE RmList(x, "old")
  <2>1. /\ run' \in [Launch -> RunType] /\ Others(x)
        /\ run'[x].pc = from /\ run'[x].hurt = run[x].hurt
        /\ run'[x].stranded = run[x].stranded
        /\ run'[x].rm.path = "old" /\ run'[x].rm.left = dir["old"].has
        /\ run'[x].version = run[x].version /\ run'[x].tag = run[x].tag
        /\ UNCHANGED <<scenario, dir, etag, released, fetching, faults>>
    BY <1>1, <1>2, <1>3, RmListFields, DirFacts
  <2>2. Types' /\ Newer(x)'
    BY <1>1, <1>2, <2>1 DEF Types, Newer
  <2>3. scenario.solo => Good(x)'
    BY <1>1, <1>2, <2>1 DEF Good, Removal, Upgrading, Away, BeforeSwap, Live, Exists
  <2>4. QED
    BY <1>2, <2>1, <2>2, <2>3, QuietStep
<1>4. CASE /\ RmEnds(x, "old") /\ dir' = [dir EXCEPT !["old"] = Missing] /\ Ends(x, to)
           /\ UNCHANGED <<scenario, etag, released, fetching, faults>>
  <2>1. /\ run' \in [Launch -> RunType] /\ Others(x)
        /\ run'[x].stranded = run[x].stranded
        /\ run'[x].pc = to /\ run'[x].rm = NotRemoving
        /\ run'[x].version = run[x].version /\ run'[x].tag = run[x].tag
    BY <1>1, <1>2, <1>4, EndsFields
  <2>2. /\ dir' \in [Dir -> TreeType] /\ dir'["old"] = Missing
        /\ dir'["runtime"] = dir["runtime"] /\ dir'[x] = dir[x]
    BY <1>1, <1>4, DirFacts, TreesMade DEF Types
  <2>3. Types' /\ Newer(x)'
    BY <1>1, <1>2, <1>4, <2>1, <2>2 DEF Types, Newer
  <2>4. ASSUME scenario.solo PROVE Good(x)' /\ GoodStore'
    <3>1. Exists("runtime") /\ Exists("runtime")' /\ Live' = Live
      BY <1>1, <1>2, <2>2, <2>4 DEF Good, Exists, Live
    <3>2. GoodStore'
      BY <1>1, <1>4, <2>2, <2>4, <3>1 DEF GoodStore
    <3>3. Good(x)'
      BY <1>1, <1>2, <2>1, <2>2, <2>4, <3>1 DEF Good, Removal, Upgrading, Away, BeforeSwap
    <3>4. QED
      BY <3>2, <3>3
  <2>5. QED
    BY <1>2, <1>4, <2>1, <2>3, <2>4, SwapStep
<1>5. CASE /\ RmFails(x, "old") /\ Throws(x)
           /\ UNCHANGED <<scenario, dir, etag, released, fetching, faults>>
  <2>1. /\ run' \in [Launch -> RunType] /\ Others(x)
        /\ run'[x].stranded = run[x].stranded
        /\ run'[x].pc = "restore" /\ run'[x].rm = NotRemoving
        /\ run'[x].version = run[x].version /\ run'[x].tag = run[x].tag
    BY <1>1, <1>5, ThrowsFields
  <2>2. ~scenario.solo
    BY <1>1, <1>2, <1>5, RmTypes DEF Good, Removal, RmFails, Removes
  <2>3. fetching' \in [Launch -> SUBSET Pkg] /\ faults' \in 0..MaxFaults
    BY <1>1, <1>5 DEF Types
  <2>4. QED
    BY <1>2, <1>5, <2>1, <2>2, <2>3, ThrowStep
<1>6. QED
  BY <1>3, <1>4, <1>5 DEF ClearBackup, Ends

LEMMA RenamedFields ==
  ASSUME Types, NEW a \in Dir, NEW b \in Dir, a # b, dir' = Renamed(a, b)
  PROVE  /\ dir' \in [Dir -> TreeType] /\ dir'[b] = dir[a] /\ dir'[a] = Missing
         /\ \A d \in Dir \ {a, b} : dir'[d] = dir[d]
BY TreesMade DEF Types, Renamed

LEMMA MoveAwayStep ==
  ASSUME UpInv, NEW x \in Launch, MoveAway(x)
  PROVE  UpInv'
<1>1. /\ Types /\ Newer(x) /\ run[x] \in RunType
      /\ dir["runtime"] \in TreeType /\ dir["old"] \in TreeType
      /\ scenario.solo => Good(x) /\ GoodStore
  BY SoloFacts
<1>2. /\ run[x].pc = "away" /\ Upgrading(x)
      /\ UNCHANGED <<scenario, etag, released, fetching, faults>>
  BY DEF MoveAway, Upgrading
<1>3. scenario.solo => Exists("runtime") /\ dir["old"] = Missing /\ Renamable("runtime", "old")
  BY <1>1, <1>2, TreesMade DEF Good, Renamable
<1>4. "away" \in Pcs /\ "promote" \in Pcs
  BY DEF Pcs
<1>5. CASE ~Exists("runtime") /\ Goes(x, "away", "promote") /\ UNCHANGED dir
  <2>1. /\ run' \in [Launch -> RunType] /\ Others(x)
        /\ run'[x].stranded = run[x].stranded
        /\ run'[x].pc = "promote"
        /\ run'[x].version = run[x].version /\ run'[x].tag = run[x].tag
    BY <1>1, <1>4, <1>5, GoesFields
  <2>2. Types' /\ Newer(x)'
    BY <1>1, <1>2, <1>5, <2>1 DEF Types, Newer
  <2>3. QED
    BY <1>2, <1>3, <1>5, <2>1, <2>2, SwapStep
<1>6. CASE /\ Exists("runtime") /\ Goes(x, "away", "promote")
           /\ dir' = Renamed("runtime", "old")
  <2>1. /\ run' \in [Launch -> RunType] /\ Others(x)
        /\ run'[x].stranded = run[x].stranded
        /\ run'[x].pc = "promote" /\ run'[x].rm = run[x].rm
        /\ run'[x].version = run[x].version /\ run'[x].tag = run[x].tag
    BY <1>1, <1>4, <1>6, GoesFields
  <2>2. /\ dir' \in [Dir -> TreeType] /\ dir'["old"] = dir["runtime"]
        /\ dir'["runtime"] = Missing /\ dir'[x] = dir[x]
    BY <1>1, <1>6, RenamedFields, DirFacts
  <2>3. Types' /\ Newer(x)'
    BY <1>1, <1>2, <2>1, <2>2 DEF Types, Newer
  <2>4. ASSUME scenario.solo PROVE Good(x)' /\ GoodStore'
    <3>1. ~Exists("runtime")' /\ Live' = Live
      BY <1>6, <2>2 DEF Exists, Live
    <3>2. GoodStore'
      <4>1. Away(x)' /\ Complete(dir["runtime"]) /\ etag <= Live
        BY <1>1, <1>6, <2>1, <2>4 DEF GoodStore, Away
      <4>2. QED
        BY <1>2, <2>2, <3>1, <4>1 DEF GoodStore, Complete
    <3>3. Good(x)'
      BY <1>1, <1>2, <2>1, <2>2, <2>4, <3>1 DEF Good, Removal, Upgrading, Away, BeforeSwap, Complete
    <3>4. QED
      BY <3>2, <3>3
  <2>5. QED
    BY <1>2, <2>1, <2>3, <2>4, SwapStep
<1>7. CASE ~Renamable("runtime", "old") /\ Throws(x) /\ UNCHANGED dir
  <2>1. /\ run' \in [Launch -> RunType] /\ Others(x)
        /\ run'[x].stranded = run[x].stranded
        /\ run'[x].pc = "restore" /\ run'[x].rm = NotRemoving
        /\ run'[x].version = run[x].version /\ run'[x].tag = run[x].tag
    BY <1>1, <1>7, ThrowsFields
  <2>2. fetching' \in [Launch -> SUBSET Pkg] /\ faults' \in 0..MaxFaults
    BY <1>1, <1>2 DEF Types
  <2>3. QED
    BY <1>2, <1>3, <1>7, <2>1, <2>2, ThrowStep
<1>8. QED
  BY <1>5, <1>6, <1>7 DEF MoveAway

LEMMA PromoteStep ==
  ASSUME UpInv, NEW x \in Launch, Promote(x)
  PROVE  UpInv'
<1>1. /\ Types /\ Newer(x) /\ run[x] \in RunType /\ dir[x] \in TreeType
      /\ dir["runtime"] \in TreeType /\ dir["old"] \in TreeType
      /\ scenario.solo => Good(x) /\ GoodStore
  BY SoloFacts
<1>2. /\ run[x].pc = "promote" /\ Upgrading(x)
      /\ UNCHANGED <<scenario, etag, released, fetching, faults>>
  BY DEF Promote, Upgrading
<1>3. ASSUME scenario.solo
      PROVE  /\ ~Exists("runtime") /\ Complete(dir[x]) /\ dir[x].tag = run[x].tag
             /\ Renamable(x, "runtime") /\ dir[x] # Missing
             /\ run[x].version = Live
  <2>1. ~Exists("runtime") /\ Complete(dir[x]) /\ dir[x].tag = run[x].tag /\ run[x].version = Live
    BY <1>1, <1>2, <1>3 DEF Good, BeforeSwap
  <2>2. dir[x] # Missing /\ dir["runtime"].has = {}
    BY <1>1, <2>1, CompleteFacts, TreesMade DEF Exists
  <2>3. QED
    BY <2>1, <2>2 DEF Renamable, Exists
<1>4. CASE Goes(x, "promote", "drop") /\ dir' = Renamed(x, "runtime")
  <2>1. "promote" \in Pcs /\ "drop" \in Pcs
    BY DEF Pcs
  <2>2. /\ run' \in [Launch -> RunType] /\ Others(x)
        /\ run'[x].stranded = run[x].stranded
        /\ run'[x].pc = "drop" /\ run'[x].rm = run[x].rm
        /\ run'[x].version = run[x].version /\ run'[x].tag = run[x].tag
    BY <1>1, <1>4, <2>1, GoesFields
  <2>3. /\ dir' \in [Dir -> TreeType] /\ dir'["runtime"] = dir[x]
        /\ dir'[x] = Missing /\ dir'["old"] = dir["old"]
    BY <1>1, <1>4, RenamedFields, DirFacts
  <2>4. Types' /\ Newer(x)'
    BY <1>1, <1>2, <2>2, <2>3 DEF Types, Newer
  <2>5. ASSUME scenario.solo PROVE Good(x)' /\ GoodStore'
    <3>1. Exists("runtime")' /\ Live' = run[x].tag /\ Complete(dir'["runtime"])
      BY <1>3, <2>3, <2>5 DEF Exists, Live, Complete
    <3>2. run[x].tag > Live
      BY <1>1, <1>2, <1>3, <2>5 DEF Newer
    <3>3. etag <= Live
      BY <1>1, <2>5 DEF GoodStore
    <3>4. etag' <= Live'
      <4>1. etag \in Nat /\ Live \in Nat /\ run[x].tag \in Nat
        BY <1>1, LiveNat DEF Types, RunType, Release, None
      <4>2. QED
        BY <1>2, <3>1, <3>2, <3>3, <4>1
    <3>5. GoodStore'
      BY <3>1, <3>4 DEF GoodStore, Complete
    <3>6. Good(x)'
      BY <1>1, <1>2, <1>3, <2>2, <2>3, <2>5, <3>1 DEF Good, Removal, Upgrading, Away, BeforeSwap
    <3>7. QED
      BY <3>5, <3>6
  <2>6. QED
    BY <1>2, <2>2, <2>4, <2>5, SwapStep
<1>5. CASE ~Renamable(x, "runtime") /\ Throws(x) /\ UNCHANGED dir
  <2>1. /\ run' \in [Launch -> RunType] /\ Others(x)
        /\ run'[x].stranded = run[x].stranded
        /\ run'[x].pc = "restore" /\ run'[x].rm = NotRemoving
        /\ run'[x].version = run[x].version /\ run'[x].tag = run[x].tag
    BY <1>1, <1>5, ThrowsFields
  <2>2. fetching' \in [Launch -> SUBSET Pkg] /\ faults' \in 0..MaxFaults
    BY <1>1, <1>2 DEF Types
  <2>3. QED
    BY <1>2, <1>3, <1>5, <2>1, <2>2, ThrowStep
<1>6. QED
  BY <1>4, <1>5 DEF Promote

LEMMA StoreEtagStep ==
  ASSUME UpInv, NEW x \in Launch, StoreEtag(x)
  PROVE  UpInv'
<1>1. /\ Types /\ Newer(x) /\ run[x] \in RunType
      /\ scenario.solo => Good(x) /\ GoodStore
  BY SoloFacts
<1>2. /\ Goes(x, "store", "reexec") /\ etag' = run[x].tag
      /\ UNCHANGED <<scenario, dir, released, fetching, faults>>
  BY DEF StoreEtag
<1>3. "store" \in Pcs /\ "reexec" \in Pcs
  BY DEF Pcs
<1>4. /\ run[x].pc = "store" /\ run' \in [Launch -> RunType] /\ Others(x)
      /\ run'[x].stranded = run[x].stranded
      /\ run'[x].pc = "reexec" /\ run'[x].rm = run[x].rm
      /\ run'[x].version = run[x].version /\ run'[x].tag = run[x].tag
  BY <1>1, <1>2, <1>3, GoesFields
<1>5. run[x].tag \in Release
  BY <1>4, TagOf
<1>6. Types' /\ Newer(x)'
  BY <1>1, <1>2, <1>4, <1>5 DEF Types, Newer
<1>7. ASSUME scenario.solo PROVE Good(x)' /\ GoodStore'
  <2>1. Exists("runtime") /\ dir["runtime"].tag = run[x].tag
    BY <1>1, <1>4, <1>7 DEF Good, Upgrading
  <2>2. Exists("runtime")' /\ Live' = run[x].tag
    BY <1>2, <2>1 DEF Exists, Live
  <2>3. etag' <= Live'
    BY <1>2, <1>5, <2>2 DEF Release
  <2>4. GoodStore'
    BY <1>1, <1>2, <1>7, <2>1, <2>2, <2>3 DEF GoodStore
  <2>5. Good(x)'
    BY <1>1, <1>4, <1>7, <2>2 DEF Good, Removal, Upgrading, Away, BeforeSwap
  <2>6. QED
    BY <2>4, <2>5
<1>8. Upgrading(x)
  BY <1>4 DEF Upgrading
<1>9. QED
  BY <1>2, <1>4, <1>6, <1>7, <1>8, SwapStep

LEMMA StepFailsStep ==
  ASSUME UpInv, NEW x \in Launch, StepFails(x)
  PROVE  UpInv'
<1>1. /\ Types /\ Newer(x) /\ run[x] \in RunType
      /\ scenario.solo => Good(x) /\ GoodStore
  BY SoloFacts
<1>2. UNCHANGED <<scenario, dir, etag, released, fetching>> /\ fetching' \in [Launch -> SUBSET Pkg]
  BY <1>1 DEF StepFails, Types
<1>3. CASE /\ run[x].pc \in {"manifest", "stamp", "clear", "away", "promote", "drop"}
           /\ Breaks(x)
  <2>1. /\ run' \in [Launch -> RunType] /\ Others(x) /\ faults' \in 0..MaxFaults
        /\ run'[x].pc = "restore" /\ run'[x].rm = NotRemoving /\ run'[x].hurt
        /\ run'[x].stranded = run[x].stranded
        /\ run'[x].version = run[x].version /\ run'[x].tag = run[x].tag
    BY <1>1, <1>3, BreaksFields
  <2>2. QED
    BY <1>2, <1>3, <2>1, ThrowStep DEF Upgrading
<1>4. CASE /\ run[x].pc = "clean" /\ Fault
           /\ run' = [run EXCEPT ![x].rm = NotRemoving, ![x].orphans = {}, ![x].hurt = TRUE]
  <2>1. \A r \in RunType :
          LET n == [r EXCEPT !.rm = NotRemoving, !.orphans = {}, !.hurt = TRUE] IN
          /\ n \in RunType /\ n.pc = r.pc /\ n.rm = NotRemoving
          /\ n.stranded = r.stranded /\ n.version = r.version /\ n.tag = r.tag
    BY RmTypes DEF RunType
  <2>2. PICK n : n = [run[x] EXCEPT !.rm = NotRemoving, !.orphans = {}, !.hurt = TRUE]
    OBVIOUS
  <2>3. /\ n \in RunType /\ n.pc = "clean" /\ n.rm = NotRemoving
        /\ n.stranded = run[x].stranded /\ n.version = run[x].version /\ n.tag = run[x].tag
    BY <1>1, <1>4, <2>1, <2>2
  <2>4. run' = [run EXCEPT ![x] = n]
    BY <1>1, <1>4, <2>2 DEF Types
  <2>5. run' \in [Launch -> RunType] /\ run'[x] = n /\ Others(x)
    BY <1>1, <2>3, <2>4 DEF Types, Others
  <2>6. Types' /\ Newer(x)'
    BY <1>1, <1>2, <1>4, <2>3, <2>5, FaultType DEF Types, Newer
  <2>7. scenario.solo => Good(x)'
    BY <1>1, <1>2, <1>4, <2>3, <2>5 DEF Good, Removal, Upgrading, BeforeSwap, Live, Exists
  <2>8. QED
    BY <1>2, <1>4, <2>3, <2>5, <2>6, <2>7, QuietStep DEF Upgrading
<1>5. CASE /\ run[x].pc = "store" /\ Fault
           /\ run' = [run EXCEPT ![x].pc = "reexec", ![x].hurt = TRUE]
  <2>1. \A r \in RunType : LET n == [r EXCEPT !.pc = "reexec", !.hurt = TRUE] IN
          /\ n \in RunType /\ n.pc = "reexec" /\ n.rm = r.rm
          /\ n.stranded = r.stranded /\ n.version = r.version /\ n.tag = r.tag
    BY DEF RunType, Pcs
  <2>2. PICK n : n = [run[x] EXCEPT !.pc = "reexec", !.hurt = TRUE]
    OBVIOUS
  <2>3. /\ n \in RunType /\ n.pc = "reexec" /\ n.rm = run[x].rm
        /\ n.stranded = run[x].stranded /\ n.version = run[x].version /\ n.tag = run[x].tag
    BY <1>1, <2>1, <2>2
  <2>4. run' = [run EXCEPT ![x] = n]
    BY <1>1, <1>5, <2>2 DEF Types
  <2>5. run' \in [Launch -> RunType] /\ run'[x] = n /\ Others(x)
    BY <1>1, <2>3, <2>4 DEF Types, Others
  <2>6. Types' /\ Newer(x)'
    BY <1>1, <1>2, <1>5, <2>3, <2>5, FaultType DEF Types, Newer
  <2>7. scenario.solo => Good(x)'
    BY <1>1, <1>2, <1>5, <2>3, <2>5 DEF Good, Removal, Upgrading, BeforeSwap, Live, Exists
  <2>8. QED
    BY <1>2, <1>5, <2>3, <2>5, <2>6, <2>7, QuietStep DEF Upgrading
<1>6. QED
  BY <1>3, <1>4, <1>5 DEF StepFails

-----------------------------------------------------------------------------
(* The catch, the end of a process, and one entry less. *)
LEMMA RestoreFailsStep ==
  ASSUME UpInv, NEW x \in Launch, RestoreFails(x)
  PROVE  UpInv'
<1>1. /\ Types /\ Newer(x) /\ run[x] \in RunType
      /\ scenario.solo => Good(x) /\ GoodStore
  BY SoloFacts
<1>2. \A r \in RunType : LET n == [r EXCEPT !.pc = "discard", !.stranded = TRUE] IN
        /\ n \in RunType /\ n.pc = "discard" /\ n.rm = r.rm /\ n.hurt = r.hurt
        /\ n.stranded /\ n.version = r.version /\ n.tag = r.tag
  BY DEF RunType, Pcs
<1>3. PICK n : n = [run[x] EXCEPT !.pc = "discard", !.stranded = TRUE]
  OBVIOUS
<1>4. /\ n \in RunType /\ n.pc = "discard" /\ n.rm = run[x].rm /\ n.hurt = run[x].hurt
      /\ n.stranded /\ n.version = run[x].version /\ n.tag = run[x].tag
  BY <1>1, <1>2, <1>3
<1>5. /\ run[x].pc = "restore" /\ run' = [run EXCEPT ![x] = n] /\ Fault
      /\ UNCHANGED <<scenario, dir, etag, released, fetching>>
  BY <1>1, <1>3 DEF RestoreFails, Types
<1>6. run' \in [Launch -> RunType] /\ run'[x] = n /\ Others(x)
  BY <1>1, <1>4, <1>5 DEF Types, Others
<1>7. Types' /\ Newer(x)'
  BY <1>1, <1>4, <1>5, <1>6, FaultType DEF Types, Newer
<1>8. scenario.solo => Good(x)'
  BY <1>1, <1>4, <1>5, <1>6 DEF Good, Removal, Upgrading, BeforeSwap
<1>9. QED
  BY <1>4, <1>5, <1>6, <1>7, <1>8, QuietStep DEF Upgrading

LEMMA RestoreStep ==
  ASSUME UpInv, NEW x \in Launch, Restore(x)
  PROVE  UpInv'
<1>1. /\ Types /\ Newer(x) /\ run[x] \in RunType /\ dir["old"] \in TreeType
      /\ scenario.solo => Good(x) /\ GoodStore
  BY SoloFacts
<1>2. /\ Goes(x, "restore", "discard")
      /\ UNCHANGED <<scenario, etag, released, fetching, faults>>
  BY DEF Restore
<1>3. "restore" \in Pcs /\ "discard" \in Pcs
  BY DEF Pcs
<1>4. /\ run[x].pc = "restore" /\ run' \in [Launch -> RunType] /\ Others(x)
      /\ run'[x].pc = "discard" /\ run'[x].rm = run[x].rm /\ run'[x].hurt = run[x].hurt
      /\ run'[x].stranded = run[x].stranded
      /\ run'[x].version = run[x].version /\ run'[x].tag = run[x].tag
  BY <1>1, <1>2, <1>3, GoesFields
<1>5. Upgrading(x)
  BY <1>4 DEF Upgrading
<1>6. CASE Exists("old") /\ ~Exists("runtime") /\ dir' = Renamed("old", "runtime")
  <2>1. /\ dir' \in [Dir -> TreeType] /\ dir'["runtime"] = dir["old"] /\ dir'["old"] = Missing
    BY <1>1, <1>6, RenamedFields, DirFacts
  <2>2. Types' /\ Newer(x)'
    BY <1>1, <1>2, <1>4, <2>1 DEF Types, Newer
  <2>3. ASSUME scenario.solo PROVE Good(x)' /\ GoodStore'
    <3>1. Exists("runtime")' /\ Live' = Live
      BY <1>6, <2>1 DEF Exists, Live
    <3>2. Complete(dir["old"]) /\ etag <= Live
      BY <1>1, <1>6, <2>3 DEF GoodStore
    <3>3. GoodStore'
      BY <1>2, <2>1, <3>1, <3>2 DEF GoodStore, Complete
    <3>4. Good(x)'
      BY <1>1, <1>4, <2>3, <3>1 DEF Good, Removal, Upgrading, Away, BeforeSwap
    <3>5. QED
      BY <3>3, <3>4
  <2>4. QED
    BY <1>2, <1>4, <1>5, <2>2, <2>3, SwapStep
<1>7. CASE ~(Exists("old") /\ ~Exists("runtime")) /\ UNCHANGED dir
  <2>1. Types' /\ Newer(x)'
    BY <1>1, <1>2, <1>4, <1>7 DEF Types, Newer
  <2>2. ASSUME scenario.solo PROVE Good(x)' /\ Exists("runtime")
    <3>1. Exists("runtime")
      BY <1>1, <1>7, <2>2, CompleteFacts DEF GoodStore, Exists
    <3>2. Exists("runtime")'
      BY <1>7, <3>1 DEF Exists
    <3>3. Good(x)'
      BY <1>1, <1>4, <2>2, <3>2 DEF Good, Removal, Upgrading, Away, BeforeSwap
    <3>4. QED
      BY <3>1, <3>3
  <2>3. QED
    BY <1>2, <1>4, <1>5, <1>7, <2>1, <2>2, QuietStep
<1>8. QED
  BY <1>6, <1>7 DEF Restore, Displaced

LEMMA DiscardStep ==
  ASSUME UpInv, NEW x \in Launch, Discard(x)
  PROVE  UpInv'
<1>1. /\ Types /\ Newer(x) /\ run[x] \in RunType
      /\ scenario.solo => Good(x) /\ GoodStore
  BY SoloFacts
<1>2. run[x].pc = "discard" /\ Upgrading(x) /\ x \in Dir
  BY DirFacts DEF Discard, Upgrading
<1>3. CASE RmList(x, x)
  <2>1. /\ run' \in [Launch -> RunType] /\ Others(x)
        /\ run'[x].pc = "discard" /\ run'[x].hurt = run[x].hurt
        /\ run'[x].stranded = run[x].stranded /\ run'[x].rm.path = x
        /\ run'[x].version = run[x].version /\ run'[x].tag = run[x].tag
        /\ UNCHANGED <<scenario, dir, etag, released, fetching, faults>>
    BY <1>1, <1>2, <1>3, RmListFields
  <2>2. Types' /\ Newer(x)'
    BY <1>1, <1>2, <2>1 DEF Types, Newer
  <2>3. scenario.solo => Good(x)'
    BY <1>1, <1>2, <2>1 DEF Good, Removal, Upgrading, Away, BeforeSwap, Live, Exists
  <2>4. QED
    BY <1>2, <2>1, <2>2, <2>3, QuietStep
<1>4. CASE /\ dir' = [dir EXCEPT ![x] = Missing] /\ Ends(x, "done")
           /\ UNCHANGED <<scenario, etag, released, fetching, faults>>
  <2>1. "done" \in Pcs
    BY DEF Pcs
  <2>2. /\ run' \in [Launch -> RunType] /\ Others(x)
        /\ run'[x].stranded = run[x].stranded
        /\ run'[x].pc = "done" /\ run'[x].rm = NotRemoving
        /\ run'[x].version = run[x].version /\ run'[x].tag = run[x].tag
    BY <1>1, <1>4, <2>1, EndsFields
  <2>3. /\ dir' \in [Dir -> TreeType]
        /\ dir'["runtime"] = dir["runtime"] /\ dir'["old"] = dir["old"]
    BY <1>1, <1>4, DirFacts, TreesMade DEF Types
  <2>4. Types' /\ Newer(x)'
    BY <1>1, <1>4, <2>2, <2>3 DEF Types, Newer
  <2>5. Good(x)'
    BY <2>2 DEF Good, Removal, Upgrading, Away, BeforeSwap
  <2>6. QED
    BY <1>2, <1>4, <2>2, <2>3, <2>4, <2>5, QuietStep
<1>5. QED
  BY <1>3, <1>4 DEF Discard, Ends

(* The record of a launch that crashed. *)
Dead(r) ==
  [r EXCEPT !.pc = "dead", !.rm = NotRemoving,
            !.stranded = @ \/ r.pc \in {"promote", "restore"}]

LEMMA DeadFields ==
  ASSUME NEW r \in RunType
  PROVE  /\ Dead(r) \in RunType /\ Dead(r).pc = "dead" /\ Dead(r).rm = NotRemoving
         /\ Dead(r).version = r.version /\ Dead(r).tag = r.tag
         /\ Dead(r).stranded <=> (r.stranded \/ r.pc \in {"promote", "restore"})
<1>1. PICK s \in BOOLEAN : s = (r.stranded \/ r.pc \in {"promote", "restore"})
  OBVIOUS
<1>2. Dead(r) = [r EXCEPT !.pc = "dead", !.rm = NotRemoving, !.stranded = s]
  BY <1>1 DEF Dead, RunType
<1>3. "dead" \in Pcs /\ NotRemoving \in RmType
  BY RmTypes DEF Pcs
<1>4. Dead(r) \in RunType
  BY <1>2, <1>3 DEF RunType
<1>5. /\ Dead(r).pc = "dead" /\ Dead(r).rm = NotRemoving
      /\ Dead(r).version = r.version /\ Dead(r).tag = r.tag /\ Dead(r).stranded = s
  BY <1>2 DEF RunType
<1>6. QED
  BY <1>1, <1>4, <1>5

LEMMA CrashStep ==
  ASSUME UpInv, NEW x \in Launch, Crash(x)
  PROVE  UpInv'
<1>1. Types
  BY SoloFacts
<1> DEFINE s == run[x].stranded \/ run[x].pc \in {"promote", "restore"}
<1>2. /\ run' = [run EXCEPT ![x] = Dead(run[x])]
      /\ fetching' = [fetching EXCEPT ![x] = {}]
      /\ UNCHANGED <<scenario, dir, etag, released>>
      /\ Fault \/ UNCHANGED faults
  BY <1>1 DEF Crash, Dead, Types
<1>3. /\ run' \in [Launch -> RunType] /\ Others(x)
      /\ (run'[x].stranded <=> s)
      /\ run'[x].pc = "dead" /\ run'[x].rm = NotRemoving
      /\ run'[x].version = run[x].version /\ run'[x].tag = run[x].tag
  BY <1>1, <1>2, DeadFields DEF Types, Others
<1>4. /\ fetching' \in [Launch -> SUBSET Pkg] /\ fetching'[x] = {}
      /\ \A y \in Launch \ {x} : fetching'[y] = fetching[y]
  BY <1>1, <1>2 DEF Types
<1>5. faults' \in 0..MaxFaults
  BY <1>1, <1>2, FaultType DEF Types
<1>6. Types' /\ Newer(x)'
  BY <1>1, <1>2, <1>3, <1>4, <1>5 DEF Types, Newer
<1>7. Good(x)' /\ ~Upgrading(x)'
  BY <1>3 DEF Good, Removal, Upgrading, Away, BeforeSwap
<1>8. QED
  BY <1>2, <1>3, <1>4, <1>6, <1>7, QuietStep

LEMMA RmEntryStep ==
  ASSUME UpInv, NEW x \in Launch, RmEntry(x)
  PROVE  UpInv'
<1>1. /\ Types /\ Newer(x) /\ run[x] \in RunType
      /\ scenario.solo => Good(x) /\ GoodStore
  BY SoloFacts
<1>2. PICK d \in Dir, e \in All :
        /\ run[x].rm.path = d /\ run[x].rm # NotRemoving
        /\ run' \in [Launch -> RunType] /\ Others(x)
        /\ run'[x].pc = run[x].pc /\ run'[x].hurt = run[x].hurt
        /\ run'[x].stranded = run[x].stranded
        /\ run'[x].rm.path = d /\ run'[x].rm.left = run[x].rm.left \ {e}
        /\ run'[x].version = run[x].version /\ run'[x].tag = run[x].tag
        /\ run'[x].prev = run[x].prev /\ run'[x].orphans = run[x].orphans
        /\ dir' \in [Dir -> TreeType] /\ dir'[d].has = dir[d].has \ {e}
        /\ \A c \in Dir \ {d} : dir'[c] = dir[c]
        /\ UNCHANGED <<scenario, etag, released, fetching, faults>>
  BY <1>1, RmEntryFields
<1>3. Types' /\ Newer(x)'
  BY <1>1, <1>2 DEF Types, Newer
<1>4. ASSUME scenario.solo PROVE Upgrading(x) /\ Good(x)' /\ GoodStore'
  <2>1. Upgrading(x) /\ Good(x) /\ Removal(x)
    BY <1>1, <1>2, <1>4 DEF Good
  <2>2. CASE run[x].pc = "clean" /\ d \in run[x].orphans
    <3>1. dir'["runtime"] = dir["runtime"] /\ dir'["old"] = dir["old"]
      BY <1>1, <1>2, <2>2, DirFacts DEF RunType
    <3>2. GoodStore' /\ Live' = Live /\ (Exists("runtime")' <=> Exists("runtime"))
      BY <1>2, <1>4, <2>2, <3>1, StoreKept DEF Others, Away
    <3>3. QED
      BY <1>2, <2>1, <2>2, <3>2 DEF Good, Removal, Upgrading, Away, BeforeSwap
  <2>3. CASE /\ run[x].pc \in {"clear", "drop"} /\ d = "old"
             /\ dir["old"].has \subseteq run[x].rm.left
    <3>1. dir'["runtime"] = dir["runtime"] /\ dir'[x] = dir[x]
      BY <1>2, <2>3, DirFacts
    <3>2. Exists("runtime") /\ Exists("runtime")' /\ Live' = Live
      BY <2>1, <2>3, <3>1 DEF Good, Upgrading, Exists, Live
    <3>3. GoodStore'
      BY <1>1, <1>2, <1>4, <3>1, <3>2 DEF GoodStore
    <3>4. dir'["old"].has \subseteq run'[x].rm.left
      BY <1>2, <2>3
    <3>5. QED
      BY <1>2, <2>1, <2>3, <3>1, <3>2, <3>3, <3>4 DEF Good, Removal, Upgrading, Away, BeforeSwap
  <2>4. CASE run[x].pc = "discard" /\ d = x
    <3>1. dir'["runtime"] = dir["runtime"] /\ dir'["old"] = dir["old"]
      BY <1>2, <2>4, DirFacts
    <3>2. GoodStore' /\ Live' = Live /\ (Exists("runtime")' <=> Exists("runtime"))
      BY <1>2, <1>4, <2>4, <3>1, StoreKept DEF Others, Away
    <3>3. QED
      BY <1>2, <2>1, <2>4, <3>2 DEF Good, Removal, Upgrading, Away, BeforeSwap
  <2>5. QED
    BY <1>2, <2>1, <2>2, <2>3, <2>4 DEF Removal
<1>5. QED
  BY <1>2, <1>3, <1>4, SwapStep

-----------------------------------------------------------------------------
LEMMA StepUpInv ==
  ASSUME UpInv, [Next]_vars
  PROVE  UpInv'
<1>1. CASE UNCHANGED vars
  BY <1>1 DEF vars, UpInv, Types, Newer, Solo, Good, Removal, GoodStore, Upgrading, Live, Exists, Away
<1>2. CASE Publish
  BY <1>2, PublishStep
<1>3. ASSUME NEW x \in Launch, Step(x) PROVE UpInv'
  <2>1. CASE Clean(x) \/ ReadEtag(x) \/ AskTag(x) \/ Manifest(x) \/ Validate(x) \/ Stamp(x)
    BY <2>1, CleanStep, ReadEtagStep, AskTagStep, ManifestStep, ValidateStep, StampStep
  <2>2. CASE \/ ClearBackup(x, "clear", "away") \/ ClearBackup(x, "drop", "store")
             \/ MoveAway(x) \/ Promote(x) \/ StoreEtag(x)
    BY <2>2, ClearBackupStep, MoveAwayStep, PromoteStep, StoreEtagStep
  <2>3. CASE Restore(x) \/ Discard(x) \/ RmEntry(x)
    BY <2>3, RestoreStep, DiscardStep, RmEntryStep
  <2>4. CASE \E p \in Pkg : Extract(x, p)
    BY <2>4, ExtractStep
  <2>5. QED
    BY <1>3, <2>1, <2>2, <2>3, <2>4 DEF Step
<1>4. ASSUME NEW x \in Launch, \/ Start(x) \/ Crash(x) \/ AskFails(x)
                              \/ StepFails(x) \/ RestoreFails(x)
      PROVE  UpInv'
  BY <1>4, StartStep, CrashStep, AskFailsStep, StepFailsStep, RestoreFailsStep
<1>5. ASSUME NEW x \in Launch, NEW p \in Pkg, ExtractFails(x, p) PROVE UpInv'
  BY <1>5, ExtractFailsStep
<1>6. QED
  BY <1>1, <1>2, <1>3, <1>4, <1>5 DEF Next

LEMMA InitUpInv ==
  ASSUME Init
  PROVE  UpInv
<1>1. Idle \in RunType /\ Idle.pc = "idle" /\ Idle.rm = NotRemoving /\ ~Idle.stranded
  BY RmTypes DEF Idle, RunType, Pcs
<1>2. run \in [Launch -> RunType] /\ \A x \in Launch : run[x] = Idle
  BY <1>1 DEF Init
<1>3. 1 \in Release /\ All \in SUBSET All /\ 0 \in 0..MaxFaults
  BY DEF Release
<1>4. /\ dir \in [Dir -> TreeType] /\ dir["runtime"] = Tree(1, All)
  BY <1>3, TreesMade, DirFacts DEF Init, All
<1>5. dir["runtime"].tag = 1 /\ dir["runtime"].has = All /\ dir["runtime"] # Missing
  BY <1>3, <1>4, TreesMade
<1>6. Types /\ \A x \in Launch : Newer(x)
  BY <1>1, <1>2, <1>3, <1>4 DEF Init, Types, Newer
<1>7. GoodStore
  <2>1. Exists("runtime") /\ Complete(dir["runtime"]) /\ Live = 1
    BY <1>5 DEF Exists, Complete, Live, All
  <2>2. etag = 0
    BY DEF Init, None
  <2>3. QED
    BY <2>1, <2>2 DEF GoodStore
<1>8. \A x \in Launch : ~Upgrading(x) /\ Good(x)
  BY <1>1, <1>2 DEF Good, Removal, Upgrading, Away, BeforeSwap
<1>9. QED
  BY <1>6, <1>7, <1>8 DEF UpInv, Solo

(* The launches keep to what UpInv says of them. *)
THEOREM AutoUpgradeInvariant == Spec => []UpInv
<1>1. Init => UpInv
  BY InitUpInv
<1>2. UpInv /\ [Next]_vars => UpInv'
  BY StepUpInv
<1>3. QED
  BY <1>1, <1>2, PTL DEF Spec

LEMMA UpInvTypeOK ==
  ASSUME UpInv
  PROVE  TypeOK
<1>1. ASSUME NEW d \in Dir
      PROVE  dir[d] = Missing \/
               (dir[d].tag \in Release /\ dir[d].has \subseteq Pkg \union {"VERSION"})
  BY DEF UpInv, Types, TreeType, All
<1>2. ASSUME NEW x \in Launch
      PROVE  /\ run[x].pc \in Pcs /\ run[x].orphans \subseteq Launch
             /\ run[x].pc \notin {"idle", "clean", "ask", "done", "dead"} =>
                  run[x].tag > run[x].version
             /\ fetching[x] \subseteq Pkg
  <2>1. run[x] \in RunType /\ Newer(x) /\ fetching[x] \subseteq Pkg
    BY DEF UpInv, Types
  <2>2. QED
    BY <2>1 DEF RunType, Newer
<1>3. QED
  BY <1>1, <1>2 DEF UpInv, Types, TypeOK

(* Every variable keeps its type, and a launch installs only a later       *)
(* version than the one it runs.                                           *)
THEOREM AutoUpgradeTypeOK == Spec => []TypeOK
<1>1. UpInv => TypeOK
  BY UpInvTypeOK
<1>2. QED
  BY <1>1, AutoUpgradeInvariant, PTL

(* autoUpgrade "promotes a fully-formed runtime atomically": whatever      *)
(* fails or is killed, what lies at runtime/ can be run, as long as        *)
(* launches come one after the other.                                      *)
THEOREM AutoUpgradeRuntimeWhole == Spec => []RuntimeWholeIfSolo
<1>1. UpInv => RuntimeWholeIfSolo
  BY DEF UpInv, Solo, GoodStore, RuntimeWholeIfSolo, RuntimeWhole
<1>2. QED
  BY <1>1, AutoUpgradeInvariant, PTL

(* swapRuntime and the catch of autoUpgrade always leave a whole tree at   *)
(* runtime/ or at runtime-old/, and leave runtime/ missing only if they    *)
(* were killed between the two renames or the roll-back failed as well.    *)
THEOREM AutoUpgradeRecoverable == Spec => []Recoverable
<1>1. UpInv => Recoverable
  BY DEF UpInv, Solo, GoodStore, Recoverable, Away
<1>2. QED
  BY <1>1, AutoUpgradeInvariant, PTL

-----------------------------------------------------------------------------
(* How an upgrade ends.  Each step is of one launch ... *)
LEMMA OneMoves ==
  ASSUME Types, NEW y \in Launch,
         \/ Start(y) \/ Step(y) \/ Crash(y) \/ AskFails(y) \/ StepFails(y) \/ RestoreFails(y)
         \/ \E p \in Pkg : ExtractFails(y, p)
  PROVE  Others(y)
<1>1. CASE Start(y) \/ Crash(y) \/ AskFails(y) \/ StepFails(y) \/ RestoreFails(y)
  BY <1>1 DEF Start, Crash, AskFails, StepFails, RestoreFails, Breaks, Others, Types
<1>2. CASE \E p \in Pkg : ExtractFails(y, p)
  BY <1>2 DEF ExtractFails, Breaks, Others, Types
<1>3. CASE Clean(y) \/ RmEntry(y) \/ ClearBackup(y, "clear", "away") \/ ClearBackup(y, "drop", "store")
  BY <1>3 DEF Clean, RmEntry, ClearBackup, RmList, Throws, Others, Types
<1>4. CASE ReadEtag(y) \/ AskTag(y) \/ Manifest(y) \/ Validate(y) \/ Stamp(y)
  BY <1>4 DEF ReadEtag, AskTag, Told, Manifest, Validate, Stamp, Goes, Throws, Others, Types
<1>5. CASE MoveAway(y) \/ Promote(y) \/ StoreEtag(y) \/ Restore(y) \/ Discard(y)
  BY <1>5 DEF MoveAway, Promote, StoreEtag, Restore, Discard, RmList, Goes, Throws, Others, Types
<1>6. CASE \E p \in Pkg : Extract(y, p)
  BY <1>6 DEF Extract, Others
<1>7. QED
  BY <1>1, <1>2, <1>3, <1>4, <1>5, <1>6 DEF Step

(* ... and only the answer to its question, the new etag and the catch     *)
(* end an upgrade.                                                         *)
LEMMA WaysToEnd ==
  ASSUME Types, NEW x \in Launch, Upgrading(x), run'[x].pc \in {"done", "reexec"},
         \/ Start(x) \/ Step(x) \/ Crash(x) \/ AskFails(x) \/ StepFails(x) \/ RestoreFails(x)
         \/ \E p \in Pkg : ExtractFails(x, p)
  PROVE  AskTag(x) \/ AskFails(x) \/ StoreEtag(x) \/ Discard(x) \/ StepFails(x)
<1>1. run[x] \in RunType /\ run[x].pc \notin {"idle", "done", "reexec", "dead"}
  BY DEF Types, Upgrading
<1>2. ASSUME \/ Throws(x) \/ Breaks(x) \/ RmEntry(x) \/ \E d \in Dir : RmList(x, d)
      PROVE  FALSE
  <2>1. run'[x].pc = "restore" \/ run'[x].pc = run[x].pc
    BY <1>2, ThrowsFields, BreaksFields, RmEntryFields, RmListFields
  <2>2. QED
    BY <1>1, <2>1
<1>3. ASSUME NEW from \in Pcs, NEW to \in Pcs \ {"done", "reexec"}, Goes(x, from, to)
      PROVE  FALSE
  BY <1>3, GoesFields
<1>4. ASSUME NEW to \in Pcs \ {"done", "reexec"}, Ends(x, to)
      PROVE  FALSE
  BY <1>4, EndsFields
<1>5. ~Start(x) /\ ~Crash(x) /\ ~RestoreFails(x)
  <2>1. Dead(run[x]).pc = "dead"
    BY <1>1, DeadFields
  <2>2. Crash(x) => run' = [run EXCEPT ![x] = Dead(run[x])]
    BY DEF Crash, Dead, Types
  <2>3. [run[x] EXCEPT !.pc = "discard", !.stranded = TRUE].pc = "discard"
    BY <1>1 DEF RunType
  <2>4. RestoreFails(x) =>
          run' = [run EXCEPT ![x] = [run[x] EXCEPT !.pc = "discard", !.stranded = TRUE]]
    BY DEF RestoreFails, Types
  <2>5. ~Start(x)
    BY <1>1 DEF Start
  <2>6. QED
    BY <1>1, <2>1, <2>2, <2>3, <2>4, <2>5 DEF Types
<1>6. ~RmEntry(x) /\ ~ClearBackup(x, "clear", "away") /\ ~ClearBackup(x, "drop", "store")
  BY <1>2, <1>4, DirFacts DEF ClearBackup, Ends, Pcs
<1>7. ~Manifest(x) /\ ~Validate(x) /\ ~Stamp(x) /\ ~MoveAway(x) /\ ~Promote(x) /\ ~Restore(x)
  BY <1>2, <1>3 DEF Manifest, Validate, Stamp, MoveAway, Promote, Restore, Pcs
<1>8. ~ReadEtag(x)
  <2>1. [run[x] EXCEPT !.pc = "ask", !.prev = etag].pc = "ask"
    BY <1>1 DEF RunType
  <2>2. ReadEtag(x) => run' = [run EXCEPT ![x] = [run[x] EXCEPT !.pc = "ask", !.prev = etag]]
    BY DEF ReadEtag, Types
  <2>3. QED
    BY <2>1, <2>2 DEF Types
<1>9. ~Clean(x)
  <2>1. SUFFICES ASSUME NEW os,
                        run' = [run EXCEPT ![x] =
                                  [run[x] EXCEPT !.rm = NotRemoving, !.orphans = os]]
                 PROVE  FALSE
    BY <1>1, <1>2, DirFacts, ZenonT(40) DEF Clean, Types, RunType
  <2>2. [run[x] EXCEPT !.rm = NotRemoving, !.orphans = os].pc = run[x].pc
    BY <1>1 DEF RunType
  <2>3. QED
    BY <1>1, <2>1, <2>2 DEF Types
<1>10. ASSUME NEW p \in Pkg, Extract(x, p) \/ ExtractFails(x, p) PROVE FALSE
  <2>1. run' = run \/ Breaks(x) \/ run' = [run EXCEPT ![x] = [run[x] EXCEPT !.hurt = TRUE]]
    BY <1>10 DEF Extract, ExtractFails, Types
  <2>2. [run[x] EXCEPT !.hurt = TRUE].pc = run[x].pc
    BY <1>1 DEF RunType
  <2>3. QED
    BY <1>1, <1>2, <2>1, <2>2 DEF Types
<1>11. QED
  BY <1>5, <1>6, <1>7, <1>8, <1>9, <1>10 DEF Step

LEMMA CurrentStep ==
  ASSUME UpInv, UpInv', Next, NEW x \in Launch, scenario.solo,
         Upgrading(x), run'[x].pc \in {"done", "reexec"}, ~run'[x].hurt
  PROVE  Complete(dir'["runtime"]) /\ dir'["runtime"].tag >= run'[x].tag
<1>1. /\ Types /\ run[x] \in RunType /\ Good(x) /\ GoodStore
      /\ run[x].pc \notin {"idle", "done", "reexec", "dead"}
  BY SoloFacts DEF Upgrading
<1>2. AskTag(x) \/ AskFails(x) \/ StoreEtag(x) \/ Discard(x) \/ StepFails(x)
  <2>1. PICK y \in Launch :
          \/ Start(y) \/ Step(y) \/ Crash(y) \/ AskFails(y) \/ StepFails(y) \/ RestoreFails(y)
          \/ \E p \in Pkg : ExtractFails(y, p)
    BY <1>1 DEF Next, Publish
  <2>2. x = y
    BY <1>1, <2>1, OneMoves DEF Others
  <2>3. QED
    BY <1>1, <2>1, <2>2, WaysToEnd
<1>3. CASE AskTag(x)
  <2>1. ~Told(x, "manifest") /\ UNCHANGED dir
    BY <1>1, <1>3, ToldFields DEF AskTag, Pcs
  <2>2. Told(x, "done") /\ (released = run[x].prev \/ released <= run[x].version)
    BY <1>3, <2>1 DEF AskTag
  <2>3. run[x].pc = "ask" /\ run'[x].tag = released
    BY <1>1, <2>2, ToldFields DEF Pcs
  <2>4. Exists("runtime") /\ run[x].version = Live /\ run[x].prev <= Live
    BY <1>1, <2>3 DEF Good, Upgrading, BeforeSwap
  <2>5. Complete(dir["runtime"]) /\ Live = dir["runtime"].tag
    BY <1>1, <2>4 DEF GoodStore, Live
  <2>6. released <= Live /\ released \in Nat /\ Live \in Nat
    BY <1>1, <2>2, <2>4, LiveNat DEF Types, Release
  <2>7. QED
    BY <2>1, <2>3, <2>5, <2>6 DEF Complete
<1>4. CASE AskFails(x)
  <2>1. [run[x] EXCEPT !.pc = "done", !.hurt = TRUE].hurt
    BY <1>1 DEF RunType
  <2>2. run' = [run EXCEPT ![x] = [run[x] EXCEPT !.pc = "done", !.hurt = TRUE]]
    BY <1>1, <1>4 DEF AskFails, Types
  <2>3. QED
    BY <1>1, <2>1, <2>2 DEF Types
<1>5. CASE StoreEtag(x)
  <2>1. run[x].pc = "store" /\ run'[x].tag = run[x].tag /\ UNCHANGED dir
    BY <1>1, <1>5, GoesFields DEF StoreEtag, Pcs
  <2>2. Exists("runtime") /\ dir["runtime"].tag = run[x].tag
    BY <1>1, <2>1 DEF Good, Upgrading
  <2>3. Complete(dir["runtime"]) /\ run[x].tag \in Nat
    BY <1>1, <2>1, <2>2, TagOf DEF GoodStore, Release
  <2>4. QED
    BY <2>1, <2>2, <2>3 DEF Complete
<1>6. CASE Discard(x)
  <2>1. run[x].pc = "discard" /\ run[x].hurt
    BY <1>1, <1>6 DEF Good, Discard
  <2>2. run'[x].hurt = run[x].hurt /\ run'[x].stranded = run[x].stranded
    BY <1>1, <1>6, RmListFields, EndsFields, DirFacts DEF Discard, Ends, Pcs
  <2>3. QED
    BY <2>1, <2>2
<1>7. CASE StepFails(x)
  <2>1. \A r \in RunType : /\ [r EXCEPT !.pc = "reexec", !.hurt = TRUE].hurt
                           /\ [r EXCEPT !.rm = NotRemoving, !.orphans = {}, !.hurt = TRUE].hurt
    BY DEF RunType
  <2>2. \/ Breaks(x)
        \/ run' = [run EXCEPT ![x] = [run[x] EXCEPT !.pc = "reexec", !.hurt = TRUE]]
        \/ run' = [run EXCEPT ![x] =
                     [run[x] EXCEPT !.rm = NotRemoving, !.orphans = {}, !.hurt = TRUE]]
    BY <1>1, <1>7 DEF StepFails, Types
  <2>3. Breaks(x) => run'[x].hurt
    BY <1>1, BreaksFields
  <2>4. QED
    BY <1>1, <2>1, <2>2, <2>3 DEF Types
<1>8. QED
  BY <1>2, <1>3, <1>4, <1>5, <1>6, <1>7

(* A launch that met no fault has the release it was told of, or a later   *)
(* one, when its upgrade ends: neither the stored etag nor what earlier    *)
(* launches left behind holds it back.                                     *)
THEOREM AutoUpgradeLaunchIsCurrent == Spec => LaunchIsCurrent
<1>1. /\ UpInv /\ UpInv' /\ [Next]_vars
      => [\A x \in Launch :
            /\ scenario.solo
            /\ Upgrading(x) /\ run'[x].pc \in {"done", "reexec"}
            /\ ~run'[x].hurt
            => Complete(dir'["runtime"]) /\ dir'["runtime"].tag >= run'[x].tag]_vars
  BY CurrentStep
<1>2. QED
  BY <1>1, AutoUpgradeInvariant, PTL DEF Spec, LaunchIsCurrent
=============================================================================
