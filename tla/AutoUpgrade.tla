---------------------------- MODULE AutoUpgrade ----------------------------
(***************************************************************************)
(* autoUpgrade of the `lyy' command: launches that share ~/.lyy fetch the  *)
(* newest release into a staging directory of their own and rename it to   *)
(* runtime/, with the old tree as runtime-old/ in between.                 *)
(*                                                                         *)
(* Launches are processes, so a step is one file operation or one answer   *)
(* of the network.  rmSync is not atomic: it lists a directory, removes    *)
(* what it listed and then the directory, and fails if that is not empty.  *)
(* A release is a number, its etag the same number.  The program a launch  *)
(* runs lies in the "cli" package of runtime/.                             *)
(***************************************************************************)
EXTENDS Naturals, FiniteSets

CONSTANTS
  Launch,         \* runs of the `lyy' command; each has one staging directory
  Pkg,            \* the packages of a release
  Scenarios,      \* how launches come: those of a run, and whether one starts
                  \* only when no other is upgrading
  MaxReleases,    \* bound: releases ever published
  MaxFaults       \* bound: crashes, failing operations and bad tarballs

ASSUME UpgradeAssumption ==
  /\ "cli" \in Pkg /\ "VERSION" \notin Pkg
  /\ {"runtime", "old", "none"} \cap Launch = {}
  /\ Scenarios \subseteq [launches : SUBSET Launch, solo : BOOLEAN]
  /\ MaxReleases \in Nat \ {0} /\ MaxFaults \in Nat

VARIABLES
  scenario,     \* the one of this run (fixed)
  dir,            \* dir[d]: what directory d holds
  etag,           \* upgrade-etag, None if there is no such file
  released,       \* the newest release
  run,            \* the launches
  fetching,       \* fetching[x]: packages that x is still downloading
  faults

vars == <<scenario, dir, etag, released, run, fetching, faults>>

Dir == {"runtime", "old"} \union Launch
None == 0
Release == 1..MaxReleases

Missing == [tag |-> None, has |-> {}]
Tree(tag, entries) == [tag |-> tag, has |-> entries]
Complete(tree) == tree.has = Pkg \union {"VERSION"}
Exists(d) == dir[d] # Missing

(* Entries that rmSync has listed and has still to remove from `path'. *)
NotRemoving == [path |-> "none", left |-> {}]

(* `hurt' remembers that the launch met a fault, `stranded' that it ended  *)
(* a swap without putting a runtime in place.                              *)
Idle == [pc |-> "idle", version |-> None, prev |-> None, tag |-> None,
         rm |-> NotRemoving, orphans |-> {}, hurt |-> FALSE, stranded |-> FALSE]

Upgrading(x) == run[x].pc \notin {"idle", "done", "reexec", "dead"}

Init ==
  /\ scenario \in Scenarios
  /\ dir = [d \in Dir |-> IF d = "runtime" THEN Tree(1, Pkg \union {"VERSION"}) ELSE Missing]
  /\ etag = None
  /\ released = 1
  /\ run = [x \in Launch |-> Idle]
  /\ fetching = [x \in Launch |-> {}]
  /\ faults = 0

-----------------------------------------------------------------------------
Goes(x, from, to) == run[x].pc = from /\ run' = [run EXCEPT ![x].pc = to]

Fault == faults < MaxFaults /\ faults' = faults + 1

(* Every error between mkdtemp and the end of the swap reaches the catch.  *)
Throws(x) == run' = [run EXCEPT ![x].pc = "restore", ![x].rm = NotRemoving]

(* A fault of launch x that makes it throw. *)
Breaks(x) ==
  /\ Fault
  /\ run' = [run EXCEPT ![x].pc = "restore", ![x].rm = NotRemoving, ![x].hurt = TRUE]

Publish ==
  /\ released < MaxReleases
  /\ released' = released + 1
  /\ UNCHANGED <<scenario, dir, etag, run, fetching, faults>>

(* A launch runs the program in runtime/, and lists the staging            *)
(* directories it will remove as orphans.                                  *)
Start(x) ==
  /\ x \in scenario.launches
  /\ scenario.solo => \A y \in Launch : ~Upgrading(y)
  /\ run[x].pc = "idle"
  /\ "cli" \in dir["runtime"].has
  /\ run' = [run EXCEPT ![x].pc = "clean", ![x].version = dir["runtime"].tag,
                        ![x].orphans = {y \in Launch : Exists(y)}]
  /\ UNCHANGED <<scenario, dir, etag, released, fetching, faults>>

(***************************************************************************)
(* rmSync(d, {recursive, force}), of launch x                              *)
(***************************************************************************)
Removes(x, d) == run[x].rm.path = d

RmList(x, d) ==
  /\ run[x].rm = NotRemoving
  /\ run' = [run EXCEPT ![x].rm = [path |-> d, left |-> dir[d].has]]
  /\ UNCHANGED <<scenario, dir, etag, released, fetching, faults>>

RmEntry(x) ==
  \E d \in Dir, e \in run[x].rm.left :
    /\ Removes(x, d)
    /\ dir' = [dir EXCEPT ![d].has = @ \ {e}]
    /\ run' = [run EXCEPT ![x].rm.left = @ \ {e}]
    /\ UNCHANGED <<scenario, etag, released, fetching, faults>>

(* The directory itself goes, if nothing has been put into it meanwhile. *)
RmEnds(x, d) == Removes(x, d) /\ run[x].rm.left = {} /\ dir[d].has = {}
RmFails(x, d) == Removes(x, d) /\ run[x].rm.left = {} /\ dir[d].has # {}

(* Cleaning, whose errors are ignored. *)
Clean(x) ==
  /\ run[x].pc = "clean"
  /\ \E y \in run[x].orphans :
       \/ RmList(x, y)
       \/ /\ RmEnds(x, y)
          /\ dir' = [dir EXCEPT ![y] = Missing]
          /\ run' = [run EXCEPT ![x].rm = NotRemoving, ![x].orphans = @ \ {y}]
          /\ UNCHANGED <<scenario, etag, released, fetching, faults>>
       \/ /\ RmFails(x, y)
          /\ run' = [run EXCEPT ![x].rm = NotRemoving, ![x].orphans = {}]
          /\ UNCHANGED <<scenario, dir, etag, released, fetching, faults>>

ReadEtag(x) ==
  /\ run[x].pc = "clean" /\ run[x].orphans = {}
  /\ run' = [run EXCEPT ![x].pc = "ask", ![x].prev = etag]
  /\ UNCHANGED <<scenario, dir, etag, released, fetching, faults>>

(* `tag' is the newest release when x asked. *)
Told(x, to) ==
  /\ run[x].pc = "ask"
  /\ run' = [run EXCEPT ![x].pc = to, ![x].tag = released]

(* Mutants of AskTag: any unknown release is installed; the etag is stored *)
(* as soon as it is known.                                                 *)
AskTagAnyNew(x) ==
  /\ Told(x, IF released # run[x].prev THEN "manifest" ELSE "done")
  /\ dir' = [dir EXCEPT ![x] = IF run'[x].pc = "manifest" THEN Tree(released, {}) ELSE @]
  /\ UNCHANGED <<scenario, etag, released, fetching, faults>>

AskTagCaches(x) ==
  /\ Told(x, IF released # run[x].prev /\ released > run[x].version THEN "manifest" ELSE "done")
  /\ etag' = IF released # run[x].prev THEN released ELSE etag
  /\ dir' = [dir EXCEPT ![x] = IF run'[x].pc = "manifest" THEN Tree(released, {}) ELSE @]
  /\ UNCHANGED <<scenario, released, fetching, faults>>

(* fetchLatestTag's answer: 304 when the etag is the newest release's, a   *)
(* tag that is not newer, whose etag is stored, or one that is.            *)
AskTag(x) ==
  LET r == run[x] IN
  /\ \/ /\ released = r.prev
        /\ Told(x, "done")
        /\ UNCHANGED <<dir, etag>>
     \/ /\ released # r.prev /\ released <= r.version
        /\ Told(x, "done")
        /\ etag' = released
        /\ UNCHANGED dir
     \/ /\ released # r.prev /\ released > r.version
        /\ Told(x, "manifest")
        /\ dir' = [dir EXCEPT ![x] = Tree(released, {})]      \* mkdtemp
        /\ UNCHANGED etag
  /\ UNCHANGED <<scenario, released, fetching, faults>>

(* The request fails or times out, or the etag of a release that is not    *)
(* newer cannot be stored: no upgrade this time.                           *)
AskFails(x) ==
  /\ Fault
  /\ run[x].pc = "ask"
  /\ run' = [run EXCEPT ![x].pc = "done", ![x].hurt = TRUE]
  /\ UNCHANGED <<scenario, dir, etag, released, fetching>>

(* What mkdir -p and a write leave in the staging directory of x. *)
Put(x, entries) == [dir EXCEPT ![x] = Tree(run[x].tag, @.has \union entries)]

(* SHA256SUMS.txt arrives, and all downloads begin. *)
Manifest(x) ==
  /\ Goes(x, "manifest", "download")
  /\ dir' = Put(x, {})
  /\ fetching' = [fetching EXCEPT ![x] = Pkg]
  /\ UNCHANGED <<scenario, etag, released, faults>>

(* The launch waits, so that another of its tasks can run. *)
Listens(x) == run[x].pc \in {"download", "done"}

(* A tarball arrives and is extracted, even when the launch has given up   *)
(* since: Promise.all ends with the first failure, the others run on.      *)
Extract(x, p) ==
  /\ Listens(x)
  /\ p \in fetching[x]
  /\ dir' = Put(x, {p})
  /\ fetching' = [fetching EXCEPT ![x] = @ \ {p}]
  /\ UNCHANGED <<scenario, etag, released, run, faults>>

(* A download or its checksum fails, or the tarball lacks the bin. *)
ExtractFails(x, p) ==
  /\ Listens(x)
  /\ p \in fetching[x]
  /\ fetching' = [fetching EXCEPT ![x] = @ \ {p}]
  /\ \/ run[x].pc = "download" /\ Breaks(x)
     \/ Fault /\ run' = [run EXCEPT ![x].hurt = TRUE]
  /\ UNCHANGED <<scenario, dir, etag, released>>

(* Mutant of Validate: the bins are not looked for. *)
ValidateNothing(x) ==
  /\ fetching[x] = {}
  /\ Goes(x, "download", "stamp")
  /\ UNCHANGED <<scenario, dir, etag, released, fetching, faults>>

(* Every required bin is there, or the upgrade is off. *)
Validate(x) ==
  /\ fetching[x] = {}
  /\ run[x].pc = "download"
  /\ \/ Pkg \subseteq dir[x].has /\ Goes(x, "download", "stamp")
     \/ ~(Pkg \subseteq dir[x].has) /\ Throws(x)
  /\ UNCHANGED <<scenario, dir, etag, released, fetching, faults>>

(* VERSION is written into the staging directory, if that is still there. *)
Stamp(x) ==
  /\ run[x].pc = "stamp"
  /\ \/ Exists(x) /\ Goes(x, "stamp", "clear") /\ dir' = Put(x, {"VERSION"})
     \/ ~Exists(x) /\ Throws(x) /\ UNCHANGED dir
  /\ UNCHANGED <<scenario, etag, released, fetching, faults>>

-----------------------------------------------------------------------------
(***************************************************************************)
(* swapRuntime                                                             *)
(***************************************************************************)
(* rename(a, b): fails when a is missing or b has entries. *)
Renamable(a, b) == Exists(a) /\ dir[b].has = {}
Renamed(a, b) == [dir EXCEPT ![b] = dir[a], ![a] = Missing]

(* Removing the backup, before and after the renames. *)
ClearBackup(x, from, to) ==
  /\ run[x].pc = from
  /\ \/ RmList(x, "old")
     \/ /\ RmEnds(x, "old")
        /\ dir' = [dir EXCEPT !["old"] = Missing]
        /\ run' = [run EXCEPT ![x].pc = to, ![x].rm = NotRemoving]
        /\ UNCHANGED <<scenario, etag, released, fetching, faults>>
     \/ /\ RmFails(x, "old")
        /\ Throws(x)
        /\ UNCHANGED <<scenario, dir, etag, released, fetching, faults>>

MoveAway(x) ==
  /\ run[x].pc = "away"
  /\ \/ ~Exists("runtime") /\ Goes(x, "away", "promote") /\ UNCHANGED dir
     \/ /\ Exists("runtime") /\ Renamable("runtime", "old")
        /\ Goes(x, "away", "promote")
        /\ dir' = Renamed("runtime", "old")
     \/ Exists("runtime") /\ ~Renamable("runtime", "old") /\ Throws(x) /\ UNCHANGED dir
  /\ UNCHANGED <<scenario, etag, released, fetching, faults>>

Promote(x) ==
  /\ run[x].pc = "promote"
  /\ \/ Renamable(x, "runtime") /\ Goes(x, "promote", "drop") /\ dir' = Renamed(x, "runtime")
     \/ ~Renamable(x, "runtime") /\ Throws(x) /\ UNCHANGED dir
  /\ UNCHANGED <<scenario, etag, released, fetching, faults>>

(* The new runtime is live: the etag is stored, and the new program run. *)
StoreEtag(x) ==
  /\ Goes(x, "store", "reexec")
  /\ etag' = run[x].tag
  /\ UNCHANGED <<scenario, dir, released, fetching, faults>>

(* A file operation fails: cleaning stops there, an etag is not stored,    *)
(* and what the try block holds throws.  RestoreFails and Crash have the   *)
(* failures inside the catch.                                              *)
StepFails(x) ==
  /\ \/ /\ run[x].pc \in {"manifest", "stamp", "clear", "away", "promote", "drop"}
        /\ Breaks(x)
     \/ /\ run[x].pc = "clean"
        /\ Fault
        /\ run' = [run EXCEPT ![x].rm = NotRemoving, ![x].orphans = {}, ![x].hurt = TRUE]
     \/ /\ run[x].pc = "store"
        /\ Fault
        /\ run' = [run EXCEPT ![x].pc = "reexec", ![x].hurt = TRUE]
  /\ UNCHANGED <<scenario, dir, etag, released, fetching>>

(* Mutant of Restore: nothing is put back. *)
RestoreNothing(x) ==
  /\ Goes(x, "restore", "discard")
  /\ UNCHANGED <<scenario, dir, etag, released, fetching, faults>>

(* The catch: the backup goes back if the runtime is missing, ... *)
Displaced == Exists("old") /\ ~Exists("runtime")

Restore(x) ==
  /\ Goes(x, "restore", "discard")
  /\ dir' = IF Displaced THEN Renamed("old", "runtime") ELSE dir
  /\ UNCHANGED <<scenario, etag, released, fetching, faults>>

(* ... or does not, when that rename fails as well: "best effort" ... *)
RestoreFails(x) ==
  /\ run[x].pc = "restore" /\ Displaced
  /\ Fault
  /\ run' = [run EXCEPT ![x].pc = "discard", ![x].stranded = TRUE]
  /\ UNCHANGED <<scenario, dir, etag, released, fetching>>

(* ... and the staging directory is removed. *)
Discard(x) ==
  /\ run[x].pc = "discard"
  /\ \/ RmList(x, x)
     \/ /\ RmEnds(x, x)
        /\ dir' = [dir EXCEPT ![x] = Missing]
        /\ run' = [run EXCEPT ![x].pc = "done", ![x].rm = NotRemoving]
        /\ UNCHANGED <<scenario, etag, released, fetching, faults>>

(* The process is killed, or ends with its terminal, or with an error that *)
(* nothing catches: mkdtemp fails, or the removal in the catch does.       *)
Crash(x) ==
  /\ run[x].pc \notin {"idle", "dead"}
  /\ \/ Upgrading(x) /\ Fault
     \/ ~Upgrading(x) /\ UNCHANGED faults
  /\ run' = [run EXCEPT ![x].pc = "dead", ![x].rm = NotRemoving,
                        ![x].stranded = @ \/ run[x].pc \in {"promote", "restore"}]
  /\ fetching' = [fetching EXCEPT ![x] = {}]
  /\ UNCHANGED <<scenario, dir, etag, released>>

-----------------------------------------------------------------------------
Step(x) ==
  \/ Clean(x) \/ ReadEtag(x) \/ AskTag(x) \/ Manifest(x) \/ Validate(x) \/ Stamp(x)
  \/ ClearBackup(x, "clear", "away") \/ MoveAway(x) \/ Promote(x)
  \/ ClearBackup(x, "drop", "store") \/ StoreEtag(x)
  \/ Restore(x) \/ Discard(x) \/ RmEntry(x)
  \/ \E p \in Pkg : Extract(x, p)

Next ==
  \/ Publish
  \/ \E x \in Launch :
       \/ Start(x) \/ Step(x) \/ Crash(x) \/ AskFails(x) \/ StepFails(x) \/ RestoreFails(x)
       \/ \E p \in Pkg : ExtractFails(x, p)

Spec == Init /\ [][Next]_vars
FairSpec == Spec /\ \A x \in Launch : WF_vars(Step(x))

-----------------------------------------------------------------------------
Pcs == {"idle", "clean", "ask", "manifest", "download", "stamp", "clear", "away",
        "promote", "drop", "store", "reexec", "restore", "discard", "done", "dead"}

(* Every variable has its type, and a launch that has anything to install  *)
(* installs a later version than its own.                                  *)
TypeOK ==
  /\ scenario \in Scenarios
  /\ \A d \in Dir : dir[d] = Missing \/
       (dir[d].tag \in Release /\ dir[d].has \subseteq Pkg \union {"VERSION"})
  /\ etag \in Release \union {None} /\ released \in Release
  /\ \A x \in Launch :
       /\ run[x].pc \in Pcs
       /\ run[x].orphans \subseteq Launch
       /\ run[x].pc \notin {"idle", "clean", "ask", "done", "dead"} => run[x].tag > run[x].version
       /\ fetching[x] \subseteq Pkg
  /\ faults \in 0..MaxFaults

(* What lies at runtime/ can be run: every bin and the VERSION file are    *)
(* there, whatever failed or was killed before: "promotes a fully-formed   *)
(* runtime atomically".                                                    *)
RuntimeWhole == Exists("runtime") => Complete(dir["runtime"])

RuntimeWholeIfSolo == scenario.solo => RuntimeWhole

(* A whole tree is always at runtime/ or, for a manual recovery, at        *)
(* runtime-old/; and runtime/ is missing only inside a swap or after a     *)
(* launch that was killed there, or whose roll-back failed as well: "so we *)
(* don't leave the install unusable" (upgrade.ts:253-256).                 *)
Recoverable ==
  scenario.solo =>
    /\ Complete(dir["runtime"]) \/ Complete(dir["old"])
    /\ ~Exists("runtime") =>
         \E x \in Launch : run[x].pc \in {"promote", "restore"} \/ run[x].stranded

(* A launch that met no fault ends with a runtime as new as the release it *)
(* was told of, or that a 304 stood for: what earlier launches left behind *)
(* and the etag they stored never keep it on an old version.               *)
LaunchIsCurrent ==
  [][\A x \in Launch :
       /\ scenario.solo
       /\ Upgrading(x) /\ run'[x].pc \in {"done", "reexec"}
       /\ ~run'[x].hurt
       => Complete(dir'["runtime"]) /\ dir'["runtime"].tag >= run'[x].tag]_vars

=============================================================================
