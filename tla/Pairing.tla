------------------------------ MODULE Pairing ------------------------------
(***************************************************************************)
(* How a person joins: the admin's invite, POST /pair on the relay as      *)
(* overlapping transactions of Postgres (READ COMMITTED), and `lyy init'   *)
(* and `lyy repair' on the person's machine, which write the identity file *)
(* and wire lyy into Claude Code.                                          *)
(*                                                                         *)
(* A transaction's step is one statement.  Names and addresses are unique  *)
(* columns: an INSERT waits for another transaction that has inserted the  *)
(* same value, and fails if that one commits.  An address can be spelled   *)
(* in several ways that differ in case; a mailbox stands for all of them.  *)
(***************************************************************************)
EXTENDS Naturals, Sequences, SequencesExt

CONSTANTS
  Person,         \* machines on which `lyy init' is run
  Code,           \* invite codes
  Name,
  Spelling,       \* addresses as typed
  Mailbox,        \* Mailbox[e] is what toLowerCase makes of address e
  Request,        \* names for POST /pair requests under way
  Command,        \* commands of hooks, those of lyy among them
  Matcher,        \* what a group of hooks may be for
  Edits,          \* what a person may make of the hooks in settings.json
  None,
  MaxRuns,        \* bound: runs of `lyy init' and `lyy repair'
  MaxFaults       \* bound: failures and crashes

(* The hooks of an event come in groups. *)
Group == [matcher : Matcher, hooks : Seq(Command)]

ASSUME PairingAssumption ==
  /\ DOMAIN Mailbox = Spelling
  /\ None \notin Name \union Code \union Person \union Request
  /\ "lyy" \in Command /\ None \in Matcher /\ Edits \subseteq Seq(Group)
  /\ MaxRuns \in Nat /\ MaxFaults \in Nat

VARIABLES
  invites,      \* the table, by code
  peers,        \* the committed rows; `by' is the invite, which is not stored
  req,          \* requests
  cli,          \* runs of init and repair: one per person
  identity,     \* identity.json: a name, None, or Broken
  settings,     \* settings.json: the hooks of one event
  mcp,          \* persons whose Claude Code has the lyy MCP server
  runs, faults

dbVars == <<invites, peers>>
homeVars == <<identity, settings, mcp>>
vars == <<dbVars, req, cli, homeVars, runs, faults>>

(* A write that was cut short leaves a file that is not JSON. *)
Broken == "broken"
Settings(groups) == [json |-> TRUE, groups |-> groups]
Torn == [json |-> FALSE, groups |-> <<>>]

NoRequest == [pc |-> "idle", code |-> None, name |-> None, email |-> None, result |-> None]
Resting == [pc |-> "idle", req |-> None, token |-> None]

Init ==
  /\ invites = [c \in {} |-> None]
  /\ peers = {}
  /\ req = [x \in Request |-> NoRequest]
  /\ cli = [p \in Person |-> Resting]
  /\ identity = [p \in Person |-> None]
  /\ settings \in [Person -> {Settings(groups) : groups \in Edits}]
  /\ mcp = {}
  /\ runs = 0
  /\ faults = 0

Fault == faults < MaxFaults /\ faults' = faults + 1

-----------------------------------------------------------------------------
(* lyy admin invite: the address is stored in lower case. *)
Invite(c, email) ==
  /\ c \notin DOMAIN invites
  /\ invites' = [d \in DOMAIN invites \union {c} |->
       IF d = c THEN [for |-> Mailbox[email], consumed |-> FALSE, expired |-> FALSE]
                ELSE invites[d]]
  /\ UNCHANGED <<peers, req, cli, homeVars, runs, faults>>

Expire(c) ==
  /\ c \in DOMAIN invites
  /\ ~invites[c].expired
  /\ invites' = [invites EXCEPT ![c].expired = TRUE]
  /\ UNCHANGED <<peers, req, cli, homeVars, runs, faults>>

-----------------------------------------------------------------------------
(***************************************************************************)
(* POST /pair                                                              *)
(***************************************************************************)
Moves(x, from, new) == req[x].pc = from /\ req' = [req EXCEPT ![x] = new]

(* The transaction ends without a change; the person hears of it. *)
Refuses(x, from) == Moves(x, from, [req[x] EXCEPT !.pc = "answer"])

(* Mutant of Locked: the row is read without FOR UPDATE. *)
LockedNever(c) == FALSE

(* The row of invite c is locked until the transaction that read it ends. *)
Locked(c) == \E y \in Request : req[y].pc \in {"find", "insert", "commit"} /\ req[y].code = c

Usable(c, email) ==
  /\ c \in DOMAIN invites
  /\ ~invites[c].consumed
  /\ ~invites[c].expired
  /\ invites[c].for = Mailbox[email]

(* SELECT ... FOR UPDATE *)
ReadInvite(x) ==
  LET r == req[x] IN
  /\ ~Locked(r.code)
  /\ \/ Usable(r.code, r.email) /\ Moves(x, "read", [r EXCEPT !.pc = "find"])
     \/ ~Usable(r.code, r.email) /\ Refuses(x, "read")
  /\ UNCHANGED <<dbVars, cli, homeVars, runs, faults>>

(* findPeerByEmail compares the address as it is spelled. *)
FindPeer(x) ==
  LET r == req[x] IN
  /\ \/ /\ \A p \in peers : p.email # r.email
        /\ Moves(x, "find", [r EXCEPT !.pc = "insert"])
     \/ /\ \E p \in peers : p.email = r.email
        /\ Refuses(x, "find")
  /\ UNCHANGED <<dbVars, cli, homeVars, runs, faults>>

Clash(p, r) == p.name = r.name \/ p.email = r.email

(* Mutant of CreatePeer: two that insert the same wait for each other. *)
CreatePeerWaits(x) ==
  LET r == req[x] IN
  /\ \A y \in Request \ {x} : req[y].pc \in {"insert", "commit"} => ~Clash(req[y], r)
  /\ \/ /\ \A p \in peers : ~Clash(p, r)
        /\ Moves(x, "insert", [r EXCEPT !.pc = "commit"])
     \/ /\ \E p \in peers : Clash(p, r)
        /\ Refuses(x, "insert")
  /\ UNCHANGED <<dbVars, cli, homeVars, runs, faults>>

(* Mutant of CreatePeer: only the name is checked. *)
CreatePeerByName(x) ==
  LET r == req[x] IN
  /\ \A p \in peers : p.name # r.name
  /\ Moves(x, "insert", [r EXCEPT !.pc = "commit"])
  /\ UNCHANGED <<dbVars, cli, homeVars, runs, faults>>

(* createPeer: waits for rows not yet committed, fails on a committed one. *)
CreatePeer(x) ==
  LET r == req[x] IN
  /\ \A y \in Request \ {x} : req[y].pc = "commit" => ~Clash(req[y], r)
  /\ \/ /\ \A p \in peers : ~Clash(p, r)
        /\ Moves(x, "insert", [r EXCEPT !.pc = "commit"])
     \/ /\ \E p \in peers : Clash(p, r)
        /\ Refuses(x, "insert")
  /\ UNCHANGED <<dbVars, cli, homeVars, runs, faults>>

Row(r) == [name |-> r.name, email |-> r.email, by |-> r.code]

(* The invite is marked as consumed and the transaction commits. *)
Commit(x) ==
  /\ Moves(x, "commit", [req[x] EXCEPT !.pc = "answer", !.result = req[x].name])
  /\ peers' = peers \union {Row(req[x])}
  /\ invites' = [invites EXCEPT ![req[x].code].consumed = TRUE]
  /\ UNCHANGED <<cli, homeVars, runs, faults>>

(* Mutant of Abort: the answer carries a token all the same. *)
AbortAnswers(x) ==
  /\ Fault
  /\ \E from \in {"read", "find", "insert", "commit"} :
       Moves(x, from, [req[x] EXCEPT !.pc = "answer", !.result = req[x].name])
  /\ UNCHANGED <<dbVars, cli, homeVars, runs>>

(* A statement, or the relay, fails: what the transaction did is undone. *)
Abort(x) ==
  /\ Fault
  /\ \E from \in {"read", "find", "insert", "commit"} : Refuses(x, from)
  /\ UNCHANGED <<dbVars, cli, homeVars, runs>>

-----------------------------------------------------------------------------
(***************************************************************************)
(* lyy init and lyy repair                                                 *)
(***************************************************************************)
Runs(p) == cli[p].pc = "idle" /\ runs < MaxRuns /\ runs' = runs + 1

Goes(p, from, to) == cli[p].pc = from /\ cli' = [cli EXCEPT ![p].pc = to]

StartInit(p, x, c, name, email) ==
  /\ Runs(p)
  /\ Moves(x, "idle", [pc |-> "read", code |-> c, name |-> name, email |-> email,
                       result |-> None])
  /\ cli' = [cli EXCEPT ![p] = [Resting EXCEPT !.pc = "ask", !.req = x]]
  /\ UNCHANGED <<dbVars, homeVars, faults>>

(* The answer reaches the run that asked, if there is one still ... *)
Answer(x) ==
  /\ Moves(x, "answer", NoRequest)
  /\ cli' = [p \in Person |->
       IF cli[p].req # x THEN cli[p]
       ELSE IF req[x].result = None THEN Resting
       ELSE [pc |-> "identity", req |-> None, token |-> req[x].result]]
  /\ UNCHANGED <<dbVars, homeVars, runs, faults>>

(* ... or is lost, and the run ends with an error. *)
LoseAnswer(x) ==
  /\ Fault
  /\ Moves(x, "answer", NoRequest)
  /\ cli' = [p \in Person |-> IF cli[p].req = x THEN Resting ELSE cli[p]]
  /\ UNCHANGED <<dbVars, homeVars, runs>>

WriteIdentity(p) ==
  /\ Goes(p, "identity", "settings")
  /\ identity' = [identity EXCEPT ![p] = cli[p].token]
  /\ UNCHANGED <<dbVars, req, settings, mcp, runs, faults>>

(* repair asks for no more than that the identity file is there. *)
StartRepair(p) ==
  /\ Runs(p)
  /\ identity[p] # None
  /\ Goes(p, "idle", "settings")
  /\ UNCHANGED <<dbVars, req, homeVars, faults>>

(* The commands that lyy has put there, now or as an older version. *)
LyyHooks == {"lyy", "old lyy"}
Mine == Command \ LyyHooks

(* The entries of s that are in C, in order. *)
Only(s, C) == FlattenSeq([i \in DOMAIN s |-> IF s[i] \in C THEN <<s[i]>> ELSE <<>>])

LyyGroup == [matcher |-> None, hooks |-> <<"lyy">>]

(* Mutant of MergeHooks: an older entry of lyy stays. *)
MergeHooksAdds(groups) == Append(groups, LyyGroup)

(* What is left of a group: the entries of lyy go, and the group too if    *)
(* there are no others.  Only `hooks' of a group is kept.                  *)
Stripped(g) ==
  LET hooks == Only(g.hooks, Mine)
  IN  IF hooks = <<>> THEN <<>> ELSE <<[matcher |-> None, hooks |-> hooks]>>

MergeHooks(groups) ==
  Append(FlattenSeq([i \in DOMAIN groups |-> Stripped(groups[i])]), LyyGroup)

(* mergeClaudeSettings: a file that is not JSON ends the run. *)
MergeSettings(p) ==
  /\ \/ /\ settings[p].json
        /\ Goes(p, "settings", "unregister")
        /\ settings' = [settings EXCEPT ![p].groups = MergeHooks(@)]
     \/ /\ ~settings[p].json
        /\ cli[p].pc = "settings"
        /\ cli' = [cli EXCEPT ![p] = Resting]
        /\ UNCHANGED settings
  /\ UNCHANGED <<dbVars, req, identity, mcp, runs, faults>>

(* `claude mcp remove', then `claude mcp add', which may fail. *)
Unregister(p) ==
  /\ Goes(p, "unregister", "register")
  /\ mcp' = mcp \ {p}
  /\ UNCHANGED <<dbVars, req, identity, settings, runs, faults>>

Register(p) ==
  /\ cli[p].pc = "register"
  /\ cli' = [cli EXCEPT ![p] = Resting]
  /\ \/ mcp' = mcp \union {p} /\ UNCHANGED faults
     \/ Fault /\ UNCHANGED mcp
  /\ UNCHANGED <<dbVars, req, identity, settings, runs>>

(* The run is killed; a write under way leaves half a file. *)
Kill(p) ==
  /\ Fault
  /\ cli[p].pc # "idle"
  /\ cli' = [cli EXCEPT ![p] = Resting]
  /\ \/ UNCHANGED <<identity, settings>>
     \/ /\ cli[p].pc = "identity"
        /\ identity' = [identity EXCEPT ![p] = Broken]
        /\ UNCHANGED settings
     \/ /\ cli[p].pc = "settings"
        /\ settings' = [settings EXCEPT ![p] = Torn]
        /\ UNCHANGED identity
  /\ UNCHANGED <<dbVars, req, mcp, runs>>

(* A person edits settings.json, or repairs it. *)
Edit(p) ==
  /\ cli[p].pc = "idle"
  /\ \E groups \in Edits : settings' = [settings EXCEPT ![p] = Settings(groups)]
  /\ UNCHANGED <<dbVars, req, cli, identity, mcp, runs, faults>>

-----------------------------------------------------------------------------
RequestStep(x) == ReadInvite(x) \/ FindPeer(x) \/ CreatePeer(x) \/ Commit(x) \/ Answer(x)

RunStep(p) == WriteIdentity(p) \/ MergeSettings(p) \/ Unregister(p) \/ Register(p)

Next ==
  \/ \E c \in Code : Expire(c) \/ \E e \in Spelling : Invite(c, e)
  \/ \E x \in Request :
       \/ RequestStep(x) \/ Abort(x) \/ LoseAnswer(x)
       \/ \E p \in Person, c \in Code, n \in Name, e \in Spelling : StartInit(p, x, c, n, e)
  \/ \E p \in Person : RunStep(p) \/ StartRepair(p) \/ Kill(p) \/ Edit(p)

Spec == Init /\ [][Next]_vars

(* Fairness: the relay, Postgres and a run that was begun go on. *)
FairSpec ==
  /\ Spec
  /\ \A x \in Request : WF_vars(RequestStep(x))
  /\ \A p \in Person : WF_vars(RunStep(p))

-----------------------------------------------------------------------------
(* Every variable has its type, and no two peers share a name or address. *)
TypeOK ==
  /\ DOMAIN invites \subseteq Code
  /\ \A c \in DOMAIN invites :
       invites[c] \in [for : {Mailbox[e] : e \in Spelling}, consumed : BOOLEAN, expired : BOOLEAN]
  /\ peers \subseteq [name : Name, email : Spelling, by : Code]
  /\ \A p, q \in peers : Clash(p, q) => p = q
  /\ \A x \in Request : req[x].pc \in {"idle", "read", "find", "insert", "commit", "answer"}
  /\ \A p \in Person :
       /\ cli[p].pc \in {"idle", "ask", "identity", "settings", "unregister", "register"}
       /\ identity[p] \in Name \union {None, Broken}
  /\ settings \in [Person -> [json : BOOLEAN, groups : Seq(Group)]]
  /\ mcp \subseteq Person
  /\ runs \in 0..MaxRuns /\ faults \in 0..MaxFaults

(* "Atomic invite consumption + peer creation": an invite is consumed      *)
(* exactly when a peer was created with it, and it creates one at most,    *)
(* whatever requests with it overlap, are repeated or fail half way.       *)
InviteOnce ==
  /\ \A p, q \in peers : p.by = q.by => p = q
  /\ \A c \in DOMAIN invites : invites[c].consumed <=> \E p \in peers : p.by = c

(* Whoever holds a token is a peer of the relay, and no two persons hold   *)
(* that of the same peer: a token is given out after the commit, once.     *)
IdentityIsOwn ==
  \A p \in Person : identity[p] \notin {None, Broken} =>
    /\ \E row \in peers : row.name = identity[p]
    /\ \A q \in Person : identity[q] = identity[p] => q = p

(* The commands of a list of groups, in the order they run. *)
Commands(groups) == FlattenSeq([i \in DOMAIN groups |-> groups[i].hooks])

(* Running init or repair, again or after a crash, keeps every command of  *)
(* the user in its order and leaves exactly one of lyy, the current one.   *)
HooksKept ==
  [][\A p \in Person : MergeSettings(p) /\ settings[p].json =>
       /\ Only(Commands(settings'[p].groups), Mine) = Only(Commands(settings[p].groups), Mine)
       /\ Only(Commands(settings'[p].groups), LyyHooks) = <<"lyy">>]_vars

(* Every request is answered: transactions that wait for each other's rows *)
(* never wait in a circle.                                                 *)
PairEnds == \A x \in Request : (req[x].pc # "idle") ~> (req[x].pc = "idle")

=============================================================================
