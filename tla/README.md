# A TLA+ model of lyy

lyy lets people message each other from their terminals.  A *relay* (Fastify,
Socket.IO, Postgres) stores threads and messages and pushes new ones; every
user runs a *daemon* that keeps a connection to the relay, mirrors the inbox in
local files and serves a Unix socket to the terminal UI, to Claude Code (through
an MCP server) and to the `lyy` command line.

This directory holds TLA+ modules of the parts where something concurrent or
persistent can go wrong, TLC configurations that check them on small instances,
and proofs of the most important properties for every value of the constants.
Source paths below are relative to `src/packages/`.

## The system

| Part | State | Operations | Hard behaviour | Module |
|---|---|---|---|---|
| Relay presence, `relay/src/socket.ts` | `onlinePeerSessions`, the namespace's sockets | connection, disconnect, snapshot and change events | half-open connections, several sessions of one peer, relay restarts | `Presence` |
| Daemon presence, `daemon/src/presence.ts` | the set of online peers | snapshot, change, clear on disconnect | agreement with the relay after any history | `Presence`, `PresenceView` |
| Relay connection, `daemon/src/relay-client.ts` | a Socket.IO socket | connect, re-emit, disconnect | two different events are both emitted as "connected" | `Presence`, `DaemonState` |
| Message router, `daemon/src/router.ts` | none of its own | `handleIncoming` | runs of it overlap each other and the syncs | `DaemonState` |
| State sync, `daemon/src/state-sync.ts` | none of its own | `syncStateFromRelay` | runs twice per connection, fetches from a cursor that moves meanwhile | `DaemonState` |
| Local files, `daemon/src/state.ts`, `pane-inbox.ts` | `state.json`, `inbox/thread-N.jsonl` | read, write, update; append, drain | read-modify-write and read-then-unlink without a lock, crashes | `DaemonState` |
| IPC server, `daemon/src/mcp-ipc.ts` | subscribers, open sockets | one method per tool, pushes | acks race syncs; calls outlive the daemon | `DaemonState`, `TuiStatus`, `TuiApp`, `DaemonLifecycle` |
| Pane registry, `daemon/src/pane-registry.ts` | thread to pane | register (first write wins), unregister, query | shared by two sockets | `DaemonState`, `DaemonLifecycle` (in part) |
| Relay store, `relay/src/routes/*.ts`, `shared/src/repo/*.ts` | Postgres tables | post, list, read, archive, search | seq allocated before commit, duplicate threads | `RelayStore` |
| Pairing, `relay/src/routes/pair.ts`, `cli/src/commands/init.ts`, `repair.ts` | invites, peers, the identity file, Claude's settings | invite, pair, init, repair | one-time codes, lost answers, torn files | `Pairing` |
| Daemon lifecycle, `daemon/src/main.ts`, `cli/src/commands/default.ts`, `doctor.ts` | PID file, two socket files, processes | start, stop, watchdog, ensure running, replace | concurrent launches, unlinking each other's sockets | `DaemonLifecycle` |
| Auto-upgrade, `cli/src/upgrade.ts` | `runtime/`, `runtime-old/`, staging, etag | download, swap, roll back | crash between renames, concurrent launches | `AutoUpgrade` |
| Terminal UI, `tui/src/app.tsx`, `ipc.ts` | view, messages, sockets | subscribe, load, send | results of fetches in any order, reconnects that double | `TuiApp`, `TuiStatus` |
| Text area, `tui/src/text-area.tsx`, `thread-view.tsx` | draft, cursor, undo and redo | every key, submit, suggestion | surrogate pairs, outside changes of the draft | `TextArea` |
| MCP server, other CLI commands | none | one IPC call or file edit each | none of their own | none |

Interaction: the relay pushes `message:new` to the recipients' sockets and the
daemon's router writes the files; every connect event makes the daemon pull the
thread list and missed messages over HTTP; the UI calls the daemon's socket,
which calls the relay over HTTP and updates `state.json`; the presence store
follows the relay's events and is pushed on to the UI; the CLI starts, probes and
replaces daemons through the socket and PID files, and replaces the runtime they
are started from.

What makes each part correct, in short: presence shows exactly the connected
peers; a message a peer has not read is never lost on the way to its pane inbox,
nor counted wrongly; a transaction's messages are never skipped by a cursor; a
code pairs once; one daemon serves a home directory, and a launch that has ended
leaves one serving; an upgrade leaves a runnable runtime; the UI shows the
thread it is on, and the status the daemon has.

## Modules

`Presence` (checked by `MCPresence`, proved about in `PresenceProofs`).  The relay's end of a connection is an element of `live`,
the daemon's end is `sock[d]`, and they fail independently: `ClientLost`,
`RelayLost`, `Stop`, `RelayRestart`.  `Connect` is the relay's whole connection
handler (count, snapshot, change), `RelayLost` its disconnect handler, `Receive`
the daemon's `PresenceStore` handling one event, `CloseClient` its clearing of the
view.  Events of one connection are a queue; what is written to a connection whose
daemon is gone is lost.  Connections are named by `Slot`, two per daemon, which is
what a half-open connection and its successor need.

`PresenceView` is the abstract specification of a `PresenceStore`: nobody is online
until the snapshot of the connection has come, then one peer at a time comes or
goes, and the view is emptied when the connection is lost.  `Presence` implements
it (`ViewsRefine`, an `INSTANCE ... WITH` the phase derived from the socket), and
`TuiStatus` uses it in the store's place, so that the chain relay, daemon, status
bar is covered in two parts.

`DaemonState` (checked by `MCDaemonState`, proved about in
`DaemonStateProofs`).
One peer's relay data (`messages`, `reads`, `archived`, `pushes`), its daemon's
connection (`link`), files (`file` is `state.json`, `inbox` the pane inbox files)
and handlers under way (`routing`, `syncing`, `acking`, `draining`).  A step is the
code from one `await` to the next; `StateStore.update` is two steps, the read that
computes the next state and the rename that installs it, and any other handler may
run between them.  `Connect` and `Hello` are the two events that `RelayClient`
emits as "connected", each of which starts a sync.  `LosePush` is a push that the
relay drops, with or without a connection; those dropped while the connection was
up are kept in `lost`.  `SyncFail` ends a sync of which a request failed; nothing
retries it before the next connection, and the messages that are still missing when
no other sync of the connection is left are kept in `missed`.  The request of an ack
fails in two ways (`AckMark`): the relay has not marked the messages, or it has and
the answer is lost, which puts the thread in `unheard` until the next sync.  A drain
is three steps: it reads the file, unlinks it (`DrainUnlink`, back in
`PaneInbox.drain`), and the IPC server writes the answer (`DrainReturn`), unless the
caller has gone by then.  Lines a drain had in hand when it could not return them,
and lines appended between its read and its unlink, are kept in `spilled`.  `Crash`
ends every handler and keeps the files.  A message is its seq.  One drain and one ack
of a thread run at a time, and an unlink works.

The constant `Overlap` says how the environment behaves.  With TRUE everything
interleaves.  With FALSE peers write, acks start, panes register and threads are archived only
while no handler that writes `state.json` is under way or about to be, and a
connection opens while at most an old sync runs; the two syncs of the connection,
drains, crashes, cuts and failures still interleave with everything.  The difference
between the two is what the missing serialisation of `StateStore.update` costs; see
Findings.

`DaemonLifecycle` (checked by `MCLifecycle`, proved about in
`DaemonLifecycleProofs`).  Daemons and launches of `lyy` are processes of their own, so a step is one file operation, one connection or one
signal.  `Check`, `Lock`, `Clear`, `Bind`, `Record`, `Watch`, `RemovePath` and
`Exit` are `daemon/src/main.ts` from `acquirePidLock` to `shutdown`, with
`PaneRegistry.start` and `McpIpcServer.start`; `Ping` to `Poll` are
`ensureDaemonRunning` in `cli/src/commands/default.ts`; `Stop`, `Upgrade`,
`DoctorReads` and `DoctorKills` are signals, a new runtime and `lyy doctor
--fix-daemons`.  A socket path is named by the daemon whose inode is bound there
and outlives its daemon.  Two facts of the platform are modelled from how the code
relies on them: `listen` fails on a path that exists, and closing a server on a
Unix socket removes its path, whoever has bound it since.  A *scenario*, chosen in
`Init`, says whether launches come one at a time with users acting between them and
with daemons that are ready within the three seconds a launch waits (`solo`), and
whether the home is one of `~/.lyy/profiles` or the default `~/.lyy` (`profile`):
doctor reads the PID files of the profiles only, so in the default home it kills
every daemon.  Also in a solo scenario a launch may begin while a daemon is shutting
down (`Start`); its own daemon then exits on the PID lock, and none is left.  `wanted`
is the version a settled home must serve, and is `None` after such a launch
(`calm`) and once a daemon has been stopped.  A pid is not used twice.

`RelayStore` (checked by `MCRelayStore`, proved about in `RelayStoreProofs`).  A
request is a transaction of POST /messages: `Begin`, `Resolve` (find the active
thread or refuse), `Create`, `Insert` (the INSERT, which takes the seq), `Touch`
(the UPDATE, which takes the row lock), `Commit`, and then `Push`, the broadcast.
A step is one statement in READ COMMITTED, Postgres' default, which the relay does
not change: it sees what was committed before it.  Sequences are outside
transactions and are not rolled back.  `Fetch` is a client that follows a thread
with `GET /messages?sinceSeq`.  The variable `serial` is chosen in `Init` and never
changes: with TRUE a transaction ends before the next begins.

`Pairing` (checked by `MCPairing`, proved about in `PairingProofs`).  The admin's
invite, POST /pair as overlapping transactions with their locks on invites and on
the unique names and addresses, and `lyy init` and `lyy repair` on the person's
machine: the answer with the token, `identity.json`, the merge of lyy's hook into
the groups of `settings.json`, the registration with Claude Code.  A run can be
killed inside a write, which leaves a file that is not JSON; an answer can be lost
after the commit; the person edits the settings between runs.

`AutoUpgrade` (checked by `MCAutoUpgrade`, proved about in `AutoUpgradeProofs`).
Each launch cleans up staging directories older runs left, asks for the newest
release with its etag, downloads the packages in parallel into a staging directory
of its own, stamps and validates it, and swaps it in by two renames with a
roll-back.  `rmSync` is several steps: it lists, removes entry by entry, and fails
if something has been added.  Every file operation can fail: cleaning and storing the
etag ignore it, the try block throws to the catch, and in the catch the rename back
may fail too (`RestoreFails`), while a failing removal ends the process (`Crash`).
`Promise.all` ends at the first failed download while the others run on.  Scenarios
are launches in turn or two at once.  `Upgrade` of `DaemonLifecycle` is a
successful swap of this module.

`TuiStatus` (checked by its own configuration, proved about in `TuiWidgetsProofs`).
The daemon's presence store (as `PresenceView`) and relay flag, the subscribers of the IPC server with the frames under way on each
socket, and `subscribe()` of `tui/src/ipc.ts` with its reconnect timers.  Since a
refused dial emits both "error" and "close", timers and sockets multiply, and the
model has several sockets at once.

`TuiApp` (checked by `MCTuiApp`, proved about in `TuiAppProofs`).  The list, an open thread or the first message to
a peer; `calls` is the sequence of IPC calls under way, each served by the daemon
at one step and answered at another, with what the daemon read or did in between.
`GetMessages`, `GetAck`, `GetNews`, `GetSent` and `GetFirst` are the continuations
after each `await` of `app.tsx`.  A scenario says whether calls are answered in the
order they were made.

`TextArea` (checked by `MCTextArea`, proved about in `TuiWidgetsProofs`).  The draft as a sequence of UTF-16 units, the
cursor, the undo and redo stacks, every key, and the changes `ThreadView` makes to
the draft from outside: cleared on submit, put back when sending fails, replaced by
a suggestion.

Mutant operators (`ChangeUnnamed`, `MergedResetsCursors`, ...) stand beside the
definition they vary; each is a plausible mistake in that code and makes one
property fail.  They are used by nothing else.

## Runs

Times are on two to four cores.  Deadlock is checked only in `text_area`: elsewhere
the bounds are guards, so every model stops when they are used up, and a daemon
with nothing to do really does nothing.

| Run | Configuration | What it shows |
|---|---|---|
| `presence` | `MCPresence.cfg`, 232,000 states, 50 s | The session count is the number of sessions (`SessionCount`); a connected daemon that has handled what was sent to it shows who is online (`Converges`); no change is a repetition (`DeltasAreNews`); views become and stay true once disturbances end (`Truthful`); every store implements `PresenceView` (`ViewsRefine`). |
| `daemon_calm` | `MCDaemonCalm.cfg`, 490,000 states, 160 s | When the writers of `state.json` wait for each other, a crash or cut at any step, failing requests, a lost answer, a dropped push and the two syncs of every connection do no harm: cursors stand at stored messages (`CursorIsStored`), never move back (`CursorAdvances`) and never pass one that is missing (`CursorNeverSkips`); counts come out right (`CountAgrees`, `CountsMatchRelay`), but may be too high until the next sync where an ack's answer was lost; a pane inbox loses a line only when it is appended between a drain's read and its unlink, or when the drain's answer cannot be written (`DrainKeepsAll`, where drains overlap with everything); every unread message arrives or is read (`UnreadArrives`).  `CursorNeverSkips` and `UnreadArrives` make an exception of a push dropped on a working connection, and of what is missing when every sync of a connection has failed. |
| `daemon_backfill` | violation | What the full interleaving costs; see Findings. |
| `lifecycle` | `MCLifecycle.cfg`, 353,000 states, 100 s | Launches in turn: whatever crashed before and whatever files it left, a launch that met no daemon in its shutdown ends with a daemon of its version serving, until somebody stops it, which in the default home doctor does too (`Served`); a running daemon is the one the PID file names (`LockHolderOnly`), so that doctor spares it in a profile's home.  Launches at once, slow daemons, a signal or doctor: a daemon that has lost its socket path ends (`OrphansLeave`). |
| `relay_store` | `MCRelayStore.cfg`, 2.4 million states, 95 s | Nobody sees a thread without its message or its two participants (`ThreadsWhole`); a thread is listed by its latest message in whatever order transactions commit (`LastMessageIsLatest`); with serial transactions a cursor misses nothing (`SinceCompleteIfSerial`) and no second active thread opens (`OneActiveThread`).  That only what is committed is pushed is in `TypeOK`. |
| `relay_since` | violation | With overlapping transactions a cursor does miss messages; see Findings. |
| `pairing` | `MCPairing.cfg`, 195,000 states, 80 s | An invite is consumed exactly when it made a peer, and makes one (`InviteOnce`); an identity names a committed peer and is nobody else's (`IdentityIsOwn`); init and repair, also after a crash, keep the user's hooks and leave one of lyy (`HooksKept`); transactions never wait in a circle (`PairEnds`). |
| `upgrade` | `MCAutoUpgrade.cfg`, 30 s | Launches in turn: `runtime/` is whole (`RuntimeWholeIfSolo`); a whole tree is always there to recover from, and `runtime/` is missing only inside a swap, or after a kill in it or a roll-back that failed as well (`Recoverable`); a launch without a fault ends up to date (`LaunchIsCurrent`).  Two at once: types and versions only. |
| `tui_status` | `MCTuiStatus.cfg`, 80 s | When no frame or socket event is under way the bar shows the truth (`QuietIsTrue`), and it comes to show it once daemon and relay are left alone (`StatusSettles`). |
| `tui_app` | `MCTuiApp.cfg`, 120 s | Nothing is shown that was neither posted nor is being sent, and nothing twice (`NoGhosts`); when calls are answered in order and none fails, the open thread shows all its peer has posted (`SettledShowsAll`); "Loading messages" ends (`LoadingEnds`). |
| `tui_first_send` | violation | The first message to a peer opens a thread the UI does not have; see Findings. |
| `text_area` | `MCTextArea.cfg`, 45 s | No key splits a character or leaves the cursor in one (`KeysKeepGraphemes`); line keys land where rows and columns, counted from the newlines, say (`LineKeys`); undo and redo lose no text but the oldest of a full stack (`NothingUndoneIsLost`). |

### Bounds

- `presence`: two daemons of one peer and one of another are what is needed for a
  count above one and for a bystander.  Two slots per daemon let a half-open
  connection and its successor coexist; three disturbances allow, for instance, a
  lost end, a late disconnect of it and a relay restart.  The proofs have no bound.
- `daemon_calm`: two threads, so that of two parallel fetches one may fail; two
  messages, one of which is missed and the other pushed, or both missed; one cut or
  crash at every step of every handler; two failing requests, so that both syncs of a
  connection can fail; one dropped push; one
  act of the user (ack, drain, pane or archive).  A second connection can find two
  old syncs under way, which is all that `SyncTask` of two can hold.  The state
  constraint `FirstInT1` keeps the behaviours whose first message is in `t1`: the
  specification is symmetric in the threads and no property names one, so every
  behaviour that is cut has a mirror image that is kept, for the liveness property
  too.
- `lifecycle`: in turn, three launches and four acts reach an upgrade, a crash that
  leaves every file behind, a launch that must replace, one that meets a shutdown, and
  doctor; in the default home, where doctor is what differs, three acts.  At once, two
  launches are the least that race, with one act.
- `relay_store`: two overlapping transactions and a third after them, one failure
  or one day without messages; two peers, because a thread has two participants and
  a third peer adds only refusals.  The proofs have no bound.
- `pairing`: two of everything, so that requests can clash on the invite, the name
  or the address alone, one address being spelled in two ways; two runs of init and
  repair, one failure, loss or crash; hooks with the user's commands on both sides
  of an older entry of lyy, and a group of lyy alone.  The proofs have no bound.
- `upgrade`: two releases and two packages, so that one download can fail while
  another runs on; three launches in turn, the third of which meets what two faulty
  ones left; two faults.
- `tui_status`: three sockets, which one refused dial and one stopped daemon lead
  to; three relay events, enough for a connection, its snapshot and a change or a
  loss.
- `tui_app`: in order, one known thread and one to be opened, two messages of peers
  and one of the user, up to three calls under way; in any order, one of each and
  one fault, up to two calls.
- `text_area`: moving in all texts of up to five units of letters, spaces, newlines
  and an emoji, which has every neighbourhood of a pair of units; undo stacks of up
  to two entries with texts of up to three units, which is enough to overflow.

### Fairness

Safety runs use `Spec`, without fairness.

- `Presence!FairSpec`: a running daemon reconnects for ever (`reconnection: true`
  in `relay-client.ts`), delivers what it has received, and either end of a broken
  connection notices in the end (Socket.IO's ping timeout).  Nothing forces a
  stopped daemon to start, nor a working connection to break.
- `DaemonState!FairSpec`: handlers that have begun run on, requests are answered or
  fail, a push arrives or is dropped when there is no connection, and connections
  are made again.  Users, failures, cuts and crashes have no fairness.
- `DaemonLifecycle!FairSpec`: daemons and launches that are running run on, the
  watchdog's `setInterval` fires, and doctor's kill follows its read.  `Start`,
  `Stop` and `Upgrade` have no fairness.
- `Pairing!FairSpec`: statements of a transaction that are not waiting for a lock go
  on, and so does a run of init or repair.
- `TuiStatus!FairSpec`: the event loops of the UI and of a running daemon go on and
  a timer fires.  Nothing starts a daemon or connects it to the relay.
- `TuiApp!FairSpec`: a running daemon serves some call that waits and the UI handles
  some answer that has come.  A call whose daemon has stopped has no answer and no
  fairness.

## Proofs

All theorems hold for every value of the constants that satisfies the named
assumptions.  These only give the constants their types: finite sets of daemons and
slots, `PeerOf` a function, values for "none" (and "me", the user) outside the sets
they stand beside, bounds natural numbers, and texts made of whole characters for
what a terminal sends to the editor.

`PresenceProofs` proves `PresenceTypeOK`, `PresenceSessionCount`,
`PresenceConverges` and `PresenceDeltasAreNews`.  `Converges` is not inductive: it
says what a daemon shows after it has handled its whole queue, and a change
appended to the queue keeps that true, but that the head of the queue is always
news needs the queue to alternate.  `PresenceInv` therefore adds `Alternates`:
every change in a queue says the opposite of what the daemon shows after the
events before it.  `Good(d)` joins the two for one daemon; each action has a lemma
that it keeps `Good(x)` for every `x`.  The session count needs cardinalities of
finite sets only: adding or removing one session.

It also proves `PresenceViewsRefine`: the initial states of `Presence`
map to those of `PresenceView`, and every step maps to a step of one store or to a
stutter.  That a change follows a snapshot is a fact about queues, so `FedInv` adds
to `PresenceInv` that a snapshot can only be the first event of a queue, that a
change names one peer, and that a daemon without a socket shows nobody.

`DaemonStateProofs` proves `DaemonStateCursorIsStored` and
`DaemonStateCountAgrees` for any threads and any number of overlapping handlers.
Neither is inductive, because a handler that has read `state.json` will write what
it computed then, however old.  `FilesInv` says of each handler under way what its
pending write may hold (`GoodWrite`: cursors at kept messages, a total that
agrees), and of a sync under way that each new cursor is at a message that is kept
or still to be appended (`GoodLoad`).  Kept messages only grow, so what was good
stays good (`Grows`); a step of one handler then has to establish its own part
(`LocalStep`).  That is the reason why the interleaving that moves cursors back
cannot move them to a message nobody kept.  `StateTypes` adds the shapes of what
handlers hold; with it follows `DaemonStateTypeOK`.  `DaemonStateDrainKeepsAll`
needs one more fact: what lies in the file when a drain unlinks it is what the drain
has read, but for what was appended since (`DrainInv`).

Its second part proves, for `Overlap = FALSE` and any threads, syncs, messages, cuts
and failures, what the serialisation that the code leaves to its callers would
give: `DaemonCalmCursorNeverSkips`, `DaemonCalmCountsMatchRelay` and the action
property `DaemonCalmCursorAdvances`.  The code does not serialise them, so these are
not claims about every run of it: what overlapping writers do is under Findings.
The syncs of a connection still overlap with each other and with everything that
breaks.  `CalmInv` has four parts.  `OneKind` says which handlers can be under way
together: one push or its router, or one ack, or syncs, and drains with any.
`Caught`: once a sync has finished,
or none is left to come, everything that is missing (`Behind`) is the message now
pushed or being routed.  `CursorsCalm` carries the cursors: nothing in `Behind` lies
below one, and `SyncCalm` says for each sync what it has established by the point it
is at.  Until its write it holds cursors that pass nothing missing and fetches
everything above them; at its write nothing is missing any more, and the new cursors
reach the last message of every thread the relay counts unread.  Two syncs under way
do not disturb each other because both only shrink `Behind`, and the relay stands
still.  `CountsCalm` relates the counts in `state.json`, and those that the router
or the ack is about to write, to the relay's, leaving aside the message on its way;
of a thread in `unheard` it only says that nothing is missing from the count.
`missed` came from this proof: the invariant failed where the last sync of a
connection fails and a later push moves the cursor past what it did not bring,
which the run then showed as well.

`DaemonLifecycleProofs` proves every safety property of `lifecycle`, for any number
of launches and any scenarios: `LifecycleTypeOK`, `LifecycleLockHolderOnly` and
`LifecycleServed`.  `LifeInv` holds in every scenario the types, and that a launch
only ends daemons of another version (`Asked`); in a solo one also `SoloInv`, which
says that two daemons are alive only while one shuts down and the other has yet to
look at the PID file, which will end it (`OneDaemon`), that nobody has undone what
a daemon has done so far (`Sound`: it holds the PID file from its lock on, the paths
it is about to bind are free, `mcp.sock` is its own until it stops), and how far the
launch under way is (`Turn`: while it pings no daemon is booting, `Booted`; when it
spawns, what is alive is shutting down, and is nothing if the launch met no shutdown;
in that case a daemon of its version is up while it polls).  What doctor has read
names every daemon that is alive, in a profile's home (`DoctorSpares`); in the
default home nothing is claimed of it.  `Sound` is what makes the
shutdown of one daemon harmless to the next, and `LastIsUp` is `Served` before the
daemon is ready.  Each step of a daemon, a launch, a user and doctor has its lemma.

`RelayStoreProofs` proves every property of `relay_store`, for any peers and any
number of overlapping transactions.  `StoreInv` adds to them what each transaction
has taken and read (`Request1`, `Request2`): a thread id or a seq belongs to one
request and is not yet in the tables; a row is held by one request, and what it
read of the row under the lock (`last = LastAfter`) is still true at its commit,
which is why `LastMessageIsLatest` survives any order.  `Serially` is what holds
when nothing overlaps: one request works at a time, its seq lies above every
committed one, and what it found when it looked for an active thread is still so,
from which the action property `OneActiveThread` follows.  `Counted` bounds the
sequences by the requests begun, so that the bound of the model is not what makes
ids fit.  Steps before the commit leave the tables alone (`Quiet`) and have to
establish the record of their own request only (`QuietStep`); `Commit` has a lemma
per part.

`PairingProofs` proves every safety property of `pairing`: `PairingTypeOK`,
`PairingInviteOnce`, `PairingIdentityIsOwn` and `PairingHooksKept`, for any persons,
invites, requests, commands and hooks.  `PairInv` joins `DbInv`, about the tables (a
locked invite is unused and has one transaction; uncommitted peers clash with no
committed one and with no other uncommitted one), and `OwnInv`, about tokens: a token
is in one place only, the answer under way, the run that is about to write it, or
one identity file, and always that of a committed peer.  `HooksKept` rests on what
`mergeHooks` computes for any list of groups, whatever lyy left in it before: what
is left when groups are stripped of lyy's commands and empty groups are dropped has
the other commands, all of them and in their order (`RidKeepsMine`), and the one
appended is the only one of lyy (`MergeKeeps`).  The model writes the filters as
concatenations of pieces; `SeqInSet` is the induction over sequences, over a set of
sequences as `InductionOnSet` below is over a set of numbers.

`AutoUpgradeProofs` proves every property of `upgrade`, for any launches, packages,
releases and number of faults.  Nothing is assumed about where a launch fails or is
killed, so `UpInv` has to say what the directories hold at each point: `Good(x)`
follows launch `x` through the swap (what is validated is complete, the backup is
gone before the runtime moves there, nothing is at `runtime/` when the staging
directory is promoted), and `GoodStore` is about the files alone (the runtime is
whole, or the backup is; `runtime/` is missing only because of a launch in a swap or
one that was `stranded` there, `Away`; the stored etag is never newer than the release
that would run, `Live`).  The last part is what makes a 304 harmless: from it follows
`LaunchIsCurrent`, whose lemma `WaysToEnd` shows that only five steps end an
upgrade.  A removal that is not atomic needs its own fact: while nobody adds to a
directory, what is left in it is what is left to remove (`Removal`).  Steps that
leave both trees alone share `QuietStep`, the others `SwapStep`.

`TuiWidgetsProofs` proves `TuiStatusQuietIsTrue`, for any sockets, peers and relay
events and any number of stopped daemons and refused dials.  `StatusInv` says that
the last frame of each kind on the way to any subscriber tells the truth (`Fresh`);
that a bar which does not tell it has something coming that will change it, a frame
(`Coming`), a socket that is still to subscribe and will be seeded (`Unserved`), or a
broken socket whose close will blank the bar and start a timer (`Broken`); and that
the UI never gives up (`Trying`).  A stopped daemon breaks every subscriber at once,
which is why nobody has to know which of several sockets the bar last heard.

`TuiAppProofs` proves `TuiAppNoGhosts` and `TuiAppSettledShowsAll`, for any peers,
posts, sends, faults and calls under way.  `GhostInv` holds in every scenario: a
number the user has sent is on the relay once at most; it belongs to one sending
call, and is not on the relay while that call is only asked and is there once it has
been served; what a fetch has read is on the relay; and a local message that is shown
was posted or is carried by a call, by only one.  `OrderInv` says more
where answers come in order and nothing fails: only the first call is ever served
(`InTurn`); if the list differs from the daemon's, an event is unhandled or a call
that will bring the list is on its way; and if a thread is open, an event is
unhandled, its "message:new" handler is under way, or the last fetch
under way is of that thread and, once served, has all its peer has posted
(`FetchIsOf`).  The filter that drops optimistic messages is written as a recursive
function on prefixes (`Kept`), since the provers know nothing of `SelectSeq`; what it
returns is proved by induction over a set of numbers (`InductionOnSet`, from the
least element of a set), which needs no theorem with an operator as parameter.

`TuiWidgetsProofs` also proves the three properties of `TextArea`, for any texts,
inputs, suggestions and limit of the undo stack: `TextAreaNothingUndoneIsLost`,
`TextAreaKeysKeepGraphemes` and `TextAreaLineKeys`.  `EditorTypes` is the invariant
they need: the cursor may lie outside the text, but not below zero, and the undo and
redo stacks together never exceed the limit, which is why `swap` needs no limit of its
own.  Every key is then one of two things, a commit of one text (`EditIsCommit`) or a
move to one position (`MoveIsMoveTo`), and what is left is about sequences.  Undo and
redo move along the timeline without changing it (`LineShifts`).  Taking characters
out of, or putting them into, a text at two stops leaves it whole.  For the line
keys, a line is what lies between two newlines (`Spans`); its positions are exactly
those of one row (`SpanIsRow`), the nearest to a column is the shorter of the column
and the line (`BesideIs`), and `moveUp`, which takes an empty first line to start at 1
and to have the length -1, still lands at 0.

Only model-checked: every liveness property (`Truthful`, `UnreadArrives`,
`OrphansLeave`, `PairEnds`, `StatusSettles`, `LoadingEnds`), since fairness rests on
ENABLED, which the prover does not handle.  No module declares a RECURSIVE operator.

## Findings

Each is a violation run whose trace was compared with the code.

- `daemon_backfill` (`daemon/src/state-sync.ts:31`): a message pushed after
  connecting moves the cursor before the sync reads it; messages missed while
  offline then lie below the cursor and never reach the pane inbox.
- `relay_since` (`shared/src/repo/messages.ts:37`): seqs are taken before commit, so
  a larger one can become visible first and a `sinceSeq` cursor passes the smaller
  for good.
- `tui_first_send` (`tui/src/app.tsx:279`): after the first message to a peer the UI
  opens the new thread from a `state.json` that does not have it, because the relay
  pushes to the other participants only; it shows "thread not found" until a push
  or a sync brings the thread.

The models show more than the runs ask.  The properties of the passing runs have a
premise, or the scenarios a restriction, where the code does not do better; this is
what lies outside:

- *Daemon files.*  Two handlers that overlap both read `state.json`, and the later
  write restores an older cursor or loses an unread bump (`router.ts:63`;
  `state.ts:64` asks the caller to serialise, no caller does).  A line appended
  between `drain`'s read and its unlink is lost, against "atomically truncate"
  (`pane-inbox.ts:42`, 61), and so are the lines of a drain whose answer is never
  written (`mcp-ipc.ts:145`).  An unlink that fails is ignored, and the same lines are
  returned again.  A request to mark a thread as read whose answer is lost leaves the
  count in `state.json` too high until the next connection (`mcp-ipc.ts:272`).  The two syncs of a connection append the same messages,
  interleaved, against "jsonl order matches relay seq order" (`state-sync.ts:28`,
  `relay-client.ts:41`).  A push dropped on a working connection is never
  backfilled once a later message has moved the cursor (`relay/src/routes/
  messages.ts:115`); nor is what was missing when both syncs of a connection failed
  (`main.ts:150`), which only logs it.
- *Launches.*  The second of two launches at once unlinks the socket that the first
  one's daemon has just bound; its own daemon exits on the PID lock, and the first's
  watchdog ends that one too, so that none is left (`default.ts:180` against
  `108-110`).  A launch that meets a daemon in its shutdown spawns one that exits on
  the PID lock, and none is left either (`main.ts:69`).  `lyy doctor --fix-daemons`
  kills the daemon of the default home, whose PID file is not under `profiles`
  (`doctor.ts:87-91` against `paths.ts:9-10`), and one that starts between its read
  and its kill.
- *Upgrade.*  One launch's cleaning empties the staging directory of another, which
  may already have been validated and is then promoted without some of its packages
  (`upgrade.ts:266` against `262-264`, `315-317`).  A slower, older launch can put
  an older release back, under the newer one's etag.  `runtime-old` and staging
  directories survive some crashes.  If the promoting rename and the rename back both
  fail (`upgrade.ts:336-340`, "best effort"), or a kill comes between the two renames,
  `runtime/` stays missing and the command cannot start again until the backup is
  moved back by hand; the catch is the only code that would.  A staging directory
  that cannot be made or removed ends the launch (`upgrade.ts:295`, 342).
- *Pairing.*  One mailbox can become two peers, spelled in different case
  (`pair.ts:52`).  Whoever loses the answer has used up the invite and has no token.
  The merge of hooks drops the `matcher` of every group (`init.ts:218-222`).  A torn
  identity file is taken for an identity, because only its existence is asked.
  `peers.disabled` is read and never set.  doctor looks for the MCP server in
  `settings.json` (`doctor.ts:186`) while init registers it in `~/.claude.json`.
- *Archive.*  The client sends an archive request with a JSON content type and no
  body (`relay-http.ts:81-84` against `93-109`), which Fastify refuses.
- *Text area.*  On a text that begins with an empty line, Ctrl+A and Down at its
  start do not behave as elsewhere (`text-area.tsx:110-113` against 255).  A draft
  replaced from outside keeps the old cursor, which can then split an emoji; a
  failed send overwrites what was typed since; neither is on the undo stack.
- *Status.*  While no daemon runs every refused dial schedules two more
  (`ipc.ts:110-117`), so sockets double, and `dispose()` clears the last timer only.
- *Views.*  A fetch that answers late overwrites a newer one, so a message of the
  user's own can vanish until the next fetch.  A call whose daemon stops after
  accepting it is never settled (`mcp-ipc.ts:327`).  A call that fails outside a
  `try` ends the program with an unhandled rejection.  The answer to the first
  message to a peer moves the view even if the user has left.

## Not modelled, and why

- In `DaemonState` messages become visible in seq order; `RelayStore` shows what
  happens when they do not.  The router's branch for the peer's own messages is left
  out, because the relay pushes to the other participants only.
- Two writes of `state.json` by one process in one millisecond share a temporary
  file name (`state.ts:59`): the model has no clock that could tell them apart.
- The outbox of `RelayClient`: nothing in the repository calls its `send`.
- The display fields of a thread summary, message bodies, names and times.
- The daemon's archive call changes nothing locally (`ToggleArchive`); it takes the
  relay's endpoint as having worked.
- The pane registry's own protocol and its rule that the first of two panes wins: no
  other package of the repository speaks it.
- In the terminal UI, the selection of a row, the periodic list of peers, and
  Claude's suggestions other than as texts for the editor; in the text area, the
  drawing of the cursor and the clean-up of pasted text.
- Of init, the copies of slash commands and the status line entry, which only ever
  get one value.
- Full-text search and POST /reads by message id (no caller), token checks,
  logging, configuration: no state that interleaves.
- MCP tools, the status line, hooks and the remaining checks of doctor: one IPC
  call, one file read or output only.

## Plan

Left to do, most important first: an
abstract inbox (a map from threads to unread sets) that a calm `DaemonState`
implements, and an append-only log that a serial `RelayStore` implements.
