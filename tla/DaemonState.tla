---------------------------- MODULE DaemonState ----------------------------
(***************************************************************************)
(* One daemon's local copy of its peer's inbox: state.json (StateStore),   *)
(* the per-thread pane inbox files (PaneInbox), and the handlers that      *)
(* write them -- MessageRouter for pushed messages, syncStateFromRelay on  *)
(* every "connected" event, ack_thread_read and drain_pane_inbox for IPC   *)
(* clients -- with the part of the relay they talk to.                     *)
(*                                                                         *)
(* Every handler is asynchronous and nothing serialises them: between two  *)
(* awaits of one, any step of another may run.  A step below is the code   *)
(* from one await to the next; a file is read or replaced (rename) in one  *)
(* step, and StateStore.update is two of them, the read and the write.     *)
(*                                                                         *)
(* A message is named by its seq.  The relay pushes a message only to the  *)
(* peers that did not send it, so the router's branch for own messages is  *)
(* left out; own messages do come back from GET /messages.                 *)
(***************************************************************************)
EXTENDS Naturals, Sequences, FiniteSets

CONSTANTS
  Thread,           \* the threads this peer takes part in
  SyncTask,         \* names for runs of syncStateFromRelay under way
  Overlap,          \* may handlers that write state.json overlap?
  MaxMessages,      \* bound: messages ever sent
  MaxCuts,          \* bound: disconnects and daemon crashes
  MaxFailures,      \* bound: HTTP requests that fail
  MaxLost,          \* bound: pushes lost while the connection is up
  MaxActs           \* bound: things the user does (ack, pane, archive)

ASSUME DaemonStateAssumption ==
  /\ IsFiniteSet(Thread)
  /\ Overlap \in BOOLEAN
  /\ {MaxMessages, MaxCuts, MaxFailures, MaxLost, MaxActs} \subseteq Nat

VARIABLES
  \* the relay
  messages,     \* messages[s] is the message with seq s
  reads,        \* seqs this peer has a message_reads row for
  archived,     \* threads this peer has archived
  pushes,       \* message:new events not yet handled, emitted or still to be
  \* the connection
  link,         \* "down", "open" (hello not yet received) or "up"
  \* the daemon's files
  file,         \* state.json
  inbox,        \* inbox/thread-<id>.jsonl, as seqs
  \* the daemon's memory
  panes,        \* threads with a registered pane
  routing,      \* runs of handleIncoming
  syncing,      \* runs of syncStateFromRelay
  acking,       \* runs of ack_thread_read
  draining,     \* runs of drain_pane_inbox
  \* history
  stored,       \* messages that were appended to a pane inbox at some time
  shown,        \* messages a drain has returned to its caller
  spilled,      \* messages appended while a drain was about to unlink, or
                \* read by a drain that could not return them
  unheard,      \* threads marked as read by an ack whose answer was lost
  muted,        \* messages the router counted as read because a pane was open
  synced,       \* a sync has finished since the connection was opened
  missed,       \* unread messages not on disk when the last sync of a
                \* connection failed
  cuts, failures, acts,         \* counters of the bounds
  lost          \* messages whose push was lost while the connection was up

relayVars == <<messages, reads, archived, pushes>>
fileVars == <<file, inbox>>
taskVars == <<routing, syncing, acking, draining>>
ghostVars == <<stored, shown, spilled, unheard, muted, synced, missed>>
boundVars == <<cuts, failures, lost, acts>>
vars == <<relayVars, link, fileVars, panes, taskVars, ghostVars, boundVars>>

Message == [thread : Thread, mine : BOOLEAN]
Seq1 == 1..MaxMessages

Foreign == {s \in DOMAIN messages : ~messages[s].mine}
InThread(t) == {s \in DOMAIN messages : messages[s].thread = t}
Unread(t) == (InThread(t) \intersect Foreign) \ reads

Larger(a, b) == IF a > b THEN a ELSE b

-----------------------------------------------------------------------------
(***************************************************************************)
(* state.json.  A thread summary is kept to what is counted; the display   *)
(* fields are left out.  lastSeen is 0 where the record has no entry.      *)
(***************************************************************************)
Summary == [unread : Nat, archived : BOOLEAN]

(* The sum of the unread counts: as many as there are pairs of an active   *)
(* thread and a number up to its count.                                    *)
Total(threads) ==
  LET active == {t \in DOMAIN threads : ~threads[t].archived}
  IN  Cardinality(UNION {{t} \X (1..threads[t].unread) : t \in active})

EmptyState ==
  [threads |-> [t \in {} |-> [unread |-> 0, archived |-> FALSE]],
   lastSeen |-> [t \in Thread |-> 0],
   unreadCount |-> 0]

(* A summary list after one more message in t: n says whether it counts. *)
Bump(threads, t, n) ==
  [x \in DOMAIN threads \union {t} |->
     IF x # t THEN threads[x]
     ELSE IF t \in DOMAIN threads
       THEN [threads[t] EXCEPT !.unread = @ + n]
       ELSE [unread |-> n, archived |-> FALSE]]

(* The router's state.update: advance the cursor, bump or add the thread. *)
Routed(s, m, paneOpen) ==
  LET t       == messages[m].thread
      threads == Bump(s.threads, t, IF paneOpen THEN 0 ELSE 1)
  IN  [threads     |-> threads,
       lastSeen    |-> [s.lastSeen EXCEPT ![t] = Larger(@, m)],
       unreadCount |-> Total(threads)]

(* Mutants of Merged: the cursors already stored are forgotten; those of   *)
(* threads without a backfill are reset.                                   *)
MergedOnlyBackfill(s, list, backfill) ==
  [threads |-> list, lastSeen |-> backfill, unreadCount |-> Total(list)]

MergedResetsCursors(s, list, backfill) ==
  [threads     |-> list,
   lastSeen    |-> [t \in Thread |-> IF t \in DOMAIN backfill THEN backfill[t] ELSE 0],
   unreadCount |-> Total(list)]

(* The sync's state.update: the relay's list replaces the threads, the     *)
(* cursors of the backfilled threads are overwritten.                      *)
Merged(s, list, backfill) ==
  [threads     |-> list,
   lastSeen    |-> [t \in Thread |-> IF t \in DOMAIN backfill THEN backfill[t]
                                                             ELSE s.lastSeen[t]],
   unreadCount |-> Total(list)]

(* Mutant of Acked: the total is not recomputed. *)
AckedKeepsTotal(s, t) ==
  [s EXCEPT !.threads = [x \in DOMAIN s.threads |->
     IF x = t THEN [s.threads[x] EXCEPT !.unread = 0] ELSE s.threads[x]]]

(* The ack's state.update. *)
Acked(s, t) ==
  LET threads == [x \in DOMAIN s.threads |->
                    IF x = t THEN [s.threads[x] EXCEPT !.unread = 0]
                             ELSE s.threads[x]]
  IN  [threads     |-> threads,
       lastSeen    |-> s.lastSeen,
       unreadCount |-> Total(threads)]

(* GET /threads?includeArchived=true *)
Listing ==
  [t \in {x \in Thread : InThread(x) # {}} |->
     [unread |-> Cardinality(Unread(t)), archived |-> t \in archived]]

-----------------------------------------------------------------------------
(***************************************************************************)
(* Tasks under way.  A `write' task has computed the state it will rename  *)
(* into place from what it read.                                           *)
(***************************************************************************)
NoTask == [pc |-> "idle"]

Loading == [pc |-> "load", loaded |-> {}, list |-> <<>>, since |-> <<>>,
            backfill |-> <<>>, todo |-> {}]

Writing(next) == [pc |-> "write", next |-> next]

(* No writer of state.json is under way but perhaps a sync. *)
Quiet ==
  /\ pushes = {}
  /\ routing = [m \in Seq1 |-> NoTask]
  /\ acking = [t \in Thread |-> NoTask]

Idle == Quiet /\ syncing = [i \in SyncTask |-> NoTask]

(* StateStore leaves it to its callers that updates do not overlap, and    *)
(* none of them sees to it.  With Overlap, as in the code, peers and the   *)
(* user act and connections open whenever they like.  Without, what makes  *)
(* router and ack write state.json arrives only while nothing else is      *)
(* about to, and a connection opens only while at most an old sync is      *)
(* under way; its own two syncs overlap, and drains overlap with anything. *)
Stimulus == Overlap \/ (Idle /\ link # "open")

Cut == cuts < MaxCuts /\ cuts' = cuts + 1
Fail == failures < MaxFailures /\ failures' = failures + 1
Act == acts < MaxActs /\ acts' = acts + 1
UserActs == Stimulus /\ Act

Init ==
  /\ messages = <<>>
  /\ reads = {}
  /\ archived = {}
  /\ pushes = {}
  /\ link = "down"
  /\ file = EmptyState
  /\ inbox = [t \in Thread |-> <<>>]
  /\ panes = {}
  /\ routing = [m \in Seq1 |-> NoTask]
  /\ syncing = [i \in SyncTask |-> NoTask]
  /\ acking = [t \in Thread |-> NoTask]
  /\ draining = [t \in Thread |-> NoTask]
  /\ stored = {}
  /\ shown = {}
  /\ spilled = {}
  /\ unheard = {}
  /\ muted = {}
  /\ synced = FALSE
  /\ missed = {}
  /\ cuts = 0
  /\ failures = 0
  /\ lost = {}
  /\ acts = 0

-----------------------------------------------------------------------------
(* POST /messages commits, by this peer or by another participant; only    *)
(* the other participants are pushed to.                                   *)
Post(t, mine) ==
  /\ Stimulus
  /\ Len(messages) < MaxMessages
  /\ messages' = Append(messages, [thread |-> t, mine |-> mine])
  /\ pushes' = IF mine THEN pushes ELSE pushes \union {Len(messages) + 1}
  /\ UNCHANGED <<reads, archived, link, fileVars, panes, taskVars, ghostVars, boundVars>>

(* A push emitted to a room without a socket, or cut with its connection,  *)
(* or whose metadata lookup failed, is gone: the relay does not retry, and *)
(* the daemon is behind until its next sync.                               *)
LosePush(m) ==
  /\ m \in pushes
  /\ pushes' = pushes \ {m}
  /\ \/ /\ link = "down"
        /\ UNCHANGED <<lost, synced>>
     \/ /\ link # "down"
        /\ Cardinality(lost) < MaxLost
        /\ lost' = lost \union {m}
        /\ synced' = FALSE
  /\ UNCHANGED <<messages, reads, archived, link, fileVars, panes, taskVars,
                 stored, shown, spilled, unheard, muted, missed, cuts, failures, acts>>

(* Mutant of StartSync: nobody listens to "connected". *)
StartNoSync(i) == syncing[i].pc = "idle" /\ UNCHANGED syncing

(* A free sync task starts: a "connected" event of RelayClient. *)
StartSync(i) ==
  /\ syncing[i].pc = "idle"
  /\ syncing' = [syncing EXCEPT ![i] = Loading]

(* The transport connects: RelayClient's own "connected". *)
Connect(i) ==
  /\ link = "down"
  /\ Overlap \/ Quiet
  /\ link' = "open"
  /\ synced' = FALSE
  /\ StartSync(i)
  /\ UNCHANGED <<relayVars, fileVars, panes, routing, acking, draining,
                 stored, shown, spilled, unheard, muted, missed, boundVars>>

(* The relay's "connected" event arrives and is re-emitted under the same  *)
(* name: a second sync.                                                    *)
Hello(i) ==
  /\ link = "open"
  /\ link' = "up"
  /\ StartSync(i)
  /\ UNCHANGED <<relayVars, fileVars, panes, routing, acking, draining,
                 ghostVars, boundVars>>

(* The connection drops; the daemon's handlers run on. *)
Disconnect ==
  /\ link # "down"
  /\ Cut
  /\ link' = "down"
  /\ UNCHANGED <<relayVars, fileVars, panes, taskVars, ghostVars, failures, lost, acts>>

(* What a drain has read and unlinked but not yet returned. *)
InHand(t) == IF draining[t].pc = "return" THEN {draining[t].entries[i] : i \in DOMAIN draining[t].entries}
                                          ELSE {}

(* The daemon dies, or is stopped, and starts again: files stay. *)
Crash ==
  /\ Cut
  /\ link' = "down"
  /\ panes' = {}
  /\ routing' = [m \in Seq1 |-> NoTask]
  /\ syncing' = [i \in SyncTask |-> NoTask]
  /\ acking' = [t \in Thread |-> NoTask]
  /\ draining' = [t \in Thread |-> NoTask]
  /\ spilled' = spilled \union UNION {InHand(t) : t \in Thread}
  /\ UNCHANGED <<relayVars, fileVars, stored, shown, unheard, muted, synced, missed,
                 failures, lost, acts>>

-----------------------------------------------------------------------------
(* MessageRouter.handleIncoming, up to its first await. *)
RouteStart(m) ==
  /\ link = "up"
  /\ m \in pushes
  /\ pushes' = pushes \ {m}
  /\ routing' = [routing EXCEPT
       ![m] = [pc |-> "append", paneOpen |-> messages[m].thread \in panes]]
  /\ UNCHANGED <<messages, reads, archived, link, fileVars, panes, syncing,
                 acking, draining, ghostVars, boundVars>>

(* Mutant of AppendToInbox: only an open pane's file is written, as the    *)
(* router's comment has it.                                                *)
AppendIfPaneOpen(m) ==
  IF messages[m].thread \in panes
    THEN /\ inbox' = [inbox EXCEPT ![messages[m].thread] = Append(@, m)]
         /\ stored' = stored \union {m}
         /\ UNCHANGED spilled
    ELSE UNCHANGED <<inbox, stored, spilled>>

(* Mutant of AppendToInbox: the file is written, not appended to. *)
AppendOverwrites(m) ==
  /\ inbox' = [inbox EXCEPT ![messages[m].thread] = <<m>>]
  /\ stored' = stored \union {m}
  /\ UNCHANGED spilled

AppendToInbox(m) ==
  /\ inbox' = [inbox EXCEPT ![messages[m].thread] = Append(@, m)]
  /\ stored' = stored \union {m}
  /\ spilled' = IF draining[messages[m].thread].pc = "unlink" THEN spilled \union {m} ELSE spilled

RouteAppend(m) ==
  /\ routing[m].pc = "append"
  /\ AppendToInbox(m)
  /\ routing' = [routing EXCEPT ![m].pc = "update"]
  /\ UNCHANGED <<relayVars, link, file, panes, syncing, acking, draining,
                 shown, unheard, muted, synced, missed, boundVars>>

RouteUpdate(m) ==
  /\ routing[m].pc = "update"
  /\ routing' = [routing EXCEPT ![m] = Writing(Routed(file, m, routing[m].paneOpen))]
  /\ muted' = IF routing[m].paneOpen THEN muted \union {m} ELSE muted
  /\ UNCHANGED <<relayVars, link, fileVars, panes, syncing, acking, draining,
                 stored, shown, spilled, unheard, synced, missed, boundVars>>

RouteWrite(m) ==
  /\ routing[m].pc = "write"
  /\ file' = routing[m].next
  /\ routing' = [routing EXCEPT ![m] = NoTask]
  /\ UNCHANGED <<relayVars, link, inbox, panes, syncing, acking, draining,
                 ghostVars, boundVars>>

-----------------------------------------------------------------------------
(* The three parallel loads of syncStateFromRelay; the peer list only      *)
(* names threads and is left out.                                          *)
SyncList(i) ==
  /\ syncing[i].pc = "load"
  /\ "list" \notin syncing[i].loaded
  /\ syncing' = [syncing EXCEPT ![i].list = Listing,
                                ![i].loaded = @ \union {"list"}]
  /\ UNCHANGED <<relayVars, link, fileVars, panes, routing, acking, draining,
                 ghostVars, boundVars>>

SyncRead(i) ==
  /\ syncing[i].pc = "load"
  /\ "state" \notin syncing[i].loaded
  /\ syncing' = [syncing EXCEPT ![i].since = file.lastSeen,
                                ![i].loaded = @ \union {"state"}]
  /\ UNCHANGED <<relayVars, link, fileVars, panes, routing, acking, draining,
                 ghostVars, boundVars>>

Loaded(i) == syncing[i].pc = "load" /\ syncing[i].loaded = {"list", "state"}

(* Mutant of ToFetch: an off-by-one. *)
ToFetchAboveOne(i) == {t \in DOMAIN syncing[i].list : syncing[i].list[t].unread > 1}

(* Threads whose messages are fetched: those the list says are unread. *)
ToFetch(i) == {t \in DOMAIN syncing[i].list : syncing[i].list[t].unread > 0}

(* One of the parallel GET /messages requests: everything after the cursor *)
(* read above, own messages included in the new cursor but not stored.     *)
SyncFetch(i, t) ==
  /\ Loaded(i)
  /\ t \in ToFetch(i) \ DOMAIN syncing[i].backfill
  /\ LET since   == syncing[i].since[t]
         fetched == {s \in InThread(t) : s > since}
     IN  \E maxSeq \in fetched \union {since} :
           /\ \A s \in fetched : s <= maxSeq
           /\ syncing' = [syncing EXCEPT
                ![i].backfill = [x \in DOMAIN @ \union {t} |->
                                   IF x = t THEN maxSeq ELSE @[x]],
                ![i].todo = @ \union (fetched \intersect Foreign)]
  /\ UNCHANGED <<relayVars, link, fileVars, panes, routing, acking, draining,
                 ghostVars, boundVars>>

Fetched(i) == Loaded(i) /\ DOMAIN syncing[i].backfill = ToFetch(i)

(* The appends, in seq order within a thread. *)
SyncAppend(i, m) ==
  /\ Fetched(i)
  /\ m \in syncing[i].todo
  /\ \A s \in syncing[i].todo : messages[s].thread = messages[m].thread => m <= s
  /\ AppendToInbox(m)
  /\ syncing' = [syncing EXCEPT ![i].todo = @ \ {m}]
  /\ UNCHANGED <<relayVars, link, file, panes, routing, acking, draining,
                 shown, unheard, muted, synced, missed, boundVars>>

(* Mutant of SyncUpdate: the appends are not awaited. *)
SyncUpdateEarly(i) ==
  /\ Fetched(i)
  /\ syncing' = [syncing EXCEPT
       ![i] = Writing(Merged(file, syncing[i].list, syncing[i].backfill))]
  /\ UNCHANGED <<relayVars, link, fileVars, panes, routing, acking, draining,
                 ghostVars, boundVars>>

SyncUpdate(i) ==
  /\ Fetched(i)
  /\ syncing[i].todo = {}
  /\ syncing' = [syncing EXCEPT
       ![i] = Writing(Merged(file, syncing[i].list, syncing[i].backfill))]
  /\ UNCHANGED <<relayVars, link, fileVars, panes, routing, acking, draining,
                 ghostVars, boundVars>>

SyncWrite(i) ==
  /\ syncing[i].pc = "write"
  /\ file' = syncing[i].next
  /\ syncing' = [syncing EXCEPT ![i] = NoTask]
  /\ synced' = (link # "down")
  /\ unheard' = {}
  /\ UNCHANGED <<relayVars, link, inbox, panes, routing, acking, draining,
                 stored, shown, spilled, muted, missed, boundVars>>

(* No other sync is under way and none has finished since the connection   *)
(* was opened.                                                             *)
LastSync(i) ==
  link = "up" /\ ~synced /\ \A j \in SyncTask \ {i} : syncing[j].pc = "idle"

(* A request of the sync fails: it ends, and is logged.  Nothing runs it   *)
(* again before the next connection.                                       *)
SyncFail(i) ==
  /\ syncing[i].pc = "load"
  /\ ~Fetched(i)
  /\ Fail
  /\ syncing' = [syncing EXCEPT ![i] = NoTask]
  /\ missed' = IF LastSync(i) THEN missed \union (Foreign \ (stored \union reads)) ELSE missed
  /\ UNCHANGED <<relayVars, link, fileVars, panes, routing, acking, draining,
                 stored, shown, spilled, unheard, muted, synced, cuts, lost, acts>>

-----------------------------------------------------------------------------
(* ack_thread_read, from the TUI opening a thread.  A thread that is       *)
(* already read locally ends it at once.                                   *)
AckStart(t) ==
  /\ UserActs
  /\ acking[t].pc = "idle"
  /\ ~(t \in DOMAIN file.threads /\ file.threads[t].unread = 0)
  /\ acking' = [acking EXCEPT ![t] = [pc |-> "mark"]]
  /\ UNCHANGED <<relayVars, link, fileVars, panes, routing, syncing, draining,
                 ghostVars, cuts, failures, lost>>

(* Mutant of AckMark: the relay's answer is not awaited. *)
AckMarkUnawaited(t) ==
  /\ acking[t].pc = "mark"
  /\ \/ reads' = reads \union (InThread(t) \intersect Foreign) /\ UNCHANGED failures
     \/ Fail /\ UNCHANGED reads
  /\ acking' = [acking EXCEPT ![t].pc = "update"]
  /\ UNCHANGED <<messages, archived, pushes, link, fileVars, panes, routing, syncing,
                 draining, ghostVars, cuts, lost, acts>>

(* The relay marks the messages and answers.  If the request fails, which  *)
(* ends the ack, they are not marked, or they are and the answer is lost.  *)
AckMark(t) ==
  /\ acking[t].pc = "mark"
  /\ \/ /\ reads' = reads \union (InThread(t) \intersect Foreign)
        /\ acking' = [acking EXCEPT ![t].pc = "update"]
        /\ UNCHANGED <<unheard, failures>>
     \/ /\ Fail
        /\ acking' = [acking EXCEPT ![t] = NoTask]
        /\ \/ UNCHANGED <<reads, unheard>>
           \/ /\ reads' = reads \union (InThread(t) \intersect Foreign)
              /\ unheard' = unheard \union {t}
  /\ UNCHANGED <<messages, archived, pushes, link, fileVars, panes, routing, syncing,
                 draining, stored, shown, spilled, muted, synced, missed, cuts, lost, acts>>

AckUpdate(t) ==
  /\ acking[t].pc = "update"
  /\ acking' = [acking EXCEPT ![t] = Writing(Acked(file, t))]
  /\ UNCHANGED <<relayVars, link, fileVars, panes, routing, syncing, draining,
                 ghostVars, boundVars>>

AckWrite(t) ==
  /\ acking[t].pc = "write"
  /\ file' = acking[t].next
  /\ acking' = [acking EXCEPT ![t] = NoTask]
  /\ UNCHANGED <<relayVars, link, inbox, panes, routing, syncing, draining,
                 ghostVars, boundVars>>

(* drain_pane_inbox, from a pane's hook.  PaneInbox.drain reads the file ...*)
DrainRead(t) ==
  /\ Act
  /\ draining[t].pc = "idle"
  /\ inbox[t] # <<>>
  /\ draining' = [draining EXCEPT ![t] = [pc |-> "unlink", entries |-> inbox[t]]]
  /\ UNCHANGED <<relayVars, link, fileVars, panes, routing, syncing, acking,
                 ghostVars, cuts, failures, lost>>

(* ... and unlinks it, with whatever has been appended since. *)
DrainUnlink(t) ==
  /\ draining[t].pc = "unlink"
  /\ inbox' = [inbox EXCEPT ![t] = <<>>]
  /\ draining' = [draining EXCEPT ![t].pc = "return"]
  /\ UNCHANGED <<relayVars, link, file, panes, routing, syncing, acking,
                 ghostVars, boundVars>>

(* The IPC server answers with what was read, or the caller has gone. *)
DrainReturn(t) ==
  /\ draining[t].pc = "return"
  /\ \/ shown' = shown \union InHand(t) /\ UNCHANGED spilled
     \/ spilled' = spilled \union InHand(t) /\ UNCHANGED shown
  /\ draining' = [draining EXCEPT ![t] = NoTask]
  /\ UNCHANGED <<relayVars, link, fileVars, panes, routing, syncing, acking,
                 stored, unheard, muted, synced, missed, boundVars>>

(* A pane registers or unregisters its thread. *)
TogglePane(t) ==
  /\ UserActs
  /\ panes' = IF t \in panes THEN panes \ {t} ELSE panes \union {t}
  /\ UNCHANGED <<relayVars, link, fileVars, taskVars, ghostVars, cuts, failures, lost>>

(* The relay's archive and unarchive endpoints.  The daemon that called    *)
(* them changes nothing of its own; the next sync brings the flag.         *)
ToggleArchive(t) ==
  /\ UserActs
  /\ InThread(t) # {}
  /\ archived' = IF t \in archived THEN archived \ {t} ELSE archived \union {t}
  /\ UNCHANGED <<messages, reads, pushes, link, fileVars, panes, taskVars,
                 ghostVars, cuts, failures, lost>>

-----------------------------------------------------------------------------
Next ==
  \/ \E t \in Thread, mine \in BOOLEAN : Post(t, mine)
  \/ \E m \in Seq1 : \/ LosePush(m) \/ RouteStart(m) \/ RouteAppend(m)
                     \/ RouteUpdate(m) \/ RouteWrite(m)
  \/ \E i \in SyncTask : \/ Connect(i) \/ Hello(i) \/ SyncList(i) \/ SyncRead(i)
                         \/ SyncUpdate(i) \/ SyncWrite(i) \/ SyncFail(i)
                         \/ \E t \in Thread : SyncFetch(i, t)
                         \/ \E m \in Seq1 : SyncAppend(i, m)
  \/ \E t \in Thread : \/ AckStart(t) \/ AckMark(t) \/ AckUpdate(t) \/ AckWrite(t)
                       \/ DrainRead(t) \/ DrainUnlink(t) \/ DrainReturn(t)
                       \/ TogglePane(t) \/ ToggleArchive(t)
  \/ Disconnect
  \/ Crash

Spec == Init /\ [][Next]_vars

(***************************************************************************)
(* Fairness.  The handlers that write state.json run to their end, requests*)
(* are answered, a push arrives or turns out to have no socket to go to,   *)
(* and socket.io-client reconnects for ever.                               *)
(***************************************************************************)
RouteStep(m) ==
  \/ RouteStart(m) \/ RouteAppend(m) \/ RouteUpdate(m) \/ RouteWrite(m)
  \/ link = "down" /\ LosePush(m)

SyncStep(i) ==
  \/ SyncList(i) \/ SyncRead(i) \/ SyncUpdate(i) \/ SyncWrite(i)
  \/ \E t \in Thread : SyncFetch(i, t)
  \/ \E m \in Seq1 : SyncAppend(i, m)

FairSpec ==
  /\ Spec
  /\ WF_vars(\E i \in SyncTask : Connect(i))
  /\ WF_vars(\E i \in SyncTask : Hello(i))
  /\ \A i \in SyncTask : WF_vars(SyncStep(i))
  /\ \A m \in Seq1 : WF_vars(RouteStep(m))
  /\ \A t \in Thread : WF_vars(AckMark(t) \/ AckUpdate(t) \/ AckWrite(t))

-----------------------------------------------------------------------------
(* Every variable has its type. *)
TypeOK ==
  /\ messages \in Seq(Message) /\ Len(messages) <= MaxMessages
  /\ reads \subseteq Foreign
  /\ archived \subseteq Thread
  /\ pushes \subseteq Foreign
  /\ link \in {"down", "open", "up"}
  /\ file.lastSeen \in [Thread -> Nat]
  /\ file.unreadCount \in Nat
  /\ DOMAIN file.threads \subseteq Thread
  /\ \A t \in DOMAIN file.threads : file.threads[t] \in Summary
  /\ inbox \in [Thread -> Seq(Foreign)]
  /\ panes \subseteq Thread
  /\ \A m \in Seq1 : routing[m].pc \in {"idle", "append", "update", "write"}
  /\ \A i \in SyncTask : syncing[i].pc \in {"idle", "load", "write"}
  /\ \A t \in Thread : acking[t].pc \in {"idle", "mark", "update", "write"}
  /\ \A t \in Thread : draining[t].pc \in {"idle", "unlink", "return"}
  /\ unheard \subseteq Thread
  /\ {stored, shown, spilled, muted, missed} \subseteq SUBSET Foreign
  /\ synced \in BOOLEAN
  /\ cuts <= MaxCuts /\ failures <= MaxFailures /\ acts <= MaxActs
  /\ lost \subseteq Foreign /\ Cardinality(lost) <= MaxLost

(* The cursor of a thread stands at a message of that thread which is on   *)
(* disk, or at one this peer sent: router and sync append to the pane      *)
(* inbox before they move the cursor, so a crash, or a handler that        *)
(* overtakes another, never leaves a cursor at a message nobody kept.      *)
CursorIsStored ==
  \A t \in Thread : file.lastSeen[t] > 0 =>
    /\ file.lastSeen[t] \in InThread(t)
    /\ file.lastSeen[t] \in stored \/ messages[file.lastSeen[t]].mine

(* The status line's total is the sum over the threads it is shown with,   *)
(* whichever handlers have overwritten each other's state.json.            *)
CountAgrees == file.unreadCount = Total(file.threads)

(* The cursor never passes an unread message that is not on disk: whatever *)
(* a crash or a cut connection interrupts, the next sync still asks for    *)
(* everything that is missing.  Only a message whose push the relay dropped*)
(* while the connection was up, or which was missing when the connection's *)
(* last sync failed, can be passed, by the push of a later message.        *)
CursorNeverSkips ==
  \A t \in Thread : \A m \in Unread(t) :
    m <= file.lastSeen[t] => m \in stored \union lost \union missed

(* The cursor of a thread never moves back: "Always advance lastSeenSeq".  *)
CursorAdvances == [][\A t \in Thread : file'.lastSeen[t] >= file.lastSeen[t]]_vars

(* With a working connection, a sync done and no writer of state.json under*)
(* way, it shows every unread message of the relay except those that went  *)
(* into an open pane, and none twice.  It shows more than that only in a   *)
(* thread whose ack the relay has carried out without its answer arriving, *)
(* until the next sync.                                                    *)
CountsMatchRelay ==
  Idle /\ link = "up" /\ synced =>
    \A t \in Thread : Foreign \intersect InThread(t) # {} =>
      /\ t \in DOMAIN file.threads
      /\ t \notin unheard => file.threads[t].unread <= Cardinality(Unread(t))
      /\ file.threads[t].unread >= Cardinality(Unread(t) \ muted)

(* With a working connection, a sync done and nothing under way, every     *)
(* unread message has been put in its pane inbox: "missed messages ... are *)
(* backfilled into paneInbox".                                             *)
MissedAreBackfilled ==
  Idle /\ link = "up" /\ synced =>
    \A t \in Thread : Unread(t) \subseteq stored

Lines(t) == {inbox[t][i] : i \in DOMAIN inbox[t]}

(* What was put in a pane inbox stays there until a drain has it in hand   *)
(* and returns it.  A line is lost in two ways only: it is appended between*)
(* a drain's read and its unlink (so the drain does not "atomically        *)
(* truncate"), or its drain has unlinked the file and the daemon dies, or  *)
(* the caller has gone, before the answer is written.                      *)
DrainKeepsAll ==
  \A t \in Thread :
    stored \intersect InThread(t) \subseteq Lines(t) \union InHand(t) \union shown \union spilled

(* A message stays missing only until it is on disk or has been read,      *)
(* unless the relay dropped its push while the connection was up, or every *)
(* sync of the connection failed: then the sync of the next connection     *)
(* brings it, if no later message has moved the cursor by then.            *)
UnreadArrives ==
  \A m \in Seq1 :
    (m \in Foreign \ reads) ~> (m \in stored \union reads \union lost \union missed)

=============================================================================
