------------------------------- MODULE TuiApp -------------------------------
(***************************************************************************)
(* The terminal UI's App: the list, an open thread or the first message to *)
(* a peer, and the calls it makes to the daemon meanwhile.                 *)
(*                                                                         *)
(* Every call has a socket of its own: the daemon serves calls, and their  *)
(* answers arrive, in any order.  A call fails if no daemon listens or the *)
(* relay refuses, and is never answered if the daemon stops after it has   *)
(* accepted it, because McpIpcClient.call() rejects on "error" but not on  *)
(* "close".  An unhandled rejection ends the program, as Node does.        *)
(*                                                                         *)
(* With every peer there is at most one thread, which is named after them. *)
(***************************************************************************)
EXTENDS Naturals, Sequences, SequencesExt

CONSTANTS
  Peer,         \* the other peers, and the threads with them
  None,
  Scenarios     \* records [known, inOrder, posts, sends, faults, calls]: the threads
                \* there are at first, whether calls are answered in the order
                \* they are made, and bounds on the messages peers post and
                \* the user submits, on failures, and on the calls under way
                \* when the user or an event starts another

ASSUME TuiAppAssumption ==
  /\ None \notin Peer /\ "me" \notin Peer
  /\ \A s \in Scenarios : /\ s.known \subseteq Peer /\ s.inOrder \in BOOLEAN
                          /\ s.posts \in Nat /\ s.sends \in Nat
                          /\ s.faults \in Nat /\ s.calls \in Nat

VARIABLES
  scenario,
  log,          \* the relay: the messages of each thread
  listening,    \* a daemon runs
  known,        \* the threads in the daemon's state.json
  news,         \* "message:new" events pushed and not handled yet
  calls,        \* calls under way, in the order they were made
  view,         \* [kind, peer]
  messages,     \* what is shown of the open thread
  loading, lastLoaded,
  threads,      \* the UI's copy of `known'
  exited,
  posts, sends, faults

remoteVars == <<log, listening, known>>
viewVars == <<view, messages, loading, lastLoaded, threads>>
bounds == <<posts, sends, faults>>
vars == <<scenario, remoteVars, news, calls, viewVars, exited, bounds>>

(* A message; `local' marks one that was inserted before it was sent. *)
Message(by, n, local) == [by |-> by, n |-> n, local |-> local]

List == [kind |-> "list", peer |-> None]
Thread(p) == [kind |-> "thread", peer |-> p]
NewThread(p) == [kind |-> "newThread", peer |-> p]

(* `op' says what the answer is for; n is the message that is sent, `first' *)
(* whether the thread was being loaded; `got' is what has been read.        *)
Call(op, p, n, first) ==
  [op |-> op, peer |-> p, n |-> n, first |-> first,
   at |-> IF listening THEN "asked" ELSE "failed", messages |-> <<>>, threads |-> {}]

Init ==
  /\ scenario \in Scenarios
  /\ known = scenario.known
  /\ log = [p \in Peer |-> IF p \in known THEN <<Message(p, 0, FALSE)>> ELSE <<>>]
  /\ listening = TRUE
  /\ news = 0 /\ calls = <<>>
  /\ view = List /\ messages = <<>>
  /\ loading = FALSE /\ lastLoaded = None
  /\ threads = known
  /\ exited = FALSE
  /\ posts = 0 /\ sends = 0 /\ faults = 0

Fault == faults < scenario.faults /\ faults' = faults + 1

-----------------------------------------------------------------------------
(* The relay and the daemon *)

(* The router adds the thread to state.json, then pushes message:new.  A   *)
(* message the user sends is not pushed to the user's own daemon.          *)
PeerPosts(p) ==
  /\ posts < scenario.posts
  /\ posts' = posts + 1
  /\ log' = [log EXCEPT ![p] = Append(@, Message(p, posts + 1, FALSE))]
  /\ IF listening THEN known' = known \union {p} /\ news' = news + 1
                  ELSE UNCHANGED <<known, news>>
  /\ UNCHANGED <<scenario, listening, calls, viewVars, exited, sends, faults>>

StopDaemon ==
  /\ listening
  /\ Fault
  /\ listening' = FALSE
  /\ calls' = [i \in DOMAIN calls |-> IF calls[i].at = "asked"
                                      THEN [calls[i] EXCEPT !.at = "lost"] ELSE calls[i]]
  /\ UNCHANGED <<scenario, log, known, news, viewVars, exited, posts, sends>>

(* The sync on connecting to the relay; it pushes nothing. *)
StartDaemon ==
  /\ ~listening
  /\ listening' = TRUE
  /\ known' = known \union {p \in Peer : log[p] # <<>>}
  /\ UNCHANGED <<scenario, log, news, calls, viewVars, exited, bounds>>

(* Whether it may be call i's turn. *)
Turn(i) == scenario.inOrder => i = 1

(* The answer to call i, with what it asked for. *)
Answered(i, at) ==
  LET c == calls[i]
  IN  calls' = [calls EXCEPT ![i] =
        [c EXCEPT !.at = at,
                  !.messages = IF c.op = "messages" THEN log[c.peer] ELSE <<>>,
                  !.threads = IF c.op \in {"acked", "news", "fetched"} THEN known ELSE {}]]

Sends(c) == c.op \in {"send", "first"}

(* The daemon does what call i asks for; a post may be made although its   *)
(* answer does not come back from the relay.                               *)
Serve(i) ==
  /\ calls[i].at = "asked" /\ Turn(i)
  /\ \/ /\ log' = IF Sends(calls[i])
                  THEN [log EXCEPT ![calls[i].peer] = Append(@, Message("me", calls[i].n, FALSE))]
                  ELSE log
        /\ \/ Answered(i, "served") /\ UNCHANGED faults
           \/ Sends(calls[i]) /\ Answered(i, "failed") /\ Fault
     \/ Answered(i, "failed") /\ Fault /\ UNCHANGED log
  /\ UNCHANGED <<scenario, listening, known, news, viewVars, exited, posts, sends>>

-----------------------------------------------------------------------------
(* The UI *)

(* Mutant of ShowThread: the transcript is not fetched again. *)
ShowThreadOnce(p, rest) ==
  IF lastLoaded = p
  THEN calls' = rest \o <<Call("ack", p, 0, FALSE)>> /\ UNCHANGED loading
  ELSE /\ calls' = rest \o <<Call("messages", p, 0, TRUE), Call("ack", p, 0, FALSE)>>
       /\ loading' = TRUE

(* The effect that runs when the view or the version changes while thread  *)
(* p is open; `rest' are the calls under way.                              *)
ShowThread(p, rest) ==
  LET first == lastLoaded # p
  IN  /\ calls' = rest \o <<Call("messages", p, 0, first), Call("ack", p, 0, FALSE)>>
      /\ loading' = (loading \/ first)

User == ~exited /\ Len(calls) < scenario.calls

Open(p) ==
  /\ User /\ view = List /\ p \in threads
  /\ view' = Thread(p)
  /\ ShowThread(p, calls)
  /\ UNCHANGED <<scenario, remoteVars, news, messages, lastLoaded, threads, exited, bounds>>

(* Enter on a peer with whom no thread is known. *)
OpenNew(p) ==
  /\ User /\ view = List /\ p \notin threads
  /\ view' = NewThread(p)
  /\ UNCHANGED <<scenario, remoteVars, news, calls, messages, loading, lastLoaded,
                 threads, exited, bounds>>

Escape ==
  /\ ~exited /\ view # List
  /\ view' = List /\ messages' = <<>>
  /\ loading' = FALSE /\ lastLoaded' = None
  /\ UNCHANGED <<scenario, remoteVars, news, calls, threads, exited, bounds>>

(* A message is submitted: it is shown, then sent.  "thread not found" has *)
(* no editor.                                                              *)
Submit ==
  /\ User /\ sends < scenario.sends
  /\ sends' = sends + 1
  /\ messages' = Append(messages, Message("me", sends', TRUE))
  /\ \/ /\ view.kind = "thread" /\ view.peer \in threads
        /\ calls' = Append(calls, Call("send", view.peer, sends', FALSE))
     \/ /\ view.kind = "newThread"
        /\ calls' = Append(calls, Call("first", view.peer, sends', FALSE))
  /\ UNCHANGED <<scenario, remoteVars, news, view, loading, lastLoaded, threads, exited,
                 posts, faults>>

(* "message:new": read the state again. *)
HandleNews ==
  /\ ~exited /\ news > 0
  /\ Len(calls) < scenario.calls
  /\ news' = news - 1
  /\ calls' = Append(calls, Call("news", None, 0, FALSE))
  /\ UNCHANGED <<scenario, remoteVars, viewVars, exited, bounds>>

(* Mutant of Without: nothing is rolled back. *)
WithoutNot(n) == messages

(* The entries of s at positions in `at', in order: SelectSeq in a form one *)
(* can prove about.                                                         *)
Kept(s, at) ==
  LET upTo[k \in 0..Len(s)] ==
        IF k = 0 THEN <<>>
        ELSE IF k \in at THEN Append(upTo[k - 1], s[k]) ELSE upTo[k - 1]
  IN  upTo[Len(s)]

(* The transcript without the optimistic message n. *)
Without(n) ==
  Kept(messages, {i \in DOMAIN messages : ~(messages[i].local /\ messages[i].n = n)})

Rest(i) == RemoveAt(calls, i)

(* Mutant of Loaded: a later load is taken for the first one. *)
LoadedLate(c) == IF c.first THEN lastLoaded = None ELSE loading

(* Whether the spinner stays after the answer to c. *)
Loaded(c) == IF c.first THEN FALSE ELSE loading

(* The answer to call i arrives.  read_thread and the state read after     *)
(* message:new have no catch.                                              *)
GetMessages(i) ==
  LET c == calls[i]
  IN  /\ c.op = "messages"
      /\ messages' = IF c.at = "served" THEN c.messages ELSE messages
      /\ lastLoaded' = IF c.at = "served" THEN c.peer ELSE lastLoaded
      /\ loading' = Loaded(c)
      /\ exited' = (c.at = "failed")
      /\ calls' = IF exited' THEN <<>> ELSE Rest(i)
      /\ UNCHANGED <<view, threads>>

(* ackThreadRead(t).then(fetchState).then(setState).catch(ignore) *)
GetAck(i) ==
  LET c == calls[i]
  IN  /\ \/ /\ c.op = "ack"
            /\ calls' = IF c.at = "served" THEN Append(Rest(i), Call("acked", c.peer, 0, FALSE))
                                           ELSE Rest(i)
            /\ UNCHANGED threads
         \/ /\ c.op = "acked"
            /\ threads' = IF c.at = "served" THEN c.threads ELSE threads
            /\ calls' = Rest(i)
      /\ UNCHANGED <<view, messages, loading, lastLoaded, exited>>

GetNews(i) ==
  LET c == calls[i]
  IN  /\ c.op = "news"
      /\ threads' = IF c.at = "served" THEN c.threads ELSE threads
      /\ exited' = (c.at = "failed")
      /\ IF c.at = "served" /\ view.kind = "thread"
         THEN ShowThread(view.peer, Rest(i))
         ELSE /\ calls' = IF exited' THEN <<>> ELSE Rest(i)
              /\ UNCHANGED loading
      /\ UNCHANGED <<view, messages, lastLoaded>>

(* onSend: rolled back if it failed. *)
GetSent(i) ==
  LET c == calls[i]
  IN  /\ c.op = "send"
      /\ messages' = IF c.at = "served" THEN messages ELSE Without(c.n)
      /\ calls' = Rest(i)
      /\ UNCHANGED <<view, loading, lastLoaded, threads, exited>>

(* onSendToPeer, then fetchState, then the view of the new thread, even if *)
(* the user has gone elsewhere; rolled back if either call failed.         *)
GetFirst(i) ==
  LET c == calls[i]
  IN  /\ c.op \in {"first", "fetched"}
      /\ messages' = IF c.at = "served" THEN messages ELSE Without(c.n)
      /\ IF c.op = "fetched" /\ c.at = "served"
         THEN /\ threads' = c.threads
              /\ view' = Thread(c.peer)
              /\ ShowThread(c.peer, Rest(i))
         ELSE /\ calls' = IF c.at = "served"
                          THEN Append(Rest(i), Call("fetched", c.peer, c.n, FALSE)) ELSE Rest(i)
              /\ UNCHANGED <<threads, view, loading>>
      /\ UNCHANGED <<lastLoaded, exited>>

Reply(i) ==
  /\ ~exited /\ Turn(i)
  /\ calls[i].at \in {"served", "failed"}
  /\ GetMessages(i) \/ GetAck(i) \/ GetNews(i) \/ GetSent(i) \/ GetFirst(i)
  /\ UNCHANGED <<scenario, remoteVars, news, bounds>>

Next ==
  \/ \E p \in Peer : PeerPosts(p) \/ Open(p) \/ OpenNew(p)
  \/ StopDaemon \/ StartDaemon
  \/ \E i \in DOMAIN calls : Serve(i) \/ Reply(i)
  \/ Escape \/ Submit \/ HandleNews

Spec == Init /\ [][Next]_vars

(* Fairness: a daemon that runs serves its calls and the UI handles their  *)
(* answers; nothing forces a daemon to start or a user to do anything.     *)
FairSpec ==
  /\ Spec
  /\ WF_vars(\E i \in DOMAIN calls : Serve(i))
  /\ WF_vars(\E i \in DOMAIN calls : Reply(i))

-----------------------------------------------------------------------------
Posted == UNION {{log[p][i] : i \in DOMAIN log[p]} : p \in Peer}

(* What is shown was posted or is still being sent, and nothing is shown   *)
(* twice: whatever the order in which the answers to sends and to fetches  *)
(* arrive, a message that was rolled back does not stay and does not come  *)
(* back, and a fetch that includes one still under way does not double it  *)
(* (app.tsx:211-231, 260-284).                                             *)
NoGhosts == ~exited =>
  /\ \A i \in DOMAIN messages :
       LET m == messages[i]
       IN  \/ [m EXCEPT !.local = FALSE] \in Posted
           \/ m.local /\ \E j \in DOMAIN calls : calls[j].n = m.n
  /\ \A i, j \in DOMAIN messages :
       <<messages[i].by, messages[i].n>> = <<messages[j].by, messages[j].n>> => i = j

FromPeers(s) == Kept(s, {i \in DOMAIN s : s[i].by # "me"})

(* When calls are answered in order and none fails: once every call is     *)
(* answered the list has every thread of state.json, and the open thread   *)
(* shows all its peer has posted, in order, and nothing of another thread, *)
(* however fast messages came and threads were opened and left (app.tsx:   *)
(* 120-146, 169-196).  (A message of the user's own may be missing: an     *)
(* older fetch overwrites it.)                                             *)
SettledShowsAll ==
  scenario.inOrder /\ scenario.faults = 0 /\ calls = <<>> /\ news = 0 =>
    /\ view.kind = "thread" => FromPeers(messages) = FromPeers(log[view.peer])
    /\ threads = known

(* "Loading messages" goes away, unless a call is never answered.          *)
LoadingEnds == loading ~> (~loading \/ exited \/ \E i \in DOMAIN calls : calls[i].at = "lost")

(* After the first message to a peer the view is "the real thread so       *)
(* future sends take the normal threadId path" (app.tsx:262-264): not so,  *)
(* the thread is not known yet and "thread not found" is shown.            *)
OpenThreadIsKnown == view.kind = "thread" => view.peer \in threads

=============================================================================
