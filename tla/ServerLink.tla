----------------------------- MODULE ServerLink -----------------------------
(***************************************************************************)
(* The native client's link to the Soulseek server over its generations:   *)
(* the goroutine of Run (connectAndServe, serveConnected), the read loop   *)
(* it starts and joins, and what else writes to the server: the poller of  *)
(* gluetun's forwarded port with the peer listener it rebinds, the         *)
(* announcement of the shares, the watched users, and the worker that      *)
(* stores and acknowledges private messages.                               *)
(*                                                                         *)
(* One action is one critical section, one message written or read, or one *)
(* step of a goroutine between two of these.  A write is atomic: the       *)
(* connection cannot be replaced under serverWriteMu.  The server's side   *)
(* of a session is srv.  The client is started once.  The tree, searches   *)
(* and peers of a generation are in DistributedTree and PeerSessions.      *)
(* Bounds: MaxGen sessions, MaxMoves changes of the port, MaxScans         *)
(* published scans, MaxAsks changes of the users to watch; at most two of  *)
(* these kinds of work and the messages occur in a behaviour (focus).      *)
(***************************************************************************)
EXTENDS Integers, Sequences, FiniteSets

CONSTANTS
  Users, Messages,              \* conversation partners, server message ids
  Ports,                        \* ports gluetun forwards
  QueueSize,                    \* incomingMessageQueue
  Focus,                        \* the sets of kinds of work to explore
  MaxGen, MaxMoves, MaxScans, MaxAsks  \* bounds

\* No listener has port 0, which asks the system for any.
ASSUME LinkAssumption ==
  {QueueSize, MaxGen, MaxMoves, MaxScans, MaxAsks} \subseteq Nat /\ Ports \subseteq Nat \ {0}

VARIABLES
  focus,
  life,      \* starting, up, cancelled, stopping, down
  run,       \* Run's goroutine: where it is, and the error it will return
  conn,      \* serverGeneration; serverConn is set; its socket is open
  srv,       \* what the server of this session knows
  readers,   \* readLoop of each generation, and the message it holds
  ports,     \* open listeners, the current one, listenPort, listenerClosed
  poller,    \* refreshGluetunPort
  shares,    \* published counts, announcedGeneration and -Stats, announceMu
  scan,      \* the scan's goroutine
  presence,  \* presenceTracker; online keeps the generation it was learnt in
  sync,      \* the users syncConversationPresence has still to do
  mail,      \* messages the server keeps
  inbox,     \* the incoming channel, its worker, and the stored messages
  counts

vars == <<focus, life, run, conn, srv, readers, ports, poller, shares, scan, presence, sync, mail, inbox, counts>>

NewSession == [port |-> 0, shares |-> -1, watch |-> {}, given |-> {}]
NoSync == [unwatch |-> {}, watch |-> {}, user |-> {}, on |-> FALSE]
NoReader == [at |-> "off", kind |-> "none", what |-> {}]
Reading == [NoReader EXCEPT !.at = "reading"]
Quiet == [u \in Users |-> 0]

(*************************************************************************)
(* Writing to the server (sendToServerGeneration).  Generation 0 is any. *)
(*************************************************************************)
CurrentGeneration == IF conn.set THEN conn.gen ELSE 0
CanSend(g) == conn.set /\ g \in {0, conn.gen}
Sends(g) == CanSend(g) /\ conn.open /\ UNCHANGED conn
\* A failed write closes the session it was for; a stale one touches nothing.
SendFails(g) ==
  /\ conn' = IF CanSend(g) THEN [conn EXCEPT !.open = FALSE] ELSE conn
  /\ UNCHANGED srv

(*************************************************************************)
(* The announcement of the shares.                                       *)
(*************************************************************************)
\* Mutant: what another session was told counts too.
ToldEver == shares.toldGen # 0 /\ shares.told = shares.published

Told == shares.toldGen = CurrentGeneration /\ shares.told = shares.published

\* Under announceMu: skip, or read the counts to send.
Announce(who) ==
  /\ shares.busy = "none"
  /\ \/ /\ CurrentGeneration = 0 \/ Told \/ (who = "scan" /\ shares.toldGen # CurrentGeneration)
        /\ UNCHANGED shares
     \/ /\ CurrentGeneration # 0 /\ ~Told /\ (who = "scan" => shares.toldGen = CurrentGeneration)
        /\ shares' = [shares EXCEPT !.busy = who, !.gen = CurrentGeneration, !.read = shares.published]

AnnounceSent ==
  /\ Sends(shares.gen)
  /\ srv' = [srv EXCEPT !.shares = shares.read]
  /\ shares' = [shares EXCEPT !.busy = "none", !.toldGen = shares.gen, !.told = shares.read]
AnnounceLost == SendFails(shares.gen) /\ shares' = [shares EXCEPT !.busy = "none"]

\* A scan publishes, then announces; an error waits for the next login.
PublishShares ==
  /\ "shares" \in focus /\ scan = "idle" /\ counts.scans < MaxScans /\ life = "up"
  /\ shares' = [shares EXCEPT !.published = 1 - @]
  /\ scan' = "announce"
  /\ counts' = [counts EXCEPT !.scans = @ + 1]
  /\ UNCHANGED <<focus, life, run, conn, srv, readers, ports, poller, presence, sync, mail, inbox>>

AnnounceShares ==
  /\ \/ scan = "announce" /\ Announce("scan") /\ scan' = (IF shares'.busy = "scan" THEN "send" ELSE "idle")
        /\ UNCHANGED <<conn, srv>>
     \/ scan = "send" /\ (AnnounceSent \/ AnnounceLost) /\ scan' = "idle"
  /\ UNCHANGED <<focus, life, run, readers, ports, poller, presence, sync, mail, inbox, counts>>

(*************************************************************************)
(* Run: connect, log in, serve, clean up.                                *)
(*************************************************************************)
RunUnchanged == UNCHANGED <<focus, life, ports, poller, scan, mail, inbox, counts>>
Goto(at) == run' = [run EXCEPT !.at = at]
Leads(at, error) == run' = [at |-> at, error |-> error, port |-> 0]

\* Dial and login, which fail for now (and are tried again) or for good.
Connect ==
  /\ run.at = "idle" /\ life = "up" /\ conn.gen < MaxGen
  /\ Goto("claim") \/ Leads("ended", "terminal")
  /\ RunUnchanged /\ UNCHANGED <<conn, srv, readers, shares, presence, sync>>

RunEnds ==
  /\ run.at = "idle" /\ life = "cancelled"
  /\ Goto("ended")
  /\ RunUnchanged /\ UNCHANGED <<conn, srv, readers, shares, presence, sync>>

ClaimConnection ==
  /\ run.at = "claim"
  /\ conn' = [gen |-> conn.gen + 1, set |-> TRUE, open |-> TRUE]
  /\ srv' = NewSession
  /\ Goto("port")
  /\ RunUnchanged /\ UNCHANGED <<readers, shares, presence, sync>>

\* The port is read before the lock of the write is taken.
ReadListenPort ==
  /\ run.at = "port"
  /\ run' = [run EXCEPT !.at = "sendPort", !.port = ports.listenPort]
  /\ RunUnchanged /\ UNCHANGED <<conn, srv, readers, shares, presence, sync>>

SendListenPort ==
  /\ run.at = "sendPort"
  /\ \/ Sends(conn.gen) /\ srv' = [srv EXCEPT !.port = run.port] /\ Leads("tree", "none")
     \/ SendFails(conn.gen) /\ Leads("cleanup", "transient")
  /\ RunUnchanged /\ UNCHANGED <<readers, shares, presence, sync>>

\* The tree's opening messages and the request for our own stats.
OpenTree ==
  /\ run.at = "tree"
  /\ \/ Sends(conn.gen) /\ Goto("login") /\ UNCHANGED srv
     \/ SendFails(conn.gen) /\ Leads("cleanup", "transient")
  /\ RunUnchanged /\ UNCHANGED <<readers, shares, presence, sync>>

AnnounceSharesOnLogin ==
  /\ \/ run.at = "login" /\ Announce("login") /\ Goto(IF shares'.busy = "login" THEN "announce" ELSE "read")
        /\ UNCHANGED <<conn, srv>>
     \/ run.at = "announce" /\ AnnounceSent /\ Goto("read")
     \/ run.at = "announce" /\ AnnounceLost /\ Leads("cleanup", "transient")
  /\ RunUnchanged /\ UNCHANGED <<readers, presence, sync>>

StartReadLoop ==
  /\ run.at = "read"
  /\ readers' = [readers EXCEPT ![conn.gen] = Reading]
  /\ Goto("activate")
  /\ RunUnchanged /\ UNCHANGED <<conn, srv, shares, presence, sync>>

ActivatePresence ==
  /\ run.at = "activate"
  /\ presence' = [presence EXCEPT !.gen = conn.gen, !.remote = {}, !.online = Quiet, !.needed = TRUE]
  /\ Goto("serving")
  /\ RunUnchanged /\ UNCHANGED <<conn, srv, readers, shares, sync>>

\* Leaving the loop on a cancelled context or a failed ping closes the socket
\* and joins the read loop; its own error means it has ended.
ServeStops ==
  /\ run.at = "serving" /\ life = "cancelled"
  /\ conn' = [conn EXCEPT !.open = FALSE]
  /\ Leads("join", "none")
  /\ RunUnchanged /\ UNCHANGED <<srv, readers, shares, presence, sync>>

PingFails ==
  /\ run.at = "serving" /\ ~conn.open
  /\ SendFails(0) /\ Leads("join", "transient")
  /\ RunUnchanged /\ UNCHANGED <<readers, shares, presence, sync>>

ReadEnds ==
  /\ run.at = "serving" /\ readers[conn.gen].at \in {"failed", "relogged"}
  /\ Leads("cleanup", IF readers[conn.gen].at = "relogged" THEN "terminal" ELSE "transient")
  /\ readers' = [readers EXCEPT ![conn.gen] = NoReader]
  /\ RunUnchanged /\ UNCHANGED <<conn, srv, shares, presence, sync>>

JoinReadLoop ==
  /\ run.at = "join" /\ readers[conn.gen].at \in {"failed", "relogged"}
  /\ Goto("cleanup")
  /\ readers' = [readers EXCEPT ![conn.gen] = NoReader]
  /\ RunUnchanged /\ UNCHANGED <<conn, srv, shares, presence, sync>>

InvalidatePresence ==
  /\ run.at = "cleanup"
  /\ presence' = IF presence.gen = conn.gen
                 THEN [presence EXCEPT !.gen = 0, !.remote = {}, !.online = Quiet] ELSE presence
  /\ Goto("release")
  /\ RunUnchanged /\ UNCHANGED <<conn, srv, readers, shares, sync>>

\* serverConn is cleared; a terminal error or a cancelled context ends Run.
ReleaseConnection ==
  /\ run.at = "release"
  /\ conn' = [conn EXCEPT !.set = FALSE, !.open = FALSE]
  /\ Leads(IF run.error = "transient" THEN "idle" ELSE "ended", "none")
  /\ sync' = NoSync
  /\ RunUnchanged /\ UNCHANGED <<srv, readers, shares, presence>>

(*************************************************************************)
(* The watched users.                                                    *)
(*************************************************************************)
ConversationPresence(users) ==
  /\ "presence" \in focus /\ counts.asks < MaxAsks /\ users # presence.desired
  /\ presence' = [presence EXCEPT !.desired = users, !.needed = TRUE,
                                  !.online = [u \in Users |-> IF u \in users THEN @[u] ELSE 0]]
  /\ counts' = [counts EXCEPT !.asks = @ + 1]
  /\ UNCHANGED <<focus, life, run, conn, srv, readers, ports, poller, shares, scan, sync, mail, inbox>>

SyncActions ==
  IF presence.gen # conn.gen THEN NoSync
  ELSE [NoSync EXCEPT !.unwatch = presence.remote \ presence.desired, !.watch = presence.desired \ presence.remote]

BeginSync ==
  /\ run.at = "serving" /\ presence.needed
  /\ presence' = [presence EXCEPT !.needed = FALSE]
  /\ sync' = SyncActions
  /\ Goto("sync")
  /\ RunUnchanged /\ UNCHANGED <<conn, srv, readers, shares>>

\* First the users to forget, then the ones to watch.
SendWatch ==
  /\ run.at = "sync" /\ sync.unwatch \cup sync.watch # {}
  /\ \E u \in (IF sync.unwatch # {} THEN sync.unwatch ELSE sync.watch) :
       \/ /\ Sends(conn.gen)
          /\ srv' = [srv EXCEPT !.watch = IF u \in sync.unwatch THEN @ \ {u} ELSE @ \cup {u}]
          /\ sync' = [unwatch |-> sync.unwatch \ {u}, watch |-> IF u \in sync.unwatch THEN sync.watch ELSE sync.watch \ {u},
                      user |-> {u}, on |-> u \notin sync.unwatch]
          /\ Goto("acknowledge")
       \/ SendFails(conn.gen) /\ Leads("join", "transient") /\ UNCHANGED sync
  /\ RunUnchanged /\ UNCHANGED <<readers, shares, presence>>

\* What has changed meanwhile asks for another round.
AcknowledgeWatch ==
  /\ run.at = "acknowledge"
  /\ \E u \in sync.user :
       presence' =
         IF sync.on THEN [presence EXCEPT !.remote = @ \cup {u}, !.needed = @ \/ u \notin presence.desired]
         ELSE [presence EXCEPT !.remote = @ \ {u}, !.online[u] = 0, !.needed = @ \/ u \in presence.desired]
  /\ sync' = [sync EXCEPT !.user = {}, !.on = FALSE]
  /\ Goto("sync")
  /\ RunUnchanged /\ UNCHANGED <<conn, srv, readers, shares>>

EndSync ==
  /\ run.at = "sync" /\ sync.unwatch \cup sync.watch = {}
  /\ Goto("serving")
  /\ RunUnchanged /\ UNCHANGED <<conn, srv, readers, shares, presence, sync>>

Run == \/ Connect \/ RunEnds \/ ClaimConnection \/ ReadListenPort \/ SendListenPort \/ OpenTree
       \/ AnnounceSharesOnLogin \/ StartReadLoop \/ ActivatePresence \/ ServeStops \/ PingFails \/ ReadEnds
       \/ JoinReadLoop \/ InvalidatePresence \/ ReleaseConnection \/ BeginSync \/ SendWatch \/ AcknowledgeWatch \/ EndSync

(*************************************************************************)
(* The read loop of generation g.                                        *)
(*************************************************************************)
ReaderUnchanged == UNCHANGED <<focus, life, run, ports, poller, shares, scan, sync, counts>>
Holds(g, kind, what) == readers' = [readers EXCEPT ![g] = [at |-> "handling", kind |-> kind, what |-> what]]
SocketOpen(g) == conn.gen = g /\ conn.open

ReadMessage(g) ==
  /\ readers[g].at = "reading" /\ SocketOpen(g)
  /\ \/ \E u \in srv.watch : Holds(g, "status", {u}) /\ UNCHANGED srv
     \/ \E m \in mail \ srv.given : "mail" \in focus /\ Holds(g, "mail", {m}) /\ srv' = [srv EXCEPT !.given = @ \cup {m}]
     \/ Holds(g, "relogged", {}) /\ UNCHANGED srv
  /\ ReaderUnchanged /\ UNCHANGED <<conn, presence, mail, inbox>>

\* The server drops the connection, or this side has closed it.
ReadFails(g) ==
  /\ readers[g].at = "reading"
  /\ conn' = IF conn.gen = g THEN [conn EXCEPT !.open = FALSE] ELSE conn
  /\ readers' = [readers EXCEPT ![g] = [NoReader EXCEPT !.at = "failed"]]
  /\ ReaderUnchanged /\ UNCHANGED <<srv, presence, mail, inbox>>

HandleRelogged(g) ==
  /\ readers[g].at = "handling" /\ readers[g].kind = "relogged"
  /\ readers' = [readers EXCEPT ![g] = [NoReader EXCEPT !.at = "relogged"]]
  /\ ReaderUnchanged /\ UNCHANGED <<conn, srv, presence, mail, inbox>>

\* The handler asks for the generation that is current then.
UpdateStatus(g) ==
  /\ readers[g].at = "handling" /\ readers[g].kind = "status"
  /\ readers' = [readers EXCEPT ![g] = Reading]
  /\ presence' = IF presence.gen = CurrentGeneration
                 THEN [presence EXCEPT !.online = [u \in Users |->
                         IF u \in readers[g].what \cap presence.desired THEN g ELSE @[u]]]
                 ELSE presence
  /\ ReaderUnchanged /\ UNCHANGED <<conn, srv, mail, inbox>>

\* Never blocks: a full channel drops the message, unacknowledged.
HandleIncomingPrivateMessage(g) ==
  /\ readers[g].at = "handling" /\ readers[g].kind = "mail"
  /\ readers' = [readers EXCEPT ![g] = Reading]
  /\ inbox' = IF CurrentGeneration = 0 \/ Len(inbox.queue) = QueueSize THEN inbox
              ELSE [inbox EXCEPT !.queue = Append(@, [what |-> readers[g].what, gen |-> CurrentGeneration])]
  /\ ReaderUnchanged /\ UNCHANGED <<conn, srv, presence, mail>>

HandleMessage(g) == HandleRelogged(g) \/ UpdateStatus(g) \/ HandleIncomingPrivateMessage(g)
ReadLoop(g) == ReadMessage(g) \/ ReadFails(g) \/ HandleMessage(g)

(*************************************************************************)
(* The message worker: store, then acknowledge to the session it came by. *)
(*************************************************************************)
WorkerUnchanged == UNCHANGED <<focus, life, run, readers, ports, poller, shares, scan, presence, sync, counts>>

TakeMessage ==
  /\ inbox.at = "idle" /\ inbox.queue # <<>> /\ life \in {"up", "cancelled"}
  /\ inbox' = [inbox EXCEPT !.queue = Tail(@), !.at = "persist", !.entry = <<Head(inbox.queue)>>]
  /\ WorkerUnchanged /\ UNCHANGED <<conn, srv, mail>>

PersistMessage ==
  /\ inbox.at = "persist"
  /\ \/ inbox' = [inbox EXCEPT !.at = "acknowledge", !.stored = @ \cup inbox.entry[1].what]
     \/ inbox' = [inbox EXCEPT !.at = "idle", !.entry = <<>>]
  /\ WorkerUnchanged /\ UNCHANGED <<conn, srv, mail>>

\* Mutant: the acknowledgement goes to whichever session is open.
AcknowledgeAnywhere ==
  /\ inbox.at = "acknowledge"
  /\ \/ Sends(0) /\ mail' = mail \ inbox.entry[1].what /\ UNCHANGED srv
     \/ SendFails(0) /\ UNCHANGED mail
  /\ inbox' = [inbox EXCEPT !.at = "idle", !.entry = <<>>]
  /\ WorkerUnchanged

AcknowledgeMessage ==
  /\ inbox.at = "acknowledge"
  /\ \/ Sends(inbox.entry[1].gen) /\ mail' = mail \ inbox.entry[1].what /\ UNCHANGED srv
     \/ SendFails(inbox.entry[1].gen) /\ UNCHANGED mail
  /\ inbox' = [inbox EXCEPT !.at = "idle", !.entry = <<>>]
  /\ WorkerUnchanged

MessageWorker == TakeMessage \/ PersistMessage \/ AcknowledgeMessage

(*************************************************************************)
(* The peer listener, and the poller of gluetun's port.                  *)
(*************************************************************************)
PollerUnchanged == UNCHANGED <<focus, life, run, readers, shares, scan, presence, sync, mail, inbox>>
Polls(at) == poller' = [poller EXCEPT !.at = at]

\* Another port that can be bound; anything else leaves the listener alone.
RebindPeerListener ==
  /\ "port" \in focus /\ poller.at = "idle" /\ life = "up" /\ counts.moves < MaxMoves
  /\ \E p \in Ports \ {ports.listenPort} :
       poller' = [at |-> "bound", port |-> p, old |-> 0] /\ ports' = [ports EXCEPT !.open = @ \cup {p}]
  /\ counts' = [counts EXCEPT !.moves = @ + 1]
  /\ PollerUnchanged /\ UNCHANGED <<conn, srv>>

\* startTracked runs the new accept loop, or refuses.
AcceptOnPort ==
  /\ poller.at = "bound"
  /\ IF life = "stopping"
     THEN Polls("idle") /\ ports' = [ports EXCEPT !.open = @ \ {poller.port}]
     ELSE Polls("accepting") /\ UNCHANGED ports
  /\ PollerUnchanged /\ UNCHANGED <<conn, srv, counts>>

SetPeerListener ==
  /\ poller.at = "accepting"
  /\ IF ports.closed
     THEN Polls("idle") /\ ports' = [ports EXCEPT !.open = @ \ {poller.port}]
     ELSE /\ poller' = [poller EXCEPT !.at = "replaced", !.old = ports.listener]
          /\ ports' = [ports EXCEPT !.listener = poller.port, !.listenPort = poller.port]
  /\ PollerUnchanged /\ UNCHANGED <<conn, srv, counts>>

CloseReplaced ==
  /\ poller.at = "replaced"
  /\ ports' = [ports EXCEPT !.open = @ \ {poller.old}]
  /\ Polls("announce")
  /\ PollerUnchanged /\ UNCHANGED <<conn, srv, counts>>

AnnouncePort ==
  /\ poller.at = "announce"
  /\ \/ Sends(0) /\ srv' = [srv EXCEPT !.port = poller.port]
     \/ SendFails(0)
  /\ poller' = [at |-> "idle", port |-> 0, old |-> 0]
  /\ PollerUnchanged /\ UNCHANGED <<ports, counts>>

RefreshGluetunPort == RebindPeerListener \/ AcceptOnPort \/ SetPeerListener \/ CloseReplaced \/ AnnouncePort

(*************************************************************************)
(* Start-up and shutdown.                                                *)
(*************************************************************************)
LifeUnchanged == UNCHANGED <<focus, run, conn, srv, readers, poller, shares, scan, presence, sync, mail, inbox, counts>>

\* The port is fetched and bound, over and over until that works; then the
\* life begins with this listener.
TrySetup ==
  /\ life = "starting"
  /\ \E p \in Ports : ports' = [open |-> {p}, listener |-> p, listenPort |-> p, closed |-> FALSE]
  /\ life' = "up"
  /\ LifeUnchanged

AbandonSetup == life = "starting" /\ life' = "down" /\ LifeUnchanged /\ UNCHANGED ports

Cancel == life = "up" /\ life' = "cancelled" /\ LifeUnchanged /\ UNCHANGED ports

\* Run has returned, with its own error or not: lifeStopping is set and the context cancelled.
StopLifecycle ==
  /\ life \in {"up", "cancelled"} /\ run.at = "ended"
  /\ life' = "stopping"
  /\ LifeUnchanged /\ UNCHANGED ports

ClosePeerListener ==
  /\ life = "stopping" /\ ~ports.closed
  /\ ports' = [ports EXCEPT !.open = @ \ {ports.listener}, !.listener = 0, !.closed = TRUE]
  /\ LifeUnchanged /\ UNCHANGED life

\* lifeWG.Wait.
Stopped ==
  /\ life = "stopping" /\ ports.closed
  /\ poller.at = "idle" /\ scan = "idle" /\ inbox.at = "idle" /\ \A g \in DOMAIN readers : readers[g].at = "off"
  /\ life' = "down"
  /\ LifeUnchanged /\ UNCHANGED ports

Init ==
  /\ focus \in Focus /\ life = "starting" /\ run = [at |-> "idle", error |-> "none", port |-> 0]
  /\ conn = [gen |-> 0, set |-> FALSE, open |-> FALSE] /\ srv = NewSession
  /\ readers = [g \in 1 .. MaxGen |-> NoReader]
  /\ ports = [open |-> {}, listener |-> 0, listenPort |-> 0, closed |-> FALSE]
  /\ poller = [at |-> "idle", port |-> 0, old |-> 0]
  /\ shares = [published |-> 0, toldGen |-> 0, told |-> 0, busy |-> "none", gen |-> 0, read |-> 0] /\ scan = "idle"
  /\ presence = [desired |-> {}, remote |-> {}, online |-> Quiet, gen |-> 0, needed |-> FALSE] /\ sync = NoSync
  /\ mail = Messages /\ inbox = [queue |-> <<>>, at |-> "idle", entry |-> <<>>, stored |-> {}]
  /\ counts = [moves |-> 0, scans |-> 0, asks |-> 0]

Next ==
  \/ TrySetup \/ AbandonSetup
  \/ Run \/ \E g \in 1 .. MaxGen : ReadLoop(g)
  \/ PublishShares \/ AnnounceShares \/ \E users \in SUBSET Users : ConversationPresence(users)
  \/ MessageWorker \/ RefreshGluetunPort
  \/ Cancel \/ StopLifecycle \/ ClosePeerListener \/ Stopped

Fairness == WF_vars(Run) /\ WF_vars(AnnounceShares)
Spec == Init /\ [][Next]_vars /\ Fairness
-----------------------------------------------------------------------------
TypeOK ==
  /\ focus \in Focus /\ life \in {"starting", "up", "cancelled", "stopping", "down"}
  /\ run.error \in {"none", "transient", "terminal"} /\ run.port \in Ports \cup {0}
  /\ conn.gen \in 0 .. MaxGen /\ (conn.open => conn.set) /\ (conn.set => conn.gen > 0)
  /\ srv.port \in Ports \cup {0} /\ srv.shares \in -1 .. 1 /\ srv.watch \subseteq Users /\ srv.given \subseteq Messages
  /\ \A g \in 1 .. MaxGen : readers[g].at \in {"off", "reading", "handling", "failed", "relogged"}
  /\ ports.open \subseteq Ports /\ ports.listener \in Ports \cup {0} /\ ports.closed \in BOOLEAN
  /\ shares.busy \in {"none", "login", "scan"} /\ shares.toldGen \in 0 .. conn.gen /\ scan \in {"idle", "announce", "send"}
  /\ presence.desired \subseteq Users /\ presence.remote \subseteq Users /\ presence.gen \in 0 .. conn.gen
  /\ mail \subseteq Messages /\ inbox.stored \subseteq Messages /\ Len(inbox.queue) <= QueueSize

InSession == run.at \in {"serving", "sync", "acknowledge"} /\ conn.open

\* Once nobody is about to announce, the server of the session has been told
\* the counts that are published, whatever order scans and logins came in.
ServerHasShares ==
  (InSession /\ scan = "idle" /\ shares.busy = "none") => srv.shares = shares.published

\* A user is shown online or offline only from what the present session has
\* told: a message still handled for an older one cannot reach the tracker of
\* its successor, because the read loop is joined before Run reconnects.
PresenceIsCurrent ==
  \A u \in Users : presence.online[u] # 0 => presence.online[u] = presence.gen /\ u \in presence.desired

\* The server is told to forget a message only when it is stored, and in the
\* session that delivered it, since its id means nothing in another.
AckFollowsStore ==
  [][\A m \in mail \ mail' : m \in inbox.stored /\ m \in srv.given]_vars

\* Until Run has ended there is always an open listener, through a rebind
\* too; when the client is down there is none, though a rebind may have raced
\* the stop.
ListenersFollowLife ==
  /\ life \in {"up", "cancelled"} => ports.listener \in ports.open
  /\ life = "down" => ports.open = {}

\* While a session lasts, the server comes to watch the users that are asked
\* for, in a new session as well.
WatchSettles ==
  \A users \in SUBSET Users :
    (InSession /\ presence.desired = users) ~> (~InSession \/ presence.desired # users \/ srv.watch = users)

\* What the server knows of the shares, and we of the users, is of this session; and somebody always listens (serveConnected).
LinkIsSound == TypeOK /\ ServerHasShares /\ PresenceIsCurrent /\ ListenersFollowLife

\* The server is told what was done, and comes to know what is wanted (runMessageWorker, syncConversationPresence).
LinkFollows == AckFollowsStore /\ WatchSettles
=============================================================================
