---------------------------- MODULE Network_proofs ----------------------------
(* What the modules of MCNetwork guarantee for every number of users, ports, *)
(* messages and sessions, and whatever their bounds are.                     *)
EXTENDS MCNetwork, SequenceTheorems, FiniteSetTheorems, TLAPS

(***************************************************************************)
(* ServerLink: what the server and we know of each other                   *)
(***************************************************************************)
LoggingIn == {"port", "sendPort", "tree", "login", "announce"}
LoggedIn == {"read", "activate", "serving", "sync", "acknowledge", "join"}
WithReader == {"activate", "serving", "sync", "acknowledge", "join"}
InLink == LoggingIn \cup LoggedIn \cup {"cleanup", "release"}
ReaderPlaces == {"off", "reading", "handling", "failed", "relogged"}
Entry == [what : SUBSET Messages, gen : 0 .. MaxGen]
Connections == [gen : 0 .. MaxGen, set : BOOLEAN, open : BOOLEAN]
Servers == [port : Ports \cup {0}, shares : -1 .. 1, watch : SUBSET Users, given : SUBSET Messages]
Trackers == [desired : SUBSET Users, remote : SUBSET Users, online : [Users -> 0 .. MaxGen], gen : 0 .. MaxGen, needed : BOOLEAN]
Syncs == [unwatch : SUBSET Users, watch : SUBSET Users, user : SUBSET Users, on : BOOLEAN]
Inboxes == [queue : Seq(Entry), at : {"idle", "persist", "acknowledge"}, entry : Seq(Entry), stored : SUBSET Messages]

\* What the variables can hold.
RunTypes == /\ run \in [at : InLink \cup {"idle", "claim", "ended"}, error : {"none", "transient", "terminal"}, port : Ports \cup {0}]
            /\ life \in {"starting", "up", "cancelled", "stopping", "down"} /\ focus \in Focus
ConnTypes == conn \in Connections /\ srv \in Servers
ReaderTypes == readers \in [1 .. MaxGen -> [at : ReaderPlaces, kind : {"none", "status", "mail", "relogged"}, what : SUBSET (Users \cup Messages)]]
PortTypes == /\ ports \in [open : SUBSET Ports, listener : Ports \cup {0}, listenPort : Ports \cup {0}, closed : BOOLEAN]
             /\ poller \in [at : {"idle", "bound", "accepting", "replaced", "announce"}, port : Ports \cup {0}, old : Ports \cup {0}]
ShareTypes == /\ shares \in [published : 0 .. 1, toldGen : 0 .. MaxGen, told : 0 .. 1, busy : {"none", "login", "scan"},
                             gen : 0 .. MaxGen, read : 0 .. 1]
              /\ scan \in {"idle", "announce", "send"}
PresenceTypes == presence \in Trackers /\ sync \in Syncs
MailTypes == /\ mail \subseteq Messages
             /\ inbox \in Inboxes /\ Len(inbox.queue) <= QueueSize
LinkTypes == RunTypes /\ ConnTypes /\ ReaderTypes /\ PortTypes /\ ShareTypes /\ PresenceTypes /\ MailTypes

\* Run has a connection from the claim to the release.
RunHasConn ==
  /\ conn.set <=> run.at \in InLink
  /\ conn.open => conn.set
  /\ conn.set => conn.gen > 0
  /\ run.at = "claim" => conn.gen < MaxGen

\* A read loop is of the present session, and lives while Run serves it.
OneReader == \A g \in 1 .. MaxGen : readers[g].at # "off" => g = conn.gen /\ run.at \in WithReader

\* announceMu has one holder; what it read is of a session no older than the one that was told last, and it is what is
\* published unless a scan waits for the lock.
AnnounceMu ==
  /\ shares.busy = "login" <=> run.at = "announce"
  /\ shares.busy = "scan" <=> scan = "send"
  /\ shares.toldGen <= conn.gen
  /\ shares.busy # "none" => shares.gen # 0 /\ shares.toldGen <= shares.gen /\ shares.gen <= conn.gen
  /\ shares.busy = "login" => shares.gen = conn.gen
  /\ scan # "announce" /\ shares.busy # "none" => shares.read = shares.published
\* The server of the session has what it was told last; after the login it was told something, and it is what is published
\* unless somebody is about to announce it.
ServerTold ==
  /\ conn.set /\ shares.toldGen = conn.gen => srv.shares = shares.told
  /\ run.at \in LoggedIn /\ conn.open => shares.toldGen = conn.gen
  /\ conn.open /\ shares.toldGen = conn.gen /\ scan = "idle" /\ shares.busy = "none" => shares.told = shares.published

\* The tracker is of the session that Run serves, or of none.
TrackerFollows ==
  /\ presence.gen # 0 => presence.gen = conn.gen /\ run.at \in {"serving", "sync", "acknowledge", "join", "cleanup"}
  /\ PresenceIsCurrent

\* What is open is the listener, and what a rebind is about to make or to close.
PortsOpen ==
  /\ ports.open = {n \in Ports : \/ n = ports.listener
                                 \/ poller.at \in {"bound", "accepting"} /\ n = poller.port
                                 \/ poller.at = "replaced" /\ n = poller.old}
  /\ ports.listener \in {0, ports.listenPort}
  /\ poller.at \in {"bound", "accepting"} => poller.port # ports.listenPort
  /\ poller.at = "replaced" => poller.old # ports.listenPort
  /\ poller.at \in {"bound", "accepting", "replaced", "announce"} => poller.port # 0
ListenerLives ==
  /\ life \in {"up", "cancelled"} => ~ports.closed
  /\ life \in {"up", "cancelled", "stopping"} /\ ~ports.closed => ports.listener # 0
  /\ ports.closed => ports.listener = 0
  /\ life \in {"starting", "down"} => poller.at = "idle" /\ ports.listener = 0

\* What the worker holds came in the session it names; what it is about to acknowledge is stored.
MailIsOfSession ==
  /\ \A g \in 1 .. MaxGen : readers[g].at = "handling" /\ readers[g].kind = "mail" => readers[g].what \subseteq srv.given
  /\ \A i \in 1 .. Len(inbox.queue) : inbox.queue[i].gen # 0 /\ (inbox.queue[i].gen = conn.gen => inbox.queue[i].what \subseteq srv.given)
                                     /\ inbox.queue[i].gen <= conn.gen
  /\ inbox.at # "idle" => Len(inbox.entry) = 1
  /\ \A i \in 1 .. Len(inbox.entry) : inbox.entry[i].gen # 0 /\ (inbox.entry[i].gen = conn.gen => inbox.entry[i].what \subseteq srv.given)
                                     /\ inbox.entry[i].gen <= conn.gen
  /\ inbox.at = "acknowledge" => inbox.entry[1].what \subseteq inbox.stored

LinkInv == /\ LinkTypes /\ RunHasConn /\ OneReader /\ AnnounceMu /\ ServerTold /\ TrackerFollows /\ PortsOpen /\ ListenerLives
           /\ MailIsOfSession

\* Types of what a step writes, and the steps that need more than a line.
LEMMA SendingKeepsTypes ==
  ASSUME conn \in Connections, NEW g, Sends(g) \/ SendFails(g)
  PROVE  conn' \in Connections
BY DEF Connections, Sends, SendFails, CanSend

LEMMA ServerUpdates ==
  ASSUME srv \in Servers
  PROVE  /\ \A n \in Ports \cup {0} : [srv EXCEPT !.port = n] \in Servers
         /\ \A n \in 0 .. 1 : [srv EXCEPT !.shares = n] \in Servers
         /\ \A U \in SUBSET Users : [srv EXCEPT !.watch = U] \in Servers
         /\ \A M \in SUBSET Messages : [srv EXCEPT !.given = M] \in Servers
BY DEF Servers

LEMMA SendListenPortConn ==
  ASSUME LinkInv, SendListenPort
  PROVE  ConnTypes'
<1>1. conn' \in Connections BY SendingKeepsTypes DEF LinkInv, LinkTypes, ConnTypes, SendListenPort
<1>2. srv' \in Servers BY ServerUpdates DEF LinkInv, LinkTypes, ConnTypes, RunTypes, SendListenPort, Sends, SendFails
<1>. QED BY <1>1, <1>2 DEF ConnTypes

LEMMA OpenTreeConn ==
  ASSUME LinkInv, OpenTree
  PROVE  ConnTypes'
<1>1. conn' \in Connections BY SendingKeepsTypes DEF LinkInv, LinkTypes, ConnTypes, OpenTree
<1>2. srv' \in Servers BY DEF LinkInv, LinkTypes, ConnTypes, OpenTree, Sends, SendFails
<1>. QED BY <1>1, <1>2 DEF ConnTypes

LEMMA LoginAnnouncementConn ==
  ASSUME LinkInv, AnnounceSharesOnLogin
  PROVE  ConnTypes'
<1>. USE DEF LinkInv, ConnTypes, LinkTypes
<1>1. conn' \in Connections BY SendingKeepsTypes DEF AnnounceSharesOnLogin, AnnounceSent, AnnounceLost
<1>2. shares.read \in 0 .. 1 BY DEF ShareTypes
<1>3. srv' \in Servers BY <1>2, ServerUpdates DEF AnnounceSharesOnLogin, AnnounceSent, AnnounceLost, Sends, SendFails
<1>. QED BY <1>1, <1>3

LEMMA AnnounceSharesConn ==
  ASSUME LinkInv, AnnounceShares
  PROVE  ConnTypes'
<1>. USE DEF LinkInv, ConnTypes, LinkTypes
<1>1. conn' \in Connections BY SendingKeepsTypes DEF AnnounceShares, AnnounceSent, AnnounceLost
<1>2. shares.read \in 0 .. 1 BY DEF ShareTypes
<1>3. srv' \in Servers BY <1>2, ServerUpdates DEF AnnounceShares, AnnounceSent, AnnounceLost, Sends, SendFails
<1>. QED BY <1>1, <1>3

LEMMA SendWatchConn ==
  ASSUME LinkInv, SendWatch
  PROVE  ConnTypes'
<1>. USE DEF ConnTypes, LinkInv, LinkTypes
<1>1. conn' \in Connections BY SendingKeepsTypes DEF SendWatch
<1>2. sync.unwatch \subseteq Users /\ sync.watch \subseteq Users /\ srv.watch \subseteq Users
  BY DEF PresenceTypes, Syncs, Servers
<1>3. srv' = srv \/ \E U \in SUBSET Users : srv' = [srv EXCEPT !.watch = U] BY <1>2 DEF SendWatch, Sends, SendFails
<1>4. srv' \in Servers BY <1>3, ServerUpdates
<1>. QED BY <1>1, <1>4

LEMMA ReadMessageConn ==
  ASSUME LinkInv, NEW g \in 1 .. MaxGen, ReadMessage(g)
  PROVE  ConnTypes'
<1>. USE DEF LinkInv, ConnTypes, LinkTypes
<1>1. srv.given \subseteq Messages /\ mail \subseteq Messages BY DEF MailTypes, Servers
<1>2. srv' = srv \/ \E M \in SUBSET Messages : srv' = [srv EXCEPT !.given = M] BY <1>1 DEF ReadMessage
<1>3. srv' \in Servers BY <1>2, ServerUpdates
<1>. QED BY <1>3 DEF ReadMessage

LEMMA AcknowledgeMessageConn ==
  ASSUME LinkInv, AcknowledgeMessage
  PROVE  ConnTypes'
<1>1. conn' \in Connections BY SendingKeepsTypes DEF LinkInv, LinkTypes, ConnTypes, AcknowledgeMessage
<1>2. srv' = srv BY DEF AcknowledgeMessage, Sends, SendFails
<1>. QED BY <1>1, <1>2 DEF ConnTypes, LinkInv, LinkTypes

LEMMA AnnouncePortConn ==
  ASSUME LinkInv, AnnouncePort
  PROVE  ConnTypes'
<1>. USE DEF ConnTypes, LinkInv, LinkTypes
<1>1. conn' \in Connections BY SendingKeepsTypes DEF AnnouncePort
<1>2. poller.port \in Ports \cup {0} BY DEF PortTypes
<1>3. srv' \in Servers BY SMTT(40), <1>2, ServerUpdates DEF AnnouncePort, Sends, SendFails
<1>. QED BY <1>1, <1>3

LEMMA QuietTypes == Quiet \in [Users -> 0 .. MaxGen] /\ 0 \in 0 .. MaxGen
BY SMTT(40), LinkAssumption DEF Quiet

LEMMA TrackerUpdates == 
  ASSUME presence \in Trackers
  PROVE  /\ \A r \in SUBSET Users, n \in BOOLEAN : [presence EXCEPT !.remote = r, !.needed = n] \in Trackers
         /\ \A r \in SUBSET Users, f \in [Users -> 0 .. MaxGen], n \in BOOLEAN : [presence EXCEPT !.remote = r, !.online = f, !.needed = n] \in Trackers
         /\ \A f \in [Users -> 0 .. MaxGen] : [presence EXCEPT !.online = f] \in Trackers
         /\ \A h \in 0 .. MaxGen, r \in SUBSET Users, f \in [Users -> 0 .. MaxGen], n \in BOOLEAN : [presence EXCEPT !.gen = h, !.remote = r, !.online = f, !.needed = n] \in Trackers
         /\ \A h \in 0 .. MaxGen, r \in SUBSET Users, f \in [Users -> 0 .. MaxGen] : [presence EXCEPT !.gen = h, !.remote = r, !.online = f] \in Trackers
         /\ \A r \in SUBSET Users, f \in [Users -> 0 .. MaxGen], n \in BOOLEAN : [presence EXCEPT !.desired = r, !.needed = n, !.online = f] \in Trackers
BY ZenonT(150) DEF Trackers

LEMMA ActivatePresenceTypes ==
  ASSUME LinkInv, ActivatePresence
  PROVE  PresenceTypes'
<1>. USE DEF LinkInv, LinkTypes
<1>1. conn.gen \in 0 .. MaxGen BY SMTT(40) DEF ConnTypes, Connections
<1>2. presence' \in Trackers BY ZenonT(150), <1>1, TrackerUpdates, QuietTypes DEF PresenceTypes, ActivatePresence
<1>. QED BY SMTT(40), <1>2 DEF PresenceTypes, ActivatePresence

LEMMA InvalidatePresenceTypes ==
  ASSUME LinkInv, InvalidatePresence
  PROVE  PresenceTypes'
<1>1. presence' \in Trackers BY TrackerUpdates, QuietTypes DEF LinkInv, LinkTypes, PresenceTypes, InvalidatePresence
<1>. QED BY SMTT(40), <1>1 DEF LinkInv, LinkTypes, PresenceTypes, InvalidatePresence

LEMMA SendWatchTypes ==
  ASSUME LinkInv, SendWatch
  PROVE  PresenceTypes'
<1>. USE DEF PresenceTypes, LinkInv, LinkTypes
<1>1. sync.unwatch \subseteq Users /\ sync.watch \subseteq Users BY DEF Syncs
<1>2. sync' = sync \/ \E u \in Users, V, W \in SUBSET Users, b \in BOOLEAN : sync' = [unwatch |-> V, watch |-> W, user |-> {u}, on |-> b]
  BY ZenonT(150), <1>1 DEF SendWatch
<1>3. sync' \in Syncs BY <1>2 DEF Syncs
<1>. QED BY <1>3 DEF SendWatch, RunUnchanged

LEMMA AcknowledgeWatchTypes ==
  ASSUME LinkInv, AcknowledgeWatch
  PROVE  PresenceTypes'
<1>1. PICK u \in sync.user : presence' =
       IF sync.on THEN [presence EXCEPT !.remote = @ \cup {u}, !.needed = @ \/ u \notin presence.desired]
       ELSE [presence EXCEPT !.remote = @ \ {u}, !.online[u] = 0, !.needed = @ \/ u \in presence.desired]
  BY DEF AcknowledgeWatch
<1>2. u \in Users /\ presence \in Trackers BY DEF LinkInv, LinkTypes, PresenceTypes, Syncs, Trackers
<1>3. presence.remote \in SUBSET Users /\ presence.needed \in BOOLEAN /\ presence.online \in [Users -> 0 .. MaxGen]
  BY <1>2 DEF Trackers
<1>. DEFINE f == [presence.online EXCEPT ![u] = 0]
<1>4. f \in [Users -> 0 .. MaxGen] BY SMTT(40), <1>2, <1>3, QuietTypes
<1>5. ASSUME sync.on PROVE presence' \in Trackers
  <2>. DEFINE r == presence.remote \cup {u}  n == presence.needed \/ u \notin presence.desired
  <2>1. presence' = [presence EXCEPT !.remote = r, !.needed = n] BY SMTT(40), <1>1, <1>5
  <2>2. r \in SUBSET Users /\ n \in BOOLEAN BY SMTT(40), <1>2, <1>3
  <2>. HIDE DEF r, n
  <2>. QED BY ZenonT(150), <1>2, <2>1, <2>2, TrackerUpdates
<1>6. ASSUME ~sync.on PROVE presence' \in Trackers
  <2>. DEFINE r == presence.remote \ {u}  n == presence.needed \/ u \in presence.desired
  <2>1. presence' = [presence EXCEPT !.remote = r, !.online = f, !.needed = n] BY <1>1, <1>6
  <2>2. r \in SUBSET Users /\ n \in BOOLEAN BY <1>2, <1>3
  <2>. HIDE DEF r, n, f
  <2>. QED BY <1>2, <1>4, <2>1, <2>2, TrackerUpdates
<1>7. sync' \in Syncs BY DEF AcknowledgeWatch, LinkInv, LinkTypes, PresenceTypes, Syncs
<1>. QED BY <1>5, <1>6, <1>7 DEF PresenceTypes

LEMMA UpdateStatusTypes ==
  ASSUME LinkInv, NEW g \in 1 .. MaxGen, UpdateStatus(g)
  PROVE  PresenceTypes'
<1>1. presence \in Trackers /\ presence.online \in [Users -> 0 .. MaxGen] BY DEF LinkInv, LinkTypes, PresenceTypes, Trackers
<1>2. g \in 0 .. MaxGen BY LinkAssumption
<1>3. presence' = presence \/ \E f \in [Users -> 0 .. MaxGen] : presence' = [presence EXCEPT !.online = f]
  <2>. DEFINE f == [u \in Users |-> IF u \in readers[g].what \cap presence.desired THEN g ELSE presence.online[u]]
  <2>1. f \in [Users -> 0 .. MaxGen] BY <1>1, <1>2
  <2>2. presence' = presence \/ presence' = [presence EXCEPT !.online = f] BY SMTT(40) DEF UpdateStatus
  <2>. QED BY <2>1, <2>2
<1>4. presence' \in Trackers BY <1>1, <1>3, TrackerUpdates
<1>. QED BY <1>4 DEF LinkInv, LinkTypes, PresenceTypes, UpdateStatus, ReaderUnchanged

LEMMA ConversationPresenceTypes ==
  ASSUME LinkInv, NEW users \in SUBSET Users, ConversationPresence(users)
  PROVE  PresenceTypes'
<1>1. presence \in Trackers /\ presence.online \in [Users -> 0 .. MaxGen] BY DEF LinkInv, LinkTypes, PresenceTypes, Trackers
<1>. DEFINE f == [u \in Users |-> IF u \in users THEN presence.online[u] ELSE 0]
<1>2. f \in [Users -> 0 .. MaxGen] BY <1>1, QuietTypes
<1>3. presence' = [presence EXCEPT !.desired = users, !.needed = TRUE, !.online = f] BY DEF ConversationPresence
<1>4. presence' \in Trackers BY <1>1, <1>2, <1>3, TrackerUpdates
<1>. QED BY <1>4 DEF LinkInv, LinkTypes, PresenceTypes, ConversationPresence

LEMMA InboxUpdates ==
  ASSUME inbox \in Inboxes
  PROVE  /\ \A s \in Seq(Entry) : [inbox EXCEPT !.queue = s] \in Inboxes
         /\ \A s, e \in Seq(Entry) : [inbox EXCEPT !.queue = s, !.at = "persist", !.entry = e] \in Inboxes
         /\ \A M \in SUBSET Messages : [inbox EXCEPT !.at = "acknowledge", !.stored = M] \in Inboxes
         /\ [inbox EXCEPT !.at = "idle", !.entry = <<>>] \in Inboxes
<1>. USE DEF Inboxes
<1>1. \A s \in Seq(Entry) : [inbox EXCEPT !.queue = s] \in Inboxes OBVIOUS
<1>2. \A s, e \in Seq(Entry) : [inbox EXCEPT !.queue = s, !.at = "persist", !.entry = e] \in Inboxes OBVIOUS
<1>3. \A M \in SUBSET Messages : [inbox EXCEPT !.at = "acknowledge", !.stored = M] \in Inboxes OBVIOUS
<1>4. <<>> \in Seq(Entry) OBVIOUS
<1>. DEFINE e == <<>>
<1>. HIDE DEF e
<1>5. e \in Seq(Entry) => [inbox EXCEPT !.at = "idle", !.entry = e] \in Inboxes OBVIOUS
<1>. QED BY <1>1, <1>2, <1>3, <1>4, <1>5 DEF e

LEMMA HandleIncomingMail ==
  ASSUME LinkInv, NEW g \in 1 .. MaxGen, HandleIncomingPrivateMessage(g)
  PROVE  MailTypes' /\ MailIsOfSession'
<1>. DEFINE e == [what |-> readers[g].what, gen |-> CurrentGeneration]  s == Append(inbox.queue, e)
<1>1. readers[g].what \subseteq Messages
  BY DEF LinkInv, LinkTypes, HandleIncomingPrivateMessage, MailIsOfSession, ConnTypes, Servers
<1>2. CurrentGeneration \in 0 .. MaxGen BY QuietTypes DEF LinkInv, LinkTypes, ConnTypes, Connections, CurrentGeneration
<1>3. e \in Entry BY <1>1, <1>2 DEF Entry
<1>4. inbox \in Inboxes /\ inbox.queue \in Seq(Entry) /\ Len(inbox.queue) <= QueueSize /\ QueueSize \in Nat
  BY LinkAssumption DEF LinkInv, LinkTypes, MailTypes, Inboxes
<1>5. e.what = readers[g].what /\ e.gen = CurrentGeneration OBVIOUS
<1>. HIDE DEF e
<1>6. s \in Seq(Entry) /\ Len(s) = Len(inbox.queue) + 1 BY <1>3, <1>4
<1>7. inbox' = inbox \/ (inbox' = [inbox EXCEPT !.queue = s] /\ Len(inbox.queue) # QueueSize)
  BY DEF HandleIncomingPrivateMessage, e
<1>. HIDE DEF s
<1>8. inbox' \in Inboxes BY <1>4, <1>6, <1>7, InboxUpdates
<1>9. inbox'.queue = inbox.queue \/ (inbox'.queue = s /\ Len(inbox.queue) # QueueSize) BY <1>4, <1>7 DEF Inboxes
<1>10. Len(inbox.queue) \in Nat BY <1>4
<1>11. Len(inbox'.queue) <= QueueSize BY <1>4, <1>6, <1>9, <1>10
<1>12. MailTypes' BY <1>8, <1>11 DEF LinkInv, LinkTypes, MailTypes, HandleIncomingPrivateMessage, ReaderUnchanged
<1>. DEFINE Good(x) == x.gen # 0 /\ (x.gen = conn.gen => x.what \subseteq srv.given) /\ x.gen <= conn.gen
<1>13. ASSUME inbox' # inbox PROVE Good(e)
  <2>1. CurrentGeneration # 0 BY <1>13 DEF HandleIncomingPrivateMessage
  <2>2. readers[g].what \subseteq srv.given BY DEF HandleIncomingPrivateMessage, LinkInv, MailIsOfSession
  <2>3. CurrentGeneration = conn.gen /\ conn.gen \in Nat
    BY <2>1, LinkAssumption DEF CurrentGeneration, LinkInv, LinkTypes, ConnTypes, Connections
  <2>. QED BY <1>5, <2>1, <2>2, <2>3
<1>14. \A i \in 1 .. Len(inbox.queue) : Good(inbox.queue[i]) BY DEF LinkInv, MailIsOfSession
<1>15. ASSUME inbox' # inbox PROVE \A i \in 1 .. Len(s) : Good(s[i])
  <2>1. \A i \in 1 .. Len(s) : s[i] = e \/ (i \in 1 .. Len(inbox.queue) /\ s[i] = inbox.queue[i]) BY <1>3, <1>4, <1>6, <1>10 DEF s
  <2>. HIDE DEF Good
  <2>. QED BY <1>13, <1>14, <1>15, <2>1
<1>16. \A i \in 1 .. Len(inbox'.queue) : Good(inbox'.queue[i])
  <2>. HIDE DEF Good
  <2>. QED BY <1>9, <1>14, <1>15
<1>17. inbox'.at = inbox.at /\ inbox'.entry = inbox.entry /\ inbox'.stored = inbox.stored BY <1>4, <1>7 DEF Inboxes
<1>18. UNCHANGED <<conn, srv>> /\ \A h \in 1 .. MaxGen : readers'[h].at = "handling" => readers'[h] = readers[h]
  BY DEF HandleIncomingPrivateMessage, ReaderUnchanged, Reading, NoReader, LinkInv, LinkTypes, ReaderTypes
<1>19. MailIsOfSession' BY <1>16, <1>17, <1>18 DEF LinkInv, MailIsOfSession
<1>. QED BY <1>12, <1>19

LEMMA TakeMessageMail ==
  ASSUME LinkInv, TakeMessage
  PROVE  MailTypes' /\ MailIsOfSession'
<1>1. inbox \in Inboxes /\ inbox.queue \in Seq(Entry) /\ inbox.queue # <<>> /\ Len(inbox.queue) <= QueueSize /\ QueueSize \in Nat
  BY LinkAssumption DEF LinkInv, LinkTypes, MailTypes, Inboxes, TakeMessage
<1>. DEFINE q0 == inbox.queue  s == Tail(q0)  e == <<Head(q0)>>
<1>2. /\ s \in Seq(Entry) /\ Len(s) = Len(q0) - 1 /\ Len(q0) \in Nat \ {0} /\ e \in Seq(Entry) /\ Len(e) = 1 /\ e[1] = q0[1]
      /\ \A i \in 1 .. Len(s) : s[i] = q0[i + 1] /\ i + 1 \in 1 .. Len(q0)
  BY <1>1
<1>3. inbox' = [inbox EXCEPT !.queue = s, !.at = "persist", !.entry = e] BY DEF TakeMessage
<1>. HIDE DEF s, e
<1>4. inbox' \in Inboxes BY <1>1, <1>2, <1>3, InboxUpdates
<1>5. inbox'.queue = s /\ inbox'.entry = e /\ inbox'.at = "persist" BY <1>1, <1>3 DEF Inboxes
<1>6. UNCHANGED <<mail, conn, srv, readers>> BY DEF TakeMessage, WorkerUnchanged
<1>7. Len(s) <= QueueSize BY <1>1, <1>2
<1>8. MailTypes' BY <1>4, <1>5, <1>6, <1>7 DEF LinkInv, LinkTypes, MailTypes
<1>9. 1 \in 1 .. Len(q0) BY <1>2
<1>. HIDE DEF q0
<1>10. \A i \in 1 .. Len(s) : s[i].gen # 0 /\ (s[i].gen = conn.gen => s[i].what \subseteq srv.given) /\ s[i].gen <= conn.gen
  BY <1>2 DEF LinkInv, MailIsOfSession, q0
<1>11. \A i \in 1 .. Len(e) : e[i].gen # 0 /\ (e[i].gen = conn.gen => e[i].what \subseteq srv.given) /\ e[i].gen <= conn.gen
  <2>1. q0[1].gen # 0 /\ (q0[1].gen = conn.gen => q0[1].what \subseteq srv.given) /\ q0[1].gen <= conn.gen
    BY <1>9 DEF LinkInv, MailIsOfSession, q0
  <2>2. \A i \in 1 .. Len(e) : i = 1 BY <1>2
  <2>. QED BY <1>2, <2>1, <2>2
<1>12. MailIsOfSession' BY <1>2, <1>5, <1>6, <1>10, <1>11 DEF LinkInv, MailIsOfSession
<1>. QED BY <1>8, <1>12

LEMMA PersistMessageMail ==
  ASSUME LinkInv, PersistMessage
  PROVE  MailTypes' /\ MailIsOfSession'
<1>1. inbox \in Inboxes /\ inbox.entry \in Seq(Entry) /\ Len(inbox.entry) = 1 /\ inbox.stored \subseteq Messages
  BY DEF LinkInv, LinkTypes, MailTypes, Inboxes, PersistMessage, MailIsOfSession
<1>2. inbox.entry[1] \in Entry BY <1>1
<1>3. inbox.entry[1].what \subseteq Messages BY <1>2 DEF Entry
<1>. DEFINE M == inbox.stored \cup inbox.entry[1].what
<1>4. inbox' = [inbox EXCEPT !.at = "acknowledge", !.stored = M] \/ inbox' = [inbox EXCEPT !.at = "idle", !.entry = <<>>]
  BY DEF PersistMessage
<1>5. inbox' \in Inboxes /\ inbox'.queue = inbox.queue
  <2>1. M \in SUBSET Messages BY <1>1, <1>3
  <2>. HIDE DEF M
  <2>2. inbox' \in Inboxes BY <1>1, <1>4, <2>1, InboxUpdates
  <2>3. inbox'.queue = inbox.queue BY <1>1, <1>4 DEF Inboxes
  <2>. QED BY <2>2, <2>3
<1>6. MailTypes' BY <1>5 DEF LinkInv, LinkTypes, MailTypes, PersistMessage, WorkerUnchanged
<1>7. \/ inbox'.at = "acknowledge" /\ inbox'.stored = M /\ inbox'.entry = inbox.entry
      \/ inbox'.at = "idle" /\ inbox'.entry = <<>>
  BY <1>1, <1>4 DEF Inboxes
<1>8. MailIsOfSession' BY <1>1, <1>5, <1>7 DEF LinkInv, MailIsOfSession, PersistMessage, WorkerUnchanged
<1>. QED BY <1>6, <1>8

LEMMA AcknowledgeMessageMail ==
  ASSUME LinkInv, AcknowledgeMessage
  PROVE  MailTypes' /\ MailIsOfSession'
<1>. USE DEF LinkInv
<1>1. inbox \in Inboxes BY DEF LinkTypes, MailTypes
<1>2. inbox' = [inbox EXCEPT !.at = "idle", !.entry = <<>>] BY DEF AcknowledgeMessage
<1>3. inbox' \in Inboxes /\ inbox'.queue = inbox.queue /\ inbox'.at = "idle" /\ inbox'.entry = <<>>
  BY <1>1, <1>2, InboxUpdates DEF Inboxes
<1>4. mail' \subseteq mail BY DEF AcknowledgeMessage
<1>5. MailTypes' BY <1>3, <1>4 DEF LinkTypes, MailTypes
<1>6. srv' = srv /\ conn'.gen = conn.gen /\ readers' = readers
  BY DEF LinkTypes, ConnTypes, Connections, AcknowledgeMessage, Sends, SendFails, WorkerUnchanged
<1>7. MailIsOfSession' BY <1>3, <1>6 DEF MailIsOfSession
<1>. QED BY <1>5, <1>7

LEMMA ClaimConnectionMail ==
  ASSUME LinkInv, ClaimConnection
  PROVE  MailIsOfSession'
<1>. USE DEF LinkInv
<1>1. conn'.gen = conn.gen + 1 /\ conn.gen \in Nat BY DEF LinkTypes, ConnTypes, Connections, ClaimConnection
<1>2. \A g \in 1 .. MaxGen : readers[g].at = "off" BY DEF OneReader, ClaimConnection, WithReader
<1>3. UNCHANGED <<inbox, readers>> BY DEF ClaimConnection, RunUnchanged
<1>4. inbox.queue \in Seq(Entry) /\ inbox.entry \in Seq(Entry) BY DEF LinkTypes, MailTypes, Inboxes
<1>5. \A e \in Entry : e.gen \in Nat BY LinkAssumption DEF Entry
<1>6. (\A i \in 1 .. Len(inbox.queue) : inbox.queue[i] \in Entry) /\ (\A i \in 1 .. Len(inbox.entry) : inbox.entry[i] \in Entry)
  BY <1>4
<1>7. \A i \in 1 .. Len(inbox.queue) : inbox.queue[i].gen \in Nat BY <1>5, <1>6
<1>8. \A i \in 1 .. Len(inbox.entry) : inbox.entry[i].gen \in Nat BY <1>5, <1>6
<1>9. \A n \in Nat : n <= conn.gen => n # conn'.gen /\ n <= conn'.gen BY <1>1
<1>10. \A i \in 1 .. Len(inbox.queue) : inbox.queue[i].gen # 0 /\ inbox.queue[i].gen # conn'.gen /\ inbox.queue[i].gen <= conn'.gen
  BY <1>7, <1>9 DEF MailIsOfSession
<1>11. \A i \in 1 .. Len(inbox.entry) : inbox.entry[i].gen # 0 /\ inbox.entry[i].gen # conn'.gen /\ inbox.entry[i].gen <= conn'.gen
  BY <1>8, <1>9 DEF MailIsOfSession
<1>. QED BY <1>2, <1>3, <1>10, <1>11 DEF MailIsOfSession

LEMMA GivenGrows ==
  ASSUME MailIsOfSession, conn'.gen = conn.gen, srv.given \subseteq srv'.given, UNCHANGED inbox,
         \A g \in 1 .. MaxGen : readers'[g].at = "handling" /\ readers'[g].kind = "mail" => readers'[g].what \subseteq srv'.given
  PROVE  MailIsOfSession'
BY DEF MailIsOfSession

LEMMA SendWatchMail ==
  ASSUME LinkInv, SendWatch
  PROVE  MailIsOfSession'
<1>. USE DEF LinkInv, SendWatch
<1>1. conn'.gen = conn.gen BY DEF LinkTypes, ConnTypes, Connections, Sends, SendFails
<1>2. srv' = srv \/ \E U : srv' = [srv EXCEPT !.watch = U] BY DEF SendFails
<1>3. srv'.given = srv.given BY <1>2 DEF LinkTypes, ConnTypes, Servers
<1>4. UNCHANGED <<inbox, readers>> BY DEF RunUnchanged
<1>. QED BY <1>1, <1>3, <1>4, GivenGrows DEF MailIsOfSession

LEMMA ReadMessageMail ==
  ASSUME LinkInv, NEW g \in 1 .. MaxGen, ReadMessage(g)
  PROVE  ReaderTypes' /\ MailIsOfSession'
<1>. DEFINE Now(k, W) == [at |-> "handling", kind |-> k, what |-> W]
<1>1. /\ srv \in Servers /\ srv.watch \subseteq Users /\ srv.given \subseteq Messages /\ mail \subseteq Messages
      /\ readers \in [1 .. MaxGen -> [at : ReaderPlaces, kind : {"none", "status", "mail", "relogged"}, what : SUBSET (Users \cup Messages)]]
  BY DEF LinkInv, LinkTypes, ConnTypes, Servers, MailTypes, ReaderTypes
<1>2. \E k \in {"status", "mail", "relogged"}, W \in SUBSET (Users \cup Messages) :
         /\ readers' = [readers EXCEPT ![g] = Now(k, W)]
         /\ k = "mail" => W \subseteq srv'.given
         /\ srv.given \subseteq srv'.given
  <2>1. ASSUME NEW u \in srv.watch, Holds(g, "status", {u}), UNCHANGED srv PROVE <1>2!:
    <3>1. {u} \in SUBSET (Users \cup Messages) BY <1>1
    <3>. QED BY <2>1, <3>1 DEF Holds
  <2>2. ASSUME NEW m \in mail \ srv.given, Holds(g, "mail", {m}), srv' = [srv EXCEPT !.given = @ \cup {m}] PROVE <1>2!:
    <3>1. {m} \in SUBSET (Users \cup Messages) BY <1>1
    <3>2. srv'.given = srv.given \cup {m} BY <1>1, <2>2 DEF Servers
    <3>. QED BY <2>2, <3>1, <3>2 DEF Holds
  <2>3. ASSUME Holds(g, "relogged", {}), UNCHANGED srv PROVE <1>2!:
    <3>1. {} \in SUBSET (Users \cup Messages) OBVIOUS
    <3>. QED BY <2>3, <3>1 DEF Holds
  <2>. QED BY <2>1, <2>2, <2>3 DEF ReadMessage
<1>3. PICK k \in {"status", "mail", "relogged"}, W \in SUBSET (Users \cup Messages) : <1>2!(k, W) BY <1>2
<1>4. ReaderTypes' BY <1>1, <1>3 DEF ReaderTypes, ReaderPlaces
<1>5. conn'.gen = conn.gen /\ UNCHANGED inbox BY DEF ReadMessage
<1>6. readers'[g] = Now(k, W) BY <1>1, <1>3
<1>7. \A h \in 1 .. MaxGen : h # g => readers'[h] = readers[h] BY <1>1, <1>3
<1>8. \A h \in 1 .. MaxGen : readers'[h].at = "handling" /\ readers'[h].kind = "mail" => readers'[h].what \subseteq srv'.given
  BY <1>3, <1>6, <1>7 DEF LinkInv, MailIsOfSession
<1>9. MailIsOfSession' BY <1>3, <1>5, <1>8, GivenGrows DEF LinkInv
<1>. QED BY <1>4, <1>9

LEMMA LoginAnnouncementTold ==
  ASSUME LinkInv, AnnounceSharesOnLogin
  PROVE  AnnounceMu' /\ ServerTold'
<1>. USE DEF RunHasConn, ServerTold, RunTypes, LinkInv, ShareTypes, ConnTypes, LoggedIn, AnnounceMu, RunUnchanged,
     Connections, LinkTypes
<1>1. ASSUME run.at = "login", Announce("login"), UNCHANGED <<conn, srv>>,
             Goto(IF shares'.busy = "login" THEN "announce" ELSE "read"), RunUnchanged PROVE AnnounceMu' /\ ServerTold'
  <2>. USE DEF CurrentGeneration
  <2>1. ASSUME UNCHANGED shares, CurrentGeneration = 0 \/ Told, shares.busy = "none" PROVE AnnounceMu' /\ ServerTold'
    BY <1>1, <2>1 DEF InLink, LoggingIn, Goto, Told
  <2>2. ASSUME CurrentGeneration # 0, ~Told, shares.busy = "none",
               shares' = [shares EXCEPT !.busy = "login", !.gen = CurrentGeneration, !.read = shares.published] PROVE AnnounceMu' /\ ServerTold'
    <3>1. shares'.busy = "login" /\ shares'.gen = conn.gen /\ shares'.read = shares.published /\ shares'.published = shares.published
          /\ shares'.toldGen = shares.toldGen /\ shares'.told = shares.told BY <2>2
    <3>2. run'.at = "announce" BY <1>1, <3>1 DEF Goto
    <3>. QED BY <1>1, <2>2, <3>1, <3>2
  <2>. QED BY <1>1, <2>1, <2>2 DEF Announce
<1>2. ASSUME run.at = "announce", AnnounceSent, Goto("read") PROVE AnnounceMu' /\ ServerTold'
  BY <1>2 DEF Servers, InLink, LoggingIn, AnnounceSharesOnLogin, AnnounceSent, Sends, CanSend, Goto
<1>3. ASSUME run.at = "announce", AnnounceLost, Leads("cleanup", "transient") PROVE AnnounceMu' /\ ServerTold'
  BY <1>3 DEF Servers, InLink, LoggingIn, AnnounceSharesOnLogin, AnnounceLost, SendFails, CanSend, Leads
<1>. QED BY <1>1, <1>2, <1>3 DEF AnnounceSharesOnLogin

LEMMA AnnounceSharesTold ==
  ASSUME LinkInv, AnnounceShares
  PROVE  ServerTold'
<1>. USE DEF RunHasConn, ServerTold, LinkInv, AnnounceMu, ShareTypes, LinkTypes, AnnounceShares
<1>1. ASSUME scan = "announce", Announce("scan"), scan' = (IF shares'.busy = "scan" THEN "send" ELSE "idle"), UNCHANGED <<conn, srv>>, run' = run PROVE ServerTold'
  <2>1. ASSUME UNCHANGED shares, CurrentGeneration = 0 \/ Told \/ shares.toldGen # CurrentGeneration, shares.busy = "none" PROVE ServerTold'
    BY <1>1, <2>1 DEF CurrentGeneration, Told
  <2>2. ASSUME shares' = [shares EXCEPT !.busy = "scan", !.gen = CurrentGeneration, !.read = shares.published] PROVE ServerTold'
    <3>1. shares'.busy = "scan" /\ shares'.toldGen = shares.toldGen /\ shares'.told = shares.told BY <2>2
    <3>. QED BY <1>1, <3>1
  <2>. QED BY <1>1, <2>1, <2>2 DEF Announce
<1>2. ASSUME scan = "send", AnnounceSent PROVE ServerTold'
  BY <1>2 DEF RunTypes, ConnTypes, Connections, Servers, LoggedIn, InLink, LoggingIn, AnnounceSent, Sends, CanSend
<1>3. ASSUME scan = "send", AnnounceLost PROVE ServerTold'
  BY <1>3 DEF RunTypes, ConnTypes, Connections, Servers, LoggedIn, InLink, LoggingIn, AnnounceLost, SendFails, CanSend
<1>. QED BY <1>1, <1>2, <1>3

LEMMA SetPeerListenerPorts ==
  ASSUME LinkInv, SetPeerListener
  PROVE  PortTypes' /\ PortsOpen'
<1>. USE DEF LinkInv, PortTypes, LinkTypes, SetPeerListener
<1>1. ASSUME ports.closed PROVE PortTypes' /\ PortsOpen'
  <2>1. PortTypes' BY <1>1 DEF Polls
  <2>2. PortsOpen' BY <1>1 DEF PortsOpen, ListenerLives, Polls
  <2>. QED BY <2>1, <2>2
<1>2. ASSUME ~ports.closed PROVE PortTypes' /\ PortsOpen'
  <2>1. PortTypes' BY ZenonT(150), <1>2
  <2>2. /\ poller'.at = "replaced" /\ poller'.port = poller.port /\ poller'.old = ports.listener /\ poller.at = "accepting"
        /\ ports'.open = ports.open /\ ports'.listener = poller.port /\ ports'.listenPort = poller.port
    BY <1>2
  <2>3. PortsOpen' BY <2>2 DEF PortsOpen
  <2>. QED BY <2>1, <2>3
<1>. QED BY <1>1, <1>2

\* Each action keeps the invariant.
LEMMA LinkStep ==
  ASSUME LinkInv, Next
  PROVE  LinkInv'
<1>. USE DEF LinkInv, LinkTypes
<1>1. ASSUME LinkInv, TrySetup PROVE LinkInv'
  <2>. USE LinkAssumption DEF InLink, TrySetup, PortTypes, LoggedIn, LifeUnchanged
  <2>1. RunTypes' BY <1>1 DEF RunTypes, LoggingIn
  <2>2. PortTypes' BY <1>1
  <2>3. PortsOpen' BY <1>1 DEF PortsOpen, ListenerLives
  <2>4. ListenerLives' BY <1>1 DEF ListenerLives, RunTypes, PortsOpen, LoggingIn
  <2>5. ConnTypes' /\ ReaderTypes' /\ ShareTypes' /\ PresenceTypes' /\ MailTypes' /\ RunHasConn' /\ OneReader' /\
        AnnounceMu' /\ ServerTold' /\ TrackerFollows' /\ MailIsOfSession'
    <3>1. UNCHANGED <<run, conn, srv, readers, shares, scan, presence, sync, mail, inbox>> BY <1>1
    <3>. QED BY <1>1, <3>1 DEF ConnTypes, Servers, ReaderTypes, ShareTypes, PresenceTypes, MailTypes, RunHasConn, OneReader,
         WithReader, AnnounceMu, ServerTold, TrackerFollows, PresenceIsCurrent, MailIsOfSession
  <2>. QED BY <2>1, <2>2, <2>3, <2>4, <2>5
<1>2. ASSUME LinkInv, AbandonSetup PROVE LinkInv'
  <2>. USE DEF AbandonSetup, InLink, PortTypes, LoggedIn, LifeUnchanged
  <2>1. RunTypes' BY <1>2, LinkAssumption DEF RunTypes, LoggingIn
  <2>2. ListenerLives' BY <1>2, LinkAssumption DEF ListenerLives, RunTypes, PortsOpen, LoggingIn
  <2>3. ConnTypes' /\ ReaderTypes' /\ PortTypes' /\ ShareTypes' /\ PresenceTypes' /\ MailTypes' /\ RunHasConn' /\
        OneReader' /\ AnnounceMu' /\ ServerTold' /\ TrackerFollows' /\ PortsOpen' /\ MailIsOfSession'
    <3>1. UNCHANGED <<run, conn, srv, readers, ports, poller, shares, scan, presence, sync, mail, inbox>> BY <1>2
    <3>. QED BY <1>2, <3>1 DEF ConnTypes, Servers, ReaderTypes, ShareTypes, PresenceTypes, MailTypes, RunHasConn, OneReader,
         WithReader, AnnounceMu, ServerTold, TrackerFollows, PresenceIsCurrent, PortsOpen, MailIsOfSession
  <2>. QED BY <2>1, <2>2, <2>3
<1>3. ASSUME LinkInv, Connect PROVE LinkInv'
  <2>1. ConnTypes' /\ ReaderTypes' /\ PortTypes' /\ ShareTypes' /\ PresenceTypes' /\ MailTypes' /\ PortsOpen' /\
        ListenerLives' /\ MailIsOfSession'
    <3>1. UNCHANGED <<life, conn, srv, readers, ports, poller, shares, scan, presence, sync, mail, inbox>> BY <1>3 DEF
         Connect, Goto, Leads, RunUnchanged
    <3>. QED BY <1>3, <3>1 DEF LinkInv, LinkTypes, ConnTypes, Servers, ReaderTypes, PortTypes, ShareTypes,
         PresenceTypes, MailTypes, PortsOpen, ListenerLives, MailIsOfSession
  <2>. USE LinkAssumption DEF Goto, Connect, Leads, RunTypes, InLink, LoggedIn, LoggingIn, RunUnchanged, RunHasConn, Servers,
       ConnTypes, Connections
  <2>2. RunTypes' BY <1>3 DEF PortTypes
  <2>3. RunHasConn' BY <1>3
  <2>4. OneReader' BY <1>3 DEF OneReader, ReaderTypes, WithReader, ReaderPlaces
  <2>5. AnnounceMu' BY <1>3 DEF AnnounceMu, ShareTypes
  <2>6. ServerTold' BY <1>3 DEF ServerTold, ShareTypes, AnnounceMu
  <2>7. TrackerFollows'
    BY <1>3 DEF TrackerFollows, PresenceTypes, ReaderTypes, OneReader, PresenceIsCurrent, Trackers, Syncs, ReaderPlaces,
       WithReader
  <2>. QED BY <2>2, <2>3, <2>4, <2>5, <2>6, <2>7, <2>1
<1>4. ASSUME LinkInv, RunEnds PROVE LinkInv'
  <2>. USE LinkAssumption DEF Goto, RunTypes, InLink, RunEnds, LoggedIn, LoggingIn, RunUnchanged, RunHasConn, Servers,
       ConnTypes, Connections
  <2>1. RunTypes' BY <1>4 DEF PortTypes
  <2>2. RunHasConn' BY <1>4
  <2>3. OneReader' BY <1>4 DEF OneReader, ReaderTypes, WithReader, ReaderPlaces
  <2>4. AnnounceMu' BY <1>4 DEF AnnounceMu, ShareTypes
  <2>5. ServerTold' BY <1>4 DEF ServerTold, ShareTypes, AnnounceMu
  <2>6. TrackerFollows'
    BY <1>4 DEF TrackerFollows, PresenceTypes, ReaderTypes, OneReader, PresenceIsCurrent, Trackers, Syncs, ReaderPlaces,
       WithReader
  <2>7. ConnTypes' /\ ReaderTypes' /\ PortTypes' /\ ShareTypes' /\ PresenceTypes' /\ MailTypes' /\ PortsOpen' /\
        ListenerLives' /\ MailIsOfSession'
    <3>1. UNCHANGED <<life, conn, srv, readers, ports, poller, shares, scan, presence, sync, mail, inbox>> BY <1>4
    <3>. QED BY SMTT(100), <1>4, <3>1 DEF ReaderTypes, PortTypes, ShareTypes, PresenceTypes, MailTypes, PortsOpen, ListenerLives,
         MailIsOfSession
  <2>. QED BY <2>1, <2>2, <2>3, <2>4, <2>5, <2>6, <2>7
<1>5. ASSUME LinkInv, ClaimConnection PROVE LinkInv'
  <2>1. MailIsOfSession' BY <1>5, ClaimConnectionMail
  <2>. USE LinkAssumption DEF Goto, RunTypes, InLink, ClaimConnection, LoggedIn, NewSession, LoggingIn, RunUnchanged,
       ShareTypes, ConnTypes, Connections, RunHasConn, ReaderTypes, Servers
  <2>2. RunTypes' BY <1>5 DEF PortTypes
  <2>3. ConnTypes' BY SMTT(40), <1>5 DEF PortTypes, PresenceTypes, Trackers, Syncs, ReaderPlaces
  <2>4. RunHasConn' BY <1>5
  <2>5. OneReader' BY <1>5 DEF OneReader, WithReader, ReaderPlaces
  <2>6. AnnounceMu' BY <1>5 DEF AnnounceMu
  <2>7. ServerTold' BY <1>5 DEF ServerTold, AnnounceMu
  <2>8. TrackerFollows'
    BY <1>5 DEF TrackerFollows, PresenceTypes, OneReader, PresenceIsCurrent, Trackers, Syncs, ReaderPlaces, WithReader
  <2>9. ReaderTypes' /\ PortTypes' /\ ShareTypes' /\ PresenceTypes' /\ MailTypes' /\ PortsOpen' /\ ListenerLives'
    <3>1. UNCHANGED <<life, readers, ports, poller, shares, scan, presence, sync, mail, inbox>> BY <1>5
    <3>. QED BY <1>5, <3>1 DEF PortTypes, PresenceTypes, MailTypes, PortsOpen, ListenerLives
  <2>. QED BY <2>2, <2>3, <2>4, <2>5, <2>6, <2>7, <2>8, <2>1, <2>9
<1>6. ASSUME LinkInv, ReadListenPort PROVE LinkInv'
  <2>. USE LinkAssumption DEF ReadListenPort, InLink, RunTypes, LoggedIn, LoggingIn, RunUnchanged, RunHasConn, Servers,
       ConnTypes, Connections
  <2>1. RunTypes' BY <1>6 DEF PortTypes
  <2>2. RunHasConn' BY <1>6
  <2>3. OneReader' BY <1>6 DEF OneReader, ReaderTypes, WithReader, ReaderPlaces
  <2>4. AnnounceMu' BY <1>6 DEF AnnounceMu, ShareTypes
  <2>5. ServerTold' BY <1>6 DEF ServerTold, ShareTypes, AnnounceMu
  <2>6. TrackerFollows'
    BY <1>6 DEF TrackerFollows, PresenceTypes, ReaderTypes, OneReader, PresenceIsCurrent, Trackers, Syncs, ReaderPlaces,
       WithReader
  <2>7. ConnTypes' /\ ReaderTypes' /\ PortTypes' /\ ShareTypes' /\ PresenceTypes' /\ MailTypes' /\ PortsOpen' /\
        ListenerLives' /\ MailIsOfSession'
    <3>1. UNCHANGED <<life, conn, srv, readers, ports, poller, shares, scan, presence, sync, mail, inbox>> BY <1>6
    <3>. QED BY <1>6, <3>1 DEF ReaderTypes, PortTypes, ShareTypes, PresenceTypes, MailTypes, PortsOpen, ListenerLives,
         MailIsOfSession
  <2>. QED BY <2>1, <2>2, <2>3, <2>4, <2>5, <2>6, <2>7
<1>7. ASSUME LinkInv, SendListenPort PROVE LinkInv'
  <2>1. ConnTypes' BY <1>7, SendListenPortConn
  <2>2. AnnounceMu'
    BY <1>7, LinkAssumption DEF SendListenPort, Sends, Leads, SendFails, RunUnchanged, CanSend, AnnounceMu, RunTypes,
       ConnTypes, ShareTypes, RunHasConn, InLink, Connections, Servers, LoggingIn, LoggedIn, LinkInv, LinkTypes
  <2>. USE LinkAssumption DEF RunTypes, Leads, InLink, Sends, SendListenPort, SendFails, LoggedIn, LoggingIn, RunUnchanged,
       CanSend, RunHasConn, Servers, ConnTypes, Connections, ReaderTypes
  <2>3. RunTypes' BY <1>7 DEF PortTypes
  <2>4. RunHasConn' BY <1>7
  <2>5. OneReader' BY <1>7 DEF OneReader, WithReader, ReaderPlaces
  <2>6. ServerTold' BY <1>7 DEF ServerTold, ShareTypes, AnnounceMu
  <2>7. TrackerFollows'
    BY <1>7 DEF TrackerFollows, PresenceTypes, OneReader, PresenceIsCurrent, Trackers, Syncs, ReaderPlaces, WithReader
  <2>8. MailIsOfSession'
    BY ZenonT(150), <1>7 DEF MailIsOfSession, MailTypes, OneReader, ReaderPlaces, Inboxes, WithReader, Entry
  <2>9. ReaderTypes' /\ PortTypes' /\ ShareTypes' /\ PresenceTypes' /\ MailTypes' /\ PortsOpen' /\ ListenerLives'
    <3>1. UNCHANGED <<life, readers, ports, poller, shares, scan, presence, sync, mail, inbox>> BY <1>7
    <3>. QED BY <1>7, <3>1 DEF PortTypes, ShareTypes, PresenceTypes, MailTypes, PortsOpen, ListenerLives
  <2>. QED BY <2>3, <2>1, <2>4, <2>5, <2>2, <2>6, <2>7, <2>8, <2>9
<1>8. ASSUME LinkInv, OpenTree PROVE LinkInv'
  <2>1. ConnTypes' BY <1>8, OpenTreeConn
  <2>. USE LinkAssumption DEF Goto, RunTypes, Leads, OpenTree, InLink, Sends, SendFails, LoggedIn, LoggingIn, RunUnchanged,
       CanSend, RunHasConn, Servers, ConnTypes, Connections, ReaderTypes
  <2>2. RunTypes' BY <1>8 DEF PortTypes
  <2>3. RunHasConn' BY <1>8
  <2>4. OneReader' BY <1>8 DEF OneReader, WithReader, ReaderPlaces
  <2>5. AnnounceMu' BY <1>8 DEF AnnounceMu, ShareTypes
  <2>6. ServerTold' BY <1>8 DEF ServerTold, ShareTypes, AnnounceMu
  <2>7. TrackerFollows'
    BY <1>8 DEF TrackerFollows, PresenceTypes, OneReader, PresenceIsCurrent, Trackers, Syncs, ReaderPlaces, WithReader
  <2>8. MailIsOfSession'
    BY ZenonT(150), <1>8 DEF MailIsOfSession, MailTypes, OneReader, ReaderPlaces, Inboxes, WithReader, Entry
  <2>9. ReaderTypes' /\ PortTypes' /\ ShareTypes' /\ PresenceTypes' /\ MailTypes' /\ PortsOpen' /\ ListenerLives'
    <3>1. UNCHANGED <<life, readers, ports, poller, shares, scan, presence, sync, mail, inbox>> BY <1>8
    <3>. QED BY <1>8, <3>1 DEF PortTypes, ShareTypes, PresenceTypes, MailTypes, PortsOpen, ListenerLives
  <2>. QED BY <2>2, <2>1, <2>3, <2>4, <2>5, <2>6, <2>7, <2>8, <2>9
<1>9. ASSUME LinkInv, AnnounceSharesOnLogin PROVE LinkInv'
  <2>1. ConnTypes' BY <1>9, LoginAnnouncementConn
  <2>2. AnnounceMu' BY <1>9, LoginAnnouncementTold
  <2>3. ServerTold' BY <1>9, LoginAnnouncementTold
  <2>. USE LinkAssumption DEF Goto, Told, Announce, RunTypes, Leads, InLink, AnnounceSent, AnnounceSharesOnLogin, Sends,
       AnnounceLost, SendFails, LoggedIn, LoggingIn, RunUnchanged, CanSend, CurrentGeneration, Servers, ConnTypes,
       Connections, RunHasConn, ReaderTypes
  <2>4. RunTypes' BY <1>9 DEF PortTypes
  <2>5. ShareTypes' BY ZenonT(150), <1>9 DEF ShareTypes
  <2>6. RunHasConn' BY <1>9
  <2>7. OneReader' BY <1>9 DEF OneReader, WithReader, ReaderPlaces
  <2>8. TrackerFollows'
    BY <1>9 DEF TrackerFollows, PresenceTypes, OneReader, PresenceIsCurrent, Trackers, Syncs, ReaderPlaces, WithReader
  <2>9. MailIsOfSession'
    BY ZenonT(150), <1>9 DEF MailIsOfSession, MailTypes, OneReader, ReaderPlaces, Inboxes, WithReader, Entry
  <2>10. ReaderTypes' /\ PortTypes' /\ PresenceTypes' /\ MailTypes' /\ PortsOpen' /\ ListenerLives'
    <3>1. UNCHANGED <<life, readers, ports, poller, presence, sync, mail, inbox>> BY <1>9
    <3>. QED BY <1>9, <3>1 DEF PortTypes, PresenceTypes, MailTypes, PortsOpen, ListenerLives
  <2>. QED BY <2>4, <2>1, <2>5, <2>6, <2>7, <2>2, <2>3, <2>8, <2>9, <2>10
<1>10. ASSUME LinkInv, StartReadLoop PROVE LinkInv'
  <2>. USE LinkAssumption DEF Goto, NoReader, RunTypes, InLink, LoggedIn, StartReadLoop, LoggingIn, Reading, RunUnchanged,
       Servers, ConnTypes, Connections, RunHasConn
  <2>1. RunTypes' BY <1>10 DEF PortTypes
  <2>2. ReaderTypes' BY <1>10 DEF ReaderTypes, ReaderPlaces
  <2>3. RunHasConn' BY <1>10
  <2>4. OneReader' BY <1>10 DEF OneReader, ReaderTypes, WithReader, ReaderPlaces
  <2>5. AnnounceMu' BY <1>10 DEF AnnounceMu, ShareTypes
  <2>6. ServerTold' BY <1>10 DEF ServerTold, ShareTypes, AnnounceMu
  <2>7. TrackerFollows'
    BY <1>10 DEF TrackerFollows, PresenceTypes, ReaderTypes, OneReader, PresenceIsCurrent, Trackers, Syncs, ReaderPlaces,
       WithReader
  <2>8. MailIsOfSession'
    BY <1>10 DEF MailIsOfSession, ReaderTypes, MailTypes, OneReader, ReaderPlaces, Inboxes, WithReader, Entry
  <2>9. ConnTypes' /\ PortTypes' /\ ShareTypes' /\ PresenceTypes' /\ MailTypes' /\ PortsOpen' /\ ListenerLives'
    <3>1. UNCHANGED <<life, conn, srv, ports, poller, shares, scan, presence, sync, mail, inbox>> BY <1>10
    <3>. QED BY <1>10, <3>1 DEF PortTypes, ShareTypes, PresenceTypes, MailTypes, PortsOpen, ListenerLives
  <2>. QED BY <2>1, <2>2, <2>3, <2>4, <2>5, <2>6, <2>7, <2>8, <2>9
<1>11. ASSUME LinkInv, ActivatePresence PROVE LinkInv'
  <2>1. PresenceTypes' BY <1>11, ActivatePresenceTypes
  <2>. USE LinkAssumption DEF Goto, ActivatePresence, RunTypes, InLink, LoggedIn, Quiet, LoggingIn, RunUnchanged, RunHasConn,
       Servers, ConnTypes, Connections
  <2>2. RunTypes' BY <1>11 DEF PortTypes
  <2>3. RunHasConn' BY <1>11
  <2>4. OneReader' BY <1>11 DEF OneReader, ReaderTypes, WithReader, ReaderPlaces
  <2>5. AnnounceMu' BY <1>11 DEF AnnounceMu, ShareTypes
  <2>6. ServerTold' BY <1>11 DEF ServerTold, ShareTypes, AnnounceMu
  <2>7. TrackerFollows'
    BY <1>11 DEF TrackerFollows, PresenceTypes, ReaderTypes, OneReader, PresenceIsCurrent, Trackers, Syncs, ReaderPlaces,
       WithReader
  <2>8. ConnTypes' /\ ReaderTypes' /\ PortTypes' /\ ShareTypes' /\ MailTypes' /\ PortsOpen' /\ ListenerLives' /\
        MailIsOfSession'
    <3>1. UNCHANGED <<life, conn, srv, readers, ports, poller, shares, scan, mail, inbox>> BY <1>11
    <3>. QED BY <1>11, <3>1 DEF ReaderTypes, PortTypes, ShareTypes, MailTypes, PortsOpen, ListenerLives, MailIsOfSession
  <2>. QED BY <2>2, <2>1, <2>3, <2>4, <2>5, <2>6, <2>7, <2>8
<1>12. ASSUME LinkInv, ServeStops PROVE LinkInv'
  <2>. USE LinkAssumption DEF ServeStops, RunTypes, Leads, InLink, LoggedIn, LoggingIn, RunUnchanged, RunHasConn,
       ReaderTypes, Servers, ConnTypes, Connections
  <2>1. RunTypes' BY <1>12 DEF PortTypes
  <2>2. ConnTypes' BY <1>12 DEF ShareTypes, PortTypes, PresenceTypes, Trackers, Syncs, ReaderPlaces
  <2>3. RunHasConn' BY <1>12
  <2>4. OneReader' BY <1>12 DEF OneReader, WithReader, ReaderPlaces
  <2>5. AnnounceMu' BY <1>12 DEF AnnounceMu, ShareTypes
  <2>6. ServerTold' BY <1>12 DEF ServerTold, ShareTypes, AnnounceMu
  <2>7. TrackerFollows'
    BY <1>12 DEF TrackerFollows, PresenceTypes, OneReader, PresenceIsCurrent, Trackers, Syncs, ReaderPlaces, WithReader
  <2>8. MailIsOfSession' BY <1>12 DEF MailIsOfSession, MailTypes, OneReader, ReaderPlaces, Inboxes, WithReader, Entry
  <2>9. ReaderTypes' /\ PortTypes' /\ ShareTypes' /\ PresenceTypes' /\ MailTypes' /\ PortsOpen' /\ ListenerLives'
    <3>1. UNCHANGED <<life, readers, ports, poller, shares, scan, presence, sync, mail, inbox>> BY <1>12
    <3>. QED BY <1>12, <3>1 DEF PortTypes, ShareTypes, PresenceTypes, MailTypes, PortsOpen, ListenerLives
  <2>. QED BY <2>1, <2>2, <2>3, <2>4, <2>5, <2>6, <2>7, <2>8, <2>9
<1>13. ASSUME LinkInv, PingFails PROVE LinkInv'
  <2>. USE LinkAssumption DEF PingFails, RunTypes, Leads, InLink, SendFails, LoggedIn, LoggingIn, RunUnchanged, CanSend,
       ConnTypes, Connections, RunHasConn, ReaderTypes, Servers
  <2>1. RunTypes' BY <1>13 DEF PortTypes
  <2>2. ConnTypes' BY <1>13 DEF ShareTypes, PortTypes, PresenceTypes, Trackers, Syncs, ReaderPlaces
  <2>3. RunHasConn' BY <1>13
  <2>4. OneReader' BY <1>13 DEF OneReader, WithReader, ReaderPlaces
  <2>5. AnnounceMu' BY <1>13 DEF AnnounceMu, ShareTypes
  <2>6. ServerTold' BY <1>13 DEF ServerTold, ShareTypes, AnnounceMu
  <2>7. TrackerFollows'
    BY <1>13 DEF TrackerFollows, PresenceTypes, OneReader, PresenceIsCurrent, Trackers, Syncs, ReaderPlaces, WithReader
  <2>8. MailIsOfSession' BY <1>13 DEF MailIsOfSession, MailTypes, OneReader, ReaderPlaces, Inboxes, WithReader, Entry
  <2>9. ReaderTypes' /\ PortTypes' /\ ShareTypes' /\ PresenceTypes' /\ MailTypes' /\ PortsOpen' /\ ListenerLives'
    <3>1. UNCHANGED <<life, readers, ports, poller, shares, scan, presence, sync, mail, inbox>> BY <1>13
    <3>. QED BY <1>13, <3>1 DEF PortTypes, ShareTypes, PresenceTypes, MailTypes, PortsOpen, ListenerLives
  <2>. QED BY <2>1, <2>2, <2>3, <2>4, <2>5, <2>6, <2>7, <2>8, <2>9
<1>14. ASSUME LinkInv, ReadEnds PROVE LinkInv'
  <2>. USE LinkAssumption DEF NoReader, LoggingIn, RunTypes, Leads, InLink, LoggedIn, ReadEnds, RunUnchanged, Servers,
       ConnTypes, Connections, RunHasConn
  <2>1. RunTypes' BY <1>14 DEF PortTypes
  <2>2. ReaderTypes' BY <1>14 DEF ReaderTypes, ReaderPlaces
  <2>3. RunHasConn' BY <1>14
  <2>4. OneReader' BY <1>14 DEF OneReader, ReaderTypes, WithReader, ReaderPlaces
  <2>5. AnnounceMu' BY <1>14 DEF AnnounceMu, ShareTypes
  <2>6. ServerTold' BY <1>14 DEF ServerTold, ShareTypes, AnnounceMu
  <2>7. TrackerFollows'
    BY <1>14 DEF TrackerFollows, PresenceTypes, ReaderTypes, OneReader, PresenceIsCurrent, Trackers, Syncs, ReaderPlaces,
       WithReader
  <2>8. MailIsOfSession'
    BY <1>14 DEF MailIsOfSession, ReaderTypes, MailTypes, OneReader, ReaderPlaces, Inboxes, WithReader, Entry
  <2>9. ConnTypes' /\ PortTypes' /\ ShareTypes' /\ PresenceTypes' /\ MailTypes' /\ PortsOpen' /\ ListenerLives'
    <3>1. UNCHANGED <<life, conn, srv, ports, poller, shares, scan, presence, sync, mail, inbox>> BY <1>14
    <3>. QED BY <1>14, <3>1 DEF PortTypes, ShareTypes, PresenceTypes, MailTypes, PortsOpen, ListenerLives
  <2>. QED BY <2>1, <2>2, <2>3, <2>4, <2>5, <2>6, <2>7, <2>8, <2>9
<1>15. ASSUME LinkInv, JoinReadLoop PROVE LinkInv'
  <2>. USE LinkAssumption DEF Goto, NoReader, JoinReadLoop, RunTypes, InLink, LoggedIn, LoggingIn, RunUnchanged, Servers,
       ConnTypes, Connections, RunHasConn
  <2>1. RunTypes' BY <1>15 DEF PortTypes
  <2>2. ReaderTypes' BY <1>15 DEF ReaderTypes, ReaderPlaces
  <2>3. RunHasConn' BY <1>15
  <2>4. OneReader' BY <1>15 DEF OneReader, ReaderTypes, WithReader, ReaderPlaces
  <2>5. AnnounceMu' BY <1>15 DEF AnnounceMu, ShareTypes
  <2>6. ServerTold' BY <1>15 DEF ServerTold, ShareTypes, AnnounceMu
  <2>7. TrackerFollows'
    BY <1>15 DEF TrackerFollows, PresenceTypes, ReaderTypes, OneReader, PresenceIsCurrent, Trackers, Syncs, ReaderPlaces,
       WithReader
  <2>8. MailIsOfSession'
    BY <1>15 DEF MailIsOfSession, ReaderTypes, MailTypes, OneReader, ReaderPlaces, Inboxes, WithReader, Entry
  <2>9. ConnTypes' /\ PortTypes' /\ ShareTypes' /\ PresenceTypes' /\ MailTypes' /\ PortsOpen' /\ ListenerLives'
    <3>1. UNCHANGED <<life, conn, srv, ports, poller, shares, scan, presence, sync, mail, inbox>> BY <1>15
    <3>. QED BY <1>15, <3>1 DEF PortTypes, ShareTypes, PresenceTypes, MailTypes, PortsOpen, ListenerLives
  <2>. QED BY <2>1, <2>2, <2>3, <2>4, <2>5, <2>6, <2>7, <2>8, <2>9
<1>16. ASSUME LinkInv, InvalidatePresence PROVE LinkInv'
  <2>1. PresenceTypes' BY <1>16, InvalidatePresenceTypes
  <2>. USE LinkAssumption DEF Goto, InvalidatePresence, RunTypes, InLink, LoggedIn, Quiet, LoggingIn, RunUnchanged,
       RunHasConn, Servers, ConnTypes, Connections
  <2>2. RunTypes' BY <1>16 DEF PortTypes
  <2>3. RunHasConn' BY <1>16
  <2>4. OneReader' BY <1>16 DEF OneReader, ReaderTypes, WithReader, ReaderPlaces
  <2>5. AnnounceMu' BY <1>16 DEF AnnounceMu, ShareTypes
  <2>6. ServerTold' BY <1>16 DEF ServerTold, ShareTypes, AnnounceMu
  <2>7. TrackerFollows'
    BY <1>16 DEF TrackerFollows, PresenceTypes, ReaderTypes, OneReader, PresenceIsCurrent, Trackers, Syncs, ReaderPlaces,
       WithReader
  <2>8. ConnTypes' /\ ReaderTypes' /\ PortTypes' /\ ShareTypes' /\ MailTypes' /\ PortsOpen' /\ ListenerLives' /\
        MailIsOfSession'
    <3>1. UNCHANGED <<life, conn, srv, readers, ports, poller, shares, scan, mail, inbox>> BY <1>16
    <3>. QED BY <1>16, <3>1 DEF ReaderTypes, PortTypes, ShareTypes, MailTypes, PortsOpen, ListenerLives, MailIsOfSession
  <2>. QED BY <2>2, <2>1, <2>3, <2>4, <2>5, <2>6, <2>7, <2>8
<1>17. ASSUME LinkInv, ReleaseConnection PROVE LinkInv'
  <2>. USE LinkAssumption DEF ReleaseConnection, RunTypes, NoSync, Leads, InLink, LoggedIn, LoggingIn, RunUnchanged,
       ReaderPlaces, ConnTypes, Connections, RunHasConn, ReaderTypes, Servers
  <2>1. RunTypes' BY <1>17 DEF PortTypes
  <2>2. ConnTypes' BY <1>17 DEF ShareTypes, PortTypes, PresenceTypes, Trackers, Syncs
  <2>3. PresenceTypes' BY <1>17 DEF PresenceTypes, Trackers, Syncs
  <2>4. RunHasConn' BY <1>17
  <2>5. OneReader' BY <1>17 DEF OneReader, WithReader
  <2>6. AnnounceMu' BY <1>17 DEF AnnounceMu, ShareTypes
  <2>7. ServerTold' BY <1>17 DEF ServerTold, ShareTypes, AnnounceMu
  <2>8. TrackerFollows' BY <1>17 DEF TrackerFollows, PresenceTypes, OneReader, PresenceIsCurrent, Trackers, Syncs, WithReader
  <2>9. MailIsOfSession' BY <1>17 DEF MailIsOfSession, MailTypes, OneReader, Inboxes, WithReader, Entry
  <2>10. ReaderTypes' /\ PortTypes' /\ ShareTypes' /\ MailTypes' /\ PortsOpen' /\ ListenerLives'
    <3>1. UNCHANGED <<life, readers, ports, poller, shares, scan, mail, inbox>> BY <1>17
    <3>. QED BY <1>17, <3>1 DEF PortTypes, ShareTypes, MailTypes, PortsOpen, ListenerLives
  <2>. QED BY <2>1, <2>2, <2>3, <2>4, <2>5, <2>6, <2>7, <2>8, <2>9, <2>10
<1>18. ASSUME LinkInv, BeginSync PROVE LinkInv'
  <2>. USE LinkAssumption DEF Goto, RunTypes, NoSync, SyncActions, InLink, LoggedIn, LoggingIn, RunUnchanged, BeginSync,
       ReaderTypes, Servers, ConnTypes, Connections, RunHasConn
  <2>1. RunTypes' BY <1>18 DEF PortTypes
  <2>2. PresenceTypes' BY <1>18 DEF PresenceTypes, Trackers, Syncs, ReaderPlaces
  <2>3. RunHasConn' BY <1>18
  <2>4. OneReader' BY <1>18 DEF OneReader, WithReader, ReaderPlaces
  <2>5. AnnounceMu' BY <1>18 DEF AnnounceMu, ShareTypes
  <2>6. ServerTold' BY <1>18 DEF ServerTold, ShareTypes, AnnounceMu
  <2>7. TrackerFollows'
    BY <1>18 DEF TrackerFollows, PresenceTypes, OneReader, PresenceIsCurrent, Trackers, Syncs, ReaderPlaces, WithReader
  <2>8. ConnTypes' /\ ReaderTypes' /\ PortTypes' /\ ShareTypes' /\ MailTypes' /\ PortsOpen' /\ ListenerLives' /\
        MailIsOfSession'
    <3>1. UNCHANGED <<life, conn, srv, readers, ports, poller, shares, scan, mail, inbox>> BY <1>18
    <3>. QED BY <1>18, <3>1 DEF PortTypes, ShareTypes, MailTypes, PortsOpen, ListenerLives, MailIsOfSession
  <2>. QED BY <2>1, <2>2, <2>3, <2>4, <2>5, <2>6, <2>7, <2>8
<1>19. ASSUME LinkInv, SendWatch PROVE LinkInv'
  <2>1. ConnTypes' BY <1>19, SendWatchConn
  <2>2. PresenceTypes' BY <1>19, SendWatchTypes
  <2>3. MailIsOfSession' BY <1>19, SendWatchMail
  <2>. USE LinkAssumption DEF Goto, RunTypes, Leads, InLink, Sends, SendFails, LoggedIn, LoggingIn, RunUnchanged, CanSend,
       SendWatch, RunHasConn, Servers, ConnTypes, Connections
  <2>4. RunTypes' BY <1>19 DEF PortTypes
  <2>5. RunHasConn' BY <1>19
  <2>6. OneReader' BY <1>19 DEF OneReader, ReaderTypes, WithReader, ReaderPlaces
  <2>7. AnnounceMu' BY <1>19 DEF AnnounceMu, ShareTypes
  <2>8. ServerTold' BY <1>19 DEF ServerTold, ShareTypes, AnnounceMu
  <2>9. TrackerFollows'
    BY <1>19 DEF TrackerFollows, PresenceTypes, ReaderTypes, OneReader, PresenceIsCurrent, Trackers, Syncs, ReaderPlaces,
       WithReader
  <2>10. ReaderTypes' /\ PortTypes' /\ ShareTypes' /\ MailTypes' /\ PortsOpen' /\ ListenerLives'
    <3>1. UNCHANGED <<life, readers, ports, poller, shares, scan, mail, inbox>> BY <1>19
    <3>. QED BY <1>19, <3>1 DEF ReaderTypes, PortTypes, ShareTypes, MailTypes, PortsOpen, ListenerLives
  <2>. QED BY <2>4, <2>1, <2>2, <2>5, <2>6, <2>7, <2>8, <2>9, <2>3, <2>10
<1>20. ASSUME LinkInv, AcknowledgeWatch PROVE LinkInv'
  <2>1. PresenceTypes' BY <1>20, AcknowledgeWatchTypes
  <2>. USE LinkAssumption DEF Goto, RunTypes, InLink, AcknowledgeWatch, LoggedIn, LoggingIn, RunUnchanged, RunHasConn,
       Servers, ConnTypes, Connections
  <2>2. RunTypes' BY <1>20 DEF PortTypes
  <2>3. RunHasConn' BY <1>20
  <2>4. OneReader' BY <1>20 DEF OneReader, ReaderTypes, WithReader, ReaderPlaces
  <2>5. AnnounceMu' BY <1>20 DEF AnnounceMu, ShareTypes
  <2>6. ServerTold' BY <1>20 DEF ServerTold, ShareTypes, AnnounceMu
  <2>7. TrackerFollows'
    BY <1>20 DEF TrackerFollows, PresenceTypes, ReaderTypes, OneReader, PresenceIsCurrent, Trackers, Syncs, ReaderPlaces,
       WithReader
  <2>8. ConnTypes' /\ ReaderTypes' /\ PortTypes' /\ ShareTypes' /\ MailTypes' /\ PortsOpen' /\ ListenerLives' /\
        MailIsOfSession'
    <3>1. UNCHANGED <<life, conn, srv, readers, ports, poller, shares, scan, mail, inbox>> BY <1>20
    <3>. QED BY <1>20, <3>1 DEF ReaderTypes, PortTypes, ShareTypes, MailTypes, PortsOpen, ListenerLives, MailIsOfSession
  <2>. QED BY <2>2, <2>1, <2>3, <2>4, <2>5, <2>6, <2>7, <2>8
<1>21. ASSUME LinkInv, EndSync PROVE LinkInv'
  <2>. USE LinkAssumption DEF Goto, RunTypes, InLink, EndSync, LoggedIn, LoggingIn, RunUnchanged, RunHasConn, Servers,
       ConnTypes, Connections
  <2>1. RunTypes' BY <1>21 DEF PortTypes
  <2>2. RunHasConn' BY <1>21
  <2>3. OneReader' BY <1>21 DEF OneReader, ReaderTypes, WithReader, ReaderPlaces
  <2>4. AnnounceMu' BY <1>21 DEF AnnounceMu, ShareTypes
  <2>5. ServerTold' BY <1>21 DEF ServerTold, ShareTypes, AnnounceMu
  <2>6. TrackerFollows'
    BY <1>21 DEF TrackerFollows, PresenceTypes, ReaderTypes, OneReader, PresenceIsCurrent, Trackers, Syncs, ReaderPlaces,
       WithReader
  <2>7. ConnTypes' /\ ReaderTypes' /\ PortTypes' /\ ShareTypes' /\ PresenceTypes' /\ MailTypes' /\ PortsOpen' /\
        ListenerLives' /\ MailIsOfSession'
    <3>1. UNCHANGED <<life, conn, srv, readers, ports, poller, shares, scan, presence, sync, mail, inbox>> BY <1>21
    <3>. QED BY <1>21, <3>1 DEF ReaderTypes, PortTypes, ShareTypes, PresenceTypes, MailTypes, PortsOpen, ListenerLives,
         MailIsOfSession
  <2>. QED BY <2>1, <2>2, <2>3, <2>4, <2>5, <2>6, <2>7
<1>22. ASSUME LinkInv, NEW g \in 1 .. MaxGen, ReadMessage(g) PROVE LinkInv'
  <2>1. ConnTypes' BY <1>22, ReadMessageConn
  <2>2. ReaderTypes' BY <1>22, ReadMessageMail
  <2>3. MailIsOfSession' BY <1>22, ReadMessageMail
  <2>. USE DEF RunHasConn, SocketOpen, ReaderUnchanged, ReadMessage, RunTypes, InLink, LoggedIn, Holds
  <2>4. OneReader'
    BY <1>22, LinkAssumption DEF OneReader, ConnTypes, ReaderTypes, WithReader, Connections, Servers, ReaderPlaces, LoggingIn
  <2>5. ServerTold'
    BY <1>22, LinkAssumption DEF ServerTold, ConnTypes, ShareTypes, AnnounceMu, Connections, Servers, LoggingIn
  <2>6. RunTypes' /\ PortTypes' /\ ShareTypes' /\ PresenceTypes' /\ MailTypes' /\ RunHasConn' /\ AnnounceMu' /\
        TrackerFollows' /\ PortsOpen' /\ ListenerLives'
    <3>1. UNCHANGED <<focus, life, run, conn, ports, poller, shares, scan, presence, sync, mail, inbox>> BY <1>22
    <3>. QED BY <1>22, <3>1 DEF PortTypes, ShareTypes, PresenceTypes, MailTypes, AnnounceMu, TrackerFollows, PresenceIsCurrent,
         PortsOpen, ListenerLives
  <2>. QED BY <2>1, <2>2, <2>4, <2>5, <2>3, <2>6
<1>23. ASSUME LinkInv, NEW g \in 1 .. MaxGen, ReadFails(g) PROVE LinkInv'
  <2>. USE LinkAssumption DEF RunHasConn, ReaderPlaces, NoReader, ReadFails, RunTypes, ReaderTypes, Servers, InLink,
       ConnTypes, LoggedIn, LoggingIn, Connections, ReaderUnchanged
  <2>1. ConnTypes' BY <1>23 DEF ShareTypes, PortTypes, PresenceTypes, Trackers, Syncs
  <2>2. ReaderTypes' BY <1>23
  <2>3. RunHasConn' BY <1>23
  <2>4. OneReader' BY <1>23 DEF OneReader, WithReader
  <2>5. AnnounceMu' BY <1>23 DEF AnnounceMu, ShareTypes
  <2>6. ServerTold' BY <1>23 DEF ServerTold, ShareTypes, AnnounceMu
  <2>7. TrackerFollows' BY <1>23 DEF TrackerFollows, PresenceTypes, OneReader, PresenceIsCurrent, Trackers, Syncs, WithReader
  <2>8. MailIsOfSession' BY <1>23 DEF MailIsOfSession, MailTypes, OneReader, Inboxes, WithReader, Entry
  <2>9. RunTypes' /\ PortTypes' /\ ShareTypes' /\ PresenceTypes' /\ MailTypes' /\ PortsOpen' /\ ListenerLives'
    <3>1. UNCHANGED <<focus, life, run, ports, poller, shares, scan, presence, sync, mail, inbox>> BY <1>23
    <3>. QED BY <1>23, <3>1 DEF PortTypes, ShareTypes, PresenceTypes, MailTypes, PortsOpen, ListenerLives
  <2>. QED BY <2>1, <2>2, <2>3, <2>4, <2>5, <2>6, <2>7, <2>8, <2>9
<1>24. ASSUME LinkInv, NEW g \in 1 .. MaxGen, HandleRelogged(g) PROVE LinkInv'
  <2>. USE DEF ReaderPlaces, NoReader, ReaderTypes, Servers, HandleRelogged, ConnTypes, Connections, ReaderUnchanged,
       RunHasConn, InLink, LoggedIn
  <2>1. ReaderTypes' BY <1>24, LinkAssumption
  <2>2. OneReader' BY <1>24, LinkAssumption DEF OneReader, RunTypes, WithReader, LoggingIn
  <2>3. MailIsOfSession'
    BY <1>24, LinkAssumption DEF MailIsOfSession, MailTypes, OneReader, Inboxes, WithReader, Entry, LoggingIn
  <2>4. RunTypes' /\ ConnTypes' /\ PortTypes' /\ ShareTypes' /\ PresenceTypes' /\ MailTypes' /\ RunHasConn' /\
        AnnounceMu' /\ ServerTold' /\ TrackerFollows' /\ PortsOpen' /\ ListenerLives'
    <3>1. UNCHANGED <<focus, life, run, conn, srv, ports, poller, shares, scan, presence, sync, mail, inbox>> BY <1>24
    <3>. QED BY <1>24, <3>1 DEF RunTypes, PortTypes, ShareTypes, PresenceTypes, MailTypes, AnnounceMu, ServerTold,
         TrackerFollows, PresenceIsCurrent, PortsOpen, ListenerLives
  <2>. QED BY <2>1, <2>2, <2>3, <2>4
<1>25. ASSUME LinkInv, NEW g \in 1 .. MaxGen, UpdateStatus(g) PROVE LinkInv'
  <2>1. PresenceTypes' BY <1>25, UpdateStatusTypes
  <2>. USE LinkAssumption DEF ReaderPlaces, UpdateStatus, NoReader, ReaderTypes, Servers, ConnTypes, Reading, Connections,
       ReaderUnchanged, CurrentGeneration, RunHasConn, RunTypes, WithReader, InLink, OneReader, LoggedIn, LoggingIn
  <2>2. ReaderTypes' BY <1>25
  <2>3. OneReader' BY <1>25
  <2>4. TrackerFollows' BY <1>25 DEF TrackerFollows, PresenceTypes, PresenceIsCurrent, Trackers, Syncs
  <2>5. MailIsOfSession' BY <1>25 DEF MailIsOfSession, MailTypes, Inboxes, Entry
  <2>6. RunTypes' /\ ConnTypes' /\ PortTypes' /\ ShareTypes' /\ MailTypes' /\ RunHasConn' /\ AnnounceMu' /\ ServerTold'
        /\ PortsOpen' /\ ListenerLives'
    <3>1. UNCHANGED <<focus, life, run, conn, srv, ports, poller, shares, scan, sync, mail, inbox>> BY <1>25
    <3>. QED BY <1>25, <3>1 DEF PortTypes, ShareTypes, MailTypes, AnnounceMu, ServerTold, PortsOpen, ListenerLives
  <2>. QED BY <2>2, <2>1, <2>3, <2>4, <2>5, <2>6
<1>26. ASSUME LinkInv, NEW g \in 1 .. MaxGen, HandleIncomingPrivateMessage(g) PROVE LinkInv'
  <2>1. MailTypes' BY <1>26, HandleIncomingMail
  <2>2. MailIsOfSession' BY <1>26, HandleIncomingMail
  <2>. USE DEF Servers, ConnTypes, HandleIncomingPrivateMessage, ReaderUnchanged, CurrentGeneration
  <2>3. ReaderTypes' BY <1>26, LinkAssumption DEF Reading, NoReader, ReaderTypes, ReaderPlaces, Connections
  <2>4. OneReader'
    BY <1>26, LinkAssumption DEF Reading, NoReader, OneReader, RunTypes, ReaderTypes, RunHasConn, WithReader, InLink,
       Connections, ReaderPlaces, LoggingIn, LoggedIn
  <2>5. RunTypes' /\ ConnTypes' /\ PortTypes' /\ ShareTypes' /\ PresenceTypes' /\ RunHasConn' /\ AnnounceMu' /\
        ServerTold' /\ TrackerFollows' /\ PortsOpen' /\ ListenerLives'
    <3>1. UNCHANGED <<focus, life, run, conn, srv, ports, poller, shares, scan, presence, sync>> BY <1>26
    <3>. QED BY <1>26, <3>1 DEF RunTypes, InLink, LoggedIn, PortTypes, ShareTypes, PresenceTypes, RunHasConn, AnnounceMu,
         ServerTold, TrackerFollows, PresenceIsCurrent, PortsOpen, ListenerLives
  <2>. QED BY <2>3, <2>1, <2>4, <2>2, <2>5
<1>27. ASSUME LinkInv, PublishShares PROVE LinkInv'
  <2>. USE LinkAssumption DEF PublishShares, RunHasConn, RunTypes, Servers, InLink, ShareTypes, ConnTypes, LoggedIn,
       LoggingIn, Connections
  <2>1. ConnTypes' BY <1>27 DEF PortTypes, PresenceTypes, ReaderTypes, Trackers, Syncs, ReaderPlaces
  <2>2. ShareTypes' BY <1>27
  <2>3. AnnounceMu' BY <1>27 DEF AnnounceMu
  <2>4. ServerTold' BY <1>27 DEF ServerTold, AnnounceMu
  <2>5. RunTypes' /\ ReaderTypes' /\ PortTypes' /\ PresenceTypes' /\ MailTypes' /\ RunHasConn' /\ OneReader' /\
        TrackerFollows' /\ PortsOpen' /\ ListenerLives' /\ MailIsOfSession'
    <3>1. UNCHANGED <<focus, life, run, conn, srv, readers, ports, poller, presence, sync, mail, inbox>> BY <1>27
    <3>. QED BY <1>27, <3>1 DEF ReaderTypes, PortTypes, PresenceTypes, MailTypes, OneReader, WithReader, TrackerFollows,
         PresenceIsCurrent, PortsOpen, ListenerLives, MailIsOfSession
  <2>. QED BY <2>1, <2>2, <2>3, <2>4, <2>5
<1>28. ASSUME LinkInv, AnnounceShares PROVE LinkInv'
  <2>1. ConnTypes' BY <1>28, AnnounceSharesConn
  <2>2. ServerTold' BY <1>28, AnnounceSharesTold
  <2>. USE LinkAssumption DEF Told, Announce, Servers, AnnounceSent, Sends, ConnTypes, AnnounceLost, SendFails,
       AnnounceShares, Connections, CanSend, CurrentGeneration, RunHasConn, RunTypes, InLink, LoggedIn, LoggingIn,
       ReaderTypes
  <2>3. ShareTypes' BY ZenonT(150), <1>28 DEF ShareTypes
  <2>4. RunHasConn' BY <1>28
  <2>5. OneReader' BY <1>28 DEF OneReader, WithReader, ReaderPlaces
  <2>6. AnnounceMu' BY ZenonT(150), <1>28 DEF AnnounceMu, ShareTypes
  <2>7. TrackerFollows'
    BY <1>28 DEF TrackerFollows, PresenceTypes, OneReader, PresenceIsCurrent, Trackers, Syncs, ReaderPlaces, WithReader
  <2>8. MailIsOfSession'
    BY ZenonT(150), <1>28 DEF MailIsOfSession, MailTypes, OneReader, ReaderPlaces, Inboxes, WithReader, Entry
  <2>9. RunTypes' /\ ReaderTypes' /\ PortTypes' /\ PresenceTypes' /\ MailTypes' /\ PortsOpen' /\ ListenerLives'
    <3>1. UNCHANGED <<focus, life, run, readers, ports, poller, presence, sync, mail, inbox>> BY <1>28
    <3>. QED BY <1>28, <3>1 DEF PortTypes, PresenceTypes, MailTypes, PortsOpen, ListenerLives
  <2>. QED BY <2>1, <2>3, <2>4, <2>5, <2>6, <2>2, <2>7, <2>8, <2>9
<1>29. ASSUME LinkInv, NEW users \in SUBSET Users, ConversationPresence(users) PROVE LinkInv'
  <2>1. PresenceTypes' BY <1>29, ConversationPresenceTypes
  <2>2. TrackerFollows'
    BY <1>29, LinkAssumption DEF ConversationPresence, TrackerFollows, RunTypes, ConnTypes, PresenceTypes, ReaderTypes,
       RunHasConn, OneReader, PresenceIsCurrent, InLink, Connections, Servers, Trackers, Syncs, ReaderPlaces, WithReader,
       LoggingIn, LoggedIn
  <2>3. RunTypes' /\ ConnTypes' /\ ReaderTypes' /\ PortTypes' /\ ShareTypes' /\ MailTypes' /\ RunHasConn' /\ OneReader'
        /\ AnnounceMu' /\ ServerTold' /\ PortsOpen' /\ ListenerLives' /\ MailIsOfSession'
    <3>1. UNCHANGED <<focus, life, run, conn, srv, readers, ports, poller, shares, scan, sync, mail, inbox>> BY <1>29
         DEF ConversationPresence
    <3>. QED BY <1>29, <3>1 DEF RunTypes, InLink, LoggedIn, ConnTypes, Servers, ReaderTypes, PortTypes, ShareTypes, MailTypes,
         RunHasConn, OneReader, WithReader, AnnounceMu, ServerTold, PortsOpen, ListenerLives, MailIsOfSession
  <2>. QED BY <2>1, <2>2, <2>3
<1>30. ASSUME LinkInv, TakeMessage PROVE LinkInv'
  <2>1. MailTypes' BY <1>30, TakeMessageMail
  <2>2. MailIsOfSession' BY <1>30, TakeMessageMail
  <2>3. RunTypes' /\ ConnTypes' /\ ReaderTypes' /\ PortTypes' /\ ShareTypes' /\ PresenceTypes' /\ RunHasConn' /\
        OneReader' /\ AnnounceMu' /\ ServerTold' /\ TrackerFollows' /\ PortsOpen' /\ ListenerLives'
    <3>1. UNCHANGED <<focus, life, run, conn, srv, readers, ports, poller, shares, scan, presence, sync, mail>> BY <1>30
         DEF TakeMessage, WorkerUnchanged
    <3>. QED BY <1>30, <3>1 DEF RunTypes, InLink, LoggedIn, ConnTypes, Servers, ReaderTypes, PortTypes, ShareTypes,
         PresenceTypes, RunHasConn, OneReader, WithReader, AnnounceMu, ServerTold, TrackerFollows, PresenceIsCurrent, PortsOpen,
         ListenerLives
  <2>. QED BY <2>1, <2>2, <2>3
<1>31. ASSUME LinkInv, PersistMessage PROVE LinkInv'
  <2>1. MailTypes' BY <1>31, PersistMessageMail
  <2>2. MailIsOfSession' BY <1>31, PersistMessageMail
  <2>3. RunTypes' /\ ConnTypes' /\ ReaderTypes' /\ PortTypes' /\ ShareTypes' /\ PresenceTypes' /\ RunHasConn' /\
        OneReader' /\ AnnounceMu' /\ ServerTold' /\ TrackerFollows' /\ PortsOpen' /\ ListenerLives'
    <3>1. UNCHANGED <<focus, life, run, conn, srv, readers, ports, poller, shares, scan, presence, sync, mail>> BY <1>31
         DEF PersistMessage, WorkerUnchanged
    <3>. QED BY <1>31, <3>1 DEF RunTypes, InLink, LoggedIn, ConnTypes, Servers, ReaderTypes, PortTypes, ShareTypes,
         PresenceTypes, RunHasConn, OneReader, WithReader, AnnounceMu, ServerTold, TrackerFollows, PresenceIsCurrent, PortsOpen,
         ListenerLives
  <2>. QED BY <2>1, <2>2, <2>3
<1>32. ASSUME LinkInv, AcknowledgeMessage PROVE LinkInv'
  <2>1. ConnTypes' BY <1>32, AcknowledgeMessageConn
  <2>2. MailTypes' BY <1>32, AcknowledgeMessageMail
  <2>3. MailIsOfSession' BY <1>32, AcknowledgeMessageMail
  <2>. USE LinkAssumption DEF Servers, AcknowledgeMessage, Sends, ConnTypes, SendFails, WorkerUnchanged, Connections,
       CanSend, RunHasConn, LoggingIn, RunTypes, InLink, LoggedIn
  <2>4. ReaderTypes' BY <1>32 DEF ReaderTypes, ReaderPlaces
  <2>5. RunHasConn' BY <1>32
  <2>6. OneReader' BY <1>32 DEF OneReader, ReaderTypes, WithReader, ReaderPlaces
  <2>7. AnnounceMu' BY <1>32 DEF AnnounceMu, ShareTypes
  <2>8. ServerTold' BY <1>32 DEF ServerTold, ShareTypes, AnnounceMu
  <2>9. TrackerFollows'
    BY <1>32 DEF TrackerFollows, PresenceTypes, ReaderTypes, OneReader, PresenceIsCurrent, Trackers, Syncs, ReaderPlaces,
       WithReader
  <2>10. RunTypes' /\ PortTypes' /\ ShareTypes' /\ PresenceTypes' /\ PortsOpen' /\ ListenerLives'
    <3>1. UNCHANGED <<focus, life, run, ports, poller, shares, scan, presence, sync>> BY <1>32
    <3>. QED BY <1>32, <3>1 DEF PortTypes, ShareTypes, PresenceTypes, PortsOpen, ListenerLives
  <2>. QED BY <2>1, <2>4, <2>2, <2>5, <2>6, <2>7, <2>8, <2>9, <2>3, <2>10
<1>33. ASSUME LinkInv, RebindPeerListener PROVE LinkInv'
  <2>. USE DEF PollerUnchanged, PortTypes, RebindPeerListener
  <2>1. PortTypes' BY <1>33, LinkAssumption
  <2>2. PortsOpen' BY SMTT(40), <1>33, LinkAssumption DEF PortsOpen, ListenerLives
  <2>3. ListenerLives' BY <1>33, LinkAssumption DEF ListenerLives, RunTypes, PortsOpen, InLink, LoggingIn, LoggedIn
  <2>4. RunTypes' /\ ConnTypes' /\ ReaderTypes' /\ ShareTypes' /\ PresenceTypes' /\ MailTypes' /\ RunHasConn' /\
        OneReader' /\ AnnounceMu' /\ ServerTold' /\ TrackerFollows' /\ MailIsOfSession'
    <3>1. UNCHANGED <<focus, life, run, conn, srv, readers, shares, scan, presence, sync, mail, inbox>> BY <1>33
    <3>. QED BY <1>33, <3>1 DEF RunTypes, InLink, LoggedIn, ConnTypes, Servers, ReaderTypes, ShareTypes, PresenceTypes,
         MailTypes, RunHasConn, OneReader, WithReader, AnnounceMu, ServerTold, TrackerFollows, PresenceIsCurrent, MailIsOfSession
  <2>. QED BY <2>1, <2>2, <2>3, <2>4
<1>34. ASSUME LinkInv, AcceptOnPort PROVE LinkInv'
  <2>. USE DEF PollerUnchanged, AcceptOnPort, Polls, PortTypes
  <2>1. PortTypes' BY <1>34, LinkAssumption
  <2>2. PortsOpen' BY <1>34, LinkAssumption DEF PortsOpen, ListenerLives
  <2>3. ListenerLives' BY <1>34, LinkAssumption DEF ListenerLives, RunTypes, PortsOpen, InLink, LoggingIn, LoggedIn
  <2>4. RunTypes' /\ ConnTypes' /\ ReaderTypes' /\ ShareTypes' /\ PresenceTypes' /\ MailTypes' /\ RunHasConn' /\
        OneReader' /\ AnnounceMu' /\ ServerTold' /\ TrackerFollows' /\ MailIsOfSession'
    <3>1. UNCHANGED <<focus, life, run, conn, srv, readers, shares, scan, presence, sync, mail, inbox>> BY <1>34
    <3>. QED BY <1>34, <3>1 DEF RunTypes, InLink, LoggedIn, ConnTypes, Servers, ReaderTypes, ShareTypes, PresenceTypes,
         MailTypes, RunHasConn, OneReader, WithReader, AnnounceMu, ServerTold, TrackerFollows, PresenceIsCurrent, MailIsOfSession
  <2>. QED BY <2>1, <2>2, <2>3, <2>4
<1>35. ASSUME LinkInv, SetPeerListener PROVE LinkInv'
  <2>1. PortTypes' BY <1>35, SetPeerListenerPorts
  <2>2. PortsOpen' BY <1>35, SetPeerListenerPorts
  <2>3. ListenerLives'
    BY ZenonT(150), <1>35, LinkAssumption DEF SetPeerListener, Polls, PollerUnchanged, ListenerLives, PortTypes, RunTypes,
       PortsOpen, InLink, LoggingIn, LoggedIn
  <2>4. RunTypes' /\ ConnTypes' /\ ReaderTypes' /\ ShareTypes' /\ PresenceTypes' /\ MailTypes' /\ RunHasConn' /\
        OneReader' /\ AnnounceMu' /\ ServerTold' /\ TrackerFollows' /\ MailIsOfSession'
    <3>1. UNCHANGED <<focus, life, run, conn, srv, readers, shares, scan, presence, sync, mail, inbox>> BY <1>35 DEF
         SetPeerListener, Polls, PollerUnchanged
    <3>. QED BY <1>35, <3>1 DEF RunTypes, InLink, LoggedIn, ConnTypes, Servers, ReaderTypes, ShareTypes, PresenceTypes,
         MailTypes, RunHasConn, OneReader, WithReader, AnnounceMu, ServerTold, TrackerFollows, PresenceIsCurrent, MailIsOfSession
  <2>. QED BY <2>1, <2>2, <2>3, <2>4
<1>36. ASSUME LinkInv, CloseReplaced PROVE LinkInv'
  <2>. USE DEF PollerUnchanged, Polls, CloseReplaced, PortTypes
  <2>1. PortTypes' BY <1>36, LinkAssumption
  <2>2. PortsOpen' BY <1>36, LinkAssumption DEF PortsOpen, ListenerLives
  <2>3. ListenerLives' BY <1>36, LinkAssumption DEF ListenerLives, RunTypes, PortsOpen, InLink, LoggingIn, LoggedIn
  <2>4. RunTypes' /\ ConnTypes' /\ ReaderTypes' /\ ShareTypes' /\ PresenceTypes' /\ MailTypes' /\ RunHasConn' /\
        OneReader' /\ AnnounceMu' /\ ServerTold' /\ TrackerFollows' /\ MailIsOfSession'
    <3>1. UNCHANGED <<focus, life, run, conn, srv, readers, shares, scan, presence, sync, mail, inbox>> BY <1>36
    <3>. QED BY <1>36, <3>1 DEF RunTypes, InLink, LoggedIn, ConnTypes, Servers, ReaderTypes, ShareTypes, PresenceTypes,
         MailTypes, RunHasConn, OneReader, WithReader, AnnounceMu, ServerTold, TrackerFollows, PresenceIsCurrent, MailIsOfSession
  <2>. QED BY <2>1, <2>2, <2>3, <2>4
<1>37. ASSUME LinkInv, AnnouncePort PROVE LinkInv'
  <2>1. ConnTypes' BY <1>37, AnnouncePortConn
  <2>. USE LinkAssumption DEF PollerUnchanged, Sends, AnnouncePort, SendFails, CanSend, RunHasConn, Servers, RunTypes,
       InLink, ConnTypes, LoggedIn, LoggingIn, Connections
  <2>2. PortTypes' BY <1>37 DEF PortTypes
  <2>3. RunHasConn' BY <1>37
  <2>4. OneReader' BY <1>37 DEF OneReader, ReaderTypes, WithReader, ReaderPlaces
  <2>5. AnnounceMu' BY <1>37 DEF AnnounceMu, ShareTypes
  <2>6. ServerTold' BY <1>37 DEF ServerTold, ShareTypes, AnnounceMu
  <2>7. TrackerFollows'
    BY <1>37 DEF TrackerFollows, PresenceTypes, ReaderTypes, OneReader, PresenceIsCurrent, Trackers, Syncs, ReaderPlaces,
       WithReader
  <2>8. PortsOpen' BY <1>37 DEF PortsOpen, PortTypes, ListenerLives
  <2>9. ListenerLives' BY <1>37 DEF ListenerLives, PortTypes, PortsOpen
  <2>10. MailIsOfSession'
    BY ZenonT(150), <1>37 DEF MailIsOfSession, ReaderTypes, MailTypes, OneReader, ReaderPlaces, Inboxes, WithReader, Entry
  <2>11. RunTypes' /\ ReaderTypes' /\ ShareTypes' /\ PresenceTypes' /\ MailTypes'
    <3>1. UNCHANGED <<focus, life, run, readers, shares, scan, presence, sync, mail, inbox>> BY <1>37
    <3>. QED BY <1>37, <3>1 DEF ReaderTypes, ShareTypes, PresenceTypes, MailTypes
  <2>. QED BY <2>1, <2>2, <2>3, <2>4, <2>5, <2>6, <2>7, <2>8, <2>9, <2>10, <2>11
<1>38. ASSUME LinkInv, Cancel PROVE LinkInv'
  <2>. USE DEF Cancel, InLink, PortTypes, LoggedIn, LifeUnchanged
  <2>1. RunTypes' BY <1>38, LinkAssumption DEF RunTypes, LoggingIn
  <2>2. ListenerLives' BY <1>38, LinkAssumption DEF ListenerLives, RunTypes, PortsOpen, LoggingIn
  <2>3. ConnTypes' /\ ReaderTypes' /\ PortTypes' /\ ShareTypes' /\ PresenceTypes' /\ MailTypes' /\ RunHasConn' /\
        OneReader' /\ AnnounceMu' /\ ServerTold' /\ TrackerFollows' /\ PortsOpen' /\ MailIsOfSession'
    <3>1. UNCHANGED <<run, conn, srv, readers, ports, poller, shares, scan, presence, sync, mail, inbox>> BY <1>38
    <3>. QED BY <1>38, <3>1 DEF ConnTypes, Servers, ReaderTypes, ShareTypes, PresenceTypes, MailTypes, RunHasConn, OneReader,
         WithReader, AnnounceMu, ServerTold, TrackerFollows, PresenceIsCurrent, PortsOpen, MailIsOfSession
  <2>. QED BY <2>1, <2>2, <2>3
<1>39. ASSUME LinkInv, StopLifecycle PROVE LinkInv'
  <2>. USE DEF StopLifecycle, InLink, PortTypes, LoggedIn, LifeUnchanged
  <2>1. RunTypes' BY <1>39, LinkAssumption DEF RunTypes, LoggingIn
  <2>2. ListenerLives' BY <1>39, LinkAssumption DEF ListenerLives, RunTypes, PortsOpen, LoggingIn
  <2>3. ConnTypes' /\ ReaderTypes' /\ PortTypes' /\ ShareTypes' /\ PresenceTypes' /\ MailTypes' /\ RunHasConn' /\
        OneReader' /\ AnnounceMu' /\ ServerTold' /\ TrackerFollows' /\ PortsOpen' /\ MailIsOfSession'
    <3>1. UNCHANGED <<run, conn, srv, readers, ports, poller, shares, scan, presence, sync, mail, inbox>> BY <1>39
    <3>. QED BY <1>39, <3>1 DEF ConnTypes, Servers, ReaderTypes, ShareTypes, PresenceTypes, MailTypes, RunHasConn, OneReader,
         WithReader, AnnounceMu, ServerTold, TrackerFollows, PresenceIsCurrent, PortsOpen, MailIsOfSession
  <2>. QED BY <2>1, <2>2, <2>3
<1>40. ASSUME LinkInv, ClosePeerListener PROVE LinkInv'
  <2>. USE DEF LifeUnchanged, PortTypes, ClosePeerListener
  <2>1. PortTypes' BY <1>40, LinkAssumption
  <2>2. PortsOpen' BY <1>40, LinkAssumption DEF PortsOpen, ListenerLives
  <2>3. ListenerLives' BY <1>40, LinkAssumption DEF ListenerLives, RunTypes, PortsOpen, InLink, LoggingIn, LoggedIn
  <2>4. RunTypes' /\ ConnTypes' /\ ReaderTypes' /\ ShareTypes' /\ PresenceTypes' /\ MailTypes' /\ RunHasConn' /\
        OneReader' /\ AnnounceMu' /\ ServerTold' /\ TrackerFollows' /\ MailIsOfSession'
    <3>1. UNCHANGED <<focus, life, run, conn, srv, readers, shares, scan, presence, sync, mail, inbox>> BY <1>40
    <3>. QED BY <1>40, <3>1 DEF RunTypes, InLink, LoggedIn, ConnTypes, Servers, ReaderTypes, ShareTypes, PresenceTypes,
         MailTypes, RunHasConn, OneReader, WithReader, AnnounceMu, ServerTold, TrackerFollows, PresenceIsCurrent, MailIsOfSession
  <2>. QED BY <2>1, <2>2, <2>3, <2>4
<1>41. ASSUME LinkInv, Stopped PROVE LinkInv'
  <2>. USE DEF InLink, Stopped, PortTypes, LoggedIn, LifeUnchanged
  <2>1. RunTypes' BY <1>41, LinkAssumption DEF RunTypes, LoggingIn
  <2>2. ListenerLives' BY <1>41, LinkAssumption DEF ListenerLives, RunTypes, PortsOpen, LoggingIn
  <2>3. ConnTypes' /\ ReaderTypes' /\ PortTypes' /\ ShareTypes' /\ PresenceTypes' /\ MailTypes' /\ RunHasConn' /\
        OneReader' /\ AnnounceMu' /\ ServerTold' /\ TrackerFollows' /\ PortsOpen' /\ MailIsOfSession'
    <3>1. UNCHANGED <<run, conn, srv, readers, ports, poller, shares, scan, presence, sync, mail, inbox>> BY <1>41
    <3>. QED BY <1>41, <3>1 DEF ConnTypes, Servers, ReaderTypes, ShareTypes, PresenceTypes, MailTypes, RunHasConn, OneReader,
         WithReader, AnnounceMu, ServerTold, TrackerFollows, PresenceIsCurrent, PortsOpen, MailIsOfSession
  <2>. QED BY <2>1, <2>2, <2>3
<1>. QED BY <1>1, <1>2, <1>3, <1>4, <1>5, <1>6, <1>7, <1>8, <1>9, <1>10, <1>11, <1>12, <1>13, <1>14,
     <1>15, <1>16, <1>17, <1>18, <1>19, <1>20, <1>21, <1>22, <1>23, <1>24, <1>25, <1>26, <1>27,
     <1>28, <1>29, <1>30, <1>31, <1>32, <1>33, <1>34, <1>35, <1>36, <1>37, <1>38, <1>39, <1>40,
     <1>41 DEF Next, Run, ReadLoop, HandleMessage, MessageWorker, RefreshGluetunPort

LEMMA LinkInit ==
  ASSUME Init
  PROVE  LinkInv
<1>. USE DEF Init
<1>1. conn \in Connections /\ srv \in Servers BY LinkAssumption DEF NewSession, Connections, Servers
<1>2. Quiet \in [Users -> 0 .. MaxGen] BY QuietTypes
<1>3. presence \in Trackers /\ sync \in Syncs BY <1>2, QuietTypes DEF Trackers, Syncs, NoSync
<1>4. inbox \in Inboxes /\ Len(inbox.queue) = 0 /\ Len(inbox.entry) = 0 /\ mail = Messages BY DEF Inboxes
<1>5. MailTypes BY <1>4, LinkAssumption DEF MailTypes
<1>6. RunTypes /\ PortTypes BY DEF RunTypes, PortTypes, InLink
<1>7. ReaderTypes BY DEF ReaderTypes, NoReader, ReaderPlaces
<1>8. ShareTypes BY LinkAssumption DEF ShareTypes
<1>9. LinkTypes BY <1>1, <1>3, <1>5, <1>6, <1>7, <1>8 DEF LinkTypes, ConnTypes, PresenceTypes
<1>10. RunHasConn /\ OneReader BY DEF RunHasConn, OneReader, NoReader, InLink, LoggingIn, LoggedIn
<1>11. AnnounceMu /\ ServerTold BY DEF AnnounceMu, ServerTold, LoggedIn
<1>12. TrackerFollows BY DEF TrackerFollows, PresenceIsCurrent, Quiet
<1>13. PortsOpen /\ ListenerLives BY LinkAssumption DEF PortsOpen, ListenerLives
<1>14. MailIsOfSession BY <1>4 DEF MailIsOfSession, NoReader
<1>. QED BY <1>9, <1>10, <1>11, <1>12, <1>13, <1>14 DEF LinkInv

LEMMA LinkInductive == Spec => []LinkInv
<1>. USE DEF LinkInv
<1>1. Init => LinkInv BY LinkInit
<1>2. ASSUME LinkInv, [Next]_vars PROVE LinkInv'
  <2>1. CASE Next BY <1>2, <2>1, LinkStep
  <2>2. ASSUME UNCHANGED vars PROVE LinkInv'
    <3>1. LinkTypes'
      BY <1>2, <2>2 DEF vars, LinkTypes, RunTypes, ConnTypes, ReaderTypes, PortTypes, ShareTypes, PresenceTypes, MailTypes
    <3>2. (RunHasConn /\ OneReader /\ AnnounceMu /\ ServerTold)'
      BY <1>2, <2>2 DEF vars, RunHasConn, OneReader, AnnounceMu, ServerTold
    <3>3. (TrackerFollows /\ PortsOpen /\ ListenerLives /\ MailIsOfSession)'
      BY <1>2, <2>2 DEF vars, TrackerFollows, PresenceIsCurrent, PortsOpen, ListenerLives, MailIsOfSession
    <3>. QED BY <3>1, <3>2, <3>3
  <2>. QED BY <1>2, <2>1, <2>2
<1>. QED BY <1>1, <1>2, PTL DEF Spec

\* The server knows the shares that are published and we only what the present session has told of the users, and until Run
\* has ended somebody listens (serveConnected, AnnounceShares, SetPeerListener).
THEOREM LinkHolds == Spec => []LinkIsSound
<1>. USE DEF LinkInv, LinkTypes
<1>1. ASSUME LinkInv PROVE TypeOK
  <2>1. focus \in Focus /\ life \in {"starting", "up", "cancelled", "stopping", "down"} /\ run.error \in {"none", "transient", "terminal"} /\ run.port \in Ports \cup {0}
    BY <1>1 DEF RunTypes
  <2>2. conn.gen \in 0 .. MaxGen /\ (conn.open => conn.set) /\ (conn.set => conn.gen > 0)
    BY <1>1 DEF ConnTypes, Connections, RunHasConn
  <2>3. srv.port \in Ports \cup {0} /\ srv.shares \in -1 .. 1 /\ srv.watch \subseteq Users /\ srv.given \subseteq Messages
    BY <1>1 DEF ConnTypes, Servers
  <2>4. \A g \in 1 .. MaxGen : readers[g].at \in {"off", "reading", "handling", "failed", "relogged"}
    BY <1>1 DEF ReaderTypes, ReaderPlaces
  <2>5. ports.open \subseteq Ports /\ ports.listener \in Ports \cup {0} /\ ports.closed \in BOOLEAN BY <1>1 DEF PortTypes
  <2>6. shares.busy \in {"none", "login", "scan"} /\ shares.toldGen \in Nat /\ shares.toldGen <= conn.gen /\ scan \in {"idle", "announce", "send"}
    BY <1>1, LinkAssumption DEF ShareTypes, AnnounceMu
  <2>7. shares.toldGen \in 0 .. conn.gen BY <2>2, <2>6
  <2>8. presence.desired \subseteq Users /\ presence.remote \subseteq Users BY <1>1 DEF PresenceTypes, Trackers
  <2>9. presence.gen \in 0 .. conn.gen BY <1>1, <2>2 DEF TrackerFollows
  <2>10. mail \subseteq Messages /\ inbox.stored \subseteq Messages /\ Len(inbox.queue) <= QueueSize
    BY <1>1 DEF MailTypes, Inboxes
  <2>. QED BY <2>1, <2>2, <2>3, <2>4, <2>5, <2>6, <2>7, <2>8, <2>9, <2>10 DEF TypeOK
<1>2. ASSUME LinkInv PROVE ServerHasShares BY <1>2 DEF ServerTold, RunHasConn, InLink, LoggedIn, ServerHasShares, InSession
<1>3. ASSUME LinkInv PROVE PresenceIsCurrent BY <1>3 DEF TrackerFollows
<1>4. ASSUME LinkInv PROVE ListenersFollowLife
  <2>1. life \in {"up", "cancelled"} => ports.listener \in ports.open BY <1>4 DEF PortTypes, PortsOpen, ListenerLives
  <2>2. life = "down" => ports.open = {} BY <1>4, LinkAssumption DEF PortsOpen, ListenerLives
  <2>. QED BY <2>1, <2>2 DEF ListenersFollowLife
<1>5. LinkInv => LinkIsSound BY <1>1, <1>2, <1>3, <1>4 DEF LinkIsSound
<1>. QED BY <1>5, LinkInductive, PTL

\* A message the server is told to forget is stored, and came in the session that is told (handleIncomingPrivateMessage,
\* runMessageWorker).
THEOREM AcknowledgedIsStored == Spec => AckFollowsStore
<1>. DEFINE Kept == \A m \in mail \ mail' : m \in inbox.stored /\ m \in srv.given
<1>1. ASSUME LinkInv, Next PROVE Kept
  <2>. USE DEF RunUnchanged
  <2>1. ASSUME AcknowledgeMessage PROVE Kept
    <3>1. /\ inbox.entry[1].gen # 0 /\ (inbox.entry[1].gen = conn.gen => inbox.entry[1].what \subseteq srv.given)
          /\ inbox.entry[1].what \subseteq inbox.stored
      BY <1>1, <2>1 DEF AcknowledgeMessage, LinkInv, MailIsOfSession
    <3>2. mail' = mail \/ (Sends(inbox.entry[1].gen) /\ mail' = mail \ inbox.entry[1].what) BY <2>1 DEF AcknowledgeMessage
    <3>. QED BY <3>1, <3>2 DEF Sends, CanSend
  <2>2. ASSUME ~AcknowledgeMessage PROVE mail' = mail
    <3>1. ASSUME TrySetup PROVE mail' = mail BY <3>1 DEF TrySetup, LifeUnchanged
    <3>2. ASSUME AbandonSetup PROVE mail' = mail BY <3>2 DEF AbandonSetup, LifeUnchanged
    <3>3. ASSUME Connect PROVE mail' = mail BY <3>3 DEF Connect
    <3>4. ASSUME RunEnds PROVE mail' = mail BY <3>4 DEF RunEnds
    <3>5. ASSUME ClaimConnection PROVE mail' = mail BY <3>5 DEF ClaimConnection, NewSession
    <3>6. ASSUME ReadListenPort PROVE mail' = mail BY <3>6 DEF ReadListenPort
    <3>7. ASSUME SendListenPort PROVE mail' = mail BY <3>7 DEF SendListenPort
    <3>8. ASSUME OpenTree PROVE mail' = mail BY <3>8 DEF OpenTree
    <3>9. ASSUME AnnounceSharesOnLogin PROVE mail' = mail BY <3>9 DEF AnnounceSharesOnLogin
    <3>10. ASSUME StartReadLoop PROVE mail' = mail BY <3>10 DEF StartReadLoop
    <3>11. ASSUME ActivatePresence PROVE mail' = mail BY <3>11 DEF ActivatePresence
    <3>12. ASSUME ServeStops PROVE mail' = mail BY <3>12 DEF ServeStops
    <3>13. ASSUME PingFails PROVE mail' = mail BY <3>13 DEF PingFails
    <3>14. ASSUME ReadEnds PROVE mail' = mail BY <3>14 DEF ReadEnds
    <3>15. ASSUME JoinReadLoop PROVE mail' = mail BY <3>15 DEF JoinReadLoop
    <3>16. ASSUME InvalidatePresence PROVE mail' = mail BY <3>16 DEF InvalidatePresence
    <3>17. ASSUME ReleaseConnection PROVE mail' = mail BY <3>17 DEF ReleaseConnection
    <3>18. ASSUME BeginSync PROVE mail' = mail BY <3>18 DEF BeginSync
    <3>19. ASSUME SendWatch PROVE mail' = mail BY <3>19 DEF SendWatch
    <3>20. ASSUME AcknowledgeWatch PROVE mail' = mail BY <3>20 DEF AcknowledgeWatch
    <3>21. ASSUME EndSync PROVE mail' = mail BY <3>21 DEF EndSync
    <3>22. ASSUME NEW g \in 1 .. MaxGen, ReadMessage(g) PROVE mail' = mail BY <3>22 DEF ReadMessage, ReaderUnchanged
    <3>23. ASSUME NEW g \in 1 .. MaxGen, ReadFails(g) PROVE mail' = mail BY <3>23 DEF ReadFails, ReaderUnchanged
    <3>24. ASSUME NEW g \in 1 .. MaxGen, HandleRelogged(g) PROVE mail' = mail BY <3>24 DEF HandleRelogged, ReaderUnchanged
    <3>25. ASSUME NEW g \in 1 .. MaxGen, UpdateStatus(g) PROVE mail' = mail BY <3>25 DEF UpdateStatus, ReaderUnchanged
    <3>26. ASSUME NEW g \in 1 .. MaxGen, HandleIncomingPrivateMessage(g) PROVE mail' = mail
      BY <3>26 DEF HandleIncomingPrivateMessage, ReaderUnchanged
    <3>27. ASSUME PublishShares PROVE mail' = mail BY <3>27 DEF PublishShares
    <3>28. ASSUME AnnounceShares PROVE mail' = mail BY <3>28 DEF AnnounceShares
    <3>29. ASSUME NEW users \in SUBSET Users, ConversationPresence(users) PROVE mail' = mail BY <3>29 DEF ConversationPresence
    <3>30. ASSUME TakeMessage PROVE mail' = mail BY <3>30 DEF TakeMessage, WorkerUnchanged
    <3>31. ASSUME PersistMessage PROVE mail' = mail BY <3>31 DEF PersistMessage, WorkerUnchanged
    <3>32. ASSUME RebindPeerListener PROVE mail' = mail BY <3>32 DEF RebindPeerListener, PollerUnchanged
    <3>33. ASSUME AcceptOnPort PROVE mail' = mail BY <3>33 DEF AcceptOnPort, PollerUnchanged
    <3>34. ASSUME SetPeerListener PROVE mail' = mail BY <3>34 DEF SetPeerListener, PollerUnchanged
    <3>35. ASSUME CloseReplaced PROVE mail' = mail BY <3>35 DEF CloseReplaced, PollerUnchanged
    <3>36. ASSUME AnnouncePort PROVE mail' = mail BY <3>36 DEF AnnouncePort, PollerUnchanged
    <3>37. ASSUME Cancel PROVE mail' = mail BY <3>37 DEF Cancel, LifeUnchanged
    <3>38. ASSUME StopLifecycle PROVE mail' = mail BY <3>38 DEF StopLifecycle, LifeUnchanged
    <3>39. ASSUME ClosePeerListener PROVE mail' = mail BY <3>39 DEF ClosePeerListener, LifeUnchanged
    <3>40. ASSUME Stopped PROVE mail' = mail BY <3>40 DEF Stopped, LifeUnchanged
    <3>. QED BY <1>1, <2>2, <3>1, <3>2, <3>3, <3>4, <3>5, <3>6, <3>7, <3>8, <3>9, <3>10, <3>11,
     <3>12, <3>13, <3>14, <3>15, <3>16, <3>17, <3>18, <3>19, <3>20, <3>21, <3>22, <3>23, <3>24,
     <3>25, <3>26, <3>27, <3>28, <3>29, <3>30, <3>31, <3>32, <3>33, <3>34, <3>35, <3>36, <3>37,
     <3>38, <3>39, <3>40 DEF Next, Run, ReadLoop, HandleMessage, MessageWorker, RefreshGluetunPort
  <2>. QED BY <2>1, <2>2
<1>2. UNCHANGED vars => mail' = mail BY DEF vars
<1>3. LinkInv /\ [Next]_vars => [Kept]_vars BY <1>1
<1>. HIDE DEF Kept
<1>4. Spec => [][Kept]_vars BY <1>3, LinkInductive, PTL DEF Spec
<1>. QED BY <1>4 DEF AckFollowsStore, Kept

(***************************************************************************)
(* PeerSessions: one session of a kind, and nothing left open              *)
(***************************************************************************)
Numbers == Attempts \cup {0}
JobPlaces == {"off", "ended", "get", "join", "follow", "resolve", "recheck", "asking", "address", "dial", "pend", "askIndirect", "await",
              "deregister", "drain", "init", "mirror", "register", "lose", "loops", "check"}
Jobs == [at : JobPlaces, type : {"P", "D"}, gen : 0 .. cast.gens, conn : Numbers, lead : Numbers, answer : Numbers]
Sockets == [open : BOOLEAN, lease : BOOLEAN]
Busy(a) == job[a].at \notin {"off", "ended"}
Dialing == {"askIndirect", "await", "deregister", "drain"}

\* What the variables can hold.
JobTypes == cast \in Casts /\ job \in [Attempts -> Jobs]
SockTypes == sock \in [Attempts -> Sockets]
SessTypes == sess \in [Attempts -> {"none", "fresh", "live", "closing"}] /\ doomed \in SUBSET Attempts
RegistryTypes == sessions \in [{"P", "D"} -> Numbers] /\ flights \in [{"P", "D"} -> Numbers]
WaitTypes == asking \in SUBSET Attempts /\ pending \in SUBSET Attempts /\ failing \in SUBSET Attempts /\ result \in [Attempts -> Numbers \cup {-1}]
PeerRunTypes == /\ peerRun \in [at : {"serving", "login", "closeGeneration", "addresses", "failing", "handshakes", "closeAll", "wait", "down"},
                                cancelled : BOOLEAN, stopping : BOOLEAN]
                /\ gen \in 1 .. cast.gens /\ closedGen \in 0 .. cast.gens
PeerTypes == JobTypes /\ SockTypes /\ SessTypes /\ RegistryTypes /\ WaitTypes /\ PeerRunTypes

\* Every leased socket took one slot.
SlotsAddUp == slots >= 0 /\ slots = Slots - Cardinality({s \in Attempts : sock[s].lease})

\* Where an attempt can hold a connection or find an answer, and who follows whom.
HoldsWhere == \A a \in Attempts :
  /\ job[a].conn # 0 => job[a].at \in {"deregister", "drain", "init", "register", "lose", "loops", "check", "ended"}
  /\ job[a].at = "init" => job[a].conn = a
  /\ job[a].at = "follow" => job[a].lead \in Attempts
AnswerWhere == \A a \in Attempts :
  /\ result[a] # 0 => job[a].at \in {"asking", "address"} \cup Dialing
  /\ job[a].at \in {"asking", "address"} => result[a] \in {0, -1, a}
  /\ a \in asking => job[a].at \in {"asking", "address"} /\ result[a] = 0
  /\ a \in pending => job[a].at \in Dialing \ {"drain"} /\ result[a] = 0
  /\ a \in failing => a \notin pending /\ job[a].at \in Dialing \cup {"register", "lose", "loops", "check", "ended"}
SocketWhere == \A a \in Attempts :
  sock[a].open \/ sock[a].lease => job[a].at \in {"init", "register", "lose", "loops", "check", "ended"}

\* A session and its attempt: the one who registered it leads itself; whoever has a connection and no session works on it.
SessionWhere == \A a \in Attempts :
  /\ sess[a] = "fresh" <=> job[a].at = "lose"
  /\ sess[a] \in {"live", "closing"} => job[a].at \in {"loops", "check", "ended"}
  /\ sess[a] \in {"live", "closing"} /\ job[a].at \in {"loops", "check"} => job[a].lead = a
  /\ job[a].conn # 0 /\ job[a].at \in {"loops", "check", "ended"} => sess[a] = "live"
  /\ job[a].gen <= gen

\* A server session is closed before the next one begins.
GenerationsClose == closedGen = IF peerRun.at \in {"serving", "closeGeneration"} THEN gen - 1 ELSE gen
StopIsFinal == peerRun.at \in {"closeAll", "wait", "down"} => peerRun.stopping
\* Down, only callers are left, and what they registered they see closed.
OnlyCallersLeft == peerRun.at = "down" => \A a \in Attempts :
  /\ cast.who[a] # "caller" => ~Busy(a) /\ sess[a] = "none"
  /\ sess[a] = "live" => job[a].at = "loops" \/ (job[a].at = "check" /\ a \in doomed)

SocketsOwned == Sessions!NothingLeaks
OneRegistered == Sessions!OneSessionPerPeer
NoneOutlives == Sessions!NoSessionOutlivesServer
PeerInv == /\ PeerTypes /\ SlotsAddUp /\ HoldsWhere /\ AnswerWhere /\ SocketWhere /\ SessionWhere /\ GenerationsClose /\ StopIsFinal
           /\ OnlyCallersLeft /\ SocketsOwned /\ OneRegistered /\ NoneOutlives
\* What becomes of an attempt; the others stay where they are.
Moves(a, at, type, g, conn0, lead, answer) ==
  /\ job' \in [Attempts -> Jobs]
  /\ \A b \in Attempts : b # a => job'[b] = job[b]
  /\ job'[a].at = at /\ job'[a].type = type /\ job'[a].gen = g
  /\ job'[a].conn = conn0 /\ job'[a].lead = lead /\ job'[a].answer = answer
MovesTo(a, at) == Moves(a, at, job[a].type, job[a].gen, job[a].conn, job[a].lead, job[a].answer)
EndsWith(a, answer) == Moves(a, "ended", job[a].type, job[a].gen, IF sess[a] \in {"live", "closing"} THEN job[a].conn ELSE 0, 0, answer)
EndsBare(a) == Moves(a, "ended", "P", 0, 0, 0, 0)
Holder(a, s) ==
  \/ job[a].at \notin {"off", "ended"} /\ (job[a].conn = s \/ result[a] = s)
  \/ sess[a] = "live" /\ job[a].conn = s

LEMMA JobMoves ==
  ASSUME job \in [Attempts -> Jobs], cast' = cast, NEW a \in Attempts, NEW j \in Jobs, job' = [job EXCEPT ![a] = j]
  PROVE  Moves(a, j.at, j.type, j.gen, j.conn, j.lead, j.answer)
BY DEF Moves, Jobs, Numbers
LEMMA GotoMoves ==
  ASSUME job \in [Attempts -> Jobs], cast' = cast, NEW a \in Attempts, NEW x \in JobPlaces, Sessions!Goto(a, x)
  PROVE  MovesTo(a, x)
<1>1. job[a] \in Jobs OBVIOUS
<1>2. [job[a] EXCEPT !.at = x] \in Jobs BY <1>1 DEF Jobs
<1>3. job' = [job EXCEPT ![a] = [job[a] EXCEPT !.at = x]] BY DEF Sessions!Goto
<1>4. job' \in [Attempts -> Jobs] BY <1>2, <1>3 DEF Jobs, Numbers
<1>5. \A b \in Attempts : b # a => job'[b] = job[b] BY <1>3
<1>6. job'[a] = [job[a] EXCEPT !.at = x] BY <1>3
<1>. QED BY <1>1, <1>4, <1>5, <1>6 DEF MovesTo, Moves, Jobs
LEMMA IdleForms ==
  /\ Sessions!Idle = [at |-> "off", type |-> "P", gen |-> 0, conn |-> 0, lead |-> 0, answer |-> 0]
  /\ Sessions!Ended = [at |-> "ended", type |-> "P", gen |-> 0, conn |-> 0, lead |-> 0, answer |-> 0]
BY DEF Sessions!Idle, Sessions!Ended
LEMMA EndsMoves ==
  ASSUME job \in [Attempts -> Jobs], cast' = cast, cast \in Casts, NEW a \in Attempts, NEW x \in Numbers, Sessions!Ends(a, x)
  PROVE  EndsWith(a, x)
<1>. DEFINE k == IF sess[a] \in {"live", "closing"} THEN job[a].conn ELSE 0
            j == [Sessions!Ended EXCEPT !.answer = x, !.type = job[a].type, !.gen = job[a].gen, !.conn = k]
<1>1. job[a].type \in {"P", "D"} /\ job[a].gen \in 0 .. cast.gens /\ k \in Numbers BY DEF Jobs, Numbers
<1>2. job' = [job EXCEPT ![a] = j] BY DEF Sessions!Ends
<1>. HIDE DEF k
<1>3. j \in Jobs /\ j.at = "ended" /\ j.type = job[a].type /\ j.gen = job[a].gen /\ j.conn = k /\ j.lead = 0 /\ j.answer = x
  <2>. DEFINE t == job[a].type  g == job[a].gen
  <2>. HIDE DEF t, g
  <2>1. j = [Sessions!Ended EXCEPT !.answer = x, !.type = t, !.gen = g, !.conn = k] BY DEF t, g
  <2>2. t \in {"P", "D"} /\ g \in 0 .. cast.gens /\ k \in Numbers /\ x \in Numbers BY <1>1 DEF t, g
  <2>. HIDE DEF j
  <2>3. Sessions!Ended \in Jobs BY SessionsAssumption, IdleForms DEF Jobs, Numbers, JobPlaces
  <2>4. j \in Jobs BY <2>1, <2>2, <2>3 DEF Jobs
  <2>5. j.at = "ended" /\ j.type = t /\ j.gen = g /\ j.conn = k /\ j.lead = 0 /\ j.answer = x
    <3>1. Sessions!Ended.at = "ended" /\ Sessions!Ended.lead = 0 BY IdleForms
    <3>. QED BY <2>1, <2>3, <3>1 DEF Jobs
  <2>. QED BY <2>4, <2>5 DEF t, g
<1>. HIDE DEF j
<1>4. Moves(a, j.at, j.type, j.gen, j.conn, j.lead, j.answer) BY <1>2, <1>3, JobMoves
<1>. QED BY <1>3, <1>4 DEF EndsWith, Moves, k
LEMMA EndsEmptyMoves ==
  ASSUME job \in [Attempts -> Jobs], cast' = cast, cast \in Casts, NEW a \in Attempts, Sessions!EndsEmpty(a)
  PROVE  EndsBare(a)
<1>. DEFINE j == [at |-> "ended", type |-> "P", gen |-> 0, conn |-> 0, lead |-> 0, answer |-> 0]
<1>1. 0 \in 0 .. cast.gens BY SessionsAssumption
<1>2. j \in Jobs BY <1>1 DEF Jobs, Numbers, JobPlaces
<1>3. job' = [job EXCEPT ![a] = j] BY IdleForms DEF Sessions!EndsEmpty
<1>. QED BY <1>2, <1>3, JobMoves DEF EndsBare
LEMMA HoldersKeep ==
  ASSUME SocketsOwned, NEW a \in Attempts,
         \A b \in Attempts : b # a => job'[b] = job[b] /\ result'[b] = result[b] /\ sess'[b] = sess[b],
         \A s \in Attempts : sock'[s].open \/ sock'[s].lease => Holder(a, s)' \/ ((sock[s].open \/ sock[s].lease) /\ ~Holder(a, s))
  PROVE  SocketsOwned'
<1>1. (\A s \in Attempts : sock[s].open \/ sock[s].lease => \E b \in Attempts : Holder(b, s))
BY DEF SocketsOwned, Sessions!NothingLeaks, Sessions!Owned, Sessions!InProgress, Holder
<1>2. \A b, s \in Attempts : b # a /\ Holder(b, s) => Holder(b, s)' BY DEF Holder
<1>3. \A s \in Attempts : sock'[s].open \/ sock'[s].lease => \E b \in Attempts : Holder(b, s)' BY <1>1, <1>2
<1>. QED BY <1>3 DEF SocketsOwned, Sessions!NothingLeaks, Sessions!Owned, Sessions!InProgress, Holder
LEMMA SessionsCount == ASSUME NEW S PROVE Sessions!Cardinality(S) = Cardinality(S)
BY DEF Sessions!Cardinality, Cardinality
LEMMA LeasesFinite == IsFiniteSet({s \in Attempts : sock[s].lease}) /\ Cardinality({s \in Attempts : sock[s].lease}) \in Nat
BY SessionsAssumption, FS_Subset, FS_CardinalityType
LEMMA DropsSlots ==
  ASSUME SockTypes, SlotsAddUp, NEW S, Sessions!Drops(S)
  PROVE  SlotsAddUp'
<1>. DEFINE L == {s \in Attempts : sock[s].lease}  M == {s \in S \cap Attempts : sock[s].lease}
<1>1. IsFiniteSet(L) /\ Cardinality(L) \in Nat BY LeasesFinite
<1>2. L \cap S = M OBVIOUS
<1>3. Cardinality(L \ S) = Cardinality(L) - Cardinality(L \cap S) BY <1>1, FS_Difference
<1>4. {s \in Attempts : sock'[s].lease} = L \ S BY DEF SockTypes, Sockets, Sessions!Drops
<1>5. slots' = slots + Cardinality(M) BY SessionsCount DEF Sessions!Drops
<1>6. Cardinality(M) \in Nat BY <1>1, <1>2, FS_Subset, FS_CardinalityType
<1>7. slots >= 0 /\ slots = Slots - Cardinality(L) BY DEF SlotsAddUp
<1>8. Cardinality({s \in Attempts : sock'[s].lease}) = Cardinality(L) - Cardinality(M) BY <1>2, <1>3, <1>4
<1>. HIDE DEF L, M
<1>9. slots' >= 0 /\ slots' = Slots - (Cardinality(L) - Cardinality(M)) BY <1>1, <1>5, <1>6, <1>7, SessionsAssumption
<1>. QED BY <1>8, <1>9 DEF SlotsAddUp
LEMMA DropsTypes ==
  ASSUME SockTypes, NEW S, Sessions!Drops(S)
  PROVE  SockTypes' /\ \A s \in Attempts : sock'[s] = IF s \in S THEN [open |-> FALSE, lease |-> FALSE] ELSE sock[s]
BY DEF SockTypes, Sockets, Sessions!Drops
LEMMA OpenSlots ==
  ASSUME SockTypes, SlotsAddUp, NEW a \in Attempts, Sessions!Open(a)
  PROVE  SockTypes' /\ SlotsAddUp' /\ \A s \in Attempts : sock'[s].lease = sock[s].lease /\ (s # a => sock'[s] = sock[s])
<1>1. sock[a] \in Sockets BY DEF SockTypes
<1>2. sock' = [sock EXCEPT ![a] = [sock[a] EXCEPT !.open = TRUE]] BY DEF Sessions!Open
<1>3. [sock[a] EXCEPT !.open = TRUE] \in Sockets /\ [sock[a] EXCEPT !.open = TRUE].lease = sock[a].lease BY <1>1 DEF Sockets
<1>4. SockTypes' BY <1>2, <1>3 DEF SockTypes, Sockets
<1>5. \A s \in Attempts : sock'[s].lease = sock[s].lease /\ (s # a => sock'[s] = sock[s]) BY <1>2, <1>3 DEF SockTypes
<1>6. {s \in Attempts : sock'[s].lease} = {s \in Attempts : sock[s].lease} BY <1>5
<1>. QED BY <1>4, <1>5, <1>6 DEF SlotsAddUp, Sessions!Open
LEMMA StartCallerMoves ==
  ASSUME PeerInv, NEW a \in Attempts, Sessions!StartCaller(a)
  PROVE  \E t \in {"P", "D"}, g \in 0 .. gen : Moves(a, "get", t, g, 0, 0, 0) /\ job[a].at = "off"
<1>1. job \in [Attempts -> Jobs] /\ cast' = cast /\ cast \in Casts /\ gen \in 1 .. cast.gens
BY DEF PeerInv, PeerTypes, JobTypes, PeerRunTypes, Sessions!StartCaller, Sessions!NetUnchanged
<1>2. gen \in 0 .. gen /\ 0 \in 0 .. gen /\ cast.gens \in Nat /\ \A g \in 0 .. gen : g \in 0 .. cast.gens
BY <1>1, SessionsAssumption
<1>. DEFINE j(t, g) == [at |-> "get", type |-> t, gen |-> g, conn |-> 0, lead |-> 0, answer |-> 0]
<1>3. \A t \in {"P", "D"}, g \in 0 .. gen : j(t, g) \in Jobs BY <1>2 DEF Jobs, Numbers, JobPlaces
<1>4. job' = [job EXCEPT ![a] = j("P", 0)] \/ job' = [job EXCEPT ![a] = j("D", gen)] BY IdleForms DEF Sessions!StartCaller
<1>5. job[a].at = "off" BY DEF Sessions!StartCaller
<1>6. CASE job' = [job EXCEPT ![a] = j("P", 0)] BY <1>1, <1>2, <1>3, <1>5, <1>6, JobMoves
<1>7. CASE job' = [job EXCEPT ![a] = j("D", gen)] BY <1>1, <1>2, <1>3, <1>5, <1>7, JobMoves
<1>. QED BY <1>4, <1>6, <1>7
LEMMA AcceptMoves ==
  ASSUME PeerInv, NEW a \in Attempts, Sessions!Accept(a)
  PROVE  /\ job[a].at = "off" /\ cast.who[a] = "inbound"
         /\ \/ /\ Moves(a, "init", "P", 0, a, 0, 0) /\ UNCHANGED flights /\ ~peerRun.stopping
               /\ slots > 0 /\ slots' = slots - 1 /\ sock' = [sock EXCEPT ![a] = [open |-> TRUE, lease |-> TRUE]]
            \/ EndsBare(a) /\ UNCHANGED <<sock, slots>>
<1>1. job \in [Attempts -> Jobs] /\ cast' = cast /\ cast \in Casts
BY DEF PeerInv, PeerTypes, JobTypes, Sessions!Accept, Sessions!NetUnchanged
<1>. DEFINE j == [at |-> "init", type |-> "P", gen |-> 0, conn |-> a, lead |-> 0, answer |-> 0]
<1>2. 0 \in 0 .. cast.gens BY <1>1, SessionsAssumption
<1>3. j \in Jobs BY <1>2 DEF Jobs, Numbers, JobPlaces
<1>4. ASSUME slots > 0, ~Sessions!Stopping, job' = [job EXCEPT ![a] = j] PROVE Moves(a, "init", "P", 0, a, 0, 0)
BY <1>1, <1>3, <1>4, JobMoves
<1>5. ASSUME Sessions!EndsEmpty(a) PROVE EndsBare(a) BY <1>1, <1>5, EndsEmptyMoves
<1>6. job' = [job EXCEPT ![a] = [Sessions!Idle EXCEPT !.at = "init", !.conn = a]] => job' = [job EXCEPT ![a] = j] BY IdleForms
<1>. QED BY <1>4, <1>5, <1>6 DEF Sessions!Accept, Sessions!Stopping, Sessions!SockUnchanged
LEMMA HandleConnectToPeerMoves ==
  ASSUME PeerInv, NEW a \in Attempts, Sessions!HandleConnectToPeer(a)
  PROVE  \E t \in {"P", "D"} : Moves(a, "mirror", t, gen, 0, 0, 0) /\ job[a].at = "off"
<1>. USE DEF Sessions!HandleConnectToPeer
<1>1. job \in [Attempts -> Jobs] /\ cast' = cast /\ cast \in Casts /\ gen \in 1 .. cast.gens
BY DEF PeerInv, PeerTypes, JobTypes, PeerRunTypes, Sessions!NetUnchanged
<1>2. gen \in 0 .. cast.gens BY <1>1, SessionsAssumption
<1>. DEFINE j(t) == [at |-> "mirror", type |-> t, gen |-> gen, conn |-> 0, lead |-> 0, answer |-> 0]
<1>3. \A t \in {"P", "D"} : j(t) \in Jobs BY <1>2 DEF Jobs, Numbers, JobPlaces
<1>4. PICK t \in {"P", "D"} : job' = [job EXCEPT ![a] = j(t)] BY ZenonT(150), IdleForms DEF Sessions!Types
<1>5. j(t) \in Jobs BY <1>3
<1>6. Moves(a, "mirror", t, gen, 0, 0, 0) BY <1>1, <1>4, <1>5, JobMoves
<1>. QED BY <1>6
LEMMA GetMoves ==
  ASSUME PeerInv, NEW a \in Attempts, Sessions!Get(a)
  PROVE  job[a].at = "get" /\ (MovesTo(a, "join") \/ \E s \in Numbers : EndsWith(a, s))
<1>1. job \in [Attempts -> Jobs] /\ cast' = cast /\ cast \in Casts /\ sessions \in [{"P", "D"} -> Numbers]
BY DEF PeerInv, PeerTypes, JobTypes, RegistryTypes, Sessions!Get, Sessions!NetUnchanged
<1>2. sessions[job[a].type] \in Numbers BY <1>1 DEF Jobs
<1>3. Sessions!Ends(a, sessions[job[a].type]) => EndsWith(a, sessions[job[a].type]) BY <1>1, <1>2, EndsMoves
<1>4. Sessions!Goto(a, "join") => MovesTo(a, "join") BY <1>1, GotoMoves DEF JobPlaces
<1>. QED BY <1>2, <1>3, <1>4 DEF Sessions!Get
LEMMA RecheckMoves ==
  ASSUME PeerInv, NEW a \in Attempts, Sessions!Recheck(a)
  PROVE  job[a].at = "recheck" /\ (MovesTo(a, "dial") \/ \E s \in Numbers : EndsWith(a, s))
<1>1. job \in [Attempts -> Jobs] /\ cast' = cast /\ cast \in Casts /\ sessions["D"] \in Numbers
BY DEF PeerInv, PeerTypes, JobTypes, RegistryTypes, Sessions!Recheck, Sessions!NetUnchanged
<1>2. Sessions!Ends(a, sessions["D"]) => EndsWith(a, sessions["D"]) BY <1>1, EndsMoves
<1>3. Sessions!Goto(a, "dial") => MovesTo(a, "dial") BY <1>1, GotoMoves DEF JobPlaces
<1>. QED BY <1>1, <1>2, <1>3 DEF Sessions!Recheck
LEMMA JoinMoves ==
  ASSUME PeerInv, NEW a \in Attempts, Sessions!Join(a)
  PROVE  /\ job[a].at = "join"
         /\ \/ MovesTo(a, "resolve") \/ MovesTo(a, "recheck")
            \/ \E l \in Attempts : Moves(a, "follow", job[a].type, job[a].gen, job[a].conn, l, job[a].answer)
<1>1. job \in [Attempts -> Jobs] /\ cast' = cast /\ flights \in [{"P", "D"} -> Numbers]
BY DEF PeerInv, PeerTypes, JobTypes, RegistryTypes, Sessions!Join, Sessions!NetUnchanged
<1>. DEFINE l == flights[job[a].type]  j == [job[a] EXCEPT !.at = "follow", !.lead = l]
<1>2. l \in Numbers /\ job[a] \in Jobs BY <1>1 DEF Jobs
<1>. HIDE DEF l
<1>3. j \in Jobs /\ j.at = "follow" /\ j.type = job[a].type /\ j.gen = job[a].gen /\ j.conn = job[a].conn /\ j.lead = l /\ j.answer = job[a].answer
BY <1>2 DEF Jobs, JobPlaces
<1>4. ASSUME l # 0, job' = [job EXCEPT ![a] = j] PROVE l \in Attempts /\ Moves(a, "follow", job[a].type, job[a].gen, job[a].conn, l, job[a].answer)
  <2>. HIDE DEF j
  <2>1. Moves(a, j.at, j.type, j.gen, j.conn, j.lead, j.answer) BY <1>1, <1>3, <1>4, JobMoves
  <2>2. Moves(a, "follow", job[a].type, job[a].gen, job[a].conn, l, job[a].answer) BY <1>3, <2>1 DEF Moves
  <2>. QED BY <1>2, <1>4, <2>2 DEF Numbers
<1>5. \A x \in {"resolve", "recheck"} : Sessions!Goto(a, x) => MovesTo(a, x)
  <2>1. TAKE x \in {"resolve", "recheck"}
  <2>2. x \in JobPlaces BY DEF JobPlaces
  <2>. QED BY <1>1, <2>2, GotoMoves
<1>6. job' = [job EXCEPT ![a].at = "follow", ![a].lead = l] => job' = [job EXCEPT ![a] = j] BY <1>1
<1>. HIDE DEF j
<1>. QED BY <1>4, <1>5, <1>6 DEF Sessions!Join, Sessions!Nobody, l
LEMMA FollowMoves ==
  ASSUME PeerInv, NEW a \in Attempts, Sessions!Follow(a)
  PROVE  job[a].at = "follow" /\ (EndsBare(a) \/ \E s \in Numbers : EndsWith(a, s))
<1>1. job \in [Attempts -> Jobs] /\ cast' = cast /\ cast \in Casts /\ job[a].at = "follow" /\ job[a].lead \in Attempts
BY DEF PeerInv, PeerTypes, JobTypes, HoldsWhere, Sessions!Follow, Sessions!NetUnchanged
<1>. DEFINE s == job[job[a].lead].answer
<1>2. s \in Numbers BY <1>1 DEF Jobs
<1>. HIDE DEF s
<1>3. Sessions!Ends(a, s) => EndsWith(a, s) BY <1>1, <1>2, EndsMoves
<1>4. Sessions!EndsEmpty(a) => EndsBare(a) BY <1>1, EndsEmptyMoves
<1>. QED BY <1>1, <1>2, <1>3, <1>4 DEF Sessions!Follow, s
LEMMA CheckMoves ==
  ASSUME PeerInv, NEW a \in Attempts, Sessions!Check(a)
  PROVE  /\ job[a].at = "check" /\ ~(peerRun.stopping /\ job[a].lead = a /\ a \in doomed)
         /\ \E s \in Numbers : EndsWith(a, s)
         /\ doomed' = doomed \/ \E w \in Attempts : sess[w] = "live" /\ doomed' = doomed \cup {w}
<1>. USE DEF Sessions!Check
<1>1. job \in [Attempts -> Jobs] /\ cast' = cast /\ cast \in Casts BY DEF PeerInv, PeerTypes, JobTypes, Sessions!NetUnchanged
<1>2. job[a].lead \in Numbers BY <1>1 DEF Jobs
<1>3. Sessions!Ends(a, job[a].lead) => EndsWith(a, job[a].lead) BY <1>1, <1>2, EndsMoves
<1>4. Sessions!Ends(a, 0) => EndsWith(a, 0) BY <1>1, EndsMoves DEF Numbers
<1>5. 0 \in Numbers BY DEF Numbers
<1>6. \E s \in Numbers : EndsWith(a, s) BY <1>2, <1>3, <1>4, <1>5 DEF Sessions!Nobody
<1>7. doomed' = doomed \/ \E w \in Attempts : sess[w] = "live" /\ doomed' = doomed \cup {w}
BY <1>2 DEF Sessions!Nobody, Numbers
<1>. QED BY <1>6, <1>7 DEF Sessions!Stopping
LEMMA CloseLoserMoves ==
  ASSUME PeerInv, NEW a \in Attempts, Sessions!CloseLoser(a)
  PROVE  /\ job[a].at = "lose" /\ Moves(a, "check", job[a].type, job[a].gen, 0, job[a].lead, job[a].answer)
         /\ SockTypes' /\ SlotsAddUp' /\ \A s \in Attempts : sock'[s] = IF s = job[a].conn THEN [open |-> FALSE, lease |-> FALSE] ELSE sock[s]
<1>. USE DEF Sessions!CloseLoser
<1>1. job \in [Attempts -> Jobs] /\ cast' = cast /\ SockTypes /\ SlotsAddUp
BY DEF PeerInv, PeerTypes, JobTypes, Sessions!NetUnchanged
<1>. DEFINE j == [job[a] EXCEPT !.at = "check", !.conn = 0]
<1>2. job[a] \in Jobs BY <1>1
<1>3. j \in Jobs /\ j.at = "check" /\ j.type = job[a].type /\ j.gen = job[a].gen /\ j.conn = 0 /\ j.lead = job[a].lead /\ j.answer = job[a].answer
BY <1>2 DEF Jobs, JobPlaces, Numbers
<1>4. job' = [job EXCEPT ![a] = j] BY <1>1
<1>. HIDE DEF j
<1>5. Moves(a, j.at, j.type, j.gen, j.conn, j.lead, j.answer) BY <1>1, <1>3, <1>4, JobMoves
<1>6. Moves(a, "check", job[a].type, job[a].gen, 0, job[a].lead, job[a].answer) BY <1>3, <1>5 DEF Moves
<1>7. Sessions!Drops({job[a].conn}) OBVIOUS
<1>8. SlotsAddUp' BY <1>1, <1>7, DropsSlots
<1>9. SockTypes' /\ \A s \in Attempts : sock'[s] = IF s \in {job[a].conn} THEN [open |-> FALSE, lease |-> FALSE] ELSE sock[s]
BY <1>1, <1>7, DropsTypes
<1>. QED BY <1>6, <1>8, <1>9
LEMMA DialMoves ==
  ASSUME PeerInv, NEW a \in Attempts, Sessions!Dial(a)
  PROVE  /\ job[a].at = "dial" /\ SockTypes' /\ SlotsAddUp'
         /\ \/ Moves(a, "register", job[a].type, job[a].gen, a, job[a].lead, job[a].answer) /\ \A s \in Attempts : s # a => sock'[s] = sock[s]
            \/ EndsBare(a) /\ sock' = sock
            \/ MovesTo(a, "pend") /\ sock' = sock
<1>1. job \in [Attempts -> Jobs] /\ cast' = cast /\ cast \in Casts /\ SockTypes /\ SlotsAddUp
BY DEF PeerInv, PeerTypes, JobTypes, Sessions!Dial, Sessions!NetUnchanged
<1>. DEFINE j == [job[a] EXCEPT !.at = "register", !.conn = a]
<1>2. job[a] \in Jobs BY <1>1
<1>3. j \in Jobs /\ j.at = "register" /\ j.type = job[a].type /\ j.gen = job[a].gen /\ j.conn = a /\ j.lead = job[a].lead /\ j.answer = job[a].answer
BY <1>2 DEF Jobs, JobPlaces, Numbers
<1>4. ASSUME Sessions!Open(a), job' = [job EXCEPT ![a].at = "register", ![a].conn = a]
      PROVE  /\ Moves(a, "register", job[a].type, job[a].gen, a, job[a].lead, job[a].answer) /\ SockTypes' /\ SlotsAddUp'
             /\ \A s \in Attempts : s # a => sock'[s] = sock[s]
  <2>1. job' = [job EXCEPT ![a] = j] BY <1>1, <1>4
  <2>. HIDE DEF j
  <2>2. Moves(a, j.at, j.type, j.gen, j.conn, j.lead, j.answer) BY <1>1, <1>3, <2>1, JobMoves
  <2>3. Moves(a, "register", job[a].type, job[a].gen, a, job[a].lead, job[a].answer) BY <1>3, <2>2 DEF Moves
  <2>. QED BY <1>1, <1>4, <2>3, OpenSlots
<1>5. ASSUME Sessions!SockUnchanged PROVE sock' = sock /\ SockTypes' /\ SlotsAddUp'
BY <1>1, <1>5 DEF Sessions!SockUnchanged, SockTypes, SlotsAddUp
<1>6. Sessions!EndsEmpty(a) => EndsBare(a) BY <1>1, EndsEmptyMoves
<1>7. Sessions!Goto(a, "pend") => MovesTo(a, "pend") BY <1>1, GotoMoves DEF JobPlaces
<1>. QED BY <1>4, <1>5, <1>6, <1>7 DEF Sessions!Dial
LEMMA MirrorDialMoves ==
  ASSUME PeerInv, NEW a \in Attempts, Sessions!MirrorDial(a)
  PROVE  /\ job[a].at = "mirror" /\ SockTypes' /\ SlotsAddUp'
         /\ \/ Moves(a, "register", job[a].type, job[a].gen, a, job[a].lead, job[a].answer) /\ \A s \in Attempts : s # a => sock'[s] = sock[s]
            \/ EndsBare(a) /\ sock' = sock
<1>1. job \in [Attempts -> Jobs] /\ cast' = cast /\ cast \in Casts /\ SockTypes /\ SlotsAddUp
BY DEF PeerInv, PeerTypes, JobTypes, Sessions!MirrorDial, Sessions!NetUnchanged
<1>. DEFINE j == [job[a] EXCEPT !.at = "register", !.conn = a]
<1>2. job[a] \in Jobs BY <1>1
<1>3. j \in Jobs /\ j.at = "register" /\ j.type = job[a].type /\ j.gen = job[a].gen /\ j.conn = a /\ j.lead = job[a].lead /\ j.answer = job[a].answer
BY <1>2 DEF Jobs, JobPlaces, Numbers
<1>4. ASSUME Sessions!Open(a), job' = [job EXCEPT ![a].at = "register", ![a].conn = a]
      PROVE  /\ Moves(a, "register", job[a].type, job[a].gen, a, job[a].lead, job[a].answer) /\ SockTypes' /\ SlotsAddUp'
             /\ \A s \in Attempts : s # a => sock'[s] = sock[s]
  <2>1. job' = [job EXCEPT ![a] = j] BY <1>1, <1>4
  <2>. HIDE DEF j
  <2>2. Moves(a, j.at, j.type, j.gen, j.conn, j.lead, j.answer) BY <1>1, <1>3, <2>1, JobMoves
  <2>3. Moves(a, "register", job[a].type, job[a].gen, a, job[a].lead, job[a].answer) BY <1>3, <2>2 DEF Moves
  <2>. QED BY <1>1, <1>4, <2>3, OpenSlots
<1>5. ASSUME Sessions!SockUnchanged PROVE sock' = sock /\ SockTypes' /\ SlotsAddUp'
BY <1>1, <1>5 DEF Sessions!SockUnchanged, SockTypes, SlotsAddUp
<1>6. Sessions!EndsEmpty(a) => EndsBare(a) BY <1>1, EndsEmptyMoves
<1>. QED BY <1>4, <1>5, <1>6 DEF Sessions!MirrorDial
LEMMA PeerInitMoves ==
  ASSUME PeerInv, NEW a \in Attempts, Sessions!PeerInit(a)
  PROVE  /\ job[a].at = "init"
         /\ MovesTo(a, "register") \/ Moves(a, "register", "D", gen, job[a].conn, job[a].lead, job[a].answer)
<1>1. job \in [Attempts -> Jobs] /\ cast' = cast /\ cast \in Casts /\ gen \in 1 .. cast.gens
BY DEF PeerInv, PeerTypes, JobTypes, PeerRunTypes, Sessions!PeerInit, Sessions!NetUnchanged
<1>. DEFINE j == [job[a] EXCEPT !.at = "register", !.type = "D", !.gen = gen]
<1>2. job[a] \in Jobs /\ gen \in 0 .. cast.gens BY <1>1, SessionsAssumption
<1>3. j \in Jobs /\ j.at = "register" /\ j.type = "D" /\ j.gen = gen /\ j.conn = job[a].conn /\ j.lead = job[a].lead /\ j.answer = job[a].answer
BY <1>2 DEF Jobs, JobPlaces, Numbers
<1>4. ASSUME job' = [job EXCEPT ![a].at = "register", ![a].type = "D", ![a].gen = gen]
      PROVE  Moves(a, "register", "D", gen, job[a].conn, job[a].lead, job[a].answer)
  <2>1. job' = [job EXCEPT ![a] = j] BY <1>1, <1>4
  <2>. HIDE DEF j
  <2>2. Moves(a, j.at, j.type, j.gen, j.conn, j.lead, j.answer) BY <1>1, <1>3, <2>1, JobMoves
  <2>. QED BY <1>3, <2>2 DEF Moves
<1>5. Sessions!Goto(a, "register") => MovesTo(a, "register") BY <1>1, GotoMoves DEF JobPlaces
<1>. QED BY <1>4, <1>5 DEF Sessions!PeerInit
LEMMA AcceptSlots ==
  ASSUME PeerInv, NEW a \in Attempts, Sessions!Accept(a)
  PROVE  SockTypes' /\ SlotsAddUp'
<1>1. SockTypes /\ SlotsAddUp /\ ~sock[a].lease BY AcceptMoves DEF PeerInv, PeerTypes, SocketWhere
<1>2. ASSUME UNCHANGED <<sock, slots>> PROVE SockTypes' /\ SlotsAddUp' BY <1>1, <1>2 DEF SockTypes, SlotsAddUp
<1>3. ASSUME slots > 0, slots' = slots - 1, sock' = [sock EXCEPT ![a] = [open |-> TRUE, lease |-> TRUE]] PROVE SockTypes' /\ SlotsAddUp'
  <2>. DEFINE L == {s \in Attempts : sock[s].lease}
  <2>1. SockTypes' BY <1>1, <1>3 DEF SockTypes, Sockets
  <2>2. {s \in Attempts : sock'[s].lease} = L \cup {a} BY <1>1, <1>3 DEF SockTypes, Sockets
  <2>3. IsFiniteSet(L) /\ Cardinality(L) \in Nat /\ a \notin L BY <1>1, LeasesFinite
  <2>4. Cardinality(L \cup {a}) = Cardinality(L) + 1 BY <2>3, FS_AddElement
  <2>5. slots >= 0 /\ slots = Slots - Cardinality(L) BY <1>1 DEF SlotsAddUp
  <2>. HIDE DEF L
  <2>6. slots' >= 0 /\ slots' = Slots - (Cardinality(L) + 1) BY <1>3, <2>3, <2>5, SessionsAssumption
  <2>. QED BY <2>1, <2>2, <2>4, <2>6 DEF SlotsAddUp
<1>. QED BY <1>2, <1>3, AcceptMoves
LEMMA CompletePendingDialOwned ==
  ASSUME PeerInv, NEW a \in Attempts, Sessions!CompletePendingDial(a)
  PROVE  SocketsOwned'
<1>. USE DEF Holder
<1>1. PICK t \in pending : job[t].at \in {"await", "deregister"} /\ pending' = pending \ {t} /\ result' = [result EXCEPT ![t] = a]
BY DEF Sessions!CompletePendingDial
<1>2. /\ job \in [Attempts -> Jobs] /\ cast' = cast /\ cast \in Casts /\ t \in Attempts /\ result \in [Attempts -> Numbers \cup {-1}]
      /\ UNCHANGED <<sock, sess>>
BY DEF PeerInv, PeerTypes, JobTypes, WaitTypes, Sessions!CompletePendingDial, Sessions!NetUnchanged, Sessions!SockUnchanged, Sessions!SessUnchanged
<1>3. job[a].at = "init" /\ job[a].conn = a /\ result[a] = 0 /\ sess[a] # "live"
BY DEF Sessions!CompletePendingDial, PeerInv, HoldsWhere, AnswerWhere, SessionWhere, Dialing
<1>4. EndsBare(a) BY <1>2, EndsEmptyMoves DEF Sessions!CompletePendingDial
<1>5. t # a /\ result[t] = 0 BY <1>1, <1>2, <1>3 DEF PeerInv, AnswerWhere
<1>6. result'[t] = a /\ \A b \in Attempts : b # t => result'[b] = result[b] BY <1>1, <1>2
<1>7. \A b \in Attempts : b # a => job'[b] = job[b] BY <1>4 DEF EndsBare, Moves
<1>8. Holder(t, a)' BY <1>1, <1>2, <1>5, <1>6, <1>7
<1>9. \A s \in Attempts : Holder(a, s) => s = a BY <1>3, SessionsAssumption
<1>10. \A s \in Attempts : Holder(t, s) => Holder(t, s)' BY <1>2, <1>5, <1>7, SessionsAssumption
<1>11. \A b, s \in Attempts : b \notin {a, t} => (Holder(b, s) => Holder(b, s)') BY <1>2, <1>6, <1>7
<1>12. \A s \in Attempts : sock[s].open \/ sock[s].lease => \E b \in Attempts : Holder(b, s)
BY DEF PeerInv, SocketsOwned, Sessions!NothingLeaks, Sessions!Owned, Sessions!InProgress
<1>13. \A s \in Attempts : sock'[s].open \/ sock'[s].lease => \E b \in Attempts : Holder(b, s)'
BY <1>2, <1>8, <1>9, <1>10, <1>11, <1>12
<1>. QED BY <1>13 DEF SocketsOwned, Sessions!NothingLeaks, Sessions!Owned, Sessions!InProgress
LEMMA CloseLoserOwned ==
  ASSUME PeerInv, NEW a \in Attempts, Sessions!CloseLoser(a)
  PROVE  SocketsOwned'
<1>1. /\ sess' = [sess EXCEPT ![a] = "none"] /\ result' = result /\ job[a].at = "lose" /\ sess \in [Attempts -> {"none", "fresh", "live", "closing"}]
      /\ result[a] = 0 /\ sess[a] = "fresh"
BY DEF Sessions!CloseLoser, Sessions!WaitUnchanged, PeerInv, PeerTypes, SessTypes, AnswerWhere, SessionWhere, Dialing
<1>2. /\ \A b \in Attempts : b # a => job'[b] = job[b]
      /\ \A s \in Attempts : sock'[s] = IF s = job[a].conn THEN [open |-> FALSE, lease |-> FALSE] ELSE sock[s]
BY CloseLoserMoves DEF Moves
<1>3. \A b \in Attempts : b # a => job'[b] = job[b] /\ result'[b] = result[b] /\ sess'[b] = sess[b] BY <1>1, <1>2
<1>4. \A s \in Attempts : Holder(a, s) => s = job[a].conn BY <1>1, SessionsAssumption DEF Holder
<1>5. \A s \in Attempts : sock'[s].open \/ sock'[s].lease => (sock[s].open \/ sock[s].lease) /\ ~Holder(a, s) BY <1>2, <1>4
<1>. QED BY <1>3, <1>5, HoldersKeep DEF PeerInv
LEMMA CloseGenerationNone ==
  ASSUME PeerInv, Sessions!CloseGeneration
  PROVE  NoneOutlives'
<1>. USE DEF PeerInv
<1>1. closedGen = gen - 1 /\ closedGen' = gen /\ UNCHANGED <<sess, job>> /\ gen \in Nat /\ doomed \subseteq doomed'
BY SessionsAssumption DEF Sessions!CloseGeneration, PeerTypes, PeerRunTypes, GenerationsClose, JobTypes
<1>2. SUFFICES ASSUME NEW a \in Attempts, sess[a] = "live", job[a].type = "D", job[a].gen <= gen PROVE a \in doomed'
BY <1>1 DEF NoneOutlives, Sessions!NoSessionOutlivesServer
<1>3. job[a].gen \in Nat BY SessionsAssumption DEF PeerTypes, JobTypes, Jobs
<1>4. CASE a \in doomed BY <1>1, <1>4
<1>5. ASSUME a \notin doomed PROVE a \in doomed'
  <2>1. sessions["D"] = a BY <1>2, <1>5 DEF OneRegistered, Sessions!OneSessionPerPeer
  <2>2. job[a].gen = gen
    <3>1. ~(job[a].gen <= closedGen) BY <1>2, <1>5 DEF NoneOutlives, Sessions!NoSessionOutlivesServer
    <3>. QED BY <1>1, <1>2, <1>3, <3>1
  <2>3. a # 0 BY SessionsAssumption
  <2>. QED BY <1>2, <2>1, <2>2, <2>3 DEF Sessions!CloseGeneration, Sessions!Nobody
<1>. QED BY <1>4, <1>5
LEMMA CloseHandshakesSlots ==
  ASSUME PeerInv, Sessions!CloseHandshakes
  PROVE  SlotsAddUp'
<1>1. \A s \in Attempts : sock'[s].lease = sock[s].lease BY DEF Sessions!CloseHandshakes, PeerInv, PeerTypes, SockTypes, Sockets
<1>2. {s \in Attempts : sock'[s].lease} = {s \in Attempts : sock[s].lease} BY <1>1
<1>. QED BY <1>2 DEF Sessions!CloseHandshakes, PeerInv, SlotsAddUp
LEMMA RemoveIfSameLeaves ==
  ASSUME PeerInv, NEW a \in Attempts, Sessions!RemoveIfSame(a)
  PROVE  OnlyCallersLeft'
<1>1. /\ sess \in [Attempts -> {"none", "fresh", "live", "closing"}] /\ sess' = [sess EXCEPT ![a] = "none"]
      /\ UNCHANGED <<cast, job, doomed, peerRun>>
BY DEF Sessions!RemoveIfSame, Sessions!NetUnchanged, PeerInv, PeerTypes, SessTypes
<1>2. \A b \in Attempts : sess'[b] = sess[b] \/ sess'[b] = "none" BY <1>1
<1>3. \A b \in Attempts : sess'[b] = "live" => sess[b] = "live" BY <1>2
<1>4. \A b \in Attempts : sess[b] = "none" => sess'[b] = "none" BY <1>2
<1>. QED BY <1>1, <1>3, <1>4 DEF PeerInv, OnlyCallersLeft, Busy
LEMMA OnlyCallersKeep ==
  ASSUME PeerInv, NEW a \in Attempts, Busy(a), sess[a] # "live", UNCHANGED <<cast, sess, doomed, peerRun>>,
         \A b \in Attempts : b # a => job'[b] = job[b]
  PROVE  OnlyCallersLeft'
<1>1. SUFFICES ASSUME peerRun.at = "down", NEW b \in Attempts
      PROVE  /\ cast.who[b] # "caller" => ~Busy(b)' /\ sess[b] = "none"
             /\ sess[b] = "live" => job'[b].at = "loops" \/ (job'[b].at = "check" /\ b \in doomed)
BY DEF OnlyCallersLeft
<1>2. /\ cast.who[b] # "caller" => ~Busy(b) /\ sess[b] = "none"
      /\ sess[b] = "live" => job[b].at = "loops" \/ (job[b].at = "check" /\ b \in doomed)
BY <1>1 DEF PeerInv, OnlyCallersLeft
<1>. QED BY <1>2 DEF Busy
LEMMA HoldsKeep ==
  ASSUME PeerInv, NEW a \in Attempts, \A b \in Attempts : b # a => job'[b] = job[b],
         job'[a].at # "follow", job'[a].at = "init" => job'[a].conn = a,
         job'[a].at \in {"deregister", "drain", "init", "register", "lose", "loops", "check", "ended"} \/ job'[a].conn = 0
  PROVE  HoldsWhere'
<1>1. ASSUME NEW b \in Attempts, b # a, HoldsWhere
      PROVE  /\ job'[b].conn # 0 => job'[b].at \in {"deregister", "drain", "init", "register", "lose", "loops", "check", "ended"}
             /\ job'[b].at = "init" => job'[b].conn = b
             /\ job'[b].at = "follow" => job'[b].lead \in Attempts
BY <1>1 DEF HoldsWhere
<1>. QED BY <1>1 DEF PeerInv, HoldsWhere
LEMMA PeerStep ==
  ASSUME PeerInv, Sessions!Next
  PROVE  PeerInv'
<1>. USE DEF PeerTypes, PeerInv
<1>1. ASSUME PeerInv, Sessions!DeliverAddr PROVE PeerInv'
  <2>. USE DEF Sessions!SockUnchanged, JobTypes, JobPlaces, Sessions!DeliverAddr, WaitTypes, Jobs, Sessions!NetUnchanged,
       Sessions!SessUnchanged, Sessions!Serving, Numbers, HoldsWhere
  <2>1. WaitTypes' BY <1>1, SessionsAssumption
  <2>2. AnswerWhere' BY <1>1, SessionsAssumption DEF AnswerWhere, Dialing
  <2>3. SocketsOwned'
    BY <1>1, SessionsAssumption DEF SocketsOwned, SockTypes, SessTypes, AnswerWhere, SocketWhere, SessionWhere,
       Sessions!NothingLeaks, Sockets, Dialing, Sessions!Owned, Sessions!InProgress
  <2>4. JobTypes' /\ SockTypes' /\ SessTypes' /\ RegistryTypes' /\ PeerRunTypes' /\ SlotsAddUp' /\ HoldsWhere' /\
        SocketWhere' /\ SessionWhere' /\ GenerationsClose' /\ StopIsFinal' /\ OnlyCallersLeft' /\ OneRegistered' /\
        NoneOutlives'
    <3>1. UNCHANGED <<cast, job, sock, sess, doomed, sessions, closedGen, flights, slots, gen, peerRun>> BY <1>1
    <3>. QED BY <1>1, <3>1 DEF SockTypes, SessTypes, RegistryTypes, PeerRunTypes, SlotsAddUp, SocketWhere, SessionWhere,
         GenerationsClose, StopIsFinal, OnlyCallersLeft, Busy, OneRegistered, Sessions!OneSessionPerPeer, NoneOutlives,
         Sessions!NoSessionOutlivesServer
  <2>. QED BY <2>1, <2>2, <2>3, <2>4
<1>2. ASSUME PeerInv, Sessions!Cancel PROVE PeerInv'
  <2>. USE SessionsAssumption DEF JobTypes, PeerRunTypes, Jobs, Sessions!Serving, Sessions!Cancel
  <2>1. PeerRunTypes' BY ZenonT(150), <1>2 DEF JobPlaces, Numbers
  <2>2. GenerationsClose' BY <1>2 DEF GenerationsClose
  <2>3. StopIsFinal' BY <1>2 DEF StopIsFinal
  <2>4. OnlyCallersLeft' BY <1>2 DEF OnlyCallersLeft, SessTypes, SessionWhere, StopIsFinal, Busy, JobPlaces, Numbers
  <2>5. JobTypes' /\ SockTypes' /\ SessTypes' /\ RegistryTypes' /\ WaitTypes' /\ SlotsAddUp' /\ HoldsWhere' /\
        AnswerWhere' /\ SocketWhere' /\ SessionWhere' /\ SocketsOwned' /\ OneRegistered' /\ NoneOutlives'
    <3>1. UNCHANGED <<cast, job, sock, sess, doomed, sessions, closedGen, flights, asking, pending, result, failing,
         slots, gen>> BY <1>2
    <3>. QED BY <1>2, <3>1 DEF SockTypes, SessTypes, RegistryTypes, WaitTypes, SlotsAddUp, HoldsWhere, AnswerWhere, SocketWhere,
         SessionWhere, SocketsOwned, Sessions!NothingLeaks, Sessions!Owned, Sessions!InProgress, OneRegistered,
         Sessions!OneSessionPerPeer, NoneOutlives, Sessions!NoSessionOutlivesServer
  <2>. QED BY <2>1, <2>2, <2>3, <2>4, <2>5
<1>3. ASSUME PeerInv, Sessions!LoseServer PROVE PeerInv'
  <2>. USE SessionsAssumption DEF JobTypes, PeerRunTypes, Sessions!LoseServer, Jobs, Sessions!RunGoes, Sessions!Serving
  <2>1. PeerRunTypes' BY <1>3 DEF JobPlaces, Numbers
  <2>2. GenerationsClose' BY <1>3 DEF GenerationsClose
  <2>3. StopIsFinal' BY <1>3 DEF StopIsFinal
  <2>4. OnlyCallersLeft' BY <1>3 DEF OnlyCallersLeft, SessTypes, SessionWhere, StopIsFinal, Busy, JobPlaces, Numbers
  <2>5. JobTypes' /\ SockTypes' /\ SessTypes' /\ RegistryTypes' /\ WaitTypes' /\ SlotsAddUp' /\ HoldsWhere' /\
        AnswerWhere' /\ SocketWhere' /\ SessionWhere' /\ SocketsOwned' /\ OneRegistered' /\ NoneOutlives'
    <3>1. UNCHANGED <<cast, job, sock, sess, doomed, sessions, closedGen, flights, asking, pending, result, failing,
         slots, gen>> BY <1>3
    <3>. QED BY <1>3, <3>1 DEF SockTypes, SessTypes, RegistryTypes, WaitTypes, SlotsAddUp, HoldsWhere, AnswerWhere, SocketWhere,
         SessionWhere, SocketsOwned, Sessions!NothingLeaks, Sessions!Owned, Sessions!InProgress, OneRegistered,
         Sessions!OneSessionPerPeer, NoneOutlives, Sessions!NoSessionOutlivesServer
  <2>. QED BY <2>1, <2>2, <2>3, <2>4, <2>5
<1>4. ASSUME PeerInv, Sessions!Login PROVE PeerInv'
  <2>. USE SessionsAssumption DEF Sessions!Login, JobTypes, PeerRunTypes, JobPlaces, Sessions!RunGoes, Jobs, Numbers
  <2>1. JobTypes' BY <1>4 DEF RegistryTypes, WaitTypes, HoldsWhere
  <2>2. PeerRunTypes' BY <1>4
  <2>3. SessionWhere' BY <1>4 DEF SessionWhere, SessTypes, HoldsWhere
  <2>4. GenerationsClose' BY <1>4 DEF GenerationsClose
  <2>5. StopIsFinal' BY <1>4 DEF StopIsFinal
  <2>6. OnlyCallersLeft' BY <1>4 DEF OnlyCallersLeft, SessTypes, SessionWhere, StopIsFinal, Busy
  <2>7. SockTypes' /\ SessTypes' /\ RegistryTypes' /\ WaitTypes' /\ SlotsAddUp' /\ HoldsWhere' /\ AnswerWhere' /\
        SocketWhere' /\ SocketsOwned' /\ OneRegistered' /\ NoneOutlives'
    <3>1. UNCHANGED <<job, sock, sess, doomed, sessions, closedGen, flights, asking, pending, result, failing, slots>>
      BY <1>4
    <3>. QED BY <1>4, <3>1 DEF SockTypes, SessTypes, RegistryTypes, WaitTypes, SlotsAddUp, HoldsWhere, AnswerWhere, SocketWhere,
         SocketsOwned, Sessions!NothingLeaks, Sessions!Owned, Sessions!InProgress, OneRegistered, Sessions!OneSessionPerPeer,
         NoneOutlives, Sessions!NoSessionOutlivesServer
  <2>. QED BY <2>1, <2>2, <2>3, <2>4, <2>5, <2>6, <2>7
<1>5. ASSUME PeerInv, NEW a \in Attempts, Sessions!StartCaller(a) PROVE PeerInv'
  <2>1. UNCHANGED <<cast, sock, sess, doomed, sessions, closedGen, flights, asking, pending, result, failing, slots, gen, peerRun>>
    BY <1>5 DEF Sessions!StartCaller, Sessions!Caller, Sessions!Stopping, Sessions!Idle, Sessions!Serving, Sessions!NetUnchanged,
       Sessions!SessUnchanged, Sessions!SockUnchanged, Sessions!WaitUnchanged
  <2>2. SocketWhere'
    BY <1>5, SessionsAssumption DEF Sessions!StartCaller, Sessions!Caller, Sessions!Stopping, Sessions!Idle,
       Sessions!Serving, Sessions!NetUnchanged, Sessions!SessUnchanged, Sessions!SockUnchanged, Sessions!WaitUnchanged,
       SocketWhere, JobTypes, SockTypes, Jobs, Sockets, JobPlaces, Numbers, PeerInv, PeerTypes
  <2>. USE SessionsAssumption DEF JobTypes, PeerRunTypes, JobPlaces, WaitTypes, Moves, EndsWith, Jobs, HoldsWhere, EndsBare,
       MovesTo, Numbers, SessionWhere, SessTypes
  <2>3. JobTypes' BY <1>5, <2>1, StartCallerMoves DEF RegistryTypes
  <2>4. HoldsWhere' BY <1>5, <2>1, StartCallerMoves DEF RegistryTypes
  <2>5. SessionWhere' BY <1>5, <2>1, StartCallerMoves
  <2>6. SocketsOwned'
    <3>1. \A b \in Attempts : b # a => job'[b] = job[b] /\ result'[b] = result[b] /\ sess'[b] = sess[b]
      BY <1>5, <2>1, StartCallerMoves
    <3>2. \A s \in Attempts : sock'[s].open \/ sock'[s].lease => Holder(a, s)' \/ ((sock[s].open \/ sock[s].lease) /\ ~Holder(a, s))
      BY <1>5, <2>1, StartCallerMoves DEF SockTypes, Sockets, AnswerWhere, Dialing, SocketWhere, Holder
    <3>. QED BY <1>5, <3>1, <3>2, HoldersKeep
  <2>7. NoneOutlives'
    BY <1>5, <2>1, StartCallerMoves DEF NoneOutlives, Sessions!NoSessionOutlivesServer, GenerationsClose, OneRegistered,
       Sessions!OneSessionPerPeer
  <2>8. SockTypes' /\ SessTypes' /\ RegistryTypes' /\ WaitTypes' /\ PeerRunTypes' /\ SlotsAddUp' /\ GenerationsClose'
        /\ StopIsFinal'
    BY <1>5, <2>1 DEF SockTypes, RegistryTypes, SlotsAddUp, GenerationsClose, StopIsFinal
  <2>. USE DEF Sessions!Caller, Sessions!SockUnchanged, Sessions!WaitUnchanged, Sessions!Idle, Sessions!StartCaller,
       Sessions!Stopping, Sessions!NetUnchanged, Sessions!SessUnchanged, Sessions!Serving
  <2>9. AnswerWhere' BY SMTT(100), <1>5 DEF AnswerWhere, Dialing
  <2>10. OnlyCallersLeft' BY <1>5 DEF OnlyCallersLeft, StopIsFinal, Busy
  <2>11. OneRegistered' BY ZenonT(150), <1>5 DEF OneRegistered, RegistryTypes, Sessions!OneSessionPerPeer
  <2>. QED BY <2>3, <2>4, <2>9, <2>2, <2>5, <2>10, <2>6, <2>11, <2>7, <2>8
<1>6. ASSUME PeerInv, NEW a \in Attempts, Sessions!Accept(a) PROVE PeerInv'
  <2>1. UNCHANGED <<cast, sess, doomed, sessions, closedGen, asking, pending, result, failing, gen, peerRun>>
    BY <1>6 DEF Sessions!Accept, Sessions!Stopping, Sessions!Idle, Sessions!EndsEmpty, Sessions!SockUnchanged,
       Sessions!NetUnchanged, Sessions!SessUnchanged, Sessions!WaitUnchanged, Sessions!Ended
  <2>. USE SessionsAssumption DEF JobTypes, JobPlaces, Moves, EndsWith, Jobs, HoldsWhere, EndsBare, MovesTo, Numbers
  <2>2. JobTypes' BY <1>6, <2>1, AcceptMoves DEF PeerRunTypes, RegistryTypes, WaitTypes
  <2>3. SockTypes' BY <1>6, AcceptSlots
  <2>4. SlotsAddUp' BY <1>6, AcceptSlots
  <2>5. HoldsWhere' BY <1>6, <2>1, AcceptMoves DEF RegistryTypes, WaitTypes, SessionWhere
  <2>6. SocketWhere'
    <3>1. job'[a].at \in {"init", "ended"} /\ \A b \in Attempts : b # a => job'[b] = job[b] /\ sock'[b] = sock[b]
      BY <1>6, AcceptMoves DEF SockTypes
    <3>. QED BY <3>1 DEF SocketWhere
  <2>7. SessionWhere' BY <1>6, <2>1, AcceptMoves DEF SessionWhere, SessTypes, PeerRunTypes
  <2>8. SocketsOwned'
    <3>1. \A b \in Attempts : b # a => job'[b] = job[b] /\ result'[b] = result[b] /\ sess'[b] = sess[b]
      BY <1>6, <2>1, AcceptMoves
    <3>2. \A s \in Attempts : sock'[s].open \/ sock'[s].lease => Holder(a, s)' \/ ((sock[s].open \/ sock[s].lease) /\ ~Holder(a, s))
      BY <1>6, <2>1, AcceptMoves DEF SockTypes, Sockets, SessTypes, WaitTypes, AnswerWhere, Dialing, SocketWhere, SessionWhere,
         Holder
    <3>. QED BY <1>6, <3>1, <3>2, HoldersKeep
  <2>. USE DEF Sessions!Accept, Sessions!EndsEmpty, Sessions!SockUnchanged, Sessions!WaitUnchanged, Sessions!Idle,
       Sessions!Stopping, Sessions!NetUnchanged, Sessions!SessUnchanged, Sessions!Ended, Sessions!Nobody, Sessions!Types,
       SessTypes
  <2>9. RegistryTypes' BY <1>6 DEF RegistryTypes
  <2>10. AnswerWhere' BY <1>6 DEF AnswerWhere, WaitTypes, Dialing
  <2>11. OnlyCallersLeft' BY SMTT(40), <1>6 DEF OnlyCallersLeft, PeerRunTypes, SessionWhere, StopIsFinal, Busy
  <2>12. OneRegistered' BY <1>6 DEF OneRegistered, RegistryTypes, SessionWhere, Sessions!OneSessionPerPeer
  <2>13. NoneOutlives' BY ZenonT(150), <1>6 DEF NoneOutlives, PeerRunTypes, SessionWhere, GenerationsClose, OneRegistered,
       Sessions!NoSessionOutlivesServer, Sessions!OneSessionPerPeer
  <2>14. SessTypes' /\ WaitTypes' /\ PeerRunTypes' /\ GenerationsClose' /\ StopIsFinal'
    <3>1. UNCHANGED <<cast, sess, doomed, closedGen, asking, pending, result, failing, gen, peerRun>> BY <1>6
    <3>. QED BY <1>6, <3>1 DEF WaitTypes, PeerRunTypes, GenerationsClose, StopIsFinal
  <2>. QED BY <2>2, <2>3, <2>9, <2>4, <2>5, <2>10, <2>6, <2>7, <2>11, <2>8, <2>12, <2>13, <2>14
<1>7. ASSUME PeerInv, NEW a \in Attempts, Sessions!HandleConnectToPeer(a) PROVE PeerInv'
  <2>1. UNCHANGED <<cast, sock, sess, doomed, sessions, closedGen, flights, asking, pending, result, failing, slots, gen, peerRun>>
    BY <1>7 DEF Sessions!HandleConnectToPeer, Sessions!Serving, Sessions!Idle, Sessions!NetUnchanged, Sessions!SessUnchanged,
       Sessions!SockUnchanged, Sessions!WaitUnchanged
  <2>2. JobTypes'
    BY <1>7, <2>1, HandleConnectToPeerMoves, SessionsAssumption DEF JobTypes, Jobs, JobPlaces, Numbers, PeerRunTypes,
       RegistryTypes, WaitTypes, HoldsWhere, Moves, MovesTo, EndsWith, EndsBare
  <2>3. SockTypes' /\ SessTypes' /\ RegistryTypes' /\ WaitTypes' /\ PeerRunTypes' /\ SlotsAddUp' /\ GenerationsClose'
        /\ StopIsFinal'
    BY <1>7, <2>1 DEF SockTypes, SessTypes, RegistryTypes, WaitTypes, PeerRunTypes, SlotsAddUp, GenerationsClose, StopIsFinal
  <2>. USE SessionsAssumption DEF Sessions!Serving, Sessions!SockUnchanged, SessionWhere, Sessions!WaitUnchanged,
       Sessions!Idle, JobTypes, JobPlaces, Sessions!NetUnchanged, Sessions!SessUnchanged, HoldsWhere, Jobs, Sessions!Types,
       Sessions!HandleConnectToPeer, Numbers, SessTypes
  <2>4. HoldsWhere' BY <1>7 DEF RegistryTypes, WaitTypes
  <2>5. AnswerWhere' BY <1>7 DEF AnswerWhere, WaitTypes, Dialing
  <2>6. SocketWhere' BY <1>7 DEF SocketWhere, SockTypes, Sockets
  <2>7. SessionWhere' BY <1>7 DEF PeerRunTypes
  <2>8. OnlyCallersLeft' BY <1>7 DEF OnlyCallersLeft, PeerRunTypes, StopIsFinal, Busy
  <2>9. SocketsOwned'
    BY <1>7 DEF SocketsOwned, SockTypes, WaitTypes, AnswerWhere, SocketWhere, Sessions!NothingLeaks, Sockets, Dialing,
       Sessions!Owned, Sessions!InProgress
  <2>10. OneRegistered' BY <1>7 DEF OneRegistered, RegistryTypes, Sessions!OneSessionPerPeer
  <2>11. NoneOutlives'
    BY <1>7 DEF NoneOutlives, PeerRunTypes, GenerationsClose, OneRegistered, Sessions!NoSessionOutlivesServer,
       Sessions!OneSessionPerPeer
  <2>. QED BY <2>2, <2>4, <2>5, <2>6, <2>7, <2>8, <2>9, <2>10, <2>11, <2>3
<1>8. ASSUME PeerInv, NEW a \in Attempts, Sessions!CantConnectToPeer(a) PROVE PeerInv'
  <2>. USE DEF Sessions!SockUnchanged, Sessions!Refused, JobTypes, JobPlaces, Sessions!CantConnectToPeer, WaitTypes, Jobs,
       Sessions!NetUnchanged, Sessions!SessUnchanged, Sessions!Serving, Numbers, HoldsWhere
  <2>1. WaitTypes' BY <1>8, SessionsAssumption
  <2>2. AnswerWhere' BY <1>8, SessionsAssumption DEF AnswerWhere, Dialing
  <2>3. SocketsOwned'
    BY <1>8, SessionsAssumption DEF SocketsOwned, SockTypes, SessTypes, AnswerWhere, SocketWhere, SessionWhere,
       Sessions!NothingLeaks, Sockets, Dialing, Sessions!Owned, Sessions!InProgress
  <2>4. JobTypes' /\ SockTypes' /\ SessTypes' /\ RegistryTypes' /\ PeerRunTypes' /\ SlotsAddUp' /\ HoldsWhere' /\
        SocketWhere' /\ SessionWhere' /\ GenerationsClose' /\ StopIsFinal' /\ OnlyCallersLeft' /\ OneRegistered' /\
        NoneOutlives'
    <3>1. UNCHANGED <<cast, job, sock, sess, doomed, sessions, closedGen, flights, slots, gen, peerRun>> BY <1>8
    <3>. QED BY <1>8, <3>1 DEF SockTypes, SessTypes, RegistryTypes, PeerRunTypes, SlotsAddUp, SocketWhere, SessionWhere,
         GenerationsClose, StopIsFinal, OnlyCallersLeft, Busy, OneRegistered, Sessions!OneSessionPerPeer, NoneOutlives,
         Sessions!NoSessionOutlivesServer
  <2>. QED BY <2>1, <2>2, <2>3, <2>4
<1>9. ASSUME PeerInv, NEW a \in Attempts, Sessions!ReadLoopFails(a) PROVE PeerInv'
  <2>. USE SessionsAssumption DEF Sessions!SockUnchanged, Sessions!WaitUnchanged, JobTypes, SessTypes, JobPlaces,
       RegistryTypes, Sessions!NetUnchanged, Jobs, Sessions!ReadLoopFails, Numbers, SessionWhere, PeerRunTypes
  <2>1. SessTypes' BY <1>9
  <2>2. OnlyCallersLeft' BY <1>9 DEF OnlyCallersLeft, StopIsFinal, Busy
  <2>3. OneRegistered' BY <1>9 DEF OneRegistered, Sessions!OneSessionPerPeer
  <2>4. NoneOutlives'
    BY <1>9 DEF NoneOutlives, GenerationsClose, OneRegistered, Sessions!NoSessionOutlivesServer, Sessions!OneSessionPerPeer
  <2>5. JobTypes' /\ SockTypes' /\ RegistryTypes' /\ WaitTypes' /\ PeerRunTypes' /\ SlotsAddUp' /\ HoldsWhere' /\
        AnswerWhere' /\ SocketWhere' /\ SessionWhere' /\ GenerationsClose' /\ StopIsFinal' /\ SocketsOwned'
    <3>1. UNCHANGED <<cast, job, sock, sess, sessions, closedGen, flights, asking, pending, result, failing, slots, gen,
         peerRun>> BY <1>9
    <3>. QED BY <1>9, <3>1 DEF SockTypes, WaitTypes, SlotsAddUp, HoldsWhere, AnswerWhere, SocketWhere, GenerationsClose,
         StopIsFinal, SocketsOwned, Sessions!NothingLeaks, Sessions!Owned, Sessions!InProgress
  <2>. QED BY <2>1, <2>2, <2>3, <2>4, <2>5
<1>10. ASSUME PeerInv, Sessions!CloseGeneration PROVE PeerInv'
  <2>1. NoneOutlives' BY <1>10, CloseGenerationNone
  <2>. USE SessionsAssumption DEF JobTypes, JobPlaces, Sessions!CloseGeneration, Jobs, Sessions!RunGoes, Sessions!Nobody,
       Numbers, PeerRunTypes
  <2>2. SessTypes' BY <1>10 DEF SessTypes, RegistryTypes
  <2>3. RegistryTypes' BY <1>10 DEF RegistryTypes
  <2>4. PeerRunTypes' BY <1>10
  <2>5. GenerationsClose' BY <1>10 DEF GenerationsClose
  <2>6. StopIsFinal' BY <1>10 DEF StopIsFinal
  <2>7. OnlyCallersLeft' BY <1>10 DEF OnlyCallersLeft, SessTypes, SessionWhere, StopIsFinal, Busy
  <2>8. OneRegistered' BY <1>10 DEF OneRegistered, SessTypes, RegistryTypes, SessionWhere, Sessions!OneSessionPerPeer
  <2>9. JobTypes' /\ SockTypes' /\ WaitTypes' /\ SlotsAddUp' /\ HoldsWhere' /\ AnswerWhere' /\ SocketWhere' /\
        SessionWhere' /\ SocketsOwned'
    <3>1. UNCHANGED <<cast, job, sock, sess, asking, pending, result, failing, slots, gen>> BY <1>10
    <3>. QED BY <1>10, <3>1 DEF SockTypes, WaitTypes, SlotsAddUp, HoldsWhere, AnswerWhere, SocketWhere, SessionWhere,
         SocketsOwned, Sessions!NothingLeaks, Sessions!Owned, Sessions!InProgress
  <2>. QED BY <2>2, <2>3, <2>4, <2>5, <2>6, <2>7, <2>8, <2>1, <2>9
<1>11. ASSUME PeerInv, Sessions!FailAllWaiters PROVE PeerInv'
  <2>. USE SessionsAssumption DEF Sessions!Refused, JobTypes, JobPlaces, Jobs, Sessions!FailAllWaiters, Sessions!RunGoes,
       Sessions!Stale, Numbers, PeerRunTypes
  <2>1. WaitTypes' BY <1>11 DEF WaitTypes
  <2>2. PeerRunTypes' BY <1>11
  <2>3. AnswerWhere' BY <1>11 DEF AnswerWhere, WaitTypes, HoldsWhere, Dialing
  <2>4. GenerationsClose' BY <1>11 DEF GenerationsClose
  <2>5. StopIsFinal' BY <1>11 DEF StopIsFinal
  <2>6. OnlyCallersLeft' BY <1>11 DEF OnlyCallersLeft, SessTypes, SessionWhere, StopIsFinal, Busy
  <2>7. SocketsOwned'
    BY <1>11 DEF SocketsOwned, SockTypes, SessTypes, WaitTypes, HoldsWhere, AnswerWhere, SocketWhere, SessionWhere,
       Sessions!NothingLeaks, Sockets, Dialing, Sessions!Owned, Sessions!InProgress
  <2>8. JobTypes' /\ SockTypes' /\ SessTypes' /\ RegistryTypes' /\ SlotsAddUp' /\ HoldsWhere' /\ SocketWhere' /\
        SessionWhere' /\ OneRegistered' /\ NoneOutlives'
    <3>1. UNCHANGED <<cast, job, sock, sess, doomed, sessions, closedGen, flights, slots, gen>> BY <1>11
    <3>. QED BY <1>11, <3>1 DEF SockTypes, SessTypes, RegistryTypes, SlotsAddUp, HoldsWhere, SocketWhere, SessionWhere,
         OneRegistered, Sessions!OneSessionPerPeer, NoneOutlives, Sessions!NoSessionOutlivesServer
  <2>. QED BY <2>1, <2>2, <2>3, <2>4, <2>5, <2>6, <2>7, <2>8
<1>12. ASSUME PeerInv, Sessions!FailAllPending PROVE PeerInv'
  <2>. USE SessionsAssumption DEF Sessions!Refused, JobTypes, JobPlaces, Sessions!Stopping, Sessions!FailAllPending, Jobs,
       Sessions!RunGoes, Sessions!Nobody, Numbers, PeerRunTypes
  <2>1. WaitTypes' BY <1>12 DEF WaitTypes
  <2>2. PeerRunTypes' BY <1>12
  <2>3. AnswerWhere' BY <1>12 DEF AnswerWhere, WaitTypes, HoldsWhere, Dialing
  <2>4. GenerationsClose' BY <1>12 DEF GenerationsClose
  <2>5. StopIsFinal' BY <1>12 DEF StopIsFinal
  <2>6. OnlyCallersLeft' BY <1>12 DEF OnlyCallersLeft, SessTypes, SessionWhere, StopIsFinal, Busy
  <2>7. SocketsOwned'
    BY <1>12 DEF SocketsOwned, SockTypes, SessTypes, WaitTypes, HoldsWhere, AnswerWhere, SocketWhere, SessionWhere,
       Sessions!NothingLeaks, Sockets, Dialing, Sessions!Owned, Sessions!InProgress
  <2>8. JobTypes' /\ SockTypes' /\ SessTypes' /\ RegistryTypes' /\ SlotsAddUp' /\ HoldsWhere' /\ SocketWhere' /\
        SessionWhere' /\ OneRegistered' /\ NoneOutlives'
    <3>1. UNCHANGED <<cast, job, sock, sess, doomed, sessions, closedGen, flights, slots, gen>> BY <1>12
    <3>. QED BY <1>12, <3>1 DEF SockTypes, SessTypes, RegistryTypes, SlotsAddUp, HoldsWhere, SocketWhere, SessionWhere,
         OneRegistered, Sessions!OneSessionPerPeer, NoneOutlives, Sessions!NoSessionOutlivesServer
  <2>. QED BY <2>1, <2>2, <2>3, <2>4, <2>5, <2>6, <2>7, <2>8
<1>13. ASSUME PeerInv, Sessions!CloseHandshakes PROVE PeerInv'
  <2>1. SlotsAddUp' BY <1>13, CloseHandshakesSlots
  <2>. USE SessionsAssumption DEF Sessions!CloseHandshakes, JobTypes, JobPlaces, Jobs, Sessions!InProgress, Numbers,
       PeerRunTypes
  <2>2. SockTypes' BY ZenonT(150), <1>13 DEF SockTypes, Sockets
  <2>3. PeerRunTypes' BY <1>13
  <2>4. SocketWhere' BY <1>13 DEF SocketWhere, SockTypes, Sockets
  <2>5. GenerationsClose' BY <1>13 DEF GenerationsClose
  <2>6. StopIsFinal' BY <1>13 DEF StopIsFinal
  <2>7. OnlyCallersLeft' BY <1>13 DEF OnlyCallersLeft, SessTypes, SessionWhere, StopIsFinal, Busy
  <2>8. SocketsOwned'
    BY <1>13 DEF SocketsOwned, SockTypes, SessTypes, WaitTypes, HoldsWhere, AnswerWhere, SocketWhere, SessionWhere,
       Sessions!NothingLeaks, Sockets, Dialing, Sessions!Owned
  <2>9. JobTypes' /\ SessTypes' /\ RegistryTypes' /\ WaitTypes' /\ HoldsWhere' /\ AnswerWhere' /\ SessionWhere' /\
        OneRegistered' /\ NoneOutlives'
    <3>1. UNCHANGED <<cast, job, sess, doomed, sessions, closedGen, flights, asking, pending, result, failing, gen>> BY <1>13
    <3>. QED BY <1>13, <3>1 DEF SessTypes, RegistryTypes, WaitTypes, HoldsWhere, AnswerWhere, SessionWhere, OneRegistered,
         Sessions!OneSessionPerPeer, NoneOutlives, Sessions!NoSessionOutlivesServer
  <2>. QED BY <2>2, <2>3, <2>1, <2>4, <2>5, <2>6, <2>7, <2>8, <2>9
<1>14. ASSUME PeerInv, Sessions!CloseAll PROVE PeerInv'
  <2>. USE SessionsAssumption DEF Sessions!CloseAll, JobTypes, SessTypes, JobPlaces, Jobs, Sessions!RunGoes, Sessions!Types,
       Numbers, PeerRunTypes, SessionWhere
  <2>1. SessTypes' BY <1>14 DEF RegistryTypes
  <2>2. PeerRunTypes' BY <1>14
  <2>3. GenerationsClose' BY <1>14 DEF GenerationsClose
  <2>4. StopIsFinal' BY <1>14 DEF StopIsFinal
  <2>5. OnlyCallersLeft' BY <1>14 DEF OnlyCallersLeft, StopIsFinal, Busy
  <2>6. OneRegistered' BY <1>14 DEF OneRegistered, RegistryTypes, Sessions!OneSessionPerPeer
  <2>7. NoneOutlives'
    BY <1>14 DEF NoneOutlives, GenerationsClose, OneRegistered, Sessions!NoSessionOutlivesServer, Sessions!OneSessionPerPeer
  <2>8. JobTypes' /\ SockTypes' /\ RegistryTypes' /\ WaitTypes' /\ SlotsAddUp' /\ HoldsWhere' /\ AnswerWhere' /\
        SocketWhere' /\ SessionWhere' /\ SocketsOwned'
    <3>1. UNCHANGED <<cast, job, sock, sess, sessions, flights, asking, pending, result, failing, slots, gen>> BY <1>14
    <3>. QED BY <1>14, <3>1 DEF SockTypes, RegistryTypes, WaitTypes, SlotsAddUp, HoldsWhere, AnswerWhere, SocketWhere,
         SocketsOwned, Sessions!NothingLeaks, Sessions!Owned, Sessions!InProgress
  <2>. QED BY <2>1, <2>2, <2>3, <2>4, <2>5, <2>6, <2>7, <2>8
<1>15. ASSUME PeerInv, Sessions!Down PROVE PeerInv'
  <2>. USE SessionsAssumption DEF Sessions!Down, JobTypes, PeerRunTypes, Jobs, Sessions!RunGoes, Sessions!InProgress
  <2>1. PeerRunTypes' BY <1>15 DEF JobPlaces, Numbers
  <2>2. GenerationsClose' BY <1>15 DEF GenerationsClose
  <2>3. StopIsFinal' BY <1>15 DEF StopIsFinal
  <2>4. OnlyCallersLeft' BY <1>15 DEF OnlyCallersLeft, SessTypes, SessionWhere, StopIsFinal, Busy, JobPlaces, Numbers
  <2>5. JobTypes' /\ SockTypes' /\ SessTypes' /\ RegistryTypes' /\ WaitTypes' /\ SlotsAddUp' /\ HoldsWhere' /\
        AnswerWhere' /\ SocketWhere' /\ SessionWhere' /\ SocketsOwned' /\ OneRegistered' /\ NoneOutlives'
    <3>1. UNCHANGED <<cast, job, sock, sess, doomed, sessions, closedGen, flights, asking, pending, result, failing,
         slots, gen>> BY <1>15
    <3>. QED BY <1>15, <3>1 DEF SockTypes, SessTypes, RegistryTypes, WaitTypes, SlotsAddUp, HoldsWhere, AnswerWhere, SocketWhere,
         SessionWhere, SocketsOwned, Sessions!NothingLeaks, Sessions!Owned, OneRegistered, Sessions!OneSessionPerPeer,
         NoneOutlives, Sessions!NoSessionOutlivesServer
  <2>. QED BY <2>1, <2>2, <2>3, <2>4, <2>5
<1>16. ASSUME PeerInv, NEW a \in Attempts, Sessions!Get(a) PROVE PeerInv'
  <2>1. UNCHANGED <<cast, sock, sess, doomed, sessions, closedGen, asking, pending, result, failing, slots, gen, peerRun>>
    BY <1>16 DEF Sessions!Get, Sessions!Ends, Sessions!Goto, Sessions!NetUnchanged, Sessions!SessUnchanged,
       Sessions!SockUnchanged, Sessions!WaitUnchanged, Sessions!Ended, Sessions!Idle
  <2>2. SocketWhere'
    BY ZenonT(150), <1>16, SessionsAssumption DEF Sessions!Get, Sessions!Nobody, Sessions!Ends, Sessions!Goto, Sessions!NetUnchanged,
       Sessions!SessUnchanged, Sessions!SockUnchanged, Sessions!WaitUnchanged, Sessions!Ended, Sessions!Types,
       Sessions!Idle, SocketWhere, JobTypes, SockTypes, Jobs, Sockets, JobPlaces, Numbers, PeerInv, PeerTypes
  <2>. USE SessionsAssumption DEF JobTypes, JobPlaces, WaitTypes, Moves, EndsWith, Jobs, RegistryTypes, HoldsWhere, EndsBare,
       MovesTo, Numbers, SessionWhere, SessTypes
  <2>3. JobTypes' BY <1>16, <2>1, GetMoves DEF PeerRunTypes
  <2>4. HoldsWhere' BY <1>16, <2>1, GetMoves
  <2>5. SessionWhere' BY <1>16, <2>1, GetMoves DEF PeerRunTypes
  <2>6. SocketsOwned'
    <3>1. \A b \in Attempts : b # a => job'[b] = job[b] /\ result'[b] = result[b] /\ sess'[b] = sess[b]
      BY <1>16, <2>1, GetMoves
    <3>2. \A s \in Attempts : sock'[s].open \/ sock'[s].lease => Holder(a, s)' \/ ((sock[s].open \/ sock[s].lease) /\ ~Holder(a, s))
      BY <1>16, <2>1, GetMoves DEF SockTypes, Sockets, AnswerWhere, Dialing, SocketWhere, Holder
    <3>. QED BY <1>16, <3>1, <3>2, HoldersKeep
  <2>7. OneRegistered' BY <1>16, <2>1, GetMoves DEF OneRegistered, Sessions!OneSessionPerPeer
  <2>. USE DEF Sessions!SockUnchanged, Sessions!Types, Sessions!WaitUnchanged, Sessions!Idle, Sessions!SessUnchanged,
       Sessions!Get, Sessions!NetUnchanged, Sessions!Goto, Sessions!Ended, Sessions!Nobody, Sessions!Ends
  <2>8. RegistryTypes' BY <1>16
  <2>9. AnswerWhere' BY <1>16 DEF AnswerWhere, Dialing
  <2>10. OnlyCallersLeft' BY SMTT(40), <1>16 DEF OnlyCallersLeft, PeerRunTypes, StopIsFinal, Busy
  <2>11. NoneOutlives'
    BY SMTT(40), <1>16 DEF NoneOutlives, PeerRunTypes, GenerationsClose, OneRegistered, Sessions!NoSessionOutlivesServer,
       Sessions!OneSessionPerPeer
  <2>12. SockTypes' /\ SessTypes' /\ WaitTypes' /\ PeerRunTypes' /\ SlotsAddUp' /\ GenerationsClose' /\ StopIsFinal'
    <3>1. UNCHANGED <<cast, sock, sess, doomed, closedGen, asking, pending, result, failing, slots, gen, peerRun>> BY <1>16
    <3>. QED BY <1>16, <3>1 DEF SockTypes, PeerRunTypes, SlotsAddUp, GenerationsClose, StopIsFinal
  <2>. QED BY <2>3, <2>8, <2>4, <2>9, <2>2, <2>5, <2>10, <2>6, <2>7, <2>11, <2>12
<1>17. ASSUME PeerInv, NEW a \in Attempts, Sessions!Join(a) PROVE PeerInv'
  <2>1. UNCHANGED <<cast, sock, sess, doomed, sessions, closedGen, asking, pending, result, failing, slots, gen, peerRun>>
    BY <1>17 DEF Sessions!Join, Sessions!Goto, Sessions!NetUnchanged, Sessions!SessUnchanged, Sessions!SockUnchanged,
       Sessions!WaitUnchanged
  <2>. USE DEF Moves, EndsWith, EndsBare, MovesTo
  <2>2. HoldsWhere'
    BY <1>17, <2>1, JoinMoves, SessionsAssumption DEF HoldsWhere, JobTypes, Jobs, JobPlaces, Numbers, RegistryTypes, WaitTypes,
       SessionWhere
  <2>3. SocketsOwned'
    <3>1. \A b \in Attempts : b # a => job'[b] = job[b] /\ result'[b] = result[b] /\ sess'[b] = sess[b]
      BY <1>17, <2>1, JoinMoves
    <3>2. \A s \in Attempts : sock'[s].open \/ sock'[s].lease => Holder(a, s)' \/ ((sock[s].open \/ sock[s].lease) /\ ~Holder(a, s))
      BY <1>17, <2>1, JoinMoves, SessionsAssumption DEF JobTypes, Jobs, JobPlaces, Numbers, SockTypes, Sockets, SessTypes,
         WaitTypes, HoldsWhere, AnswerWhere, Dialing, SocketWhere, SessionWhere, Holder
    <3>. QED BY <1>17, <3>1, <3>2, HoldersKeep
  <2>. USE SessionsAssumption DEF Sessions!SockUnchanged, Sessions!Goto, Sessions!WaitUnchanged, JobTypes, PeerRunTypes,
       Sessions!Join, JobPlaces, Sessions!NetUnchanged, Sessions!SessUnchanged, Jobs, Sessions!Nobody, Numbers, SessTypes
  <2>4. JobTypes' BY <1>17 DEF RegistryTypes, WaitTypes, HoldsWhere
  <2>5. RegistryTypes' BY <1>17 DEF RegistryTypes
  <2>6. AnswerWhere' BY <1>17 DEF AnswerWhere, WaitTypes, HoldsWhere, Dialing
  <2>7. SocketWhere' BY <1>17 DEF SocketWhere, SockTypes, Sockets
  <2>8. SessionWhere' BY <1>17 DEF SessionWhere, HoldsWhere
  <2>9. OnlyCallersLeft' BY <1>17 DEF OnlyCallersLeft, SessionWhere, StopIsFinal, Busy
  <2>10. OneRegistered' BY SMTT(40), <1>17 DEF OneRegistered, RegistryTypes, SessionWhere, Sessions!OneSessionPerPeer
  <2>11. NoneOutlives'
    BY <1>17 DEF NoneOutlives, SessionWhere, GenerationsClose, OneRegistered, Sessions!NoSessionOutlivesServer,
       Sessions!OneSessionPerPeer
  <2>12. SockTypes' /\ SessTypes' /\ WaitTypes' /\ PeerRunTypes' /\ SlotsAddUp' /\ GenerationsClose' /\ StopIsFinal'
    <3>1. UNCHANGED <<cast, sock, sess, doomed, closedGen, asking, pending, result, failing, slots, gen, peerRun>> BY <1>17
    <3>. QED BY <1>17, <3>1 DEF SockTypes, WaitTypes, SlotsAddUp, GenerationsClose, StopIsFinal
  <2>. QED BY <2>4, <2>5, <2>2, <2>6, <2>7, <2>8, <2>9, <2>3, <2>10, <2>11, <2>12
<1>18. ASSUME PeerInv, NEW a \in Attempts, Sessions!Follow(a) PROVE PeerInv'
  <2>1. UNCHANGED <<cast, sock, sess, doomed, sessions, closedGen, asking, pending, result, failing, slots, gen, peerRun>>
    BY <1>18 DEF Sessions!Follow, Sessions!Ends, Sessions!EndsEmpty, Sessions!NetUnchanged, Sessions!SessUnchanged,
       Sessions!SockUnchanged, Sessions!WaitUnchanged, Sessions!Ended, Sessions!Idle
  <2>2. SocketWhere'
    BY <1>18, SessionsAssumption DEF Sessions!Follow, Sessions!Ends, Sessions!EndsEmpty, Sessions!NetUnchanged,
       Sessions!SessUnchanged, Sessions!SockUnchanged, Sessions!WaitUnchanged, Sessions!Ended, Sessions!Types,
       Sessions!Nobody, Sessions!Idle, SocketWhere, JobTypes, SockTypes, Jobs, Sockets, JobPlaces, Numbers, PeerInv,
       PeerTypes
  <2>3. NoneOutlives'
    BY SMTT(40), <1>18, SessionsAssumption DEF Sessions!Follow, Sessions!Ends, Sessions!EndsEmpty, Sessions!NetUnchanged,
       Sessions!SessUnchanged, Sessions!SockUnchanged, Sessions!WaitUnchanged, Sessions!Ended, Sessions!Types,
       Sessions!Nobody, Sessions!Idle, NoneOutlives, JobTypes, SessTypes, PeerRunTypes, SessionWhere, GenerationsClose,
       OneRegistered, Sessions!NoSessionOutlivesServer, Jobs, Sessions!OneSessionPerPeer, JobPlaces, Numbers, PeerInv,
       PeerTypes
  <2>4. OneRegistered'
    BY <1>18, SessionsAssumption DEF Sessions!Follow, Sessions!Ends, Sessions!EndsEmpty, Sessions!NetUnchanged,
       Sessions!SessUnchanged, Sessions!SockUnchanged, Sessions!WaitUnchanged, Sessions!Ended, Sessions!Types,
       Sessions!Nobody, Sessions!Idle, OneRegistered, JobTypes, SessTypes, RegistryTypes, SessionWhere,
       Sessions!OneSessionPerPeer, Jobs, Numbers, JobPlaces, PeerInv, PeerTypes
  <2>. USE SessionsAssumption DEF JobTypes, JobPlaces, WaitTypes, Moves, EndsWith, Jobs, HoldsWhere, EndsBare, MovesTo,
       Numbers, SessionWhere
  <2>5. JobTypes' BY <1>18, <2>1, FollowMoves DEF PeerRunTypes, RegistryTypes
  <2>6. HoldsWhere' BY <1>18, <2>1, FollowMoves DEF RegistryTypes
  <2>7. SessionWhere' BY <1>18, <2>1, FollowMoves DEF SessTypes, PeerRunTypes
  <2>8. SocketsOwned'
    <3>1. \A b \in Attempts : b # a => job'[b] = job[b] /\ result'[b] = result[b] /\ sess'[b] = sess[b]
      BY <1>18, <2>1, FollowMoves
    <3>2. \A s \in Attempts : sock'[s].open \/ sock'[s].lease => Holder(a, s)' \/ ((sock[s].open \/ sock[s].lease) /\ ~Holder(a, s))
      BY <1>18, <2>1, FollowMoves DEF SockTypes, Sockets, SessTypes, AnswerWhere, Dialing, SocketWhere, Holder
    <3>. QED BY <1>18, <3>1, <3>2, HoldersKeep
  <2>. USE DEF Sessions!SockUnchanged, Sessions!EndsEmpty, Sessions!Types, Sessions!Follow, Sessions!WaitUnchanged,
       Sessions!Idle, Sessions!NetUnchanged, Sessions!SessUnchanged, Sessions!Ended, Sessions!Nobody, Sessions!Ends
  <2>9. RegistryTypes' BY <1>18 DEF RegistryTypes
  <2>10. AnswerWhere' BY <1>18 DEF AnswerWhere, Dialing
  <2>11. OnlyCallersLeft'
    <3>1. UNCHANGED <<cast, sess, doomed, peerRun>> BY <1>18
    <3>2. \A b \in Attempts : b # a => job'[b] = job[b] BY <1>18, FollowMoves
    <3>3. Busy(a) /\ sess[a] # "live" BY <1>18 DEF Busy
    <3>. QED BY <1>18, <3>1, <3>2, <3>3, OnlyCallersKeep
  <2>12. SockTypes' /\ SessTypes' /\ WaitTypes' /\ PeerRunTypes' /\ SlotsAddUp' /\ GenerationsClose' /\ StopIsFinal'
    <3>1. UNCHANGED <<cast, sock, sess, doomed, closedGen, asking, pending, result, failing, slots, gen, peerRun>> BY <1>18
    <3>. QED BY <1>18, <3>1 DEF SockTypes, SessTypes, PeerRunTypes, SlotsAddUp, GenerationsClose, StopIsFinal
  <2>. QED BY <2>5, <2>9, <2>6, <2>10, <2>2, <2>7, <2>11, <2>8, <2>4, <2>3, <2>12
<1>19. ASSUME PeerInv, NEW a \in Attempts, Sessions!Recheck(a) PROVE PeerInv'
  <2>1. UNCHANGED <<cast, sock, sess, doomed, sessions, closedGen, asking, pending, result, failing, slots, gen, peerRun>>
    BY <1>19 DEF Sessions!Recheck, Sessions!Ends, Sessions!Goto, Sessions!NetUnchanged, Sessions!SessUnchanged,
       Sessions!SockUnchanged, Sessions!WaitUnchanged, Sessions!Ended, Sessions!Idle
  <2>2. OnlyCallersLeft'
    BY <1>19, SessionsAssumption DEF Sessions!Recheck, Sessions!Nobody, Sessions!Ends, Sessions!Goto,
       Sessions!NetUnchanged, Sessions!SessUnchanged, Sessions!SockUnchanged, Sessions!WaitUnchanged, Sessions!Ended,
       Sessions!Types, Sessions!Idle, OnlyCallersLeft, JobTypes, SessTypes, PeerRunTypes, SessionWhere, StopIsFinal,
       Busy, Jobs, JobPlaces, Numbers, PeerInv, PeerTypes
  <2>. USE SessionsAssumption DEF JobTypes, JobPlaces, WaitTypes, Moves, EndsWith, Jobs, HoldsWhere, EndsBare, MovesTo,
       Numbers, SessionWhere
  <2>3. JobTypes' BY <1>19, <2>1, RecheckMoves DEF PeerRunTypes, RegistryTypes
  <2>4. HoldsWhere' BY <1>19, <2>1, RecheckMoves DEF RegistryTypes
  <2>5. SessionWhere' BY <1>19, <2>1, RecheckMoves DEF SessTypes, PeerRunTypes
  <2>6. SocketsOwned'
    <3>1. \A b \in Attempts : b # a => job'[b] = job[b] /\ result'[b] = result[b] /\ sess'[b] = sess[b]
      BY <1>19, <2>1, RecheckMoves
    <3>2. \A s \in Attempts : sock'[s].open \/ sock'[s].lease => Holder(a, s)' \/ ((sock[s].open \/ sock[s].lease) /\ ~Holder(a, s))
      BY <1>19, <2>1, RecheckMoves DEF SockTypes, Sockets, SessTypes, AnswerWhere, Dialing, SocketWhere, Holder
    <3>. QED BY <1>19, <3>1, <3>2, HoldersKeep
  <2>. USE DEF Sessions!SockUnchanged, Sessions!Types, Sessions!WaitUnchanged, Sessions!Recheck, Sessions!Idle,
       Sessions!SessUnchanged, Sessions!NetUnchanged, Sessions!Goto, Sessions!Ended, Sessions!Nobody, Sessions!Ends,
       SessTypes
  <2>7. RegistryTypes' BY <1>19 DEF RegistryTypes
  <2>8. AnswerWhere' BY <1>19 DEF AnswerWhere, Dialing
  <2>9. SocketWhere' BY SMTT(40), <1>19 DEF SocketWhere, SockTypes, Sockets
  <2>10. OneRegistered' BY <1>19 DEF OneRegistered, RegistryTypes, Sessions!OneSessionPerPeer
  <2>11. NoneOutlives'
    BY SMTT(100), <1>19 DEF NoneOutlives, PeerRunTypes, GenerationsClose, OneRegistered, Sessions!NoSessionOutlivesServer,
       Sessions!OneSessionPerPeer
  <2>12. SockTypes' /\ SessTypes' /\ WaitTypes' /\ PeerRunTypes' /\ SlotsAddUp' /\ GenerationsClose' /\ StopIsFinal'
    <3>1. UNCHANGED <<cast, sock, sess, doomed, closedGen, asking, pending, result, failing, slots, gen, peerRun>> BY <1>19
    <3>. QED BY <1>19, <3>1 DEF SockTypes, PeerRunTypes, SlotsAddUp, GenerationsClose, StopIsFinal
  <2>. QED BY <2>3, <2>7, <2>4, <2>8, <2>9, <2>5, <2>2, <2>6, <2>10, <2>11, <2>12
<1>20. ASSUME PeerInv, NEW a \in Attempts, Sessions!AskAddress(a) PROVE PeerInv'
  <2>. USE SessionsAssumption DEF Sessions!SockUnchanged, Sessions!AskAddress, Sessions!Goto, JobTypes, JobPlaces,
       Sessions!NetUnchanged, Sessions!SessUnchanged, Jobs, Numbers, SessionWhere, SessTypes
  <2>1. JobTypes' BY SMTT(100), <1>20 DEF PeerRunTypes, RegistryTypes, WaitTypes, HoldsWhere
  <2>2. WaitTypes' BY <1>20 DEF WaitTypes
  <2>3. HoldsWhere' BY <1>20 DEF HoldsWhere, RegistryTypes, WaitTypes
  <2>4. AnswerWhere' BY <1>20 DEF AnswerWhere, WaitTypes, HoldsWhere, Dialing
  <2>5. SocketWhere' BY <1>20 DEF SocketWhere, SockTypes, Sockets
  <2>6. SessionWhere' BY <1>20 DEF PeerRunTypes, HoldsWhere
  <2>7. OnlyCallersLeft' BY <1>20 DEF OnlyCallersLeft, PeerRunTypes, StopIsFinal, Busy
  <2>8. SocketsOwned'
    BY <1>20 DEF SocketsOwned, SockTypes, WaitTypes, HoldsWhere, AnswerWhere, SocketWhere, Sessions!NothingLeaks, Sockets,
       Dialing, Sessions!Owned, Sessions!InProgress
  <2>9. OneRegistered' BY <1>20 DEF OneRegistered, RegistryTypes, Sessions!OneSessionPerPeer
  <2>10. NoneOutlives'
    BY <1>20 DEF NoneOutlives, PeerRunTypes, GenerationsClose, OneRegistered, Sessions!NoSessionOutlivesServer,
       Sessions!OneSessionPerPeer
  <2>11. SockTypes' /\ SessTypes' /\ RegistryTypes' /\ PeerRunTypes' /\ SlotsAddUp' /\ GenerationsClose' /\ StopIsFinal'
    <3>1. UNCHANGED <<cast, sock, sess, doomed, sessions, closedGen, flights, slots, gen, peerRun>> BY <1>20
    <3>. QED BY <1>20, <3>1 DEF SockTypes, RegistryTypes, PeerRunTypes, SlotsAddUp, GenerationsClose, StopIsFinal
  <2>. QED BY <2>1, <2>2, <2>3, <2>4, <2>5, <2>6, <2>7, <2>8, <2>9, <2>10, <2>11
<1>21. ASSUME PeerInv, NEW a \in Attempts, Sessions!AddressAsked(a) PROVE PeerInv'
  <2>. USE SessionsAssumption DEF Sessions!SockUnchanged, Sessions!Goto, Sessions!WaitUnchanged, JobTypes, PeerRunTypes,
       JobPlaces, WaitTypes, Sessions!AddressAsked, Sessions!NetUnchanged, Sessions!SessUnchanged, HoldsWhere, Jobs,
       Sessions!Serving, Numbers, SessionWhere, SessTypes
  <2>1. JobTypes' BY SMTT(100), <1>21 DEF RegistryTypes
  <2>2. HoldsWhere' BY <1>21 DEF RegistryTypes
  <2>3. AnswerWhere' BY <1>21 DEF AnswerWhere, Dialing
  <2>4. SocketWhere' BY <1>21 DEF SocketWhere, SockTypes, Sockets
  <2>5. SessionWhere' BY <1>21
  <2>6. OnlyCallersLeft' BY <1>21 DEF OnlyCallersLeft, StopIsFinal, Busy
  <2>7. SocketsOwned'
    BY <1>21 DEF SocketsOwned, SockTypes, AnswerWhere, SocketWhere, Sessions!NothingLeaks, Sockets, Dialing, Sessions!Owned,
       Sessions!InProgress
  <2>8. OneRegistered' BY <1>21 DEF OneRegistered, RegistryTypes, Sessions!OneSessionPerPeer
  <2>9. NoneOutlives'
    BY <1>21 DEF NoneOutlives, GenerationsClose, OneRegistered, Sessions!NoSessionOutlivesServer, Sessions!OneSessionPerPeer
  <2>10. SockTypes' /\ SessTypes' /\ RegistryTypes' /\ WaitTypes' /\ PeerRunTypes' /\ SlotsAddUp' /\ GenerationsClose'
        /\ StopIsFinal'
    <3>1. UNCHANGED <<cast, sock, sess, doomed, sessions, closedGen, flights, asking, pending, result, failing, slots,
         gen, peerRun>> BY <1>21
    <3>. QED BY <1>21, <3>1 DEF SockTypes, RegistryTypes, SlotsAddUp, GenerationsClose, StopIsFinal
  <2>. QED BY <2>1, <2>2, <2>3, <2>4, <2>5, <2>6, <2>7, <2>8, <2>9, <2>10
<1>22. ASSUME PeerInv, NEW a \in Attempts, Sessions!GiveUpAddress(a) PROVE PeerInv'
  <2>. USE SessionsAssumption DEF Sessions!SockUnchanged, Sessions!EndsEmpty, Sessions!GiveUpAddress, Sessions!Idle,
       JobTypes, JobPlaces, Sessions!NetUnchanged, Sessions!SessUnchanged, Sessions!Ended, Sessions!Nobody, Jobs,
       Sessions!Types, Numbers, SessionWhere, SessTypes
  <2>1. JobTypes' BY <1>22 DEF PeerRunTypes, RegistryTypes, WaitTypes, HoldsWhere
  <2>2. RegistryTypes' BY <1>22 DEF RegistryTypes
  <2>3. WaitTypes' BY <1>22 DEF WaitTypes
  <2>4. HoldsWhere' BY <1>22 DEF HoldsWhere, RegistryTypes, WaitTypes
  <2>5. AnswerWhere' BY <1>22 DEF AnswerWhere, WaitTypes, HoldsWhere, Dialing
  <2>6. SocketWhere' BY <1>22 DEF SocketWhere, SockTypes, Sockets
  <2>7. SessionWhere' BY <1>22 DEF PeerRunTypes, HoldsWhere
  <2>8. OnlyCallersLeft' BY <1>22 DEF OnlyCallersLeft, PeerRunTypes, StopIsFinal, Busy
  <2>9. SocketsOwned'
    BY SMTT(40), <1>22 DEF SocketsOwned, SockTypes, WaitTypes, HoldsWhere, AnswerWhere, SocketWhere, Sessions!NothingLeaks,
       Sockets, Dialing, Sessions!Owned, Sessions!InProgress
  <2>10. OneRegistered' BY <1>22 DEF OneRegistered, RegistryTypes, Sessions!OneSessionPerPeer
  <2>11. NoneOutlives'
    BY <1>22 DEF NoneOutlives, PeerRunTypes, GenerationsClose, OneRegistered, Sessions!NoSessionOutlivesServer,
       Sessions!OneSessionPerPeer
  <2>12. SockTypes' /\ SessTypes' /\ PeerRunTypes' /\ SlotsAddUp' /\ GenerationsClose' /\ StopIsFinal'
    <3>1. UNCHANGED <<cast, sock, sess, doomed, closedGen, slots, gen, peerRun>> BY <1>22
    <3>. QED BY <1>22, <3>1 DEF SockTypes, PeerRunTypes, SlotsAddUp, GenerationsClose, StopIsFinal
  <2>. QED BY <2>1, <2>2, <2>3, <2>4, <2>5, <2>6, <2>7, <2>8, <2>9, <2>10, <2>11, <2>12
<1>23. ASSUME PeerInv, NEW a \in Attempts, Sessions!TakeAddress(a) PROVE PeerInv'
  <2>. USE SessionsAssumption DEF Sessions!TakeAddress, Sessions!SessUnchanged, Sessions!Ended, Sessions!Nobody,
       Sessions!EndsEmpty, JobPlaces, Jobs, Sessions!NetUnchanged, Sessions!Refused, Sessions!Idle, Sessions!Types,
       Sessions!SockUnchanged, JobTypes, Sessions!Goto, Numbers
  <2>1. JobTypes' BY <1>23 DEF PeerRunTypes, RegistryTypes, WaitTypes, HoldsWhere
  <2>2. RegistryTypes' BY <1>23 DEF RegistryTypes
  <2>3. WaitTypes' BY <1>23 DEF WaitTypes
  <2>4. HoldsWhere' BY <1>23 DEF HoldsWhere, RegistryTypes, WaitTypes, SessionWhere
  <2>5. AnswerWhere' BY <1>23 DEF AnswerWhere, WaitTypes, HoldsWhere, Dialing
  <2>6. SocketWhere' BY <1>23 DEF SocketWhere, SockTypes, Sockets
  <2>7. SessionWhere' BY <1>23 DEF SessionWhere, SessTypes, PeerRunTypes, HoldsWhere
  <2>8. OnlyCallersLeft'
    <3>1. UNCHANGED <<cast, sess, doomed, peerRun>> BY <1>23
    <3>2. \A b \in Attempts : b # a => job'[b] = job[b] BY <1>23
    <3>3. Busy(a) /\ sess[a] # "live" BY <1>23 DEF Busy, SessionWhere
    <3>. QED BY <1>23, <3>1, <3>2, <3>3, OnlyCallersKeep
  <2>9. SocketsOwned'
    <3>1. \A b \in Attempts : b # a => job'[b] = job[b] /\ result'[b] = result[b] /\ sess'[b] = sess[b]
      BY <1>23 DEF WaitTypes, SessTypes
    <3>2. \A s \in Attempts : sock'[s].open \/ sock'[s].lease => Holder(a, s)' \/ ((sock[s].open \/ sock[s].lease) /\ ~Holder(a, s))
      BY <1>23 DEF SockTypes, Sockets, SessTypes, WaitTypes, HoldsWhere, AnswerWhere, Dialing, SocketWhere, SessionWhere, Holder,
         Moves, MovesTo, EndsWith, EndsBare
    <3>. QED BY <1>23, <3>1, <3>2, HoldersKeep
  <2>10. OneRegistered'
    BY ZenonT(150), <1>23 DEF OneRegistered, SessTypes, RegistryTypes, SessionWhere, Sessions!OneSessionPerPeer
  <2>11. NoneOutlives'
    BY SMTT(40), <1>23 DEF NoneOutlives, SessTypes, PeerRunTypes, SessionWhere, GenerationsClose, OneRegistered,
       Sessions!NoSessionOutlivesServer, Sessions!OneSessionPerPeer
  <2>12. SockTypes' /\ SessTypes' /\ PeerRunTypes' /\ SlotsAddUp' /\ GenerationsClose' /\ StopIsFinal'
    <3>1. UNCHANGED <<cast, sock, sess, doomed, closedGen, slots, gen, peerRun>> BY <1>23
    <3>. QED BY <1>23, <3>1 DEF SockTypes, SessTypes, PeerRunTypes, SlotsAddUp, GenerationsClose, StopIsFinal
  <2>. QED BY <2>1, <2>2, <2>3, <2>4, <2>5, <2>6, <2>7, <2>8, <2>9, <2>10, <2>11, <2>12
<1>24. ASSUME PeerInv, NEW a \in Attempts, Sessions!Dial(a) PROVE PeerInv'
  <2>1. UNCHANGED <<cast, sess, doomed, sessions, closedGen, asking, pending, result, failing, slots, gen, peerRun>>
    BY <1>24 DEF Sessions!Dial, Sessions!Caller, Sessions!Open, Sessions!EndsEmpty, Sessions!SockUnchanged, Sessions!Goto,
       Sessions!NetUnchanged, Sessions!SessUnchanged, Sessions!WaitUnchanged, Sessions!Ended, Sessions!Idle
  <2>. USE SessionsAssumption DEF JobTypes, JobPlaces, Moves, EndsWith, Jobs, EndsBare, MovesTo, Numbers
  <2>2. SockTypes' BY <1>24, <2>1, DialMoves DEF SockTypes, Sockets
  <2>3. SlotsAddUp' BY <1>24, <2>1, DialMoves DEF SlotsAddUp
  <2>4. HoldsWhere' BY <1>24, <2>1, DialMoves DEF HoldsWhere, RegistryTypes, WaitTypes, SessionWhere
  <2>5. SocketWhere' BY <1>24, <2>1, DialMoves DEF SocketWhere, SockTypes, Sockets
  <2>6. SocketsOwned'
    <3>1. \A b \in Attempts : b # a => job'[b] = job[b] /\ result'[b] = result[b] /\ sess'[b] = sess[b]
      BY <1>24, <2>1, DialMoves
    <3>2. \A s \in Attempts : sock'[s].open \/ sock'[s].lease => Holder(a, s)' \/ ((sock[s].open \/ sock[s].lease) /\ ~Holder(a, s))
      BY <1>24, <2>1, DialMoves DEF SockTypes, Sockets, SessTypes, WaitTypes, HoldsWhere, AnswerWhere, Dialing, SocketWhere,
         SessionWhere, Holder
    <3>. QED BY <1>24, <3>1, <3>2, HoldersKeep
  <2>7. NoneOutlives'
    BY <1>24, <2>1, DialMoves DEF NoneOutlives, Sessions!NoSessionOutlivesServer, SessTypes, PeerRunTypes, SessionWhere,
       GenerationsClose, OneRegistered, Sessions!OneSessionPerPeer
  <2>. USE DEF Sessions!Open, Sessions!SessUnchanged, Sessions!Ended, Sessions!Nobody, Sessions!Caller, Sessions!EndsEmpty,
       Sessions!NetUnchanged, Sessions!Idle, Sessions!Dial, Sessions!Types, Sessions!SockUnchanged, Sessions!WaitUnchanged,
       Sessions!Goto
  <2>8. JobTypes' BY SMTT(100), <1>24 DEF PeerRunTypes, RegistryTypes, WaitTypes, HoldsWhere
  <2>9. RegistryTypes' BY <1>24 DEF RegistryTypes
  <2>10. AnswerWhere' BY <1>24 DEF AnswerWhere, WaitTypes, HoldsWhere, Dialing
  <2>11. SessionWhere' BY SMTT(100), <1>24 DEF SessionWhere, SessTypes, PeerRunTypes, HoldsWhere
  <2>12. OnlyCallersLeft'
    <3>1. UNCHANGED <<cast, sess, doomed, peerRun>> BY <1>24
    <3>2. \A b \in Attempts : b # a => job'[b] = job[b] BY <1>24, DialMoves
    <3>3. Busy(a) /\ sess[a] # "live" BY <1>24 DEF Busy, SessionWhere
    <3>. QED BY <1>24, <3>1, <3>2, <3>3, OnlyCallersKeep
  <2>13. OneRegistered'
    BY ZenonT(150), <1>24 DEF OneRegistered, SessTypes, RegistryTypes, SessionWhere, Sessions!OneSessionPerPeer
  <2>14. SessTypes' /\ WaitTypes' /\ PeerRunTypes' /\ GenerationsClose' /\ StopIsFinal'
    <3>1. UNCHANGED <<cast, sess, doomed, closedGen, asking, pending, result, failing, gen, peerRun>> BY <1>24
    <3>. QED BY <1>24, <3>1 DEF SessTypes, WaitTypes, PeerRunTypes, GenerationsClose, StopIsFinal
  <2>. QED BY <2>8, <2>2, <2>9, <2>3, <2>4, <2>10, <2>5, <2>11, <2>12, <2>6, <2>13, <2>7, <2>14
<1>25. ASSUME PeerInv, NEW a \in Attempts, Sessions!RegisterPending(a) PROVE PeerInv'
  <2>1. JobTypes'
    BY <1>25, SessionsAssumption DEF Sessions!RegisterPending, Sessions!Goto, Sessions!NetUnchanged,
       Sessions!SessUnchanged, Sessions!SockUnchanged, JobTypes, PeerRunTypes, RegistryTypes, WaitTypes, HoldsWhere,
       Jobs, Numbers, JobPlaces, PeerInv, PeerTypes
  <2>. USE SessionsAssumption DEF Sessions!RegisterPending, Sessions!SockUnchanged, Sessions!Goto, JobTypes, JobPlaces,
       Sessions!NetUnchanged, Sessions!SessUnchanged, Jobs, Numbers, SessionWhere, SessTypes
  <2>2. WaitTypes' BY <1>25 DEF WaitTypes
  <2>3. HoldsWhere' BY <1>25 DEF HoldsWhere, RegistryTypes, WaitTypes
  <2>4. AnswerWhere' BY <1>25 DEF AnswerWhere, WaitTypes, HoldsWhere, Dialing
  <2>5. SocketWhere' BY <1>25 DEF SocketWhere, SockTypes, Sockets
  <2>6. SessionWhere' BY <1>25 DEF PeerRunTypes, HoldsWhere
  <2>7. OnlyCallersLeft' BY <1>25 DEF OnlyCallersLeft, PeerRunTypes, StopIsFinal, Busy
  <2>8. SocketsOwned'
    BY <1>25 DEF SocketsOwned, SockTypes, WaitTypes, HoldsWhere, AnswerWhere, SocketWhere, Sessions!NothingLeaks, Sockets,
       Dialing, Sessions!Owned, Sessions!InProgress
  <2>9. OneRegistered' BY <1>25 DEF OneRegistered, RegistryTypes, Sessions!OneSessionPerPeer
  <2>10. NoneOutlives'
    BY <1>25 DEF NoneOutlives, PeerRunTypes, GenerationsClose, OneRegistered, Sessions!NoSessionOutlivesServer,
       Sessions!OneSessionPerPeer
  <2>11. SockTypes' /\ SessTypes' /\ RegistryTypes' /\ PeerRunTypes' /\ SlotsAddUp' /\ GenerationsClose' /\ StopIsFinal'
    <3>1. UNCHANGED <<cast, sock, sess, doomed, sessions, closedGen, flights, slots, gen, peerRun>> BY <1>25
    <3>. QED BY <1>25, <3>1 DEF SockTypes, RegistryTypes, PeerRunTypes, SlotsAddUp, GenerationsClose, StopIsFinal
  <2>. QED BY <2>1, <2>2, <2>3, <2>4, <2>5, <2>6, <2>7, <2>8, <2>9, <2>10, <2>11
<1>26. ASSUME PeerInv, NEW a \in Attempts, Sessions!AskIndirect(a) PROVE PeerInv'
  <2>1. SocketWhere'
    BY <1>26, SessionsAssumption DEF Sessions!AskIndirect, Sessions!Serving, Sessions!Goto, Sessions!NetUnchanged,
       Sessions!SessUnchanged, Sessions!SockUnchanged, Sessions!WaitUnchanged, SocketWhere, JobTypes, SockTypes, Jobs,
       Sockets, JobPlaces, Numbers, PeerInv, PeerTypes
  <2>. USE SessionsAssumption DEF Sessions!SockUnchanged, Sessions!Goto, Sessions!WaitUnchanged, JobTypes, JobPlaces,
       WaitTypes, Sessions!NetUnchanged, Sessions!SessUnchanged, Jobs, Sessions!AskIndirect, Sessions!Serving, Numbers,
       SessionWhere, SessTypes
  <2>2. JobTypes' BY <1>26 DEF PeerRunTypes, RegistryTypes, HoldsWhere
  <2>3. HoldsWhere' BY <1>26 DEF HoldsWhere, RegistryTypes
  <2>4. AnswerWhere' BY SMTT(100), <1>26 DEF AnswerWhere, HoldsWhere, Dialing
  <2>5. SessionWhere' BY <1>26 DEF PeerRunTypes, HoldsWhere
  <2>6. OnlyCallersLeft' BY <1>26 DEF OnlyCallersLeft, PeerRunTypes, StopIsFinal, Busy
  <2>7. SocketsOwned'
    <3>1. \A b \in Attempts : b # a => job'[b] = job[b] /\ result'[b] = result[b] /\ sess'[b] = sess[b] BY <1>26
    <3>2. \A s \in Attempts : sock'[s].open \/ sock'[s].lease => Holder(a, s)' \/ ((sock[s].open \/ sock[s].lease) /\ ~Holder(a, s))
      BY <1>26 DEF SockTypes, Sockets, HoldsWhere, AnswerWhere, Dialing, SocketWhere, Holder, Moves, MovesTo, EndsWith, EndsBare
    <3>. QED BY <1>26, <3>1, <3>2, HoldersKeep
  <2>8. OneRegistered' BY <1>26 DEF OneRegistered, RegistryTypes, Sessions!OneSessionPerPeer
  <2>9. NoneOutlives'
    BY <1>26 DEF NoneOutlives, PeerRunTypes, GenerationsClose, OneRegistered, Sessions!NoSessionOutlivesServer,
       Sessions!OneSessionPerPeer
  <2>10. SockTypes' /\ SessTypes' /\ RegistryTypes' /\ WaitTypes' /\ PeerRunTypes' /\ SlotsAddUp' /\ GenerationsClose'
        /\ StopIsFinal'
    <3>1. UNCHANGED <<cast, sock, sess, doomed, sessions, closedGen, flights, asking, pending, result, failing, slots,
         gen, peerRun>> BY <1>26
    <3>. QED BY <1>26, <3>1 DEF SockTypes, RegistryTypes, PeerRunTypes, SlotsAddUp, GenerationsClose, StopIsFinal
  <2>. QED BY <2>2, <2>3, <2>4, <2>1, <2>5, <2>6, <2>7, <2>8, <2>9, <2>10
<1>27. ASSUME PeerInv, NEW a \in Attempts, Sessions!AwaitIndirect(a) PROVE PeerInv'
  <2>. USE SessionsAssumption DEF Sessions!SockUnchanged, Sessions!Refused, JobTypes, JobPlaces, Sessions!SessUnchanged,
       Sessions!NetUnchanged, Sessions!Goto, Jobs, Sessions!Nobody, Sessions!AwaitIndirect, Numbers, SessTypes
  <2>1. JobTypes' BY <1>27 DEF PeerRunTypes, RegistryTypes, WaitTypes, HoldsWhere
  <2>2. WaitTypes' BY <1>27 DEF WaitTypes
  <2>3. HoldsWhere'
    <3>1. \A b \in Attempts : b # a => job'[b] = job[b] BY <1>27
    <3>2. job'[a].at # "follow" /\ job'[a].at # "init" /\ job'[a].at \in {"deregister", "ended", "register"}
      BY <1>27, IdleForms
    <3>. QED BY <1>27, <3>1, <3>2, HoldsKeep
  <2>4. AnswerWhere' BY <1>27 DEF AnswerWhere, WaitTypes, HoldsWhere, Dialing
  <2>5. SocketWhere' BY <1>27 DEF SocketWhere, SockTypes, Sockets
  <2>6. SessionWhere' BY <1>27 DEF SessionWhere, PeerRunTypes, HoldsWhere
  <2>7. OnlyCallersLeft' BY <1>27 DEF OnlyCallersLeft, PeerRunTypes, SessionWhere, StopIsFinal, Busy
  <2>8. SocketsOwned'
    <3>1. \A b \in Attempts : b # a => job'[b] = job[b] /\ result'[b] = result[b] /\ sess'[b] = sess[b]
      BY <1>27 DEF WaitTypes
    <3>2. \A s \in Attempts : sock'[s].open \/ sock'[s].lease => Holder(a, s)' \/ ((sock[s].open \/ sock[s].lease) /\ ~Holder(a, s))
      BY <1>27 DEF SockTypes, Sockets, WaitTypes, HoldsWhere, AnswerWhere, Dialing, SocketWhere, SessionWhere, Holder, Moves,
         MovesTo, EndsWith, EndsBare
    <3>. QED BY <1>27, <3>1, <3>2, HoldersKeep
  <2>9. OneRegistered' BY <1>27 DEF OneRegistered, RegistryTypes, SessionWhere, Sessions!OneSessionPerPeer
  <2>10. NoneOutlives'
    BY <1>27 DEF NoneOutlives, PeerRunTypes, SessionWhere, GenerationsClose, OneRegistered, Sessions!NoSessionOutlivesServer,
       Sessions!OneSessionPerPeer
  <2>11. SockTypes' /\ SessTypes' /\ RegistryTypes' /\ PeerRunTypes' /\ SlotsAddUp' /\ GenerationsClose' /\ StopIsFinal'
    <3>1. UNCHANGED <<cast, sock, sess, doomed, sessions, closedGen, flights, slots, gen, peerRun>> BY <1>27
    <3>. QED BY <1>27, <3>1 DEF SockTypes, RegistryTypes, PeerRunTypes, SlotsAddUp, GenerationsClose, StopIsFinal
  <2>. QED BY <2>1, <2>2, <2>3, <2>4, <2>5, <2>6, <2>7, <2>8, <2>9, <2>10, <2>11
<1>28. ASSUME PeerInv, NEW a \in Attempts, Sessions!Deregister(a) PROVE PeerInv'
  <2>. USE SessionsAssumption DEF Sessions!SockUnchanged, Sessions!Goto, JobTypes, Sessions!Deregister, JobPlaces,
       Sessions!NetUnchanged, Sessions!SessUnchanged, Jobs, Numbers, SessionWhere, SessTypes
  <2>1. JobTypes' BY SMTT(100), <1>28 DEF PeerRunTypes, RegistryTypes, WaitTypes, HoldsWhere
  <2>2. WaitTypes' BY <1>28 DEF WaitTypes
  <2>3. HoldsWhere' BY <1>28 DEF HoldsWhere, RegistryTypes, WaitTypes
  <2>4. AnswerWhere' BY <1>28 DEF AnswerWhere, WaitTypes, HoldsWhere, Dialing
  <2>5. SocketWhere' BY <1>28 DEF SocketWhere, SockTypes, Sockets
  <2>6. SessionWhere' BY <1>28 DEF PeerRunTypes, HoldsWhere
  <2>7. OnlyCallersLeft' BY <1>28 DEF OnlyCallersLeft, PeerRunTypes, StopIsFinal, Busy
  <2>8. SocketsOwned'
    BY <1>28 DEF SocketsOwned, SockTypes, WaitTypes, HoldsWhere, AnswerWhere, SocketWhere, Sessions!NothingLeaks, Sockets,
       Dialing, Sessions!Owned, Sessions!InProgress
  <2>9. OneRegistered' BY <1>28 DEF OneRegistered, RegistryTypes, Sessions!OneSessionPerPeer
  <2>10. NoneOutlives'
    BY <1>28 DEF NoneOutlives, PeerRunTypes, GenerationsClose, OneRegistered, Sessions!NoSessionOutlivesServer,
       Sessions!OneSessionPerPeer
  <2>11. SockTypes' /\ SessTypes' /\ RegistryTypes' /\ PeerRunTypes' /\ SlotsAddUp' /\ GenerationsClose' /\ StopIsFinal'
    <3>1. UNCHANGED <<cast, sock, sess, doomed, sessions, closedGen, flights, slots, gen, peerRun>> BY <1>28
    <3>. QED BY <1>28, <3>1 DEF SockTypes, RegistryTypes, PeerRunTypes, SlotsAddUp, GenerationsClose, StopIsFinal
  <2>. QED BY <2>1, <2>2, <2>3, <2>4, <2>5, <2>6, <2>7, <2>8, <2>9, <2>10, <2>11
<1>29. ASSUME PeerInv, NEW a \in Attempts, Sessions!Drain(a) PROVE PeerInv'
  <2>1. OneRegistered'
    BY <1>29, SessionsAssumption DEF Sessions!Drain, Sessions!Drops, Sessions!Nobody, Sessions!EndsEmpty, Sessions!Goto,
       Sessions!NetUnchanged, Sessions!SessUnchanged, Sessions!Ended, Sessions!Types, Sessions!Idle, OneRegistered,
       JobTypes, SessTypes, RegistryTypes, SessionWhere, Sessions!OneSessionPerPeer, Jobs, Numbers, JobPlaces, PeerInv,
       PeerTypes
  <2>. USE SessionsAssumption DEF Sessions!Drops, Sessions!EndsEmpty, Sessions!Idle, JobTypes, JobPlaces, Sessions!Drain,
       Sessions!SessUnchanged, Sessions!NetUnchanged, Sessions!Goto, Sessions!Ended, Sessions!Nobody, Jobs, Sessions!Types,
       Numbers
  <2>2. JobTypes' BY <1>29 DEF PeerRunTypes, RegistryTypes, WaitTypes, HoldsWhere
  <2>3. SockTypes' BY <1>29 DEF SockTypes, Sockets
  <2>4. RegistryTypes' BY <1>29 DEF RegistryTypes
  <2>5. WaitTypes' BY <1>29 DEF WaitTypes
  <2>6. SlotsAddUp' BY <1>29, DropsSlots
  <2>7. HoldsWhere'
    <3>1. \A b \in Attempts : b # a => job'[b] = job[b] BY <1>29
    <3>2. job'[a].at # "follow" /\ job'[a].at # "init" /\ job'[a].at \in {"deregister", "ended", "register"}
      BY <1>29, IdleForms
    <3>. QED BY <1>29, <3>1, <3>2, HoldsKeep
  <2>8. AnswerWhere' BY SMTT(40), <1>29 DEF AnswerWhere, WaitTypes, HoldsWhere, Dialing
  <2>9. SocketWhere' BY ZenonT(150), <1>29 DEF SocketWhere, SockTypes, Sockets
  <2>10. SessionWhere' BY <1>29 DEF SessionWhere, SessTypes, PeerRunTypes, HoldsWhere
  <2>11. OnlyCallersLeft' BY <1>29 DEF OnlyCallersLeft, SessTypes, PeerRunTypes, SessionWhere, StopIsFinal, Busy
  <2>12. SocketsOwned'
    <3>1. \A b \in Attempts : b # a => job'[b] = job[b] /\ result'[b] = result[b] /\ sess'[b] = sess[b]
      BY <1>29 DEF WaitTypes, SessTypes
    <3>2. \A s \in Attempts : sock'[s].open \/ sock'[s].lease => Holder(a, s)' \/ ((sock[s].open \/ sock[s].lease) /\ ~Holder(a, s))
      BY <1>29 DEF SockTypes, Sockets, SessTypes, WaitTypes, HoldsWhere, AnswerWhere, Dialing, SocketWhere, SessionWhere, Holder,
         Moves, MovesTo, EndsWith, EndsBare
    <3>. QED BY <1>29, <3>1, <3>2, HoldersKeep
  <2>13. NoneOutlives'
    BY ZenonT(150), <1>29 DEF NoneOutlives, SessTypes, PeerRunTypes, SessionWhere, GenerationsClose, OneRegistered,
       Sessions!NoSessionOutlivesServer, Sessions!OneSessionPerPeer
  <2>14. SessTypes' /\ PeerRunTypes' /\ GenerationsClose' /\ StopIsFinal'
    <3>1. UNCHANGED <<cast, sess, doomed, closedGen, gen, peerRun>> BY <1>29
    <3>. QED BY <1>29, <3>1 DEF SessTypes, PeerRunTypes, GenerationsClose, StopIsFinal
  <2>. QED BY <2>2, <2>3, <2>4, <2>5, <2>6, <2>7, <2>8, <2>9, <2>10, <2>11, <2>12, <2>1, <2>13, <2>14
<1>30. ASSUME PeerInv, NEW a \in Attempts, Sessions!RefuseInit(a) PROVE PeerInv'
  <2>. USE SessionsAssumption DEF Sessions!Drops, Sessions!EndsEmpty, Sessions!RefuseInit, Sessions!WaitUnchanged,
       Sessions!Idle, JobTypes, JobPlaces, Sessions!NetUnchanged, Sessions!SessUnchanged, Sessions!Ended, Sessions!Nobody,
       Jobs, Sessions!Types, Numbers, SessTypes
  <2>1. JobTypes' BY <1>30 DEF PeerRunTypes, RegistryTypes, WaitTypes, HoldsWhere
  <2>2. SockTypes' BY <1>30 DEF SockTypes, Sockets
  <2>3. RegistryTypes' BY <1>30 DEF RegistryTypes
  <2>4. SlotsAddUp' BY <1>30, DropsSlots
  <2>5. HoldsWhere' BY <1>30 DEF HoldsWhere, RegistryTypes, WaitTypes, SessionWhere
  <2>6. AnswerWhere' BY <1>30 DEF AnswerWhere, WaitTypes, HoldsWhere, Dialing
  <2>7. SocketWhere' BY <1>30 DEF SocketWhere, SockTypes, Sockets
  <2>8. SessionWhere' BY <1>30 DEF SessionWhere, PeerRunTypes, HoldsWhere
  <2>9. OnlyCallersLeft' BY <1>30 DEF OnlyCallersLeft, PeerRunTypes, SessionWhere, StopIsFinal, Busy
  <2>10. SocketsOwned'
    <3>1. \A b \in Attempts : b # a => job'[b] = job[b] /\ result'[b] = result[b] /\ sess'[b] = sess[b]
      BY <1>30 DEF WaitTypes
    <3>2. \A s \in Attempts : sock'[s].open \/ sock'[s].lease => Holder(a, s)' \/ ((sock[s].open \/ sock[s].lease) /\ ~Holder(a, s))
      BY SMTT(40), <1>30 DEF SockTypes, Sockets, WaitTypes, HoldsWhere, AnswerWhere, Dialing, SocketWhere, SessionWhere, Holder,
         Moves, MovesTo, EndsWith, EndsBare
    <3>. QED BY <1>30, <3>1, <3>2, HoldersKeep
  <2>11. OneRegistered' BY <1>30 DEF OneRegistered, RegistryTypes, SessionWhere, Sessions!OneSessionPerPeer
  <2>12. NoneOutlives'
    BY <1>30 DEF NoneOutlives, PeerRunTypes, SessionWhere, GenerationsClose, OneRegistered, Sessions!NoSessionOutlivesServer,
       Sessions!OneSessionPerPeer
  <2>13. SessTypes' /\ WaitTypes' /\ PeerRunTypes' /\ GenerationsClose' /\ StopIsFinal'
    <3>1. UNCHANGED <<cast, sess, doomed, closedGen, asking, pending, result, failing, gen, peerRun>> BY <1>30
    <3>. QED BY <1>30, <3>1 DEF WaitTypes, PeerRunTypes, GenerationsClose, StopIsFinal
  <2>. QED BY <2>1, <2>2, <2>3, <2>4, <2>5, <2>6, <2>7, <2>8, <2>9, <2>10, <2>11, <2>12, <2>13
<1>31. ASSUME PeerInv, NEW a \in Attempts, Sessions!CompletePendingDial(a) PROVE PeerInv'
  <2>1. SocketsOwned' BY <1>31, CompletePendingDialOwned
  <2>. USE SessionsAssumption DEF Sessions!SockUnchanged, Sessions!EndsEmpty, Sessions!Ended, Sessions!Idle, JobTypes,
       JobPlaces, Sessions!NetUnchanged, Sessions!SessUnchanged, Sessions!CompletePendingDial, Sessions!Nobody, Jobs,
       Sessions!Types, Numbers
  <2>2. JobTypes' BY <1>31 DEF PeerRunTypes, RegistryTypes, WaitTypes, HoldsWhere
  <2>3. RegistryTypes' BY <1>31 DEF RegistryTypes
  <2>4. WaitTypes' BY <1>31 DEF WaitTypes
  <2>5. HoldsWhere' BY <1>31 DEF HoldsWhere, RegistryTypes, WaitTypes, SessionWhere
  <2>6. AnswerWhere' BY <1>31 DEF AnswerWhere, WaitTypes, HoldsWhere, Dialing
  <2>7. SocketWhere' BY <1>31 DEF SocketWhere, SockTypes, Sockets
  <2>8. SessionWhere' BY <1>31 DEF SessionWhere, SessTypes, PeerRunTypes, HoldsWhere
  <2>9. OnlyCallersLeft' BY <1>31 DEF OnlyCallersLeft, SessTypes, PeerRunTypes, SessionWhere, StopIsFinal, Busy
  <2>10. OneRegistered' BY <1>31 DEF OneRegistered, SessTypes, RegistryTypes, SessionWhere, Sessions!OneSessionPerPeer
  <2>11. NoneOutlives' BY <1>31 DEF NoneOutlives, SessTypes, PeerRunTypes, SessionWhere, GenerationsClose, OneRegistered,
       Sessions!NoSessionOutlivesServer, Sessions!OneSessionPerPeer
  <2>12. SockTypes' /\ SessTypes' /\ PeerRunTypes' /\ SlotsAddUp' /\ GenerationsClose' /\ StopIsFinal'
    <3>1. UNCHANGED <<cast, sock, sess, doomed, closedGen, slots, gen, peerRun>> BY <1>31
    <3>. QED BY <1>31, <3>1 DEF SockTypes, SessTypes, PeerRunTypes, SlotsAddUp, GenerationsClose, StopIsFinal
  <2>. QED BY <2>2, <2>3, <2>4, <2>5, <2>6, <2>7, <2>8, <2>9, <2>1, <2>10, <2>11, <2>12
<1>32. ASSUME PeerInv, NEW a \in Attempts, Sessions!PeerInit(a) PROVE PeerInv'
  <2>1. UNCHANGED <<cast, sock, sess, doomed, sessions, closedGen, flights, asking, pending, result, failing, slots, gen, peerRun>>
    BY <1>32 DEF Sessions!PeerInit, Sessions!Goto, Sessions!Serving, Sessions!NetUnchanged, Sessions!SessUnchanged,
       Sessions!SockUnchanged, Sessions!WaitUnchanged
  <2>2. SocketWhere'
    BY <1>32, SessionsAssumption DEF Sessions!PeerInit, Sessions!Goto, Sessions!Serving, Sessions!NetUnchanged,
       Sessions!SessUnchanged, Sessions!SockUnchanged, Sessions!WaitUnchanged, SocketWhere, JobTypes, SockTypes, Jobs,
       Sockets, JobPlaces, Numbers, PeerInv, PeerTypes
  <2>3. JobTypes'
    BY <1>32, SessionsAssumption DEF Sessions!PeerInit, Sessions!Goto, Sessions!Serving, Sessions!NetUnchanged,
       Sessions!SessUnchanged, Sessions!SockUnchanged, Sessions!WaitUnchanged, JobTypes, PeerRunTypes, RegistryTypes,
       WaitTypes, HoldsWhere, Jobs, Numbers, JobPlaces, PeerInv, PeerTypes
  <2>. USE DEF WaitTypes, Moves, EndsWith, EndsBare, MovesTo
  <2>4. HoldsWhere'
    BY <1>32, <2>1, PeerInitMoves, SessionsAssumption DEF HoldsWhere, JobTypes, Jobs, JobPlaces, Numbers, RegistryTypes,
       SessionWhere
  <2>5. SocketsOwned'
    <3>1. \A b \in Attempts : b # a => job'[b] = job[b] /\ result'[b] = result[b] /\ sess'[b] = sess[b]
      BY <1>32, <2>1, PeerInitMoves
    <3>2. \A s \in Attempts : sock'[s].open \/ sock'[s].lease => Holder(a, s)' \/ ((sock[s].open \/ sock[s].lease) /\ ~Holder(a, s))
      BY <1>32, <2>1, PeerInitMoves, SessionsAssumption DEF JobTypes, Jobs, JobPlaces, Numbers, SockTypes, Sockets, SessTypes,
         HoldsWhere, AnswerWhere, Dialing, SocketWhere, SessionWhere, Holder
    <3>. QED BY <1>32, <3>1, <3>2, HoldersKeep
  <2>6. SockTypes' /\ SessTypes' /\ RegistryTypes' /\ WaitTypes' /\ PeerRunTypes' /\ SlotsAddUp' /\ GenerationsClose'
        /\ StopIsFinal'
    BY <1>32, <2>1 DEF SockTypes, SessTypes, RegistryTypes, PeerRunTypes, SlotsAddUp, GenerationsClose, StopIsFinal
  <2>. USE SessionsAssumption DEF Sessions!SockUnchanged, Sessions!Goto, Sessions!WaitUnchanged, JobTypes, PeerRunTypes,
       JobPlaces, Sessions!PeerInit, Sessions!NetUnchanged, Sessions!SessUnchanged, Jobs, Sessions!Serving, Numbers,
       SessionWhere, SessTypes
  <2>7. AnswerWhere' BY <1>32 DEF AnswerWhere, HoldsWhere, Dialing
  <2>8. SessionWhere' BY <1>32 DEF HoldsWhere
  <2>9. OnlyCallersLeft' BY <1>32 DEF OnlyCallersLeft, StopIsFinal, Busy
  <2>10. OneRegistered' BY SMTT(40), <1>32 DEF OneRegistered, RegistryTypes, Sessions!OneSessionPerPeer
  <2>11. NoneOutlives'
    BY <1>32 DEF NoneOutlives, GenerationsClose, OneRegistered, Sessions!NoSessionOutlivesServer, Sessions!OneSessionPerPeer
  <2>. QED BY <2>3, <2>4, <2>7, <2>2, <2>8, <2>9, <2>5, <2>10, <2>11, <2>6
<1>33. ASSUME PeerInv, NEW a \in Attempts, Sessions!MirrorDial(a) PROVE PeerInv'
  <2>1. UNCHANGED <<cast, sess, doomed, sessions, closedGen, asking, pending, result, failing, slots, gen, peerRun>>
    BY <1>33 DEF Sessions!MirrorDial, Sessions!EndsEmpty, Sessions!SockUnchanged, Sessions!Open, Sessions!NetUnchanged,
       Sessions!SessUnchanged, Sessions!WaitUnchanged, Sessions!Ended, Sessions!Idle
  <2>2. JobTypes'
    BY <1>33, SessionsAssumption DEF Sessions!MirrorDial, Sessions!EndsEmpty, Sessions!SockUnchanged, Sessions!Open,
       Sessions!NetUnchanged, Sessions!SessUnchanged, Sessions!WaitUnchanged, Sessions!Ended, Sessions!Types,
       Sessions!Nobody, Sessions!Idle, JobTypes, PeerRunTypes, RegistryTypes, WaitTypes, HoldsWhere, Jobs, Numbers,
       JobPlaces, PeerInv, PeerTypes
  <2>3. SessionWhere'
    BY <1>33, SessionsAssumption DEF Sessions!MirrorDial, Sessions!EndsEmpty, Sessions!SockUnchanged, Sessions!Open,
       Sessions!NetUnchanged, Sessions!SessUnchanged, Sessions!WaitUnchanged, Sessions!Ended, Sessions!Types,
       Sessions!Nobody, Sessions!Idle, SessionWhere, JobTypes, SessTypes, PeerRunTypes, HoldsWhere, Jobs, JobPlaces,
       Numbers, PeerInv, PeerTypes
  <2>4. OnlyCallersLeft'
    BY <1>33, SessionsAssumption DEF Sessions!MirrorDial, Sessions!EndsEmpty, Sessions!SockUnchanged, Sessions!Open,
       Sessions!NetUnchanged, Sessions!SessUnchanged, Sessions!WaitUnchanged, Sessions!Ended, Sessions!Types,
       Sessions!Nobody, Sessions!Idle, OnlyCallersLeft, JobTypes, SessTypes, PeerRunTypes, SessionWhere, StopIsFinal,
       Busy, Jobs, JobPlaces, Numbers, PeerInv, PeerTypes
  <2>5. NoneOutlives'
    BY SMTT(40), <1>33, SessionsAssumption DEF Sessions!MirrorDial, Sessions!EndsEmpty, Sessions!SockUnchanged, Sessions!Open,
       Sessions!NetUnchanged, Sessions!SessUnchanged, Sessions!WaitUnchanged, Sessions!Ended, Sessions!Types,
       Sessions!Nobody, Sessions!Idle, NoneOutlives, JobTypes, SessTypes, PeerRunTypes, SessionWhere, GenerationsClose,
       OneRegistered, Sessions!NoSessionOutlivesServer, Jobs, Sessions!OneSessionPerPeer, JobPlaces, Numbers, PeerInv,
       PeerTypes
  <2>6. AnswerWhere'
    BY <1>33, SessionsAssumption DEF Sessions!MirrorDial, Sessions!EndsEmpty, Sessions!SockUnchanged, Sessions!Open,
       Sessions!NetUnchanged, Sessions!SessUnchanged, Sessions!WaitUnchanged, Sessions!Ended, Sessions!Types,
       Sessions!Nobody, Sessions!Idle, AnswerWhere, JobTypes, WaitTypes, HoldsWhere, Dialing, Jobs, Numbers, JobPlaces,
       PeerInv, PeerTypes
  <2>. USE SessionsAssumption DEF JobTypes, JobPlaces, Sockets, SockTypes, Moves, EndsWith, Jobs, EndsBare, MovesTo, Numbers
  <2>7. SockTypes' BY <1>33, <2>1, MirrorDialMoves
  <2>8. SlotsAddUp' BY <1>33, <2>1, MirrorDialMoves DEF SlotsAddUp
  <2>9. HoldsWhere' BY <1>33, <2>1, MirrorDialMoves DEF HoldsWhere, RegistryTypes, WaitTypes, SessionWhere
  <2>10. SocketWhere' BY <1>33, <2>1, MirrorDialMoves DEF SocketWhere
  <2>11. SocketsOwned'
    <3>1. \A b \in Attempts : b # a => job'[b] = job[b] /\ result'[b] = result[b] /\ sess'[b] = sess[b]
      BY <1>33, <2>1, MirrorDialMoves
    <3>2. \A s \in Attempts : sock'[s].open \/ sock'[s].lease => Holder(a, s)' \/ ((sock[s].open \/ sock[s].lease) /\ ~Holder(a, s))
      BY <1>33, <2>1, MirrorDialMoves DEF SessTypes, WaitTypes, HoldsWhere, AnswerWhere, Dialing, SocketWhere, SessionWhere,
         Holder
    <3>. QED BY <1>33, <3>1, <3>2, HoldersKeep
  <2>. USE DEF Sessions!Open, Sessions!SessUnchanged, Sessions!Ended, Sessions!Nobody, Sessions!EndsEmpty,
       Sessions!NetUnchanged, Sessions!Idle, PeerRunTypes, Sessions!Types, Sessions!MirrorDial, Sessions!SockUnchanged,
       Sessions!WaitUnchanged, SessionWhere, SessTypes
  <2>12. RegistryTypes' BY <1>33 DEF RegistryTypes
  <2>13. OneRegistered' BY <1>33 DEF OneRegistered, RegistryTypes, Sessions!OneSessionPerPeer
  <2>14. SessTypes' /\ WaitTypes' /\ PeerRunTypes' /\ GenerationsClose' /\ StopIsFinal'
    <3>1. UNCHANGED <<cast, sess, doomed, closedGen, asking, pending, result, failing, gen, peerRun>> BY <1>33
    <3>. QED BY <1>33, <3>1 DEF WaitTypes, GenerationsClose, StopIsFinal
  <2>. QED BY <2>2, <2>7, <2>12, <2>8, <2>9, <2>6, <2>10, <2>3, <2>4, <2>11, <2>13, <2>5, <2>14
<1>34. ASSUME PeerInv, NEW a \in Attempts, Sessions!Register(a) PROVE PeerInv'
  <2>. USE SessionsAssumption DEF Sessions!SockUnchanged, Numbers, Sessions!WaitUnchanged, JobTypes, JobPlaces,
       Sessions!NetUnchanged, Sessions!Stale, Jobs, Sessions!Nobody, Sessions!Register, SessTypes
  <2>1. JobTypes' BY <1>34 DEF PeerRunTypes, RegistryTypes, WaitTypes, HoldsWhere
  <2>2. SessTypes' BY <1>34 DEF RegistryTypes
  <2>3. RegistryTypes' BY <1>34 DEF RegistryTypes
  <2>4. HoldsWhere' BY <1>34 DEF HoldsWhere, RegistryTypes, WaitTypes, SessionWhere
  <2>5. AnswerWhere' BY <1>34 DEF AnswerWhere, WaitTypes, HoldsWhere, Dialing
  <2>6. SocketWhere' BY <1>34 DEF SocketWhere, SockTypes, Sockets
  <2>7. SessionWhere' BY SMTT(40), <1>34 DEF SessionWhere, PeerRunTypes, HoldsWhere
  <2>8. OnlyCallersLeft' BY <1>34 DEF OnlyCallersLeft, PeerRunTypes, SessionWhere, StopIsFinal, Busy
  <2>9. SocketsOwned'
    <3>1. \A b \in Attempts : b # a => job'[b] = job[b] /\ result'[b] = result[b] /\ sess'[b] = sess[b]
      BY <1>34 DEF WaitTypes
    <3>2. \A s \in Attempts : sock'[s].open \/ sock'[s].lease => Holder(a, s)' \/ ((sock[s].open \/ sock[s].lease) /\ ~Holder(a, s))
      BY <1>34 DEF SockTypes, Sockets, WaitTypes, HoldsWhere, AnswerWhere, Dialing, SocketWhere, SessionWhere, Holder, Moves,
         MovesTo, EndsWith, EndsBare
    <3>. QED BY <1>34, <3>1, <3>2, HoldersKeep
  <2>10. OneRegistered' BY <1>34 DEF OneRegistered, RegistryTypes, SessionWhere, Sessions!OneSessionPerPeer
  <2>11. NoneOutlives'
    BY <1>34 DEF NoneOutlives, PeerRunTypes, SessionWhere, GenerationsClose, OneRegistered, Sessions!NoSessionOutlivesServer,
       Sessions!OneSessionPerPeer
  <2>12. SockTypes' /\ WaitTypes' /\ PeerRunTypes' /\ SlotsAddUp' /\ GenerationsClose' /\ StopIsFinal'
    <3>1. UNCHANGED <<cast, sock, closedGen, asking, pending, result, failing, slots, gen, peerRun>> BY <1>34
    <3>. QED BY <1>34, <3>1 DEF SockTypes, WaitTypes, PeerRunTypes, SlotsAddUp, GenerationsClose, StopIsFinal
  <2>. QED BY <2>1, <2>2, <2>3, <2>4, <2>5, <2>6, <2>7, <2>8, <2>9, <2>10, <2>11, <2>12
<1>35. ASSUME PeerInv, NEW a \in Attempts, Sessions!CloseLoser(a) PROVE PeerInv'
  <2>1. UNCHANGED <<cast, doomed, sessions, closedGen, flights, asking, pending, result, failing, gen, peerRun>>
    BY <1>35 DEF Sessions!CloseLoser, Sessions!Drops, Sessions!NetUnchanged, Sessions!WaitUnchanged
  <2>2. JobTypes'
    BY <1>35, <2>1, CloseLoserMoves, SessionsAssumption DEF JobTypes, Jobs, JobPlaces, Numbers, PeerRunTypes, RegistryTypes,
       WaitTypes, HoldsWhere, Moves, MovesTo, EndsWith, EndsBare
  <2>3. SlotsAddUp'
    BY <1>35, <2>1, CloseLoserMoves, SessionsAssumption DEF SlotsAddUp, Moves, MovesTo, EndsWith, EndsBare, Jobs, Numbers
  <2>4. SocketsOwned' BY <1>35, CloseLoserOwned
  <2>. USE SessionsAssumption DEF Sessions!Drops, Sessions!WaitUnchanged, JobTypes, JobPlaces, Jobs, Sessions!NetUnchanged,
       Sessions!CloseLoser, Numbers, SessTypes, SessionWhere
  <2>5. SockTypes' BY <1>35 DEF SockTypes, Sockets
  <2>6. SessTypes' BY <1>35 DEF RegistryTypes
  <2>7. HoldsWhere' BY <1>35 DEF HoldsWhere, RegistryTypes, WaitTypes
  <2>8. AnswerWhere' BY <1>35 DEF AnswerWhere, WaitTypes, HoldsWhere, Dialing
  <2>9. SocketWhere' BY <1>35 DEF SocketWhere, SockTypes, Sockets
  <2>10. SessionWhere' BY <1>35 DEF PeerRunTypes, HoldsWhere
  <2>11. OnlyCallersLeft' BY <1>35 DEF OnlyCallersLeft, PeerRunTypes, StopIsFinal, Busy
  <2>12. OneRegistered' BY <1>35 DEF OneRegistered, RegistryTypes, Sessions!OneSessionPerPeer
  <2>13. NoneOutlives'
    BY <1>35 DEF NoneOutlives, PeerRunTypes, GenerationsClose, OneRegistered, Sessions!NoSessionOutlivesServer,
       Sessions!OneSessionPerPeer
  <2>14. RegistryTypes' /\ WaitTypes' /\ PeerRunTypes' /\ GenerationsClose' /\ StopIsFinal'
    <3>1. UNCHANGED <<cast, sessions, closedGen, flights, asking, pending, result, failing, gen, peerRun>> BY <1>35
    <3>. QED BY <1>35, <3>1 DEF RegistryTypes, WaitTypes, PeerRunTypes, GenerationsClose, StopIsFinal
  <2>. QED BY <2>2, <2>5, <2>6, <2>3, <2>7, <2>8, <2>9, <2>10, <2>11, <2>4, <2>12, <2>13, <2>14
<1>36. ASSUME PeerInv, NEW a \in Attempts, Sessions!StartLoops(a) PROVE PeerInv'
  <2>. USE SessionsAssumption DEF Sessions!SockUnchanged, Numbers, Sessions!WaitUnchanged, JobTypes, JobPlaces,
       Sessions!Stopping, Sessions!NetUnchanged, Sessions!Goto, Jobs, Sessions!StartLoops, SessTypes, SessionWhere
  <2>1. JobTypes' BY SMTT(100), <1>36 DEF PeerRunTypes, RegistryTypes, WaitTypes, HoldsWhere
  <2>2. SessTypes' BY <1>36 DEF RegistryTypes
  <2>3. HoldsWhere' BY <1>36 DEF HoldsWhere, RegistryTypes, WaitTypes
  <2>4. AnswerWhere' BY <1>36 DEF AnswerWhere, WaitTypes, HoldsWhere, Dialing
  <2>5. SocketWhere' BY <1>36 DEF SocketWhere, SockTypes, Sockets
  <2>6. SessionWhere' BY <1>36 DEF PeerRunTypes, HoldsWhere
  <2>7. OnlyCallersLeft' BY <1>36 DEF OnlyCallersLeft, PeerRunTypes, StopIsFinal, Busy
  <2>8. SocketsOwned'
    BY <1>36 DEF SocketsOwned, SockTypes, WaitTypes, HoldsWhere, AnswerWhere, SocketWhere, Sessions!NothingLeaks, Sockets,
       Dialing, Sessions!Owned, Sessions!InProgress
  <2>9. OneRegistered' BY <1>36 DEF OneRegistered, RegistryTypes, Sessions!OneSessionPerPeer
  <2>10. NoneOutlives'
    BY <1>36 DEF NoneOutlives, PeerRunTypes, GenerationsClose, OneRegistered, Sessions!NoSessionOutlivesServer,
       Sessions!OneSessionPerPeer
  <2>11. SockTypes' /\ RegistryTypes' /\ WaitTypes' /\ PeerRunTypes' /\ SlotsAddUp' /\ GenerationsClose' /\ StopIsFinal'
    <3>1. UNCHANGED <<cast, sock, sessions, closedGen, flights, asking, pending, result, failing, slots, gen, peerRun>>
      BY <1>36
    <3>. QED BY <1>36, <3>1 DEF SockTypes, RegistryTypes, WaitTypes, PeerRunTypes, SlotsAddUp, GenerationsClose, StopIsFinal
  <2>. QED BY <2>1, <2>2, <2>3, <2>4, <2>5, <2>6, <2>7, <2>8, <2>9, <2>10, <2>11
<1>37. ASSUME PeerInv, NEW a \in Attempts, Sessions!Check(a) PROVE PeerInv'
  <2>1. UNCHANGED <<cast, sock, sess, sessions, closedGen, asking, pending, result, failing, slots, gen, peerRun>>
    BY <1>37 DEF Sessions!Check, Sessions!Stopping, Sessions!Serving, Sessions!Ends, Sessions!NetUnchanged,
       Sessions!SockUnchanged, Sessions!WaitUnchanged, Sessions!Ended, Sessions!Idle
  <2>. USE SessionsAssumption DEF JobTypes, JobPlaces, Moves, EndsWith, Jobs, HoldsWhere, EndsBare, MovesTo, Numbers,
       SessionWhere, SessTypes
  <2>2. JobTypes' BY <1>37, <2>1, CheckMoves DEF PeerRunTypes, RegistryTypes, WaitTypes
  <2>3. HoldsWhere' BY <1>37, <2>1, CheckMoves DEF RegistryTypes, WaitTypes
  <2>4. AnswerWhere' BY <1>37, <2>1, CheckMoves DEF AnswerWhere, Dialing, WaitTypes
  <2>5. SocketWhere' BY <1>37, <2>1, CheckMoves DEF SocketWhere, SockTypes, Sockets
  <2>6. SessionWhere' BY <1>37, <2>1, CheckMoves DEF PeerRunTypes
  <2>7. OnlyCallersLeft' BY <1>37, <2>1, CheckMoves DEF OnlyCallersLeft, Busy, PeerRunTypes, StopIsFinal
  <2>8. SocketsOwned'
    <3>1. \A b \in Attempts : b # a => job'[b] = job[b] /\ result'[b] = result[b] /\ sess'[b] = sess[b]
      BY <1>37, <2>1, CheckMoves
    <3>2. \A s \in Attempts : sock'[s].open \/ sock'[s].lease => Holder(a, s)' \/ ((sock[s].open \/ sock[s].lease) /\ ~Holder(a, s))
      BY <1>37, <2>1, CheckMoves DEF SockTypes, Sockets, WaitTypes, AnswerWhere, Dialing, SocketWhere, Holder
    <3>. QED BY <1>37, <3>1, <3>2, HoldersKeep
  <2>9. OneRegistered' BY <1>37, <2>1, CheckMoves DEF OneRegistered, Sessions!OneSessionPerPeer, RegistryTypes
  <2>10. NoneOutlives'
    BY <1>37, <2>1, CheckMoves DEF NoneOutlives, Sessions!NoSessionOutlivesServer, PeerRunTypes, GenerationsClose,
       OneRegistered, Sessions!OneSessionPerPeer
  <2>. USE DEF Sessions!SockUnchanged, Sessions!WaitUnchanged, Sessions!Idle, Sessions!Stopping, Sessions!Ends,
       Sessions!Check, Sessions!NetUnchanged, Sessions!Ended, Sessions!Serving
  <2>11. SessTypes' BY <1>37 DEF Sessions!Nobody, Sessions!Types, RegistryTypes
  <2>12. RegistryTypes' BY <1>37 DEF Sessions!Nobody, Sessions!Types, RegistryTypes
  <2>13. SockTypes' /\ WaitTypes' /\ PeerRunTypes' /\ SlotsAddUp' /\ GenerationsClose' /\ StopIsFinal'
    <3>1. UNCHANGED <<cast, sock, closedGen, asking, pending, result, failing, slots, gen, peerRun>> BY <1>37
    <3>. QED BY <1>37, <3>1 DEF SockTypes, WaitTypes, PeerRunTypes, SlotsAddUp, GenerationsClose, StopIsFinal
  <2>. QED BY <2>2, <2>11, <2>12, <2>3, <2>4, <2>5, <2>6, <2>7, <2>8, <2>9, <2>10, <2>13
<1>38. ASSUME PeerInv, NEW a \in Attempts, Sessions!Close(a) PROVE PeerInv'
  <2>. USE SessionsAssumption DEF Sessions!Drops, Sessions!WaitUnchanged, JobTypes, JobPlaces, Sessions!Close,
       Sessions!NetUnchanged, Jobs, Numbers, SessTypes
  <2>1. JobTypes' BY <1>38 DEF PeerRunTypes, RegistryTypes, WaitTypes, HoldsWhere
  <2>2. SockTypes' BY <1>38 DEF SockTypes, Sockets
  <2>3. SessTypes' BY <1>38 DEF RegistryTypes
  <2>4. SlotsAddUp' BY <1>38, DropsSlots
  <2>5. HoldsWhere' BY <1>38 DEF HoldsWhere, RegistryTypes, WaitTypes, SessionWhere
  <2>6. AnswerWhere' BY <1>38 DEF AnswerWhere, WaitTypes, HoldsWhere, Dialing
  <2>7. SocketWhere' BY <1>38 DEF SocketWhere, SockTypes, Sockets
  <2>8. SessionWhere' BY <1>38 DEF SessionWhere, PeerRunTypes, HoldsWhere
  <2>9. OnlyCallersLeft' BY <1>38 DEF OnlyCallersLeft, PeerRunTypes, SessionWhere, StopIsFinal, Busy
  <2>10. SocketsOwned'
    <3>1. \A b \in Attempts : b # a => job'[b] = job[b] /\ result'[b] = result[b] /\ sess'[b] = sess[b]
      BY <1>38 DEF WaitTypes
    <3>2. \A s \in Attempts : sock'[s].open \/ sock'[s].lease => Holder(a, s)' \/ ((sock[s].open \/ sock[s].lease) /\ ~Holder(a, s))
      BY <1>38 DEF SockTypes, Sockets, WaitTypes, HoldsWhere, AnswerWhere, Dialing, SocketWhere, SessionWhere, Holder, Moves,
         MovesTo, EndsWith, EndsBare
    <3>. QED BY <1>38, <3>1, <3>2, HoldersKeep
  <2>11. OneRegistered' BY <1>38 DEF OneRegistered, RegistryTypes, SessionWhere, Sessions!OneSessionPerPeer
  <2>12. NoneOutlives'
    BY <1>38 DEF NoneOutlives, PeerRunTypes, SessionWhere, GenerationsClose, OneRegistered, Sessions!NoSessionOutlivesServer,
       Sessions!OneSessionPerPeer
  <2>13. RegistryTypes' /\ WaitTypes' /\ PeerRunTypes' /\ GenerationsClose' /\ StopIsFinal'
    <3>1. UNCHANGED <<cast, sessions, closedGen, flights, asking, pending, result, failing, gen, peerRun>> BY <1>38
    <3>. QED BY <1>38, <3>1 DEF RegistryTypes, WaitTypes, PeerRunTypes, GenerationsClose, StopIsFinal
  <2>. QED BY <2>1, <2>2, <2>3, <2>4, <2>5, <2>6, <2>7, <2>8, <2>9, <2>10, <2>11, <2>12, <2>13
<1>39. ASSUME PeerInv, NEW a \in Attempts, Sessions!RemoveIfSame(a) PROVE PeerInv'
  <2>1. OnlyCallersLeft' BY <1>39, RemoveIfSameLeaves
  <2>. USE SessionsAssumption DEF Sessions!SockUnchanged, Sessions!WaitUnchanged, JobTypes, SessTypes, JobPlaces,
       Sessions!NetUnchanged, Jobs, Sessions!RemoveIfSame, Sessions!Types, Numbers, Sessions!Nobody, SessionWhere
  <2>2. SessTypes' BY <1>39 DEF RegistryTypes
  <2>3. RegistryTypes' BY <1>39 DEF RegistryTypes
  <2>4. SessionWhere' BY <1>39 DEF PeerRunTypes, HoldsWhere
  <2>5. SocketsOwned'
    BY <1>39 DEF SocketsOwned, SockTypes, WaitTypes, HoldsWhere, AnswerWhere, SocketWhere, Sessions!NothingLeaks, Sockets,
       Dialing, Sessions!Owned, Sessions!InProgress
  <2>6. OneRegistered' BY <1>39 DEF OneRegistered, RegistryTypes, Sessions!OneSessionPerPeer
  <2>7. NoneOutlives'
    BY <1>39 DEF NoneOutlives, PeerRunTypes, GenerationsClose, OneRegistered, Sessions!NoSessionOutlivesServer,
       Sessions!OneSessionPerPeer
  <2>8. JobTypes' /\ SockTypes' /\ WaitTypes' /\ PeerRunTypes' /\ SlotsAddUp' /\ HoldsWhere' /\ AnswerWhere' /\
        SocketWhere' /\ GenerationsClose' /\ StopIsFinal'
    <3>1. UNCHANGED <<cast, job, sock, closedGen, asking, pending, result, failing, slots, gen, peerRun>> BY <1>39
    <3>. QED BY <1>39, <3>1 DEF SockTypes, WaitTypes, PeerRunTypes, SlotsAddUp, HoldsWhere, AnswerWhere, SocketWhere,
         GenerationsClose, StopIsFinal
  <2>. QED BY <2>2, <2>3, <2>4, <2>1, <2>5, <2>6, <2>7, <2>8
<1>. QED BY <1>1, <1>2, <1>3, <1>4, <1>5, <1>6, <1>7, <1>8, <1>9, <1>10, <1>11, <1>12, <1>13, <1>14, <1>15, <1>16,
     <1>17, <1>18, <1>19, <1>20, <1>21, <1>22, <1>23, <1>24, <1>25, <1>26, <1>27, <1>28, <1>29, <1>30, <1>31, <1>32,
     <1>33, <1>34, <1>35, <1>36, <1>37, <1>38, <1>39 DEF Sessions!Next, Sessions!Others, Sessions!Runs, Sessions!Works,
     Sessions!Closes
LEMMA PeerStarts ==
  ASSUME Sessions!Init
  PROVE  PeerInv
<1>. USE DEF Sessions!Init
<1>. DEFINE I == [at |-> "off", type |-> "P", gen |-> 0, conn |-> 0, lead |-> 0, answer |-> 0]
<1>1. /\ cast \in Casts /\ cast.gens \in Nat \ {0} /\ gen = 1 /\ closedGen = 0
      /\ peerRun = [at |-> "serving", cancelled |-> FALSE, stopping |-> FALSE]
BY SessionsAssumption
<1>2. I \in Jobs BY <1>1 DEF Jobs, Numbers, JobPlaces
<1>3. job = [a \in Attempts |-> I] BY IdleForms
<1>4. job \in [Attempts -> Jobs] BY <1>2, <1>3
<1>5. \A a \in Attempts : job[a].at = "off" /\ job[a].conn = 0 /\ job[a].gen = 0 BY <1>3
<1>6. JobTypes BY <1>1, <1>4 DEF JobTypes
<1>7. SockTypes BY DEF SockTypes, Sockets
<1>8. SessTypes /\ WaitTypes BY DEF SessTypes, WaitTypes, Sessions!Nobody, Numbers
<1>9. RegistryTypes BY DEF RegistryTypes, Sessions!Nobody, Sessions!Types, Numbers
<1>10. PeerRunTypes BY <1>1 DEF PeerRunTypes
<1>11. {s \in Attempts : sock[s].lease} = {} OBVIOUS
<1>12. SlotsAddUp
  <2>1. Cardinality({s \in Attempts : sock[s].lease}) = 0 BY <1>11, FS_EmptySet
  <2>2. slots = Slots OBVIOUS
  <2>. QED BY <2>1, <2>2, SessionsAssumption DEF SlotsAddUp
<1>13. HoldsWhere BY <1>5 DEF HoldsWhere
<1>14. AnswerWhere BY DEF AnswerWhere, Sessions!Nobody
<1>15. \A a \in Attempts : ~sock[a].open /\ ~sock[a].lease OBVIOUS
<1>16. SocketWhere /\ SocketsOwned BY <1>15 DEF SocketWhere, SocketsOwned, Sessions!NothingLeaks
<1>17. SessionWhere BY <1>1, <1>5 DEF SessionWhere
<1>18. GenerationsClose /\ StopIsFinal /\ OnlyCallersLeft BY <1>1 DEF GenerationsClose, StopIsFinal, OnlyCallersLeft
<1>19. OneRegistered /\ NoneOutlives
BY DEF OneRegistered, Sessions!OneSessionPerPeer, NoneOutlives, Sessions!NoSessionOutlivesServer
<1>. QED BY <1>6, <1>7, <1>8, <1>9, <1>10, <1>12, <1>13, <1>14, <1>17, <1>18, <1>19, <1>16 DEF PeerInv, PeerTypes
LEMMA PeerStutters ==
  ASSUME PeerInv, UNCHANGED Sessions!vars
  PROVE  PeerInv'
<1>. USE DEF sessionVars, PeerInv
<1>1. UNCHANGED sessionVars BY DEF Sessions!vars
<1>2. PeerTypes' BY <1>1 DEF PeerTypes, JobTypes, SockTypes, SessTypes, RegistryTypes, WaitTypes, PeerRunTypes, Jobs
<1>3. (SlotsAddUp /\ HoldsWhere /\ AnswerWhere /\ SocketWhere)' BY <1>1 DEF SlotsAddUp, HoldsWhere, AnswerWhere, SocketWhere
<1>4. (SessionWhere /\ GenerationsClose /\ StopIsFinal /\ OnlyCallersLeft)'
BY <1>1 DEF SessionWhere, GenerationsClose, StopIsFinal, OnlyCallersLeft, Busy
<1>5. (SocketsOwned /\ OneRegistered /\ NoneOutlives)'
BY <1>1 DEF SocketsOwned, OneRegistered, NoneOutlives, Sessions!NothingLeaks, Sessions!Owned, Sessions!InProgress,
   Sessions!OneSessionPerPeer, Sessions!NoSessionOutlivesServer
<1>. QED BY <1>2, <1>3, <1>4, <1>5

\* However callers, inbound connections, mirrored dials, server sessions and a stop meet: one session of a kind, none of a server
\* session that has ended, and every socket and inbound slot is somebody's to close (Register, CloseGeneration, stopLifecycle).
THEOREM SessionsHold == Sessions!Spec => []SessionsAreSound
<1>. USE DEF PeerInv
<1>1. Sessions!Init => PeerInv BY PeerStarts
<1>2. PeerInv /\ [Sessions!Next]_(Sessions!vars) => PeerInv' BY PeerStep, PeerStutters
<1>3. PeerInv => SessionsAreSound
  <2>1. SUFFICES ASSUME PeerInv PROVE SessionsAreSound OBVIOUS
  <2>2. slots \in 0 .. Slots
    <3>. DEFINE L == {s \in Attempts : sock[s].lease}
    <3>1. IsFiniteSet(L) /\ Cardinality(L) \in Nat BY LeasesFinite
    <3>2. slots >= 0 /\ slots = Slots - Cardinality(L) BY <2>1 DEF SlotsAddUp
    <3>. QED BY <3>1, <3>2, SessionsAssumption
  <2>3. \A a \in Attempts : /\ job[a].type \in {"P", "D"} /\ job[a].gen \in 0 .. cast.gens
                            /\ job[a].conn \in Numbers /\ job[a].lead \in Numbers /\ job[a].answer \in Numbers
    BY <2>1 DEF PeerTypes, JobTypes, Jobs
  <2>4. Sessions!TypeOK
    BY <2>1, <2>2, <2>3 DEF Sessions!TypeOK, PeerTypes, JobTypes, SockTypes, Sockets, SessTypes, RegistryTypes, WaitTypes,
       PeerRunTypes, Numbers, Sessions!Types, Sessions!Nobody, Sessions!Refused
  <2>5. Sessions!NothingLeaks /\ Sessions!OneSessionPerPeer /\ Sessions!NoSessionOutlivesServer
    BY <2>1 DEF SocketsOwned, OneRegistered, NoneOutlives
  <2>6. Sessions!RoomForAnswer BY <2>1 DEF AnswerWhere, Sessions!RoomForAnswer, Sessions!Nobody, PeerTypes, WaitTypes
  <2>7. Sessions!DownIsClean
    <3>1. SUFFICES ASSUME peerRun.at = "down", NEW s \in Attempts, sock[s].open \/ sock[s].lease
          PROVE  \E a \in Attempts : cast.who[a] = "caller" /\ Sessions!InProgress(a)
      BY DEF Sessions!DownIsClean
    <3>2. PICK a \in Attempts : \/ Sessions!InProgress(a) /\ (job[a].conn = s \/ result[a] = s)
                                \/ sess[a] = "live" /\ job[a].conn = s
      BY <2>1, <3>1 DEF SocketsOwned, Sessions!NothingLeaks, Sessions!Owned
    <3>3. Sessions!InProgress(a) /\ cast.who[a] = "caller" BY <2>1, <3>1, <3>2 DEF OnlyCallersLeft, Busy, Sessions!InProgress
    <3>. QED BY <3>3
  <2>. QED BY <2>4, <2>5, <2>6, <2>7 DEF SessionsAreSound, Sessions!SessionsAreSound
<1>. QED BY <1>1, <1>2, <1>3, PTL DEF Sessions!Spec
===============================================================================
