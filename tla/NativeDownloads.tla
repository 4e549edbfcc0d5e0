-------------------------- MODULE NativeDownloads --------------------------
(***************************************************************************)
(* The native downloader: the registry of transfers, the goroutine of each *)
(* (runDownload, streamFile), the frames and file connections peers send,  *)
(* and the callers' Enqueue, Cancel and Remove.                            *)
(*                                                                         *)
(* A key is a peer and a filename, with a destination file of its own;     *)
(* transfers are numbered as they are made.  One action is one critical    *)
(* section, one system call, or what happens up to the next of these.      *)
(* A file is Size blocks long and holds their numbers: which peer sent a   *)
(* block is not told apart, since byToken knows a file connection by its   *)
(* token alone and two peers may choose the same one.  A partial file is   *)
(* an inode, named after the transfer that created it.                     *)
(* Peer sessions are there or not (PeerSessions has them), a refusal by    *)
(* the peer comes like a time limit, any time; places in the peer's queue  *)
(* and speeds are left out, and paths are safe.                            *)
(* Bounds: MaxTransfers, MaxConns file connections, MaxOffers requests of  *)
(* a peer to transfer; a scope narrows them and says whether the client    *)
(* stops or restarts once, in which of its lives callers remove, and       *)
(* whether callers are orderly: then nobody enqueues a key while it is     *)
(* being removed.                                                          *)
(***************************************************************************)
EXTENDS Integers, Sequences, FiniteSets

CONSTANTS
  Keys, Tokens, Size,
  Scopes,  \* what to explore
  MaxTransfers, MaxConns, MaxOffers  \* bounds

\* A file may be empty (fileconn.go:166); no token and no transfer is 0.
ASSUME DownloadsAssumption ==
  /\ {Size, MaxTransfers, MaxConns, MaxOffers} \subseteq Nat /\ Tokens \subseteq Nat \ {0}
  /\ \A s \in Scopes : /\ s.orderly \in BOOLEAN /\ s.stops \in BOOLEAN /\ s.restarts \in BOOLEAN
                        /\ s.transfers \in 0 .. MaxTransfers /\ s.tokens \subseteq Tokens
                        /\ s.removes \subseteq {"up", "again", "stopping"}

VARIABLES
  life, scope,
  made,     \* transfers made so far
  tr,       \* the transfers and their goroutines
  byKey,    \* downloadRegistry, by (username, filename) and so by id
  byToken,
  hook,     \* the frame each peer's session is handling
  offered,  \* tokens each peer has chosen, and how many requests it has sent
  conns,    \* file connections, with the transfer that holds or will hold each
  removal,  \* Remove of each key; late: a wait of it has timed out
  disk      \* partial files, their inodes, finished files

vars == <<life, scope, made, tr, byKey, byToken, hook, offered, conns, removal, disk>>

Ids == 1 .. MaxTransfers
Conns == 1 .. MaxConns
New == [key |-> {}, state |-> "QUEUED", at |-> "off", ctx |-> FALSE, token |-> 0, req |-> 0,
        waits |-> FALSE, reason |-> "none", off |-> 0, fd |-> 0]
Closed == [at |-> "closed", token |-> 0, tr |-> 0]
NoFrame == [tr |-> 0, token |-> 0]
NoRemoval == [at |-> "idle", tr |-> 0, late |-> FALSE, clean |-> FALSE]
InStream == {"stat", "open", "read", "write", "sync"}  \* streamFile is running
Running(i) == tr[i].at # "off"
KeyOf(i) == CHOOSE k \in Keys : tr[i].key = {k}

Goto(i, at) == tr' = [tr EXCEPT ![i].at = at]

\* The deferred calls of runDownload: the held connection closes, done closes.
Ended(i, s) == [key |-> tr[i].key, state |-> s, at |-> "off", ctx |-> tr[i].ctx, token |-> tr[i].token, req |-> 0,
                waits |-> FALSE, reason |-> "none", off |-> 0, fd |-> 0]
Exit(i, s) ==
  /\ tr' = [tr EXCEPT ![i] = Ended(i, s)]
  /\ conns' = [c \in Conns |-> IF conns[c].at = "held" /\ conns[c].tr = i
                               THEN Closed ELSE conns[c]]

\* setTransferErrored, and finishInterrupted, which leaves a cancel alone.
Errored(i) == Exit(i, "ERRORED")
Interrupted(i) == Exit(i, IF tr[i].state = "CANCELLED" THEN "CANCELLED" ELSE "ERRORED")

RunUnchanged == UNCHANGED <<life, scope, made, byKey, byToken, hook, offered, removal>>
Stays == UNCHANGED <<conns, disk>>

(*************************************************************************)
(* The callers.                                                          *)
(*************************************************************************)
CallUnchanged == UNCHANGED <<life, scope, hook, offered, conns, byToken>>

\* A registered key starts nothing, whatever its state.
Enqueue(k) ==
  /\ byKey[k] = 0 /\ made < scope.transfers
  /\ scope.orderly => removal[k].at = "idle"
  /\ made' = made + 1
  /\ tr' = [tr EXCEPT ![made + 1] = [New EXCEPT !.key = {k}, !.at = "made", !.ctx = life = "stopping"]]
  /\ byKey' = [byKey EXCEPT ![k] = made + 1]
  /\ removal' = [removal EXCEPT ![k].clean = FALSE]
  /\ CallUnchanged /\ UNCHANGED disk

\* startTracked refuses when the client is stopping.
StartDownload(i) ==
  /\ tr[i].at = "made"
  /\ IF life # "stopping"
     THEN Goto(i, "connect") /\ UNCHANGED <<byKey, byToken, conns>>
     ELSE /\ Errored(i)
          /\ byKey' = [k \in Keys |-> IF byKey[k] = i THEN 0 ELSE byKey[k]]
          /\ byToken' = [t \in Tokens |-> IF byToken[t] = i THEN 0 ELSE byToken[t]]
  /\ UNCHANGED <<life, scope, made, hook, offered, removal, disk>>

MarkCancelled(i) ==
  tr' = [tr EXCEPT ![i].state = IF @ = "COMPLETED" THEN @ ELSE "CANCELLED", ![i].ctx = TRUE]

Cancel(k) ==
  /\ byKey[k] # 0 /\ tr[byKey[k]].state \notin {"COMPLETED", "CANCELLED"}
  /\ MarkCancelled(byKey[k])
  /\ CallUnchanged /\ UNCHANGED <<made, byKey, removal, disk>>

RemoveBegins(k) ==
  /\ removal[k].at = "idle" /\ byKey[k] # 0 /\ life \in scope.removes
  /\ MarkCancelled(byKey[k])
  /\ removal' = [removal EXCEPT ![k].at = "forget", ![k].tr = byKey[k]]
  /\ CallUnchanged /\ UNCHANGED <<made, byKey, disk>>

RemoveForgets(k) ==
  /\ removal[k].at = "forget"
  /\ removal' = [removal EXCEPT ![k].at = "drain"]
  /\ byKey' = [byKey EXCEPT ![k] = 0]
  /\ byToken' = [t \in Tokens |-> IF byToken[t] = removal[k].tr /\ tr[removal[k].tr].token = t THEN 0 ELSE byToken[t]]
  /\ UNCHANGED <<life, scope, hook, offered, conns, made, tr, disk>>

\* Mutant: the partial file goes without waiting for the goroutine.
RemoveHurries(k) ==
  /\ removal[k].at = "drain"
  /\ removal' = [removal EXCEPT ![k].at = "unlink"]
  /\ CallUnchanged /\ UNCHANGED <<made, tr, byKey, disk>>

\* The wait for the goroutine ends, or has timed out; by then the watcher of
\* a stream has closed its connection.
RemoveDrains(k) ==
  /\ removal[k].at = "drain"
  /\ \A c \in Conns : ~(conns[c].at = "held" /\ conns[c].tr = removal[k].tr /\ tr[removal[k].tr].at \in InStream)
  /\ removal' = [removal EXCEPT ![k].at = "unlink", ![k].late = @ \/ Running(removal[k].tr)]
  /\ CallUnchanged /\ UNCHANGED <<made, tr, byKey, disk>>

RemoveUnlinks(k) ==
  /\ removal[k].at = "unlink"
  /\ disk' = [disk EXCEPT !.part[k] = 0]
  /\ removal' = [removal EXCEPT ![k] = [at |-> "idle", tr |-> 0, late |-> @.late, clean |-> byKey[k] = 0 /\ ~@.late]]
  /\ CallUnchanged /\ UNCHANGED <<made, tr, byKey>>

Remove(k) == RemoveBegins(k) \/ RemoveForgets(k) \/ RemoveDrains(k) \/ RemoveUnlinks(k)

(*************************************************************************)
(* Frames of the peer's session (downloadSessionHooks.frame).            *)
(*************************************************************************)
FrameUnchanged == UNCHANGED <<life, scope, made, byKey, conns, removal, disk>>

\* The transfer is looked up first.
TransferRequest(k) ==
  /\ hook[k].tr = 0 /\ byKey[k] # 0 /\ offered[k].sent < MaxOffers
  /\ \E t \in scope.tokens :
       /\ hook' = [hook EXCEPT ![k] = [tr |-> byKey[k], token |-> t]]
       /\ offered' = [offered EXCEPT ![k].tokens = @ \cup {t}, ![k].sent = @ + 1]
  /\ FrameUnchanged /\ UNCHANGED <<tr, byToken>>

\* registerToken, and the delivery that a full channel drops.
RegisterToken(k) ==
  /\ hook[k].tr # 0
  /\ \E i \in {hook[k].tr}, t \in {hook[k].token} :
       /\ byToken' = [u \in Tokens |-> IF u = t THEN i ELSE IF u = tr[i].token /\ byToken[u] = i THEN 0 ELSE byToken[u]]
       /\ tr' = [tr EXCEPT ![i].token = t, ![i].req = IF Running(i) /\ @ = 0 THEN t ELSE @]
  /\ hook' = [hook EXCEPT ![k] = NoFrame]
  /\ FrameUnchanged /\ UNCHANGED offered

Frame(k) == TransferRequest(k) \/ RegisterToken(k)

(*************************************************************************)
(* File connections (handleInboundFileConn).                             *)
(*************************************************************************)
ConnUnchanged == UNCHANGED <<life, scope, made, tr, byKey, hook, offered, removal, disk>>

OpenFileConn(k, c) ==
  /\ conns[c].at = "none" /\ \A d \in 1 .. c - 1 : conns[d].at # "none"
  /\ \E t \in offered[k].tokens : conns' = [conns EXCEPT ![c] = [at |-> "opened", token |-> t, tr |-> 0]]
  /\ ConnUnchanged /\ UNCHANGED byToken

\* claimByToken; without a transfer the socket is closed.
ClaimByToken(c) ==
  /\ conns[c].at = "opened"
  /\ \E i \in {byToken[conns[c].token]} :
       conns' = [conns EXCEPT ![c] = IF i = 0 THEN Closed ELSE [at |-> "claimed", token |-> 0, tr |-> i]]
  /\ byToken' = [byToken EXCEPT ![conns[c].token] = 0]
  /\ ConnUnchanged

\* Only a goroutine that is waiting gets the connection.
AttachFileConn(c) ==
  /\ conns[c].at = "claimed"
  /\ conns' = IF tr[conns[c].tr].waits /\ \A d \in Conns : conns[d].at = "waiting" => conns[d].tr # conns[c].tr
              THEN [conns EXCEPT ![c].at = "waiting"] ELSE [conns EXCEPT ![c] = Closed]
  /\ ConnUnchanged /\ UNCHANGED byToken

FileConn(c) == ClaimByToken(c) \/ AttachFileConn(c)

(*************************************************************************)
(* runDownload.                                                          *)
(*************************************************************************)
\* The session with the peer and the request to queue the file.
ConnectPeer(i) ==
  /\ tr[i].at = "connect"
  /\ \/ ~tr[i].ctx /\ Goto(i, "queued") /\ UNCHANGED conns
     \/ Errored(i)
  /\ RunUnchanged /\ UNCHANGED disk

WaitInQueue(i) ==
  /\ tr[i].at = "queued"
  /\ \/ tr[i].req # 0 /\ tr' = [tr EXCEPT ![i].at = "accept", ![i].req = 0] /\ UNCHANGED conns
     \/ Errored(i)                       \* failCh, or the time limit
     \/ tr[i].ctx /\ Interrupted(i)
  /\ RunUnchanged /\ UNCHANGED disk

\* The session again; then a file connection may come.
AwaitFileConn(i) ==
  /\ tr[i].at = "accept"
  /\ \/ ~tr[i].ctx /\ tr' = [tr EXCEPT ![i].at = "send", ![i].waits = TRUE] /\ UNCHANGED conns
     \/ Errored(i)
  /\ RunUnchanged /\ UNCHANGED disk

GivesUp(i, reason) == tr' = [tr EXCEPT ![i].at = "give_up", ![i].reason = reason] /\ UNCHANGED conns

\* The accept cannot be sent, or the declared size is out of range.
SendTransferAccept(i) ==
  /\ tr[i].at = "send"
  /\ \/ Goto(i, "negotiate") /\ UNCHANGED conns
     \/ GivesUp(i, "errored")
  /\ RunUnchanged /\ UNCHANGED disk

Negotiate(i) ==
  /\ tr[i].at = "negotiate"
  /\ \/ \E c \in Conns : /\ conns[c].at = "waiting" /\ conns[c].tr = i
                         /\ conns' = [conns EXCEPT ![c].at = "held"]
                         /\ Goto(i, "took")
     \/ GivesUp(i, "errored")            \* failCh, or the time limit
     \/ tr[i].ctx /\ GivesUp(i, "interrupted")
  /\ RunUnchanged /\ UNCHANGED disk

\* What stopAwaitingFileConn hands back is closed.
Leftover(i) == [c \in Conns |-> IF conns[c].at \in {"waiting", "held"} /\ conns[c].tr = i
                                THEN Closed ELSE conns[c]]

GiveUp(i) ==
  /\ tr[i].at = "give_up"
  /\ conns' = Leftover(i)
  /\ tr' = [tr EXCEPT ![i] = Ended(i, IF tr[i].reason = "interrupted" /\ tr[i].state = "CANCELLED" THEN "CANCELLED" ELSE "ERRORED")]
  /\ RunUnchanged /\ UNCHANGED disk

StopAwaiting(i) ==
  /\ tr[i].at = "took"
  /\ tr' = [tr EXCEPT ![i].at = "start", ![i].waits = FALSE, ![i].req = 0]
  /\ conns' = [c \in Conns |-> IF conns[c].at = "waiting" /\ conns[c].tr = i
                               THEN Closed ELSE conns[c]]
  /\ RunUnchanged /\ UNCHANGED disk

\* Mutant: a transfer that was cancelled in the queue starts all the same.
StartAlways(i) ==
  /\ tr[i].at = "start"
  /\ tr' = [tr EXCEPT ![i].at = "stat", ![i].state = "IN_PROGRESS"]
  /\ RunUnchanged /\ Stays

StartStream(i) ==
  /\ tr[i].at = "start"
  /\ IF tr[i].state = "CANCELLED" THEN Exit(i, "CANCELLED")
     ELSE tr' = [tr EXCEPT ![i].at = "stat", ![i].state = "IN_PROGRESS"] /\ UNCHANGED conns
  /\ RunUnchanged /\ UNCHANGED disk

\* Cancel closes the connection under the stream.
CloseOnCancel(c) ==
  /\ conns[c].at = "held" /\ tr[conns[c].tr].at \in InStream /\ tr[conns[c].tr].ctx
  /\ conns' = [conns EXCEPT ![c].at = "cut"]
  /\ UNCHANGED <<life, scope, made, tr, byKey, byToken, hook, offered, removal, disk>>

(*************************************************************************)
(* streamFile.                                                           *)
(*************************************************************************)
Source(i) == {c \in Conns : conns[c].at = "held" /\ conns[c].tr = i}
Release(i) == [c \in Conns |-> IF conns[c].at \in {"held", "cut"} /\ conns[c].tr = i
                               THEN Closed ELSE conns[c]]

\* A stream that fails because of the cancel is interrupted.
Fails(i) ==
  /\ conns' = Release(i)
  /\ tr' = [tr EXCEPT ![i] = Ended(i, IF tr[i].ctx /\ tr[i].state = "CANCELLED" THEN "CANCELLED" ELSE "ERRORED")]

Put(k) == [disk EXCEPT !.whole[k] = disk.part[k], !.part[k] = 0]

\* Where to resume; an oversized partial file is discarded, a full one is
\* renamed without asking the peer for anything.  An empty file that has no
\* partial one goes the long way.
PartSize(k) == IF disk.part[k] = 0 THEN 0 ELSE Len(disk.data[disk.part[k]])
IsFull(k) == disk.part[k] # 0 /\ PartSize(k) = Size
ResumeOffset(i) ==
  /\ tr[i].at = "stat"
  /\ \E k \in {KeyOf(i)} :
       \/ /\ ~IsFull(k)
          /\ tr' = [tr EXCEPT ![i].at = "open", ![i].off = IF PartSize(k) > Size THEN 0 ELSE PartSize(k)]
          /\ disk' = IF PartSize(k) > Size THEN [disk EXCEPT !.part[k] = 0] ELSE disk
          /\ UNCHANGED conns
       \/ IsFull(k) /\ Goto(i, "complete") /\ disk' = Put(k) /\ UNCHANGED conns
       \/ Fails(i) /\ UNCHANGED disk
  /\ RunUnchanged

\* The offset goes to the peer first; the file is opened for appending.
OpenPart(i) ==
  /\ tr[i].at = "open"
  /\ \/ /\ Source(i) # {}
        /\ \E k \in {KeyOf(i)} :
             /\ tr' = [tr EXCEPT ![i].at = IF tr[i].off = Size THEN "sync" ELSE "read",
                                 ![i].fd = IF disk.part[k] = 0 THEN i ELSE disk.part[k]]
             /\ disk' = [disk EXCEPT !.part[k] = IF @ = 0 THEN i ELSE @]
        /\ UNCHANGED conns
     \/ Fails(i) /\ UNCHANGED disk
  /\ RunUnchanged

ReadBlock(i) ==
  /\ tr[i].at = "read" /\ tr[i].off < Size
  /\ \/ Source(i) # {} /\ tr' = [tr EXCEPT ![i].at = "write", ![i].off = tr[i].off + 1] /\ UNCHANGED conns
     \/ Fails(i)
  /\ RunUnchanged /\ UNCHANGED disk

\* The connection brings the block at the offset.
WriteBlock(i) ==
  /\ tr[i].at = "write"
  /\ \/ /\ \E c \in Conns : conns[c].tr = i /\ conns[c].at \in {"held", "cut"}
        /\ disk' = [disk EXCEPT !.data[tr[i].fd] = Append(@, tr[i].off)]
        /\ Goto(i, IF tr[i].off = Size THEN "sync" ELSE "read")
        /\ UNCHANGED conns
     \/ Fails(i) /\ UNCHANGED disk
  /\ RunUnchanged

\* Sync, close, rename.
RenamePart(i) ==
  /\ tr[i].at = "sync"
  /\ \/ \E k \in {KeyOf(i)} : disk.part[k] # 0 /\ disk' = Put(k) /\ Goto(i, "complete") /\ UNCHANGED conns
     \/ Fails(i) /\ UNCHANGED disk
  /\ RunUnchanged

Complete(i) ==
  /\ tr[i].at = "complete"
  /\ conns' = Release(i)
  /\ tr' = [tr EXCEPT ![i] = Ended(i, IF tr[i].state = "CANCELLED" THEN "CANCELLED" ELSE "COMPLETED")]
  /\ RunUnchanged /\ UNCHANGED disk

StreamFile(i) == ResumeOffset(i) \/ OpenPart(i) \/ ReadBlock(i) \/ WriteBlock(i) \/ RenamePart(i) \/ Complete(i)
RunDownload(i) ==
  \/ ConnectPeer(i) \/ WaitInQueue(i) \/ AwaitFileConn(i) \/ SendTransferAccept(i) \/ Negotiate(i)
  \/ GiveUp(i) \/ StopAwaiting(i) \/ StartStream(i) \/ StreamFile(i)

\* The client's context is cancelled; startTracked refuses from then on.
StopLifecycle ==
  /\ life = "up" /\ scope.stops
  /\ life' = "stopping"
  /\ tr' = [i \in Ids |-> IF Running(i) THEN [tr[i] EXCEPT !.ctx = TRUE] ELSE tr[i]]
  /\ UNCHANGED <<scope, made, byKey, byToken, hook, offered, conns, removal, disk>>

\* Another process: what is in memory is gone, what is on disk stays.
Restart ==
  /\ life = "up" /\ scope.restarts
  /\ life' = "again"
  /\ tr' = [i \in Ids |-> [New EXCEPT !.key = tr[i].key]]
  /\ byKey' = [k \in Keys |-> 0] /\ byToken' = [t \in Tokens |-> 0]
  /\ hook' = [k \in Keys |-> NoFrame] /\ offered' = [k \in Keys |-> [offered[k] EXCEPT !.tokens = {}]]
  /\ conns' = [c \in Conns |-> IF conns[c].at = "none" THEN conns[c] ELSE Closed]
  /\ removal' = [k \in Keys |-> NoRemoval]
  /\ UNCHANGED <<scope, made, disk>>

Init ==
  /\ life = "up" /\ scope \in Scopes /\ made = 0 /\ tr = [i \in Ids |-> New]
  /\ byKey = [k \in Keys |-> 0] /\ byToken = [t \in Tokens |-> 0]
  /\ hook = [k \in Keys |-> NoFrame]
  /\ offered = [k \in Keys |-> [tokens |-> {}, sent |-> 0]]
  /\ conns = [c \in Conns |-> [at |-> "none", token |-> 0, tr |-> 0]]
  /\ removal = [k \in Keys |-> NoRemoval]
  /\ disk = [part |-> [k \in Keys |-> 0], data |-> [i \in Ids |-> <<>>], whole |-> [k \in Keys |-> 0]]

Next ==
  \/ \E k \in Keys : Enqueue(k) \/ Cancel(k) \/ Remove(k) \/ Frame(k) \/ \E c \in Conns : OpenFileConn(k, c)
  \/ \E c \in Conns : FileConn(c) \/ CloseOnCancel(c)
  \/ \E i \in Ids : StartDownload(i) \/ RunDownload(i)
  \/ StopLifecycle \/ Restart

Fairness == \A i \in Ids : WF_vars(StartDownload(i) \/ RunDownload(i))
Spec == Init /\ [][Next]_vars /\ Fairness
-----------------------------------------------------------------------------
TypeOK ==
  /\ life \in {"up", "again", "stopping"} /\ made \in 0 .. MaxTransfers /\ scope \in Scopes
  /\ \A i \in Ids : /\ tr[i].state \in {"QUEUED", "IN_PROGRESS", "COMPLETED", "ERRORED", "CANCELLED"}
                    /\ tr[i].token \in Tokens \cup {0} /\ tr[i].req \in Tokens \cup {0} /\ tr[i].off \in 0 .. Size
                    /\ tr[i].fd \in 0 .. made
  /\ byKey \in [Keys -> 0 .. made] /\ byToken \in [Tokens -> 0 .. made]
  /\ \A i \in Ids : Cardinality({c \in Conns : conns[c].at = "waiting" /\ conns[c].tr = i}) <= 1
  /\ \A c \in Conns : conns[c].at \in {"none", "opened", "claimed", "waiting", "held", "cut", "closed"}
  /\ \A k \in Keys : disk.part[k] \in 0 .. made /\ disk.whole[k] \in 0 .. made

\* A file connection is open only while its handler or a running goroutine is
\* going to deal with it: none is left in the channel of a transfer that has
\* given up, with the lease that counts against the inbound limit.
NoConnLeaks ==
  \A c \in Conns : conns[c].at \in {"waiting", "held", "cut"} => Running(conns[c].tr)

\* A completed transfer's file is whole, every block once and in its place,
\* however often the download was cut off, cancelled, removed and resumed.
Intact(k) == disk.whole[k] # 0 /\ disk.data[disk.whole[k]] = [n \in 1 .. Size |-> n]
FileIntact == \A k \in Keys : (byKey[k] # 0 /\ tr[byKey[k]].state = "COMPLETED") => Intact(k)

\* After a Remove that did not time out there is no partial file, and none
\* appears until the key is enqueued again.
NoPartAfterRemove == \A k \in Keys : removal[k].clean => disk.part[k] = 0

\* Two goroutines never work on one destination, unless a Remove gave up
\* waiting for the first.
OneOrchestration ==
  \A k \in Keys : ~removal[k].late => \A i, j \in Ids : (tr[i].key = {k} /\ tr[j].key = {k} /\ Running(i) /\ Running(j)) => i = j

\* The refinement: what ListDownloads shows, and the file in place.
View == [k \in Keys |-> IF byKey[k] = 0 THEN "NONE" ELSE tr[byKey[k]].state]
Abstract == INSTANCE RemoteTransfers WITH state <- View, stored <- [k \in Keys |-> Intact(k)]
ImplementsTransfers == Abstract!Backend

\* Of a download's file, its goroutine and its connection: the file is whole, one goroutine writes it, nothing of it appears
\* after a Remove, and no connection is left open (runDownload, Remove).
DownloadsAreSound == TypeOK /\ NoConnLeaks /\ FileIntact /\ NoPartAfterRemove /\ OneOrchestration
=============================================================================
