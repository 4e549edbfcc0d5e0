------------------------------- MODULE Messages -------------------------------
(* Private messages as the store keeps and the chat shows them              *)
(* (store/messages.go, observ/messages.go, cmd/slusk/messages.go, main.go). *)
(* The server delivers what was sent to us until it is acknowledged;        *)
(* ServerLink models the queue and the session, and here any such message   *)
(* may arrive again. A row gets its id at the insert and is seen at the     *)
(* commit, so rows appear out of order; a write that is reported as failed  *)
(* may have been committed. One conversation, whose pages are read newest   *)
(* first while messages come and go.                                        *)
EXTENDS Integers, Sequences, FiniteSets

CONSTANTS
  Letters,       \* what was sent to us, by the server's id
  Nameless,      \* those of them that came without an id
  Drafts,        \* what we send
  MessageScopes  \* bounds: failures, size of a page

VARIABLES
  chat,     \* the bounds of this behaviour
  kept,     \* the letters the server still has
  worker,   \* the message worker: its step, its letter, the id of its insert
  draft,    \* draft -> its step and the id of its insert
  left,     \* the drafts that have gone to the server
  rows,     \* the visible rows
  nextId,   \* the identity sequence
  thread    \* the reader: before, what it was shown, what was visible when it began

messageVars == <<chat, kept, worker, draft, left, rows, nextId, thread>>

Idle == [at |-> "idle", letter |-> 0, id |-> 0]
Closed == [at |-> "closed", before |-> 0, shown |-> <<>>, first |-> {}]
Init ==
  /\ chat \in MessageScopes
  /\ kept = Letters /\ worker = Idle /\ draft = [d \in Drafts |-> [at |-> "none", id |-> 0]] /\ left = {}
  /\ rows = {} /\ nextId = 1 /\ thread = Closed

Fails == chat.failures > 0 /\ chat' = [chat EXCEPT !.failures = @ - 1]
Row(direction, of, id) == [direction |-> direction, of |-> of, id |-> id]
RowsUnchanged == UNCHANGED <<rows, nextId>>
MailUnchanged == UNCHANGED <<kept, worker>>
DraftsUnchanged == UNCHANGED <<draft, left>>

(***************************************************************************)
(* Receiving (runMessageWorker, HandlePrivateMessage)                      *)
(***************************************************************************)
Deliver(l) ==
  /\ worker.at = "idle" /\ l \in kept
  /\ worker' = [at |-> "insert", letter |-> l, id |-> 0]
  /\ UNCHANGED <<chat, kept, thread>> /\ DraftsUnchanged /\ RowsUnchanged

\* A server id that is stored already is a success without a row.
IsStored(l) == \E r \in rows : r.direction = "in" /\ r.of = l
Conflicts(l) == IsStored(l) /\ l \notin Nameless
\* Mutant: a letter that is stored already is not acknowledged.
RecordIncomingUnacked ==
  /\ worker.at = "insert"
  /\ worker' = IF Conflicts(worker.letter) THEN Idle ELSE [worker EXCEPT !.at = "commit", !.id = nextId]
  /\ nextId' = IF Conflicts(worker.letter) THEN nextId ELSE nextId + 1
  /\ UNCHANGED <<chat, kept, rows, thread>> /\ DraftsUnchanged
RecordIncoming ==
  /\ worker.at = "insert"
  /\ worker' = [worker EXCEPT !.at = IF Conflicts(worker.letter) THEN "acknowledge" ELSE "commit", !.id = nextId]
  /\ nextId' = nextId + 1
  /\ UNCHANGED <<chat, kept, rows, thread>> /\ DraftsUnchanged
StoreLetter(committed) == rows' = IF committed THEN rows \cup {Row("in", worker.letter, worker.id)} ELSE rows
\* Mutant: a letter that was not committed is acknowledged.
CommitOrAcknowledge ==
  /\ worker.at = "commit"
  /\ \/ StoreLetter(TRUE) /\ UNCHANGED chat
     \/ Fails /\ StoreLetter(FALSE)
  /\ worker' = [worker EXCEPT !.at = "acknowledge"]
  /\ UNCHANGED <<kept, nextId, thread>> /\ DraftsUnchanged
CommitIncoming ==
  /\ worker.at = "commit"
  /\ \/ StoreLetter(TRUE) /\ worker' = [worker EXCEPT !.at = "acknowledge"] /\ UNCHANGED chat
     \/ Fails /\ (\E committed \in BOOLEAN : StoreLetter(committed)) /\ worker' = Idle
  /\ UNCHANGED <<kept, nextId, thread>> /\ DraftsUnchanged
\* To the session the letter came by, which may be gone.
Acknowledge ==
  /\ worker.at = "acknowledge"
  /\ \/ kept' = kept \ {worker.letter} /\ UNCHANGED chat
     \/ Fails /\ UNCHANGED kept
  /\ worker' = Idle
  /\ UNCHANGED thread /\ DraftsUnchanged /\ RowsUnchanged

(***************************************************************************)
(* Sending (sendMessageFn)                                                 *)
(***************************************************************************)
DraftMoves(d, from, to) == draft[d].at = from /\ draft' = [draft EXCEPT ![d].at = to]
SendPrivateMessage(d) ==
  /\ \/ DraftMoves(d, "none", "sent") /\ left' = left \cup {d} /\ UNCHANGED chat
     \/ DraftMoves(d, "none", "failed") /\ Fails /\ UNCHANGED left
  /\ UNCHANGED thread /\ MailUnchanged /\ RowsUnchanged
RecordOutgoing(d) ==
  /\ draft[d].at = "sent"
  /\ draft' = [draft EXCEPT ![d] = [at |-> "commit", id |-> nextId]] /\ nextId' = nextId + 1
  /\ UNCHANGED <<chat, left, rows, thread>> /\ MailUnchanged
StoreDraft(d, committed) == rows' = IF committed THEN rows \cup {Row("out", d, draft[d].id)} ELSE rows
CommitOutgoing(d) ==
  /\ \/ DraftMoves(d, "commit", "answered") /\ StoreDraft(d, TRUE) /\ UNCHANGED chat
     \/ DraftMoves(d, "commit", "failed") /\ Fails /\ \E committed \in BOOLEAN : StoreDraft(d, committed)
  /\ UNCHANGED <<left, nextId, thread>> /\ MailUnchanged

\* A crash ends the worker and the handlers; an insert under way is committed or not.
Crash ==
  /\ Fails /\ worker.at # "idle"
  /\ \E committed \in BOOLEAN : StoreLetter(committed /\ worker.at = "commit")
  /\ worker' = Idle /\ draft' = [d \in Drafts |-> IF draft[d].at \in {"sent", "commit"} THEN [draft[d] EXCEPT !.at = "failed"] ELSE draft[d]]
  /\ thread' = Closed
  /\ UNCHANGED <<kept, left, nextId>>

(***************************************************************************)
(* Reading (Thread, serveThread)                                           *)
(***************************************************************************)
Ids == {r.id : r \in rows}
Below(before) == {i \in Ids : before = 0 \/ i < before}
Largest(S, n) == {i \in S : Cardinality({j \in S : j > i}) < n}
Descending(S) == CHOOSE s \in [1 .. Cardinality(S) -> S] : \A i, j \in 1 .. Cardinality(S) : i < j => s[i] > s[j]
\* One more than fits is read, to know whether there are more.
ServeThread(before, shown, first) ==
  LET read == Largest(Below(before), chat.page + 1)
      more == Cardinality(read) > chat.page
      page == Largest(read, chat.page)
  IN thread' = [at |-> IF more THEN "more" ELSE "end", shown |-> shown \o Descending(page), first |-> first,
                before |-> IF page = {} THEN before ELSE CHOOSE i \in page : \A j \in page : i <= j]
ThreadReads ==
  /\ \/ thread.at = "closed" /\ rows # {} /\ ServeThread(0, <<>>, Ids)
     \/ thread.at = "more" /\ ServeThread(thread.before, thread.shown, thread.first)
  /\ UNCHANGED chat /\ MailUnchanged /\ DraftsUnchanged /\ RowsUnchanged
CloseThread ==
  /\ thread.at = "end" /\ thread' = Closed
  /\ UNCHANGED chat /\ MailUnchanged /\ DraftsUnchanged /\ RowsUnchanged

MessageWorker == RecordIncoming \/ CommitIncoming \/ Acknowledge
Next ==
  \/ MessageWorker \/ Crash \/ ThreadReads \/ CloseThread
  \/ \E l \in Letters : Deliver(l)
  \/ \E d \in Drafts : SendPrivateMessage(d) \/ RecordOutgoing(d) \/ CommitOutgoing(d)

\* The worker goes on, and the server delivers what it keeps at the next login.
MessageFairness == WF_messageVars(MessageWorker) /\ \A l \in Letters : SF_messageVars(Deliver(l))
Spec == Init /\ [][Next]_messageVars /\ MessageFairness

(***************************************************************************)
(* Properties                                                              *)
(***************************************************************************)
\* The types of the variables.
TypeOK ==
  /\ kept \subseteq Letters /\ left \subseteq Drafts /\ nextId \in Nat
  /\ worker.at \in {"idle", "insert", "commit", "acknowledge"}
  /\ \A d \in Drafts : draft[d].at \in {"none", "sent", "commit", "answered", "failed"}
  /\ thread.at \in {"closed", "more", "end"} /\ \A r, s \in rows : r.id = s.id => r = s

\* However often a letter is delivered, whatever became of its write and of its acknowledgement, it has one row; one that came
\* without an id cannot be told from another (RecordIncomingMessage).
StoredOnce == \A r, s \in rows : r.direction = "in" /\ s.direction = "in" /\ r.of = s.of /\ r.of \notin Nameless => r = s

\* What the server has forgotten is stored (the order of runMessageWorker).
ForgottenIsStored == \A l \in Letters \ kept : IsStored(l)

\* main.go:717: no row says "sent" of a message that never left; and who was told it went finds it in the thread.
SentRowsLeft ==
  /\ \A r \in rows : r.direction = "out" => r.of \in left
  /\ \A d \in Drafts : draft[d].at = "answered" => \E r \in rows : r.direction = "out" /\ r.of = d

\* Paged to its end, a thread has shown everything that was there when it was opened, nothing twice and newest first, though
\* rows appeared meanwhile, some below others (Store.Thread: keyset pagination by id).
ThreadIsWhole ==
  /\ \A i, j \in DOMAIN thread.shown : i < j => thread.shown[i] > thread.shown[j]
  /\ thread.at = "end" => thread.first \subseteq {thread.shown[i] : i \in DOMAIN thread.shown}

\* In the end every letter is stored and no longer kept by the server.
LettersArrive == <>[](kept = {})

\* Letters and drafts are stored once and before they are forgotten, and a thread shows them all (runMessageWorker, Thread).
MessagesAreSound == TypeOK /\ StoredOnce /\ ForgottenIsStored /\ SentRowsLeft /\ ThreadIsWhole
=============================================================================
