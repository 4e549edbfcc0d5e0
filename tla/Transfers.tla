----------------------------- MODULE Transfers -----------------------------
(***************************************************************************)
(* The files of one download between the store and the peer backend: the   *)
(* write-ahead hand-over of topUpCandidate, the reconcile pass of          *)
(* Downloading against a list of the backend's transfers it read before,   *)
(* the two-phase fail of resolve, and the user's cancel.                   *)
(*                                                                         *)
(* One action is one transaction or one call of the backend.  Two          *)
(* goroutines hand files over, Selecting right after it has activated a    *)
(* candidate and Downloading at the end of its tick; only Downloading      *)
(* reconciles.  What they have read is kept in top and dl until it is      *)
(* acted on.                                                               *)
(*                                                                         *)
(* Abstractions.  One job that downloads one release, again in each        *)
(* attempt; bytes are not counted, a transfer may have stalled or not      *)
(* whenever it has a stall clock.  A remote transfer is found by its       *)
(* (username, filename), which the native backend derives its ids from;    *)
(* sid says whether the row knows the id.  Filenames are safe, so that the *)
(* native Enqueue does not refuse one.  Between a retry and the next       *)
(* activation there are no rows.  Folder reservation is in AlbumJobs, and  *)
(* so is a manual job that ends without an import.  Faults (restarts,      *)
(* aborted ticks, failing writes) are bounded by MaxFaults and attempts by *)
(* MaxAttempts.                                                            *)
(***************************************************************************)
EXTENDS Integers, FiniteSets

CONSTANTS
  Files,               \* the files of the release, numbered in filename order
  None,                \* no file
  MaxTransferRetries, MaxInflightPerPeer,  \* internal/config
  Native,              \* TRUE: internal/soulseek; FALSE: slskd, over HTTP
  Manual,              \* the job has source 'manual'
  MaxAttempts, MaxFaults  \* bounds

ASSUME TransfersAssumption ==
  /\ Files # {} /\ Files \subseteq Nat /\ IsFiniteSet(Files) /\ None \notin Files
  /\ Native \in BOOLEAN /\ Manual \in BOOLEAN
  /\ MaxTransferRetries \in Nat /\ MaxInflightPerPeer \in Nat \ {0}
  /\ MaxAttempts \in Nat \ {0} /\ MaxFaults \in Nat

VARIABLES
  job,        \* album_jobs.state
  row,        \* transfers: state, slskd_id known, retries, past its deadline,
              \* last_progress_at set
  attempt,    \* which activation the rows belong to: older row ids are gone
  candidate,  \* the candidate's id; a retried manual job keeps it
  remote,     \* the backend's record of each file
  top,        \* topUpCandidate of either goroutine
  dl,         \* the reconcile and resolve phases of Downloading's tick
  cancelling, \* remote ids the user's cancel has captured and still to cancel
  faults

vars == <<job, row, attempt, candidate, remote, top, dl, cancelling, faults>>

Sent == {"QUEUED", "IN_PROGRESS", "STALLED"}
Live == Sent \cup {"PENDING"}
Settled == {"COMPLETED", "ERRORED", "CANCELLED"}
Row == [st : Live \cup Settled, sid : BOOLEAN, retries : 0 .. MaxTransferRetries + 1,
        late : BOOLEAN, clock : BOOLEAN]
PendingRow == [st |-> "PENDING", sid |-> FALSE, retries |-> 0, late |-> FALSE, clock |-> FALSE]
PendingRows == [f \in Files |-> PendingRow]

\* ERRORED remotely is retryable or not (core.RemoteTransfer.Retryable).
\* STOPPING is a cancelled native download whose goroutine has not ended.
Running == {"QUEUED", "IN_PROGRESS"}
Ended == {"COMPLETED", "REJECTED", "FAILED", "CANCELLED"}
Remote == Running \cup Ended \cup {"STOPPING", "NONE"}
NoRemote == [f \in Files |-> "NONE"]

Goroutines == {"selecting", "downloading"}
Attempts == 0 .. MaxAttempts
RetriesRead == [Files -> 0 .. MaxTransferRetries + 1]
NoRetries == [f \in Files |-> 0]

TopIdle == [pc |-> "idle", todo |-> {}, room |-> 0, f |-> None, retries |-> NoRetries,
            attempt |-> 0, candidate |-> 0]
TopTicks ==
  [pc : {"idle", "read", "intent", "enqueue", "refused", "attach", "compensate"},
   todo : SUBSET Files, room : 0 .. MaxInflightPerPeer, f : Files \cup {None},
   retries : RetriesRead, attempt : Attempts, candidate : Attempts]

\* live and rows are what the tick has read; loop is the row loop it is in,
\* pc where it is with file f of it.
DlIdle == [pc |-> "idle", loop |-> "none", live |-> NoRemote, rows |-> PendingRows,
           todo |-> {}, handled |-> {}, f |-> None, attempt |-> 0, candidate |-> 0]
DlTicks ==
  [pc : {"idle", "listed", "row", "compensate", "cancelled", "stalled", "finish",
         "purge", "resolve", "siblings", "failed", "cleaned", "done", "topup"},
   loop : {"none", "overdue", "active"}, live : [Files -> Remote], rows : [Files -> Row],
   todo : SUBSET Files, handled : SUBSET Files, f : Files \cup {None},
   attempt : Attempts, candidate : Attempts]

TypeOK ==
  /\ job \in {"SELECTING", "DOWNLOADING", "IMPORTING", "PARKED", "CANCELLED"}
  /\ row \in [Files -> Row] /\ remote \in [Files -> Remote]
  /\ attempt \in 1 .. MaxAttempts /\ candidate \in 1 .. MaxAttempts
  /\ top \in [Goroutines -> TopTicks] /\ dl \in DlTicks
  /\ cancelling \subseteq Files /\ faults \in 0 .. MaxFaults

-----------------------------------------------------------------------------
(* The store *)

\* A transfer that has failed may be retried.
WithinBudget(r) == r < MaxTransferRetries

\* UpdateTransferProgress and RetryTransfer: a live row of this id whose job
\* is not CANCELLED.
Writable(f, a) == a = attempt /\ row[f].st \in Live /\ job # "CANCELLED"

UpdateTransferProgress(f, a, st) ==
  row' = IF Writable(f, a)
           THEN [row EXCEPT ![f].st = st, ![f].clock = @ \/ st = "IN_PROGRESS"]
           ELSE row

RetryTransfer(f, a) ==
  row' = IF Writable(f, a)
           THEN [row EXCEPT ![f] = [row[f] EXCEPT !.st = "PENDING", !.sid = FALSE,
                                             !.retries = @ + 1, !.clock = FALSE]]
           ELSE row

\* ParkJobForCandidate: the row is written whatever the job's state.
ParkJobForCandidate(f, a) ==
  IF a = attempt /\ row[f].st \in Live
    THEN /\ row' = [row EXCEPT ![f].st = "ERRORED"]
         /\ job' = IF job = "DOWNLOADING" THEN "PARKED" ELSE job
    ELSE UNCHANGED <<row, job>>

\* Mutant: a settled row is sent again.
RecordableAlways(f, c) == c = candidate /\ job # "CANCELLED"
\* RecordEnqueueIntent: by candidate and file, not by row id.
Recordable(f, c) ==
  /\ c = candidate /\ job # "CANCELLED" /\ row[f].st \in Live

RecordEnqueueIntent(f) ==
  row' = [row EXCEPT ![f] = [row[f] EXCEPT !.st = "QUEUED", !.sid = FALSE, !.late = FALSE]]

\* AttachTransferID: any live row of this id, PENDING ones included.
Attachable(f, a) == a = attempt /\ row[f].st \in Live /\ job # "CANCELLED"

-----------------------------------------------------------------------------
(* The backend, as the pipeline sees it. Native: calls do not fail while     *)
(* the record exists. slskd: any call may fail, and it may lose its list.    *)

\* Enqueue returns an existing record. The native one returns an ended one
\* too (insertIfAbsent); slskd starts again.
EnqueueRemote(f) ==
  remote' = [remote EXCEPT ![f] =
    IF @ = "NONE" \/ (~Native /\ @ \in Ended) THEN "QUEUED" ELSE @]

CanCancel(f) == remote[f] # "NONE"
CancelMayFail(f) == ~Native \/ remote[f] = "NONE"
\* A completed download keeps its state; the native one overwrites a failure.
CancelRemote(f) ==
  remote' = [remote EXCEPT ![f] =
    IF @ \in Running THEN (IF Native THEN "STOPPING" ELSE "CANCELLED")
    ELSE IF Native /\ @ \in {"REJECTED", "FAILED"} THEN "CANCELLED" ELSE @]
\* A compensating or best-effort cancel: its failure is only logged.
TryCancelRemote(f) ==
  \/ CanCancel(f) /\ CancelRemote(f)
  \/ CancelMayFail(f) /\ UNCHANGED remote
RemoveRemote(f) ==
  \/ remote' = [remote EXCEPT ![f] = "NONE"]
  \/ ~Native /\ UNCHANGED remote

\* The peer starts, finishes, rejects or breaks off an upload; a slskd user
\* may cancel one by hand. A cancelled native download that fails before it
\* sees the cancellation is overwritten by setTransferErrored.
RemoteStep(f) ==
  /\ \/ remote[f] = "QUEUED" /\ remote' = [remote EXCEPT ![f] = "IN_PROGRESS"]
     \/ remote[f] = "IN_PROGRESS" /\ remote' = [remote EXCEPT ![f] = "COMPLETED"]
     \/ /\ remote[f] \in Running
        /\ \E e \in {"REJECTED", "FAILED"} : remote' = [remote EXCEPT ![f] = e]
     \/ /\ ~Native /\ remote[f] \in Running
        /\ remote' = [remote EXCEPT ![f] = "CANCELLED"]
     \/ /\ remote[f] = "STOPPING"
        /\ \E e \in {"CANCELLED", "REJECTED", "FAILED"} : remote' = [remote EXCEPT ![f] = e]
  /\ UNCHANGED <<job, row, attempt, candidate, top, dl, cancelling, faults>>

-----------------------------------------------------------------------------
(* topUpCandidate *)

TopUnchanged == UNCHANGED <<job, attempt, candidate, dl, cancelling, faults>>

\* Mutant: the pending files are not sorted.
FirstUnsorted(files) == files
\* Files are handed over in filename order.
First(files) == {f \in files : \A g \in files : f <= g}

\* The room is what the rows read leave of the budget.
TopRead(g) ==
  LET inflight == Cardinality({f \in Files : row[f].st \in Sent})
  IN /\ top[g].pc = "read"
     /\ top' = IF top[g].candidate # candidate THEN [top EXCEPT ![g] = TopIdle]
               ELSE [top EXCEPT ![g] = [top[g] EXCEPT
                 !.pc = "intent", !.todo = {f \in Files : row[f].st = "PENDING"},
                 !.room = IF inflight >= MaxInflightPerPeer THEN 0
                          ELSE MaxInflightPerPeer - inflight,
                 !.retries = [f \in Files |-> row[f].retries]]]
     /\ UNCHANGED <<row, remote>> /\ TopUnchanged

\* Selecting activates the candidate (again) and tops it up. What leads back
\* to the same release (a search, the user's retry) is AlbumJobs.
NextAttempt ==
  /\ attempt < MaxAttempts /\ top["selecting"].pc = "idle"
  /\ job \in {"SELECTING", "PARKED", "CANCELLED"} /\ (Manual => job # "CANCELLED")
  /\ job' = "DOWNLOADING" /\ row' = PendingRows
  /\ attempt' = attempt + 1
  /\ candidate' = IF Manual THEN candidate ELSE candidate + 1
  /\ top' = [top EXCEPT !["selecting"] =
       [TopIdle EXCEPT !.pc = "read", !.candidate = candidate']]
  /\ UNCHANGED <<remote, dl, cancelling, faults>>

TopIntent(g, f) ==
  /\ top[g].pc = "intent" /\ f \in First(top[g].todo) /\ top[g].room > 0
  /\ IF Recordable(f, top[g].candidate)
       THEN /\ RecordEnqueueIntent(f)
            /\ top' = [top EXCEPT ![g] = [top[g] EXCEPT !.pc = "enqueue", !.f = f,
                                 !.todo = @ \ {f}, !.attempt = attempt]]
       ELSE top' = [top EXCEPT ![g] = TopIdle] /\ UNCHANGED row
  /\ UNCHANGED remote /\ TopUnchanged

TopEnqueue(g) ==
  /\ top[g].pc = "enqueue"
  /\ \/ /\ EnqueueRemote(top[g].f)
        /\ top' = [top EXCEPT ![g].pc = "attach"]
     \/ /\ ~Native
        /\ top' = [top EXCEPT ![g].pc = "refused"] /\ UNCHANGED remote
  /\ UNCHANGED row /\ TopUnchanged

\* Enqueue returned an error: back to PENDING, or ERRORED when the retries
\* read at the start of the top-up are spent.
TopRefused(g) ==
  LET f == top[g].f
  IN /\ top[g].pc = "refused"
     /\ IF WithinBudget(top[g].retries[f])
          THEN RetryTransfer(f, top[g].attempt)
          ELSE UpdateTransferProgress(f, top[g].attempt, "ERRORED")
     /\ top' = [top EXCEPT ![g] = [top[g] EXCEPT !.pc = "intent", !.f = None]]
     /\ UNCHANGED remote /\ TopUnchanged

\* slskd's answer may carry no id.
TopAttach(g) ==
  LET f == top[g].f
  IN /\ top[g].pc = "attach"
     /\ IF Attachable(f, top[g].attempt)
          THEN /\ \E id \in {TRUE, Native} : row' = [row EXCEPT ![f].sid = id]
               /\ top' = [top EXCEPT ![g] = [top[g] EXCEPT !.pc = "intent", !.f = None,
                                                       !.room = @ - 1]]
          ELSE top' = [top EXCEPT ![g].pc = "compensate"] /\ UNCHANGED row
     /\ UNCHANGED remote /\ TopUnchanged

TopCompensate(g) ==
  /\ top[g].pc = "compensate" /\ TryCancelRemote(top[g].f)
  /\ top' = [top EXCEPT ![g] = TopIdle]
  /\ UNCHANGED row /\ TopUnchanged

TopEnd(g) ==
  /\ top[g].pc = "intent" /\ (top[g].todo = {} \/ top[g].room = 0)
  /\ top' = [top EXCEPT ![g] = TopIdle]
  /\ UNCHANGED <<row, remote>> /\ TopUnchanged

TopUp(g) ==
  \/ TopRead(g) \/ \E f \in Files : TopIntent(g, f)
  \/ TopEnqueue(g) \/ TopRefused(g) \/ TopAttach(g) \/ TopCompensate(g) \/ TopEnd(g)

-----------------------------------------------------------------------------
(* reconcile. The backend's list comes first, then the overdue rows, then    *)
(* the rows that are sent.                                                   *)

DlUnchanged == UNCHANGED <<attempt, candidate, top, cancelling, faults>>
Goto(pc, f) == dl' = [dl EXCEPT !.pc = pc, !.f = f, !.todo = @ \ {f}]
NextRow == dl' = [dl EXCEPT !.pc = "row", !.f = None]
\* What a query returns, of the files S.
RowsOf(S) == [f \in Files |-> IF f \in S THEN row[f] ELSE PendingRow]
\* The row is finished with, and goes out of scope; reconcile's active loop skips a handled one.
Skipped(f) == [dl EXCEPT !.pc = "row", !.f = None, !.todo = @ \ {f}, !.rows[f] = PendingRow]
Handled(f) == dl' = [Skipped(f) EXCEPT !.handled = @ \cup {f}]
Skip(f) == dl' = Skipped(f)

Listed(r) == IF r = "STOPPING" THEN "CANCELLED" ELSE r

ListDownloads ==
  /\ dl.pc = "idle" /\ top["downloading"].pc = "idle"
  /\ dl' = [dl EXCEPT !.pc = "listed", !.live = [f \in Files |-> Listed(remote[f])]]
  /\ UNCHANGED <<job, row, remote>> /\ DlUnchanged

TransfersPastDeadline ==
  /\ dl.pc = "listed"
  /\ LET overdue == {f \in Files : row[f].st \in Sent /\ row[f].late}
     IN dl' = [dl EXCEPT !.pc = "row", !.loop = "overdue", !.rows = RowsOf(overdue),
                         !.attempt = attempt, !.todo = overdue]
  /\ UNCHANGED <<job, row, remote>> /\ DlUnchanged

ActiveTransfers ==
  /\ dl.pc = "row" /\ dl.loop = "overdue" /\ dl.todo = {}
  /\ LET active == {f \in Files : row[f].st \in Sent /\ ~(dl.attempt = attempt /\ f \in dl.handled)}
     IN dl' = [dl EXCEPT !.loop = "active", !.rows = RowsOf(active), !.attempt = attempt,
                         !.todo = active, !.handled = {},
                         !.live = [f \in Files |-> IF f \in active THEN @[f] ELSE "NONE"]]
  /\ UNCHANGED <<job, row, remote>> /\ DlUnchanged

AtRow(loop, f) == dl.pc = "row" /\ dl.loop = loop /\ f \in dl.todo
\* Mutant: no fallback to (username, filename).
MatchedById(f) == dl.live[f] # "NONE" /\ dl.rows[f].sid
\* matchLive, by id and then by (username, filename).
Matched(f) == dl.live[f] # "NONE"
\* Matched, and the row's id known or just recovered.
Identified(f) == Matched(f) /\ dl.rows[f].sid
\* Our own stall cancellation, whose retry or error was not written.
StallEnded(f) == dl.rows[f].st = "STALLED" /\ dl.live[f] = "CANCELLED"

\* Recover from a crash between RecordEnqueueIntent and AttachTransferID.
RowAttach(loop, f) ==
  /\ AtRow(loop, f) /\ Matched(f) /\ ~dl.rows[f].sid
  /\ IF Attachable(f, dl.attempt)
       THEN /\ row' = [row EXCEPT ![f].sid = TRUE]
            /\ dl' = [dl EXCEPT !.rows[f].sid = TRUE]
       ELSE Goto("compensate", f) /\ UNCHANGED row
  /\ UNCHANGED <<job, remote>> /\ DlUnchanged

RowCompensate ==
  /\ dl.pc = "compensate" /\ TryCancelRemote(dl.f) /\ Handled(dl.f)
  /\ UNCHANGED <<job, row>> /\ DlUnchanged

\* finishStalled, up to its Remove.
FinishStalled(f) ==
  IF WithinBudget(dl.rows[f].retries)
    THEN RetryTransfer(f, dl.attempt)
    ELSE UpdateTransferProgress(f, dl.attempt, "ERRORED")

RowStallEnded(loop, f) ==
  /\ AtRow(loop, f) /\ Identified(f) /\ StallEnded(f)
  /\ FinishStalled(f) /\ Goto("purge", f)
  /\ UNCHANGED <<job, remote>> /\ DlUnchanged

\* removeFromSlskd, only after the store's write.
Purge ==
  /\ dl.pc = "purge" /\ RemoveRemote(dl.f) /\ Handled(dl.f)
  /\ UNCHANGED <<job, row>> /\ DlUnchanged

OverdueCancel(f) ==
  /\ AtRow("overdue", f) /\ Identified(f) /\ ~StallEnded(f)
  /\ CanCancel(f) /\ CancelRemote(f) /\ Goto("cancelled", f)
  /\ UNCHANGED <<job, row>> /\ DlUnchanged

\* Within the grace period: the active loop still sees the row.
OverdueCancelFails(f) ==
  /\ AtRow("overdue", f) /\ Identified(f) /\ ~StallEnded(f) /\ CancelMayFail(f)
  /\ Skip(f)
  /\ UNCHANGED <<job, row, remote>> /\ DlUnchanged

\* Mutant: the job is never parked (the wedge of issue #443).
OverdueNotParked(f) ==
  /\ AtRow("overdue", f) /\ Identified(f) /\ ~StallEnded(f) /\ CancelMayFail(f)
  /\ UNCHANGED <<job, row>> /\ Skip(f)
  /\ UNCHANGED remote /\ DlUnchanged

\* Past the grace period: the row and the job are given up.
OverduePark(f) ==
  /\ AtRow("overdue", f) /\ Identified(f) /\ ~StallEnded(f) /\ CancelMayFail(f)
  /\ ParkJobForCandidate(f, dl.attempt) /\ Handled(f)
  /\ UNCHANGED remote /\ DlUnchanged

OverdueCancelled ==
  /\ dl.pc = "cancelled" /\ UpdateTransferProgress(dl.f, dl.attempt, "CANCELLED")
  /\ Goto("purge", dl.f)
  /\ UNCHANGED <<job, remote>> /\ DlUnchanged

OverdueLost(f) ==
  /\ AtRow("overdue", f) /\ ~Matched(f)
  /\ UpdateTransferProgress(f, dl.attempt, "CANCELLED") /\ Handled(f)
  /\ UNCHANGED <<job, remote>> /\ DlUnchanged

ActiveLost(f) ==
  /\ AtRow("active", f) /\ ~Matched(f)
  /\ IF WithinBudget(dl.rows[f].retries)
       THEN RetryTransfer(f, dl.attempt) /\ UNCHANGED job
       ELSE ParkJobForCandidate(f, dl.attempt)
  /\ Skip(f)
  /\ UNCHANGED remote /\ DlUnchanged

RetryRejected(f) == dl.live[f] = "REJECTED" /\ WithinBudget(dl.rows[f].retries)

ActiveRejected(f) ==
  /\ AtRow("active", f) /\ Identified(f) /\ RetryRejected(f)
  /\ RetryTransfer(f, dl.attempt) /\ Goto("purge", f)
  /\ UNCHANGED <<job, remote>> /\ DlUnchanged

\* No byte for longer than StallTimeout: the intent is stored first.
ActiveStalled(f) ==
  /\ AtRow("active", f) /\ Identified(f)
  /\ dl.live[f] = "IN_PROGRESS" /\ dl.rows[f].clock
  /\ IF dl.rows[f].st = "STALLED" THEN UNCHANGED row
     ELSE UpdateTransferProgress(f, dl.attempt, "STALLED")
  /\ Goto("stalled", f)
  /\ UNCHANGED <<job, remote>> /\ DlUnchanged

StallCancel ==
  /\ dl.pc = "stalled"
  /\ \/ CanCancel(dl.f) /\ CancelRemote(dl.f) /\ Goto("finish", dl.f)
     \/ CancelMayFail(dl.f) /\ NextRow /\ UNCHANGED remote
  /\ UNCHANGED <<job, row>> /\ DlUnchanged

StallFinish ==
  /\ dl.pc = "finish" /\ FinishStalled(dl.f) /\ Goto("purge", dl.f)
  /\ UNCHANGED <<job, remote>> /\ DlUnchanged

ActiveCopy(f) ==
  LET l == dl.live[f]
  IN /\ AtRow("active", f) /\ Identified(f) /\ ~StallEnded(f) /\ ~RetryRejected(f)
     /\ UpdateTransferProgress(f, dl.attempt, IF l \in {"REJECTED", "FAILED"} THEN "ERRORED" ELSE l)
     /\ IF l \in Ended THEN Goto("purge", f) ELSE Skip(f)
     /\ UNCHANGED <<job, remote>> /\ DlUnchanged

ReconcileEnd ==
  /\ dl.pc = "row" /\ dl.loop = "active" /\ dl.todo = {}
  /\ dl' = [DlIdle EXCEPT !.pc = "resolve"]
  /\ UNCHANGED <<job, row, remote>> /\ DlUnchanged

Reconcile ==
  \/ ListDownloads \/ TransfersPastDeadline \/ ActiveTransfers \/ ReconcileEnd
  \/ \E f \in Files :
       \/ \E loop \in {"overdue", "active"} : RowAttach(loop, f) \/ RowStallEnded(loop, f)
       \/ OverdueCancel(f) \/ OverdueCancelFails(f) \/ OverduePark(f) \/ OverdueLost(f)
       \/ ActiveLost(f) \/ ActiveRejected(f) \/ ActiveStalled(f) \/ ActiveCopy(f)
  \/ RowCompensate \/ OverdueCancelled \/ StallCancel \/ StallFinish \/ Purge

-----------------------------------------------------------------------------
(* resolve, then topUpDownloads *)

ResolveRead ==
  LET failed == {f \in Files : row[f].st \in {"ERRORED", "CANCELLED"}}
      live   == {f \in Files : row[f].st \in Live}
  IN /\ dl.pc = "resolve"
     /\ dl' = CASE job # "DOWNLOADING" -> [dl EXCEPT !.pc = "topup"]
                [] job = "DOWNLOADING" /\ failed # {} ->
                     [dl EXCEPT !.pc = "siblings", !.todo = live, !.rows = row,
                                !.attempt = attempt, !.candidate = candidate]
                [] job = "DOWNLOADING" /\ failed = {} ->
                     [dl EXCEPT !.pc = IF live = {} THEN "done" ELSE "topup"]
     /\ UNCHANGED <<job, row, remote>> /\ DlUnchanged

PendingSiblings == {f \in dl.todo : dl.rows[f].st = "PENDING"}

SiblingPending(f) ==
  /\ dl.pc = "siblings" /\ f \in PendingSiblings
  /\ UpdateTransferProgress(f, dl.attempt, "CANCELLED") /\ Goto("siblings", f)
  /\ UNCHANGED <<job, remote>> /\ DlUnchanged

\* A sent sibling without an id is left to reconcile; one the backend has
\* forgotten is settled here.
SiblingSent(f) ==
  /\ dl.pc = "siblings" /\ PendingSiblings = {} /\ f \in dl.todo
  /\ \/ dl.rows[f].sid /\ CanCancel(f) /\ CancelRemote(f) /\ UNCHANGED row
     \/ /\ dl.rows[f].sid /\ ~CanCancel(f)
        /\ UpdateTransferProgress(f, dl.attempt, "CANCELLED") /\ UNCHANGED remote
     \/ (~dl.rows[f].sid \/ ~Native) /\ UNCHANGED <<row, remote>>
  /\ Goto("siblings", f)
  /\ UNCHANGED job /\ DlUnchanged

\* While a sibling is still sent, the clean-up waits for a later tick.
SiblingsEnd ==
  /\ dl.pc = "siblings" /\ dl.todo = {}
  /\ dl' = [DlIdle EXCEPT !.candidate = dl.candidate,
                          !.pc = IF \E f \in Files : dl.rows[f].st \in Sent
                                   THEN "topup" ELSE "failed"]
  /\ UNCHANGED <<job, row, remote>> /\ DlUnchanged

\* cleanupFolder deletes what the files were written to.
CleanupFolder ==
  /\ dl.pc = "failed"
  /\ dl' = [dl EXCEPT !.pc = "cleaned"]
  /\ UNCHANGED <<job, row, remote>> /\ DlUnchanged

FailCandidate ==
  /\ dl.pc = "cleaned"
  /\ job' = IF job = "DOWNLOADING" /\ dl.candidate = candidate THEN "SELECTING" ELSE job
  /\ dl' = [DlIdle EXCEPT !.pc = "topup"]
  /\ UNCHANGED <<row, remote>> /\ DlUnchanged

DownloadDone ==
  /\ dl.pc = "done"
  /\ job' = IF job = "DOWNLOADING" THEN "IMPORTING" ELSE job
  /\ dl' = [DlIdle EXCEPT !.pc = "topup"]
  /\ UNCHANGED <<row, remote>> /\ DlUnchanged

TopUpDownloads ==
  /\ dl.pc = "topup"
  /\ top' = IF job # "DOWNLOADING" THEN top
            ELSE [top EXCEPT !["downloading"] =
                   [TopIdle EXCEPT !.pc = "read", !.candidate = candidate]]
  /\ dl' = DlIdle
  /\ UNCHANGED <<job, row, remote, attempt, candidate, cancelling, faults>>

Resolve ==
  \/ ResolveRead \/ SiblingsEnd \/ CleanupFolder \/ FailCandidate \/ DownloadDone
  \/ \E f \in Files : SiblingPending(f) \/ SiblingSent(f)

Downloading == Reconcile \/ Resolve \/ TopUpDownloads \/ TopUp("downloading")
Selecting == NextAttempt \/ TopUp("selecting")

-----------------------------------------------------------------------------
(* The user, the wanted list, time and faults *)

\* CancelJob captures the ids of the live rows, then cancels them remotely.
CancelJob ==
  /\ job' = "CANCELLED"
  /\ row' = [f \in Files |-> IF row[f].st \in Live THEN [row[f] EXCEPT !.st = "CANCELLED"]
                             ELSE row[f]]
  /\ cancelling' = cancelling \cup {f \in Files : row[f].st \in Live /\ row[f].sid}
  /\ UNCHANGED <<attempt, candidate, remote, top, dl, faults>>

CancelRemoteTransfer(f) ==
  /\ f \in cancelling /\ TryCancelRemote(f)
  /\ cancelling' = cancelling \ {f}
  /\ UNCHANGED <<job, row, attempt, candidate, top, dl, faults>>

\* SyncWantedJobs: the album left the wanted list; the rows stay as they are.
Unwanted ==
  /\ ~Manual /\ job # "CANCELLED" /\ job' = "CANCELLED"
  /\ UNCHANGED <<row, attempt, candidate, remote, top, dl, cancelling, faults>>

\* A tick compares deadlines with the time it started at, and a deadline is
\* longer than a tick may last (transfer_deadline, the runner's tickTimeout).
DeadlinePasses(f) ==
  /\ dl.pc = "idle" /\ \A g \in Goroutines : top[g].pc = "idle"
  /\ row[f].st \in Sent /\ ~row[f].late
  /\ row' = [row EXCEPT ![f].late = TRUE]
  /\ UNCHANGED <<job, attempt, candidate, remote, top, dl, cancelling, faults>>

Fault == faults < MaxFaults /\ faults' = faults + 1

\* slusk restarts; the native backend's registry goes with it.
Restart ==
  /\ Fault
  /\ top' = [g \in Goroutines |-> TopIdle] /\ dl' = DlIdle /\ cancelling' = {}
  /\ remote' = IF Native THEN NoRemote ELSE remote
  /\ UNCHANGED <<job, row, attempt, candidate>>

\* slskd restarts and forgets its transfers.
BackendRestart ==
  /\ ~Native /\ Fault /\ remote' = NoRemote
  /\ UNCHANGED <<job, row, attempt, candidate, top, dl, cancelling>>

\* A database call of Downloading's tick fails and the tick returns.
TickFails ==
  /\ dl.pc # "idle" /\ Fault /\ dl' = DlIdle
  /\ UNCHANGED <<job, row, attempt, candidate, remote, top, cancelling>>

\* A database call of a top-up fails. After Enqueue the transfer is taken
\* back; the write after a refusal is only logged.
TopFails(g) ==
  /\ top[g].pc \in {"read", "intent", "refused", "attach"} /\ Fault
  /\ top' = [top EXCEPT ![g] =
       CASE top[g].pc = "attach"  -> [top[g] EXCEPT !.pc = "compensate"]
         [] top[g].pc = "refused" -> [top[g] EXCEPT !.pc = "intent", !.f = None]
         [] OTHER                 -> TopIdle]
  /\ UNCHANGED <<job, row, attempt, candidate, remote, dl, cancelling>>

\* The write for a sibling fails, which is only logged.
SiblingWriteFails(f) ==
  /\ dl.pc = "siblings" /\ f \in dl.todo /\ Fault /\ Goto("siblings", f)
  /\ UNCHANGED <<job, row, attempt, candidate, remote, top, cancelling>>

Environment ==
  \/ \E g \in Goroutines : TopFails(g)
  \/ \E f \in Files : SiblingWriteFails(f)
  \/ CancelJob \/ Unwanted \/ Restart \/ BackendRestart \/ TickFails
  \/ \E f \in Files : CancelRemoteTransfer(f) \/ DeadlinePasses(f) \/ RemoteStep(f)

\* Selecting has just activated the candidate.
Init ==
  /\ job = "DOWNLOADING" /\ row = PendingRows /\ attempt = 1 /\ candidate = 1
  /\ remote = NoRemote /\ dl = DlIdle /\ cancelling = {} /\ faults = 0
  /\ top = [g \in Goroutines |->
       IF g = "downloading" THEN TopIdle
       ELSE [TopIdle EXCEPT !.pc = "read", !.candidate = 1]]

Next == Selecting \/ Downloading \/ Environment
Spec == Init /\ [][Next]_vars

-----------------------------------------------------------------------------
(* Properties *)

\* A row that has settled stays settled for the rest of its attempt: no
\* stale top-up and no stale reconcile pass sends a delivered file again.
SettledIsFinal ==
  [][\A f \in Files :
       (attempt' = attempt /\ row[f].st \in Settled) => row'[f].st = row[f].st]_vars

\* A file is given up as ERRORED only when its retries are spent, the
\* backend called the failure final, or it outlived its deadline.
ErroredIsJustified ==
  [][\A f \in Files :
       (row[f].st \in Live /\ row'[f].st = "ERRORED") =>
         \/ row[f].retries >= MaxTransferRetries
         \/ dl.live[f] = "FAILED" \/ row[f].late]_vars

\* A row ends once, and for a reason (RecordEnqueueIntent, reconcile).
RowsEndRightly == SettledIsFinal /\ ErroredIsJustified

\* reconcile lets go of a row whose remote transfer still runs only when the
\* list it had read did not name the transfer; otherwise the download would
\* be orphaned (the comments of its overdue and its crash-recovery branch).
DisownedWasAbsent ==
  [][\A f \in Files :
       (row[f].st \in Sent /\ row'[f].st \in Settled \cup {"PENDING"}
          /\ remote[f] \in Running /\ Reconcile) => dl.live[f] = "NONE"]_vars

\* Two top-ups each count the budget of MaxInflightPerPeer for themselves and
\* still never keep more undelivered files running at the peer than it allows:
\* they hand files over in the same order, and neither passes a file over.
BudgetShared ==
  Cardinality({f \in Files : row[f].st \in Live /\ remote[f] \in Running})
    <= MaxInflightPerPeer

\* Two goroutines that count for themselves overrun neither budget: retries go at most one past MaxTransferRetries (TypeOK),
\* and the peer is not kept busier than MaxInflightPerPeer.
BudgetsHold == TypeOK /\ BudgetShared

-----------------------------------------------------------------------------
(* Fairness. The runner ticks both modules for ever, a deadline passes, and  *)
(* a remote cancel that keeps failing outlives its grace period: of the      *)
(* outcomes of an overdue cancel one that settles the row is taken in the    *)
(* end. Nothing is asked of the peer or of the user.                         *)

OverdueSettles(f) == OverdueCancel(f) \/ OverduePark(f)

FairSpec ==
  /\ Spec
  /\ WF_vars(Downloading) /\ WF_vars(TopUp("selecting"))
  /\ \A f \in Files :
       /\ WF_vars(CancelRemoteTransfer(f))
       /\ SF_vars(DeadlinePasses(f)) /\ SF_vars(OverdueSettles(f))

\* Every file of a download settles, or the job leaves DOWNLOADING: no row is
\* sent and forgotten (issue #443), whatever the backend answers or forgets.
TransferSettles ==
  \A f \in Files :
    (job = "DOWNLOADING" /\ row[f].st \in Live)
      ~> (job # "DOWNLOADING" \/ row[f].st \in Settled)
=============================================================================
