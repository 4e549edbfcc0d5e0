----------------------------- MODULE AlbumJobs -----------------------------
(***************************************************************************)
(* The life of an album job: the tables album_jobs, candidates, transfers  *)
(* and candidate_rejections of internal/store, the four pipeline           *)
(* goroutines of internal/pipeline that tick over them (Discovery,         *)
(* Selecting, Downloading, Importing), the wanted-list sync, and the       *)
(* user's lifecycle calls of internal/app.                                 *)
(*                                                                         *)
(* One action is one database transaction (or one read) of one goroutine.  *)
(* What a tick has read and not yet acted on is kept in a record of the    *)
(* goroutine (dis, sel, dl, imp), so that everything the others commit in  *)
(* between is seen by nobody until the next read, as in the code.          *)
(*                                                                         *)
(* Abstractions.  A tick works on one job at a time, read at an arbitrary  *)
(* earlier moment (the code reads a batch, then works through it).  Time:  *)
(* not_before, cooldowns, TTLs and timeouts may have expired or not, at    *)
(* any step.  QUEUED, IN_PROGRESS and STALLED are one state, SENT; the     *)
(* remote side and the transfer retry budget are the business of module    *)
(* Transfers.  A peer stands for one (username, release directory) pair,   *)
(* the key of candidate_rejections.  A row id is never reused while some   *)
(* tick still holds it: a deleted row returns to the pool of fresh ids     *)
(* when nothing refers to it any more.                                     *)
(***************************************************************************)
EXTENDS Naturals, FiniteSets

CONSTANTS
  Jobs,           \* ids of album_jobs rows
  ManualJobs,     \* those with source 'manual'; the others are 'lidarr'
  Unidentified,   \* manual jobs with an empty album_mbid
  Candidates,     \* ids of candidates rows
  Peers,          \* (username, release directory) pairs
  Files,          \* the files of a release
  MaxActive, MaxRetries, MaxCandidates,  \* internal/config
  None

ASSUME ConfigAssumption ==
  /\ ManualJobs \subseteq Jobs /\ Unidentified \subseteq ManualJobs
  /\ MaxActive \in Nat \ {0} /\ MaxRetries \in Nat \ {0}
  /\ MaxCandidates \in Nat \ {0}
  /\ Files # {}

ASSUME NoneAssumption ==
  None \notin Jobs \cup Candidates \cup Peers \cup Files

VARIABLES
  state,      \* album_jobs.state; "ABSENT" when there is no row
  retries,    \* album_jobs.retries
  cand,       \* candidates: state, album_job_id, peer
  latest,     \* the tried candidate of a job whose row was written last
  tr,         \* transfers.state by candidate and file; "NONE" when no row
  deferred,   \* candidates.deferred_since
  rejected,   \* candidate_rejections by job and peer
  dis, sel, dl, imp,  \* what the tick of each goroutine has read
  deleting    \* jobs between PrepareDeleteJob and DeleteJob

tables == <<state, retries, cand, latest, tr, deferred, rejected>>
ticks == <<dis, sel, dl, imp>>
vars == <<tables, ticks, deleting>>

LidarrJobs == Jobs \ ManualJobs

JobStates == {"WANTED", "SELECTING", "DOWNLOADING", "IMPORTING", "DONE",
  "FAILED", "PARKED", "CANCELLED", "IMPORT_REFUSED", "NOT_IMPORTED"}
LiveTransfer == {"PENDING", "SENT"}
TransferStates == LiveTransfer \cup {"NONE", "COMPLETED", "ERRORED", "CANCELLED"}
\* A rejection row: a cooldown, a content fault (the reasons the
\* repeated-rejection cap counts), or another permanent reason.
Rejections == {"NO", "COOLDOWN", "CONTENT", "OTHER"}
Permanent == {"CONTENT", "OTHER"}

\* deferred_since: NULL, set, or set before the Selecting tick at work began.
Deferrals == {"NO", "SET", "OLD"}

FreeCandidate == [st |-> "FREE", job |-> None, peer |-> None]
NoRows == [f \in Files |-> "NONE"]
AllPending == [f \in Files |-> "PENDING"]

DisIdle == [pc |-> "idle", job |-> None, retries |-> 0, peers |-> {}]
\* file: the one being handed over; None again once its row is deleted under
\* a candidate that lives on, so that the id the tick holds names nothing.
SelIdle == [pc |-> "idle", job |-> None, cand |-> None, retries |-> 0, pend |-> {},
            file |-> None]
DlIdle == [pc |-> "idle", job |-> None, cand |-> None, pend |-> {}, sent |-> {},
           file |-> None]
ImpIdle == [pc |-> "idle", job |-> None, cand |-> None]

CandidateRows ==
  [st : {"NEW", "ACTIVE", "SUCCEEDED", "FAILED"}, job : Jobs, peer : Peers]
    \cup {FreeCandidate}
Retries == 0 .. MaxRetries - 1
\* Places in the loop of topUpCandidate: before an intent, between it and the
\* remote enqueue, between that and AttachTransferID.
HandOver == {"topup", "send", "attach"}
DisTicks ==
  [pc : {"search", "insert", "advance"}, job : LidarrJobs, retries : Retries,
   peers : SUBSET Peers] \cup {DisIdle}
SelTicks ==
  [pc : {"next", "exhausted", "activate", "reserve"} \cup HandOver, job : Jobs,
   cand : Candidates \cup {None}, retries : Retries, pend : SUBSET Files,
   file : Files \cup {None}] \cup {SelIdle}
DlTicks ==
  [pc : {"resolve", "done", "failed", "siblings", "reserve"} \cup HandOver, job : Jobs,
   cand : Candidates \cup {None}, pend : SUBSET Files, sent : SUBSET Files,
   file : Files \cup {None}] \cup {DlIdle}
ImpTicks ==
  [pc : {"read", "work"}, job : Jobs, cand : Candidates \cup {None}] \cup {ImpIdle}

TypeOK ==
  /\ state \in [Jobs -> JobStates \cup {"ABSENT"}]
  /\ retries \in [Jobs -> Retries]
  /\ cand \in [Candidates -> CandidateRows]
  /\ latest \in [Jobs -> Candidates \cup {None}]
  /\ tr \in [Candidates -> [Files -> TransferStates]]
  /\ deferred \in [Candidates -> Deferrals]
  /\ rejected \in [Jobs -> [Peers -> Rejections]]
  /\ dis \in DisTicks /\ sel \in SelTicks /\ dl \in DlTicks /\ imp \in ImpTicks
  /\ deleting \subseteq Jobs

Init ==
  /\ state = [j \in Jobs |-> "ABSENT"]
  /\ retries = [j \in Jobs |-> 0]
  /\ cand = [c \in Candidates |-> FreeCandidate]
  /\ latest = [j \in Jobs |-> None]
  /\ tr = [c \in Candidates |-> NoRows]
  /\ deferred = [c \in Candidates |-> "NO"]
  /\ rejected = [j \in Jobs |-> [p \in Peers |-> "NO"]]
  /\ dis = DisIdle /\ sel = SelIdle /\ dl = DlIdle /\ imp = ImpIdle
  /\ deleting = {}

-----------------------------------------------------------------------------
(* Reading the tables *)

CandidatesOf(j) == {c \in Candidates : cand[c].job = j}
NewCandidates(j) == {c \in CandidatesOf(j) : cand[c].st = "NEW"}
ActiveCandidates(j) == {c \in CandidatesOf(j) : cand[c].st = "ACTIVE"}
RowsIn(c, S) == {f \in Files : tr[c][f] \in S}

\* idx_transfers_live_remote_owner: another candidate has a live row for the
\* same remote file.
OwnedElsewhere(c, p, f) ==
  \E d \in Candidates \ {c} : cand[d].peer = p /\ tr[d][f] \in LiveTransfer

\* The count ActivateCandidateWithTransfers takes under the advisory lock.
ActiveJobs == {j \in Jobs : state[j] \in {"DOWNLOADING", "IMPORTING"}}

\* Ids no tick and no pending delete refers to.
FreshJob(j) ==
  /\ state[j] = "ABSENT" /\ j \notin deleting
  /\ dis.job # j /\ sel.job # j /\ dl.job # j /\ imp.job # j
FreshCandidate(c) ==
  /\ cand[c].st = "FREE"
  /\ sel.cand # c /\ dl.cand # c /\ imp.cand # c

-----------------------------------------------------------------------------
(* Store transactions shared by several callers *)

\* DELETE FROM transfers, then FROM candidates, of the jobs in J.
DeleteCandidates(J) ==
  /\ cand' = [c \in Candidates |-> IF cand[c].job \in J THEN FreeCandidate ELSE cand[c]]
  /\ tr' = [c \in Candidates |-> IF cand[c].job \in J THEN NoRows ELSE tr[c]]
  /\ deferred' = [c \in Candidates |-> IF cand[c].job \in J THEN "NO" ELSE deferred[c]]
  /\ latest' = [j \in Jobs |-> IF j \in J THEN None ELSE latest[j]]

\* DELETE FROM candidate_rejections of the jobs in J, of the kinds in K.
DeleteRejections(J, K) ==
  rejected' = [j \in Jobs |-> [p \in Peers |->
    IF j \in J /\ rejected[j][p] \in K THEN "NO" ELSE rejected[j][p]]]

\* Mutant: the write has no from-guard.
MarkJobFailedUnguarded(j) ==
  state' = IF state[j] = "ABSENT" THEN state ELSE [state EXCEPT ![j] = "FAILED"]

MarkJobFailed(j) ==
  state' = IF state[j] \in {"CANCELLED", "DONE", "FAILED", "ABSENT"}
             THEN state ELSE [state EXCEPT ![j] = "FAILED"]

\* Mutant: off by one.
BudgetSpentLate(r) == r + 1 > MaxRetries
\* failOrBackoff: this failure is the last the job may have.
BudgetSpent(r) == r + 1 >= MaxRetries

\* SetJobBackoff writes retries whatever the state has become.
SetJobBackoff(j, r) ==
  retries' = IF state[j] = "ABSENT" THEN retries ELSE [retries EXCEPT ![j] = r]

ResetJobToWanted(j, r) ==
  IF state[j] = "SELECTING"
    THEN /\ state' = [state EXCEPT ![j] = "WANTED"]
         /\ retries' = [retries EXCEPT ![j] = r]
         /\ DeleteCandidates({j})
    ELSE UNCHANGED <<state, retries, cand, latest, tr, deferred>>

AdvanceJobStateFrom(j, from, to) ==
  state' = IF state[j] = from THEN [state EXCEPT ![j] = to] ELSE state

\* Mutant: only the job's row is checked.
TerminalJobOnly(c, j, st, from, to, rejection) ==
  IF state[j] = from /\ cand[c].st # "FREE"
    THEN /\ cand' = [cand EXCEPT ![c].st = st]
         /\ latest' = [latest EXCEPT ![j] = c]
         /\ state' = [state EXCEPT ![j] = to]
         /\ rejected' = IF rejection = "NO" THEN rejected
                        ELSE [rejected EXCEPT ![j][cand[c].peer] = rejection]
    ELSE UNCHANGED <<cand, latest, state, rejected>>

\* terminalCandidateAndAdvance: both rows move or neither; the rejection is
\* written in the same transaction ("NO": the rule records nothing).
TerminalCandidateAndAdvance(c, j, st, from, to, rejection) ==
  IF cand[c].st = "ACTIVE" /\ state[j] = from
    THEN /\ cand' = [cand EXCEPT ![c].st = st]
         /\ latest' = [latest EXCEPT ![j] = c]
         /\ state' = [state EXCEPT ![j] = to]
         /\ rejected' = IF rejection = "NO" THEN rejected
                        ELSE [rejected EXCEPT ![j][cand[c].peer] = rejection]
    ELSE UNCHANGED <<cand, latest, state, rejected>>

SucceedCandidateAndAdvance(c, j, from, to) ==
  TerminalCandidateAndAdvance(c, j, "SUCCEEDED", from, to, "NO")
FailCandidateAndAdvance(c, j, from, to) ==
  TerminalCandidateAndAdvance(c, j, "FAILED", from, to, "NO")
CooldownCandidateAndAdvance(c, j, from, to) ==
  TerminalCandidateAndAdvance(c, j, "FAILED", from, to, "COOLDOWN")
RejectCandidateAndAdvance(c, j, from, to, kind) ==
  TerminalCandidateAndAdvance(c, j, "FAILED", from, to, kind)

\* UpdateTransferProgress and RetryTransfer write only a live row of a job
\* that is not CANCELLED.
Writable(c, f) ==
  /\ cand[c].st # "FREE" /\ state[cand[c].job] # "CANCELLED"
  /\ tr[c][f] \in LiveTransfer

-----------------------------------------------------------------------------
(* WantedSync: SyncWantedJobs, where W are the Jobs on the wanted list and R *)
(* the FAILED ones older than the revival cutoff. The list may also name     *)
(* albums that are none of Jobs, so W may be empty; an empty list is ignored. *)

SyncWanted(W, R) ==
  LET inserted  == {j \in W : state[j] = "ABSENT"}
      reentered == {j \in W : state[j] = "CANCELLED"}
      revived   == {j \in R : state[j] = "FAILED"}
      cancelled == {j \in LidarrJobs \ W :
                      state[j] \notin {"ABSENT", "DONE", "CANCELLED", "FAILED"}}
      wanted    == inserted \cup reentered \cup revived
  IN /\ R \subseteq W
     /\ \A j \in inserted : FreshJob(j)
     /\ state' = [j \in Jobs |-> IF j \in wanted THEN "WANTED"
                                 ELSE IF j \in cancelled THEN "CANCELLED" ELSE state[j]]
     /\ retries' = [j \in Jobs |-> IF j \in wanted THEN 0 ELSE retries[j]]
     /\ DeleteCandidates(reentered \cup revived)
     /\ DeleteRejections(reentered \cup revived, Rejections)
     /\ UNCHANGED <<ticks, deleting>>

-----------------------------------------------------------------------------
(* Discovery *)

\* RunnableJobsInState(WANTED): the job's row as the whole search will see it.
DiscoveryRead(j) ==
  /\ dis.pc = "idle" /\ state[j] = "WANTED"
  /\ dis' = [pc |-> "search", job |-> j, retries |-> retries[j], peers |-> {}]
  /\ UNCHANGED <<tables, sel, dl, imp, deleting>>

\* Mutant: the rejection history is not consulted.
DiscoveryFilterForgetful(S) ==
  /\ dis.pc = "search"
  /\ S # {} /\ Cardinality(S) <= MaxCandidates
  /\ dis' = [dis EXCEPT !.pc = "insert", !.peers = S]
  /\ UNCHANGED <<tables, sel, dl, imp, deleting>>

\* The search is over and RejectedCandidates has been read: at most
\* MaxCandidates of the peers that answered survive the filters.
DiscoveryFilter(S) ==
  /\ dis.pc = "search"
  /\ S # {} /\ Cardinality(S) <= MaxCandidates
  /\ \A p \in S : rejected[dis.job][p] \notin Permanent
  /\ dis' = [dis EXCEPT !.pc = "insert", !.peers = S]
  /\ UNCHANGED <<tables, sel, dl, imp, deleting>>

\* Peers answered but none survived: failOrBackoff, from the retries read
\* before the search.
DiscoveryNoViable ==
  /\ dis.pc = "search"
  /\ IF BudgetSpent(dis.retries)
       THEN MarkJobFailed(dis.job) /\ UNCHANGED retries
       ELSE SetJobBackoff(dis.job, dis.retries + 1) /\ UNCHANGED state
  /\ dis' = DisIdle
  /\ UNCHANGED <<cand, latest, tr, deferred, rejected, sel, dl, imp, deleting>>

\* failExcludedSearch: failOrBackoff with a budget of zero.
DiscoveryExcluded ==
  /\ dis.pc = "search"
  /\ MarkJobFailed(dis.job)
  /\ dis' = DisIdle
  /\ UNCHANGED <<retries, cand, latest, tr, deferred, rejected, sel, dl, imp, deleting>>

\* InsertCandidates: the rows go in whatever the job has become (the foreign
\* key still needs the job's row); the cycle resets only a WANTED job.
DiscoveryInsert(slot) ==
  /\ dis.pc = "insert" /\ state[dis.job] # "ABSENT"
  /\ \A p \in dis.peers : FreshCandidate(slot[p])
  /\ \A p, q \in dis.peers : slot[p] = slot[q] => p = q
  /\ cand' = [c \in Candidates |->
       IF \E p \in dis.peers : slot[p] = c
         THEN [st |-> "NEW", job |-> dis.job,
               peer |-> CHOOSE p \in dis.peers : slot[p] = c]
         ELSE cand[c]]
  /\ retries' = IF state[dis.job] = "WANTED"
                  THEN [retries EXCEPT ![dis.job] = 0] ELSE retries
  /\ dis' = [dis EXCEPT !.pc = "advance"]
  /\ UNCHANGED <<state, latest, tr, deferred, rejected, sel, dl, imp, deleting>>

DiscoveryAdvance ==
  /\ dis.pc = "advance"
  /\ AdvanceJobStateFrom(dis.job, "WANTED", "SELECTING")
  /\ dis' = DisIdle
  /\ UNCHANGED <<retries, cand, latest, tr, deferred, rejected, sel, dl, imp, deleting>>

\* The tick returns early: the album left the snapshot, the search or a
\* database call failed, the process restarted. An empty search ends the
\* tick the same way (SetJobEmptySearchBackoff only hides the job).
DiscoveryAbort ==
  /\ dis.pc # "idle"
  /\ dis' = DisIdle
  /\ UNCHANGED <<tables, sel, dl, imp, deleting>>

-----------------------------------------------------------------------------
(* topUpCandidate, shared by Selecting and Downloading. The tick has read   *)
(* that the files in pend are PENDING.                                      *)

\* RegisterDownloadFolder finds a live owner: only a job in these two states
\* owns a folder; which names collide is left open.
FolderHeld(j) == \E k \in Jobs \ {j} : state[k] \in {"DOWNLOADING", "IMPORTING"}

\* reserveDownloadFolders succeeds: ClearCandidateDeferral.
ReserveFolder(c) == deferred' = [deferred EXCEPT ![c] = "NO"]

\* DeferCandidate writes the row (and its updated_at) and keeps the first
\* deferral's timestamp.
DeferCandidate(c) ==
  IF cand[c].st = "FREE" THEN UNCHANGED <<deferred, latest>>
  ELSE /\ deferred' = IF deferred[c] = "NO" THEN [deferred EXCEPT ![c] = "SET"] ELSE deferred
       /\ latest' = IF cand[c].st = "NEW" THEN latest
                    ELSE [latest EXCEPT ![cand[c].job] = c]

\* Mutant: a cancelled job is not noticed.
EnqueueIntentUnguarded(c, f) ==
  /\ cand[c].st # "FREE"
  /\ \/ tr[c][f] \in LiveTransfer
     \/ tr[c][f] = "NONE" /\ ~OwnedElsewhere(c, cand[c].peer, f)

\* RecordEnqueueIntent upserts: it also inserts a row deleted since the read.
EnqueueIntent(c, f) ==
  /\ cand[c].st # "FREE" /\ state[cand[c].job] # "CANCELLED"
  /\ \/ tr[c][f] \in LiveTransfer
     \/ tr[c][f] = "NONE" /\ ~OwnedElsewhere(c, cand[c].peer, f)

\* AttachTransferID finds the row live and its job not CANCELLED.
Attachable(c, f) == f # None /\ Writable(c, f)

\* The loop over the PENDING rows the tick t has read, file by file: intent,
\* remote enqueue, then attach or, when the row was lost meanwhile, the
\* compensating Cancel, which ends the tick.
IntentFor(t, f) == [t EXCEPT !.pc = "send", !.file = f, !.pend = @ \ {f}]
NextFile(t) == [t EXCEPT !.pc = "topup", !.file = None]

RecordEnqueueIntent(t, f) ==
  /\ t.pc = "topup" /\ f \in t.pend /\ EnqueueIntent(t.cand, f)
  /\ tr' = [tr EXCEPT ![t.cand][f] = "SENT"]
  /\ UNCHANGED <<state, retries, cand, latest, deferred, rejected>>

\* RetryTransfer, or UpdateTransferProgress to ERRORED on a spent budget.
EnqueueRefused(t, to) ==
  /\ t.pc = "send"
  /\ tr' = IF Attachable(t.cand, t.file) THEN [tr EXCEPT ![t.cand][t.file] = to] ELSE tr
  /\ UNCHANGED <<state, retries, cand, latest, deferred, rejected>>

-----------------------------------------------------------------------------
(* Selecting *)

\* The tick takes its now: what is deferred by then was deferred before it.
SelectRead(j) ==
  /\ sel.pc = "idle" /\ state[j] = "SELECTING"
  /\ sel' = [SelIdle EXCEPT !.pc = "next", !.job = j, !.retries = retries[j]]
  /\ deferred' = [c \in Candidates |-> IF deferred[c] = "NO" THEN "NO" ELSE "OLD"]
  /\ UNCHANGED <<state, retries, cand, latest, tr, rejected, dis, dl, imp, deleting>>

\* NextNewCandidate; the score order is not modelled.
SelectNext(c) ==
  /\ sel.pc = "next" /\ c \in NewCandidates(sel.job)
  /\ sel' = [sel EXCEPT !.pc = "activate", !.cand = c]
  /\ UNCHANGED <<tables, dis, dl, imp, deleting>>

SelectNoneLeft ==
  /\ sel.pc = "next" /\ NewCandidates(sel.job) = {}
  /\ sel' = [sel EXCEPT !.pc = "exhausted"]
  /\ UNCHANGED <<tables, dis, dl, imp, deleting>>

\* A manual job fails at once; a Lidarr job goes through failOrBackoff.
SelectExhausted ==
  /\ sel.pc = "exhausted"
  /\ IF sel.job \in ManualJobs \/ BudgetSpent(sel.retries)
       THEN MarkJobFailed(sel.job) /\ UNCHANGED <<retries, cand, latest, tr, deferred>>
       ELSE ResetJobToWanted(sel.job, sel.retries + 1)
  /\ sel' = SelIdle
  /\ UNCHANGED <<rejected, dis, dl, imp, deleting>>

\* Mutant: a manual job's candidate expires like any other.
SelectExpiredAnySource ==
  /\ sel.pc = "activate"
  /\ ResetJobToWanted(sel.job, sel.retries)
  /\ sel' = SelIdle
  /\ UNCHANGED <<rejected, dis, dl, imp, deleting>>

\* The candidate is older than CandidateTTL: search again, budget untouched.
SelectExpired ==
  /\ sel.pc = "activate" /\ sel.job \in LidarrJobs
  /\ ResetJobToWanted(sel.job, sel.retries)
  /\ sel' = SelIdle
  /\ UNCHANGED <<rejected, dis, dl, imp, deleting>>

\* ActivateCandidateWithTransfers, one transaction under the advisory lock.
Activatable(c, j) ==
  /\ cand[c].st = "NEW" /\ cand[c].job = j /\ state[j] = "SELECTING"
  /\ Cardinality(ActiveJobs) < MaxActive
  /\ tr[c] = NoRows
  /\ \A f \in Files : ~OwnedElsewhere(c, cand[c].peer, f)

SelectActivate ==
  /\ sel.pc = "activate" /\ Activatable(sel.cand, sel.job)
  /\ tr' = [tr EXCEPT ![sel.cand] = AllPending]
  /\ cand' = [cand EXCEPT ![sel.cand].st = "ACTIVE"]
  /\ latest' = [latest EXCEPT ![sel.job] = sel.cand]
  /\ state' = [state EXCEPT ![sel.job] = "DOWNLOADING"]
  /\ sel' = [sel EXCEPT !.pc = "reserve", !.pend = Files]
  /\ UNCHANGED <<retries, deferred, rejected, dis, dl, imp, deleting>>

\* The cap is full, another live candidate owns a file, or the job moved on.
SelectSkip ==
  /\ sel.pc = "activate" /\ ~Activatable(sel.cand, sel.job)
  /\ sel' = SelIdle
  /\ UNCHANGED <<tables, dis, dl, imp, deleting>>

SelectReserve ==
  /\ sel.pc = "reserve" /\ ReserveFolder(sel.cand)
  /\ sel' = [sel EXCEPT !.pc = "topup"]
  /\ UNCHANGED <<state, retries, cand, latest, tr, rejected, dis, dl, imp, deleting>>

SelectDefer ==
  /\ sel.pc = "reserve" /\ FolderHeld(sel.job) /\ DeferCandidate(sel.cand)
  /\ sel' = SelIdle
  /\ UNCHANGED <<state, retries, cand, tr, rejected, dis, dl, imp, deleting>>

\* The recorded wait, measured up to the tick's now, is longer than
\* transfer_deadline: the candidate fails.
SelectFolderCeiling ==
  /\ sel.pc = "reserve" /\ FolderHeld(sel.job) /\ deferred[sel.cand] = "OLD"
  /\ FailCandidateAndAdvance(sel.cand, sel.job, "DOWNLOADING", "SELECTING")
  /\ sel' = SelIdle
  /\ UNCHANGED <<retries, tr, deferred, dis, dl, imp, deleting>>

SelectIntent(f) ==
  /\ RecordEnqueueIntent(sel, f)
  /\ sel' = IntentFor(sel, f) /\ UNCHANGED <<dis, dl, imp, deleting>>

SelectRefused(to) ==
  /\ EnqueueRefused(sel, to)
  /\ sel' = NextFile(sel) /\ UNCHANGED <<dis, dl, imp, deleting>>

\* From here the peer has the file, whatever has become of the job.
SelectEnqueued ==
  /\ sel.pc = "send" /\ sel' = [sel EXCEPT !.pc = "attach"]
  /\ UNCHANGED <<tables, dis, dl, imp, deleting>>

SelectAttach ==
  /\ sel.pc = "attach" /\ Attachable(sel.cand, sel.file)
  /\ sel' = NextFile(sel)
  /\ UNCHANGED <<tables, dis, dl, imp, deleting>>

SelectCompensate ==
  /\ sel.pc = "attach" /\ ~Attachable(sel.cand, sel.file)
  /\ sel' = SelIdle
  /\ UNCHANGED <<tables, dis, dl, imp, deleting>>

SelectTopUp ==
  \/ \E f \in Files : SelectIntent(f)
  \/ \E to \in {"PENDING", "ERRORED"} : SelectRefused(to)
  \/ SelectEnqueued \/ SelectAttach \/ SelectCompensate

\* The batch moves on (in-flight limit, ineligible intent, error, restart).
SelectStop ==
  /\ sel.pc # "idle"
  /\ sel' = SelIdle
  /\ UNCHANGED <<tables, dis, dl, imp, deleting>>

-----------------------------------------------------------------------------
(* Downloading: reconcile, then resolve, then topUpDownloads, in one        *)
(* goroutine. The three phases are read separately.                         *)

\* One row of reconcile: retried, finished or cancelled with the remote side.
Reconcile(c, f, to) ==
  /\ dl.pc = "idle" /\ tr[c][f] = "SENT" /\ Writable(c, f)
  /\ tr' = [tr EXCEPT ![c][f] = to]
  /\ UNCHANGED <<state, retries, cand, latest, deferred, rejected, ticks, deleting>>

\* ParkJobForCandidate: a transfer lost with no retries left, or one the
\* backend refuses to cancel. The row is written whatever the job's state.
ReconcilePark(c, f) ==
  /\ dl.pc = "idle" /\ cand[c].st # "FREE" /\ tr[c][f] = "SENT"
  /\ tr' = [tr EXCEPT ![c][f] = "ERRORED"]
  /\ AdvanceJobStateFrom(cand[c].job, "DOWNLOADING", "PARKED")
  /\ UNCHANGED <<retries, cand, latest, deferred, rejected, ticks, deleting>>

ResolveRead(j) ==
  /\ dl.pc = "idle" /\ state[j] = "DOWNLOADING"
  /\ dl' = [DlIdle EXCEPT !.pc = "resolve", !.job = j]
  /\ UNCHANGED <<tables, dis, sel, imp, deleting>>

\* Mutant: a failed row ends the candidate at once, whatever its siblings do.
ResolveLookImpatient(c) ==
  LET failed == RowsIn(c, {"ERRORED", "CANCELLED"})
  IN /\ dl.pc = "resolve" /\ c \in ActiveCandidates(dl.job)
     /\ dl' = IF failed # {} THEN [dl EXCEPT !.pc = "failed", !.cand = c]
              ELSE IF RowsIn(c, LiveTransfer) = {} /\ RowsIn(c, {"COMPLETED"}) # {}
                THEN [dl EXCEPT !.pc = "done", !.cand = c]
              ELSE DlIdle
     /\ UNCHANGED <<tables, dis, sel, imp, deleting>>

\* ActiveCandidate and TransfersForCandidate: what the rows say decides the
\* branch, and the branch is taken later.
ResolveLook(c) ==
  LET pend   == RowsIn(c, {"PENDING"})
      sent   == RowsIn(c, {"SENT"})
      failed == RowsIn(c, {"ERRORED", "CANCELLED"})
  IN /\ dl.pc = "resolve" /\ c \in ActiveCandidates(dl.job)
     /\ dl' = IF failed # {}
                THEN [dl EXCEPT !.pc = IF pend \cup sent = {} THEN "failed" ELSE "siblings",
                                !.cand = c, !.pend = pend, !.sent = sent]
              ELSE IF pend \cup sent = {} /\ RowsIn(c, {"COMPLETED"}) # {}
                THEN [dl EXCEPT !.pc = "done", !.cand = c]
              ELSE DlIdle
     /\ UNCHANGED <<tables, dis, sel, imp, deleting>>

\* Mutant: the PENDING siblings are left alone.
ResolveSiblingsRemoteOnly(forgotten) ==
  /\ dl.pc = "siblings" /\ forgotten \subseteq dl.sent
  /\ tr' = [tr EXCEPT ![dl.cand] = [f \in Files |->
       IF f \in forgotten /\ Writable(dl.cand, f) THEN "CANCELLED" ELSE tr[dl.cand][f]]]
  /\ dl' = DlIdle
  /\ UNCHANGED <<state, retries, cand, latest, deferred, rejected, dis, sel, imp, deleting>>

\* First phase of a failure: the PENDING siblings become CANCELLED, the sent
\* ones are cancelled remotely; those in forgotten were unknown there. With
\* only PENDING siblings the same tick goes on to fail the candidate.
ResolveSiblings(forgotten) ==
  /\ dl.pc = "siblings" /\ forgotten \subseteq dl.sent
  /\ tr' = [tr EXCEPT ![dl.cand] = [f \in Files |->
       IF f \in dl.pend \cup forgotten /\ Writable(dl.cand, f)
         THEN "CANCELLED" ELSE tr[dl.cand][f]]]
  /\ dl' = IF dl.sent = {} THEN [dl EXCEPT !.pc = "failed", !.pend = {}] ELSE DlIdle
  /\ UNCHANGED <<state, retries, cand, latest, deferred, rejected, dis, sel, imp, deleting>>

\* Second phase: every row was terminal; after cleanupFolder.
ResolveFailed ==
  /\ dl.pc = "failed"
  /\ CooldownCandidateAndAdvance(dl.cand, dl.job, "DOWNLOADING", "SELECTING")
  /\ dl' = DlIdle
  /\ UNCHANGED <<retries, tr, deferred, dis, sel, imp, deleting>>

ResolveDone ==
  /\ dl.pc = "done"
  /\ IF dl.job \in Unidentified
       THEN SucceedCandidateAndAdvance(dl.cand, dl.job, "DOWNLOADING", "NOT_IMPORTED")
       ELSE /\ AdvanceJobStateFrom(dl.job, "DOWNLOADING", "IMPORTING")
            /\ UNCHANGED <<cand, latest, rejected>>
  /\ dl' = DlIdle
  /\ UNCHANGED <<retries, tr, deferred, dis, sel, imp, deleting>>

\* topUpDownloads: the job is read, then its candidate and PENDING rows.
TopUpRead(j) ==
  /\ dl.pc = "idle" /\ state[j] = "DOWNLOADING"
  /\ \E c \in ActiveCandidates(j) :
       /\ RowsIn(c, {"PENDING"}) # {}
       /\ dl' = [DlIdle EXCEPT !.pc = "reserve", !.job = j, !.cand = c,
                               !.pend = RowsIn(c, {"PENDING"})]
  /\ UNCHANGED <<tables, dis, sel, imp, deleting>>

TopUpReserve ==
  /\ dl.pc = "reserve" /\ ReserveFolder(dl.cand)
  /\ dl' = [dl EXCEPT !.pc = "topup"]
  /\ UNCHANGED <<state, retries, cand, latest, tr, rejected, dis, sel, imp, deleting>>

TopUpDefer ==
  /\ dl.pc = "reserve" /\ FolderHeld(dl.job) /\ DeferCandidate(dl.cand)
  /\ dl' = DlIdle
  /\ UNCHANGED <<state, retries, cand, tr, rejected, dis, sel, imp, deleting>>

TopUpFolderCeiling ==
  /\ dl.pc = "reserve" /\ FolderHeld(dl.job) /\ deferred[dl.cand] # "NO"
  /\ FailCandidateAndAdvance(dl.cand, dl.job, "DOWNLOADING", "SELECTING")
  /\ dl' = DlIdle
  /\ UNCHANGED <<retries, tr, deferred, dis, sel, imp, deleting>>

TopUpIntent(f) ==
  /\ RecordEnqueueIntent(dl, f)
  /\ dl' = IntentFor(dl, f) /\ UNCHANGED <<dis, sel, imp, deleting>>

TopUpRefused(to) ==
  /\ EnqueueRefused(dl, to)
  /\ dl' = NextFile(dl) /\ UNCHANGED <<dis, sel, imp, deleting>>

TopUpEnqueued ==
  /\ dl.pc = "send" /\ dl' = [dl EXCEPT !.pc = "attach"]
  /\ UNCHANGED <<tables, dis, sel, imp, deleting>>

TopUpAttach ==
  /\ dl.pc = "attach" /\ Attachable(dl.cand, dl.file)
  /\ dl' = NextFile(dl)
  /\ UNCHANGED <<tables, dis, sel, imp, deleting>>

TopUpCompensate ==
  /\ dl.pc = "attach" /\ ~Attachable(dl.cand, dl.file)
  /\ dl' = DlIdle
  /\ UNCHANGED <<tables, dis, sel, imp, deleting>>

TopUpSend ==
  \/ \E f \in Files : TopUpIntent(f)
  \/ \E to \in {"PENDING", "ERRORED"} : TopUpRefused(to)
  \/ TopUpEnqueued \/ TopUpAttach \/ TopUpCompensate

DownloadStop ==
  /\ dl.pc # "idle"
  /\ dl' = DlIdle
  /\ UNCHANGED <<tables, dis, sel, imp, deleting>>

-----------------------------------------------------------------------------
(* Importing. verify and confirm are one visit with several ends; what      *)
(* Lidarr answers is open.                                                  *)

ImportRead(j) ==
  /\ imp.pc = "idle" /\ state[j] = "IMPORTING"
  /\ imp' = [ImpIdle EXCEPT !.pc = "read", !.job = j]
  /\ UNCHANGED <<tables, dis, sel, dl, deleting>>

\* ActiveCandidate, read without looking at the job's state again.
ImportCandidate(c) ==
  /\ imp.pc = "read" /\ c \in ActiveCandidates(imp.job)
  /\ imp' = [imp EXCEPT !.pc = "work", !.cand = c]
  /\ UNCHANGED <<tables, dis, sel, dl, deleting>>

ImportEnd ==
  /\ imp' = ImpIdle
  /\ UNCHANGED <<retries, tr, deferred, dis, sel, dl, deleting>>

\* Confirmed, already complete, or an empty folder taken for imported.
ImportDone ==
  /\ imp.pc = "work"
  /\ SucceedCandidateAndAdvance(imp.cand, imp.job, "IMPORTING", "DONE")
  /\ ImportEnd

\* A manual job whose release group is not in Lidarr's library.
ImportNotImported ==
  /\ imp.pc = "work" /\ imp.job \in ManualJobs
  /\ SucceedCandidateAndAdvance(imp.cand, imp.job, "IMPORTING", "NOT_IMPORTED")
  /\ ImportEnd

\* failCandidate on a content fault; the cap parks the job once a whole
\* cycle's worth of rejections gave this reason.
ImportRejected ==
  /\ imp.pc = "work"
  /\ LET prior == Cardinality({p \in Peers : rejected[imp.job][p] = "CONTENT"})
     IN RejectCandidateAndAdvance(imp.cand, imp.job, "IMPORTING",
          IF prior >= MaxCandidates THEN "PARKED" ELSE "SELECTING", "CONTENT")
  /\ ImportEnd

\* failCandidate on an environmental fault (escalateIfStuck).
ImportStuck ==
  /\ imp.pc = "work"
  /\ FailCandidateAndAdvance(imp.cand, imp.job, "IMPORTING", "SELECTING")
  /\ ImportEnd

ImportRefused ==
  /\ imp.pc = "work"
  /\ RejectCandidateAndAdvance(imp.cand, imp.job, "IMPORTING", "IMPORT_REFUSED", "OTHER")
  /\ ImportEnd

\* failUnconfirmed records a permanent rejection.
ImportUnconfirmed ==
  /\ imp.pc = "work"
  /\ RejectCandidateAndAdvance(imp.cand, imp.job, "IMPORTING", "SELECTING", "OTHER")
  /\ ImportEnd

\* No verdict yet, no ACTIVE candidate, an error, a restart.
ImportStop ==
  /\ imp.pc # "idle"
  /\ UNCHANGED <<cand, latest, state, rejected>>
  /\ ImportEnd

-----------------------------------------------------------------------------
(* The user: internal/app. *)

UserUnchanged == UNCHANGED <<ticks, deleting>>

CancelTransfersOf(j) ==
  tr' = [c \in Candidates |-> [f \in Files |->
    IF cand[c].job = j /\ tr[c][f] \in LiveTransfer THEN "CANCELLED" ELSE tr[c][f]]]

\* prepareJobCancellation: the job and its live rows, from any state.
Cancel(j) ==
  /\ state[j] # "ABSENT"
  /\ state' = [state EXCEPT ![j] = "CANCELLED"]
  /\ CancelTransfersOf(j)
  /\ UNCHANGED <<retries, cand, latest, deferred, rejected>> /\ UserUnchanged

\* Delete is two transactions with the remote cancels between them.
PrepareDelete(j) ==
  /\ state[j] \notin {"ABSENT", "IMPORTING"} /\ j \notin deleting
  /\ state' = [state EXCEPT ![j] = "CANCELLED"]
  /\ CancelTransfersOf(j)
  /\ deleting' = deleting \cup {j}
  /\ UNCHANGED <<retries, cand, latest, deferred, rejected, ticks>>

DeleteJob(j) ==
  /\ j \in deleting /\ state[j] \notin {"ABSENT", "IMPORTING"}
  /\ state' = [state EXCEPT ![j] = "ABSENT"]
  /\ retries' = [retries EXCEPT ![j] = 0]
  /\ DeleteCandidates({j})
  /\ DeleteRejections({j}, Rejections)
  /\ deleting' = deleting \ {j}
  /\ UNCHANGED ticks

\* ErrJobImporting, a failed transaction, or a request that died in between.
DeleteGivesUp(j) ==
  /\ j \in deleting
  /\ deleting' = deleting \ {j}
  /\ UNCHANGED <<tables, ticks>>

RetryFailedJob(j) ==
  /\ j \in LidarrJobs /\ state[j] \in {"FAILED", "PARKED"}
  /\ state' = [state EXCEPT ![j] = "WANTED"]
  /\ retries' = [retries EXCEPT ![j] = 0]
  /\ DeleteCandidates({j}) /\ DeleteRejections({j}, Rejections)
  /\ UserUnchanged

\* The transfer rows j had are gone: an id of one that t still holds is dead.
RowsLost(t, j) == IF t.job = j THEN [t EXCEPT !.file = None] ELSE t

\* The candidate rows are revived, not replaced: deferred_since is kept.
RetryManualJob(j) ==
  /\ j \in ManualJobs /\ state[j] \in {"FAILED", "PARKED"}
  /\ CandidatesOf(j) # {}
  /\ state' = [state EXCEPT ![j] = "SELECTING"]
  /\ retries' = [retries EXCEPT ![j] = 0]
  /\ cand' = [c \in Candidates |->
       IF cand[c].job = j THEN [cand[c] EXCEPT !.st = "NEW"] ELSE cand[c]]
  /\ tr' = [c \in Candidates |-> IF cand[c].job = j THEN NoRows ELSE tr[c]]
  /\ latest' = [latest EXCEPT ![j] = None]
  /\ sel' = RowsLost(sel, j) /\ dl' = RowsLost(dl, j)
  /\ UNCHANGED <<deferred, rejected, dis, imp, deleting>>

\* Mutant: an untried row sorts before the tried ones.
CurrentCandidatesNewFirst(j) ==
  IF ActiveCandidates(j) # {} THEN ActiveCandidates(j)
  ELSE IF NewCandidates(j) # {} THEN NewCandidates(j)
  ELSE IF latest[j] # None THEN {latest[j]} ELSE {}

\* currentCandidateOrder: an ACTIVE row first, then the tried row written
\* last, a NEW row only when there is no other.
CurrentCandidates(j) ==
  IF ActiveCandidates(j) # {} THEN ActiveCandidates(j)
  ELSE IF latest[j] # None THEN {latest[j]}
  ELSE NewCandidates(j)

RetryRefusedJob(j) ==
  /\ state[j] = "IMPORT_REFUSED"
  /\ \E c \in CurrentCandidates(j) :
       /\ cand[c].st = "FAILED"
       /\ cand' = [cand EXCEPT ![c].st = "ACTIVE"]
       /\ latest' = [latest EXCEPT ![j] = c]
       /\ rejected' = [rejected EXCEPT ![j][cand[c].peer] = "NO"]
  /\ state' = [state EXCEPT ![j] = "IMPORTING"]
  /\ UNCHANGED <<retries, tr, deferred>> /\ UserUnchanged

\* Only cooldowns are lifted; a manual job is refused by internal/app.
ForceSearch(j) ==
  /\ j \in LidarrJobs /\ state[j] \notin {"ABSENT", "DOWNLOADING", "IMPORTING"}
  /\ state' = [state EXCEPT ![j] = "WANTED"]
  /\ retries' = [retries EXCEPT ![j] = 0]
  /\ DeleteCandidates({j}) /\ DeleteRejections({j}, {"COOLDOWN"})
  /\ UserUnchanged

\* CreateManualJob: born DOWNLOADING, outside the MaxActive cap.
CreateManualJob(j, c, p) ==
  /\ j \in ManualJobs /\ FreshJob(j) /\ FreshCandidate(c)
  /\ \A f \in Files : ~OwnedElsewhere(c, p, f)
  /\ state' = [state EXCEPT ![j] = "DOWNLOADING"]
  /\ retries' = [retries EXCEPT ![j] = 0]
  /\ cand' = [cand EXCEPT ![c] = [st |-> "ACTIVE", job |-> j, peer |-> p]]
  /\ latest' = [latest EXCEPT ![j] = c]
  /\ tr' = [tr EXCEPT ![c] = AllPending]
  /\ UNCHANGED <<deferred, rejected>> /\ UserUnchanged

-----------------------------------------------------------------------------
Wanted == \E W \in SUBSET LidarrJobs : \E R \in SUBSET W : SyncWanted(W, R)

Discovery ==
  \/ \E j \in LidarrJobs : DiscoveryRead(j)
  \/ \E S \in SUBSET Peers : DiscoveryFilter(S)
  \/ DiscoveryNoViable \/ DiscoveryExcluded
  \/ \E slot \in [dis.peers -> Candidates] : DiscoveryInsert(slot)
  \/ DiscoveryAdvance \/ DiscoveryAbort

Selecting ==
  \/ \E j \in Jobs : SelectRead(j)
  \/ \E c \in Candidates : SelectNext(c)
  \/ SelectNoneLeft \/ SelectExhausted \/ SelectExpired
  \/ SelectActivate \/ SelectSkip
  \/ SelectReserve \/ SelectDefer \/ SelectFolderCeiling
  \/ SelectTopUp
  \/ SelectStop

Downloading ==
  \/ \E c \in Candidates, f \in Files :
       \/ \E to \in {"PENDING", "COMPLETED", "ERRORED", "CANCELLED"} : Reconcile(c, f, to)
       \/ ReconcilePark(c, f)
  \/ \E j \in Jobs : ResolveRead(j) \/ TopUpRead(j)
  \/ \E c \in Candidates : ResolveLook(c)
  \/ \E S \in SUBSET dl.sent : ResolveSiblings(S)
  \/ ResolveFailed \/ ResolveDone
  \/ TopUpReserve \/ TopUpDefer \/ TopUpFolderCeiling
  \/ TopUpSend
  \/ DownloadStop

Importing ==
  \/ \E j \in Jobs : ImportRead(j)
  \/ \E c \in Candidates : ImportCandidate(c)
  \/ ImportDone \/ ImportNotImported \/ ImportRejected \/ ImportStuck
  \/ ImportRefused \/ ImportUnconfirmed \/ ImportStop

User ==
  \E j \in Jobs :
    \/ Cancel(j) \/ PrepareDelete(j) \/ DeleteJob(j) \/ DeleteGivesUp(j)
    \/ RetryFailedJob(j) \/ RetryManualJob(j) \/ RetryRefusedJob(j)
    \/ ForceSearch(j)
    \/ \E c \in Candidates, p \in Peers : CreateManualJob(j, c, p)

Next == Wanted \/ Discovery \/ Selecting \/ Downloading \/ Importing \/ User

Spec == Init /\ [][Next]_vars
-----------------------------------------------------------------------------
(* Properties *)

\* A job holding a MaxActive slot has exactly one ACTIVE candidate, so both
\* modules that skip a job without one can never skip it for ever; a job that
\* is searching, choosing or has failed holds none, so no later activation can
\* produce a second (the doc of FailCandidateAndAdvance).
ActiveCandidate ==
  \A j \in Jobs :
    /\ state[j] \in {"DOWNLOADING", "IMPORTING"} =>
         \E c \in Candidates : ActiveCandidates(j) = {c}
    /\ state[j] \in {"WANTED", "SELECTING", "FAILED", "DONE", "IMPORT_REFUSED",
                     "NOT_IMPORTED", "ABSENT"} => ActiveCandidates(j) = {}

\* The candidate being downloaded has a row for every file: with a file
\* missing, resolveDownloadingJob would import an incomplete folder, with no
\* row at all it would never take a branch and the slot would be lost.
DownloadHasRows ==
  \A j \in Jobs : state[j] \in {"DOWNLOADING", "IMPORTING"} =>
    \A c \in ActiveCandidates(j) : RowsIn(c, {"NONE"}) = {}

\* The branch resolve has chosen still holds when it is taken, although
\* Selecting may be sending files of the same candidate: no row has come back
\* to life, and a completed download has no failed row.
VerdictStillHolds ==
  (dl.pc \in {"done", "failed"} /\ cand[dl.cand].st = "ACTIVE"
     /\ state[dl.job] = "DOWNLOADING") =>
    IF dl.pc = "done" THEN RowsIn(dl.cand, {"COMPLETED"}) = Files
    ELSE RowsIn(dl.cand, LiveTransfer) = {}

\* A download is judged as what it is: every file has a row, and the rows still say what resolve has read in them when it acts.
DownloadIsWhole == DownloadHasRows /\ VerdictStillHolds

\* RetryRefusedJob can always resubmit the files of a refused job: the
\* candidate it revives is the one Lidarr refused.
RefusedRevivable ==
  \A j \in Jobs : state[j] = "IMPORT_REFUSED" =>
    /\ CurrentCandidates(j) # {}
    /\ \A c \in CurrentCandidates(j) : cand[c].st = "FAILED" /\ cand[c].job = j

\* A manual job is served by the peer its user chose and by no other: the
\* pipeline never searches for it (issue #347), and no expiry, exhaustion,
\* cancel or retry, however late, takes the row it would be retried from. One
\* without an album never gets to Importing, which would look that album up.
ManualKeepsItsPeer ==
  \A j \in ManualJobs :
    /\ state[j] # "WANTED"
    /\ state[j] # "ABSENT" => \E c \in Candidates : CandidatesOf(j) = {c}
    /\ j \in Unidentified => state[j] # "IMPORTING"

Stopped == {"DONE", "FAILED", "PARKED", "CANCELLED", "IMPORT_REFUSED",
            "NOT_IMPORTED", "ABSENT"}

\* A tick acting on what it read earlier never moves a job out of a state in
\* which the pipeline has let go of it: only the wanted list and the user do
\* (the from-guards of internal/store).
StoppedJobsStay ==
  [][(\E j \in Jobs : state[j] \in Stopped /\ state'[j] # state[j]) => Wanted \/ User]_vars

\* A permanently rejected release never enters the candidate cache of the job
\* that rejected it, although the history is read before the rows are written
\* (issue #317).
RejectionsHonoured ==
  [][\A c \in Candidates :
       (cand[c].st = "FREE" /\ cand'[c].st = "NEW") =>
         rejected[cand'[c].job][cand'[c].peer] \notin Permanent]_vars

\* What a tick may still do for a CANCELLED job: finish the hand-over it had
\* recorded. It starts no other, and once the peer has the file it compensates.
OnlyFinishes(t, next) ==
  /\ next.pc = "send" => t.pc = "send" /\ next.file = t.file
  /\ t.pc = "attach" => next = t \/ next.pc = "idle"

\* The cancellation barrier (RecordEnqueueIntent, AttachTransferID): once a job
\* is CANCELLED, whatever the goroutines had read before, none of its settled
\* rows comes back to life, and of its files each goroutine hands over at most
\* the one whose intent was committed first, and takes that one back.
CancellationBarrier ==
  [][\A c \in Candidates :
       (cand[c].st # "FREE" /\ state[cand[c].job] = "CANCELLED") =>
         /\ \A f \in Files : tr'[c][f] \in LiveTransfer => tr[c][f] = tr'[c][f]
         /\ sel.cand = c => OnlyFinishes(sel, sel')
         /\ dl.cand = c => OnlyFinishes(dl, dl')]_vars

-----------------------------------------------------------------------------
(* Fairness. The runner ticks every module for ever (pipeline/runner.go) and *)
(* a tick that fails is repeated, so a step that is enabled again and again  *)
(* is taken: strong fairness. Transfers settle because a deadline and a      *)
(* retry budget bound them. Nothing obliges the user or the wanted list.     *)

ReconcileSettles(c, f) ==
  \E to \in {"COMPLETED", "ERRORED", "CANCELLED"} : Reconcile(c, f, to)

DownloadingFairness ==
  /\ WF_vars(DownloadStop)
  /\ \A c \in Candidates, f \in Files : SF_vars(ReconcileSettles(c, f))
  /\ \A j \in Jobs :
       /\ SF_vars(ResolveRead(j))
       /\ SF_vars(dl.job = j /\ \E c \in Candidates : ResolveLook(c))
       /\ SF_vars(dl.job = j /\ \E S \in SUBSET dl.sent : ResolveSiblings(S))
       /\ SF_vars(dl.job = j /\ ResolveFailed)

FairSpec == Spec /\ DownloadingFairness

HasFailedRow(j) ==
  \E c \in ActiveCandidates(j) : RowsIn(c, {"ERRORED", "CANCELLED"}) # {}

\* The two-phase fail: a job with a failed file does not hold its slot for
\* ever, although its other files must first be stopped (resolve).
FailedDownloadLeaves ==
  \A j \in Jobs :
    (state[j] = "DOWNLOADING" /\ HasFailedRow(j)) ~> state[j] # "DOWNLOADING"

-----------------------------------------------------------------------------
(* What a comment of the code says and the code does not do. *)

\* downloading.go: all transfers COMPLETED -> IMPORTING.
ImportingIsComplete ==
  \A j \in Jobs : state[j] = "IMPORTING" =>
    \A c \in ActiveCandidates(j) : RowsIn(c, {"COMPLETED"}) = Files
=============================================================================
