# slusk: a TLA+ verification project

slusk mirrors Lidarr's list of missing albums, searches the Soulseek network for
each, downloads the best release a peer offers and has Lidarr import it. It also
is a Soulseek client of its own, with uploads, shares, searches and a place in the
distributed tree, and has a web dashboard. This directory models the parts of it
that keep state across concurrent steps, checks the models with TLC and proves with
TLAPS the safety of all of them but the index lookups.

Contents: [the system](#1-the-system), [the modules](#2-the-modules),
[the runs](#3-the-runs), [the proofs](#4-the-proofs),
[where the code departs from its comments](#5-disagreements),
[what is not modelled](#6-not-modelled).

To check everything: `tlc -config one.cfg MCAlbumJobs` and likewise for each run
of section 3, and `tlapm AlbumJobs_proofs.tla` and likewise for each `_proofs`
module.

## 1. The system

One process with a PostgreSQL database. Each component below is listed with the
state it keeps, what is hard about it and what makes it correct. `PROJECT.json` has
the same list with the sources, and the hazards line by line.

### The pipeline (`internal/pipeline`, `internal/store`, `internal/app`)

**Album job lifecycle** (`AlbumJobs`). State: tables `album_jobs`, `candidates`,
`transfers`, `candidate_rejections`. Five modules tick over them, each in a
goroutine of its own, each on a batch it reads at the start of its tick; HTTP
handlers of `internal/app` change the same rows at any moment.

    SyncWantedJobs        Discovery        Selecting         Downloading       Importing
      absent --> WANTED ------------> SELECTING -------> DOWNLOADING ------> IMPORTING --> DONE
                   ^  ^                  |   ^                |                  |    \--> NOT_IMPORTED
                   |  +--- none left ----+   +---- failed ----+------ rejected --+    \--> IMPORT_REFUSED
                   |                                          |                  |
                   +--- retry, force search, revival --- FAILED, PARKED <--------+
    CANCELLED: from any state (the user, the list, a delete)

Hard: a tick acts on rows it read before another goroutine or the user changed
them; nothing but the `WHERE` clause of each `UPDATE` protects it. A search lasts
minutes. Candidate and job move together or not at all. Correct means: a job that
holds one of the `MaxActive` slots has exactly one ACTIVE candidate; a stale tick
does not move a job the pipeline has let go of; a rejected release is not tried
again; after a cancel no further file is taken up, and the one whose intent came first is
taken back; a failed download gives its slot back.

**Transfer hand-over and reconcile** (`Transfers`). State: a row of `transfers` per
file, the backend's record of the same file, and what two goroutines hold of both.
`topUpCandidate` is called by Selecting right after an activation and by
Downloading at the end of each tick: intent (QUEUED without id), remote enqueue,
`AttachTransferID`, and a compensating cancel when the attach is refused.
`reconcile` reads the backend's list, then the rows, and settles each row by what
the list says; `resolve` then ends the candidate. Hard: the list is older than
the rows; two goroutines promote the same PENDING rows; a crash between intent
and attach; a backend that forgets everything or refuses every cancel. Correct
means: a settled file is not sent again, no file is given up without cause, no
running download is disowned, the per-peer budget holds, every row settles.

**Folders and import** (`Imports`). State: `job_download_folders`, the download
root with its two quarantines, `import_submitted_at`, Lidarr's command queue.
Importing verifies a download call by call (album id, preview, submit, mark),
confirms it on later ticks and gives up at a deadline; three goroutines delete,
rename and move folders back. Hard: a crash between any two calls; a name freed
and claimed again while the first owner's files are being deleted; an import Lidarr
completes late; a peer whose directory has the name of a quarantine. Correct means:
one live job per folder, every file on disk named by the register, nothing
quarantined deleted, a verdict in the end.

**Runner** (`RunnerHealth`, `Daemon`). One loop per module, a deadline per tick,
panics recovered; `/healthz` and `/readyz` are answered from the last attempt and
the failures in a row. Correct means: a slow module is not reported dead, a hanging
one is, and a recovered one is ready again.

### The native client (`internal/soulseek`)

**Download backend** (`NativeDownloads`, promising `RemoteTransfers`). State: a
registry by (username, filename) and one by token, a goroutine per download, part
files. Hard: a cancel and the goroutine's own failure write the same field; an
answer to an old token; a connection handed to a goroutine that has given up; a
Remove whose wait times out; resume after a crash. Correct means: the finished file
is whole, one goroutine writes a file, no connection leaks, and what
`ListDownloads` shows moves as the pipeline expects.

**Server link** (`ServerLink`). State: the server connection and its generation, the
read loop, the peer listener and its port, the announced counts, the watched users,
the mailbox. Hard: everybody writes to a connection that Run replaces, and a
listener is rebound while the client stops. Correct means: what the server knows is
what is published, what we know of users is of this session, a message is
acknowledged after it is stored, somebody listens as long as the client lives.

**Peer sessions** (`PeerSessions`). State: one registered session per (peer, kind),
coalesced establishments, pending tokens, waiters for an address, inbound slots.
Hard: a direct dial, an indirect one, an inbound connection and a mirror dial race
for one place while the server session ends. Correct means: one session per kind,
none of a dead generation, no socket or slot left behind, a stop ends.

**Distributed tree** (`DistributedTree`). State: the candidates, the parent, branch,
children, what was reported. Hard: messages are sent after the unlock by several
goroutines; a session closes while its registration is under way. Correct means:
children and server know the branch, no member without a session, no candidate
nobody watches.

**Uploads** (`Uploads`). A queue, slots, one goroutine per upload. Correct means:
never more than `slots` running, counters that survive a reset with uploads still
running, a place in the queue that only improves, the dispatcher never asleep with
a slot free and a request waiting.

**Share index** (`Shares`, `ShareLookups`, `ShareDeliveries`). A snapshot published
atomically and its stored copy, behind a one-slot scan; a metadata cache by size
and time; a search by trigram postings; a ledger of the answers sent. Hard: files
change under the scan; a stored index of another configuration; copies of one
search that race; a reading of tags that fails. Correct means: a quiet scan finds what
is there, snapshots do not go back, lookups find what looking at everything would, an answer is sent once.

**Searches** (`Searches`). Tokens, a registry, a bounded buffer per search, and the
dashboard's sessions with a limit. Hard: a search registers while the connection is
torn down; a reader must not wait for one that nobody reads. Correct means: nothing
that was found is lost silently, every search ends.

### Around it

**Event stream** (`Streams`, `internal/observ/stream.go`, `web/src/api/stream.tsx`):
subscribers share one ticker; each has boxes of one frame that are merged or
overwritten. Correct means: a page that stays open comes to show the rows and the
search as they are, and is sent word of what it fetches itself.
**Configuration** (`Configuration`): read, edit, check, write aside, rename, restart.
**Migrations** (`Migrations`): a lock, an order, one transaction each.
**Start-up and shutdown** (`Daemon`): bounded waits, the store closed last.
**Lidarr library** (`Library`): adding an artist when the answer may be lost.
**Messages** (`Messages`): stored before they are acknowledged, read by pages.

## 2. The modules

| module | content |
|---|---|
| `AlbumJobs` | the lifecycle: four tables, four goroutines, the sync, the user |
| `AlbumJobs_proofs` | its theorems: jobs and candidates, then transfer rows and rejections |
| `Transfers` | one download between the rows and the backend; theorems in `Transfers_proofs` |
| `NativeDownloads` | the native backend: registries, goroutines, connections, part files |
| `RemoteTransfers` | what a backend promises; `NativeDownloads` implements it |
| `Downloads_proofs` | the theorems of `NativeDownloads`, the refinement among them, and of `Imports` |
| `Imports` | from the last byte to Lidarr's verdict, and the folders meanwhile |
| `Uploads` | requests, slots, dispatcher, upload goroutines, history rows |
| `Shares`, `ShareLookups`, `ShareDeliveries` | the index; what it answers; how answers are sent |
| `Sharing_proofs` | the theorems of `Uploads`, `Shares` and `ShareDeliveries` |
| `ServerLink` | server sessions, port, shares, presence, mailbox |
| `PeerSessions` | every way to a session with one user |
| `DistributedTree` | parents, children and what they are told; theorem in `Tree_proofs` |
| `Network_proofs` | the theorems of `ServerLink` and `PeerSessions` |
| `Searches` | searches of the network and the dashboard's sessions |
| `Streams` | the event stream and the page that follows it |
| `Streams_proofs` | the theorems of `Searches` and `Streams` |
| `Configuration`, `Daemon`, `RunnerHealth` | the file; the process; its health |
| `Migrations`, `Library`, `Messages` | schema; artists; private messages |
| `Services_proofs` | the theorems of `Configuration`, `Daemon`, `RunnerHealth`, `Migrations`, `Library` and `Messages` |
| `MCAlbumJobs`, `MCTransfers`, `MCFiles`, `MCSharing`, `MCNetwork`, `MCStreams`, `MCServices` | TLC instances |

How they fit: `AlbumJobs` takes a transfer row as PENDING, SENT or settled and lets
reconcile settle a SENT row in any way; `Transfers` opens that box for one job with
the backend in it; `RemoteTransfers` is what that backend may do, and
`NativeDownloads` implements it. `Imports` opens IMPORTING and the folders of a job
and takes the rest of the lifecycle as "waiting". `ServerLink` owns the server
generation; `PeerSessions`, `DistributedTree` and `Searches` each take its start and
end as steps of their environment, and `NativeDownloads` and `DistributedTree` take
peer sessions that come and go. `Streams` follows the sessions of `Searches`.

**Parts.** The `MC` modules place several modules next to each other (`INSTANCE` with
variables renamed apart). A variable `part` says which of them moves in a behaviour;
the others keep one initial state. The state spaces are added, not multiplied, and
what is checked is each module by itself; the fairness of each is guarded by its
part. Most modules have a variable for the *scope* of a behaviour (how many faults,
requests, stops it may have), drawn initially from a small set, so that one run
covers several shapes of a situation without their product.

### AlbumJobs

One action is one transaction or one read. What a goroutine has read and not yet
acted upon is in its record (`dis`, `sel`, `dl`, `imp`), with `pc` the place in the
tick; between two of its steps any other goroutine and the user may commit.

| variable | code |
|---|---|
| `state`, `retries` | `album_jobs.state` (ABSENT: no row), `.retries` |
| `cand` | `candidates`: state, job, and the peer with its release directory |
| `latest` | which tried candidate of a job sorts first in `currentCandidateOrder` (the last row written) |
| `tr` | `transfers.state` by candidate and file; QUEUED, IN_PROGRESS and STALLED are SENT |
| `deferred` | `candidates.deferred_since`: not set, set, or set so long ago that the deferral has run out |
| `rejected` | `candidate_rejections`: cooldown, content fault, other permanent reason |
| `deleting` | jobs between `PrepareDeleteJob` and `DeleteJob` |

| actions | code |
|---|---|
| `Wanted` | `SyncWantedJobs` |
| `DiscoveryRead/Filter/NoViable/Excluded/Insert/Advance/Abort` | `Discovery.Tick`, `searchJob`, `failOrBackoff`, `InsertCandidates`, `AdvanceJobStateFrom` |
| `SelectRead/Next/NoneLeft/Exhausted/Expired/Activate/Skip/Reserve/Defer/FolderCeiling/Stop`, `SelectTopUp` (`SelectIntent/Refused/Enqueued/Attach/Compensate`) | `Selecting.Tick`, `selectJob`, `ActivateCandidateWithTransfers`, `reserveDownloadFolders`, `topUpCandidate` |
| `Reconcile`, `ReconcilePark`, `Resolve*`, `TopUp*`, `DownloadStop` | `Downloading.Tick`: reconcile, `resolveDownloadingJob`, `topUpDownloads` |
| `Import*` | `Importing.Tick`, `failCandidate`, `escalateIfStuck`, `failUnconfirmed` |
| `Cancel`, `PrepareDelete`, `DeleteJob`, `Retry*`, `ForceSearch`, `CreateManualJob` | `internal/app/jobs.go` and the store calls under it |

Between the intent of a file, its remote enqueue and the attach of its id anybody may
commit, a cancel too: the file then goes to the peer, and its goroutine compensates and
ends its tick (`HandOver`, `OnlyFinishes`).

A crash needs no action of its own: every tick may end after any step
(`DiscoveryAbort`, `SelectStop`, `DownloadStop`, `ImportStop`), and the records
hold nothing that survives one.

Abstractions: a tick works on one job of its batch at a time, read at an arbitrary
earlier moment; clocks are open (any `not_before`, cooldown, TTL or deadline may
have passed); the order of candidates by score is open; which folder names collide
is open; what Lidarr answers is open. Row ids are drawn from `Candidates` and
return to the pool when nothing refers to them, so a run with few ids still covers
executions with many rows over time.

### Transfers

| variable | code |
|---|---|
| `job` | the job's state, as far as the transfer statements ask for it |
| `row` | state, id known, retries, past its deadline, stall clock set |
| `attempt`, `candidate` | which rows and which candidate are current; a stale goroutine holds older ones |
| `remote` | the backend's record of each file; STOPPING is a native download that is cancelled while its goroutine lives |
| `top` | `topUpCandidate` in each of the two goroutines, with the rows it read |
| `dl` | reconcile and resolve, with the list and the rows they read |
| `cancelling` | ids `Jobs.Cancel` has captured and is still to cancel |
| `faults` | how many restarts, failed ticks and failed writes have happened |

The constants `Native` and `Manual` choose the backend (`internal/soulseek` or
slskd over HTTP) and the source of the job, which decides whether a retry keeps
the candidate row. Every row loop of `reconcile` is one action per outcome:
recovery of a missing id (`RowAttach`, `RowCompensate`), overdue (`OverdueCancel`,
`OverdueCancelFails`, `OverduePark`, `OverdueLost`), lost (`ActiveLost`), retryable
rejection (`ActiveRejected`), stall (`ActiveStalled`, `StallCancel`, `StallFinish`,
`RowStallEnded`) and the plain copy (`ActiveCopy`); `Purge` is `removeFromSlskd`.

Abstractions: one job and one release, again in each attempt; no byte counts, so a
transfer with a stall clock may or may not have stalled; no folder reservation;
between a retry and the next activation there are no rows.

### The others

One action is one critical section, one call (network, file system, database) or one
step of a goroutine between two of these.

| module | state | actions | code |
|---|---|---|---|
| `NativeDownloads` | `tr` (transfers and where their goroutine is), `byKey`, `byToken`, `conns`, `removal`, `disk` | `Enqueue`, `Cancel`, `Remove*`, the frames of the peer, `RunDownload`'s phases and `streamFile`'s system calls, the connection's claim and hand-off, stop, restart | `downloads.go`, `fileconn.go` |
| `RemoteTransfers` | `state`, `stored` | `Enqueue Remove Store Overwrite Start Complete Fail Cancel Forget` | what `Transfers` takes from `ListDownloads` |
| `Imports` | `job`, `rows` (the register), `disk`, `failed`, `refused` (quarantines), `lidarr`, `work` (what each goroutine is at) | activation, the Importing tick call by call, `cleanupFolder` leaf by leaf, both quarantines, the retries, Lidarr's commands, crash | `importing.go`, `paths.go`, `download_folders.go`, `lidarr/client.go` |
| `Uploads` | `jobs`, `waiting`, `byKey`, `active`, `perUser`, `byToken`, `wake`, `dispatcher` | `Enqueue`, the dispatcher's loop, an upload from open to its history row, share change, stop and reset | `uploads.go` |
| `Shares` | `fs`, `mount`, `meta`, `index`, `snapshot`, `failure`, `initial`, `slot`, `scan` | load, initial scan with backoff, rescan, a scan file by file, build, save, cache flush, stop, crash | `shares.go`, `shareindex.go`, `sharemeta.go`, `main.go` |
| `ShareLookups` | one input and its answer | `Match`, `FolderResponse` | `shares.go` |
| `ShareDeliveries` | `at`, `matching`, `sending`, `inFlight`, `recent`, `expired` | slots, match, reserve, connect, send, finish, expiry, stop | `shares.go` |
| `ServerLink` | `run`, `conn`, `srv`, `readers`, `ports`, `poller`, `shares`, `presence`, `mail`, `inbox` | `Run` step by step, the read loop, the port's poller, announcements, presence sync, message worker, stop | `client.go`, `presence.go`, `gluetun.go` |
| `PeerSessions` | `job` and `sock` of every attempt, `sess`, `sessions`, `closedGen`, `flights`, `pending`, `asking`, `slots` | the steps of a caller, a dial with fallback, an inbound connection, a mirror dial, `Register`, `CloseGeneration`, stop | `sessions.go`, `peers.go`, `listener.go` |
| `DistributedTree` | `tree`, `cand`, `children`, sessions and their hooks, `workers`, `out`, `told` | offers, candidate workers, promotion, the parent's frames, joins and leaves of children, server resets, queued reports | `tree.go` |
| `Searches` | `registry`, `reserved`, `buffer`, `run`, `reader`, `session` | reserve, register, send, take, finish, drain, offer, fail all; session start, stop, eviction | `soulseek/search.go`, `app/search.go` |
| `Streams` | `hub`, `subs`, `ticker`, `runs`, `box`, `browser` | subscribe, correlation tick, tick, the four writers, the page's handlers but for its own fetches | `observ/stream.go`, `web/src/api/stream.tsx` |
| `Configuration` | `disk`, `durable`, `post`, `temps`, `process` | a save step by step, hand edits, kill, power loss, restart | `config/write.go`, `config/config.go`, `observ/config.go` |
| `Daemon` | `main`, `database`, `server`, `handler`, `ticking`, `runner`, `soul`, `outcome` | the steps of `main` up and down, and what it waits for | `cmd/slusk/main.go` |
| `RunnerHealth` | `loop`, `since`, `ticker`, `status` | `Begin`, `Finish`, `Hang`, `Pass` (of time) | `runner.go` |
| `Migrations` | `versions`, `schema`, `lock`, `opening` | open, lock, each statement, commit, unlock, kill, expiry of a connection | `migrate.go`, `store.go` |
| `Library` | `artist`, `create`, `add` | a request step by step; a create that lands, is refused or loses its answer; a look (`Look`) and what the client makes of it (`Conclude`) | `lidarr_library.go`, `lidarr/client.go` |
| `Messages` | `kept`, `worker`, `draft`, `rows`, `thread` | deliver, insert, commit, acknowledge; send; read a page | `messages.go` |

**The refinement.** `NativeDownloads!ImplementsTransfers` is `RemoteTransfers!Backend`
with `state` mapped to what `ListDownloads` shows of a key and `stored` to "the
finished file is in place and whole": no transfer is shown as completed before its
file is in place, a completed one is not cancelled, an ended one may still change
between failed and cancelled (the code does that), and every active transfer ends,
under weak fairness of its goroutine. What is stored may be lost again as long as
the transfer is not shown as completed (`Overwrite`): with three transfers of a key,
TLC finds that a Remove which gave up waiting leaves a goroutine that renames its
successor's partial file over a finished one. `Transfers!RemoteStep` and
`CancelRemote` let the backend do what `RemoteTransfers` does and, besides, forget at
a restart. The safety part is also a theorem (section 4).

**Assumptions of the models** that a reader should know: in `NativeDownloads`, a
Remove's wait does not run out before the watcher of the stream has closed the
connection (both are immediate after the cancel); callers are orderly, that is,
nobody enqueues a key while it is being removed (the pipeline registers the folder
first). In `Imports`, a list names a job again only when no worker still tidies it,
and a folder with no file counts as absent.

## 3. The runs

| run | instance | states |
|---|---|---|
| `one` | 1 job, 3 candidate rows, 2 peers, 1 file, MaxRetries 2, MaxCandidates 2 | 644 k |
| `two_files` | 1 job, 1 candidate row, 2 files, fair | 54 k |
| `manual` | 2 manual jobs (one without an album), 2 candidate rows, 1 peer, 1 file | 1.6 M |
| `slskd` | 1 file, 2 attempts, slskd, manual job, 1 retry, 1 fault, fair | 609 k |
| `handover` | 2 files, room for 1, native, Lidarr's job, 1 retry, 1 fault | 3.1 M |
| `files` | 1 key, 2 blocks, 2 transfers, 2 connections, 2 offers, a stop or a restart; 2 import jobs (one a user's), names `L` and `.failed`, 1 fault | 416 k |
| `sharing` | 2 users, 1 slot, 3 uploads of 1 block, 2 runs, 1 rescan; 2 shared folders with a file each; 21,600 lookups; 4 requests | 289 k |
| `network` | 1 watched user, 2 messages, 2 ports, 2 server sessions; 3 attempts in 4 casts; 2 parents, a parent and a child, or 2 children | 463 k |
| `stream` | 2 connections, 2 rows, 2 groups, 3 samples; 2 searches, 2 tokens, 2 readers | 125 k |
| `services` | 2 saves, 1 handler, 2 modules, 2 processes, 2 requests, 2 letters (one without id), 1 draft | 154 k |
| `stale_advance`, `done_imported` | must find a violation, see section 5 | |

Between them the passing runs fire every action.

**Conjunctions.** Most modules end with a conjunction of named properties which a run
checks as one; the parts say what is meant:

| checked | its parts |
|---|---|
| `DownloadIsWhole` | `DownloadHasRows VerdictStillHolds` |
| `RowsEndRightly` | `SettledIsFinal ErroredIsJustified` |
| `BudgetsHold` | the types of `Transfers`, `BudgetShared` |
| `DownloadsAreSound` | `NoConnLeaks FileIntact NoPartAfterRemove OneOrchestration` |
| `FoldersAreSound`, `ImportsEndWell` | `FoldersAreNamed OneWriter`; `QuarantineKept ImportingEnds` |
| `UploadsAreSound`, `RequestsAreServed` | `SlotsHeld CountersAgree RowTellsVolume`; `PlaceNeverGrows EveryRequestEnds` |
| `SharesAreSound`, `SharesGoForward` | `QuietScanIsRight NoForeignFolder SharedOrTold`; `SharesNeverGoBack SharesInTheEnd` |
| `LookupsAreComplete` | `SearchIsComplete FolderIsComplete`, each against a plain definition |
| `DeliveriesAreSound` | `SlotsAreUsed AnsweredOnce LedgerIsBounded RefusedForAReason` |
| `LinkIsSound`, `LinkFollows` | `ServerHasShares PresenceIsCurrent ListenersFollowLife`; `AckFollowsStore WatchSettles` |
| `SessionsAreSound` | `NothingLeaks OneSessionPerPeer NoSessionOutlivesServer RoomForAnswer DownIsClean` |
| `TreeIsSound` | `MembersHaveSessions ChildrenKnowBranch AcceptIsCurrent ServerIsTold CandidatesAreWatched` |
| `StreamIsSound`, `PageFollows` | `EndedMeansAll SamplesInOrder`; `RowsFollow SearchFollows InvalidationsAreSent` |
| `SearchesAreSound`, `SearchesEndWell` | `NoneOutlivesLink NothingIsLost BusyWithinLimit`; `DoneIsFinal SearchesEnd` |
| `FileIsSound` | `FileLoads AckedIsOnDisk SavedAsAsked TempsAreTidied` |
| `ShutdownIsSound` | `StoreOutlivesItsUsers FlushMeetsStore CleanExitIsClean` |
| `SchemaIsSound` | `WholeAndOnce OneMigrates EachMeetsItsSchema OpenIsCurrent` |
| `MessagesAreSound` | `StoredOnce ForgottenIsStored SentRowsLeft ThreadIsWhole` |
| `HealthIsTrue`, `AddsAreTruthful` | `NoFalseAlarm HangIsReported ReadyAgain`; `SuccessMeansThere LandedIsNotFailed EveryAddIsAnswered` |
| `WorkComesThrough` | `SavesTakeEffect StartsEnd LettersArrive` |

**The bounds**, and why they are enough for the questions asked:

- *One job* in `one` and `two_files`: no statement of the lifecycle reads another
  job's rows except the active count, the folder owner and the owner of a remote
  file. `manual` has two jobs of one peer, which meet in the last two.
- *Three candidate rows of two peers*: one being tried, one to fall back to, and
  one of a second cycle for a peer seen before, which is what the rejections are
  about.
- *Two retries* (`one`): one failure within the budget and one that exhausts it.
  The same for `MaxTransferRetries = 1` in `Transfers`: the counter may be read
  within the budget and be past it when written.
- *Two files*: one may be pending while the other is sent, finished or failed. The
  sibling phase and the budget need no more; three files add symmetric copies.
- *Two attempts* (`slskd`): everything a goroutine can hold is at most one attempt
  old, because Selecting tops up what it has just activated.
- *One fault* (`slskd`, `handover`, `files`): each single crash, aborted tick or
  failed call at every point. Two faults in one attempt are not covered.
- *Two of a kind* elsewhere: two transfers of a key (the one removed and its
  successor), two uploads of a user and a third of another, two connections of a
  page, two searches, two processes, two saves, two server sessions. The
  properties relate an old one to a new one, or one to its rival. Where a third
  matters it is there: three attempts of `PeerSessions` (two rivals and the one a
  leader stands for), four requests of `ShareDeliveries` (a ledger of two at its
  cap with two more copies), three samples for a box of two.
- *Two blocks of a downloaded file*: nothing, a part, or all of it is there. An
  uploaded file has one, since nothing of an upload depends on how far it got but
  the bytes it reports (`Sharing_proofs` covers every size). *Levels 0 and 1*
  of a branch: at the root or below it.
- *Lookups*: names of one to four letters out of two with grams of two, all searches
  of up to two terms of up to three letters; folder names with characters just
  before and after the separator and both cases. Shorter than a gram, a gram, and
  longer all occur, as do one to three postings.
- *Scopes* of `ServerLink`: port, shares and presence in pairs, since each pair
  shares a lock or the connection; three at once add no new meeting.
- *Scopes* of `NativeDownloads`: two transfers of a key with a Remove between them;
  the same over a restart, where callers remove only after it, since a Remove that
  the restart cuts off leaves nothing the restart alone does not leave; one transfer
  that is offered two tokens; one that meets a stop.
- *Scopes* of `DistributedTree`: two parents; a parent in two server sessions; a
  parent and two events (resets, embedded searches, capacity changes); a parent, a
  child and one event; two children and three events.
- Symmetry (`RowSymmetry`: candidate rows, peers, files) is used in safety runs of
  `AlbumJobs` only, where nothing orders them.
- Deadlock is checked for `AlbumJobs` and `Transfers`, where a restart, the sync or
  the user can always act. In the composed runs bounded work simply ends.

What some of the properties say, beyond their definitions:

- `ActiveCandidate`: both Downloading and Importing skip a job without an ACTIVE
  candidate, so a job that holds a slot without one would hold it for ever.
- `RefusedRevivable`: "retry import" finds its candidate by an order over
  timestamps; no interleaving of deferrals, retries and failures puts another
  candidate first.
- `VerdictStillHolds`: as long as the candidate resolve has read is the ACTIVE one
  of a DOWNLOADING job, its rows still say what they said. That the write does not
  ask whether it still is the same candidate is finding `stale_advance`.
- `DisownedWasAbsent`: reconcile forgets a running download only when its list had
  not named it. That it can do even this is (d) in section 5.
- `CancellationBarrier`: a cancel does not undo an intent that was committed before it. That
  file is handed to the peer all the same; what holds is that it is one at most for each
  goroutine, that the goroutine then takes it back, and that no settled row is revived.
- `LandedIsNotFailed`: of a create whose answer was lost; what it leaves open is (j).
- `InvalidationsAreSent`: ends at the box of the connection; what happens to it there is (g).
- `QuietScanIsRight`: up to failed readings of a file's tags, which are (k).
- `BudgetShared`: two top-ups each count the budget from their own read and are
  kept within it by handing files over in one common order.

Some hold but for a named exception that the code really has, and say so in their
definition: `FoldersAreNamed` (jobs whose registration failed), `SharesNeverGoBack`
(a rescan that could not be stored), `ServerIsTold` (two goroutines about to send the
same kind of report), `SavedAsAsked` (an absent weight set to zero),
`InvalidationsAreSent` (the first fingerprint, which is news to nobody), `OneOrchestration` and
`NoPartAfterRemove` (a Remove that timed out), `StoredOnce` (letters without an id).
The variables that record them (`missed`, `told`, `unsaved`, `raced`) are the models' own.

**Fairness.** What the code's scheduling gives, and nothing of the peer, the server,
Lidarr or the user unless named:

- `AlbumJobs`: the runner ticks every module for ever and a step that fails is tried
  again on a later tick, so the steps of Downloading and Selecting that are enabled
  again and again are taken (strong fairness per job: between two ticks a job may
  leave and re-enter the state), a tick does not hang (its timeout), and a SENT row
  settles, which is what `TransferSettles` shows from less.
- `Transfers`: Downloading and Selecting keep stepping, captured cancels are carried
  out, a deadline passes for a row that stays sent, and of the outcomes of an overdue
  cancel one that settles the row comes in the end, because the refusals outlast
  `overdueCancelGracePeriod`.
- `NativeDownloads`, `Uploads`, `PeerSessions`, `Searches`: each goroutine keeps
  stepping; every wait has a deadline, so a refusal is always among its steps.
- `Imports`: the Importing loop ticks for ever and deadlines pass. `Shares`: the
  start-up goroutine and a scan go on, and an unmounted folder is mounted again in
  the end. `ServerLink`: Run and the announcement go on.
- `Streams`: handlers, writers and ticks go on; strong fairness for the reads, which
  may fail a bounded number of times. What is shown of a page is so while it stays
  connected.
- `Daemon`: main goes on and time limits run out; those who are waited for may hang.
  `RunnerHealth`: time passes once what is due has begun. `Migrations`: a process
  goes on (strong: it needs the lock again and again), the database ends dead
  sessions and the pool ends old connections. `Messages`: the worker goes on and the
  server delivers again what it keeps. `Configuration`: the process that was asked to
  restart ends and is started again. `Library`: a request goes on.

**Mutants.** Every property of a passing run has a mutated definition in its
module (a comment "Mutant:" above it) that breaks it: a missing from-guard, an
unsorted list, a connection kept open, a slot given back twice, a filter not
consulted, a wait without a limit.

## 4. The proofs

Each theorem holds for all values of the constants that the assumptions named below
allow, any sets of jobs, candidates, peers, files, users, requests, keys, tokens and
transfers among them.

| theorem | states |
|---|---|
| `AlbumJobs_proofs` | |
| `TypeCorrect` | `Spec => []TypeOK`, with `retries < MaxRetries` |
| `OneActive` | `Spec => []ActiveCandidate` |
| `RefusalRevivable` | `Spec => []RefusedRevivable` |
| `StoppedStay` | `Spec => StoppedJobsStay` |
| `CancelledStaysQuiet` | `Spec => CancellationBarrier` |
| `DownloadWhole` | `Spec => []DownloadIsWhole` |
| `ManualKept` | `Spec => []ManualKeepsItsPeer` |
| `RejectionsStand` | `Spec => RejectionsHonoured` |
| `Transfers_proofs` | |
| `RetriesBounded` | `Spec => []TypeOK`, with retries at most one past the budget |
| `RowsEnd` | `Spec => RowsEndRightly` |
| `NoneDisowned` | `Native`, one activation: `Spec => DisownedWasAbsent` |
| `BudgetsHeld` | `Native`, one activation: `Spec => []BudgetsHold` |
| `Downloads_proofs` | |
| `DownloadsHold` | orderly callers: `Spec => []DownloadsAreSound` |
| `BackendImplemented` | orderly callers: `Spec => Abstract!Spec`, the safety of the refinement |
| `FoldersHold` | `FilesSpec => []FoldersAreSound` |
| `QuarantineStays` | `FilesSpec => Import!QuarantineKept` |
| `Sharing_proofs` | |
| `UploadsHold` | `Spec => []UploadsAreSound` |
| `PlaceOnlyFalls` | `Spec => PlaceNeverGrows` |
| `DeliveriesHold` | `SharingSpec => DeliveriesAreSound` |
| `SharesHold` | `SharingSpec => []SharesAreSound` |
| `SnapshotsGetNewer` | `SharingSpec => Index!SharesNeverGoBack` |
| `Network_proofs`, `Tree_proofs` | |
| `LinkHolds` | `Spec => []LinkIsSound` |
| `AcknowledgedIsStored` | `Spec => AckFollowsStore` |
| `SessionsHold` | `Sessions!Spec => []SessionsAreSound` |
| `TreeHolds` | `Tree!Spec => []TreeIsSound` |
| `Streams_proofs` | |
| `SearchesHold` | `StreamsSpec => []SearchesAreSound` |
| `DoneStaysDone` | `StreamsSpec => Network!DoneIsFinal` |
| `StreamHolds` | `StreamsSpec => []StreamIsSound` |
| `Services_proofs` | |
| `StoreClosesLast` | `Spec => []ShutdownIsSound` |
| `MessagesHold` | `Spec => []MessagesAreSound` |
| `SchemaHolds` | `Spec => []SchemaIsSound` |
| `FileHolds` | `Spec => []FileIsSound` |
| `SlowIsNotDead` | `Spec => [](Health!TypeOK /\ Health!NoFalseAlarm)` |
| `AnswersHold` | `Spec => [](Artists!TypeOK /\ Artists!SuccessMeansThere) /\ Artists!LandedIsNotFailed` |

**Assumptions on the constants**, each named in the module that declares them and
evaluated by TLC in the runs: `ConfigAssumption` (manual jobs are jobs, the limits are
positive, a release has a file: what `Config.Validate` and the callers enforce),
`NoneAssumption` (`None` is not a row), `TransfersAssumption` (a release has finitely many
files, numbered in the order of their names, and the peer's budget is positive),
`DownloadsAssumption` (sizes and bounds are naturals and no token is 0; a file may be
empty), `UploadsAssumption` and `LinkAssumption` (bounds are naturals, and port 0 is no port),
`DeliveriesAssumption` and `SharesAssumption` (finitely many requests; limits are naturals,
the files whose tags are read are files, and a scope has the fields a scope has),
`SessionsAssumption` (finitely many attempts, told apart by positive numbers, and a
server session to begin with), `TreeAssumption` (no user is both a possible parent and a
possible child, for the direction of a session is fixed when it is made),
`SearchesAssumption` (finitely many searches), `StreamAssumption` (0 is no connection, the
cap of the samples is a natural), `SchemaAssumption` (a process knows finitely many
versions, which are naturals), `ChatAssumption` (numbers are naturals), `ConfigAssumption`
of `MCServices` (finitely many handlers, and the first file is one that loads),
`HealthAssumption` (a ticker has an interval), `LibraryAssumption` (a lost create is looked for
at least once) and `ImportsAssumption`. The last, `SharesAssumption`, `TreeAssumption` and `SearchesAssumption`
also keep `None` apart from what it is the absence of.

`FilesSpec`, `SharingSpec` and `StreamsSpec`, and the `Spec` of `MCServices`, are the composed
specifications that the runs check: such a theorem says besides that what the other
parts do leaves the component alone. `Sessions!Spec` and `Tree!Spec` are the components'
own.

**Jobs and candidates.** `ActiveCandidate` is not inductive: a stale
`SelectActivate` or `ResolveFailed` could break it from an unreachable state in
which the goroutine holds another job's row. `IInv` adds what the goroutines hold:

- `HeldRows`: a row held by a tick belongs to the job the tick works on, or has been
  deleted (row ids are not reused while held);
- `DisHolds`, `SelHolds`: while Discovery is searching, the job it read as WANTED is
  WANTED, CANCELLED, FAILED or gone (Selecting takes only jobs that only Discovery
  advances); the same for Selecting with SELECTING. This is the one-goroutine-per-
  module argument, and without it a second activation is possible;
- `DlHolds`, `ImpHolds`: past their first reads they hold an actual row.

`RefusedRevivable` needs three more parts (`RInv`): `latest` names a row of its own
job, a refused job's `latest` is the failed row, and a job has a SUCCEEDED row only
once it has ended. `StoppedJobsStay` and `CancellationBarrier` are action
properties, proved action by action from `IInv`. The layout: lemmas on the types of
each store helper, then "what a step keeps" lemmas (`Kept`, `TableStep`,
`QuietStep`) so that each action states only what it changes, then one lemma per
action or group of actions, joined in `IInvStep`.

**Rows and verdicts** (`RowInv`). That resolve judges a download as what it is rests on
an argument about two goroutines and a clock: only Selecting could fail the row that
resolve judges, at the ceiling of a wait that began before its own tick, and such a
row has had no file sent yet (`Judged`, `Waited`, `Sent`); siblings cancels all that is
still live (`SiblingsKnown`). `RejectionsHonoured` needs that the peers
the search let through stay allowed until they are written (`PeersHonoured`): only
Importing rejects for good, and not while the job is searched for.

**Manual jobs** (`ManualServed`). No statement may take the only row such a job has, and none
may send it back to a search, whatever was read before. Each action is shown to keep both the
rows of the job and its way through the states (`StateKeeps`, `RowsOfKept`); a manual job
without an album is kept from Importing because only Importing refuses an import, so that
none is ever retried from there.

**Retries and budget** (`Transfers`). The retry counter is written by two goroutines
from what each has read. `RetriesAbove` bounds it: no row has more retries than a
goroutine still about to write has read, but for the one Selecting may add, because
Selecting retries a file at most once in an activation; `RetriesBelow` says none has
fewer, so that a spent budget stays spent. For the budget of a peer, `Ranked` counts
*up to* a file: a file is sent only when at most `MaxInflightPerPeer` of the files that
come no later in filename order are undelivered. Two goroutines can then not exceed it
together, because the latest file that runs witnesses the count of all. The proof shows
what this rests on, and its two hypotheses cannot be dropped; TLC has a counterexample
for each:

- `Native`: slskd may refuse a file, which is then passed over, and the order is lost;
- `MaxAttempts = 1`, one activation: after a cancel and a new activation the downloads
  of the attempt before run beside the new ones until the captured cancels arrive.

`DisownedWasAbsent` needs them too: with slskd, a row whose cancel is refused long enough
is given up by design (`OverduePark`), and what a pass has handled says nothing about
the rows of the next activation. `Gone` is its invariant: what the list said was over
is over still, for the backend keeps its records until they are removed.

**Downloads.** The invariant (`FilesInv`) names the owner of each key: its transfer, or
the one being removed until its partial file is gone. Whoever else runs for that key
has been cut off by a Remove that was late (`Ownership`). Partial files are inodes
named after the transfer that created them; one goroutine at most has an inode open
(`Inodes`), it is as far as its file is long (`Writers`), and a partial file is its
owner's (`Parts`). Hence a completed download's file is of full length, and since each
block is written at the offset it belongs to (`Written`), it has every block once and in its
place. *Whose* blocks they are is not promised: `byToken` is keyed by the token alone,
which each peer chooses for itself, so that a connection of one peer may be taken for
another's (section 5). One hypothesis is stated, not hidden in the model, `OrderlyCallers`:
nobody enqueues a key while it is being removed. The pipeline registers the folder before
it enqueues into it and removes transfers first.

`BackendImplemented` takes every step to a step of `RemoteTransfers` or to a stutter,
under the map of section 2. A step is one of three kinds: it changes the state of one
transfer (`TransferShown`: the states a goroutine may move between are those the
abstract actions allow, and COMPLETED only with the file in place), it makes a key
known or forgets it (`EnqueueShown`, `ForgetShown`), or it changes files and nothing
that is seen (`FilesShown`, where `OneFile` says that no other key's file changes).

**Uploads.** `UploadInv` relates the queue, the map and the jobs (`QueueAgrees`), and
counts: `active` is the number of active jobs, `perUser` that of a user's entries. That no
more run than there are slots is not the counter's doing after a reset, which zeroes it
with uploads still running: it holds because a client that starts again has waited for
its goroutines (`life = "down"` implies that none runs, `SlotsCounted`). `PlaceNeverGrows`
follows from what a place is (`PlacesTold`): its index, which removals only lower.

**Folders** (`FoldersInv`). Every goroutine of `Imports` acts on a job it read some calls ago.
`WorkersKnow` says what of that reading still holds at each place: the state the job can
have moved to, whether it still claims its folder, what is left to delete. With it,
`ClaimsAreNamed` (a claim has a row of the register) and `Alone` (of the jobs with one
folder name, one downloads), both but for jobs whose registration failed, are kept by
every action, a crash among them.
`QuarantineKept` needs none of it: it is proved action by action, because a clean-up only
ever takes the names in the download root.

**Answers to searches** (`DeliveryInv`). A key is reserved by one request at a time and is
in one part of the ledger only (`OneReservation`), and what has been answered is in the
ledger or about to be (`AnswersKnown`).

**Share index** (`IndexInv`). That a quiet scan is right, although it believes a cache left by
scans that were overtaken, failed or crashed, is an argument about time: each entry, in
the file, in the scan's memory or among what the scan has found, was true of its file at
the moment of the attributes it carries (`MetaIsPast`, `CachedIsPast`, `FoundIsPast`), so it
is either true now or does not match (or says that a reading failed, which is believed like
any other entry); and a scan since whose start nothing was written has
seen the present (`QuietIsRight`). `NewestIsStored` says that the published snapshot is also
the stored one unless storing failed, from which `SharesNeverGoBack` follows.

**Server link** (`LinkInv`). Run is the only one to replace the connection, and one goroutine
reads it (`OneReader`); who holds `announceMu` is who tells the server, and what was
written under it is what the server has (`AnnounceMu`, `ServerTold`); the presence tracker is
of the session that filled it (`TrackerFollows`); each open port is the listener's or its
poller's, and the listener stands until the stop (`PortsOpen`, `ListenerLives`); a message in
the mailbox carries the session it came in (`MailIsOfSession`).

**Peer sessions** (`PeerInv`). The proof places everything an attempt can own by where the
attempt is: its socket (`SocketWhere`), its place in the register (`SessionWhere`), an answer
that waits for it (`AnswerWhere`), its leader or follower (`HoldsWhere`) and its inbound slot,
counted by `SlotsAddUp`. `GenerationsClose` ties the closed generation to the place of Run,
which is why a late `Register` is refused; `OnlyCallersLeft` says who may still be at work
after a stop: callers, who hold what they were given until they let go of it.

**Distributed tree** (`TreeInv`). There is one list of candidates being tried, one worker per
user and list, and one dial per user (`OneList`, `OneTry`, `OneDial`), so that each candidate
has the worker that will drop it (`UsersTried`, `CandidatesTried`). What is told lags behind what
is decided by what is queued: the last report of a kind in the queue, or the last one sent
when none is queued, is the present state, but for a kind of which two were under way at
once (`ReportsFollow`).

**Searches** (`SearchInv`). Three layers: tokens are apart and the registry names a search of the
present server session (`TokenInv`); a dashboard session is live exactly while its goroutine
runs (`LiveWhileRunning`), so that counting the live ones counts the goroutines
(`LiveWithinLimit`); the results taken, buffered and dropped are together all that was
offered, each part in order (`ResultInv`).

**Event stream** (`FeedInv`). A box holds one frame for several that were written, so what a page
has plus what is in its box has to be all that the ticker believes it sent. `FramesFit` says
so twice: for search frames, the page's groups with those of the box are the groups the
subscriber is taken to know (`SearchFits`); for samples, what the page has and what the box
holds rise, and the newest `ThroughputCap` of what was sent are among them (`SamplesFit`).
`NothingAhead` keeps a subscriber from being taken to know what does not exist yet.

**Shutdown** (`DaemonInv`). What each stage of main has waited for (`EndTells`), as long as no
wait ran out; the runner reports its end only after every loop's (`RunnerTells`).

**Configuration** (`FileInv`). Whatever a power loss may leave of the file loads
(`ContentsLoad`) and is no older than what was acknowledged (`AckedIsKept`); a save
past its checks carries the document with its edits applied (`WrittenIsApplied`), and renames
only what is flushed (`SyncedIsFlushed`) from a temporary of its own (`TempsAreOwn`).

**Migrations** (`SchemaInv`). A process at work still has every version before it that it knows
and the table lacks, in rising order (`TodoIsRest`, `TodoRises`), a transaction under way is of a new version (`TxIsNew`), and the statements in
effect are those of the recorded versions and no other (`EffectsRecorded`, `RecordedInEffect`,
`EffectsOnce`). `OperatorIsOpen`: destructive migrations run in a store that is open, hence after
all the routine ones the process knows.

**Messages** (`ChatInv`). An id is given out when the row is inserted and seen when it commits,
so ids commit out of order (`IdsGiven`, `PendingIdsDiffer`). `ForgottenIsStored` needs what the
worker knows of its letter at each step (`WorkerKnows`). For `ThreadIsWhole`: the pages shown
fall (`ShownFalls`), and the rows that were there when reading began and are not below the
last id shown have been shown (`FirstIsShown`); that a page of the highest ids below a bound
leaves none out is an induction over numbers.

**Health** (`HealthInv`). No false alarm is a sum of two waits (`TicksAreTimely`): a tick under way
is no older than its limit, and a module that waits for its ticker has at most an interval
before it, so that the time since its last attempt and the time to its next are together
within the deadline.

**Artists** (`LibraryInv`). Who was answered, created or refused tells that the artist is there,
and one create alone can have landed (`AnswersAreTrue`). Once the artist is there and a look is
to come, each look finds it or fails, and neither leads to a failure (`Found`).

**Induction over numbers** is within reach, by the minimum of a set of naturals
(`WFMin` with `NatLessThanWellFounded` of `WellFoundedInduction`): finite sets of naturals can be
listed in order, rising sequences have no repetition. The theorems of that module that take an
operator are not used.

**Only model-checked.** What mentions fairness is beyond the prover: `FailedDownloadLeaves`,
`TransferSettles`, the `TransfersEnd` of `ImplementsTransfers`, the `ImportingEnds` of `ImportsEndWell`,
`EveryRequestEnds` of `RequestsAreServed`, `SharesInTheEnd` of `SharesGoForward`, `WatchSettles` of
`LinkFollows`, `StopEnds`, `PageFollows`, `SearchesEnd` of `SearchesEndWell`, `ExitInTheEnd`,
`WorkComesThrough`, and of `HealthIsTrue` and `AddsAreTruthful` what must happen in the end
(`HangIsReported`, `ReadyAgain`, `EveryAddIsAnswered`). `LookupsAreComplete` is what folded
definitions compute from every input, an induction over data.

## 5. Disagreements

Two are runs that must find a violation; `PROJECT.json` quotes the lines.

| run | what the code does |
|---|---|
| `stale_advance` | resolve's move to IMPORTING names the job but not the candidate it read; after a cancel, a re-want and a new activation it sends the new, unfinished download to import (1 job, 2 candidate rows) |
| `done_imported` | a clean-up empties a rejected folder; the write that would fail the candidate does not happen (crash or error); the next tick finds the preview and the folder empty and ends the job as DONE |

Others where code and comment differ, without a run of their own:

- (a) Selecting, having found no candidate, fails a job the user has just forced into
  a new search (`selecting.go:262` against `store/pipeline.go:830`).
- (b) A manual job that is retried keeps its old `deferred_since` and fails at its
  first deferral (`store/pipeline.go:301` against `candidates.go:501`).
- (c) A job cancelled by the sync keeps its live rows, which nobody may write any
  more; a retried manual job for the same file waits for them for ever
  (`store/pipeline.go:591` against 290: "a transient wait, not a livelock").
- (d) A file handed over after reconcile's list and before its rows is taken for lost
  and loses its id while its download runs; a cancel then has nothing to cancel
  (`downloading.go:492` against `app/jobs.go:110`).
- (e) resolve cancels a sibling read as PENDING in the store alone, although Selecting
  may have sent it meanwhile, and deletes the folder under it (`downloading.go:684`).
- (f) Login reads `listenPort` before it takes `serverWriteMu`: the server may keep
  the old port for the session (`client.go:931` against `gluetun.go:68`).
- (g) An invalidation may be lost on its way to a page, and nothing catches up for the upload
  history, which no poll and no focus refetches (`App.tsx:43`, `queries.ts`). One that
  is not read yet is replaced by the next, whichever of jobs and uploads each was about
  (`stream.go:1836`: "newest generation simply wins", against 1685: "never lost"). A connection
  the page reopens takes what changed before its first read as known (`stream.go:1482`:
  "missing nothing in between"). A hidden page drops it (`stream.tsx:419`).
- (h) A weight that is absent and set to zero stays absent (`config/write.go:391`
  against `config.go:179`).
- (i) `setTransferErrored` overwrites CANCELLED, which `finishInterrupted` does not.
- (j) `lidarr/client.go:596` forgets the error of an earlier look: an error followed by an
  absence is reported as a failure, where 581 and 639 have the outcome unknown unless every
  look saw the absence. A create that lands after the last answer is reported as a failure
  too, and so, without a look, is a 201 whose body breaks off (692).
- (k) A reading of a file's tags that fails yields no attributes (`sharemeta.go:109`) and is
  stored as such under the file's size and time (`shares.go:616`). Later scans believe it until
  the file changes, so the cache affects "what is advertised" (`sharemeta.go:34`).

Seen while modelling:

- *Pipeline.* Manual jobs are created DOWNLOADING beside the `MaxActive` count.
  `SetJobBackoff` writes `retries` without a from-guard. The repeated-rejection cap
  counts rows a manual retry keeps. For a moment one file more than
  `MaxInflightPerPeer` can run, and the retry counter can go one past
  `MaxTransferRetries`.
- *Imports.* `cleanupFolder` may delete another job's files through an old row that
  was never cleaned; a restore may take another job's quarantined folder; a retry of
  a refused job does not check who owns the folder; a manual job's files go in the
  already-complete path; an error of one import ends the tick for those after it.
- *Downloads.* `Enqueue` returns a record that has ended. A Remove that timed out may
  rename or delete the part file of its successor. `byToken` is keyed by the token
  alone: two peers that choose one token can have their connections mixed up.
- *Uploads and shares.* The initial load may replace a newer snapshot with the stored
  one after a save that failed; a path that is not UTF-8 makes every save fail; a
  write in place during extraction caches mixed attributes for one scan.
- *Peers.* A second dial may start beside a flight that just ended; a follower gets
  its leader's cancellation; reports to the server may be sent out of order.
- *Stream.* The first fingerprint never bumps a generation; the number of subscribers
  is checked before it is taken. *Searches.* A stopped session counts until its run
  ends; late offers are lost.
- *Configuration.* A hand edit between read and rename, and keys of an overlapping
  save, are lost. A failed synchronisation of the directory reports a failure though
  the file was replaced. *Daemon.* Pruner and publisher are not waited for.
- *Messages.* A message that went out but could not be recorded is answered with an
  error; a letter stored between reading a thread and marking it read is marked read
  unseen. *Migrations.* The table of versions is created outside the lock; a failed
  unlock keeps the lock as long as the connection lives.

## 6. Not modelled

The matcher's scores (floating point over strings), parsing and rendering (protocol
frames, HTTP, tags, TOML, the web interface but for the stream), the slskd client's
decoding (`Transfers` has what its calls may answer), accounts and login sessions
(single statements, each deciding for itself), identify and MusicBrainz (forwarded
reads), the dashboard's queries, throughput samples, `sqlite2pg`, the two delay
functions (any delay may pass at any time) and the cache of the wanted list (any list
may come at any time). `PROJECT.json` gives the reason for each.

What could come next: two faults in one attempt of `Transfers`; `Imports` beside `AlbumJobs`, so
that the disagreement `stale_advance` is seen with its folder; a definition of the lookups
without folds, which could be proved about.
