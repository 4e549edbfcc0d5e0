------------------------------ MODULE Imports ------------------------------
(* From the last byte of a download to the verdict of the import, and the   *)
(* folders on disk meanwhile: verify, confirm and the failure paths of      *)
(* internal/pipeline/importing.go, the clean-ups and quarantines of         *)
(* paths.go, the register of download folders (store/download_folders.go)   *)
(* and what internal/lidarr/client.go asks of Lidarr.                       *)
(*                                                                          *)
(* Three goroutines touch the folders: Importing, Downloading (the clean-up *)
(* of a failed download) and Selecting (the quarantine of a failed job);    *)
(* each does one file-system call, request or transaction at a time, and a  *)
(* crash stops all three between any two. A folder holds the files of some  *)
(* jobs; a folder with no file counts as absent. Deadlines may pass at any  *)
(* time (late). AlbumJobs has the candidates and budgets behind "waiting",  *)
(* which stands for WANTED and SELECTING here.                              *)
EXTENDS Integers, FiniteSets

CONSTANTS
  Jobs,        \* album jobs
  Manual,      \* the ones a user created
  Leaves,      \* directory names of the peers
  FailedDir,   \* ".failed", a name a peer's directory may have as well
  RefusedDir,  \* "_import_rejected"
  None,
  Scopes       \* bounds: downloads and retries of each job, the directories its peers use, crashes and failing calls

VARIABLES
  job,      \* state, folder of the candidate, claimed, downloaded, submitted, late (got: none, all, broken)
  scope,    \* the bounds of this behaviour
  left,     \* downloads and retries left to a job
  rows,     \* job_download_folders: "none", "open", or how cleaned_at was set
  missed,   \* jobs whose files got into a folder without a row of theirs
  disk,     \* the download root: whose files are in the folder of that name
  refused,  \* _import_rejected: name -> whose files
  failed,   \* .failed: whose files
  lidarr,   \* [has |-> albums complete, queue |-> ManualImport commands]
  work,     \* goroutine -> what it is doing
  faults    \* crashes and failing calls so far
vars == <<job, scope, left, rows, missed, disk, refused, failed, lidarr, work, faults>>

Workers == {"importing", "downloading", "selecting"}
Names == Leaves \X (Jobs \cup {None})   \* a folder's name as it was, or with a job's id
Idle == [at |-> "idle", job |-> None, verdict |-> None, todo |-> {}]
QuarantineDirs == {FailedDir, RefusedDir}
Over == {"DONE", "PARKED", "IMPORT_REFUSED", "NOT_IMPORTED", "FAILED"}

\* The folder of the candidate's files; a candidate whose files share none is not modelled.
AlbumFolder(j) == job[j].leaf

Init ==
  /\ job = [j \in Jobs |-> [state |-> "waiting", leaf |-> None, claimed |-> FALSE, got |-> "none", submitted |-> FALSE, late |-> FALSE]]
  /\ scope \in Scopes /\ left = scope.left
  /\ rows = [j \in Jobs |-> [l \in Leaves |-> "none"]]
  /\ missed = {} /\ failed = {}
  /\ disk = [l \in Leaves |-> {}]
  /\ refused = [n \in Names |-> {}]
  /\ lidarr = [has |-> {}, queue |-> {}]
  /\ work = [w \in Workers |-> Idle]
  /\ faults = 0

Fault == faults < scope.faults /\ faults' = faults + 1
NoFault == UNCHANGED faults
\* How a call ends that may fail.
Outcome(ok) == IF ok THEN NoFault ELSE Fault
Goto(w, at, verdict, todo) == work' = [work EXCEPT ![w].at = at, ![w].verdict = verdict, ![w].todo = todo]
Rest(w) == work' = [work EXCEPT ![w] = Idle]
\* DownloadFoldersForJob: the folders not yet cleaned.
Registered(j) == {l \in Leaves : rows[j][l] = "open"}
MarkDownloadFolderCleaned(j, l, how) == rows' = [rows EXCEPT ![j][l] = how]
DiskUnchanged == UNCHANGED <<disk, refused, failed>>
StoreUnchanged == UNCHANGED <<job, scope, left, rows, missed>>

(***************************************************************************)
(* The register and the download                                           *)
(***************************************************************************)
\* ActivateCandidateWithTransfers, as far as folders go (AlbumJobs has the rest).
Activate(j, l) ==
  /\ l \in scope.leaves /\ job[j].state = "waiting" /\ left[j] > 0
  /\ job' = [job EXCEPT ![j] = [state |-> "DOWNLOADING", leaf |-> l, claimed |-> FALSE, got |-> "none", submitted |-> FALSE, late |-> FALSE]]
  /\ left' = [left EXCEPT ![j] = @ - 1]
  /\ UNCHANGED <<scope, rows, missed, lidarr, work, faults>> /\ DiskUnchanged

\* The jobs RegisterDownloadFolder finds in possession of the folder.
Owners(j, l) == {k \in Jobs \ {j} : rows[k][l] = "open" /\ job[k].state \in {"DOWNLOADING", "IMPORTING"}}
\* Mutant: a folder that was cleaned stays cleaned.
ReopenNever(row) == IF row = "none" THEN "open" ELSE row
\* The upsert: a folder that was cleaned is open again.
Reopen(row) == "open"
RegisterDownloadFolder(j, l) == Owners(j, l) = {} /\ rows' = [rows EXCEPT ![j][l] = Reopen(@)]
\* reserveDownloadFolders: only a live owner holds a download back, an error does not.
ReserveDownloadFolders(j) ==
  LET l == AlbumFolder(j) IN
  /\ job[j].state = "DOWNLOADING" /\ ~job[j].claimed
  /\ \/ RegisterDownloadFolder(j, l) /\ NoFault /\ UNCHANGED missed
     \/ rows[j][l] # "open" /\ Fault /\ missed' = missed \cup {j} /\ UNCHANGED rows
  /\ job' = [job EXCEPT ![j].claimed = TRUE]
  /\ UNCHANGED <<scope, left, lidarr, work>> /\ DiskUnchanged
\* deferForFolder: a folder that stays somebody else's fails the candidate.
DeferForFolder(j) ==
  /\ job[j].state = "DOWNLOADING" /\ ~job[j].claimed /\ Owners(j, AlbumFolder(j)) # {}
  /\ job' = [job EXCEPT ![j].state = "waiting"]
  /\ UNCHANGED <<scope, left, rows, missed, lidarr, work, faults>> /\ DiskUnchanged

\* The backend completes the file in the folder named after the peer's.
FileArrives(j) ==
  /\ job[j].state = "DOWNLOADING" /\ job[j].claimed /\ job[j].got = "none"
  /\ job' = [job EXCEPT ![j].got = "all"]
  /\ disk' = [disk EXCEPT ![AlbumFolder(j)] = @ \cup {j}]
  /\ UNCHANGED <<scope, left, rows, missed, refused, failed, lidarr, work, faults>>
\* resolve: all transfers COMPLETED.
Downloaded(j) ==
  /\ job[j].state = "DOWNLOADING" /\ job[j].got = "all"
  /\ job' = [job EXCEPT ![j].state = "IMPORTING", ![j].late = FALSE]
  /\ UNCHANGED <<scope, left, rows, missed, lidarr, work, faults>> /\ DiskUnchanged
\* resolve: a transfer failed and no sibling is active; what has arrived is cleaned up.
DownloadFails(j) ==
  /\ job[j].state = "DOWNLOADING" /\ job[j].claimed /\ job[j].got # "all" /\ work["downloading"].at = "idle"
  /\ job' = [job EXCEPT ![j].got = "broken"]
  /\ \E stray \in BOOLEAN : disk' = IF stray /\ job[j].got = "none" THEN [disk EXCEPT ![AlbumFolder(j)] = @ \cup {j}] ELSE disk
  /\ work' = [work EXCEPT !["downloading"] = [at |-> "clean", job |-> j, verdict |-> "waiting", todo |-> Registered(j)]]
  /\ UNCHANGED <<scope, left, rows, missed, refused, failed, lidarr, faults>>

\* selectJob: no candidate is left and the job is failed; its folders are quarantined.
Exhausted(j) ==
  /\ job[j].state = "waiting" /\ left[j] < scope.left[j] /\ work["selecting"].at = "idle"
  /\ job' = [job EXCEPT ![j].state = "FAILED"]
  /\ work' = [work EXCEPT !["selecting"] = [at |-> "quarantine", job |-> j, verdict |-> None, todo |-> Registered(j)]]
  /\ UNCHANGED <<scope, left, rows, missed, lidarr, faults>> /\ DiskUnchanged

(***************************************************************************)
(* cleanupFolder, cleanupCompletedFolder, quarantineFolder                 *)
(***************************************************************************)
\* os.RemoveAll of a folder of the download root, whatever its name is.
DeleteDownloadFolder(l) ==
  /\ disk' = [disk EXCEPT ![l] = {}]
  /\ failed' = IF l = FailedDir THEN {} ELSE failed
  /\ refused' = IF l = RefusedDir THEN [n \in Names |-> {}] ELSE refused
\* Mutant: the quarantine directories pass for folders of a job.
NeverQuarantine(l) == FALSE
IsQuarantineDir(l) == l \in QuarantineDirs
\* cleanupFolder goes on with the next leaf or ends, with the store write or without one.
AfterClean(w, l) ==
  LET rest == work[w].todo \ {l} IN
  IF rest # {} THEN work' = [work EXCEPT ![w].todo = rest]
  ELSE IF work[w].verdict = None THEN Rest(w) ELSE Goto(w, "write", work[w].verdict, {})
\* One leaf of cleanupFolder: a delete that worked stamps the row, a 404 or an error does not.
CleanupFolder(w, l) ==
  LET j == work[w].job IN
  /\ work[w].at = "clean" /\ l \in work[w].todo
  /\ \/ IsQuarantineDir(l) /\ DiskUnchanged /\ UNCHANGED rows /\ NoFault
     \/ ~IsQuarantineDir(l) /\ disk[l] = {} /\ DiskUnchanged /\ UNCHANGED rows /\ NoFault
     \/ ~IsQuarantineDir(l) /\ Fault /\ DiskUnchanged /\ UNCHANGED rows
     \/ /\ ~IsQuarantineDir(l) /\ disk[l] # {} /\ DeleteDownloadFolder(l) /\ NoFault
        /\ MarkDownloadFolderCleaned(j, l, "cleaned")
     \/ ~IsQuarantineDir(l) /\ disk[l] # {} /\ DeleteDownloadFolder(l) /\ Fault /\ UNCHANGED rows
  /\ AfterClean(w, l)
  /\ UNCHANGED <<job, scope, left, missed, lidarr>>
NothingRegistered(w) ==
  /\ work[w].at \in {"clean", "tidy", "quarantine"} /\ work[w].todo = {}
  /\ IF work[w].verdict = None THEN Rest(w) ELSE Goto(w, "write", work[w].verdict, {})
  /\ StoreUnchanged /\ DiskUnchanged /\ UNCHANGED <<lidarr, faults>>

\* One leaf of cleanupCompletedFolder: only an empty folder is removed, and either way the verdict is final.
CleanupCompletedFolder(l) ==
  LET j == work["importing"].job IN
  /\ work["importing"].at = "tidy" /\ l \in work["importing"].todo
  /\ \/ l = FailedDir /\ UNCHANGED rows
     \/ l # FailedDir /\ MarkDownloadFolderCleaned(j, l, IF disk[l] = {} THEN "cleaned" ELSE "left")
  /\ AfterClean("importing", l)
  /\ UNCHANGED <<job, scope, left, missed, lidarr, faults>> /\ DiskUnchanged

\* freeQuarantinePath: the plain name, else the one with the job's id.
FreeQuarantinePath(l, j) == IF refused[<<l, None>>] = {} THEN <<l, None>> ELSE <<l, j>>
\* quarantineFolder has something it may move.
Movable(l) == ~IsQuarantineDir(l) /\ disk[l] # {}
\* One leaf of quarantineLeftovers.
QuarantineLeftovers(l) ==
  LET j == work["selecting"].job IN
  /\ work["selecting"].at = "quarantine" /\ l \in work["selecting"].todo
  /\ \/ ~Movable(l) /\ NoFault /\ UNCHANGED <<disk, failed, rows>>
     \/ Movable(l) /\ Fault /\ UNCHANGED <<disk, failed, rows>>
     \/ /\ Movable(l) /\ NoFault
        /\ failed' = failed \cup disk[l] /\ disk' = [disk EXCEPT ![l] = {}]
        /\ MarkDownloadFolderCleaned(j, l, "cleaned")
  /\ AfterClean("selecting", l)
  /\ UNCHANGED <<job, scope, left, missed, refused, lidarr>>

(***************************************************************************)
(* What Lidarr answers                                                     *)
(***************************************************************************)
AlbumStatus(j) == {"failed", IF j \in lidarr.has THEN "complete" ELSE "missing"}
\* A scan of a folder with files may match all tracks, too few or none, or show nothing.
ManualImportCandidates(l) == {"failed", "empty"} \cup (IF disk[l] = {} THEN {} ELSE {"covered", "incomplete", "unmatched"})
AlbumByForeignID(j) == {"found"} \cup (IF j \in Manual THEN {"absent", "failed"} ELSE {})
\* The command moves, some time later, what is still there of the files it names.
RunCommand ==
  \E c \in lidarr.queue :
    LET moved == c.files \cap disk[c.leaf] IN
    /\ lidarr' = [has |-> lidarr.has \cup moved, queue |-> lidarr.queue \ {c}]
    /\ disk' = [disk EXCEPT ![c.leaf] = @ \ moved]
    /\ StoreUnchanged /\ UNCHANGED <<refused, failed, work, faults>>
DropCommand ==
  \E c \in lidarr.queue :
    /\ Fault /\ lidarr' = [lidarr EXCEPT !.queue = @ \ {c}]
    /\ StoreUnchanged /\ DiskUnchanged /\ UNCHANGED work

(***************************************************************************)
(* Importing                                                               *)
(***************************************************************************)
Doing(at) == work["importing"].at = at
Its == work["importing"].job
Then(at, verdict) == Goto("importing", at, verdict, {})
TickEnds == Rest("importing")

PickJob(j) ==
  /\ Doing("idle") /\ job[j].state = "IMPORTING"
  /\ work' = [work EXCEPT !["importing"] = [at |-> "resolve", job |-> j, verdict |-> None, todo |-> {}]]
  /\ StoreUnchanged /\ DiskUnchanged /\ UNCHANGED <<lidarr, faults>>

\* failCandidate: a manual job's files stay; a repeated rejection parks the job.
FailCandidate(verdict) ==
  IF Its \in Manual THEN Then("write", verdict) ELSE Goto("importing", "clean", verdict, Registered(Its))
\* A rejection, the first of its reason or one too many of it.
AfterRejection == {"waiting", "PARKED"}
\* escalateIfStuck: wait until the deadline has passed.
EscalateIfStuck == IF job[Its].late THEN FailCandidate("waiting") ELSE TickEnds

ResolveAlbumID ==
  /\ Doing("resolve")
  /\ \E answer \in AlbumByForeignID(Its) :
       \/ answer = "found" /\ Then(IF job[Its].submitted THEN "confirm" ELSE "restore", None)
       \/ answer = "absent" /\ Then("write", "NOT_IMPORTED")
       \/ answer = "failed" /\ EscalateIfStuck
  /\ StoreUnchanged /\ DiskUnchanged /\ UNCHANGED <<lidarr, faults>>

\* refusedQuarantineSource: the plain name wins, then the one with the job's id.
RefusedQuarantineSource(l, j) == IF refused[<<l, None>>] # {} THEN <<l, None>> ELSE <<l, j>>
RestoreRefusedFolder ==
  LET l == AlbumFolder(Its)  src == RefusedQuarantineSource(l, Its)
      here == disk[l] # {} \/ IsQuarantineDir(l) \/ refused[src] = {} IN
  /\ Doing("restore") /\ Then("scan", None)
  /\ \/ here /\ NoFault /\ UNCHANGED <<disk, refused, missed>>
     \/ ~here /\ Fault /\ UNCHANGED <<disk, refused, missed>>
     \/ /\ ~here /\ NoFault /\ missed' = missed \cup {k \in refused[src] : k # Its \/ l \notin Registered(k)}
        /\ disk' = [disk EXCEPT ![l] = refused[src]] /\ refused' = [refused EXCEPT ![src] = {}]
  /\ UNCHANGED <<job, scope, left, rows, failed, lidarr>>

Scan ==
  /\ Doing("scan")
  /\ \E answer \in ManualImportCandidates(AlbumFolder(Its)) :
       \/ answer = "failed" /\ EscalateIfStuck
       \/ answer = "empty" /\ Then("empty", None)
       \/ answer = "covered" /\ Goto("importing", "execute", None, {})
       \/ answer = "incomplete" /\ \E v \in AfterRejection : FailCandidate(v)
       \/ answer = "unmatched" /\ Then("unmatched", None)
  /\ StoreUnchanged /\ DiskUnchanged /\ UNCHANGED <<lidarr, faults>>

\* Lidarr shows nothing: an absent or empty folder counts as imported.
EmptyPreview ==
  /\ Doing("empty")
  /\ IF disk[AlbumFolder(Its)] = {} THEN Then("write", "DONE") ELSE EscalateIfStuck
  /\ StoreUnchanged /\ DiskUnchanged /\ UNCHANGED <<lidarr, faults>>
\* Nothing matched: the album is there already, or is refused for good, or the candidate is bad.
AlbumAlreadyComplete ==
  /\ Doing("unmatched")
  /\ \E answer \in AlbumStatus(Its) :
       IF answer = "complete" THEN Then("already", "DONE")
       ELSE \/ Then("refuse", "IMPORT_REFUSED")
            \/ \E v \in AfterRejection : FailCandidate(v)
  /\ StoreUnchanged /\ DiskUnchanged /\ UNCHANGED <<lidarr, faults>>
\* refuseImport: the files are moved out of the download root, if they can be.
RefuseImport ==
  LET l == AlbumFolder(Its)  n == FreeQuarantinePath(l, Its) IN
  /\ Doing("refuse") /\ Then("write", "IMPORT_REFUSED")
  /\ \/ (~Movable(l) \/ refused[n] # {}) /\ NoFault /\ UNCHANGED <<disk, refused>>
     \/ Movable(l) /\ Fault /\ UNCHANGED <<disk, refused>>
     \/ /\ Movable(l) /\ refused[n] = {} /\ NoFault
        /\ refused' = [refused EXCEPT ![n] = disk[l]] /\ disk' = [disk EXCEPT ![l] = {}]
  /\ StoreUnchanged /\ UNCHANGED <<failed, lidarr>>

\* The command is accepted and the answer arrives, or is lost, or it never got there.
ExecuteManualImport ==
  LET l == AlbumFolder(Its) IN
  /\ Doing("execute")
  /\ \E accepted, answered \in BOOLEAN :
       /\ (answered => accepted)
       /\ Outcome(answered)
       /\ lidarr' = IF accepted THEN [lidarr EXCEPT !.queue = @ \cup {[leaf |-> l, files |-> disk[l]]}] ELSE lidarr
       /\ IF answered THEN Then("mark", None) ELSE TickEnds
  /\ StoreUnchanged /\ DiskUnchanged
MarkImportSubmitted ==
  /\ Doing("mark") /\ TickEnds
  /\ \/ Fault /\ UNCHANGED job
     \/ NoFault /\ job' = [job EXCEPT ![Its].submitted = TRUE, ![Its].late = FALSE]
  /\ UNCHANGED <<scope, left, rows, missed, lidarr>> /\ DiskUnchanged

\* confirm: complete, not yet, or too late; a status that cannot be read is not yet.
Confirm ==
  /\ Doing("confirm")
  /\ \E answer \in AlbumStatus(Its) :
       IF answer = "complete" THEN Then("write", "DONE")
       ELSE IF job[Its].late THEN Then("write", "waiting") ELSE TickEnds
  /\ StoreUnchanged /\ DiskUnchanged /\ UNCHANGED <<lidarr, faults>>

\* The transaction that moves candidate and job together, and what follows it.
Advance(w) ==
  LET j == work[w].job  v == work[w].verdict
      from == IF w = "importing" THEN "IMPORTING" ELSE "DOWNLOADING" IN
  /\ work[w].at \in {"write", "already"}
  /\ \/ Fault /\ Rest(w) /\ UNCHANGED job
     \/ /\ NoFault
        /\ job' = IF job[j].state = from THEN [job EXCEPT ![j].state = v, ![j].late = FALSE] ELSE job
        /\ IF v # "DONE" THEN Rest(w)
           ELSE Goto(w, IF work[w].at = "already" THEN "clean" ELSE "tidy", None, Registered(j))
  /\ UNCHANGED <<scope, left, rows, missed, lidarr>> /\ DiskUnchanged

(***************************************************************************)
(* The user, the clock, a crash                                            *)
(***************************************************************************)
\* RetryRefusedJob: the same files, once more; who owns the folder by now is not asked.
RetryRefusedJob(j) ==
  /\ job[j].state = "IMPORT_REFUSED" /\ left[j] > 0
  /\ job' = [job EXCEPT ![j].state = "IMPORTING", ![j].submitted = FALSE, ![j].late = FALSE]
  /\ left' = [left EXCEPT ![j] = @ - 1]
  /\ UNCHANGED <<scope, rows, missed, lidarr, work, faults>> /\ DiskUnchanged
\* A job that is over is wanted again, not while the tick that ended it still tidies up.
WantedAgain(j) ==
  /\ job[j].state \in Over /\ left[j] > 0 /\ \A w \in Workers : work[w].job # j
  /\ job' = [job EXCEPT ![j].state = "waiting"]
  /\ UNCHANGED <<scope, left, rows, missed, lidarr, work, faults>> /\ DiskUnchanged
Late(j) ==
  /\ job[j].state = "IMPORTING" /\ ~job[j].late
  /\ job' = [job EXCEPT ![j].late = TRUE]
  /\ UNCHANGED <<scope, left, rows, missed, lidarr, work, faults>> /\ DiskUnchanged
Crash ==
  /\ \E w \in Workers : work[w].at # "idle"
  /\ Fault /\ work' = [w \in Workers |-> Idle]
  /\ StoreUnchanged /\ DiskUnchanged /\ UNCHANGED lidarr

ImportingStep ==
  \/ \E j \in Jobs : PickJob(j)
  \/ ResolveAlbumID \/ RestoreRefusedFolder \/ Scan \/ EmptyPreview \/ AlbumAlreadyComplete
  \/ RefuseImport \/ ExecuteManualImport \/ MarkImportSubmitted \/ Confirm
  \/ \E l \in Leaves : CleanupCompletedFolder(l)
CleanupStep(w) == NothingRegistered(w) \/ Advance(w) \/ \E l \in Leaves : CleanupFolder(w, l)
Next ==
  \/ ImportingStep \/ RunCommand \/ DropCommand \/ Crash
  \/ \E w \in Workers : CleanupStep(w)
  \/ \E l \in Leaves : QuarantineLeftovers(l)
  \/ \E j \in Jobs :
       \/ \E l \in Leaves : Activate(j, l)
       \/ ReserveDownloadFolders(j) \/ DeferForFolder(j) \/ FileArrives(j) \/ Downloaded(j) \/ DownloadFails(j)
       \/ Exhausted(j) \/ RetryRefusedJob(j) \/ WantedAgain(j) \/ Late(j)

\* The Importing loop ticks for ever and Lidarr's commands end; deadlines pass.
Fairness ==
  /\ WF_vars(ImportingStep) /\ WF_vars(CleanupStep("importing"))
  /\ \A j \in Jobs : WF_vars(Late(j))
Spec == Init /\ [][Next]_vars /\ Fairness

(***************************************************************************)
(* Properties                                                              *)
(***************************************************************************)
TypeOK ==
  /\ \A j \in Jobs : /\ job[j].state \in Over \cup {"waiting", "DOWNLOADING", "IMPORTING"}
                     /\ job[j].leaf \in Leaves \cup {None}
                     /\ (job[j].state \in {"DOWNLOADING", "IMPORTING"} => job[j].leaf # None)
  /\ \A j \in Jobs, l \in Leaves : rows[j][l] \in {"none", "open", "cleaned", "left"}
  /\ disk \in [Leaves -> SUBSET Jobs] /\ refused \in [Names -> SUBSET Jobs] /\ failed \subseteq Jobs
  /\ \A w \in Workers : (work[w].at = "idle") <=> (work[w].job = None)

\* The files of failed and refused jobs are never deleted: a quarantined folder only leaves by being moved back for a
\* retry, also when a peer's directory has the name of the quarantine (cleanupFolder, isQuarantineDir).
QuarantineKept ==
  [][/\ failed \subseteq failed'
     /\ \A n \in Names : refused[n] \subseteq refused'[n] \cup UNION {disk'[l] : l \in Leaves}]_vars

\* What a job has downloaded and left in a folder is named by its row in the register, so that a later clean-up finds it,
\* whatever was cleaned before (RegisterDownloadFolder; a registration that failed, and a restore of files whose row is
\* closed or another job's, leave a gap).
FoldersAreNamed == \A j \in Jobs \ missed, l \in Leaves : j \in disk[l] => rows[j][l] \in {"open", "left"}

\* Two jobs never download into one folder at once (reserveDownloadFolders, RegisterDownloadFolder).
OneWriter ==
  \A j, k \in {i \in Jobs \ missed : job[i].state = "DOWNLOADING" /\ job[i].claimed /\ job[i].got # "broken"} :
    job[j].leaf = job[k].leaf => j = k

\* "An empty Lidarr preview only proves the import already happened when the exact local folder Lidarr scanned is also
\* absent or empty" (importing.go:523): a job that is DONE has its album in Lidarr.
DoneIsImported == \A j \in Jobs : job[j].state = "DONE" => j \in lidarr.has

\* Imports end: again and again no job is IMPORTING, each being confirmed, refused, or given up when its deadline has
\* passed (confirm, escalateIfStuck).
ImportingEnds == []<>(\A j \in Jobs : job[j].state # "IMPORTING")

\* Folders on disk and rows in the register fit: what is there is named, and by nobody else's download (RegisterDownloadFolder).
FoldersAreSound == TypeOK /\ FoldersAreNamed /\ OneWriter

\* An import ends, and nothing that was put aside on the way is lost (escalateIfStuck, quarantineFolder).
ImportsEndWell == QuarantineKept /\ ImportingEnds
=============================================================================
