------------------------------- MODULE Shares -------------------------------
(***************************************************************************)
(* The index of the shared folders: scanned at the start, on SIGHUP and    *)
(* from the dashboard under one slot, published in memory, stored in the   *)
(* database and loaded from there by the next start; and the cache of the  *)
(* technical attributes of audio files (soulseek/shares.go, shareindex.go, *)
(* sharemeta.go, their adapters in cmd/slusk and tables in store).         *)
(*                                                                         *)
(* A file is a version, which stands for its size and modification time,   *)
(* in an inode; a row of attributes is known by the version it is stored   *)
(* for, the version they were read from, and whether there were some: a    *)
(* reading that fails is a row without any. A scan visits one file at a    *)
(* time and reads it in two steps; files are written, replaced, removed    *)
(* and unmounted meanwhile.                                                *)
(* What is announced to the server is in ServerLink.                       *)
(***************************************************************************)
EXTENDS Integers, FiniteSets

CONSTANTS
  Files,       \* <<folder, name>>
  Audio,       \* the ones whose attributes are read
  Odd,         \* the ones whose path no table takes (validShareIndexPath)
  None,
  ShareScopes  \* bounds: configurations to start with, room in the list, writes, mounts, faults, starts, rescans

VARIABLES
  sharing,   \* the bounds of this behaviour and what is left of them
  fs,        \* file -> inode and version, or absent
  mount,     \* folder -> "up", "empty" or "gone"
  meta,      \* share_file_metadata: file -> key and the attributes stored with it
  index,     \* share_index_*: the stored snapshot
  snapshot,  \* Client.shares
  failure,   \* Client.shareFailure
  alive,     \* the process: down, up, stopping
  folders,   \* Config.SharedFolders
  initial,   \* runInitialShareScan
  slot,      \* shareScanSem: who holds it
  scan,      \* what the holder is doing
  unsaved    \* a publication of this process was not stored

shareVars == <<sharing, fs, mount, meta, index, snapshot, failure, alive, folders, initial, slot, scan, unsaved>>
diskVars == <<fs, mount>>
processVars == <<alive, folders>>

Absent == [ino |-> 0, ver |-> 0]
Unknown == [key |-> 0, attrs |-> 0, some |-> FALSE]
Nothing == [f \in Files |-> Unknown]
Empty == [folders |-> {}, files |-> Nothing, seq |-> 0]
NoScan == [at |-> "idle", todo |-> {}, file |-> None, info |-> Absent, cached |-> Nothing, active |-> FALSE, found |-> Nothing, quiet |-> TRUE]
Spend(what) == sharing[what] > 0 /\ sharing' = [sharing EXCEPT ![what] = @ - 1]
Free == UNCHANGED sharing
Folders == {f[1] : f \in Files}
Now == 1 + sharing.written

Init ==
  /\ sharing \in ShareScopes
  /\ fs = [f \in Files |-> [ino |-> 1, ver |-> 1]] /\ mount = [d \in Folders |-> "up"]
  /\ meta = Nothing /\ index = Empty /\ snapshot = Empty
  /\ failure = FALSE /\ unsaved = FALSE /\ alive = "down" /\ folders = {}
  /\ initial = "over" /\ slot = None /\ scan = NoScan

(***************************************************************************)
(* The disk                                                                *)
(***************************************************************************)
\* A file is written in place, replaced by another one, or removed.
Change(f, file) ==
  /\ fs[f] # file /\ sharing.writes > 0
  /\ sharing' = [sharing EXCEPT !.writes = @ - 1, !.written = @ + 1]
  /\ fs' = [fs EXCEPT ![f] = file] /\ scan' = [scan EXCEPT !.quiet = FALSE]
  /\ UNCHANGED <<mount, meta, index, snapshot, failure, alive, folders, initial, slot, unsaved>>
Write(f) == fs[f] # Absent /\ Change(f, [fs[f] EXCEPT !.ver = Now + 1])
Replace(f) == Change(f, [ino |-> Now + 1, ver |-> Now + 1])
Remove(f) == Change(f, Absent)
Mount(d, how) ==
  /\ mount[d] # how /\ (IF how = "up" THEN Free ELSE Spend("mounts"))
  /\ mount' = [mount EXCEPT ![d] = how] /\ scan' = [scan EXCEPT !.quiet = FALSE]
  /\ UNCHANGED <<fs, meta, index, snapshot, failure, alive, folders, initial, slot, unsaved>>
Visible(f) == IF mount[f[1]] = "up" THEN fs[f] ELSE Absent

(***************************************************************************)
(* The slot: acquireShareScan, tryAcquireShareScan, releaseShareScan       *)
(***************************************************************************)
Begin(who, at) == slot = None /\ slot' = who /\ scan' = [NoScan EXCEPT !.at = at]
ReleaseShareScan == slot' = None /\ scan' = NoScan
\* How runInitialShareScan goes on after a scan of its own: again after an error that may pass.
Ends(result) ==
  /\ ReleaseShareScan
  /\ initial' = IF slot # "initial" THEN initial ELSE IF result = "error" THEN "backoff" ELSE "over"
DatabaseUnchanged == UNCHANGED <<meta, index>>
MemoryUnchanged == UNCHANGED <<snapshot, failure, unsaved>>

\* SIGHUP: RescanShares waits for the slot.
RescanShares ==
  /\ alive = "up" /\ Spend("rescans") /\ Begin("signal", "meta")
  /\ UNCHANGED initial /\ UNCHANGED diskVars /\ UNCHANGED processVars /\ DatabaseUnchanged /\ MemoryUnchanged
\* The dashboard: TriggerRescanShares claims the slot or gives up, then starts a tracked goroutine or lets go of it.
TriggerRescanShares ==
  /\ alive # "down" /\ Spend("rescans") /\ Begin("manual", "claimed")
  /\ UNCHANGED initial /\ UNCHANGED diskVars /\ UNCHANGED processVars /\ DatabaseUnchanged /\ MemoryUnchanged
StartTracked ==
  /\ scan.at = "claimed"
  /\ IF alive = "up" THEN scan' = [scan EXCEPT !.at = "meta"] /\ UNCHANGED slot ELSE ReleaseShareScan
  /\ Free /\ UNCHANGED initial /\ UNCHANGED diskVars /\ UNCHANGED processVars /\ DatabaseUnchanged /\ MemoryUnchanged

(***************************************************************************)
(* The stored index                                                        *)
(***************************************************************************)
InitialLoads ==
  /\ initial = "load" /\ alive = "up" /\ Begin("initial", "load") /\ initial' = "busy"
  /\ Free /\ UNCHANGED diskVars /\ UNCHANGED processVars /\ DatabaseUnchanged /\ MemoryUnchanged
\* diffSharedFolders: the index is of these folders, no more and no fewer.
SameFolders == index.folders = folders
\* What the tables of the index hold (store.ShareIndex), what loadShareIndex takes of it, and the snapshot made of that.
ShareIndex == index
LoadShareIndex == IF SameFolders THEN ShareIndex ELSE Empty
RebuildShareSnapshot(stored) == [folders |-> stored.folders, files |-> stored.files, seq |-> stored.seq]
\* loadAndPublishShareIndex: an index that cannot be read or is not of these folders is scanned anew. What was stored
\* once was not too large then either.
LoadAndPublishShareIndex ==
  /\ scan.at = "load" /\ ReleaseShareScan
  /\ \/ LoadShareIndex = Empty /\ initial' = "scan" /\ Free /\ MemoryUnchanged
     \/ alive = "up" /\ Spend("faults") /\ initial' = "scan" /\ MemoryUnchanged
     \/ alive = "stopping" /\ initial' = "scan" /\ Free /\ MemoryUnchanged
     \/ /\ LoadShareIndex # Empty /\ Free /\ initial' = "over"
        /\ snapshot' = RebuildShareSnapshot(LoadShareIndex) /\ failure' = FALSE /\ UNCHANGED unsaved
  /\ UNCHANGED diskVars /\ UNCHANGED processVars /\ DatabaseUnchanged
InitialScans ==
  /\ initial = "scan" /\ alive = "up" /\ Begin("initial", "meta") /\ initial' = "busy"
  /\ Free /\ UNCHANGED diskVars /\ UNCHANGED processVars /\ DatabaseUnchanged /\ MemoryUnchanged
BackoffEnds ==
  /\ initial = "backoff" /\ initial' = "scan"
  /\ Free /\ UNCHANGED <<slot, scan>> /\ UNCHANGED diskVars /\ UNCHANGED processVars /\ DatabaseUnchanged /\ MemoryUnchanged
\* The context ends the waiting, of which there are three kinds.
InitialGivesUp ==
  /\ initial \in {"load", "scan", "backoff"} /\ alive = "stopping" /\ initial' = "over"
  /\ Free /\ UNCHANGED <<slot, scan>> /\ UNCHANGED diskVars /\ UNCHANGED processVars /\ DatabaseUnchanged /\ MemoryUnchanged

(***************************************************************************)
(* scanShares                                                              *)
(***************************************************************************)
ScanUnchanged == UNCHANGED diskVars /\ UNCHANGED processVars
Step(s) == scan' = s /\ UNCHANGED <<slot, initial>>
Walk(s) == [s EXCEPT !.at = "walk", !.todo = {f \in Files : f[1] \in folders}]
\* loadShareMetaCache: without it every audio file is read, and nothing is written back.
ShareFileMetadata == meta
LoadShareMetaCache ==
  /\ scan.at = "meta"
  /\ \/ Free /\ Step([Walk(scan) EXCEPT !.cached = ShareFileMetadata, !.active = TRUE])
     \/ Spend("faults") /\ Step(Walk(scan))
  /\ ScanUnchanged /\ DatabaseUnchanged /\ MemoryUnchanged
ScanFails ==
  /\ scan.at \in {"walk", "build"} /\ ((alive = "stopping" /\ Free) \/ (alive = "up" /\ Spend("faults")))
  /\ Ends("error") /\ ScanUnchanged /\ DatabaseUnchanged /\ MemoryUnchanged
\* A root that cannot be resolved fails the scan, a file that vanished is left out.
VisitFile ==
  LET f == CHOOSE g \in scan.todo : TRUE IN
  /\ scan.at = "walk" /\ scan.file = None /\ scan.todo # {}
  /\ IF mount[f[1]] = "gone" THEN Ends("error")
     ELSE Step([scan EXCEPT !.todo = @ \ {f}, !.file = IF Visible(f) = Absent THEN None ELSE f, !.info = Visible(f)])
  /\ Free /\ ScanUnchanged /\ DatabaseUnchanged /\ MemoryUnchanged
\* Mutant: a row of the same path is taken as it is.
SamePath(row, info) == row.key # 0
\* sameShareFileMeta: the row is of the size and time seen.
SameShareFileMeta(row, info) == row.key = info.ver
\* A file that cannot be opened or read has no attributes, and that is remembered like any others.
ExtractTechnicalMetadata(f, readable) == [attrs |-> fs[f].ver, some |-> readable]
NoAttributes == [attrs |-> 0, some |-> FALSE]
\* Attributes of the cache or of the file; the file must still be the one that was seen, what it holds may not.
ReadFile ==
  LET f == scan.file
      hit == SameShareFileMeta(scan.cached[f], scan.info)
      Takes(a) == IF Visible(f).ino # scan.info.ino THEN Ends("error")
                  ELSE Step([scan EXCEPT !.file = None, !.info = Absent,
                                         !.found[f] = [key |-> scan.info.ver, attrs |-> a.attrs, some |-> a.some]]) IN
  /\ scan.at = "walk" /\ scan.file # None
  /\ \/ f \notin Audio /\ Takes(NoAttributes) /\ Free
     \/ f \in Audio /\ hit /\ Takes(scan.cached[f]) /\ Free
     \/ f \in Audio /\ ~hit /\ Takes(ExtractTechnicalMetadata(f, TRUE)) /\ Free
     \/ f \in Audio /\ ~hit /\ Takes(ExtractTechnicalMetadata(f, FALSE)) /\ Spend("faults")
  /\ ScanUnchanged /\ DatabaseUnchanged /\ MemoryUnchanged
Found == {f \in Files : scan.found[f] # Unknown}
UpsertShareFileMetadata(rows, up) == [f \in Files |-> IF f \in up THEN scan.found[f] ELSE rows[f]]
DeleteShareFileMetadata(rows, gone) == [f \in Files |-> IF f \in gone THEN Unknown ELSE rows[f]]
\* flushShareMetaCache: rows that were computed are written, then rows of files not seen are deleted, unless no file was
\* seen at all; each statement may fail, and a path the table does not take is skipped.
FlushShareMetaCache ==
  LET computed == {f \in (Found \cap Audio) \ Odd : scan.cached[f].key # scan.found[f].key}
      stale == IF Found = {} THEN {} ELSE {f \in Files : scan.cached[f] # Unknown} \ (Found \cap Audio)
      Flushed(up, gone) == DeleteShareFileMetadata(UpsertShareFileMetadata(meta, up), gone) IN
  /\ scan.at = "walk" /\ scan.file = None /\ scan.todo = {} /\ Step([scan EXCEPT !.at = "build", !.cached = Nothing])
  /\ \/ Free /\ meta' = IF scan.active /\ alive = "up" THEN Flushed(computed, stale) ELSE meta
     \/ scan.active /\ Spend("faults") /\ \E up \in {{}, computed}, gone \in {{}, stale} : meta' = Flushed(up, gone)
  /\ ScanUnchanged /\ UNCHANGED index /\ MemoryUnchanged
TooLarge == Cardinality(Found) > sharing.room
\* scanAndPublishLocked: a list that does not fit is remembered as a failure, every other result is published.
Publish ==
  /\ scan.at = "build" /\ alive = "up"
  /\ IF TooLarge
     THEN Ends("too_large") /\ failure' = TRUE /\ Free /\ UNCHANGED snapshot
     ELSE /\ Step([scan EXCEPT !.at = "save"]) /\ failure' = FALSE /\ sharing' = [sharing EXCEPT !.seq = @ + 1]
          /\ snapshot' = [folders |-> folders, files |-> scan.found, seq |-> sharing.seq + 1]
  /\ ScanUnchanged /\ DatabaseUnchanged /\ UNCHANGED unsaved
ValidShareIndexPaths == Found \cap Odd = {}
\* Mutant: a save keeps what is stored already.
StoredFirst == IF index = Empty THEN snapshot ELSE index
\* saveShareIndex, ReplaceShareIndex: one transaction; a failure, and a path the tables do not take, are only logged.
Stored == snapshot
SaveShareIndex ==
  /\ scan.at = "save" /\ Ends("done")
  /\ \/ ValidShareIndexPaths /\ alive = "up" /\ Free /\ index' = Stored /\ unsaved' = FALSE
     \/ (~ValidShareIndexPaths \/ alive = "stopping") /\ Free /\ UNCHANGED index /\ unsaved' = TRUE
     \/ Spend("faults") /\ UNCHANGED index /\ unsaved' = TRUE
  /\ ScanUnchanged /\ UNCHANGED <<meta, snapshot, failure>>
ScanStep == LoadShareMetaCache \/ ScanFails \/ VisitFile \/ ReadFile \/ FlushShareMetaCache \/ Publish \/ SaveShareIndex

(***************************************************************************)
(* The process                                                             *)
(***************************************************************************)
Start ==
  /\ alive = "down" /\ sharing.starts > 0 /\ alive' = "up" /\ initial' = "load"
  /\ \E C \in sharing.configs : folders' = C
  /\ sharing' = [sharing EXCEPT !.starts = @ - 1]
  /\ snapshot' = Empty /\ failure' = FALSE /\ unsaved' = FALSE /\ slot' = None /\ scan' = NoScan
  /\ UNCHANGED diskVars /\ DatabaseUnchanged
Stop ==
  /\ alive = "up" /\ alive' = "stopping"
  /\ Free /\ UNCHANGED <<folders, initial, slot, scan>> /\ UNCHANGED diskVars /\ DatabaseUnchanged /\ MemoryUnchanged
\* The tracked goroutines are waited for; a crash waits for nobody.
Exit ==
  /\ alive = "stopping" /\ initial = "over" /\ (slot = "manual" => scan.at = "claimed") /\ alive' = "down"
  /\ slot' = None /\ scan' = NoScan
  /\ Free /\ UNCHANGED <<folders, initial>> /\ UNCHANGED diskVars /\ DatabaseUnchanged /\ MemoryUnchanged
Crash ==
  /\ alive = "up" /\ slot # None /\ alive' = "down" /\ initial' = "over" /\ slot' = None /\ scan' = NoScan
  /\ Free /\ UNCHANGED folders /\ UNCHANGED diskVars /\ DatabaseUnchanged /\ MemoryUnchanged

Next ==
  \/ \E f \in Files : Write(f) \/ Replace(f) \/ Remove(f)
  \/ \E d \in Folders, how \in {"up", "empty", "gone"} : Mount(d, how)
  \/ RescanShares \/ TriggerRescanShares \/ StartTracked
  \/ InitialLoads \/ LoadAndPublishShareIndex \/ InitialScans \/ BackoffEnds \/ InitialGivesUp
  \/ ScanStep \/ Start \/ Stop \/ Exit \/ Crash
\* Scans run on, the initial one gets the slot in its turn, and a folder that is gone comes back.
Runs == ScanStep \/ StartTracked \/ LoadAndPublishShareIndex
Spec ==
  /\ Init /\ [][Next]_shareVars
  /\ WF_shareVars(Runs) /\ WF_shareVars(InitialLoads \/ InitialScans) /\ WF_shareVars(BackoffEnds)
  /\ WF_shareVars(\E d \in Folders : Mount(d, "up"))

(***************************************************************************)
(* Properties                                                              *)
(***************************************************************************)
\* The slot is held while a scan or a load is under way, and by nobody else.
TypeOK ==
  /\ alive \in {"down", "up", "stopping"} /\ initial \in {"load", "scan", "busy", "backoff", "over"}
  /\ (slot = None) <=> (scan.at = "idle")
  /\ alive # "down" => ((slot = "initial") <=> (initial = "busy"))
  /\ index.seq <= sharing.seq /\ snapshot.seq <= sharing.seq

\* A scan during which nothing changed on the disk finds exactly the files that are there, each with attributes read from
\* the version that is there, or with none when a reading of that version has failed, then or in an earlier scan
\* (extractTechnicalMetadata caches a failure too), whatever scans that were overtaken, failed or crashed have left in the
\* cache (loadShareMetaCache, flushShareMetaCache).
Right(f) ==
  IF f[1] \notin folders \/ Visible(f) = Absent THEN {Unknown}
  ELSE IF f \in Audio THEN [key : {fs[f].ver}, attrs : {fs[f].ver}, some : BOOLEAN]
  ELSE [key : {fs[f].ver}, attrs : {0}, some : {FALSE}]
QuietScanIsRight == scan.at \in {"build", "save"} /\ scan.quiet => \A f \in Files : scan.found[f] \in Right(f)

\* What is shared is of the folders the configuration shares now, also after a start that loads an index another
\* configuration has stored (diffSharedFolders).
NoForeignFolder ==
  alive # "down" /\ snapshot # Empty =>
    snapshot.folders = folders /\ \A f \in Files : snapshot.files[f] # Unknown => f[1] \in folders

\* A newer snapshot gives way to an older one only when storing it had failed: the initial load may come after a rescan
\* (loadAndPublishShareIndex, saveShareIndex).
SharesNeverGoBack ==
  [][alive # "down" /\ alive' # "down" => snapshot'.seq >= snapshot.seq \/ unsaved]_shareVars

\* ShareReport has a snapshot or a failure to show.
Told == snapshot # Empty \/ failure

\* Once the initial scan is over, something is shared or the failure shows in the report (ErrShareTooLarge).
SharedOrTold == alive = "up" /\ initial = "over" => Told

\* A process that is not stopped shares its folders, or tells why not, in the end (runInitialShareScan).
SharesInTheEnd == alive = "up" ~> Told \/ alive # "up"

\* What is shared is what a scan has found, of the folders that are configured; and when nothing is, that is reported
\* (scanAndPublishLocked).
SharesAreSound == TypeOK /\ QuietScanIsRight /\ NoForeignFolder /\ SharedOrTold

\* Snapshots get newer, and there comes one (runInitialShareScan).
SharesGoForward == SharesNeverGoBack /\ SharesInTheEnd
=============================================================================
