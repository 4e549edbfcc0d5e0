-------------------------------- MODULE MCFiles --------------------------------
(* Small instances of NativeDownloads and Imports for TLC, next to each      *)
(* other: in a behaviour one of them moves.                                  *)
EXTENDS NativeDownloads, TLC

CONSTANTS
  Jobs, Manual, Leaves, FailedDir, RefusedDir, None, ImportScopes, own, manual

\* No job and no directory stands for none of them.
ASSUME ImportsAssumption == None \notin Jobs \cup Leaves

VARIABLES
  part,
  job, importScope, left, rows, missed, folders, refused, failed, lidarr, work, faults

Import == INSTANCE Imports WITH scope <- importScope, disk <- folders, Scopes <- ImportScopes
importVars == <<job, importScope, left, rows, missed, folders, refused, failed, lidarr, work, faults>>

Scope(orderly, transfers, tokens, stops, restarts) ==
  [orderly |-> orderly, transfers |-> transfers, tokens |-> tokens, stops |-> stops, restarts |-> restarts,
   removes |-> IF restarts THEN {"again"} ELSE {"up", "stopping"}]
\* A key that is enqueued again, after it was removed and after a restart, where a Remove before it would leave no more
\* behind than the restart does; two transfer tokens; a stop.
Orderly == {Scope(TRUE, 2, {1}, FALSE, FALSE), Scope(TRUE, 2, {1}, FALSE, TRUE),
            Scope(TRUE, 1, {1, 2}, FALSE, FALSE), Scope(TRUE, 1, {1}, TRUE, FALSE)}

\* Two jobs, the second created by a user, whose peers use an ordinary directory name or one of slusk's own.
Work(x, y, L, f) == [left |-> own :> x @@ manual :> y, leaves |-> L, faults |-> f]
SmallImports == {Work(1, 1, {"L"}, 1), Work(2, 0, {"L", ".failed"}, 1)}

FilesInit ==
  /\ part \in {"download", "import"} /\ Init /\ Import!Init
  /\ part # "download" => scope = Scope(TRUE, 1, {1}, TRUE, FALSE)
  /\ part # "import" => importScope = Work(1, 1, {"L"}, 1)
FilesNext ==
  \/ part = "download" /\ Next /\ UNCHANGED <<part, importVars>>
  \/ part = "import" /\ Import!Next /\ UNCHANGED <<part, vars>>
\* The fairness of each module, while it is the part that moves; where a download does not move there is none to begin.
FilesFairness ==
  /\ Fairness
  /\ WF_importVars(part = "import" /\ Import!ImportingStep) /\ WF_importVars(part = "import" /\ Import!CleanupStep("importing"))
  /\ \A j \in Jobs : WF_importVars(part = "import" /\ Import!Late(j))
FilesSpec == FilesInit /\ [][FilesNext]_<<part, vars, importVars>> /\ FilesFairness

\* The register names what is on disk, and one job downloads into a folder (Imports).
FoldersAreSound == Import!FoldersAreSound
\* An import ends, and nothing that was put aside is lost (Imports).
ImportsEndWell == Import!ImportsEndWell
\* importing.go:523: a job that is DONE has its album in Lidarr (Imports).
DoneIsImported == Import!DoneIsImported
=============================================================================
