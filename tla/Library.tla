------------------------------- MODULE Library -------------------------------
(* Adding an artist to Lidarr's library (app/lidarr_library.go,             *)
(* lidarr/client.go, observ/lidarr.go): a request checks the root folder,   *)
(* looks the artist up, asks Lidarr to create it and, when the connection   *)
(* breaks before the answer, looks again a few times. Lidarr goes on with   *)
(* a create whose client has left; requests for the artist overlap.         *)
(* How long Lidarr takes is not bounded: a create may still land after the  *)
(* last look. Lidarr itself is external.                                    *)
EXTENDS Integers, FiniteSets

CONSTANTS
  Adds,         \* requests for one artist
  LibraryScopes \* bounds: addArtistRecheckAttempts and failing calls

VARIABLES
  lidarr,  \* the bounds of this behaviour
  artist,  \* Lidarr has the artist
  create,  \* request -> its create in Lidarr: none, under way, landed, refused or lost
  add      \* request -> its step, the looks so far and what the last one saw

libraryVars == <<lidarr, artist, create, add>>

Init ==
  /\ lidarr \in LibraryScopes
  /\ artist = FALSE /\ create = [a \in Adds |-> "none"]
  /\ add = [a \in Adds |-> [at |-> "new", looks |-> 0, saw |-> "nothing"]]

Moves(a, from, to) == add[a].at = from /\ add' = [add EXCEPT ![a].at = to]
Spend(what) == lidarr[what] > 0 /\ lidarr' = [lidarr EXCEPT ![what] = @ - 1]
LidarrUnchanged == UNCHANGED <<artist, create>>

\* The fields of the request are checked, then the folder against the accessible ones.
Admit(a) == (Moves(a, "new", "roots") \/ Moves(a, "new", "invalid")) /\ UNCHANGED lidarr /\ LidarrUnchanged
CheckRoots(a) ==
  /\ \/ (Moves(a, "roots", "lookup") \/ Moves(a, "roots", "invalid")) /\ UNCHANGED lidarr
     \/ Spend("faults") /\ Moves(a, "roots", "failed")
  /\ LidarrUnchanged
FindArtist(a) ==
  /\ \/ artist /\ Moves(a, "lookup", "already") /\ UNCHANGED lidarr
     \/ ~artist /\ Moves(a, "lookup", "create") /\ UNCHANGED lidarr
     \/ Spend("faults") /\ Moves(a, "lookup", "failed")
  /\ LidarrUnchanged
\* The request is built and sent.
AddArtist(a) ==
  /\ Moves(a, "create", "waiting")
  /\ create' = [create EXCEPT ![a] = "under way"]
  /\ UNCHANGED <<lidarr, artist>>

\* Lidarr creates the artist once; a request need not arrive.
Land(a) ==
  /\ create[a] = "under way"
  /\ create' = [create EXCEPT ![a] = IF artist THEN "refused" ELSE "landed"]
  /\ artist' = TRUE
  /\ UNCHANGED <<lidarr, add>>
Lose(a) ==
  /\ create[a] = "under way"
  /\ create' = [create EXCEPT ![a] = "lost"]
  /\ UNCHANGED <<lidarr, artist, add>>

\* Any answer but 201 is a failure, and so is a 201 whose body breaks off.
Answered(a) ==
  /\ \/ create[a] = "landed" /\ Moves(a, "waiting", "added") /\ UNCHANGED lidarr
     \/ create[a] = "landed" /\ Spend("faults") /\ Moves(a, "waiting", "failed")
     \/ create[a] = "refused" /\ Moves(a, "waiting", "failed") /\ UNCHANGED lidarr
  /\ LidarrUnchanged

\* The browser leaves, the time limit runs out or the connection breaks: the looks begin.
BreakOff(a) == Moves(a, "waiting", "recheck") /\ UNCHANGED lidarr /\ LidarrUnchanged

\* One look of recheckArtistCreated: what Lidarr answers, if it does; a create may land after that.
Look(a) ==
  /\ add[a].at = "recheck"
  /\ \E saw \in {"found", "absent", "error"} :
       /\ add' = [add EXCEPT ![a] = [at |-> "looked", looks |-> add[a].looks + 1, saw |-> saw]]
       /\ saw = "found" => artist
       /\ saw = "absent" => ~artist
       /\ IF saw = "error" THEN Spend("faults") ELSE UNCHANGED lidarr
  /\ LidarrUnchanged
\* Mutant: a look that came to no verdict counts as a failure.
VerdictFailed(lastErr) == IF lastErr \/ ~lastErr THEN "failed" ELSE "uncertain"
\* What the client makes of it: after the last look the error that is left decides, and an earlier one is forgotten.
Verdict(lastErr) == IF lastErr THEN "uncertain" ELSE "failed"
After(a) ==
  IF add[a].saw = "found" THEN "added" ELSE IF add[a].looks < lidarr.attempts THEN "recheck" ELSE Verdict(add[a].saw = "error")
Conclude(a) == Moves(a, "looked", After(a)) /\ UNCHANGED lidarr /\ LidarrUnchanged
\* The time for all looks runs out between two.
Expire(a) ==
  /\ add[a].looks > 0 /\ Moves(a, "recheck", "uncertain")
  /\ UNCHANGED lidarr /\ LidarrUnchanged

Steps(a) == Admit(a) \/ CheckRoots(a) \/ FindArtist(a) \/ AddArtist(a) \/ Answered(a) \/ BreakOff(a) \/ Look(a) \/ Conclude(a)
Next == \E a \in Adds : Steps(a) \/ Land(a) \/ Lose(a) \/ Expire(a)

\* A request goes on: every call of it has a time limit. Lidarr owes nothing.
LibraryFairness == \A a \in Adds : WF_libraryVars(Steps(a))
Spec == Init /\ [][Next]_libraryVars /\ LibraryFairness

(***************************************************************************)
(* Properties                                                              *)
(***************************************************************************)
\* The types of the variables.
TypeOK ==
  /\ artist \in BOOLEAN
  /\ \A a \in Adds :
       /\ add[a].at \in {"new", "invalid", "roots", "lookup", "create", "waiting", "recheck", "looked", "added", "already", "failed", "uncertain"}
       /\ add[a].looks \in 0 .. lidarr.attempts /\ add[a].saw \in {"nothing", "found", "absent", "error"}
       /\ create[a] \in {"none", "under way", "landed", "refused", "lost"}

\* Whoever is told the artist is there finds it, however the answer was lost; and of the requests only one created it
\* (EnsureArtist, AddArtist).
SuccessMeansThere ==
  /\ (\E a \in Adds : add[a].at \in {"added", "already"}) => artist
  /\ Cardinality({a \in Adds : create[a] = "landed"}) <= 1

\* Once Lidarr has the artist, a request that still has a look to come is not told that its create failed, however many of
\* its looks fail: the artist is found, or the outcome called uncertain (recheckArtistCreated, AddArtist). A create that
\* lands after the last answer may be called failed.
LandedIsNotFailed == \A a \in Adds : [](artist /\ add[a].at = "recheck" => [](add[a].at # "failed"))

\* A request that was admitted is answered, whatever Lidarr does with the create (the time limits of AddArtist and of the
\* looks).
EveryAddIsAnswered ==
  <>[](\A a \in Adds : add[a].at \in {"invalid", "added", "already", "failed", "uncertain"})
=============================================================================
