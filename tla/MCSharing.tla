------------------------------ MODULE MCSharing ------------------------------
(* Small instances of Uploads, Shares, ShareLookups and ShareDeliveries for *)
(* TLC, next to each other: in a behaviour one of them moves.               *)
EXTENDS Uploads

CONSTANTS Files, Audio, Odd, None, ShareScopes, Gram, Lookups, Requests, Deliveries

\* What ShareDeliveries is asked, and the limits it is given: the worker channels of soulseek/client.go and the cap of
\* reserveSearchDelivery in soulseek/shares.go.
ASSUME DeliveriesAssumption ==
  /\ IsFiniteSet(Requests)
  /\ Deliveries \subseteq [of : [Requests -> {"first", "second", "folder"}], workers : Nat, deliverers : Nat,
                           cap : Nat, stops : Nat]
\* None is no file and holds no slot, and what bounds the scans counts.
ASSUME SharesAssumption ==
  /\ None \notin Files \cup {"initial", "signal", "manual"} /\ Audio \subseteq Files
  /\ \A s \in ShareScopes :
       /\ DOMAIN s = {"configs", "room", "writes", "mounts", "faults", "starts", "rescans", "written", "seq"}
       /\ s.written \in Nat /\ s.seq \in Nat

VARIABLES
  part,
  sharing, fs, mount, meta, index, snapshot, failure, alive, folders, initial, slot, scan, unsaved,
  lookup, answered, answer,
  delivery, shareLife, at, matching, sending, inFlight, recent, expired, answers

Index == INSTANCE Shares
Look == INSTANCE ShareLookups
Answers == INSTANCE ShareDeliveries
indexVars == <<sharing, fs, mount, meta, index, snapshot, failure, alive, folders, initial, slot, scan, unsaved>>
lookVars == <<lookup, answered, answer>>
answerVars == <<delivery, shareLife, at, matching, sending, inFlight, recent, expired, answers>>
shareVars == <<indexVars, lookVars, answerVars>>

\* Two folders with a file each, of which one is audio and the other has a path the tables do not take.
M == <<"M", 1>>
N == <<"N", 1>>
TwoFiles == {M, N}
OnlyM == {M}
OnlyN == {N}
B(C, room, w, m, f, st, r) ==
  [configs |-> C, room |-> room, writes |-> w, mounts |-> m, faults |-> f, starts |-> st, rescans |-> r, written |-> 1, seq |-> 0]
Overtaken == B({{"M"}}, 2, 2, 0, 0, 1, 1)
Restarted == B({{"M", "N"}, {"M"}}, 1, 0, 1, 0, 2, 0)
Failing == B({{"M"}}, 2, 1, 0, 1, 2, 1)
SmallShares == {Overtaken, Restarted, Failing}

\* Names of two letters up to four long, every search of up to two terms; and folders whose names go on with characters
\* before and after the separator, which is 92.
Words(n) == UNION {[1 .. k -> {1, 2}] : k \in 1 .. n}
Paths == {<<1, 1, 2>>, <<1, 2, 1, 2>>, <<2, 1, 1>>, <<1, 2>>}
Searches ==
  [files : {<<x, y, z>> : x, y, z \in Paths}, include : {<<>>} \cup {<<t>> : t \in Words(3)} \cup {<<t, u>> : t, u \in Words(2)},
   exclude : {{}, {<<1, 1>>}}, limit : {0, 1, 3}]
Dirs == {<<97>>, <<65>>, <<97, 92, 97>>, <<65, 92, 98>>, <<97, 33>>, <<97, 93>>, <<97, 92, 97, 92, 98>>, <<97, 33, 92, 97>>}
Distinct(s) == \A i, j \in DOMAIN s : s[i] = s[j] => i = j
FolderRequests ==
  {l \in [directories : {<<x, y, z, v>> : x, y, z \in Dirs, v \in {<<97, 97>>, <<97, 92, 33>>}}, requested : {<<97>>, <<65>>, <<97, 92, 97>>}] :
     Distinct(l.directories)}
SmallLookups == Searches \cup FolderRequests

\* Three copies of a search and another one; two copies, another one and a folder, with a stop.
FourRequests == 1 .. 4
D(of, w, d, cap, stops) == [of |-> of, workers |-> w, deliverers |-> d, cap |-> cap, stops |-> stops]
SmallDeliveries == {D(<<"first", "first", "first", "second">>, 2, 1, 1, 0), D(<<"first", "first", "second", "folder">>, 2, 1, 2, 1)}

ALookup == [files |-> <<<<1>>, <<1>>, <<1>>>>, include |-> <<>>, exclude |-> {}, limit |-> 0]
SharingInit ==
  /\ Init /\ Index!Init /\ Answers!Init /\ answered = FALSE /\ answer = <<>>
  /\ part \in {"upload", "index", "look", "answers"}
  /\ IF part = "look" THEN lookup \in Lookups ELSE lookup = ALookup
  /\ part # "index" => sharing = Overtaken
  /\ part # "answers" => delivery.stops = 0
SharingNext ==
  \/ part = "upload" /\ Next /\ UNCHANGED <<part, shareVars>>
  \/ part = "index" /\ Index!Next /\ UNCHANGED <<part, vars, lookVars, answerVars>>
  \/ part = "look" /\ Look!Next /\ UNCHANGED <<part, vars, indexVars, answerVars>>
  \/ part = "answers" /\ Answers!Next /\ UNCHANGED <<part, vars, indexVars, lookVars>>

\* The fairness of Uploads, of which nothing is possible where it does not move, and that of Shares.
SharingFairness ==
  /\ Fairness
  /\ WF_indexVars(part = "index" /\ Index!Runs)
  /\ WF_indexVars(part = "index" /\ (Index!InitialLoads \/ Index!InitialScans))
  /\ WF_indexVars(part = "index" /\ Index!BackoffEnds)
  /\ WF_indexVars(part = "index" /\ \E d \in Index!Folders : Index!Mount(d, "up"))
SharingSpec == SharingInit /\ [][SharingNext]_<<part, vars, shareVars>> /\ SharingFairness

\* What is shared is what a scan found of the configured folders, or the report says why not (Shares).
SharesAreSound == Index!SharesAreSound
\* Snapshots get newer, and there comes one (Shares).
SharesGoForward == Index!SharesGoForward
\* Searches and folder requests find what looking at every file finds (ShareLookups).
LookupsAreComplete == Look!LookupsAreComplete
\* A search is answered once, within the limits, and refused only for a reason (ShareDeliveries).
DeliveriesAreSound == Answers!DeliveriesAreSound
=============================================================================
