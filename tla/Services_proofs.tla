---------------------------- MODULE Services_proofs ----------------------------
(* What the services of MCServices guarantee for every number of requests,  *)
(* modules and starts, and whatever their bounds are.                       *)
EXTENDS MCServices, FiniteSetTheorems, SequenceTheorems, WellFoundedInduction, TLAPS

(***************************************************************************)
(* Daemon: the store is closed last                                        *)
(***************************************************************************)
Starting == {"config", "store", "listen"}
Drained == {"server", "runner", "soulseek", "client", "recorder", "close"}
Joined == {"soulseek", "client", "recorder", "close"}

\* What the variables can hold.
DaemonTypes ==
  /\ main \in Starting \cup {"running", "shutdown", "exited"} \cup Drained
  /\ database \in {"new", "open", "closed"} /\ exit \in {-1, 0, 1}
  /\ server \in [is : {"new", "serving", "failed", "shut", "failed_shut"}, taken : BOOLEAN]
  /\ handler \in [Handlers -> {"idle", "busy"}]
  /\ ticking \in [Ticking -> {"new", "tick", "wait", "ended"}]
  /\ runner \in {"new", "running", "done", "timeout", "taken"}
  /\ soul \in [client : {"none", "running", "ended"}, recorder : {"none", "running", "flushing", "ended"},
               ends : BOOLEAN, gaveUp : BOOLEAN]
  /\ outcome \in [failed : BOOLEAN, safe : BOOLEAN]
  /\ stopAsked \in BOOLEAN

Quiet == \A h \in Handlers : handler[h] = "idle"
AllEnded == \A m \in Ticking : ticking[m] = "ended"

\* Nothing runs before Listen, and what a failed start leaves is as it was.
NotYetRunning ==
  /\ main \in Starting => /\ server.is = "new" /\ Quiet /\ \A m \in Ticking : ticking[m] = "new"
                          /\ soul.recorder = "none"
  /\ server.is = "new" => /\ Quiet /\ \A m \in Ticking : ticking[m] = "new"
                          /\ soul.recorder = "none" /\ exit # 0
\* The store is open from the start to the exit; the exit code is there at the exit.
StoreIsOpen ==
  /\ exit = -1 <=> main # "exited"
  /\ main # "exited" => database # "closed"
\* The runner says it is done when every loop is; what is given up is not safe.
RunnerTells == (runner = "done" \/ (runner = "taken" /\ outcome.safe)) => AllEnded
\* How far the end has come, and what that means as long as every wait has ended.
EndTells ==
  /\ main \in Drained => Main!IsShut /\ (outcome.safe => Quiet)
  /\ main \in Joined /\ outcome.safe => runner = "taken"
  /\ main = "close" /\ ~soul.gaveUp => soul.recorder \in {"none", "ended"}
  /\ ~outcome.safe => outcome.failed
  /\ main \in {"shutdown"} \cup Drained /\ ~outcome.failed => stopAsked

DaemonInv ==
  /\ DaemonTypes /\ NotYetRunning /\ StoreIsOpen /\ RunnerTells /\ EndTells
  /\ Main!StoreOutlivesItsUsers /\ Main!FlushMeetsStore /\ Main!CleanExitIsClean

LEMMA DaemonInit == Main!Init => DaemonInv
<1>. USE DEF Main!Init
<1>. SUFFICES ASSUME Main!Init PROVE DaemonInv OBVIOUS
<1>1. DaemonTypes
  <2>1. main \in Starting BY DEF Starting
  <2>2. exit \in {-1, 0, 1} OBVIOUS
  <2>3. server \in [is : {"new", "serving", "failed", "shut", "failed_shut"}, taken : BOOLEAN] OBVIOUS
  <2>4. soul \in [client : {"none", "running", "ended"}, recorder : {"none", "running", "flushing", "ended"},
               ends : BOOLEAN, gaveUp : BOOLEAN] OBVIOUS
  <2>5. outcome \in [failed : BOOLEAN, safe : BOOLEAN] OBVIOUS
  <2>6. /\ database \in {"new", "open", "closed"} /\ stopAsked \in BOOLEAN
  /\ runner \in {"new", "running", "done", "timeout", "taken"} OBVIOUS
  <2>7. /\ handler \in [Handlers -> {"idle", "busy"}]
        /\ ticking \in [Ticking -> {"new", "tick", "wait", "ended"}] OBVIOUS
  <2>. QED BY <2>1, <2>2, <2>3, <2>4, <2>5, <2>6, <2>7 DEF DaemonTypes
<1>2. NotYetRunning BY DEF NotYetRunning, Quiet, Starting
<1>3. StoreIsOpen BY DEF StoreIsOpen
<1>4. RunnerTells BY DEF RunnerTells
<1>5. EndTells BY DEF EndTells, Drained, Joined
<1>6. Main!StoreOutlivesItsUsers BY DEF Main!StoreOutlivesItsUsers
<1>7. Main!FlushMeetsStore BY DEF Main!FlushMeetsStore
<1>8. Main!CleanExitIsClean BY DEF Main!CleanExitIsClean
<1>. QED BY <1>1, <1>2, <1>3, <1>4, <1>5, <1>6, <1>7, <1>8 DEF DaemonInv

\* What an outcome says after a failure is added to it.
LEMMA FailedMeans ==
  ASSUME DaemonTypes, NEW bad, NEW unsafe, Main!Failed(bad, unsafe)
  PROVE /\ outcome' \in [failed : BOOLEAN, safe : BOOLEAN]
        /\ outcome'.failed <=> (outcome.failed \/ bad)
        /\ outcome'.safe <=> (outcome.safe /\ ~unsafe)
<1>. USE DEF Main!Failed
<1>. outcome \in [failed : BOOLEAN, safe : BOOLEAN] BY DEF DaemonTypes
<1>1. outcome' \in [failed : BOOLEAN, safe : BOOLEAN] OBVIOUS
<1>2. outcome'.failed <=> (outcome.failed \/ bad) OBVIOUS
<1>3. outcome'.safe <=> (outcome.safe /\ ~unsafe) OBVIOUS
<1>. QED BY <1>1, <1>2, <1>3

LEMMA DaemonStep == DaemonInv /\ [Main!Next]_daemonVars => DaemonInv'
<1>. USE DEF DaemonInv, DaemonTypes, NotYetRunning, StoreIsOpen, RunnerTells, EndTells,
     Main!StoreOutlivesItsUsers, Main!FlushMeetsStore, Main!CleanExitIsClean, Starting, Drained,
     Joined, Quiet, AllEnded, Main!IsShut, Main!Running, Main!At, Main!Budget, Main!SidesUnchanged,
     Main!RestUnchanged
<1>1. ASSUME DaemonInv, UNCHANGED daemonVars PROVE DaemonInv' BY <1>1 DEF daemonVars
<1>2. ASSUME DaemonInv, Main!LoadConfig PROVE DaemonInv' BY <1>2 DEF Main!LoadConfig
<1>3. ASSUME DaemonInv, Main!OpenStore PROVE DaemonInv' BY <1>3 DEF Main!OpenStore
<1>4. ASSUME DaemonInv, Main!StopStart PROVE DaemonInv' BY <1>4 DEF Main!StopStart
<1>5. ASSUME DaemonInv, Main!Listen PROVE DaemonInv' BY <1>5 DEF Main!Listen
<1>6. ASSUME DaemonInv, Main!Wake PROVE DaemonInv'
  <2>1. main = "running" /\ main' = "shutdown" /\ UNCHANGED <<stopAsked, database, handler, ticking, soul, exit>>
    BY <1>6 DEF Main!Wake
  <2>2. CASE stopAsked /\ UNCHANGED <<server, runner, outcome>> BY <1>6, <2>1, <2>2
  <2>3. CASE server.is = "failed" /\ server' = [server EXCEPT !.taken = TRUE] /\ Main!Failed(TRUE, FALSE) /\ UNCHANGED runner
    <3>1. outcome' \in [failed : BOOLEAN, safe : BOOLEAN] /\ outcome'.failed /\ (outcome'.safe <=> outcome.safe)
      BY <1>6, <2>3, FailedMeans
    <3>2. server' \in [is : {"new", "serving", "failed", "shut", "failed_shut"}, taken : BOOLEAN] /\ server'.is = server.is
      BY <1>6, <2>3
    <3>3. runner' = runner BY <2>3
    <3>. QED BY <1>6, <2>1, <3>1, <3>2, <3>3
  <2>4. CASE /\ runner \in {"done", "timeout"} /\ runner' = "taken" /\ UNCHANGED server
             /\ Main!Failed(runner = "timeout" \/ ~stopAsked, runner = "timeout")
    <3>1. /\ outcome' \in [failed : BOOLEAN, safe : BOOLEAN]
          /\ outcome'.failed <=> outcome.failed \/ runner = "timeout" \/ ~stopAsked
          /\ outcome'.safe <=> outcome.safe /\ ~(runner = "timeout") BY <1>6, <2>4, FailedMeans, Zenon
    <3>. QED BY <1>6, <2>1, <2>4, <3>1
  <2>. QED BY <1>6, <2>2, <2>3, <2>4 DEF Main!Wake
<1>7. ASSUME DaemonInv, Main!ShutServer PROVE DaemonInv' BY <1>7 DEF Main!ShutServer
<1>8. ASSUME DaemonInv, Main!Shutdown PROVE DaemonInv'
  <2>1. main = "shutdown" /\ main' = "server" /\ Main!IsShut
        /\ UNCHANGED <<stopAsked, database, server, handler, ticking, runner, soul, exit>>
    BY <1>8 DEF Main!Shutdown
  <2>2. CASE Quiet /\ UNCHANGED outcome BY <1>8, <2>1, <2>2
  <2>3. CASE Main!Failed(TRUE, TRUE)
    <3>1. outcome' \in [failed : BOOLEAN, safe : BOOLEAN] /\ outcome'.failed /\ ~outcome'.safe BY <1>8, <2>3, FailedMeans
    <3>. QED BY <1>8, <2>1, <3>1
  <2>. QED BY <1>8, <2>2, <2>3 DEF Main!Shutdown
<1>9. ASSUME DaemonInv, Main!TakeServer PROVE DaemonInv'
  <2>1. main = "server" /\ main' = "runner" /\ UNCHANGED <<stopAsked, database, handler, ticking, runner, soul, exit>>
    BY <1>9 DEF Main!TakeServer
  <2>2. server' \in [is : {"new", "serving", "failed", "shut", "failed_shut"}, taken : BOOLEAN] /\ server'.is = server.is
    BY <1>9 DEF Main!TakeServer
  <2>3. CASE UNCHANGED outcome BY <1>9, <2>1, <2>3, <2>2
  <2>4. CASE Main!Failed(server.is = "failed_shut", FALSE)
    <3>1. outcome' \in [failed : BOOLEAN, safe : BOOLEAN] /\ (outcome.failed => outcome'.failed) /\ (outcome'.safe <=> outcome.safe)
      BY <1>9, <2>4, FailedMeans, Zenon
    <3>. QED BY <1>9, <2>1, <2>2, <3>1
  <2>5. CASE Main!Failed(TRUE, TRUE)
    <3>1. outcome' \in [failed : BOOLEAN, safe : BOOLEAN] /\ outcome'.failed /\ ~outcome'.safe BY <1>9, <2>5, FailedMeans
    <3>. QED BY <1>9, <2>1, <2>2, <3>1
  <2>. QED BY <1>9, <2>3, <2>4, <2>5 DEF Main!TakeServer
<1>10. ASSUME DaemonInv, Main!TakeRunner PROVE DaemonInv'
  <2>1. main = "runner" /\ main' = "soulseek" /\ UNCHANGED <<stopAsked, database, server, handler, ticking, soul, exit>>
    BY <1>10 DEF Main!TakeRunner
  <2>2. CASE runner = "taken" /\ UNCHANGED <<runner, outcome>> BY <1>10, <2>1, <2>2
  <2>3. CASE runner \in {"done", "timeout"} /\ runner' = "taken" /\ Main!Failed(runner = "timeout", runner = "timeout")
    <3>1. /\ outcome' \in [failed : BOOLEAN, safe : BOOLEAN]
          /\ outcome'.failed <=> outcome.failed \/ runner = "timeout"
          /\ outcome'.safe <=> outcome.safe /\ ~(runner = "timeout") BY <1>10, <2>3, FailedMeans, Zenon
    <3>. QED BY <1>10, <2>1, <2>3, <3>1
  <2>4. CASE Main!Failed(TRUE, TRUE) /\ UNCHANGED runner
    <3>1. outcome' \in [failed : BOOLEAN, safe : BOOLEAN] /\ outcome'.failed /\ ~outcome'.safe BY <1>10, <2>4, FailedMeans
    <3>. QED BY <1>10, <2>1, <2>4, <3>1
  <2>. QED BY <1>10, <2>2, <2>3, <2>4 DEF Main!TakeRunner
<1>11. ASSUME DaemonInv, Main!StopSoulseek PROVE DaemonInv' BY ZenonT(150), <1>11 DEF Main!StopSoulseek
<1>12. ASSUME DaemonInv, Main!JoinClient PROVE DaemonInv' BY <1>12 DEF Main!JoinClient
<1>13. ASSUME DaemonInv, Main!JoinRecorder PROVE DaemonInv' BY <1>13 DEF Main!JoinRecorder
<1>14. ASSUME DaemonInv, Main!CloseStore PROVE DaemonInv' BY <1>14 DEF Main!CloseStore
<1>15. ASSUME DaemonInv, Main!AskToStop PROVE DaemonInv' BY <1>15 DEF Main!AskToStop
<1>16. ASSUME DaemonInv, Main!ServerFails PROVE DaemonInv' BY <1>16 DEF Main!ServerFails
<1>17. ASSUME DaemonInv, Main!FailStart PROVE DaemonInv' BY <1>17 DEF Main!FailStart
<1>18. ASSUME DaemonInv, Main!ClientEnds PROVE DaemonInv' BY <1>18 DEF Main!ClientEnds
<1>19. ASSUME DaemonInv, Main!RecorderFlushes PROVE DaemonInv' BY <1>19 DEF Main!RecorderFlushes
<1>20. ASSUME DaemonInv, Main!RecorderEnds PROVE DaemonInv' BY <1>20 DEF Main!RecorderEnds
<1>21. ASSUME DaemonInv, Main!Expire PROVE DaemonInv' BY <1>21 DEF Main!Expire
<1>22. ASSUME DaemonInv, Main!RunnerEnds PROVE DaemonInv' BY <1>22 DEF Main!RunnerEnds
<1>23. ASSUME DaemonInv, NEW h \in Handlers, Main!Request(h) PROVE DaemonInv' BY <1>23 DEF Main!Request
<1>24. ASSUME DaemonInv, NEW h \in Handlers, Main!Respond(h) PROVE DaemonInv' BY <1>24 DEF Main!Respond
<1>25. ASSUME DaemonInv, NEW m \in Ticking, Main!TickAgain(m) PROVE DaemonInv' BY <1>25 DEF Main!TickAgain
<1>26. ASSUME DaemonInv, NEW m \in Ticking, Main!TickEnds(m) PROVE DaemonInv' BY <1>26 DEF Main!TickEnds
<1>27. ASSUME DaemonInv, NEW m \in Ticking, Main!LoopEnds(m) PROVE DaemonInv' BY <1>27 DEF Main!LoopEnds
<1>. QED BY <1>1, <1>2, <1>3, <1>4, <1>5, <1>6, <1>7, <1>8, <1>9, <1>10, <1>11, <1>12, <1>13, <1>14,
     <1>15, <1>16, <1>17, <1>18, <1>19, <1>20, <1>21, <1>22, <1>23, <1>24, <1>25, <1>26, <1>27 DEF Main!Next, Main!Main, Main!Beside

\* The part of MCServices that moves is Daemon or leaves it alone.
LEMMA DaemonMoves == [Next]_vars => [Main!Next]_daemonVars
BY DEF Next, vars

\* main.go:1105: the store is closed when no handler and no module uses it any more, whatever of them hangs and whichever
\* wait runs out first; the recorder's last write comes before that, and an exit without error was asked for and complete
\* (runRuntime, shutdownSoulseek, closeStoreAfterRuntime).
THEOREM StoreClosesLast == Spec => []ShutdownIsSound
<1>1. Init => DaemonInv BY DaemonInit DEF Init
<1>2. DaemonInv /\ [Next]_vars => DaemonInv' BY DaemonMoves, DaemonStep
<1>3. DaemonInv => ShutdownIsSound
  <2>1. DaemonInv => Main!TypeOK BY DEF DaemonInv, DaemonTypes, StoreIsOpen, Main!TypeOK, Starting, Drained
  <2>. QED BY <2>1 DEF DaemonInv, ShutdownIsSound, Main!ShutdownIsSound
<1>. QED BY <1>1, <1>2, <1>3, PTL DEF Spec

(***************************************************************************)
(* Numbers: the least and the greatest of a set, and a set in order        *)
(***************************************************************************)
LEMMA Least == ASSUME NEW T \in SUBSET Nat, T # {} PROVE \E x \in T : \A y \in T : x <= y
<1>. DEFINE R == OpToRel(<, Nat)
<1>1. IsWellFoundedOn(R, Nat) BY NatLessThanWellFounded
<1>. HIDE DEF R
<1>2. \E x \in T : \A y \in T : ~ (<<y, x>> \in R) BY <1>1, WFMin
<1>3. ASSUME NEW x \in Nat, NEW y \in Nat, <<y, x>> \notin R PROVE x <= y BY <1>3 DEF R, OpToRel
<1>. QED BY <1>2, <1>3
LEMMA Greatest == ASSUME NEW N \in Nat, NEW T \in SUBSET Nat, T # {}, \A x \in T : x <= N PROVE \E x \in T : \A y \in T : y <= x
<1>. DEFINE Rests == {N - x : x \in T}
<1>1. \A x \in T : N - x \in Nat OBVIOUS
<1>2. Rests \in SUBSET Nat /\ Rests # {} BY <1>1
<1>3. PICK d0 \in Rests : \A y \in Rests : d0 <= y BY <1>2, Least
<1>4. PICK x \in T : d0 = N - x BY <1>3
<1>5. \A y \in T : N - x <= N - y BY <1>3, <1>4
<1>. QED BY <1>4, <1>5
Falling(s, S) == s \in [1 .. Cardinality(S) -> S] /\ \A i, j \in 1 .. Cardinality(S) : i < j => s[i] > s[j]
\* Every finite set of numbers can be listed from the greatest to the least.
LEMMA FallingExists == \A S \in SUBSET Nat : IsFiniteSet(S) => \E s : Falling(s, S)
<1>. DEFINE Bad == {n \in Nat : \E S \in SUBSET Nat : IsFiniteSet(S) /\ Cardinality(S) = n /\ ~\E s : Falling(s, S)}
<1>1. SUFFICES ASSUME Bad # {} PROVE FALSE BY FS_CardinalityType
<1>2. PICK n \in Bad : \A k \in Bad : n <= k BY <1>1, Least
<1>3. PICK S \in SUBSET Nat : IsFiniteSet(S) /\ Cardinality(S) = n /\ ~\E s : Falling(s, S) BY <1>2
<1>4. CASE S = {}
  <2>1. n = 0 BY <1>3, <1>4, FS_EmptySet
  <2>2. Falling([i \in 1 .. 0 |-> i], S) BY <1>3, <1>4, <2>1 DEF Falling
  <2>. QED BY <1>3, <2>2
<1>5. CASE S # {}
  <2>1. PICK m \in S : \A y \in S : m <= y BY <1>5, Least
  <2>. DEFINE R == S \ {m}
  <2>2. IsFiniteSet(R) /\ Cardinality(R) = n - 1 BY <1>3, FS_RemoveElement
  <2>3. n - 1 \in Nat BY <2>2, FS_CardinalityType
  <2>4. n - 1 \notin Bad BY <1>2, <2>3
  <2>5. PICK s : Falling(s, R) BY <2>2, <2>3, <2>4
  <2>. DEFINE t == [i \in 1 .. n |-> IF i = n THEN m ELSE s[i]]
  <2>6. \A i \in 1 .. n - 1 : s[i] \in R BY <2>2, <2>5 DEF Falling
  <2>7. t \in [1 .. n -> S] BY <2>3, <2>6
  <2>8. \A i, j \in 1 .. n : i < j => t[i] > t[j]
    <3>1. SUFFICES ASSUME NEW i \in 1 .. n, NEW j \in 1 .. n, i < j PROVE t[i] > t[j] OBVIOUS
    <3>a. i \in 1 .. n - 1 /\ i # n BY <2>3, <3>1
    <3>b. t[i] = s[i] BY <3>a
    <3>c. s[i] \in R BY <2>6, <3>a
    <3>2. i \in 1 .. n - 1 /\ t[i] = s[i] /\ s[i] \in Nat /\ s[i] # m /\ m <= s[i] /\ m \in Nat BY <2>1, <3>a, <3>b, <3>c
    <3>3. CASE j = n BY <3>2, <3>3
    <3>4. CASE j # n
      <4>1. j \in 1 .. n - 1 /\ t[j] = s[j] BY <2>3, <3>4
      <4>. QED BY <2>2, <2>5, <3>1, <3>2, <4>1 DEF Falling
    <3>. QED BY <3>3, <3>4
  <2>9. Falling(t, S) BY <1>3, <2>7, <2>8 DEF Falling
  <2>. QED BY <1>3, <2>9
<1>. QED BY <1>4, <1>5
\* Such a list has them all.
LEMMA FallingIsAll ==
  ASSUME NEW S \in SUBSET Nat, IsFiniteSet(S), NEW s, Falling(s, S)
  PROVE  /\ s \in Seq(S) /\ Len(s) = Cardinality(S) /\ Cardinality(S) \in Nat
         /\ \A x \in S : \E i \in 1 .. Cardinality(S) : s[i] = x
<1>. DEFINE n == Cardinality(S)
<1>1. n \in Nat BY FS_CardinalityType
<1>2. s \in [1 .. n -> S] BY DEF Falling
<1>3. s \in Seq(S) /\ Len(s) = n
  <2>. HIDE DEF n
  <2>. QED BY <1>1, <1>2
<1>4. \A i, j \in 1 .. n : s[i] = s[j] => i = j
  <2>1. \A i, j \in 1 .. n : i < j => s[i] > s[j] BY DEF Falling
  <2>2. \A i \in 1 .. n : s[i] \in Nat BY <1>2
  <2>. HIDE DEF n
  <2>. QED BY <1>1, <2>1, <2>2
<1>5. s \in Injection(1 .. n, S) BY <1>2, <1>4 DEF Injection, IsInjective
<1>6. IsFiniteSet(1 .. n) /\ Cardinality(1 .. n) = n BY <1>1, FS_Interval
<1>7. s \in Surjection(1 .. n, S) BY <1>5, <1>6, FS_Injection
<1>. QED BY <1>1, <1>3, <1>7 DEF Surjection

\* A finite set of numbers has an upper bound.
LEMMA FiniteIsBounded == ASSUME NEW S \in SUBSET Nat, IsFiniteSet(S) PROVE \E N \in Nat : \A x \in S : x <= N
<1>1. PICK s : Falling(s, S) BY FallingExists
<1>2. /\ s \in Seq(S) /\ Len(s) = Cardinality(S) /\ Cardinality(S) \in Nat
      /\ \A x \in S : \E i \in 1 .. Cardinality(S) : s[i] = x BY <1>1, FallingIsAll
<1>3. CASE S = {} BY <1>3
<1>4. CASE S # {}
  <2>1. \A x \in S : x <= s[1]
    <3>1. TAKE x \in S
    <3>2. PICK i \in 1 .. Cardinality(S) : s[i] = x BY <1>2
    <3>3. 1 \in 1 .. Cardinality(S) BY <1>2, <3>2
    <3>4. s[1] \in Nat BY <1>1, <3>3 DEF Falling
    <3>5. CASE i = 1 BY <3>2, <3>4, <3>5
    <3>6. CASE i # 1
      <4>1. 1 < i BY <3>2, <3>6
      <4>2. s[1] > x BY <1>1, <3>2, <3>3, <4>1 DEF Falling
      <4>. QED BY <3>4, <4>2
    <3>. QED BY <3>5, <3>6
  <2>2. s[1] \in Nat
    <3>1. PICK x \in S : TRUE BY <1>4
    <3>2. PICK i \in 1 .. Cardinality(S) : s[i] = x BY <1>2
    <3>3. 1 \in 1 .. Cardinality(S) BY <1>2, <3>2
    <3>. QED BY <1>1, <3>3 DEF Falling
  <2>. QED BY <2>1, <2>2
<1>. QED BY <1>3, <1>4
(***************************************************************************)
(* Messages: stored once, shown once                                       *)
(***************************************************************************)
\* The types of the variables.
MailTypes ==
  /\ chat \in [failures : Nat, page : Nat]
  /\ kept \subseteq Letters /\ nextId \in Nat
  /\ worker \in [at : {"idle", "insert", "commit", "acknowledge"}, letter : Letters \cup {0}, id : Nat]
  /\ worker.at # "idle" => worker.letter \in Letters
DraftTypes ==
  /\ left \subseteq Drafts
  /\ draft \in [Drafts -> [at : {"none", "sent", "commit", "answered", "failed"}, id : Nat]]
RowTypes == rows \in SUBSET [direction : {"in", "out"}, of : Letters \cup Drafts, id : Nat \ {0}] /\ IsFiniteSet(rows)
ThreadTypes ==
  /\ thread \in [at : {"closed", "more", "end"}, before : Nat, shown : Seq(Nat), first : SUBSET Nat]

\* An id belongs to one row, and to none while its insert is not committed.
RowIdsUnique == \A r, s \in rows : r.id = s.id => r = s
IdsGiven ==
  /\ nextId >= 1 /\ \A r \in rows : r.id < nextId
  /\ worker.at = "commit" => worker.id # 0 /\ worker.id < nextId
  /\ \A d \in Drafts : draft[d].at = "commit" => draft[d].id # 0 /\ draft[d].id < nextId
WorkerIdIsFree == worker.at = "commit" => \A r \in rows : r.id # worker.id
DraftIdsAreFree == \A d \in Drafts : draft[d].at = "commit" => \A r \in rows : r.id # draft[d].id
PendingIdsDiffer ==
  /\ \A d \in Drafts : draft[d].at = "commit" /\ worker.at = "commit" => draft[d].id # worker.id
  /\ \A d, e \in Drafts : draft[d].at = "commit" /\ draft[e].at = "commit" /\ draft[d].id = draft[e].id => d = e
\* What the worker inserts is not stored yet, and what it acknowledges is.
WorkerKnows ==
  /\ worker.at = "commit" => ~Chat!Conflicts(worker.letter)
  /\ worker.at = "acknowledge" => Chat!IsStored(worker.letter)
\* A draft on its way has gone.
DraftsHaveLeft == \A d \in Drafts : draft[d].at \in {"sent", "commit", "answered"} => d \in left
\* What was there when the thread was opened is still there, and is shown or below what was shown.
FirstIsThere == \A i \in thread.first : \E r \in rows : r.id = i
ShownFalls == \A i, j \in DOMAIN thread.shown : i < j => thread.shown[i] > thread.shown[j]
ShownIsAbove == thread.at = "more" => \A i \in DOMAIN thread.shown : thread.before # 0 /\ thread.before <= thread.shown[i]
FirstIsShown ==
  \A i \in thread.first : \/ \E k \in DOMAIN thread.shown : thread.shown[k] = i
                          \/ thread.at = "more" /\ (thread.before = 0 \/ i < thread.before)
ChatInv ==
  /\ MailTypes /\ DraftTypes /\ RowTypes /\ ThreadTypes
  /\ RowIdsUnique /\ IdsGiven /\ WorkerIdIsFree /\ DraftIdsAreFree /\ PendingIdsDiffer
  /\ Chat!StoredOnce /\ Chat!ForgottenIsStored /\ Chat!SentRowsLeft /\ WorkerKnows /\ DraftsHaveLeft
  /\ FirstIsThere /\ ShownFalls /\ ShownIsAbove /\ FirstIsShown
\* What the helpers of the actions do to the variables they assign.
ChatBudgets == [failures : Nat, page : Nat]
RowsOf == [direction : {"in", "out"}, of : Letters \cup Drafts, id : Nat \ {0}]
LEMMA FailsTypes == ASSUME MailTypes, Chat!Fails PROVE chat' \in ChatBudgets /\ chat'.page = chat.page
<1>1. chat.failures \in Nat /\ chat.page \in Nat BY DEF MailTypes
<1>2. chat.failures > 0 /\ chat' = [chat EXCEPT !.failures = @ - 1] BY DEF Chat!Fails
<1>3. chat.failures - 1 \in Nat BY <1>1, <1>2
<1>4. chat' = [chat EXCEPT !.failures = chat.failures - 1] BY <1>2
<1>. QED BY <1>3, <1>4 DEF MailTypes, ChatBudgets
LEMMA DraftMovesTypes ==
  ASSUME DraftTypes, NEW d \in Drafts, NEW from, NEW to \in {"none", "sent", "commit", "answered", "failed"}, Chat!DraftMoves(d, from, to)
  PROVE  /\ draft[d].at = from
         /\ draft' \in [Drafts -> [at : {"none", "sent", "commit", "answered", "failed"}, id : Nat]]
         /\ draft'[d].at = to /\ draft'[d].id = draft[d].id
         /\ \A e \in Drafts : e # d => draft'[e] = draft[e]
<1>1. draft[d].at = from /\ draft' = [draft EXCEPT ![d].at = to] BY DEF Chat!DraftMoves
<1>2. draft[d] \in [at : {"none", "sent", "commit", "answered", "failed"}, id : Nat] BY DEF DraftTypes
<1>. DEFINE r == [draft[d] EXCEPT !.at = to]
<1>3. r \in [at : {"none", "sent", "commit", "answered", "failed"}, id : Nat] /\ r.at = to /\ r.id = draft[d].id BY <1>2
<1>4. draft' = [draft EXCEPT ![d] = r] BY <1>1
<1>. HIDE DEF r
<1>. QED BY <1>1, <1>3, <1>4 DEF DraftTypes
LEMMA RowAdded ==
  ASSUME RowTypes, NEW r \in RowsOf, rows' \in {rows, rows \cup {r}}
  PROVE  RowTypes'
<1>1. IsFiniteSet(rows \cup {r}) BY FS_AddElement DEF RowTypes
<1>2. rows' \in SUBSET RowsOf BY DEF RowTypes, RowsOf
<1>. QED BY <1>1, <1>2 DEF RowTypes, RowsOf
LEMMA LetterAdded ==
  ASSUME MailTypes, RowTypes, IdsGiven, NEW c \in BOOLEAN, c => worker.at = "commit", Chat!StoreLetter(c)
  PROVE  RowTypes'
<1>1. CASE c
  <2>. DEFINE r == Chat!Row("in", worker.letter, worker.id)
  <2>1. worker.letter \in Letters /\ worker.id \in Nat \ {0} BY <1>1 DEF MailTypes, IdsGiven
  <2>2. r \in RowsOf BY <2>1 DEF RowsOf, Chat!Row
  <2>3. rows' = rows \cup {r} BY <1>1 DEF Chat!StoreLetter
  <2>. HIDE DEF r
  <2>. QED BY <2>2, <2>3, RowAdded
<1>2. CASE ~c
  <2>1. rows' = rows BY <1>2 DEF Chat!StoreLetter
  <2>. QED BY <2>1 DEF RowTypes
<1>. QED BY <1>1, <1>2
LEMMA DraftAdded ==
  ASSUME DraftTypes, RowTypes, IdsGiven, NEW d \in Drafts, draft[d].at = "commit", NEW c \in BOOLEAN, Chat!StoreDraft(d, c)
  PROVE  RowTypes'
<1>1. CASE c
  <2>. DEFINE r == Chat!Row("out", d, draft[d].id)
  <2>1. draft[d].id \in Nat \ {0} BY DEF DraftTypes, IdsGiven
  <2>2. r \in RowsOf BY <2>1 DEF RowsOf, Chat!Row
  <2>3. rows' = rows \cup {r} BY <1>1 DEF Chat!StoreDraft
  <2>. HIDE DEF r
  <2>. QED BY <2>2, <2>3, RowAdded
<1>2. CASE ~c
  <2>1. rows' = rows BY <1>2 DEF Chat!StoreDraft
  <2>. QED BY <2>1 DEF RowTypes
<1>. QED BY <1>1, <1>2
\* The steps of a draft that sends it and that commits it.
LEMMA DraftSent ==
  ASSUME ChatInv, NEW d \in Drafts, Chat!SendPrivateMessage(d)
  PROVE  /\ draft[d].at = "none" /\ draft'[d].at \in {"sent", "failed"} /\ (draft'[d].at = "sent" => d \in left')
         /\ draft' \in [Drafts -> [at : {"none", "sent", "commit", "answered", "failed"}, id : Nat]]
         /\ \A e \in Drafts : e # d => draft'[e] = draft[e]
         /\ left \subseteq left' /\ left' \subseteq Drafts /\ UNCHANGED <<kept, worker, rows, nextId, thread>>
         /\ chat' \in ChatBudgets
<1>. USE DEF Chat!SendPrivateMessage
<1>. DraftTypes /\ MailTypes BY DEF ChatInv
<1>1. chat \in ChatBudgets BY DEF MailTypes, ChatBudgets
<1>2. CASE Chat!DraftMoves(d, "none", "sent") /\ left' = left \cup {d} /\ UNCHANGED chat
BY <1>1, <1>2, DraftMovesTypes DEF Chat!MailUnchanged, Chat!RowsUnchanged, DraftTypes
<1>3. CASE Chat!DraftMoves(d, "none", "failed") /\ Chat!Fails /\ UNCHANGED left
BY <1>3, DraftMovesTypes, FailsTypes DEF Chat!MailUnchanged, Chat!RowsUnchanged, DraftTypes
<1>. QED BY <1>2, <1>3
LEMMA DraftCommits ==
  ASSUME ChatInv, NEW d \in Drafts, Chat!CommitOutgoing(d)
  PROVE  /\ draft[d].at = "commit" /\ draft'[d].at \in {"answered", "failed"}
         /\ draft' \in [Drafts -> [at : {"none", "sent", "commit", "answered", "failed"}, id : Nat]]
         /\ \A e \in Drafts : e # d => draft'[e] = draft[e]
         /\ rows \subseteq rows' /\ \A r \in rows' : r \in rows \/ (r.direction = "out" /\ r.of = d /\ r.id = draft[d].id)
         /\ (draft'[d].at = "answered" => \E r \in rows' : r.direction = "out" /\ r.of = d)
         /\ \A e \in Drafts : draft'[e].at = "commit" => e # d /\ draft[e].at = "commit" /\ draft'[e] = draft[e]
         /\ RowTypes' /\ UNCHANGED <<kept, worker, left, nextId, thread>> /\ chat' \in ChatBudgets
<1>. DraftTypes /\ MailTypes /\ RowTypes /\ IdsGiven BY DEF ChatInv
<1>1. chat \in ChatBudgets BY DEF MailTypes, ChatBudgets
<1>2. UNCHANGED <<kept, worker, left, nextId, thread>> BY DEF Chat!CommitOutgoing, Chat!MailUnchanged
<1>3. CASE Chat!DraftMoves(d, "commit", "answered") /\ Chat!StoreDraft(d, TRUE) /\ UNCHANGED chat
  <2>1. draft[d].at = "commit" BY <1>3 DEF Chat!DraftMoves
  <2>2. RowTypes' BY <1>3, <2>1, DraftAdded
  <2>3. rows' = rows \cup {Chat!Row("out", d, draft[d].id)} BY <1>3 DEF Chat!StoreDraft
  <2>4. /\ rows \subseteq rows' /\ \A r \in rows' : r \in rows \/ (r.direction = "out" /\ r.of = d /\ r.id = draft[d].id)
    BY <2>3 DEF Chat!Row
  <2>5. \E r \in rows' : r.direction = "out" /\ r.of = d
    <3>1. Chat!Row("out", d, draft[d].id) \in rows' BY <2>3
    <3>. QED BY <3>1 DEF Chat!Row
  <2>. QED BY <1>1, <1>3, <1>2, <2>1, <2>2, <2>4, <2>5, DraftMovesTypes
<1>4. CASE Chat!DraftMoves(d, "commit", "failed") /\ Chat!Fails /\ \E committed \in BOOLEAN : Chat!StoreDraft(d, committed)
  <2>1. draft[d].at = "commit" BY <1>4 DEF Chat!DraftMoves
  <2>2. PICK c \in BOOLEAN : Chat!StoreDraft(d, c) BY <1>4
  <2>3. RowTypes' BY <2>1, <2>2, DraftAdded
  <2>4. rows \subseteq rows' /\ \A r \in rows' : r \in rows \/ (r.direction = "out" /\ r.of = d /\ r.id = draft[d].id)
    BY <2>2 DEF Chat!StoreDraft, Chat!Row
  <2>. QED BY <1>4, <1>2, <2>1, <2>3, <2>4, DraftMovesTypes, FailsTypes
<1>. QED BY <1>3, <1>4 DEF Chat!CommitOutgoing
(***************************************************************************)
(* Pages: what a read returns                                              *)
(***************************************************************************)
LEMMA SameCardinality == \A S : Chat!Cardinality(S) = Cardinality(S) BY DEF Chat!Cardinality, Cardinality
\* The largest are an upper part of a set.
LEMMA LargestIsUpper ==
  ASSUME NEW S \in SUBSET Nat, IsFiniteSet(S), NEW n \in Nat
  PROVE  /\ Chat!Largest(S, n) \subseteq S
         /\ \A x \in Chat!Largest(S, n) : \A y \in S : y > x => y \in Chat!Largest(S, n)
<1>1. Chat!Largest(S, n) = {i \in S : Cardinality({j \in S : j > i}) < n} BY SameCardinality DEF Chat!Largest
<1>2. ASSUME NEW x \in S, Cardinality({j \in S : j > x}) < n, NEW y \in S, y > x PROVE Cardinality({j \in S : j > y}) < n
  <2>. DEFINE X == {j \in S : j > x}
              Y == {j \in S : j > y}
  <2>1. IsFiniteSet(X) /\ IsFiniteSet(Y) BY FS_Subset
  <2>2. Y \subseteq X
    <3>1. x \in Nat /\ y \in Nat /\ x < y BY <1>2
    <3>2. ASSUME NEW j \in S, j > y PROVE j > x BY <3>1, <3>2
    <3>. QED BY <3>2
  <2>3. Cardinality(Y) \in Nat /\ Cardinality(X) \in Nat /\ Cardinality(Y) <= Cardinality(X)
    BY <2>1, <2>2, FS_Subset, FS_CardinalityType
  <2>4. Cardinality(X) < n BY <1>2
  <2>. HIDE DEF X, Y
  <2>5. Cardinality(Y) < n BY <2>3, <2>4
  <2>. QED BY <2>5 DEF Y
<1>. QED BY <1>1, <1>2
\* A set with no more than n members is all of its n largest.
LEMMA LargestOfFew ==
  ASSUME NEW S \in SUBSET Nat, IsFiniteSet(S), NEW n \in Nat, Cardinality(S) <= n
  PROVE  Chat!Largest(S, n) = S
<1>1. Chat!Largest(S, n) = {i \in S : Cardinality({j \in S : j > i}) < n} BY SameCardinality DEF Chat!Largest
<1>2. ASSUME NEW x \in S PROVE Cardinality({j \in S : j > x}) < n
  <2>. DEFINE X == {j \in S : j > x}
  <2>1. IsFiniteSet(S \ {x}) /\ Cardinality(S \ {x}) = Cardinality(S) - 1 BY FS_RemoveElement
  <2>2. X \subseteq S \ {x} OBVIOUS
  <2>3. IsFiniteSet(X) /\ Cardinality(X) <= Cardinality(S \ {x}) BY <2>1, <2>2, FS_Subset
  <2>4. Cardinality(X) \in Nat /\ Cardinality(S) \in Nat BY <2>3, FS_CardinalityType
  <2>. HIDE DEF X
  <2>5. Cardinality(X) < n BY <2>1, <2>3, <2>4
  <2>. QED BY <2>5 DEF X
<1>. QED BY <1>1, <1>2
\* When one more than fits is asked for and no more than fits is there, everything is there.
LEMMA FewAreAll ==
  ASSUME NEW S \in SUBSET Nat, IsFiniteSet(S), NEW n \in Nat, Cardinality(Chat!Largest(S, n + 1)) <= n
  PROVE  Chat!Largest(S, n + 1) = S
<1>. DEFINE Page == Chat!Largest(S, n + 1)
            Others == S \ Page
<1>1. Page = {i \in S : Cardinality({j \in S : j > i}) < n + 1} BY SameCardinality DEF Chat!Largest
<1>2. Page \subseteq S /\ \A x \in Page : \A y \in S : y > x => y \in Page BY LargestIsUpper
<1>3. Cardinality(Page) <= n OBVIOUS
<1>. HIDE DEF Page
<1>4. SUFFICES ASSUME Others # {} PROVE FALSE BY <1>2 DEF Page
<1>5. \E N \in Nat : \A x \in S : x <= N BY FiniteIsBounded
<1>6. PICK m \in Others : \A y \in Others : y <= m
  <2>1. PICK N \in Nat : \A x \in S : x <= N BY <1>5
  <2>. QED BY <1>4, <2>1, Greatest
<1>7. {j \in S : j > m} \subseteq Page
  <2>1. ASSUME NEW j \in S, j > m, j \notin Page PROVE FALSE
    <3>1. j \in Others /\ m \in Nat /\ j \in Nat BY <2>1
    <3>2. j <= m BY <1>6, <3>1
    <3>. QED BY <2>1, <3>1, <3>2
  <2>. QED BY <2>1
<1>8. IsFiniteSet(Page) BY <1>2, FS_Subset
<1>9. Cardinality({j \in S : j > m}) <= Cardinality(Page) /\ IsFiniteSet({j \in S : j > m}) BY <1>7, <1>8, FS_Subset
<1>10. Cardinality({j \in S : j > m}) \in Nat /\ Cardinality(Page) \in Nat BY <1>8, <1>9, FS_CardinalityType
<1>11. Cardinality({j \in S : j > m}) < n + 1 BY <1>3, <1>9, <1>10
<1>. QED BY <1>1, <1>6, <1>11
\* The page is listed from its greatest id to its least.
LEMMA PageFalls ==
  ASSUME NEW S \in SUBSET Nat, IsFiniteSet(S)
  PROVE  /\ Chat!Descending(S) \in Seq(S) /\ Len(Chat!Descending(S)) \in Nat
         /\ \A i, j \in DOMAIN Chat!Descending(S) : i < j => Chat!Descending(S)[i] > Chat!Descending(S)[j]
         /\ \A x \in S : \E i \in DOMAIN Chat!Descending(S) : Chat!Descending(S)[i] = x
<1>. DEFINE s == Chat!Descending(S)
<1>1. s = CHOOSE t \in [1 .. Cardinality(S) -> S] : \A i, j \in 1 .. Cardinality(S) : i < j => t[i] > t[j]
BY SameCardinality DEF Chat!Descending
<1>2. \E t : Falling(t, S) BY FallingExists
<1>. HIDE DEF s
<1>3. Falling(s, S) BY <1>1, <1>2 DEF Falling
<1>4. /\ s \in Seq(S) /\ Len(s) = Cardinality(S) /\ Cardinality(S) \in Nat
      /\ \A x \in S : \E i \in 1 .. Cardinality(S) : s[i] = x BY <1>3, FallingIsAll
<1>5. DOMAIN s = 1 .. Cardinality(S) BY <1>4
<1>6. \A i, j \in DOMAIN s : i < j => s[i] > s[j] BY <1>3, <1>5 DEF Falling
<1>7. \A x \in S : \E i \in DOMAIN s : s[i] = x BY <1>4, <1>5
<1>8. s \in Seq(S) /\ Len(s) \in Nat BY <1>4
<1>. QED BY <1>6, <1>7, <1>8 DEF s
\* One read of the thread, from "before" on.
LEMMA ReadKeeps ==
  ASSUME ChatAssumption, ChatInv, NEW before \in Nat, NEW shown \in Seq(Nat), NEW first \in SUBSET Nat, first \subseteq Chat!Ids,
         \A i, j \in DOMAIN shown : i < j => shown[i] > shown[j],
         \A i \in DOMAIN shown : before # 0 /\ before <= shown[i],
         \A i \in first : (\E k \in DOMAIN shown : shown[k] = i) \/ before = 0 \/ i < before,
         UNCHANGED rows, Chat!ServeThread(before, shown, first)
  PROVE  ThreadTypes' /\ FirstIsThere' /\ ShownFalls' /\ ShownIsAbove' /\ FirstIsShown'
<1>. DEFINE B == Chat!Below(before)
            R == Chat!Largest(B, chat.page + 1)
            P == Chat!Largest(R, chat.page)
            l == Chat!Descending(P)
            more == Cardinality(R) > chat.page
            least == CHOOSE i \in P : \A j \in P : i <= j
<1>1. chat.page \in Nat /\ chat.page + 1 \in Nat BY DEF ChatInv, MailTypes
<1>2. rows \subseteq RowsOf /\ IsFiniteSet(rows) BY DEF ChatInv, RowTypes, RowsOf
<1>3. Chat!Ids \in SUBSET (Nat \ {0}) BY <1>2 DEF Chat!Ids, RowsOf
<1>4. IsFiniteSet(Chat!Ids)
  <2>. DEFINE f == [r \in rows |-> r.id]
  <2>1. f \in Surjection(rows, Chat!Ids) BY DEF Chat!Ids, Surjection
  <2>. HIDE DEF f
  <2>. QED BY <1>2, <2>1, FS_Surjection
<1>5. B = {i \in Chat!Ids : before = 0 \/ i < before} BY DEF Chat!Below
<1>6. B \in SUBSET (Nat \ {0}) /\ IsFiniteSet(B) BY <1>3, <1>4, <1>5, FS_Subset
<1>7. /\ R \subseteq B /\ \A x \in R : \A y \in B : y > x => y \in R
  <2>. HIDE DEF B
  <2>. QED BY <1>1, <1>6, LargestIsUpper
<1>8. IsFiniteSet(R) BY <1>6, <1>7, FS_Subset
<1>9. P \subseteq R /\ \A x \in P : \A y \in R : y > x => y \in P
  <2>. HIDE DEF B, R
  <2>. QED BY <1>1, <1>6, <1>7, <1>8, LargestIsUpper
<1>10. IsFiniteSet(P) BY <1>8, <1>9, FS_Subset
<1>11. ~more => P = B
  <2>1. SUFFICES ASSUME ~more PROVE P = B OBVIOUS
  <2>2. Cardinality(R) \in Nat /\ Cardinality(R) <= chat.page BY <1>1, <1>8, <2>1, FS_CardinalityType
  <2>3. R = B
    <3>. HIDE DEF B
    <3>. QED BY <1>1, <1>6, <2>2, FewAreAll
  <2>4. P = R
    <3>. HIDE DEF B, R
    <3>. QED BY <1>1, <1>6, <1>7, <1>8, <2>2, LargestOfFew
  <2>. QED BY <2>3, <2>4
<1>12. P \in SUBSET Nat BY <1>6, <1>7, <1>9
<1>13. /\ l \in Seq(P) /\ Len(l) \in Nat
       /\ \A i, j \in DOMAIN l : i < j => l[i] > l[j]
       /\ \A x \in P : \E i \in DOMAIN l : l[i] = x
  <2>. HIDE DEF P
  <2>. QED BY <1>10, <1>12, PageFalls
<1>14. P # {} => least \in P /\ \A j \in P : least <= j
  <2>. HIDE DEF P
  <2>. QED BY <1>12, Least
<1>15. thread' = [at |-> IF more THEN "more" ELSE "end", shown |-> shown \o l, first |-> first,
                  before |-> IF P = {} THEN before ELSE least] BY SameCardinality DEF Chat!ServeThread
<1>16. P \subseteq B /\ B \subseteq Nat \ {0} /\ \A x \in P : \A y \in B : y > x => y \in P BY <1>6, <1>7, <1>9
<1>. HIDE DEF B, R, P, l, more, least
<1>17. thread'.at \in {"more", "end"} /\ (thread'.at = "more" => more) /\ (thread'.at = "end" => ~more)
       /\ thread'.shown = shown \o l /\ thread'.first = first /\ thread'.before = (IF P = {} THEN before ELSE least) BY <1>15
<1>18. P \subseteq Nat \ {0} BY <1>16
<1>19. l \in Seq(Nat)
  <2>1. DOMAIN l = 1 .. Len(l) /\ l \in [1 .. Len(l) -> P] /\ Len(l) \in Nat BY <1>13
  <2>2. l \in [1 .. Len(l) -> Nat] BY <1>18, <2>1
  <2>. QED BY <2>1, <2>2, SeqDef
<1>20. /\ shown \o l \in Seq(Nat)
       /\ \A i \in DOMAIN shown : i \in DOMAIN (shown \o l) /\ (shown \o l)[i] = shown[i]
       /\ \A i \in DOMAIN l : Len(shown) + i \in DOMAIN (shown \o l) /\ (shown \o l)[Len(shown) + i] = l[i]
       /\ \A i \in DOMAIN (shown \o l) : i \in DOMAIN shown \/ (i > Len(shown) /\ i - Len(shown) \in DOMAIN l /\ (shown \o l)[i] = l[i - Len(shown)])
BY <1>19
<1>21. \A i \in DOMAIN l : l[i] \in P BY <1>13
<1>22. ThreadTypes'
  <2>1. thread'.before \in Nat BY <1>14, <1>17, <1>18
  <2>2. thread' \in [at : {"closed", "more", "end"}, before : Nat, shown : Seq(Nat), first : SUBSET Nat]
    BY <1>15, <1>17, <1>20, <2>1
  <2>. QED BY <2>2 DEF ThreadTypes
<1>23. FirstIsThere'
  <2>1. \A i \in Chat!Ids : \E r \in rows : r.id = i BY DEF Chat!Ids
  <2>. QED BY <1>17, <2>1 DEF FirstIsThere
<1>24. \A x \in P : \A i \in DOMAIN shown : shown[i] > x
  <2>1. TAKE x \in P
  <2>2. TAKE i \in DOMAIN shown
  <2>3. before # 0 /\ before <= shown[i] /\ shown[i] \in Nat OBVIOUS
  <2>4. x < before /\ x \in Nat BY <1>5, <1>16, <1>18, <2>3
  <2>. QED BY <2>3, <2>4
<1>25. ShownFalls'
  <2>1. SUFFICES ASSUME NEW i \in DOMAIN (shown \o l), NEW j \in DOMAIN (shown \o l), i < j PROVE (shown \o l)[i] > (shown \o l)[j]
    BY <1>17 DEF ShownFalls
  <2>2. i \in Nat /\ j \in Nat /\ Len(shown) \in Nat BY <1>20
  <2>3. CASE j \in DOMAIN shown
    <3>1. i \in DOMAIN shown BY <2>1, <2>2, <2>3, <1>20
    <3>. QED BY <1>20, <2>1, <2>3, <3>1
  <2>4. CASE i \in DOMAIN shown /\ j \notin DOMAIN shown
    <3>1. j - Len(shown) \in DOMAIN l /\ (shown \o l)[j] = l[j - Len(shown)] BY <1>20, <2>4
    <3>2. l[j - Len(shown)] \in P BY <1>21, <3>1
    <3>3. shown[i] > l[j - Len(shown)] BY <1>24, <2>4, <3>2
    <3>. QED BY <1>20, <2>4, <3>1, <3>3
  <2>5. CASE i \notin DOMAIN shown /\ j \notin DOMAIN shown
    <3>1. i - Len(shown) \in DOMAIN l /\ (shown \o l)[i] = l[i - Len(shown)] BY <1>20, <2>5
    <3>2. j - Len(shown) \in DOMAIN l /\ (shown \o l)[j] = l[j - Len(shown)] BY <1>20, <2>5
    <3>3. i - Len(shown) < j - Len(shown) BY <2>1, <2>2
    <3>4. l[i - Len(shown)] > l[j - Len(shown)] BY <1>13, <3>1, <3>2, <3>3
    <3>. QED BY <3>1, <3>2, <3>4
  <2>. QED BY <2>3, <2>4, <2>5
<1>26. ShownIsAbove'
  <2>1. SUFFICES ASSUME NEW i \in DOMAIN (shown \o l) PROVE thread'.before # 0 /\ thread'.before <= (shown \o l)[i]
    BY <1>17 DEF ShownIsAbove
  <2>2. CASE i \in DOMAIN shown
    <3>1. (shown \o l)[i] = shown[i] /\ before # 0 /\ before <= shown[i] /\ shown[i] \in Nat BY <1>20, <2>2
    <3>2. CASE P = {} BY <1>17, <3>1, <3>2
    <3>3. CASE P # {}
      <4>1. least \in P /\ least \in Nat /\ least # 0 BY <1>14, <1>18, <3>3
      <4>2. shown[i] > least BY <1>24, <2>2, <4>1
      <4>. QED BY <1>17, <3>1, <3>3, <4>1, <4>2
    <3>. QED BY <3>2, <3>3
  <2>3. CASE i \notin DOMAIN shown
    <3>1. i - Len(shown) \in DOMAIN l /\ (shown \o l)[i] = l[i - Len(shown)] BY <1>20, <2>3
    <3>2. l[i - Len(shown)] \in P BY <1>21, <3>1
    <3>3. least \in P /\ least <= l[i - Len(shown)] /\ least # 0 /\ P # {} BY <1>14, <1>18, <3>2
    <3>. QED BY <1>17, <3>1, <3>3
  <2>. QED BY <2>2, <2>3
<1>27. FirstIsShown'
  <2>1. SUFFICES ASSUME NEW i \in first
                 PROVE  \/ \E k \in DOMAIN (shown \o l) : (shown \o l)[k] = i
                        \/ thread'.at = "more" /\ (thread'.before = 0 \/ i < thread'.before)
    BY <1>17 DEF FirstIsShown
  <2>2. CASE \E k \in DOMAIN shown : shown[k] = i BY <1>20, <2>2
  <2>3. CASE i \in P
    <3>1. PICK k \in DOMAIN l : l[k] = i BY <1>13, <2>3
    <3>. QED BY <1>20, <3>1
  <2>4. CASE i \notin P /\ ~\E k \in DOMAIN shown : shown[k] = i
    <3>1. before = 0 \/ i < before BY <2>4
    <3>2. i \in B BY <1>5, <3>1
    <3>3. more BY <1>11, <2>4, <3>2
    <3>4. thread'.at = "more" BY <1>17, <3>3
    <3>5. CASE P = {} BY <1>17, <3>1, <3>4, <3>5
    <3>6. CASE P # {}
      <4>1. least \in P /\ least \in Nat /\ i \in Nat BY <1>14, <1>18, <3>6
      <4>2. ~(i > least) BY <1>16, <2>4, <3>2, <4>1
      <4>3. i # least BY <2>4, <4>1
      <4>4. i < least BY <4>1, <4>2, <4>3
      <4>. QED BY <1>17, <3>4, <3>6, <4>4
    <3>. QED BY <3>5, <3>6
  <2>. QED BY <2>2, <2>3, <2>4
<1>. QED BY <1>22, <1>23, <1>25, <1>26, <1>27
LEMMA ThreadReadsKeeps ==
  ASSUME ChatAssumption, ChatInv, Chat!ThreadReads
  PROVE  ThreadTypes' /\ FirstIsThere' /\ ShownFalls' /\ ShownIsAbove' /\ FirstIsShown'
<1>. USE DEF ChatInv
<1>1. rows' = rows BY DEF Chat!ThreadReads, Chat!RowsUnchanged
<1>2. \A i \in Chat!Ids : i \in Nat BY DEF Chat!Ids, RowTypes
<1>3. CASE thread.at = "closed" /\ Chat!ServeThread(0, <<>>, Chat!Ids)
  <2>1. Chat!Ids \in SUBSET Nat BY <1>2
  <2>2. <<>> \in Seq(Nat) /\ DOMAIN <<>> = {} OBVIOUS
  <2>. QED BY <1>1, <1>3, <2>1, <2>2, ReadKeeps
<1>4. CASE thread.at = "more" /\ Chat!ServeThread(thread.before, thread.shown, thread.first)
  <2>1. thread.before \in Nat /\ thread.shown \in Seq(Nat) /\ thread.first \in SUBSET Nat BY DEF ThreadTypes
  <2>2. thread.first \subseteq Chat!Ids BY DEF FirstIsThere, Chat!Ids
  <2>3. \A i, j \in DOMAIN thread.shown : i < j => thread.shown[i] > thread.shown[j] BY DEF ShownFalls
  <2>4. \A i \in DOMAIN thread.shown : thread.before # 0 /\ thread.before <= thread.shown[i] BY <1>4 DEF ShownIsAbove
  <2>5. \A i \in thread.first : (\E k \in DOMAIN thread.shown : thread.shown[k] = i) \/ thread.before = 0 \/ i < thread.before
    BY DEF FirstIsShown
  <2>. QED BY <1>1, <1>4, <2>1, <2>2, <2>3, <2>4, <2>5, ReadKeeps
<1>. QED BY <1>3, <1>4 DEF Chat!ThreadReads
\* Every action keeps the invariant: a step for each, and one below it for each part it can disturb.
LEMMA ChatStep == ChatInv /\ [Chat!Next]_messageVars => ChatInv'
<1>. USE DEF ChatInv
<1>. SUFFICES ASSUME ChatInv, [Chat!Next]_messageVars PROVE ChatInv' OBVIOUS
<1>1. ASSUME ChatInv, Chat!RecordIncoming PROVE ChatInv'
  <2>. USE DEF Chat!RecordIncoming, MailTypes, Chat!IsStored, DraftTypes, Chat!DraftsUnchanged, ThreadTypes, Chat!Conflicts,
       RowTypes
  <2>1. MailTypes'
    <3>. DEFINE w == [worker EXCEPT !.at = IF Chat!Conflicts(worker.letter) THEN "acknowledge" ELSE "commit", !.id = nextId]
    <3>1. worker \in [at : {"idle", "insert", "commit", "acknowledge"}, letter : Letters \cup {0}, id : Nat] /\ worker.at = "insert" /\ nextId \in Nat
      BY <1>1
    <3>2. w \in [at : {"idle", "insert", "commit", "acknowledge"}, letter : Letters \cup {0}, id : Nat] /\ w.letter = worker.letter
      BY <3>1
    <3>3. worker' = w /\ nextId' = nextId + 1 /\ UNCHANGED <<chat, kept>> BY <1>1
    <3>. HIDE DEF w
    <3>. QED BY <1>1, <3>1, <3>2, <3>3
  <2>2. IdsGiven' BY <1>1 DEF IdsGiven
  <2>3. WorkerIdIsFree' BY <1>1 DEF WorkerIdIsFree, IdsGiven, PendingIdsDiffer
  <2>4. PendingIdsDiffer' BY <1>1 DEF PendingIdsDiffer, IdsGiven
  <2>5. WorkerKnows' BY <1>1 DEF WorkerKnows
  <2>6. DraftTypes' /\ RowTypes' /\ ThreadTypes' /\ RowIdsUnique' /\ DraftIdsAreFree' /\ Chat!StoredOnce' /\
        Chat!ForgottenIsStored' /\ Chat!SentRowsLeft' /\ DraftsHaveLeft' /\ FirstIsThere' /\ ShownFalls' /\
        ShownIsAbove' /\ FirstIsShown'
    <3>1. UNCHANGED <<kept, draft, left, rows, thread>> BY <1>1
    <3>. QED BY <1>1, <3>1 DEF RowIdsUnique, DraftIdsAreFree, Chat!StoredOnce, Chat!ForgottenIsStored, Chat!SentRowsLeft,
         DraftsHaveLeft, FirstIsThere, ShownFalls, ShownIsAbove, FirstIsShown
  <2>. QED BY <2>1, <2>2, <2>3, <2>4, <2>5, <2>6
<1>2. ASSUME ChatInv, Chat!CommitIncoming PROVE ChatInv'
  <2>1. RowTypes'
    <3>1. worker.at = "commit" /\ \E c \in BOOLEAN : Chat!StoreLetter(c) BY <1>2 DEF Chat!CommitIncoming
    <3>2. MailTypes /\ RowTypes /\ IdsGiven BY <1>2
    <3>. QED BY <3>1, <3>2, LetterAdded
  <2>2. WorkerKnows'
    <3>1. CASE Chat!StoreLetter(TRUE) /\ worker' = [worker EXCEPT !.at = "acknowledge"]
      <4>1. Chat!Row("in", worker.letter, worker.id) \in rows' BY <3>1 DEF Chat!StoreLetter
      <4>2. worker'.letter = worker.letter /\ worker'.at = "acknowledge" BY <1>2, <3>1 DEF MailTypes
      <4>. QED BY <4>1, <4>2 DEF WorkerKnows, Chat!IsStored, Chat!Row
    <3>2. CASE worker' = Chat!Idle BY <3>2 DEF WorkerKnows, Chat!Idle
    <3>. QED BY <1>2, <3>1, <3>2 DEF Chat!CommitIncoming
  <2>3. MailTypes'
    <3>1. chat' \in ChatBudgets BY <1>2, FailsTypes DEF Chat!CommitIncoming, MailTypes, ChatBudgets
    <3>2. worker \in [at : {"idle", "insert", "commit", "acknowledge"}, letter : Letters \cup {0}, id : Nat] /\ worker.letter \in Letters
      BY <1>2 DEF Chat!CommitIncoming, MailTypes
    <3>3. worker' = [worker EXCEPT !.at = "acknowledge"] \/ worker' = Chat!Idle BY <1>2 DEF Chat!CommitIncoming
    <3>4. worker' \in [at : {"idle", "insert", "commit", "acknowledge"}, letter : Letters \cup {0}, id : Nat] BY <3>2, <3>3 DEF Chat!Idle
    <3>5. worker'.at # "idle" => worker'.letter \in Letters BY <3>2, <3>3 DEF Chat!Idle
    <3>6. UNCHANGED <<kept, nextId>> BY <1>2 DEF Chat!CommitIncoming
    <3>. QED BY <1>2, <3>1, <3>4, <3>5, <3>6 DEF MailTypes, ChatBudgets
  <2>. USE DEF MailTypes, Chat!CommitIncoming, Chat!Idle, DraftTypes, Chat!StoreLetter, Chat!DraftsUnchanged, ThreadTypes,
       Chat!Row, Chat!Fails, RowTypes
  <2>4. RowIdsUnique' BY <1>2 DEF RowIdsUnique, IdsGiven, WorkerIdIsFree, DraftIdsAreFree
  <2>5. IdsGiven' BY <1>2 DEF IdsGiven
  <2>6. WorkerIdIsFree' BY <1>2 DEF WorkerIdIsFree, IdsGiven, PendingIdsDiffer
  <2>7. DraftIdsAreFree' BY <1>2 DEF DraftIdsAreFree, IdsGiven, PendingIdsDiffer
  <2>8. PendingIdsDiffer' BY <1>2 DEF PendingIdsDiffer, IdsGiven
  <2>9. Chat!StoredOnce' BY <1>2 DEF Chat!StoredOnce, WorkerKnows, RowIdsUnique, Chat!Conflicts, Chat!IsStored
  <2>10. Chat!ForgottenIsStored' BY <1>2 DEF Chat!ForgottenIsStored, WorkerKnows, Chat!IsStored, Chat!Conflicts
  <2>11. Chat!SentRowsLeft' BY <1>2 DEF Chat!SentRowsLeft, DraftsHaveLeft
  <2>12. FirstIsThere' BY <1>2 DEF FirstIsThere
  <2>13. DraftTypes' /\ ThreadTypes' /\ DraftsHaveLeft' /\ ShownFalls' /\ ShownIsAbove' /\ FirstIsShown'
    <3>1. UNCHANGED <<draft, left, thread>> BY <1>2
    <3>. QED BY <1>2, <3>1 DEF DraftsHaveLeft, ShownFalls, ShownIsAbove, FirstIsShown
  <2>. QED BY <2>3, <2>1, <2>4, <2>5, <2>6, <2>7, <2>8, <2>9, <2>10, <2>11, <2>2, <2>12, <2>13
<1>3. ASSUME ChatInv, Chat!Acknowledge PROVE ChatInv'
  <2>. USE DEF DraftTypes, RowTypes, Chat!Acknowledge, Chat!DraftsUnchanged, MailTypes, ThreadTypes, Chat!Idle, Chat!Fails,
       Chat!RowsUnchanged
  <2>1. MailTypes' BY SMTT(40), <1>3
  <2>2. IdsGiven' BY <1>3 DEF IdsGiven
  <2>3. WorkerIdIsFree' BY <1>3 DEF WorkerIdIsFree, IdsGiven, PendingIdsDiffer
  <2>4. PendingIdsDiffer' BY <1>3 DEF PendingIdsDiffer, IdsGiven
  <2>5. Chat!ForgottenIsStored' BY <1>3 DEF Chat!ForgottenIsStored, WorkerKnows, Chat!IsStored, Chat!Conflicts
  <2>6. WorkerKnows' BY <1>3 DEF WorkerKnows, Chat!Conflicts, Chat!IsStored
  <2>7. DraftTypes' /\ RowTypes' /\ ThreadTypes' /\ RowIdsUnique' /\ DraftIdsAreFree' /\ Chat!StoredOnce' /\
        Chat!SentRowsLeft' /\ DraftsHaveLeft' /\ FirstIsThere' /\ ShownFalls' /\ ShownIsAbove' /\ FirstIsShown'
    <3>1. UNCHANGED <<draft, left, rows, thread>> BY <1>3
    <3>. QED BY <1>3, <3>1 DEF RowIdsUnique, DraftIdsAreFree, Chat!StoredOnce, Chat!SentRowsLeft, DraftsHaveLeft, FirstIsThere,
         ShownFalls, ShownIsAbove, FirstIsShown
  <2>. QED BY <2>1, <2>2, <2>3, <2>4, <2>5, <2>6, <2>7
<1>4. ASSUME ChatInv, Chat!Crash PROVE ChatInv'
  <2>1. RowTypes'
    <3>1. PICK c \in BOOLEAN : Chat!StoreLetter(c /\ worker.at = "commit") BY <1>4 DEF Chat!Crash
    <3>2. MailTypes /\ RowTypes /\ IdsGiven BY <1>4
    <3>. DEFINE d == c /\ worker.at = "commit"
    <3>3. d \in BOOLEAN /\ (d => worker.at = "commit") /\ Chat!StoreLetter(d) BY <3>1
    <3>. HIDE DEF d
    <3>. QED BY <3>2, <3>3, LetterAdded
  <2>. USE DEF Chat!Crash, Chat!Idle, MailTypes, DraftTypes, Chat!StoreLetter, Chat!Closed, ThreadTypes, Chat!Row,
       Chat!Fails, RowTypes
  <2>2. MailTypes'
    <3>1. chat' \in ChatBudgets BY <1>4, FailsTypes
    <3>2. worker' = Chat!Idle /\ UNCHANGED <<kept, nextId>> BY <1>4
    <3>. QED BY <1>4, <3>1, <3>2 DEF ChatBudgets
  <2>3. DraftTypes' BY ZenonT(150), <1>4
  <2>4. ThreadTypes' BY <1>4
  <2>5. RowIdsUnique' BY <1>4 DEF RowIdsUnique, IdsGiven, WorkerIdIsFree, DraftIdsAreFree
  <2>6. IdsGiven' BY <1>4 DEF IdsGiven
  <2>7. WorkerIdIsFree' BY <1>4 DEF WorkerIdIsFree, IdsGiven, PendingIdsDiffer
  <2>8. DraftIdsAreFree' BY <1>4 DEF DraftIdsAreFree, IdsGiven, PendingIdsDiffer
  <2>9. PendingIdsDiffer' BY <1>4 DEF PendingIdsDiffer, IdsGiven
  <2>10. Chat!StoredOnce' BY <1>4 DEF Chat!StoredOnce, WorkerKnows, RowIdsUnique, Chat!Conflicts, Chat!IsStored
  <2>11. Chat!ForgottenIsStored' BY <1>4 DEF Chat!ForgottenIsStored, WorkerKnows, Chat!IsStored, Chat!Conflicts
  <2>12. Chat!SentRowsLeft' BY <1>4 DEF Chat!SentRowsLeft, DraftsHaveLeft
  <2>13. WorkerKnows' BY <1>4 DEF WorkerKnows, Chat!Conflicts, Chat!IsStored
  <2>14. DraftsHaveLeft' BY <1>4 DEF DraftsHaveLeft
  <2>15. FirstIsThere' BY <1>4 DEF FirstIsThere
  <2>16. ShownFalls' BY <1>4 DEF ShownFalls
  <2>17. ShownIsAbove' BY <1>4 DEF ShownIsAbove
  <2>18. FirstIsShown' BY <1>4 DEF FirstIsShown
  <2>. QED BY <2>2, <2>3, <2>1, <2>4, <2>5, <2>6, <2>7, <2>8, <2>9, <2>10, <2>11, <2>12, <2>13, <2>14, <2>15, <2>16, <2>17, <2>18
<1>5. ASSUME ChatInv, Chat!ThreadReads PROVE ChatInv'
  <2>. USE ChatAssumption
  <2>1. ThreadTypes' BY <1>5, ThreadReadsKeeps
  <2>2. FirstIsThere' BY <1>5, ThreadReadsKeeps
  <2>3. ShownFalls' BY <1>5, ThreadReadsKeeps
  <2>4. ShownIsAbove' BY <1>5, ThreadReadsKeeps
  <2>5. FirstIsShown' BY <1>5, ThreadReadsKeeps
  <2>6. MailTypes' /\ DraftTypes' /\ RowTypes' /\ RowIdsUnique' /\ IdsGiven' /\ WorkerIdIsFree' /\ DraftIdsAreFree' /\
        PendingIdsDiffer' /\ Chat!StoredOnce' /\ Chat!ForgottenIsStored' /\ Chat!SentRowsLeft' /\ WorkerKnows' /\
        DraftsHaveLeft'
    <3>1. UNCHANGED <<chat, kept, worker, draft, left, rows, nextId>> BY <1>5 DEF Chat!ThreadReads, Chat!ServeThread,
         Chat!Ids, Chat!MailUnchanged, Chat!DraftsUnchanged, Chat!RowsUnchanged, Chat!Below
    <3>. QED BY <1>5, <3>1 DEF MailTypes, DraftTypes, RowTypes, RowIdsUnique, IdsGiven, WorkerIdIsFree, DraftIdsAreFree,
         PendingIdsDiffer, Chat!StoredOnce, Chat!ForgottenIsStored, Chat!IsStored, Chat!SentRowsLeft, WorkerKnows,
         Chat!Conflicts, DraftsHaveLeft
  <2>. QED BY <2>1, <2>2, <2>3, <2>4, <2>5, <2>6
<1>6. ASSUME ChatInv, Chat!CloseThread PROVE ChatInv'
  <2>. USE DEF DraftTypes, RowTypes, Chat!DraftsUnchanged, MailTypes, ThreadTypes, Chat!CloseThread, Chat!Closed,
       Chat!MailUnchanged, Chat!RowsUnchanged
  <2>1. ThreadTypes' BY <1>6
  <2>2. FirstIsThere' BY <1>6 DEF FirstIsThere
  <2>3. ShownFalls' BY <1>6 DEF ShownFalls
  <2>4. ShownIsAbove' BY <1>6 DEF ShownIsAbove
  <2>5. FirstIsShown' BY <1>6 DEF FirstIsShown
  <2>6. MailTypes' /\ DraftTypes' /\ RowTypes' /\ RowIdsUnique' /\ IdsGiven' /\ WorkerIdIsFree' /\ DraftIdsAreFree' /\
        PendingIdsDiffer' /\ Chat!StoredOnce' /\ Chat!ForgottenIsStored' /\ Chat!SentRowsLeft' /\ WorkerKnows' /\
        DraftsHaveLeft'
    <3>1. UNCHANGED <<chat, kept, worker, draft, left, rows, nextId>> BY <1>6
    <3>. QED BY <1>6, <3>1 DEF RowIdsUnique, IdsGiven, WorkerIdIsFree, DraftIdsAreFree, PendingIdsDiffer, Chat!StoredOnce,
         Chat!ForgottenIsStored, Chat!IsStored, Chat!SentRowsLeft, WorkerKnows, Chat!Conflicts, DraftsHaveLeft
  <2>. QED BY <2>1, <2>2, <2>3, <2>4, <2>5, <2>6
<1>7. ASSUME ChatInv, NEW l \in Letters, Chat!Deliver(l) PROVE ChatInv'
  <2>. USE DEF DraftTypes, RowTypes, Chat!DraftsUnchanged, MailTypes, ThreadTypes, Chat!Deliver, Chat!RowsUnchanged
  <2>1. MailTypes' BY <1>7
  <2>2. IdsGiven' BY <1>7 DEF IdsGiven
  <2>3. WorkerIdIsFree' BY <1>7 DEF WorkerIdIsFree, IdsGiven, PendingIdsDiffer
  <2>4. PendingIdsDiffer' BY <1>7 DEF PendingIdsDiffer, IdsGiven
  <2>5. WorkerKnows' BY <1>7 DEF WorkerKnows, Chat!Conflicts, Chat!IsStored
  <2>6. DraftTypes' /\ RowTypes' /\ ThreadTypes' /\ RowIdsUnique' /\ DraftIdsAreFree' /\ Chat!StoredOnce' /\
        Chat!ForgottenIsStored' /\ Chat!SentRowsLeft' /\ DraftsHaveLeft' /\ FirstIsThere' /\ ShownFalls' /\
        ShownIsAbove' /\ FirstIsShown'
    <3>1. UNCHANGED <<kept, draft, left, rows, thread>> BY <1>7
    <3>. QED BY <1>7, <3>1 DEF RowIdsUnique, DraftIdsAreFree, Chat!StoredOnce, Chat!ForgottenIsStored, Chat!IsStored,
         Chat!SentRowsLeft, DraftsHaveLeft, FirstIsThere, ShownFalls, ShownIsAbove, FirstIsShown
  <2>. QED BY <2>1, <2>2, <2>3, <2>4, <2>5, <2>6
<1>8. ASSUME ChatInv, NEW d \in Drafts, Chat!SendPrivateMessage(d) PROVE ChatInv'
  <2>1. MailTypes' BY <1>8, DraftSent DEF MailTypes, ChatBudgets
  <2>2. DraftTypes' BY <1>8, DraftSent DEF DraftTypes
  <2>3. IdsGiven' BY <1>8, DraftSent DEF IdsGiven, DraftTypes, RowTypes, MailTypes
  <2>4. DraftIdsAreFree' BY <1>8, DraftSent DEF DraftIdsAreFree, IdsGiven, PendingIdsDiffer
  <2>5. PendingIdsDiffer' BY <1>8, DraftSent DEF PendingIdsDiffer
  <2>6. Chat!SentRowsLeft' BY <1>8, DraftSent DEF Chat!SentRowsLeft, DraftsHaveLeft
  <2>7. DraftsHaveLeft' BY <1>8, DraftSent DEF DraftsHaveLeft
  <2>8. RowTypes' /\ ThreadTypes' /\ RowIdsUnique' /\ WorkerIdIsFree' /\ Chat!StoredOnce' /\ Chat!ForgottenIsStored' /\
        WorkerKnows' /\ FirstIsThere' /\ ShownFalls' /\ ShownIsAbove' /\ FirstIsShown'
    <3>1. UNCHANGED <<kept, worker, rows, thread>> BY <1>8 DEF Chat!SendPrivateMessage, Chat!DraftMoves, Chat!Fails,
         Chat!MailUnchanged, Chat!RowsUnchanged
    <3>. QED BY <1>8, <3>1 DEF RowTypes, ThreadTypes, RowIdsUnique, WorkerIdIsFree, Chat!StoredOnce, Chat!ForgottenIsStored,
         Chat!IsStored, WorkerKnows, Chat!Conflicts, FirstIsThere, ShownFalls, ShownIsAbove, FirstIsShown
  <2>. QED BY <2>1, <2>2, <2>3, <2>4, <2>5, <2>6, <2>7, <2>8
<1>9. ASSUME ChatInv, NEW d \in Drafts, Chat!RecordOutgoing(d) PROVE ChatInv'
  <2>. USE DEF Chat!RecordOutgoing, DraftTypes, MailTypes, ThreadTypes, Chat!MailUnchanged, RowTypes
  <2>1. MailTypes' BY <1>9
  <2>2. DraftTypes' BY <1>9
  <2>3. IdsGiven' BY <1>9 DEF IdsGiven
  <2>4. DraftIdsAreFree' BY <1>9 DEF DraftIdsAreFree, IdsGiven, PendingIdsDiffer
  <2>5. PendingIdsDiffer' BY <1>9 DEF PendingIdsDiffer, IdsGiven
  <2>6. Chat!SentRowsLeft' BY <1>9 DEF Chat!SentRowsLeft, DraftsHaveLeft
  <2>7. DraftsHaveLeft' BY <1>9 DEF DraftsHaveLeft
  <2>8. RowTypes' /\ ThreadTypes' /\ RowIdsUnique' /\ WorkerIdIsFree' /\ Chat!StoredOnce' /\ Chat!ForgottenIsStored' /\
        WorkerKnows' /\ FirstIsThere' /\ ShownFalls' /\ ShownIsAbove' /\ FirstIsShown'
    <3>1. UNCHANGED <<kept, worker, rows, thread>> BY <1>9
    <3>. QED BY <1>9, <3>1 DEF RowIdsUnique, WorkerIdIsFree, Chat!StoredOnce, Chat!ForgottenIsStored, Chat!IsStored, WorkerKnows,
         Chat!Conflicts, FirstIsThere, ShownFalls, ShownIsAbove, FirstIsShown
  <2>. QED BY <2>1, <2>2, <2>3, <2>4, <2>5, <2>6, <2>7, <2>8
<1>10. ASSUME ChatInv, NEW d \in Drafts, Chat!CommitOutgoing(d) PROVE ChatInv'
  <2>1. MailTypes' BY <1>10, DraftCommits DEF MailTypes, ChatBudgets
  <2>2. DraftTypes' BY <1>10, DraftCommits DEF DraftTypes
  <2>3. RowTypes' BY <1>10, DraftCommits DEF RowTypes
  <2>4. IdsGiven' BY <1>10, DraftCommits DEF IdsGiven, DraftTypes, RowTypes, MailTypes
  <2>5. DraftIdsAreFree' BY <1>10, DraftCommits DEF DraftIdsAreFree, IdsGiven, PendingIdsDiffer
  <2>6. PendingIdsDiffer' BY <1>10, DraftCommits DEF PendingIdsDiffer
  <2>7. Chat!SentRowsLeft' BY <1>10, DraftCommits DEF Chat!SentRowsLeft, DraftsHaveLeft
  <2>8. DraftsHaveLeft' BY <1>10, DraftCommits DEF DraftsHaveLeft
  <2>. USE DEF Chat!DraftMoves, DraftTypes, MailTypes, ThreadTypes, Chat!CommitOutgoing, Chat!StoreDraft, Chat!Row,
       Chat!Fails, Chat!MailUnchanged, RowTypes
  <2>9. RowIdsUnique' BY <1>10 DEF RowIdsUnique, IdsGiven, WorkerIdIsFree, DraftIdsAreFree
  <2>10. WorkerIdIsFree' BY <1>10 DEF WorkerIdIsFree, IdsGiven, PendingIdsDiffer
  <2>11. Chat!StoredOnce' BY <1>10 DEF Chat!StoredOnce, WorkerKnows, RowIdsUnique, Chat!Conflicts, Chat!IsStored
  <2>12. Chat!ForgottenIsStored' BY <1>10 DEF Chat!ForgottenIsStored, WorkerKnows, Chat!IsStored, Chat!Conflicts
  <2>13. WorkerKnows' BY <1>10 DEF WorkerKnows, Chat!Conflicts, Chat!IsStored
  <2>14. FirstIsThere' BY <1>10 DEF FirstIsThere
  <2>15. ThreadTypes' /\ ShownFalls' /\ ShownIsAbove' /\ FirstIsShown'
    <3>1. UNCHANGED <<thread>> BY <1>10
    <3>. QED BY <1>10, <3>1 DEF ShownFalls, ShownIsAbove, FirstIsShown
  <2>. QED BY <2>1, <2>2, <2>3, <2>9, <2>4, <2>10, <2>5, <2>6, <2>11, <2>12, <2>7, <2>13, <2>8, <2>14, <2>15
<1>11. ASSUME UNCHANGED messageVars PROVE ChatInv'
BY <1>11 DEF messageVars, MailTypes, DraftTypes, RowTypes, ThreadTypes, RowIdsUnique, IdsGiven, WorkerIdIsFree,
   DraftIdsAreFree, PendingIdsDiffer, Chat!StoredOnce, Chat!ForgottenIsStored, Chat!IsStored, Chat!SentRowsLeft, WorkerKnows,
   Chat!Conflicts, DraftsHaveLeft, FirstIsThere, ShownFalls, ShownIsAbove, FirstIsShown
<1>. QED BY <1>1, <1>2, <1>3, <1>4, <1>5, <1>6, <1>7, <1>8, <1>9, <1>10, <1>11 DEF Chat!Next, Chat!MessageWorker
LEMMA ChatInit == ChatAssumption /\ Chat!Init => ChatInv
<1>. SUFFICES ASSUME ChatAssumption, Chat!Init PROVE ChatInv OBVIOUS
<1>. USE DEF Chat!Init, Chat!Idle, Chat!Closed
<1>1. MailTypes BY DEF MailTypes, ChatAssumption
<1>2. DraftTypes BY DEF DraftTypes
<1>3. RowTypes BY FS_EmptySet DEF RowTypes
<1>4. ThreadTypes
  <2>1. <<>> \in Seq(Nat) OBVIOUS
  <2>. QED BY <2>1 DEF ThreadTypes
<1>5. RowIdsUnique /\ IdsGiven /\ WorkerIdIsFree /\ DraftIdsAreFree /\ PendingIdsDiffer
BY DEF RowIdsUnique, IdsGiven, WorkerIdIsFree, DraftIdsAreFree, PendingIdsDiffer
<1>6. Chat!StoredOnce /\ Chat!ForgottenIsStored /\ Chat!SentRowsLeft /\ WorkerKnows /\ DraftsHaveLeft
BY DEF Chat!StoredOnce, Chat!ForgottenIsStored, Chat!SentRowsLeft, WorkerKnows, DraftsHaveLeft
<1>7. FirstIsThere /\ ShownFalls /\ ShownIsAbove /\ FirstIsShown BY DEF FirstIsThere, ShownFalls, ShownIsAbove, FirstIsShown
<1>. QED BY <1>1, <1>2, <1>3, <1>4, <1>5, <1>6, <1>7 DEF ChatInv

\* The part of MCServices that moves is Messages or leaves it alone.
LEMMA ChatMoves == [Next]_vars => [Chat!Next]_messageVars
BY DEF Next, vars

\* A letter that the server has forgotten has its row, and only one, however often it came and whatever failed in between; no row
\* says of a message that it was sent when it was not; and a thread paged to its end has shown every row that was there, newest
\* first and none twice, while rows appear out of the order of their ids (runMessageWorker, sendMessageFn, Store.Thread).
THEOREM MessagesHold == Spec => []MessagesAreSound
<1>1. Init => ChatInv BY ChatInit, ChatAssumption DEF Init
<1>2. ChatInv /\ [Next]_vars => ChatInv' BY ChatMoves, ChatStep
<1>3. ChatInv => MessagesAreSound
  <2>1. ChatInv => Chat!TypeOK BY DEF ChatInv, MailTypes, DraftTypes, RowTypes, ThreadTypes, RowIdsUnique, Chat!TypeOK
  <2>2. ChatInv => Chat!ThreadIsWhole BY DEF ChatInv, ShownFalls, FirstIsShown, Chat!ThreadIsWhole
  <2>. QED BY <2>1, <2>2 DEF ChatInv, MessagesAreSound, Chat!MessagesAreSound
<1>. QED BY <1>1, <1>2, <1>3, PTL DEF Spec

(***************************************************************************)
(* Migrations: whole, once, in order and by one process                    *)
(***************************************************************************)
Working == {"bootstrap", "creating", "lock", "next", "tx", "undo"}
Holding == {"next", "tx", "undo"}
Versions == UNION {files.known[p] : p \in Processes}
Effects == Nat \X {"first", "second"}
\* The types of the variables; a later release adds larger numbers.
FileTypes ==
  /\ DOMAIN files = {"known", "destructive", "operator", "starts", "faults", "kills"} /\ DOMAIN files.known = Processes
  /\ \A p \in Processes : files.known[p] \subseteq Nat /\ IsFiniteSet(files.known[p])
  /\ \A p, q \in Processes : \A v \in files.known[p] \ files.destructive : \A w \in files.known[q] \ files.destructive :
       w < v => w \in files.known[p]
DataTypes == table \in BOOLEAN /\ lock \in Processes \cup {0, -1} /\ versions \subseteq Nat /\ schema \in Seq(Effects)
Openings == [at : {"none", "bootstrap", "creating", "lock", "next", "tx", "undo", "open", "failed", "killed"}, todo : Seq(Nat),
             destructive : BOOLEAN, tx : Seq(Effects), starts : Nat]
OpeningTypes == opening \in [Processes -> Openings]
\* Who goes through the migrations has the lock.
HolderHasLock == \A p \in Processes : opening[p].at \in Holding => lock = p
\* What is left to do rises, is the process's own, and with what is done it is all.
TodoRises == \A p \in Processes : \A i, j \in DOMAIN opening[p].todo : i < j => opening[p].todo[i] < opening[p].todo[j]
TodoIsOwn ==
  \A p \in Processes : opening[p].at \in Working =>
    \A i \in DOMAIN opening[p].todo : opening[p].todo[i] \in Schema!Of(p, opening[p].destructive)
TodoIsRest ==
  \A p \in Processes : opening[p].at \in Working =>
    \A v \in Schema!Of(p, opening[p].destructive) : v \in versions \/ \E i \in DOMAIN opening[p].todo : opening[p].todo[i] = v
\* A transaction has the first statements of a migration that nobody applied.
TxIsNew ==
  \A p \in Processes :
    /\ opening[p].at = "tx" => opening[p].todo # <<>> /\ Head(opening[p].todo) \notin versions
    /\ opening[p].at # "tx" => opening[p].tx = <<>>
    /\ Len(opening[p].tx) <= 2
    /\ \A i \in DOMAIN opening[p].tx : opening[p].tx[i] = <<Head(opening[p].todo), Schema!Statements[i]>>
\* The destructive ones come after the routine ones.
OperatorIsOpen ==
  \A p \in Processes : opening[p].destructive => p = files.operator /\ files.known[p] \ files.destructive \subseteq versions
\* What is in effect is what is recorded, and each statement once.
EffectsRecorded == \A i \in DOMAIN schema : schema[i][1] \in versions
RecordedInEffect == \A v \in versions : \A s \in {"first", "second"} : \E i \in DOMAIN schema : schema[i] = <<v, s>>
EffectsOnce == \A i, j \in DOMAIN schema : schema[i] = schema[j] => i = j
SchemaInv ==
  /\ FileTypes /\ DataTypes /\ OpeningTypes
  /\ HolderHasLock /\ TodoRises /\ TodoIsOwn /\ TodoIsRest /\ TxIsNew /\ OperatorIsOpen
  /\ EffectsRecorded /\ RecordedInEffect /\ EffectsOnce
  /\ Schema!EachMeetsItsSchema /\ Schema!OpenIsCurrent
\* Every finite set of numbers can be listed from the least to the greatest.
InRising(s, S) == s \in [1 .. Cardinality(S) -> S] /\ \A i, j \in 1 .. Cardinality(S) : i < j => s[i] < s[j]
LEMMA RisingExists == ASSUME NEW S \in SUBSET Nat, IsFiniteSet(S) PROVE \E s : InRising(s, S)
<1>. DEFINE n == Cardinality(S)
<1>1. n \in Nat BY FS_CardinalityType
<1>2. PICK s : Falling(s, S) BY FallingExists
<1>3. s \in [1 .. n -> S] /\ \A i, j \in 1 .. n : i < j => s[i] > s[j] BY <1>2 DEF Falling
<1>. HIDE DEF n
<1>. DEFINE t == [i \in 1 .. n |-> s[n + 1 - i]]
<1>4. \A i \in 1 .. n : n + 1 - i \in 1 .. n BY <1>1
<1>5. t \in [1 .. n -> S] BY <1>3, <1>4
<1>6. \A i, j \in 1 .. n : i < j => t[i] < t[j]
  <2>1. SUFFICES ASSUME NEW i \in 1 .. n, NEW j \in 1 .. n, i < j PROVE t[i] < t[j] OBVIOUS
  <2>2. n + 1 - j < n + 1 - i BY <1>1, <2>1
  <2>3. s[n + 1 - j] > s[n + 1 - i] BY <1>3, <1>4, <2>2
  <2>4. s[n + 1 - j] \in Nat /\ s[n + 1 - i] \in Nat BY <1>3, <1>4
  <2>. QED BY <2>3, <2>4
<1>. HIDE DEF t
<1>7. InRising(t, S) BY <1>5, <1>6 DEF InRising, n
<1>. QED BY <1>7
LEMMA SchemaCardinality == \A S : Schema!Cardinality(S) = Cardinality(S) BY DEF Schema!Cardinality, Cardinality
\* A list in order has what it is the list of.
LEMMA InOrderIs ==
  ASSUME NEW S \in SUBSET Nat, IsFiniteSet(S)
  PROVE  /\ Schema!InOrder(S) \in Seq(S)
         /\ \A i, j \in DOMAIN Schema!InOrder(S) : i < j => Schema!InOrder(S)[i] < Schema!InOrder(S)[j]
         /\ \A x \in S : \E i \in DOMAIN Schema!InOrder(S) : Schema!InOrder(S)[i] = x
<1>. DEFINE s == Schema!InOrder(S)
            n == Cardinality(S)
<1>1. s = CHOOSE t \in [1 .. Cardinality(S) -> S] : \A i, j \in 1 .. Cardinality(S) : i < j => t[i] < t[j]
BY SchemaCardinality DEF Schema!InOrder
<1>2. \E t : InRising(t, S) BY RisingExists
<1>. HIDE DEF s
<1>3. InRising(s, S) BY <1>1, <1>2 DEF InRising
<1>4. n \in Nat BY FS_CardinalityType
<1>5. s \in [1 .. n -> S] /\ \A i, j \in 1 .. n : i < j => s[i] < s[j] BY <1>3 DEF InRising
<1>6. s \in Seq(S) /\ DOMAIN s = 1 .. n
  <2>. HIDE DEF n
  <2>. QED BY <1>4, <1>5, SeqDef
<1>7. \A i, j \in 1 .. n : s[i] = s[j] => i = j
  <2>1. \A i \in 1 .. n : s[i] \in Nat BY <1>5
  <2>. HIDE DEF n
  <2>. QED BY <1>4, <1>5, <2>1
<1>8. s \in Injection(1 .. n, S) BY <1>5, <1>7 DEF Injection, IsInjective
<1>9. IsFiniteSet(1 .. n) /\ Cardinality(1 .. n) = n BY <1>4, FS_Interval
<1>10. s \in Surjection(1 .. n, S) BY <1>8, <1>9, FS_Injection
<1>11. \A x \in S : \E i \in DOMAIN s : s[i] = x BY <1>6, <1>10 DEF Surjection
<1>12. \A i, j \in DOMAIN s : i < j => s[i] < s[j] BY <1>5, <1>6
<1>. QED BY <1>6, <1>11, <1>12 DEF s
LEMMA PendingIs ==
  ASSUME FileTypes, NEW p \in Processes, NEW d \in BOOLEAN
  PROVE  /\ Schema!Pending(p, d) \in Seq(Nat)
         /\ \A i, j \in DOMAIN Schema!Pending(p, d) : i < j => Schema!Pending(p, d)[i] < Schema!Pending(p, d)[j]
         /\ \A i \in DOMAIN Schema!Pending(p, d) : Schema!Pending(p, d)[i] \in Schema!Of(p, d)
         /\ \A x \in Schema!Of(p, d) : \E i \in DOMAIN Schema!Pending(p, d) : Schema!Pending(p, d)[i] = x
<1>. DEFINE S == Schema!Of(p, d)
            s == Schema!InOrder(S)
<1>1. S \in SUBSET Nat /\ IsFiniteSet(S)
  <2>1. files.known[p] \subseteq Nat /\ IsFiniteSet(files.known[p]) BY DEF FileTypes
  <2>2. S \subseteq files.known[p] BY DEF Schema!Of
  <2>. QED BY <2>1, <2>2, FS_Subset
<1>2. Schema!Pending(p, d) = s BY DEF Schema!Pending
<1>. HIDE DEF S
<1>3. s \in Seq(S) /\ (\A i, j \in DOMAIN s : i < j => s[i] < s[j]) /\ (\A x \in S : \E i \in DOMAIN s : s[i] = x)
BY <1>1, InOrderIs
<1>. HIDE DEF s
<1>4. DOMAIN s = 1 .. Len(s) /\ s \in [1 .. Len(s) -> S] /\ Len(s) \in Nat BY <1>3
<1>5. s \in [1 .. Len(s) -> Nat] BY <1>1, <1>4
<1>6. s \in Seq(Nat) BY <1>4, <1>5, SeqDef
<1>7. \A i \in DOMAIN s : s[i] \in S BY <1>4
<1>. QED BY <1>2, <1>3, <1>6, <1>7 DEF S
\* What a step does to the process that takes it, and to the files.
Ats == {"none", "bootstrap", "creating", "lock", "next", "tx", "undo", "open", "failed", "killed"}
Turns(p, at, todo, destructive, tx) ==
  /\ opening' \in [Processes -> Openings]
  /\ opening'[p].at = at /\ opening'[p].todo = todo /\ opening'[p].destructive = destructive /\ opening'[p].tx = tx
  /\ \A q \in Processes : q # p => opening'[q] = opening[q]
TurnsTo(p, at) == Turns(p, at, opening[p].todo, opening[p].destructive, opening[p].tx)
SameFiles == DOMAIN files' = DOMAIN files /\ files'.known = files.known /\ files'.destructive = files.destructive /\ files'.operator = files.operator
LEMMA SetStep ==
  ASSUME OpeningTypes, NEW p \in Processes, NEW r \in Openings, opening' = [opening EXCEPT ![p] = r]
  PROVE  Turns(p, r.at, r.todo, r.destructive, r.tx)
<1>1. opening \in [Processes -> Openings] BY DEF OpeningTypes
<1>2. opening' \in [Processes -> Openings] /\ opening'[p] = r /\ \A q \in Processes : q # p => opening'[q] = opening[q] BY <1>1
<1>. QED BY <1>2 DEF Turns
LEMMA MovesStep ==
  ASSUME OpeningTypes, NEW p \in Processes, NEW from, NEW to \in Ats, Schema!Moves(p, from, to)
  PROVE  opening[p].at = from /\ TurnsTo(p, to)
<1>1. opening[p] \in Openings BY DEF OpeningTypes
<1>. DEFINE r == [opening[p] EXCEPT !.at = to]
<1>2. r \in Openings /\ r.at = to /\ r.todo = opening[p].todo /\ r.destructive = opening[p].destructive /\ r.tx = opening[p].tx
BY <1>1 DEF Openings, Ats
<1>3. opening[p].at = from /\ opening' = [opening EXCEPT ![p] = r] BY DEF Schema!Moves
<1>. HIDE DEF r
<1>4. Turns(p, r.at, r.todo, r.destructive, r.tx) BY <1>2, <1>3, SetStep
<1>. QED BY <1>2, <1>3, <1>4 DEF TurnsTo
LEMMA SpendKeeps == ASSUME FileTypes, NEW w \in {"faults", "kills"}, Schema!Spend(w) PROVE SameFiles
BY DEF FileTypes, Schema!Spend, SameFiles
LEMMA FilesStay == ASSUME SchemaInv, SameFiles PROVE FileTypes' BY DEF SchemaInv, FileTypes, SameFiles
LEMMA SchemaTyped == ASSUME SchemaInv, NEW p \in Processes PROVE OpeningTypes /\ FileTypes /\ opening[p] \in Openings /\ opening[p].todo \in Seq(Nat) /\ opening[p].tx \in Seq(Effects)
<1>1. OpeningTypes /\ FileTypes BY DEF SchemaInv
<1>2. opening[p] \in Openings BY <1>1 DEF OpeningTypes
<1>3. opening[p].todo \in Seq(Nat) /\ opening[p].tx \in Seq(Effects) BY <1>2 DEF Openings
<1>. QED BY <1>1, <1>2, <1>3

LEMMA BootstrapStep ==
  ASSUME SchemaInv, NEW p \in Processes, Schema!Bootstrap(p)
  PROVE  /\ opening[p].at \in {"bootstrap", "creating"} /\ \E at \in {"lock", "creating", "failed"} : TurnsTo(p, at)
         /\ UNCHANGED <<files, versions, schema, lock>> /\ table' \in BOOLEAN
<1>1. OpeningTypes /\ table \in BOOLEAN BY DEF SchemaInv, DataTypes
<1>2. {"lock", "creating", "failed"} \subseteq Ats BY DEF Ats
<1>3. UNCHANGED <<files, versions, schema, lock>> /\ table' \in BOOLEAN BY <1>1 DEF Schema!Bootstrap
<1>4. \E from \in {"bootstrap", "creating"}, to \in {"lock", "creating", "failed"} : Schema!Moves(p, from, to)
BY DEF Schema!Bootstrap
<1>. QED BY <1>1, <1>2, <1>3, <1>4, MovesStep
LEMMA AcquireStep ==
  ASSUME SchemaInv, NEW p \in Processes, Schema!AcquireLock(p)
  PROVE  opening[p].at = "lock" /\ lock = 0 /\ TurnsTo(p, "next") /\ lock' = p /\ UNCHANGED <<files, table, versions, schema>>
<1>1. OpeningTypes /\ "next" \in Ats BY DEF SchemaInv, Ats
<1>. QED BY <1>1, MovesStep DEF Schema!AcquireLock, Schema!Nobody, Schema!DatabaseUnchanged
LEMMA SkipStep ==
  ASSUME SchemaInv, NEW p \in Processes, Schema!Skip(p)
  PROVE  /\ opening[p].at = "next" /\ opening[p].todo # <<>> /\ Head(opening[p].todo) \in versions
         /\ Turns(p, "next", Tail(opening[p].todo), opening[p].destructive, opening[p].tx) /\ UNCHANGED <<files, table, versions, schema, lock>>
<1>1. OpeningTypes /\ opening[p] \in Openings /\ opening[p].todo \in Seq(Nat) BY SchemaTyped
<1>2. opening[p].at = "next" /\ opening[p].todo # <<>> /\ Head(opening[p].todo) \in versions /\ UNCHANGED <<files, table, versions, schema, lock>>
BY DEF Schema!Skip, Schema!DatabaseUnchanged
<1>. DEFINE r == [opening[p] EXCEPT !.todo = Tail(@)]
<1>3. Tail(opening[p].todo) \in Seq(Nat) BY <1>1, <1>2
<1>4. r \in Openings /\ r.at = "next" /\ r.todo = Tail(opening[p].todo) /\ r.destructive = opening[p].destructive /\ r.tx = opening[p].tx
BY <1>1, <1>2, <1>3 DEF Openings
<1>5. opening' = [opening EXCEPT ![p] = r] BY DEF Schema!Skip
<1>. HIDE DEF r
<1>6. Turns(p, r.at, r.todo, r.destructive, r.tx) BY <1>1, <1>4, <1>5, SetStep
<1>. QED BY <1>2, <1>4, <1>6
LEMMA BeginStep ==
  ASSUME SchemaInv, NEW p \in Processes, Schema!Begin(p)
  PROVE  /\ opening[p].at = "next" /\ opening[p].todo # <<>> /\ Head(opening[p].todo) \notin versions
         /\ TurnsTo(p, "tx") /\ UNCHANGED <<files, table, versions, schema, lock>>
<1>1. OpeningTypes /\ "tx" \in Ats BY DEF SchemaInv, Ats
<1>. QED BY <1>1, MovesStep DEF Schema!Begin, Schema!DatabaseUnchanged
LEMMA ExecStep ==
  ASSUME SchemaInv, NEW p \in Processes, Schema!Exec(p)
  PROVE  /\ opening[p].at = "tx" /\ opening[p].todo # <<>> /\ Len(opening[p].tx) \in {0, 1}
         /\ Turns(p, "tx", opening[p].todo, opening[p].destructive,
                  Append(opening[p].tx, <<Head(opening[p].todo), Schema!Statements[Len(opening[p].tx) + 1]>>))
         /\ UNCHANGED <<files, table, versions, schema, lock>>
<1>1. OpeningTypes /\ opening[p] \in Openings /\ opening[p].todo \in Seq(Nat) /\ opening[p].tx \in Seq(Effects) BY SchemaTyped
<1>2. opening[p].at = "tx" /\ UNCHANGED <<files, table, versions, schema, lock>> BY DEF Schema!Exec, Schema!DatabaseUnchanged
<1>3. opening[p].todo # <<>> BY <1>2 DEF SchemaInv, TxIsNew
<1>4. Len(opening[p].tx) \in {0, 1}
  <2>1. Len(Schema!Statements) = 2 BY DEF Schema!Statements
  <2>2. Len(opening[p].tx) \in Nat /\ Len(opening[p].tx) < 2 BY <1>1, <2>1 DEF Schema!Exec
  <2>3. \A n \in Nat : n < 2 => n \in {0, 1} OBVIOUS
  <2>. QED BY <2>2, <2>3
<1>. DEFINE e == <<Head(opening[p].todo), Schema!Statements[Len(opening[p].tx) + 1]>>
            t == Append(opening[p].tx, e)
            r == [opening[p] EXCEPT !.tx = t]
<1>5. e \in Effects
  <2>1. Schema!Statements[1] = "first" /\ Schema!Statements[2] = "second" BY DEF Schema!Statements
  <2>2. Head(opening[p].todo) \in Nat BY <1>1, <1>3
  <2>3. Schema!Statements[Len(opening[p].tx) + 1] \in {"first", "second"}
    <3>1. CASE Len(opening[p].tx) = 0 BY <2>1, <3>1
    <3>2. CASE Len(opening[p].tx) = 1 BY <2>1, <3>2
    <3>. QED BY <1>4, <3>1, <3>2
  <2>. QED BY <2>2, <2>3 DEF Effects
<1>6. opening' = [opening EXCEPT ![p].tx = Append(@, e)] BY DEF Schema!Exec, Schema!Effect, Schema!Due
<1>. HIDE DEF e
<1>7. t \in Seq(Effects) BY <1>1, <1>5
<1>8. opening' = [opening EXCEPT ![p] = r] BY <1>6
<1>. HIDE DEF t
<1>9. r \in Openings /\ r.at = "tx" /\ r.todo = opening[p].todo /\ r.destructive = opening[p].destructive /\ r.tx = t
BY <1>1, <1>2, <1>7 DEF Openings
<1>. HIDE DEF r
<1>10. Turns(p, r.at, r.todo, r.destructive, r.tx) BY <1>1, <1>8, <1>9, SetStep
<1>. QED BY <1>2, <1>3, <1>4, <1>9, <1>10 DEF t, e
LEMMA CommitStep ==
  ASSUME SchemaInv, NEW p \in Processes, Schema!Commit(p)
  PROVE  /\ opening[p].at = "tx" /\ Len(opening[p].tx) = 2 /\ Schema!Commits(p, TRUE)
         /\ Turns(p, "next", Tail(opening[p].todo), opening[p].destructive, <<>>) /\ UNCHANGED <<files, table, lock>>
<1>1. OpeningTypes /\ opening[p] \in Openings /\ opening[p].todo \in Seq(Nat) BY SchemaTyped
<1>2. opening[p].at = "tx" /\ Len(opening[p].tx) = 2 /\ Schema!Commits(p, TRUE) /\ UNCHANGED <<files, table, lock>>
BY DEF Schema!Commit, Schema!Statements
<1>3. opening[p].todo # <<>> BY <1>2 DEF SchemaInv, TxIsNew
<1>. DEFINE r == [opening[p] EXCEPT !.at = "next", !.todo = Tail(@), !.tx = <<>>]
<1>4. Tail(opening[p].todo) \in Seq(Nat) /\ <<>> \in Seq(Effects) BY <1>1, <1>3
<1>5. r \in Openings /\ r.at = "next" /\ r.todo = Tail(opening[p].todo) /\ r.destructive = opening[p].destructive /\ r.tx = <<>>
BY <1>1, <1>4 DEF Openings
<1>6. opening' = [opening EXCEPT ![p] = r] BY DEF Schema!Commit
<1>. HIDE DEF r
<1>7. Turns(p, r.at, r.todo, r.destructive, r.tx) BY <1>1, <1>5, <1>6, SetStep
<1>. QED BY <1>2, <1>5, <1>7
LEMMA ReleaseStep ==
  ASSUME SchemaInv, NEW p \in Processes, Schema!Release(p)
  PROVE  /\ \/ opening[p].at = "next" /\ opening[p].todo = <<>> /\ TurnsTo(p, "open") /\ lock' \in {0, lock}
            \/ opening[p].at = "undo" /\ TurnsTo(p, "failed") /\ lock' = 0
         /\ SameFiles /\ UNCHANGED <<table, versions, schema>>
<1>1. OpeningTypes /\ FileTypes /\ "open" \in Ats /\ "failed" \in Ats /\ "faults" \in {"faults", "kills"} BY DEF SchemaInv, Ats
<1>2. UNCHANGED <<table, versions, schema>> BY DEF Schema!Release, Schema!DatabaseUnchanged
<1>3. CASE opening[p].todo = <<>> /\ Schema!Moves(p, "next", "open") /\ lock' = Schema!Nobody /\ UNCHANGED files
BY <1>1, <1>2, <1>3, MovesStep DEF Schema!Nobody, SameFiles
<1>4. CASE opening[p].todo = <<>> /\ Schema!Moves(p, "next", "open") /\ Schema!Spend("faults") /\ UNCHANGED lock
BY <1>1, <1>2, <1>4, MovesStep, SpendKeeps
<1>5. CASE Schema!Moves(p, "undo", "failed") /\ lock' = Schema!Nobody /\ UNCHANGED files
BY <1>1, <1>2, <1>5, MovesStep DEF Schema!Nobody, SameFiles
<1>. QED BY <1>3, <1>4, <1>5 DEF Schema!Release
LEMMA OpenStep ==
  ASSUME SchemaInv, NEW p \in Processes, Schema!Open(p)
  PROVE  /\ opening[p].at \in {"none", "killed", "failed"} /\ Turns(p, "bootstrap", Schema!Pending(p, FALSE), FALSE, <<>>)
         /\ UNCHANGED <<files, table, versions, schema, lock>>
<1>1. OpeningTypes /\ FileTypes /\ opening[p] \in Openings BY SchemaTyped
<1>2. opening[p].at \in {"none", "killed", "failed"} /\ UNCHANGED <<files, table, versions, schema, lock>>
BY DEF Schema!Open, Schema!DatabaseUnchanged
<1>3. Schema!Pending(p, FALSE) \in Seq(Nat) BY <1>1, PendingIs
<1>. DEFINE s == Schema!Pending(p, FALSE)
            x == opening[p].starts + 1
            r == [Schema!NoProcess EXCEPT !.at = "bootstrap", !.todo = s, !.starts = x]
<1>4. opening' = [opening EXCEPT ![p] = r] BY DEF Schema!Open
<1>5. x \in Nat BY <1>1 DEF Openings
<1>. HIDE DEF s, x
<1>6. s \in Seq(Nat) BY <1>3 DEF s
<1>b. <<>> \in Seq(Effects) OBVIOUS
<1>a. Schema!NoProcess \in [at : {"none"}, todo : Seq(Nat), destructive : {FALSE}, tx : {<<>>}, starts : Nat]
BY DEF Schema!NoProcess
<1>7. r \in Openings /\ r.at = "bootstrap" /\ r.todo = s /\ r.destructive = FALSE /\ r.tx = <<>>
BY <1>5, <1>6, <1>a, <1>b DEF Openings
<1>. HIDE DEF r
<1>8. Turns(p, r.at, r.todo, r.destructive, r.tx) BY <1>1, <1>4, <1>7, SetStep
<1>. QED BY <1>2, <1>7, <1>8 DEF s
LEMMA DestructiveStep ==
  ASSUME SchemaInv, NEW p \in Processes, Schema!ApplyDestructive(p)
  PROVE  /\ opening[p].at = "open" /\ files.operator = p /\ Turns(p, "bootstrap", Schema!Pending(p, TRUE), TRUE, opening[p].tx)
         /\ UNCHANGED <<files, table, versions, schema, lock>>
<1>1. OpeningTypes /\ FileTypes /\ opening[p] \in Openings BY SchemaTyped
<1>2. opening[p].at = "open" /\ files.operator = p /\ UNCHANGED <<files, table, versions, schema, lock>>
BY DEF Schema!ApplyDestructive, Schema!DatabaseUnchanged
<1>3. Schema!Pending(p, TRUE) \in Seq(Nat) BY <1>1, PendingIs
<1>. DEFINE s == Schema!Pending(p, TRUE)
            r == [opening[p] EXCEPT !.at = "bootstrap", !.todo = s, !.destructive = TRUE]
<1>4. opening' = [opening EXCEPT ![p] = r] BY DEF Schema!ApplyDestructive
<1>. HIDE DEF s
<1>5. s \in Seq(Nat) BY <1>3 DEF s
<1>6. r \in Openings /\ r.at = "bootstrap" /\ r.todo = s /\ r.destructive = TRUE /\ r.tx = opening[p].tx BY <1>1, <1>5 DEF Openings
<1>. HIDE DEF r
<1>7. Turns(p, r.at, r.todo, r.destructive, r.tx) BY <1>1, <1>4, <1>6, SetStep
<1>. QED BY <1>2, <1>6, <1>7 DEF s
LEMMA Emptied ==
  ASSUME OpeningTypes, NEW p \in Processes, NEW at \in Ats, opening' = [opening EXCEPT ![p] = [opening[p] EXCEPT !.at = at, !.tx = <<>>]]
  PROVE  Turns(p, at, opening[p].todo, opening[p].destructive, <<>>)
<1>. DEFINE r == [opening[p] EXCEPT !.at = at, !.tx = <<>>]
<1>1. opening[p] \in Openings /\ <<>> \in Seq(Effects) BY DEF OpeningTypes
<1>2. r \in Openings /\ r.at = at /\ r.todo = opening[p].todo /\ r.destructive = opening[p].destructive /\ r.tx = <<>>
BY <1>1 DEF Openings, Ats
<1>3. opening' = [opening EXCEPT ![p] = r] OBVIOUS
<1>. HIDE DEF r
<1>4. Turns(p, r.at, r.todo, r.destructive, r.tx) BY <1>2, <1>3, SetStep
<1>. QED BY <1>2, <1>4
LEMMA RollbackStep ==
  ASSUME SchemaInv, NEW p \in Processes, Schema!Rollback(p)
  PROVE  /\ opening[p].at = "tx" /\ SameFiles /\ UNCHANGED <<table, lock>> /\ Turns(p, "undo", opening[p].todo, opening[p].destructive, <<>>)
         /\ \E c \in BOOLEAN : (c => opening[p].at = "tx" /\ Len(opening[p].tx) = 2) /\ Schema!Commits(p, c)
<1>. USE DEF Schema!Rollback
<1>1. OpeningTypes /\ FileTypes /\ "undo" \in Ats /\ "faults" \in {"faults", "kills"} BY DEF SchemaInv, Ats
<1>2. SameFiles BY <1>1, SpendKeeps
<1>3. Turns(p, "undo", opening[p].todo, opening[p].destructive, <<>>) BY <1>1, Emptied
<1>4. opening[p].at = "tx" /\ UNCHANGED <<table, lock>> OBVIOUS
<1>5. \E c \in BOOLEAN : (c => opening[p].at = "tx" /\ Len(opening[p].tx) = 2) /\ Schema!Commits(p, c)
BY DEF Schema!Ambiguous, Schema!Statements
<1>. QED BY <1>2, <1>3, <1>4, <1>5
LEMMA TimeOutStep ==
  ASSUME SchemaInv, NEW p \in Processes, Schema!TimeOut(p)
  PROVE  opening[p].at = "lock" /\ TurnsTo(p, "failed") /\ SameFiles /\ UNCHANGED <<lock, table, versions, schema>>
<1>1. OpeningTypes /\ FileTypes /\ "failed" \in Ats /\ "faults" \in {"faults", "kills"} BY DEF SchemaInv, Ats
<1>. QED BY <1>1, MovesStep, SpendKeeps DEF Schema!TimeOut, Schema!DatabaseUnchanged
LEMMA KillStep ==
  ASSUME SchemaInv, NEW p \in Processes, Schema!Kill(p)
  PROVE  /\ SameFiles /\ UNCHANGED table /\ lock' = (IF lock = p THEN -1 ELSE lock)
         /\ Turns(p, "killed", opening[p].todo, opening[p].destructive, <<>>)
         /\ \E c \in BOOLEAN : (c => opening[p].at = "tx" /\ Len(opening[p].tx) = 2) /\ Schema!Commits(p, c)
<1>. USE DEF Schema!Kill
<1>1. OpeningTypes /\ FileTypes /\ "killed" \in Ats /\ "kills" \in {"faults", "kills"} BY DEF SchemaInv, Ats
<1>2. SameFiles BY <1>1, SpendKeeps
<1>3. Turns(p, "killed", opening[p].todo, opening[p].destructive, <<>>) BY <1>1, Emptied
<1>4. UNCHANGED table /\ lock' = (IF lock = p THEN -1 ELSE lock) BY DEF Schema!Ghost
<1>5. \E c \in BOOLEAN : (c => opening[p].at = "tx" /\ Len(opening[p].tx) = 2) /\ Schema!Commits(p, c)
BY DEF Schema!Ambiguous, Schema!Statements
<1>. QED BY <1>2, <1>3, <1>4, <1>5
\* What a commit, or an end of which nobody knows whether it was one, does to the database.
LEMMA CommitsKeep ==
  ASSUME SchemaInv, NEW p \in Processes, NEW c \in BOOLEAN, c => opening[p].at = "tx" /\ Len(opening[p].tx) = 2, Schema!Commits(p, c), SameFiles
  PROVE  /\ versions \subseteq versions' /\ versions' \subseteq Nat /\ schema' \in Seq(Effects)
         /\ EffectsRecorded' /\ RecordedInEffect' /\ EffectsOnce' /\ Schema!EachMeetsItsSchema'
         /\ (c => versions' = versions \cup {Head(opening[p].todo)}) /\ (~c => versions' = versions)
<1>1. versions \subseteq Nat /\ schema \in Seq(Effects) /\ FileTypes BY DEF SchemaInv, DataTypes
<1>2. CASE ~c
  <2>1. versions' = versions /\ schema' = schema BY <1>2 DEF Schema!Commits
  <2>2. EffectsRecorded' /\ RecordedInEffect' /\ EffectsOnce' BY <2>1 DEF SchemaInv, EffectsRecorded, RecordedInEffect, EffectsOnce
  <2>3. Schema!EachMeetsItsSchema' BY <2>1 DEF SchemaInv, Schema!EachMeetsItsSchema, SameFiles
  <2>. QED BY <1>1, <1>2, <2>1, <2>2, <2>3
<1>3. CASE c
  <2>. DEFINE v == Head(opening[p].todo)
              t == opening[p].tx
  <2>1. opening[p].at = "tx" /\ Len(t) = 2 /\ opening[p].todo \in Seq(Nat) /\ t \in Seq(Effects) BY <1>3, SchemaTyped
  <2>2. opening[p].todo # <<>> /\ v \notin versions BY <2>1 DEF SchemaInv, TxIsNew
  <2>3. v \in Nat /\ 1 \in DOMAIN opening[p].todo /\ v = opening[p].todo[1] BY <2>1, <2>2
  <2>4. DOMAIN t = {1, 2} BY <2>1
  <2>5. t[1] = <<v, "first">> /\ t[2] = <<v, "second">> BY <2>4 DEF SchemaInv, TxIsNew, Schema!Statements
  <2>6. versions' = versions \cup {v} /\ schema' = schema \o t BY <1>3 DEF Schema!Commits
  <2>7. v \in Schema!Of(p, opening[p].destructive) BY <2>1, <2>3 DEF SchemaInv, TodoIsOwn, Working
  <2>8. \A w \in Schema!Of(p, opening[p].destructive) : w < v => w \in versions
    <3>1. SUFFICES ASSUME NEW w \in Schema!Of(p, opening[p].destructive), w < v, w \notin versions PROVE FALSE OBVIOUS
    <3>2. PICK i \in DOMAIN opening[p].todo : opening[p].todo[i] = w BY <2>1, <3>1 DEF SchemaInv, TodoIsRest, Working
    <3>3. i \in Nat /\ i >= 1 BY <2>1
    <3>4. i # 1 BY <2>3, <3>1, <3>2
    <3>5. opening[p].todo[1] < opening[p].todo[i] BY <2>3, <3>3, <3>4 DEF SchemaInv, TodoRises
    <3>6. w \in Nat BY <2>1, <3>2
    <3>. QED BY <2>3, <3>1, <3>2, <3>5, <3>6
  <2>a. schema \o t \in Seq(Effects) /\ Len(schema) \in Nat /\ DOMAIN schema = 1 .. Len(schema) BY <1>1, <2>1
  <2>c. \A z \in Seq(Effects) : DOMAIN z = 1 .. Len(z) OBVIOUS
  <2>d. Len(schema \o t) = Len(schema) + Len(t) BY <1>1, <2>1, ConcatProperties
  <2>b. DOMAIN (schema \o t) = 1 .. Len(schema) + Len(t) BY <2>a, <2>c, <2>d
  <2>9. schema \o t \in Seq(Effects) /\ DOMAIN (schema \o t) = 1 .. Len(schema) + 2 /\ Len(schema) \in Nat /\ DOMAIN schema = 1 .. Len(schema)
    BY <2>1, <2>a, <2>b
  <2>10. \A i \in DOMAIN schema : (schema \o t)[i] = schema[i] BY <1>1, <2>1
  <2>11. (schema \o t)[Len(schema) + 1] = <<v, "first">> /\ (schema \o t)[Len(schema) + 2] = <<v, "second">>
    <3>1. (schema \o t)[Len(schema) + 1] = t[1] /\ (schema \o t)[Len(schema) + 2] = t[2] BY <1>1, <2>1, <2>9
    <3>. QED BY <2>5, <3>1
  <2>12. \A i \in DOMAIN (schema \o t) : i \in DOMAIN schema \/ i = Len(schema) + 1 \/ i = Len(schema) + 2 BY <2>9
  <2>13. \A i \in DOMAIN schema : schema[i] \in Effects /\ schema[i][1] \in versions /\ schema[i][1] # v
    BY <1>1, <2>2 DEF SchemaInv, EffectsRecorded
  <2>. HIDE DEF v, t
  <2>. DEFINE s == schema \o t
  <2>14. EffectsRecorded'
    <3>1. SUFFICES ASSUME NEW i \in DOMAIN s PROVE s[i][1] \in versions \cup {v} BY <2>6 DEF EffectsRecorded
    <3>2. CASE i \in DOMAIN schema BY <2>10, <2>13, <3>2
    <3>3. CASE i = Len(schema) + 1 \/ i = Len(schema) + 2 BY <2>11, <3>3
    <3>. QED BY <2>12, <3>2, <3>3
  <2>15. RecordedInEffect'
    <3>1. SUFFICES ASSUME NEW u \in versions \cup {v}, NEW x \in {"first", "second"} PROVE \E i \in DOMAIN s : s[i] = <<u, x>>
      BY <2>6 DEF RecordedInEffect
    <3>2. CASE u \in versions
      <4>1. PICK i \in DOMAIN schema : schema[i] = <<u, x>> BY <3>2 DEF SchemaInv, RecordedInEffect
      <4>2. i \in DOMAIN s BY <2>9
      <4>. QED BY <2>10, <4>1, <4>2
    <3>3. CASE u = v
      <4>1. Len(schema) + 1 \in DOMAIN s /\ Len(schema) + 2 \in DOMAIN s BY <2>9
      <4>. QED BY <2>11, <3>3, <4>1
    <3>. QED BY <3>2, <3>3
  <2>16. EffectsOnce'
    <3>1. SUFFICES ASSUME NEW i \in DOMAIN s, NEW j \in DOMAIN s, s[i] = s[j] PROVE i = j BY <2>6 DEF EffectsOnce
    <3>2. CASE i \in DOMAIN schema /\ j \in DOMAIN schema
      <4>1. schema[i] = schema[j] BY <2>10, <3>1, <3>2
      <4>. QED BY <3>2, <4>1 DEF SchemaInv, EffectsOnce
    <3>3. ASSUME NEW k \in DOMAIN schema, NEW l \in DOMAIN s, l \notin DOMAIN schema PROVE s[k] # s[l]
      <4>1. <<v, "first">>[1] = v /\ <<v, "second">>[1] = v OBVIOUS
      <4>2. s[l][1] = v BY <2>11, <2>12, <3>3, <4>1
      <4>3. s[k][1] # v BY <2>10, <2>13
      <4>. QED BY <4>2, <4>3
    <3>4. CASE i \notin DOMAIN schema /\ j \notin DOMAIN schema
      <4>1. <<v, "first">> # <<v, "second">> OBVIOUS
      <4>. QED BY <2>11, <2>12, <3>1, <3>4, <4>1
    <3>. QED BY <3>1, <3>2, <3>3, <3>4
  <2>17. Schema!EachMeetsItsSchema'
    <3>1. \A u \in (versions \cup {v}) \ files.destructive : \A w \in Versions \ files.destructive : w < u => w \in versions \cup {v}
      <4>1. SUFFICES ASSUME NEW u \in (versions \cup {v}) \ files.destructive, NEW w \in Versions \ files.destructive, w < u
                     PROVE w \in versions \cup {v} OBVIOUS
      <4>2. \A a \in versions \ files.destructive : \A b \in Versions \ files.destructive : b < a => b \in versions
        BY DEF SchemaInv, Schema!EachMeetsItsSchema, Versions
      <4>3. CASE u \in versions BY <4>2, <4>1, <4>3
      <4>4. CASE u = v
        <5>1. v \in files.known[p] \ files.destructive /\ opening[p].destructive = FALSE
          <6>1. opening[p].destructive \in BOOLEAN BY SchemaTyped DEF Openings
          <6>. QED BY <2>7, <4>1, <4>4, <6>1 DEF Schema!Of
        <5>2. PICK q \in Processes : w \in files.known[q] BY <4>1 DEF Versions
        <5>3. w \in files.known[p] BY <1>1, <4>1, <4>4, <5>1, <5>2 DEF FileTypes
        <5>a. w \in Schema!Of(p, FALSE) BY <4>1, <5>3 DEF Schema!Of
        <5>4. w \in Schema!Of(p, opening[p].destructive) BY <5>1, <5>a
        <5>. QED BY <2>8, <4>1, <4>4, <5>4
      <4>. QED BY <4>3, <4>4
    <3>2. (versions \cup {v}) \cap files.destructive # {} => files.known[files.operator] \ files.destructive \subseteq versions \cup {v}
      <4>1. CASE versions \cap files.destructive # {} BY <4>1 DEF SchemaInv, Schema!EachMeetsItsSchema
      <4>2. CASE v \in files.destructive
        <5>1. opening[p].destructive \in BOOLEAN BY SchemaTyped DEF Openings
        <5>2. opening[p].destructive BY <2>7, <4>2, <5>1 DEF Schema!Of
        <5>3. p = files.operator /\ files.known[p] \ files.destructive \subseteq versions BY <5>2 DEF SchemaInv, OperatorIsOpen
        <5>. QED BY <5>3
      <4>. QED BY <4>1, <4>2
    <3>3. files'.known = files.known /\ files'.destructive = files.destructive /\ files'.operator = files.operator BY DEF SameFiles
    <3>4. UNION {files'.known[q] : q \in Processes} = Versions BY <3>3 DEF Versions
    <3>. QED BY <2>6, <3>1, <3>2, <3>3, <3>4 DEF Schema!EachMeetsItsSchema
  <2>. QED BY <1>1, <1>3, <2>3, <2>6, <2>9, <2>14, <2>15, <2>16, <2>17 DEF v
<1>. QED BY <1>2, <1>3
\* A process that turns to what keeps the invariant, and the others, which stay where they are.
LEMMA TurnKeeps ==
  ASSUME SchemaInv, NEW p \in Processes, NEW at, NEW todo, NEW d, NEW tx, Turns(p, at, todo, d, tx), SameFiles,
         versions \subseteq versions', versions' = versions \/ opening[p].at = "tx",
         \A i, j \in DOMAIN todo : i < j => todo[i] < todo[j],
         at \in Working => \A i \in DOMAIN todo : todo[i] \in Schema!Of(p, d),
         at \in Working => \A v \in Schema!Of(p, d) : v \in versions' \/ \E i \in DOMAIN todo : todo[i] = v,
         at = "tx" => todo # <<>> /\ Head(todo) \notin versions', at # "tx" => tx = <<>>,
         Len(tx) <= 2, \A i \in DOMAIN tx : tx[i] = <<Head(todo), Schema!Statements[i]>>,
         d => p = files.operator /\ files.known[p] \ files.destructive \subseteq versions'
  PROVE  TodoRises' /\ TodoIsOwn' /\ TodoIsRest' /\ TxIsNew' /\ OperatorIsOpen'
<1>1. opening'[p].at = at /\ opening'[p].todo = todo /\ opening'[p].destructive = d /\ opening'[p].tx = tx BY DEF Turns
<1>2. \A q \in Processes : q # p => opening'[q] = opening[q] BY DEF Turns
<1>3. \A q, e : {v \in files'.known[q] : (v \in files'.destructive) = e} = Schema!Of(q, e) BY DEF SameFiles, Schema!Of
<1>4. TodoRises'
  <2>1. ASSUME NEW q \in Processes PROVE \A i, j \in DOMAIN opening'[q].todo : i < j => opening'[q].todo[i] < opening'[q].todo[j]
    <3>1. CASE q = p BY <1>1, <3>1
    <3>2. CASE q # p
      <4>1. opening'[q] = opening[q] BY <1>2, <3>2
      <4>. QED BY <4>1 DEF SchemaInv, TodoRises
    <3>. QED BY <3>1, <3>2
  <2>. QED BY <2>1 DEF TodoRises
<1>5. TodoIsOwn'
  <2>1. ASSUME NEW q \in Processes, opening'[q].at \in Working
        PROVE \A i \in DOMAIN opening'[q].todo : opening'[q].todo[i] \in Schema!Of(q, opening'[q].destructive)
    <3>1. CASE q = p BY <1>1, <2>1, <3>1
    <3>2. CASE q # p
      <4>1. opening'[q] = opening[q] BY <1>2, <3>2
      <4>. QED BY <2>1, <4>1 DEF SchemaInv, TodoIsOwn
    <3>. QED BY <3>1, <3>2
  <2>2. ASSUME NEW q \in Processes, opening'[q].at \in Working, NEW i \in DOMAIN opening'[q].todo
        PROVE opening'[q].todo[i] \in {v \in files'.known[q] : (v \in files'.destructive) = opening'[q].destructive} BY <1>3, <2>1, <2>2
  <2>. QED BY <2>2 DEF TodoIsOwn, Schema!Of
<1>6. TodoIsRest'
  <2>1. ASSUME NEW q \in Processes, opening'[q].at \in Working, NEW v \in Schema!Of(q, opening'[q].destructive)
        PROVE  v \in versions' \/ \E i \in DOMAIN opening'[q].todo : opening'[q].todo[i] = v
    <3>1. CASE q = p BY <1>1, <2>1, <3>1
    <3>2. CASE q # p
      <4>1. opening'[q] = opening[q] BY <1>2, <3>2
      <4>2. v \in versions \/ \E i \in DOMAIN opening[q].todo : opening[q].todo[i] = v BY <2>1, <4>1 DEF SchemaInv, TodoIsRest
      <4>. QED BY <4>1, <4>2
    <3>. QED BY <3>1, <3>2
  <2>2. ASSUME NEW q \in Processes, opening'[q].at \in Working, NEW v \in {w \in files'.known[q] : (w \in files'.destructive) = opening'[q].destructive}
        PROVE  v \in versions' \/ \E i \in DOMAIN opening'[q].todo : opening'[q].todo[i] = v BY <1>3, <2>1, <2>2
  <2>. QED BY <2>2 DEF TodoIsRest, Schema!Of
<1>7. TxIsNew'
  <2>1. ASSUME NEW q \in Processes
        PROVE  /\ opening'[q].at = "tx" => opening'[q].todo # <<>> /\ Head(opening'[q].todo) \notin versions'
               /\ opening'[q].at # "tx" => opening'[q].tx = <<>>
               /\ Len(opening'[q].tx) <= 2
               /\ \A i \in DOMAIN opening'[q].tx : opening'[q].tx[i] = <<Head(opening'[q].todo), Schema!Statements[i]>>
    <3>1. CASE q = p BY <1>1, <3>1
    <3>2. CASE q # p
      <4>1. opening'[q] = opening[q] BY <1>2, <3>2
      <4>2. opening[q].at = "tx" => versions' = versions BY <3>2 DEF SchemaInv, HolderHasLock, Holding
      <4>. QED BY <4>1, <4>2 DEF SchemaInv, TxIsNew
    <3>. QED BY <3>1, <3>2
  <2>. QED BY <2>1 DEF TxIsNew, Schema!Statements
<1>8. OperatorIsOpen'
  <2>1. ASSUME NEW q \in Processes, opening'[q].destructive PROVE q = files.operator /\ files.known[q] \ files.destructive \subseteq versions'
    <3>1. CASE q = p BY <1>1, <2>1, <3>1
    <3>2. CASE q # p
      <4>1. opening[q].destructive BY <1>2, <2>1, <3>2
      <4>. QED BY <4>1 DEF SchemaInv, OperatorIsOpen
    <3>. QED BY <3>1, <3>2
  <2>2. files'.known = files.known /\ files'.destructive = files.destructive /\ files'.operator = files.operator BY DEF SameFiles
  <2>. QED BY <2>1, <2>2 DEF OperatorIsOpen
<1>. QED BY <1>4, <1>5, <1>6, <1>7, <1>8
\* What the process has now.
LEMMA Now ==
  ASSUME SchemaInv, NEW p \in Processes
  PROVE  /\ \A i, j \in DOMAIN opening[p].todo : i < j => opening[p].todo[i] < opening[p].todo[j]
         /\ opening[p].at \in Working => \A i \in DOMAIN opening[p].todo : opening[p].todo[i] \in Schema!Of(p, opening[p].destructive)
         /\ opening[p].at \in Working => \A v \in Schema!Of(p, opening[p].destructive) : v \in versions \/ \E i \in DOMAIN opening[p].todo : opening[p].todo[i] = v
         /\ opening[p].at = "tx" => opening[p].todo # <<>> /\ Head(opening[p].todo) \notin versions
         /\ opening[p].at # "tx" => opening[p].tx = <<>>
         /\ Len(opening[p].tx) <= 2 /\ Len(<<>>) <= 2 /\ DOMAIN <<>> = {}
         /\ \A i \in DOMAIN opening[p].tx : opening[p].tx[i] = <<Head(opening[p].todo), Schema!Statements[i]>>
         /\ opening[p].destructive => p = files.operator /\ files.known[p] \ files.destructive \subseteq versions
<1>. USE DEF SchemaInv
<1>1. /\ \A i, j \in DOMAIN opening[p].todo : i < j => opening[p].todo[i] < opening[p].todo[j] BY DEF TodoRises
<1>2. opening[p].at \in Working => \A i \in DOMAIN opening[p].todo : opening[p].todo[i] \in Schema!Of(p, opening[p].destructive)
BY DEF TodoIsOwn
<1>3. opening[p].at \in Working => \A v \in Schema!Of(p, opening[p].destructive) : v \in versions \/ \E i \in DOMAIN opening[p].todo : opening[p].todo[i] = v
BY DEF TodoIsRest
<1>4. /\ opening[p].at = "tx" => opening[p].todo # <<>> /\ Head(opening[p].todo) \notin versions
      /\ opening[p].at # "tx" => opening[p].tx = <<>>
      /\ Len(opening[p].tx) <= 2
      /\ \A i \in DOMAIN opening[p].tx : opening[p].tx[i] = <<Head(opening[p].todo), Schema!Statements[i]>> BY DEF TxIsNew
<1>5. opening[p].destructive => p = files.operator /\ files.known[p] \ files.destructive \subseteq versions BY DEF OperatorIsOpen
<1>6. Len(<<>>) <= 2 /\ DOMAIN <<>> = {} OBVIOUS
<1>. QED BY <1>1, <1>2, <1>3, <1>4, <1>5, <1>6
\* A list without its first.
LEMMA TailIs ==
  ASSUME NEW s \in Seq(Nat), s # <<>>
  PROVE  /\ \A i \in DOMAIN Tail(s) : i \in Nat /\ i + 1 \in DOMAIN s /\ Tail(s)[i] = s[i + 1]
         /\ \A i \in DOMAIN s : i = 1 \/ (i - 1 \in DOMAIN Tail(s) /\ Tail(s)[i - 1] = s[i])
         /\ Head(s) = s[1]
<1>1. Len(s) \in Nat /\ Len(s) >= 1 /\ DOMAIN s = 1 .. Len(s) OBVIOUS
<1>2. Tail(s) \in Seq(Nat) /\ Len(Tail(s)) = Len(s) - 1 /\ DOMAIN Tail(s) = 1 .. Len(s) - 1 OBVIOUS
<1>3. \A i \in 1 .. Len(s) - 1 : Tail(s)[i] = s[i + 1] OBVIOUS
<1>4. \A i \in 1 .. Len(s) - 1 : i \in Nat /\ i + 1 \in 1 .. Len(s) BY <1>1
<1>5. \A i \in 1 .. Len(s) : i = 1 \/ (i - 1 \in 1 .. Len(s) - 1 /\ (i - 1) + 1 = i) BY <1>1
<1>6. Head(s) = s[1] OBVIOUS
<1>. QED BY <1>1, <1>2, <1>3, <1>4, <1>5, <1>6
LEMMA TailKeeps ==
  ASSUME SchemaInv, NEW p \in Processes, opening[p].at \in Working, opening[p].todo # <<>>
  PROVE  /\ \A i, j \in DOMAIN Tail(opening[p].todo) : i < j => Tail(opening[p].todo)[i] < Tail(opening[p].todo)[j]
         /\ \A i \in DOMAIN Tail(opening[p].todo) : Tail(opening[p].todo)[i] \in Schema!Of(p, opening[p].destructive)
         /\ \A v \in Schema!Of(p, opening[p].destructive) :
              v \in versions \/ v = Head(opening[p].todo) \/ \E i \in DOMAIN Tail(opening[p].todo) : Tail(opening[p].todo)[i] = v
<1>. DEFINE s == opening[p].todo
            t == Tail(s)
            O == Schema!Of(p, opening[p].destructive)
<1>1. s \in Seq(Nat) BY SchemaTyped
<1>2. /\ \A i, j \in DOMAIN s : i < j => s[i] < s[j]
      /\ \A i \in DOMAIN s : s[i] \in O
      /\ \A v \in O : v \in versions \/ \E i \in DOMAIN s : s[i] = v BY Now
<1>3. s # <<>> OBVIOUS
<1>. HIDE DEF O, s
<1>4. /\ \A i \in DOMAIN Tail(s) : i \in Nat /\ i + 1 \in DOMAIN s /\ Tail(s)[i] = s[i + 1]
      /\ \A i \in DOMAIN s : i = 1 \/ (i - 1 \in DOMAIN Tail(s) /\ Tail(s)[i - 1] = s[i])
      /\ Head(s) = s[1] BY <1>1, <1>3, TailIs
<1>. HIDE DEF t
<1>5. \A i, j \in DOMAIN t : i < j => t[i] < t[j]
  <2>1. SUFFICES ASSUME NEW i \in DOMAIN t, NEW j \in DOMAIN t, i < j PROVE t[i] < t[j] OBVIOUS
  <2>2. i + 1 \in DOMAIN s /\ j + 1 \in DOMAIN s /\ i + 1 < j + 1 /\ t[i] = s[i + 1] /\ t[j] = s[j + 1] BY <1>4, <2>1 DEF t
  <2>. QED BY <1>2, <2>2
<1>6. \A i \in DOMAIN t : t[i] \in O BY <1>2, <1>4 DEF t
<1>7. \A v \in O : v \in versions \/ v = Head(s) \/ \E i \in DOMAIN t : t[i] = v
  <2>1. SUFFICES ASSUME NEW v \in O, v \notin versions, v # Head(s) PROVE \E i \in DOMAIN t : t[i] = v OBVIOUS
  <2>2. PICK i \in DOMAIN s : s[i] = v BY <1>2, <2>1
  <2>3. i - 1 \in DOMAIN t /\ t[i - 1] = v BY <1>4, <2>1, <2>2 DEF t
  <2>. QED BY <2>3
<1>. QED BY <1>5, <1>6, <1>7 DEF s, t, O
\* The steps that leave the list as it is.
LEMMA StayKeeps ==
  ASSUME SchemaInv, NEW p \in Processes, NEW at, TurnsTo(p, at), SameFiles, UNCHANGED versions, opening[p].at # "tx",
         at \in Working => opening[p].at \in Working,
         at = "tx" => opening[p].todo # <<>> /\ Head(opening[p].todo) \notin versions
  PROVE  TodoRises' /\ TodoIsOwn' /\ TodoIsRest' /\ TxIsNew' /\ OperatorIsOpen'
<1>1. Turns(p, at, opening[p].todo, opening[p].destructive, opening[p].tx) BY DEF TurnsTo
<1>2. opening[p].tx = <<>> BY Now
<1>3. versions \subseteq versions' /\ versions' = versions OBVIOUS
<1>4. /\ \A i, j \in DOMAIN opening[p].todo : i < j => opening[p].todo[i] < opening[p].todo[j]
      /\ at \in Working => \A i \in DOMAIN opening[p].todo : opening[p].todo[i] \in Schema!Of(p, opening[p].destructive)
      /\ at \in Working => \A v \in Schema!Of(p, opening[p].destructive) : v \in versions' \/ \E i \in DOMAIN opening[p].todo : opening[p].todo[i] = v
      /\ Len(opening[p].tx) <= 2
      /\ \A i \in DOMAIN opening[p].tx : opening[p].tx[i] = <<Head(opening[p].todo), Schema!Statements[i]>>
      /\ opening[p].destructive => p = files.operator /\ files.known[p] \ files.destructive \subseteq versions'
BY <1>3, Now
<1>. QED BY <1>1, <1>2, <1>3, <1>4, TurnKeeps
LEMMA NoFilesMove == UNCHANGED files => SameFiles BY DEF SameFiles
LEMMA BootstrapKeeps == ASSUME SchemaInv, NEW p \in Processes, Schema!Bootstrap(p) PROVE TodoRises' /\ TodoIsOwn' /\ TodoIsRest' /\ TxIsNew' /\ OperatorIsOpen'
<1>1. PICK at \in {"lock", "creating", "failed"} : TurnsTo(p, at) BY BootstrapStep
<1>2. opening[p].at \in {"bootstrap", "creating"} /\ SameFiles /\ UNCHANGED versions BY BootstrapStep, NoFilesMove
<1>. QED BY <1>1, <1>2, StayKeeps DEF Working
LEMMA AcquireKeeps == ASSUME SchemaInv, NEW p \in Processes, Schema!AcquireLock(p) PROVE TodoRises' /\ TodoIsOwn' /\ TodoIsRest' /\ TxIsNew' /\ OperatorIsOpen'
<1>1. TurnsTo(p, "next") /\ opening[p].at = "lock" /\ SameFiles /\ UNCHANGED versions BY AcquireStep, NoFilesMove
<1>. QED BY <1>1, StayKeeps DEF Working
LEMMA BeginKeeps == ASSUME SchemaInv, NEW p \in Processes, Schema!Begin(p) PROVE TodoRises' /\ TodoIsOwn' /\ TodoIsRest' /\ TxIsNew' /\ OperatorIsOpen'
<1>1. TurnsTo(p, "tx") /\ opening[p].at = "next" /\ SameFiles /\ UNCHANGED versions /\ opening[p].todo # <<>> /\ Head(opening[p].todo) \notin versions
BY BeginStep, NoFilesMove
<1>. QED BY <1>1, StayKeeps DEF Working
LEMMA ReleaseKeeps == ASSUME SchemaInv, NEW p \in Processes, Schema!Release(p) PROVE TodoRises' /\ TodoIsOwn' /\ TodoIsRest' /\ TxIsNew' /\ OperatorIsOpen'
<1>1. PICK at \in {"open", "failed"} : TurnsTo(p, at) BY ReleaseStep
<1>2. opening[p].at \in {"next", "undo"} /\ SameFiles /\ UNCHANGED versions BY ReleaseStep
<1>. QED BY <1>1, <1>2, StayKeeps DEF Working
LEMMA TimeOutKeeps == ASSUME SchemaInv, NEW p \in Processes, Schema!TimeOut(p) PROVE TodoRises' /\ TodoIsOwn' /\ TodoIsRest' /\ TxIsNew' /\ OperatorIsOpen'
<1>1. TurnsTo(p, "failed") /\ opening[p].at = "lock" /\ SameFiles /\ UNCHANGED versions BY TimeOutStep
<1>. QED BY <1>1, StayKeeps DEF Working
LEMMA SkipKeeps == ASSUME SchemaInv, NEW p \in Processes, Schema!Skip(p) PROVE TodoRises' /\ TodoIsOwn' /\ TodoIsRest' /\ TxIsNew' /\ OperatorIsOpen'
<1>. DEFINE t == Tail(opening[p].todo)
<1>1. /\ opening[p].at = "next" /\ opening[p].todo # <<>> /\ Head(opening[p].todo) \in versions
      /\ Turns(p, "next", t, opening[p].destructive, opening[p].tx) /\ SameFiles /\ versions' = versions BY SkipStep, NoFilesMove
<1>2. opening[p].tx = <<>> /\ opening[p].at \in Working BY <1>1, Now DEF Working
<1>3. /\ \A i, j \in DOMAIN t : i < j => t[i] < t[j]
      /\ \A i \in DOMAIN t : t[i] \in Schema!Of(p, opening[p].destructive)
      /\ \A v \in Schema!Of(p, opening[p].destructive) :
           v \in versions' \/ \E i \in DOMAIN t : t[i] = v BY <1>1, <1>2, TailKeeps
<1>4. opening[p].destructive => p = files.operator /\ files.known[p] \ files.destructive \subseteq versions' BY <1>1, Now
<1>5. Len(opening[p].tx) <= 2 /\ DOMAIN opening[p].tx = {} BY <1>2, Now
<1>a. "next" # "tx" /\ (\A i \in DOMAIN opening[p].tx : opening[p].tx[i] = <<Head(t), Schema!Statements[i]>>) BY <1>5
<1>b. "next" \in Working BY DEF Working
<1>. HIDE DEF t
<1>. QED BY <1>a, <1>b, <1>1, <1>2, <1>3, <1>4, <1>5, TurnKeeps
LEMMA ExecKeeps == ASSUME SchemaInv, NEW p \in Processes, Schema!Exec(p) PROVE TodoRises' /\ TodoIsOwn' /\ TodoIsRest' /\ TxIsNew' /\ OperatorIsOpen'
<1>. DEFINE h == Head(opening[p].todo)
            t == Append(opening[p].tx, <<h, Schema!Statements[Len(opening[p].tx) + 1]>>)
<1>1. /\ opening[p].at = "tx" /\ opening[p].todo # <<>> /\ Len(opening[p].tx) \in {0, 1}
      /\ Turns(p, "tx", opening[p].todo, opening[p].destructive, t) /\ SameFiles /\ versions' = versions BY ExecStep, NoFilesMove
<1>2. opening[p].at \in Working /\ opening[p].tx \in Seq(Effects) BY <1>1, SchemaTyped DEF Working
<1>3. h \notin versions' BY <1>1, Now
<1>4. Len(t) <= 2 /\ \A i \in DOMAIN t : t[i] = <<h, Schema!Statements[i]>>
  <2>. DEFINE u == opening[p].tx
              e == <<h, Schema!Statements[Len(u) + 1]>>
  <2>1. u \in Seq(Effects) /\ Len(u) \in {0, 1} /\ \A i \in DOMAIN u : u[i] = <<h, Schema!Statements[i]>> BY <1>1, <1>2, Now
  <2>2. t = Append(u, e) OBVIOUS
  <2>3. e = <<h, Schema!Statements[Len(u) + 1]>> OBVIOUS
  <2>. HIDE DEF u, h, e, t
  <2>4. Len(Append(u, e)) = Len(u) + 1 /\ DOMAIN Append(u, e) = 1 .. Len(u) + 1 /\ DOMAIN u = 1 .. Len(u) BY <2>1
  <2>5. \A i \in 1 .. Len(u) : Append(u, e)[i] = u[i] BY <2>1
  <2>6. Append(u, e)[Len(u) + 1] = e BY <2>1
  <2>7. \A i \in 1 .. Len(u) + 1 : i \in 1 .. Len(u) \/ i = Len(u) + 1 BY <2>1
  <2>8. Len(u) + 1 <= 2 BY <2>1
  <2>. QED BY <2>1, <2>2, <2>3, <2>4, <2>5, <2>6, <2>7, <2>8
<1>5. /\ \A i, j \in DOMAIN opening[p].todo : i < j => opening[p].todo[i] < opening[p].todo[j]
      /\ \A i \in DOMAIN opening[p].todo : opening[p].todo[i] \in Schema!Of(p, opening[p].destructive)
      /\ \A v \in Schema!Of(p, opening[p].destructive) : v \in versions' \/ \E i \in DOMAIN opening[p].todo : opening[p].todo[i] = v
      /\ opening[p].destructive => p = files.operator /\ files.known[p] \ files.destructive \subseteq versions' BY <1>1, <1>2, Now
<1>. HIDE DEF t
<1>. QED BY <1>1, <1>3, <1>4, <1>5, TurnKeeps
LEMMA CommitKeeps == ASSUME SchemaInv, NEW p \in Processes, Schema!Commit(p) PROVE TodoRises' /\ TodoIsOwn' /\ TodoIsRest' /\ TxIsNew' /\ OperatorIsOpen'
<1>. DEFINE t == Tail(opening[p].todo)
<1>1. /\ opening[p].at = "tx" /\ Len(opening[p].tx) = 2 /\ Schema!Commits(p, TRUE)
      /\ Turns(p, "next", t, opening[p].destructive, <<>>) /\ SameFiles BY CommitStep, NoFilesMove
<1>2. versions' = versions \cup {Head(opening[p].todo)} BY <1>1, CommitsKeep
<1>3. opening[p].todo # <<>> /\ opening[p].at \in Working BY <1>1, Now DEF Working
<1>4. /\ \A i, j \in DOMAIN t : i < j => t[i] < t[j]
      /\ \A i \in DOMAIN t : t[i] \in Schema!Of(p, opening[p].destructive)
      /\ \A v \in Schema!Of(p, opening[p].destructive) :
           v \in versions' \/ \E i \in DOMAIN t : t[i] = v BY <1>2, <1>3, TailKeeps
<1>5. opening[p].destructive => p = files.operator /\ files.known[p] \ files.destructive \subseteq versions' BY <1>2, Now
<1>6. Len(<<>>) <= 2 /\ DOMAIN <<>> = {} BY Now
<1>7. versions \subseteq versions' BY <1>2
<1>a. "next" # "tx" /\ (\A i \in DOMAIN <<>> : <<>>[i] = <<Head(t), Schema!Statements[i]>>) BY <1>6
<1>b. "next" \in Working BY DEF Working
<1>. HIDE DEF t
<1>. QED BY <1>a, <1>b, <1>1, <1>4, <1>5, <1>6, <1>7, TurnKeeps
LEMMA OpenKeeps == ASSUME SchemaInv, NEW p \in Processes, Schema!Open(p) PROVE TodoRises' /\ TodoIsOwn' /\ TodoIsRest' /\ TxIsNew' /\ OperatorIsOpen'
<1>1. /\ opening[p].at \in {"none", "killed", "failed"} /\ Turns(p, "bootstrap", Schema!Pending(p, FALSE), FALSE, <<>>) /\ SameFiles /\ versions' = versions
BY OpenStep, NoFilesMove
<1>2. FileTypes BY SchemaTyped
<1>3. /\ \A i, j \in DOMAIN Schema!Pending(p, FALSE) : i < j => Schema!Pending(p, FALSE)[i] < Schema!Pending(p, FALSE)[j]
      /\ \A i \in DOMAIN Schema!Pending(p, FALSE) : Schema!Pending(p, FALSE)[i] \in Schema!Of(p, FALSE)
      /\ \A v \in Schema!Of(p, FALSE) : v \in versions' \/ \E i \in DOMAIN Schema!Pending(p, FALSE) : Schema!Pending(p, FALSE)[i] = v BY <1>2, PendingIs
<1>4. <<>> = <<>> /\ Len(<<>>) <= 2 /\ DOMAIN <<>> = {} BY <1>1, Now
<1>. QED BY <1>1, <1>3, <1>4, TurnKeeps
LEMMA DestructiveKeeps == ASSUME SchemaInv, NEW p \in Processes, Schema!ApplyDestructive(p) PROVE TodoRises' /\ TodoIsOwn' /\ TodoIsRest' /\ TxIsNew' /\ OperatorIsOpen'
<1>1. /\ opening[p].at \in {"open"} /\ Turns(p, "bootstrap", Schema!Pending(p, TRUE), TRUE, opening[p].tx) /\ SameFiles /\ versions' = versions
BY DestructiveStep, NoFilesMove
<1>2. FileTypes BY SchemaTyped
<1>3. /\ \A i, j \in DOMAIN Schema!Pending(p, TRUE) : i < j => Schema!Pending(p, TRUE)[i] < Schema!Pending(p, TRUE)[j]
      /\ \A i \in DOMAIN Schema!Pending(p, TRUE) : Schema!Pending(p, TRUE)[i] \in Schema!Of(p, TRUE)
      /\ \A v \in Schema!Of(p, TRUE) : v \in versions' \/ \E i \in DOMAIN Schema!Pending(p, TRUE) : Schema!Pending(p, TRUE)[i] = v BY <1>2, PendingIs
<1>4. opening[p].tx = <<>> /\ Len(opening[p].tx) <= 2 /\ DOMAIN opening[p].tx = {} BY <1>1, Now
<1>5. p = files.operator /\ files.known[p] \ files.destructive \subseteq versions'
BY <1>1, DestructiveStep DEF SchemaInv, Schema!OpenIsCurrent
<1>. QED BY ZenonT(150), <1>1, <1>3, <1>4, <1>5, TurnKeeps
LEMMA RollbackKeeps == ASSUME SchemaInv, NEW p \in Processes, Schema!Rollback(p) PROVE TodoRises' /\ TodoIsOwn' /\ TodoIsRest' /\ TxIsNew' /\ OperatorIsOpen'
<1>1. SameFiles /\ Turns(p, "undo", opening[p].todo, opening[p].destructive, <<>>) BY RollbackStep
<1>2. PICK c \in BOOLEAN : (c => opening[p].at = "tx" /\ Len(opening[p].tx) = 2) /\ Schema!Commits(p, c) BY RollbackStep
<1>3. versions \subseteq versions' /\ (versions' = versions \/ opening[p].at = "tx") BY <1>1, <1>2, CommitsKeep
<1>4. "undo" \in Working => opening[p].at \in Working BY RollbackStep DEF Working
<1>5. /\ \A i, j \in DOMAIN opening[p].todo : i < j => opening[p].todo[i] < opening[p].todo[j]
      /\ "undo" \in Working => \A i \in DOMAIN opening[p].todo : opening[p].todo[i] \in Schema!Of(p, opening[p].destructive)
      /\ "undo" \in Working => \A v \in Schema!Of(p, opening[p].destructive) : v \in versions' \/ \E i \in DOMAIN opening[p].todo : opening[p].todo[i] = v
      /\ opening[p].destructive => p = files.operator /\ files.known[p] \ files.destructive \subseteq versions' BY <1>3, <1>4, Now
<1>6. Len(<<>>) <= 2 /\ DOMAIN <<>> = {} BY Now
<1>. QED BY <1>1, <1>3, <1>5, <1>6, TurnKeeps
LEMMA KillKeeps == ASSUME SchemaInv, NEW p \in Processes, Schema!Kill(p) PROVE TodoRises' /\ TodoIsOwn' /\ TodoIsRest' /\ TxIsNew' /\ OperatorIsOpen'
<1>1. SameFiles /\ Turns(p, "killed", opening[p].todo, opening[p].destructive, <<>>) BY KillStep
<1>2. PICK c \in BOOLEAN : (c => opening[p].at = "tx" /\ Len(opening[p].tx) = 2) /\ Schema!Commits(p, c) BY KillStep
<1>3. versions \subseteq versions' /\ (versions' = versions \/ opening[p].at = "tx") BY <1>1, <1>2, CommitsKeep
<1>4. "killed" \in Working => opening[p].at \in Working BY KillStep DEF Working
<1>5. /\ \A i, j \in DOMAIN opening[p].todo : i < j => opening[p].todo[i] < opening[p].todo[j]
      /\ "killed" \in Working => \A i \in DOMAIN opening[p].todo : opening[p].todo[i] \in Schema!Of(p, opening[p].destructive)
      /\ "killed" \in Working => \A v \in Schema!Of(p, opening[p].destructive) : v \in versions' \/ \E i \in DOMAIN opening[p].todo : opening[p].todo[i] = v
      /\ opening[p].destructive => p = files.operator /\ files.known[p] \ files.destructive \subseteq versions' BY <1>3, <1>4, Now
<1>6. Len(<<>>) <= 2 /\ DOMAIN <<>> = {} BY Now
<1>. QED BY <1>1, <1>3, <1>5, <1>6, TurnKeeps
\* Every action keeps the invariant: a step for each, and one below it for each part it can disturb.
LEMMA SchemaStep == SchemaInv /\ [Schema!Next]_schemaVars => SchemaInv'
<1>. SUFFICES ASSUME SchemaInv, [Schema!Next]_schemaVars PROVE SchemaInv' OBVIOUS
<1>1. ASSUME SchemaInv, Schema!SessionDies PROVE SchemaInv'
  <2>1. HolderHasLock'
    <3>1. lock = -1 /\ UNCHANGED opening BY <1>1 DEF Schema!SessionDies, Schema!Ghost
    <3>2. \A p \in Processes : p # -1 BY SchemaAssumption
    <3>. QED BY <1>1, <3>1, <3>2 DEF SchemaInv, HolderHasLock
  <2>2. DataTypes'
    BY <1>1 DEF Schema!SessionDies, Schema!Ghost, Schema!Nobody, Schema!DatabaseUnchanged, DataTypes, Effects, SchemaInv
  <2>3. FileTypes' /\ OpeningTypes' /\ TodoRises' /\ TodoIsOwn' /\ TodoIsRest' /\ TxIsNew' /\ OperatorIsOpen' /\
        EffectsRecorded' /\ RecordedInEffect' /\ EffectsOnce' /\ Schema!EachMeetsItsSchema' /\ Schema!OpenIsCurrent'
    <3>1. UNCHANGED <<files, versions, schema, opening>> BY <1>1 DEF Schema!SessionDies, Schema!DatabaseUnchanged
    <3>. QED BY <1>1, <3>1 DEF SchemaInv, FileTypes, OpeningTypes, TodoRises, TodoIsOwn, Schema!Of, TodoIsRest, TxIsNew,
         OperatorIsOpen, EffectsRecorded, RecordedInEffect, EffectsOnce, Schema!EachMeetsItsSchema, Schema!OpenIsCurrent
  <2>. QED BY <2>2, <2>1, <2>3 DEF SchemaInv
<1>2. ASSUME SchemaInv, NEW p \in Processes, Schema!Bootstrap(p) PROVE SchemaInv'
  <2>. USE DEF SchemaInv
  <2>1. DataTypes' BY <1>2, BootstrapStep DEF DataTypes, Effects, Turns, TurnsTo, SameFiles
  <2>2. OpeningTypes' BY <1>2, BootstrapStep DEF OpeningTypes, Openings, Effects, Turns, TurnsTo, SameFiles
  <2>3. HolderHasLock' BY <1>2, BootstrapStep DEF HolderHasLock, Holding, Turns, TurnsTo, SameFiles
  <2>4. TodoRises' BY <1>2, BootstrapKeeps
  <2>5. TodoIsOwn' BY <1>2, BootstrapKeeps
  <2>6. TodoIsRest' BY <1>2, BootstrapKeeps
  <2>7. TxIsNew' BY <1>2, BootstrapKeeps
  <2>8. OperatorIsOpen' BY <1>2, BootstrapKeeps
  <2>9. Schema!OpenIsCurrent'
    BY <1>2, BootstrapStep DEF Schema!OpenIsCurrent, TodoIsRest, OperatorIsOpen, Working, Schema!Of, Turns, TurnsTo, SameFiles
  <2>10. FileTypes' /\ EffectsRecorded' /\ RecordedInEffect' /\ EffectsOnce' /\ Schema!EachMeetsItsSchema'
    <3>1. UNCHANGED <<files, versions, schema>> BY <1>2, BootstrapStep
    <3>. QED BY <1>2, <3>1 DEF FileTypes, EffectsRecorded, RecordedInEffect, EffectsOnce, Schema!EachMeetsItsSchema
  <2>. QED BY <2>1, <2>2, <2>3, <2>4, <2>5, <2>6, <2>7, <2>8, <2>9, <2>10
<1>3. ASSUME SchemaInv, NEW p \in Processes, Schema!AcquireLock(p) PROVE SchemaInv'
  <2>1. DataTypes' BY <1>3, AcquireStep DEF DataTypes, Effects, SchemaInv, Turns, TurnsTo, SameFiles
  <2>2. OpeningTypes' BY <1>3, AcquireStep DEF OpeningTypes, Openings, Effects, SchemaInv, Turns, TurnsTo, SameFiles
  <2>3. HolderHasLock'
    <3>1. lock = 0 /\ lock' = p /\ TurnsTo(p, "next") BY <1>3, AcquireStep
    <3>2. \A q \in Processes : q # 0 BY SchemaAssumption
    <3>3. \A q \in Processes : opening[q].at \notin Holding BY <1>3, <3>1, <3>2 DEF SchemaInv, HolderHasLock
    <3>4. \A q \in Processes : q # p => opening'[q].at = opening[q].at BY <3>1 DEF TurnsTo, Turns
    <3>. QED BY <3>1, <3>3, <3>4 DEF HolderHasLock
  <2>4. TodoRises' BY <1>3, AcquireKeeps
  <2>5. TodoIsOwn' BY <1>3, AcquireKeeps
  <2>6. TodoIsRest' BY <1>3, AcquireKeeps
  <2>7. TxIsNew' BY <1>3, AcquireKeeps
  <2>8. OperatorIsOpen' BY <1>3, AcquireKeeps
  <2>9. Schema!OpenIsCurrent'
    BY <1>3, AcquireStep DEF Schema!OpenIsCurrent, TodoIsRest, OperatorIsOpen, Working, Schema!Of, SchemaInv, Turns,
       TurnsTo, SameFiles
  <2>10. FileTypes' /\ EffectsRecorded' /\ RecordedInEffect' /\ EffectsOnce' /\ Schema!EachMeetsItsSchema'
    <3>1. UNCHANGED <<files, versions, schema>> BY <1>3, AcquireStep
    <3>. QED BY <1>3, <3>1 DEF SchemaInv, FileTypes, EffectsRecorded, RecordedInEffect, EffectsOnce,
         Schema!EachMeetsItsSchema
  <2>. QED BY <2>1, <2>2, <2>3, <2>4, <2>5, <2>6, <2>7, <2>8, <2>9, <2>10 DEF SchemaInv
<1>4. ASSUME SchemaInv, NEW p \in Processes, Schema!Skip(p) PROVE SchemaInv'
  <2>. USE DEF SchemaInv
  <2>1. OpeningTypes' BY <1>4, SkipStep DEF OpeningTypes, Openings, Effects, Turns, TurnsTo, SameFiles
  <2>2. HolderHasLock' BY <1>4, SkipStep DEF HolderHasLock, Holding, Turns, TurnsTo, SameFiles
  <2>3. TodoRises' BY <1>4, SkipKeeps
  <2>4. TodoIsOwn' BY <1>4, SkipKeeps
  <2>5. TodoIsRest' BY <1>4, SkipKeeps
  <2>6. TxIsNew' BY <1>4, SkipKeeps
  <2>7. OperatorIsOpen' BY <1>4, SkipKeeps
  <2>8. Schema!OpenIsCurrent'
    BY <1>4, SkipStep DEF Schema!OpenIsCurrent, TodoIsRest, OperatorIsOpen, Working, Schema!Of, Turns, TurnsTo, SameFiles
  <2>9. FileTypes' /\ DataTypes' /\ EffectsRecorded' /\ RecordedInEffect' /\ EffectsOnce' /\ Schema!EachMeetsItsSchema'
    <3>1. UNCHANGED <<files, table, versions, schema, lock>> BY <1>4, SkipStep
    <3>. QED BY <1>4, <3>1 DEF FileTypes, DataTypes, EffectsRecorded, RecordedInEffect, EffectsOnce, Schema!EachMeetsItsSchema
  <2>. QED BY <2>1, <2>2, <2>3, <2>4, <2>5, <2>6, <2>7, <2>8, <2>9
<1>5. ASSUME SchemaInv, NEW p \in Processes, Schema!Begin(p) PROVE SchemaInv'
  <2>. USE DEF SchemaInv
  <2>1. OpeningTypes' BY <1>5, BeginStep DEF OpeningTypes, Openings, Effects, Turns, TurnsTo, SameFiles
  <2>2. HolderHasLock' BY <1>5, BeginStep DEF HolderHasLock, Holding, Turns, TurnsTo, SameFiles
  <2>3. TodoRises' BY <1>5, BeginKeeps
  <2>4. TodoIsOwn' BY <1>5, BeginKeeps
  <2>5. TodoIsRest' BY <1>5, BeginKeeps
  <2>6. TxIsNew' BY <1>5, BeginKeeps
  <2>7. OperatorIsOpen' BY <1>5, BeginKeeps
  <2>8. Schema!OpenIsCurrent'
    BY <1>5, BeginStep DEF Schema!OpenIsCurrent, TodoIsRest, OperatorIsOpen, Working, Schema!Of, Turns, TurnsTo, SameFiles
  <2>9. FileTypes' /\ DataTypes' /\ EffectsRecorded' /\ RecordedInEffect' /\ EffectsOnce' /\ Schema!EachMeetsItsSchema'
    <3>1. UNCHANGED <<files, table, versions, schema, lock>> BY <1>5, BeginStep
    <3>. QED BY <1>5, <3>1 DEF FileTypes, DataTypes, EffectsRecorded, RecordedInEffect, EffectsOnce, Schema!EachMeetsItsSchema
  <2>. QED BY <2>1, <2>2, <2>3, <2>4, <2>5, <2>6, <2>7, <2>8, <2>9
<1>6. ASSUME SchemaInv, NEW p \in Processes, Schema!Exec(p) PROVE SchemaInv'
  <2>. USE DEF SchemaInv
  <2>1. OpeningTypes' BY <1>6, ExecStep DEF OpeningTypes, Openings, Effects, Turns, TurnsTo, SameFiles
  <2>2. HolderHasLock' BY <1>6, ExecStep DEF HolderHasLock, Holding, Turns, TurnsTo, SameFiles
  <2>3. TodoRises' BY <1>6, ExecKeeps
  <2>4. TodoIsOwn' BY <1>6, ExecKeeps
  <2>5. TodoIsRest' BY <1>6, ExecKeeps
  <2>6. TxIsNew' BY <1>6, ExecKeeps
  <2>7. OperatorIsOpen' BY <1>6, ExecKeeps
  <2>8. Schema!OpenIsCurrent'
    BY <1>6, ExecStep DEF Schema!OpenIsCurrent, TodoIsRest, OperatorIsOpen, Working, Schema!Of, Turns, TurnsTo, SameFiles
  <2>9. FileTypes' /\ DataTypes' /\ EffectsRecorded' /\ RecordedInEffect' /\ EffectsOnce' /\ Schema!EachMeetsItsSchema'
    <3>1. UNCHANGED <<files, table, versions, schema, lock>> BY <1>6, ExecStep
    <3>. QED BY <1>6, <3>1 DEF FileTypes, DataTypes, EffectsRecorded, RecordedInEffect, EffectsOnce, Schema!EachMeetsItsSchema
  <2>. QED BY <2>1, <2>2, <2>3, <2>4, <2>5, <2>6, <2>7, <2>8, <2>9
<1>7. ASSUME SchemaInv, NEW p \in Processes, Schema!Commit(p) PROVE SchemaInv'
  <2>. USE DEF Turns, TurnsTo, SchemaInv, SameFiles
  <2>1. DataTypes' BY <1>7, CommitStep, CommitsKeep DEF DataTypes, Effects
  <2>2. OpeningTypes' BY <1>7, CommitStep DEF OpeningTypes, Openings, Effects
  <2>3. HolderHasLock' BY <1>7, CommitStep DEF HolderHasLock, Holding
  <2>4. TodoRises' BY <1>7, CommitKeeps
  <2>5. TodoIsOwn' BY <1>7, CommitKeeps
  <2>6. TodoIsRest' BY <1>7, CommitKeeps
  <2>7. TxIsNew' BY <1>7, CommitKeeps
  <2>8. OperatorIsOpen' BY <1>7, CommitKeeps
  <2>9. EffectsRecorded' BY <1>7, CommitStep, CommitsKeep DEF EffectsRecorded
  <2>10. RecordedInEffect' BY <1>7, CommitStep, CommitsKeep DEF RecordedInEffect
  <2>11. EffectsOnce' BY <1>7, CommitStep, CommitsKeep DEF EffectsOnce
  <2>12. Schema!EachMeetsItsSchema' BY <1>7, CommitStep, CommitsKeep DEF Schema!EachMeetsItsSchema
  <2>13. Schema!OpenIsCurrent'
    BY <1>7, CommitStep, CommitsKeep DEF Schema!OpenIsCurrent, TodoIsRest, OperatorIsOpen, Working, Schema!Of
  <2>14. FileTypes'
    <3>1. UNCHANGED <<files>> BY <1>7, CommitStep
    <3>. QED BY <1>7, <3>1 DEF FileTypes
  <2>. QED BY <2>1, <2>2, <2>3, <2>4, <2>5, <2>6, <2>7, <2>8, <2>9, <2>10, <2>11, <2>12, <2>13, <2>14
<1>8. ASSUME SchemaInv, NEW p \in Processes, Schema!Release(p) PROVE SchemaInv'
  <2>1. FileTypes' BY <1>8, ReleaseStep, FilesStay DEF FileTypes, SchemaInv, Turns, TurnsTo, SameFiles
  <2>2. DataTypes' BY <1>8, ReleaseStep DEF DataTypes, Effects, SchemaInv, Turns, TurnsTo, SameFiles
  <2>3. OpeningTypes' BY <1>8, ReleaseStep DEF OpeningTypes, Openings, Effects, SchemaInv, Turns, TurnsTo, SameFiles
  <2>4. HolderHasLock' BY <1>8, ReleaseStep DEF HolderHasLock, Holding, SchemaInv, Turns, TurnsTo, SameFiles
  <2>5. TodoRises' BY <1>8, ReleaseKeeps
  <2>6. TodoIsOwn' BY <1>8, ReleaseKeeps
  <2>7. TodoIsRest' BY <1>8, ReleaseKeeps
  <2>8. TxIsNew' BY <1>8, ReleaseKeeps
  <2>9. OperatorIsOpen' BY <1>8, ReleaseKeeps
  <2>10. Schema!EachMeetsItsSchema' BY <1>8, ReleaseStep DEF Schema!EachMeetsItsSchema, SchemaInv, Turns, TurnsTo, SameFiles
  <2>11. Schema!OpenIsCurrent'
    <3>1. (SameFiles /\ versions' = versions /\ TurnsTo(p, "open") /\ opening[p].at = "next" /\ opening[p].todo = <<>>) \/ (SameFiles /\ versions' = versions /\ TurnsTo(p, "failed"))
      BY <1>8, ReleaseStep
    <3>2. \A q \in Processes : q # p => opening'[q].at = opening[q].at BY <3>1 DEF TurnsTo, Turns
    <3>3. opening'[p].at = "open" => files.known[p] \ files.destructive \subseteq versions
      <4>1. SUFFICES ASSUME opening'[p].at = "open" PROVE files.known[p] \ files.destructive \subseteq versions OBVIOUS
      <4>2. opening[p].at \in Working /\ DOMAIN opening[p].todo = {} BY <3>1, <4>1, Now, <1>8 DEF TurnsTo, Turns, Working
      <4>3. \A v \in Schema!Of(p, opening[p].destructive) : v \in versions BY <4>2, Now, <1>8
      <4>4. opening[p].destructive \in BOOLEAN BY SchemaTyped, <1>8 DEF Openings
      <4>5. CASE opening[p].destructive BY <4>5, Now, <1>8
      <4>6. CASE opening[p].destructive = FALSE
        <5>1. \A v \in files.known[p] \ files.destructive : v \in Schema!Of(p, FALSE) BY DEF Schema!Of
        <5>. QED BY <4>3, <4>6, <5>1
      <4>. QED BY <4>4, <4>5, <4>6
    <3>4. files'.known = files.known /\ files'.destructive = files.destructive /\ versions' = versions BY <3>1 DEF SameFiles
    <3>5. \A q \in Processes : opening[q].at = "open" => files.known[q] \ files.destructive \subseteq versions
      BY <1>8 DEF SchemaInv, Schema!OpenIsCurrent
    <3>. QED BY <3>2, <3>3, <3>4, <3>5 DEF Schema!OpenIsCurrent
  <2>12. EffectsRecorded' /\ RecordedInEffect' /\ EffectsOnce'
    <3>1. UNCHANGED <<versions, schema>> BY <1>8, ReleaseStep
    <3>. QED BY <1>8, <3>1 DEF SchemaInv, EffectsRecorded, RecordedInEffect, EffectsOnce
  <2>. QED BY <2>1, <2>2, <2>3, <2>4, <2>5, <2>6, <2>7, <2>8, <2>9, <2>10, <2>11, <2>12 DEF SchemaInv
<1>9. ASSUME SchemaInv, NEW p \in Processes, Schema!Open(p) PROVE SchemaInv'
  <2>. USE DEF SchemaInv
  <2>1. OpeningTypes' BY <1>9, OpenStep DEF OpeningTypes, Openings, Effects, Turns, TurnsTo, SameFiles
  <2>2. HolderHasLock' BY <1>9, OpenStep DEF HolderHasLock, Holding, Turns, TurnsTo, SameFiles
  <2>3. TodoRises' BY <1>9, OpenKeeps
  <2>4. TodoIsOwn' BY <1>9, OpenKeeps
  <2>5. TodoIsRest' BY <1>9, OpenKeeps
  <2>6. TxIsNew' BY <1>9, OpenKeeps
  <2>7. OperatorIsOpen' BY <1>9, OpenKeeps
  <2>8. Schema!OpenIsCurrent'
    BY <1>9, OpenStep DEF Schema!OpenIsCurrent, TodoIsRest, OperatorIsOpen, Working, Schema!Of, Turns, TurnsTo, SameFiles
  <2>9. FileTypes' /\ DataTypes' /\ EffectsRecorded' /\ RecordedInEffect' /\ EffectsOnce' /\ Schema!EachMeetsItsSchema'
    <3>1. UNCHANGED <<files, table, versions, schema, lock>> BY <1>9, OpenStep
    <3>. QED BY <1>9, <3>1 DEF FileTypes, DataTypes, EffectsRecorded, RecordedInEffect, EffectsOnce, Schema!EachMeetsItsSchema
  <2>. QED BY <2>1, <2>2, <2>3, <2>4, <2>5, <2>6, <2>7, <2>8, <2>9
<1>10. ASSUME SchemaInv, NEW p \in Processes, Schema!ApplyDestructive(p) PROVE SchemaInv'
  <2>. USE DEF SchemaInv
  <2>1. OpeningTypes' BY <1>10, DestructiveStep DEF OpeningTypes, Openings, Effects, Turns, TurnsTo, SameFiles
  <2>2. HolderHasLock' BY ZenonT(150), <1>10, DestructiveStep DEF HolderHasLock, Holding, Turns, TurnsTo, SameFiles
  <2>3. TodoRises' BY <1>10, DestructiveKeeps
  <2>4. TodoIsOwn' BY <1>10, DestructiveKeeps
  <2>5. TodoIsRest' BY <1>10, DestructiveKeeps
  <2>6. TxIsNew' BY <1>10, DestructiveKeeps
  <2>7. OperatorIsOpen' BY <1>10, DestructiveKeeps
  <2>8. Schema!OpenIsCurrent'
    BY ZenonT(150), <1>10, DestructiveStep DEF Schema!OpenIsCurrent, TodoIsRest, OperatorIsOpen, Working, Schema!Of, Turns,
       TurnsTo, SameFiles
  <2>9. FileTypes' /\ DataTypes' /\ EffectsRecorded' /\ RecordedInEffect' /\ EffectsOnce' /\ Schema!EachMeetsItsSchema'
    <3>1. UNCHANGED <<files, table, versions, schema, lock>> BY <1>10, DestructiveStep
    <3>. QED BY <1>10, <3>1 DEF FileTypes, DataTypes, EffectsRecorded, RecordedInEffect, EffectsOnce, Schema!EachMeetsItsSchema
  <2>. QED BY <2>1, <2>2, <2>3, <2>4, <2>5, <2>6, <2>7, <2>8, <2>9
<1>11. ASSUME SchemaInv, NEW p \in Processes, Schema!ConnExpires(p) PROVE SchemaInv'
  <2>. USE DEF Schema!DatabaseUnchanged, SchemaInv, Schema!ConnExpires
  <2>1. DataTypes' BY <1>11 DEF Schema!Nobody, DataTypes, Effects
  <2>2. HolderHasLock' BY <1>11 DEF Schema!Nobody, HolderHasLock, Holding
  <2>3. FileTypes' /\ OpeningTypes' /\ TodoRises' /\ TodoIsOwn' /\ TodoIsRest' /\ TxIsNew' /\ OperatorIsOpen' /\
        EffectsRecorded' /\ RecordedInEffect' /\ EffectsOnce' /\ Schema!EachMeetsItsSchema' /\ Schema!OpenIsCurrent'
    <3>1. UNCHANGED <<files, versions, schema, opening>> BY <1>11
    <3>. QED BY <1>11, <3>1 DEF FileTypes, OpeningTypes, TodoRises, TodoIsOwn, Schema!Of, TodoIsRest, TxIsNew, OperatorIsOpen,
         EffectsRecorded, RecordedInEffect, EffectsOnce, Schema!EachMeetsItsSchema, Schema!OpenIsCurrent
  <2>. QED BY <2>1, <2>2, <2>3
<1>12. ASSUME SchemaInv, NEW p \in Processes, Schema!Rollback(p) PROVE SchemaInv'
  <2>. USE DEF Turns, TurnsTo, SchemaInv, SameFiles
  <2>1. FileTypes' BY <1>12, RollbackStep, FilesStay DEF FileTypes
  <2>2. DataTypes' BY <1>12, RollbackStep, CommitsKeep DEF DataTypes, Effects
  <2>3. OpeningTypes' BY <1>12, RollbackStep DEF OpeningTypes, Openings, Effects
  <2>4. HolderHasLock' BY <1>12, RollbackStep DEF HolderHasLock, Holding
  <2>5. TodoRises' BY <1>12, RollbackKeeps
  <2>6. TodoIsOwn' BY <1>12, RollbackKeeps
  <2>7. TodoIsRest' BY <1>12, RollbackKeeps
  <2>8. TxIsNew' BY <1>12, RollbackKeeps
  <2>9. OperatorIsOpen' BY <1>12, RollbackKeeps
  <2>10. EffectsRecorded' BY <1>12, RollbackStep, CommitsKeep DEF EffectsRecorded
  <2>11. RecordedInEffect' BY <1>12, RollbackStep, CommitsKeep DEF RecordedInEffect
  <2>12. EffectsOnce' BY <1>12, RollbackStep, CommitsKeep DEF EffectsOnce
  <2>13. Schema!EachMeetsItsSchema' BY <1>12, RollbackStep, CommitsKeep DEF Schema!EachMeetsItsSchema
  <2>14. Schema!OpenIsCurrent'
    BY <1>12, RollbackStep, CommitsKeep DEF Schema!OpenIsCurrent, TodoIsRest, OperatorIsOpen, Working, Schema!Of
  <2>. QED BY <2>1, <2>2, <2>3, <2>4, <2>5, <2>6, <2>7, <2>8, <2>9, <2>10, <2>11, <2>12, <2>13, <2>14
<1>13. ASSUME SchemaInv, NEW p \in Processes, Schema!TimeOut(p) PROVE SchemaInv'
  <2>. USE DEF SchemaInv
  <2>1. FileTypes' BY <1>13, TimeOutStep, FilesStay DEF FileTypes, Turns, TurnsTo, SameFiles
  <2>2. OpeningTypes' BY <1>13, TimeOutStep DEF OpeningTypes, Openings, Effects, Turns, TurnsTo, SameFiles
  <2>3. HolderHasLock' BY <1>13, TimeOutStep DEF HolderHasLock, Holding, Turns, TurnsTo, SameFiles
  <2>4. TodoRises' BY <1>13, TimeOutKeeps
  <2>5. TodoIsOwn' BY <1>13, TimeOutKeeps
  <2>6. TodoIsRest' BY <1>13, TimeOutKeeps
  <2>7. TxIsNew' BY <1>13, TimeOutKeeps
  <2>8. OperatorIsOpen' BY <1>13, TimeOutKeeps
  <2>9. Schema!EachMeetsItsSchema' BY <1>13, TimeOutStep DEF Schema!EachMeetsItsSchema, Turns, TurnsTo, SameFiles
  <2>10. Schema!OpenIsCurrent'
    BY <1>13, TimeOutStep DEF Schema!OpenIsCurrent, TodoIsRest, OperatorIsOpen, Working, Schema!Of, Turns, TurnsTo, SameFiles
  <2>11. DataTypes' /\ EffectsRecorded' /\ RecordedInEffect' /\ EffectsOnce'
    <3>1. UNCHANGED <<table, versions, schema, lock>> BY <1>13, TimeOutStep
    <3>. QED BY <1>13, <3>1 DEF DataTypes, EffectsRecorded, RecordedInEffect, EffectsOnce
  <2>. QED BY <2>1, <2>2, <2>3, <2>4, <2>5, <2>6, <2>7, <2>8, <2>9, <2>10, <2>11
<1>14. ASSUME SchemaInv, NEW p \in Processes, Schema!Kill(p) PROVE SchemaInv'
  <2>. USE DEF Turns, TurnsTo, SchemaInv, SameFiles
  <2>1. FileTypes' BY <1>14, KillStep, FilesStay DEF FileTypes
  <2>2. DataTypes' BY <1>14, KillStep, CommitsKeep DEF DataTypes, Effects
  <2>3. OpeningTypes' BY <1>14, KillStep DEF OpeningTypes, Openings, Effects
  <2>4. HolderHasLock' BY <1>14, KillStep DEF HolderHasLock, Holding
  <2>5. TodoRises' BY <1>14, KillKeeps
  <2>6. TodoIsOwn' BY <1>14, KillKeeps
  <2>7. TodoIsRest' BY <1>14, KillKeeps
  <2>8. TxIsNew' BY <1>14, KillKeeps
  <2>9. OperatorIsOpen' BY <1>14, KillKeeps
  <2>10. EffectsRecorded' BY <1>14, KillStep, CommitsKeep DEF EffectsRecorded
  <2>11. RecordedInEffect' BY <1>14, KillStep, CommitsKeep DEF RecordedInEffect
  <2>12. EffectsOnce' BY <1>14, KillStep, CommitsKeep DEF EffectsOnce
  <2>13. Schema!EachMeetsItsSchema' BY <1>14, KillStep, CommitsKeep DEF Schema!EachMeetsItsSchema
  <2>14. Schema!OpenIsCurrent'
    BY <1>14, KillStep, CommitsKeep DEF Schema!OpenIsCurrent, TodoIsRest, OperatorIsOpen, Working, Schema!Of
  <2>. QED BY <2>1, <2>2, <2>3, <2>4, <2>5, <2>6, <2>7, <2>8, <2>9, <2>10, <2>11, <2>12, <2>13, <2>14
<1>15. ASSUME UNCHANGED schemaVars PROVE SchemaInv'
BY <1>15 DEF schemaVars, SchemaInv, FileTypes, DataTypes, OpeningTypes, HolderHasLock, TodoRises, TodoIsOwn, Schema!Of, TodoIsRest, TxIsNew, OperatorIsOpen, EffectsRecorded, RecordedInEffect, EffectsOnce, Schema!EachMeetsItsSchema, Schema!OpenIsCurrent
<1>. QED BY <1>1, <1>2, <1>3, <1>4, <1>5, <1>6, <1>7, <1>8, <1>9, <1>10, <1>11, <1>12, <1>13, <1>14, <1>15 DEF Schema!Next,
     Schema!Goes
LEMMA SchemaInit == SchemaAssumption /\ Schema!Init => SchemaInv
<1>. USE DEF Schema!Init
<1>. SUFFICES ASSUME SchemaAssumption, Schema!Init PROVE SchemaInv OBVIOUS
<1>1. FileTypes BY DEF FileTypes, SchemaAssumption
<1>2. <<>> \in Seq(Effects) /\ <<>> \in Seq(Nat) /\ Len(<<>>) = 0 /\ DOMAIN <<>> = {} OBVIOUS
<1>3. DataTypes BY <1>2 DEF Schema!Nobody, DataTypes
<1>4. Schema!NoProcess \in Openings /\ Schema!NoProcess.at = "none" /\ Schema!NoProcess.todo = <<>> /\ Schema!NoProcess.tx = <<>> /\ Schema!NoProcess.destructive = FALSE
BY <1>2 DEF Schema!NoProcess, Openings
<1>5. \A p \in Processes : opening[p] = Schema!NoProcess OBVIOUS
<1>6. OpeningTypes BY <1>4 DEF OpeningTypes
<1>7. HolderHasLock /\ TodoRises /\ TodoIsOwn /\ TodoIsRest /\ OperatorIsOpen
BY <1>2, <1>4, <1>5 DEF HolderHasLock, Holding, TodoRises, TodoIsOwn, TodoIsRest, Working, OperatorIsOpen
<1>8. TxIsNew BY <1>2, <1>4, <1>5 DEF TxIsNew
<1>9. versions = {} /\ schema = <<>> OBVIOUS
<1>10. EffectsRecorded /\ RecordedInEffect /\ EffectsOnce BY <1>2, <1>9 DEF EffectsRecorded, RecordedInEffect, EffectsOnce
<1>11. Schema!EachMeetsItsSchema BY <1>9 DEF Schema!EachMeetsItsSchema
<1>12. Schema!OpenIsCurrent BY <1>4, <1>5 DEF Schema!OpenIsCurrent
<1>. QED BY <1>1, <1>3, <1>6, <1>7, <1>8, <1>10, <1>11, <1>12 DEF SchemaInv
\* What is recorded has each of its statements in effect once, and what is not recorded none.
LEMMA OnceEach == SchemaInv => Schema!WholeAndOnce
<1>1. SUFFICES ASSUME SchemaInv, NEW v, NEW k \in {1, 2}
               PROVE  Cardinality({i \in DOMAIN schema : schema[i] = <<v, Schema!Statements[k]>>}) = (IF v \in versions THEN 1 ELSE 0)
  <2>1. DOMAIN Schema!Statements = {1, 2} BY DEF Schema!Statements
  <2>. QED BY <2>1, SchemaCardinality DEF Schema!WholeAndOnce
<1>. DEFINE s == Schema!Statements[k]
            I == {i \in DOMAIN schema : schema[i] = <<v, s>>}
<1>2. s \in {"first", "second"} BY DEF Schema!Statements
<1>. HIDE DEF s
<1>3. CASE v \in versions
  <2>1. PICK i \in DOMAIN schema : schema[i] = <<v, s>> BY <1>1, <1>2, <1>3 DEF SchemaInv, RecordedInEffect
  <2>2. \A j \in DOMAIN schema : schema[j] = <<v, s>> => j = i BY <1>1, <2>1 DEF SchemaInv, EffectsOnce
  <2>3. I = {i} BY <2>1, <2>2
  <2>. HIDE DEF I
  <2>4. Cardinality(I) = 1 BY <2>3, FS_Singleton
  <2>. QED BY <1>3, <2>4 DEF I, s
<1>4. CASE v \notin versions
  <2>1. ASSUME NEW i \in DOMAIN schema, schema[i] = <<v, s>> PROVE FALSE
    <3>1. schema[i][1] \in versions BY <1>1 DEF SchemaInv, EffectsRecorded
    <3>2. <<v, s>>[1] = v OBVIOUS
    <3>. QED BY <1>4, <2>1, <3>1, <3>2
  <2>2. I = {} BY <2>1
  <2>. HIDE DEF I
  <2>3. Cardinality(I) = 0 BY <2>2, FS_EmptySet
  <2>. QED BY <1>4, <2>3 DEF I, s
<1>. QED BY <1>3, <1>4
LEMMA OneHolder == SchemaInv => Schema!OneMigrates
<1>1. SUFFICES ASSUME SchemaInv PROVE Cardinality({p \in Processes : opening[p].at \in {"next", "tx", "undo"}}) <= 1
BY SchemaCardinality DEF Schema!OneMigrates
<1>. DEFINE Holders == {p \in Processes : opening[p].at \in {"next", "tx", "undo"}}
<1>2. Holders = {} \/ Holders = {lock} BY <1>1 DEF SchemaInv, HolderHasLock, Holding
<1>. HIDE DEF Holders
<1>3. Cardinality(Holders) = 0 \/ Cardinality(Holders) = 1 BY <1>2, FS_EmptySet, FS_Singleton
<1>4. Cardinality(Holders) <= 1 BY <1>3
<1>. QED BY <1>4 DEF Holders

\* The part of MCServices that moves is Migrations or leaves it alone.
LEMMA SchemaMoves == [Next]_vars => [Schema!Next]_schemaVars
BY DEF Next, vars

\* Whichever processes start together, time out, fail or are killed: a version is recorded exactly when every statement of it is in
\* effect, once; the versions are applied in order, the destructive ones after all the routine ones; and an open store has the
\* schema its process expects (applyMigrationsOnConn, applyOneMigration, runMigrateDestructive).
THEOREM SchemaHolds == Spec => []SchemaIsSound
<1>1. Init => SchemaInv BY SchemaInit, SchemaAssumption DEF Init
<1>2. SchemaInv /\ [Next]_vars => SchemaInv' BY SchemaMoves, SchemaStep
<1>3. SchemaInv => SchemaIsSound
  <2>1. SUFFICES ASSUME SchemaInv PROVE SchemaIsSound OBVIOUS
  <2>2. ASSUME NEW p \in Processes
        PROVE opening[p].at \in {"none", "bootstrap", "creating", "lock", "next", "tx", "undo", "open", "failed", "killed"} /\ Len(opening[p].tx) <= 2
    <3>1. opening[p] \in Openings BY <2>1, SchemaTyped
    <3>. QED BY <2>1, <3>1, Now DEF Openings
  <2>3. Len(Schema!Statements) = 2 BY DEF Schema!Statements
  <2>4. Schema!TypeOK BY <2>1, <2>2, <2>3 DEF SchemaInv, DataTypes, Schema!TypeOK, Schema!Nobody, Schema!Ghost
  <2>. QED BY <2>1, <2>4, OnceEach, OneHolder DEF SchemaInv, SchemaIsSound, Schema!SchemaIsSound
<1>. QED BY <1>1, <1>2, <1>3, PTL DEF Spec

(***************************************************************************)
(* Configuration: the file and the saves of the settings view              *)
(***************************************************************************)
Documents == [Config!Keys -> -1 .. 2]
Contents == [doc : Documents, save : Nat]
Asked == [Config!Owned -> {-2, 0, 1, 2}]
Steps == {"none", "form", "refused", "admitted", "rendered", "temp", "synced", "renamed", "saved", "failed", "cut"}
SavePosts == [at : Steps, data : Documents, asked : Documents \cup Asked, doc : Documents, save : Nat]
SavedPosts == {p \in Posts : post[p].save > 0}
\* The types of the variables; no process refuses to start.
ScopeTypes ==
  /\ DOMAIN config = {"first", "edits", "byHand", "hands", "kills", "losses", "faults"}
  /\ config.edits \subseteq Config!Owned \X (0 .. 2) /\ config.byHand \subseteq Config!Keys \X (-1 .. 2)
DiskTypes == disk \in durable /\ durable \subseteq Contents /\ acked \in Nat
ProcessTypes == process \in [is : {"up", "stopping", "down"}, loaded : Contents]
PostTypes == post \in [Posts -> SavePosts]
AskedTypes == \A p \in Posts : post[p].at # "none" => post[p].asked \in Asked
\* What a power loss can bring back a start accepts, and it is no older than what was answered.
ContentsLoad == \A content \in durable : Config!Valid(content.doc)
AckedIsKept ==
  /\ \A content \in durable : content.save >= acked
  /\ \A p \in Posts : post[p].at = "renamed" => post[p].save <= disk.save
\* The saves are numbered by the posts that renamed.
SavesAreCounted == \A content \in durable : content.save <= Cardinality(SavedPosts)
SavedHasRenamed == \A p \in Posts : post[p].save > 0 => post[p].at \in {"renamed", "saved", "failed", "cut"}
\* What is written is what was asked, merged into what was read, and a start accepts it.
AdmittedIs == \A p \in Posts : post[p].at = "admitted" => Config!Admits(post[p].asked)
WrittenIsApplied ==
  \A p \in Posts : post[p].at \in {"rendered", "temp", "synced"} \/ post[p].save > 0 =>
    /\ post[p].doc = Config!Applied(post[p].data, post[p].asked)
    /\ Config!Valid(post[p].doc) /\ Config!Admits(post[p].asked)
\* A temporary file is there and flushed before it is renamed.
SyncedIsFlushed == \A p \in Posts : /\ post[p].at \in {"temp", "synced"} => p \in temps
                                    /\ post[p].at = "synced" => p \in flushed
TempsAreOwn == temps \subseteq Posts /\ flushed \subseteq temps
FileInv ==
  /\ ScopeTypes /\ DiskTypes /\ ProcessTypes /\ PostTypes /\ AskedTypes
  /\ ContentsLoad /\ AckedIsKept /\ SavesAreCounted /\ SavedHasRenamed
  /\ AdmittedIs /\ WrittenIsApplied
  /\ SyncedIsFlushed /\ TempsAreOwn /\ Config!TempsAreTidied
\* The values a start gives the keys, and the ones a save writes.
LEMMA EffectiveIs ==
  ASSUME NEW doc \in Documents
  PROVE  /\ Config!Effective(doc) \in [Config!Keys -> 0 .. 2]
         /\ Config!Effective(doc)["max_active"] = Config!Or(doc["max_active"], 1)
         /\ Config!Effective(doc)["reliability"] = IF doc["reliability"] = -1 THEN 1 ELSE doc["reliability"]
         /\ \A k \in {"backend", "control_url", "folders", "api_key"} : Config!Effective(doc)[k] = Config!Or(doc[k], 0)
<1>. USE DEF Config!Keys
<1>. DEFINE c == Config!Effective(doc)
<1>1. c = [k \in Config!Keys |-> c[k]] /\ DOMAIN c = Config!Keys BY DEF Config!Effective
<1>2. c["max_active"] = Config!Or(doc["max_active"], 1) BY DEF Config!Effective, Config!Owned
<1>3. c["reliability"] = IF doc["reliability"] = -1 THEN 1 ELSE doc["reliability"]
BY DEF Config!Effective, Config!Owned, Config!Absent
<1>4. \A k \in {"backend", "control_url", "folders", "api_key"} : c[k] = Config!Or(doc[k], 0)
BY DEF Config!Effective, Config!Owned
<1>5. c["poll_interval"] \in {Config!Or(doc["poll_interval"], 1), Config!Or(doc["poll_interval"], 0)}
BY DEF Config!Effective, Config!Foreign
<1>6. \A v \in -1 .. 2 : Config!Or(v, 0) \in 0 .. 2 /\ Config!Or(v, 1) \in 0 .. 2 BY DEF Config!Or, Config!Absent
<1>7. \A k \in Config!Keys : doc[k] \in -1 .. 2 BY DEF Documents
<1>8. \A k \in {"backend", "control_url", "folders", "api_key", "max_active", "reliability", "poll_interval"} : k \in Config!Keys
BY DEF Config!Owned, Config!Foreign
<1>. HIDE DEF c
<1>9. c["max_active"] \in 0 .. 2 /\ c["poll_interval"] \in 0 .. 2 BY <1>2, <1>5, <1>6, <1>7, <1>8
<1>10. c["reliability"] \in 0 .. 2 BY <1>3, <1>7, <1>8
<1>11. \A k \in {"backend", "control_url", "folders", "api_key"} : c[k] \in 0 .. 2 BY <1>4, <1>6, <1>7, <1>8
<1>12. \A k \in Config!Keys : c[k] \in 0 .. 2 BY <1>9, <1>10, <1>11 DEF Config!Owned, Config!Foreign
<1>13. c \in [Config!Keys -> 0 .. 2] BY <1>1, <1>12
<1>. QED BY <1>2, <1>3, <1>4, <1>13 DEF c
LEMMA FormTyped ==
  ASSUME process.loaded.doc \in Documents
  PROVE  Config!Form \in Asked
<1>1. Config!Effective(process.loaded.doc) \in [Config!Keys -> 0 .. 2] BY EffectiveIs
<1>2. \A k \in Config!Owned : Config!Effective(process.loaded.doc)[k] \in 0 .. 2 BY <1>1 DEF Config!Keys
<1>3. \A k \in Config!Owned : Config!Form[k] \in {-2, 0, 1, 2} BY <1>2 DEF Config!Form, Config!Keep
<1>4. Config!Form = [k \in Config!Owned |-> Config!Form[k]] BY DEF Config!Form
<1>. QED BY <1>3, <1>4 DEF Asked
LEMMA AppliedIs ==
  ASSUME NEW data, NEW asked
  PROVE  /\ \A k \in Config!Owned : k # "folders" => Config!Applied(data, asked)[k] = Config!AppliedField(data, asked, k)
         /\ Config!Applied(data, asked)["folders"] = Config!AppliedFolders(data, asked)
         /\ \A k \in Config!Foreign : Config!Applied(data, asked)[k] = data[k]
BY DEF Config!Applied, Config!Owned, Config!Foreign, Config!Keys
LEMMA AppliedTyped ==
  ASSUME NEW data \in Documents, NEW asked \in Asked, Config!Admits(asked)
  PROVE  Config!Applied(data, asked) \in Documents
<1>. DEFINE new == Config!Applied(data, asked)
<1>1. \A k \in Config!Keys : data[k] \in -1 .. 2 BY DEF Documents
<1>2. \A k \in Config!Owned : asked[k] \in {-2, 0, 1, 2} BY DEF Asked
<1>3. \A k \in Config!Owned : k \in Config!Keys BY DEF Config!Keys
<1>4. \A k \in Config!Owned : Config!AppliedField(data, asked, k) \in -1 .. 2
BY <1>1, <1>2, <1>3 DEF Config!AppliedField, Config!Keep, Config!Absent
<1>5. "folders" \in Config!Owned BY DEF Config!Owned
<1>6. asked["folders"] \in {0, 1, 2} BY <1>2, <1>5 DEF Config!Admits, Config!SoulseekAdmits
<1>7. Config!AppliedFolders(data, asked) \in -1 .. 2
BY <1>1, <1>3, <1>5, <1>6 DEF Config!AppliedFolders, Config!Or, Config!Absent
<1>8. \A k \in Config!Foreign : data[k] \in -1 .. 2 BY <1>1 DEF Config!Keys
<1>9. new = [k \in Config!Keys |-> new[k]] BY DEF Config!Applied
<1>. HIDE DEF new
<1>10. \A k \in Config!Owned : new[k] \in -1 .. 2 BY <1>4, <1>7, AppliedIs DEF new
<1>11. \A k \in Config!Foreign : new[k] \in -1 .. 2 BY <1>8, AppliedIs DEF new
<1>12. \A k \in Config!Keys : new[k] \in -1 .. 2 BY <1>10, <1>11 DEF Config!Keys
<1>13. new \in Documents BY <1>9, <1>12 DEF Documents
<1>. QED BY <1>13 DEF new
\* A written file says what the form said once it is loaded.
LEMMA AppliedSays ==
  ASSUME NEW was \in Documents, NEW asked \in Asked, Config!Admits(asked), NEW k \in Config!Owned
  PROVE  IF asked[k] = Config!Keep THEN Config!Applied(was, asked)[k] = was[k]
         ELSE \/ Config!Effective(Config!Applied(was, asked))[k] = asked[k]
              \/ k = "reliability" /\ was[k] = Config!Absent /\ asked[k] = 0
<1>. DEFINE new == Config!Applied(was, asked)  c == Config!Effective(new)
<1>1. new \in Documents BY AppliedTyped
<1>2. asked[k] \in {-2, 0, 1, 2} BY DEF Asked
<1>3. was[k] \in -1 .. 2 BY DEF Documents, Config!Keys
<1>4. k # "folders" => new[k] = Config!AppliedField(was, asked, k) BY AppliedIs
<1>5. k = "folders" => new[k] = Config!AppliedFolders(was, asked) BY AppliedIs
<1>6. k = "max_active" => c[k] = Config!Or(new[k], 1) BY <1>1, EffectiveIs
<1>7. k = "reliability" => c[k] = IF new[k] = -1 THEN 1 ELSE new[k] BY <1>1, EffectiveIs
<1>8. k \in {"backend", "control_url", "folders", "api_key"} => c[k] = Config!Or(new[k], 0) BY <1>1, EffectiveIs
<1>. HIDE DEF new, c
<1>9. CASE k = "folders"
  <2>1. asked[k] \in {0, 1, 2} BY <1>2, <1>9 DEF Config!Admits, Config!SoulseekAdmits
  <2>2. c[k] = asked[k] BY <2>1, <1>3, <1>5, <1>8, <1>9 DEF Config!AppliedFolders, Config!Or, Config!Absent
  <2>. QED BY <2>1, <2>2 DEF new, c, Config!Keep
<1>10. CASE k # "folders"
  <2>. USE DEF Config!Keep
  <2>1. new[k] = Config!AppliedField(was, asked, k) BY <1>4, <1>10
  <2>2. CASE asked[k] = -2 BY <2>1, <2>2 DEF Config!AppliedField, new
  <2>3. CASE asked[k] \in {0, 1, 2}
    <3>. USE DEF Config!Absent
    <3>1. new[k] = IF was[k] = -1 /\ asked[k] = 0 THEN -1 ELSE asked[k] BY <2>1, <2>3 DEF Config!AppliedField
    <3>2. CASE k = "max_active"
      <4>1. asked[k] \in {1, 2} BY <3>2, <2>3 DEF Config!Admits, Config!PipelineAdmits
      <4>2. c[k] = asked[k] BY <4>1, <3>1, <3>2, <1>6 DEF Config!Or
      <4>. QED BY <4>1, <4>2 DEF new, c
    <3>3. CASE k = "reliability"
      <4>1. c[k] = asked[k] \/ (was[k] = -1 /\ asked[k] = 0) BY <2>3, <3>1, <3>3, <1>7, <1>3
      <4>. QED BY <4>1, <3>3, <2>3 DEF new, c
    <3>4. CASE k \in {"backend", "control_url", "api_key"}
      <4>1. c[k] = asked[k] BY <2>3, <3>1, <3>4, <1>8, <1>3 DEF Config!Or
      <4>. QED BY <4>1, <2>3 DEF new, c
    <3>. QED BY <3>2, <3>3, <3>4, <1>10 DEF Config!Owned
  <2>. QED BY <2>2, <2>3, <1>2
<1>. QED BY <1>9, <1>10
\* What each step of a save does to its post, the others as they were.
OthersStay(p) == PostTypes' /\ \A q \in Posts : q # p => post'[q] = post[q]
TurnsInto(p, to) ==
  /\ OthersStay(p) /\ post'[p].at = to /\ post'[p].save = post[p].save
  /\ post'[p].data = post[p].data /\ post'[p].asked = post[p].asked /\ post'[p].doc = post[p].doc
LEMMA PostTyped ==
  ASSUME FileInv, NEW p \in Posts
  PROVE  /\ post[p] \in SavePosts /\ post[p].at \in Steps /\ post[p].data \in Documents /\ post[p].doc \in Documents /\ post[p].save \in Nat
         /\ disk \in Contents /\ disk.doc \in Documents /\ disk.save \in Nat
BY DEF FileInv, PostTypes, SavePosts, DiskTypes, Contents
LEMMA Move ==
  ASSUME FileInv, NEW p \in Posts, NEW to \in Steps, post' = [post EXCEPT ![p].at = to]
  PROVE  TurnsInto(p, to)
<1>1. post \in [Posts -> SavePosts] /\ post[p] \in SavePosts BY PostTyped DEF FileInv, PostTypes
<1>2. [post[p] EXCEPT !.at = to] \in SavePosts BY <1>1 DEF SavePosts
<1>3. post' = [post EXCEPT ![p] = [post[p] EXCEPT !.at = to]] OBVIOUS
<1>4. PostTypes' BY <1>1, <1>2, <1>3 DEF PostTypes
<1>5. post'[p] = [post[p] EXCEPT !.at = to] /\ \A q \in Posts : q # p => post'[q] = post[q] BY <1>1, <1>3
<1>. QED BY <1>1, <1>4, <1>5 DEF TurnsInto, OthersStay, SavePosts
LEMMA OpenFormStep ==
  ASSUME FileInv, NEW p \in Posts, Config!OpenForm(p)
  PROVE  /\ OthersStay(p) /\ post[p].at = "none" /\ post'[p].at = "form" /\ post'[p].asked \in Asked /\ post'[p].save = post[p].save
         /\ UNCHANGED <<config, disk, durable, temps, flushed, process, acked>>
<1>1. post \in [Posts -> SavePosts] /\ post[p] \in SavePosts BY PostTyped DEF FileInv, PostTypes
<1>2. Config!Form \in Asked BY FormTyped DEF FileInv, ProcessTypes, Contents
<1>. DEFINE new == [post[p] EXCEPT !.at = "form", !.asked = Config!Form]
<1>3. post' = [post EXCEPT ![p] = new] /\ post[p].at = "none" BY DEF Config!OpenForm
<1>4. new \in SavePosts BY <1>1, <1>2 DEF SavePosts, Steps
<1>5. new.at = "form" /\ new.asked = Config!Form /\ new.save = post[p].save BY <1>1 DEF SavePosts
<1>. HIDE DEF new
<1>6. OthersStay(p) /\ post'[p] = new BY <1>1, <1>3, <1>4 DEF OthersStay, PostTypes
<1>7. UNCHANGED <<config, disk, durable, temps, flushed, process, acked>>
BY DEF Config!OpenForm, Config!FileUnchanged, Config!TempsUnchanged, Config!ProcessUnchanged
<1>. QED BY <1>2, <1>3, <1>5, <1>6, <1>7
LEMMA SubmitStep ==
  ASSUME FileInv, NEW p \in Posts, Config!Submit(p)
  PROVE  /\ OthersStay(p) /\ post[p].at = "form" /\ post'[p].at \in {"admitted", "refused"} /\ post'[p].asked \in Asked
         /\ post'[p].at = "admitted" => Config!Admits(post'[p].asked)
         /\ post'[p].save = post[p].save
         /\ UNCHANGED <<config, disk, durable, temps, flushed, process, acked>>
<1>1. post \in [Posts -> SavePosts] /\ post[p] \in SavePosts BY PostTyped DEF FileInv, PostTypes
<1>2. post[p].at = "form" BY DEF Config!Submit
<1>3. post[p].asked \in Asked BY <1>2 DEF FileInv, AskedTypes
<1>4. PICK edit \in config.edits :
        LET value == IF edit[1] = "api_key" THEN Config!SecretOrKeep(edit[2]) ELSE edit[2]
            asked == Config!Update(p, edit[1], value)
        IN post' = [post EXCEPT ![p].at = IF Config!Admits(asked) THEN "admitted" ELSE "refused", ![p].asked = asked]
BY DEF Config!Submit
<1>. DEFINE value == IF edit[1] = "api_key" THEN Config!SecretOrKeep(edit[2]) ELSE edit[2]
            asked == Config!Update(p, edit[1], value)
            to == IF Config!Admits(asked) THEN "admitted" ELSE "refused"
            new == [post[p] EXCEPT !.at = to, !.asked = asked]
<1>5. edit[1] \in Config!Owned /\ edit[2] \in 0 .. 2 BY <1>4 DEF FileInv, ScopeTypes
<1>6. value \in {-2, 0, 1, 2} BY <1>5 DEF Config!SecretOrKeep, Config!Keep
<1>7. asked = [post[p].asked EXCEPT ![edit[1]] = value] BY DEF Config!Update
<1>8. post' = [post EXCEPT ![p] = new] BY <1>4
<1>. HIDE DEF value
<1>9. asked \in Asked BY <1>3, <1>5, <1>6, <1>7 DEF Asked
<1>. HIDE DEF asked
<1>10. to \in {"admitted", "refused"} /\ (to = "admitted" => Config!Admits(asked)) OBVIOUS
<1>. HIDE DEF to
<1>11. new \in SavePosts BY <1>1, <1>9, <1>10 DEF SavePosts, Steps
<1>12. new.at = to /\ new.asked = asked /\ new.save = post[p].save BY <1>1 DEF SavePosts
<1>. HIDE DEF new
<1>13. OthersStay(p) /\ post'[p] = new BY <1>1, <1>8, <1>11 DEF OthersStay, PostTypes
<1>14. UNCHANGED <<config, disk, durable, temps, flushed, process, acked>>
BY DEF Config!Submit, Config!FileUnchanged, Config!TempsUnchanged, Config!ProcessUnchanged
<1>. QED BY <1>2, <1>9, <1>10, <1>12, <1>13, <1>14
LEMMA ReadStep ==
  ASSUME FileInv, NEW p \in Posts, Config!Read(p)
  PROVE  /\ OthersStay(p) /\ post[p].at = "admitted" /\ post'[p].at \in {"rendered", "refused"} /\ post'[p].asked = post[p].asked
         /\ post'[p].doc = Config!Applied(post'[p].data, post'[p].asked) /\ Config!Admits(post'[p].asked)
         /\ post'[p].at = "rendered" => Config!Valid(post'[p].doc)
         /\ post'[p].save = post[p].save
         /\ UNCHANGED <<config, disk, durable, temps, flushed, process, acked>>
<1>. DEFINE doc == Config!Applied(disk.doc, post[p].asked)
            to == IF Config!Valid(doc) THEN "rendered" ELSE "refused"
            new == [post[p] EXCEPT !.at = to, !.data = disk.doc, !.doc = doc]
<1>1. post \in [Posts -> SavePosts] /\ post[p] \in SavePosts /\ disk.doc \in Documents BY PostTyped DEF FileInv, PostTypes
<1>2. post[p].at = "admitted" /\ post' = [post EXCEPT ![p] = new] BY DEF Config!Read
<1>3. post[p].asked \in Asked /\ Config!Admits(post[p].asked) BY <1>2 DEF FileInv, AskedTypes, AdmittedIs
<1>4. doc \in Documents BY <1>1, <1>3, AppliedTyped
<1>5. to \in {"rendered", "refused"} /\ (to = "rendered" => Config!Valid(doc)) OBVIOUS
<1>6. doc = Config!Applied(disk.doc, post[p].asked) OBVIOUS
<1>. HIDE DEF doc, to
<1>7. new \in SavePosts BY <1>1, <1>4, <1>5 DEF SavePosts, Steps
<1>8. new.at = to /\ new.asked = post[p].asked /\ new.data = disk.doc /\ new.doc = doc /\ new.save = post[p].save
BY <1>1 DEF SavePosts
<1>. HIDE DEF new
<1>9. OthersStay(p) /\ post'[p] = new BY <1>1, <1>2, <1>7 DEF OthersStay, PostTypes
<1>10. UNCHANGED <<config, disk, durable, temps, flushed, process, acked>>
BY DEF Config!Read, Config!FileUnchanged, Config!TempsUnchanged, Config!ProcessUnchanged
<1>. QED BY <1>2, <1>3, <1>5, <1>6, <1>8, <1>9, <1>10
LEMMA CreateTempStep ==
  ASSUME FileInv, NEW p \in Posts, Config!CreateTemp(p)
  PROVE  /\ TurnsInto(p, "temp") /\ post[p].at = "rendered" /\ temps' = temps \cup {p}
         /\ UNCHANGED <<config, disk, durable, flushed, process, acked>>
<1>1. post[p].at = "rendered" /\ post' = [post EXCEPT ![p].at = "temp"] /\ temps' = temps \cup {p}
BY DEF Config!CreateTemp, Config!Moves
<1>2. TurnsInto(p, "temp") BY <1>1, Move DEF Steps
<1>3. UNCHANGED <<config, disk, durable, flushed, process, acked>>
BY DEF Config!CreateTemp, Config!FileUnchanged, Config!ProcessUnchanged
<1>. QED BY <1>1, <1>2, <1>3
LEMMA SyncTempStep ==
  ASSUME FileInv, NEW p \in Posts, Config!SyncTemp(p)
  PROVE  /\ TurnsInto(p, "synced") /\ post[p].at = "temp" /\ flushed' = flushed \cup {p}
         /\ UNCHANGED <<config, disk, durable, temps, process, acked>>
<1>1. post[p].at = "temp" /\ post' = [post EXCEPT ![p].at = "synced"] /\ flushed' = flushed \cup {p}
BY DEF Config!SyncTemp, Config!Moves
<1>2. TurnsInto(p, "synced") BY <1>1, Move DEF Steps
<1>3. UNCHANGED <<config, disk, durable, temps, process, acked>>
BY DEF Config!SyncTemp, Config!FileUnchanged, Config!ProcessUnchanged
<1>. QED BY <1>1, <1>2, <1>3
LEMMA RenameStep ==
  ASSUME FileInv, NEW p \in Posts, Config!Rename(p)
  PROVE  /\ OthersStay(p) /\ post[p].at = "synced" /\ post'[p].at = "renamed" /\ post'[p].save = disk.save + 1
         /\ post'[p].data = post[p].data /\ post'[p].asked = post[p].asked /\ post'[p].doc = post[p].doc
         /\ disk' \in Contents /\ disk'.doc = post[p].doc /\ disk'.save = disk.save + 1 /\ durable' = durable \cup {disk'}
         /\ temps' = temps \ {p} /\ flushed' = flushed \ {p}
         /\ UNCHANGED <<config, process, acked>>
<1>. DEFINE save == disk.save + 1  new == [post[p] EXCEPT !.at = "renamed", !.save = save]
<1>1. post \in [Posts -> SavePosts] /\ post[p] \in SavePosts /\ disk.save \in Nat /\ post[p].doc \in Documents
BY PostTyped DEF FileInv, PostTypes
<1>2. post[p].at = "synced" /\ disk' = Config!Content(post[p].doc, save) /\ temps' = temps \ {p} /\ flushed' = flushed \ {p}
BY DEF Config!Rename
<1>3. post' = [post EXCEPT ![p] = new] BY DEF Config!Rename, Config!Content
<1>4. p \in flushed BY <1>2 DEF FileInv, SyncedIsFlushed
<1>5. durable' = durable \cup {disk'} BY <1>4 DEF Config!Rename
<1>6. save \in Nat BY <1>1
<1>. HIDE DEF save
<1>7. disk' \in Contents /\ disk'.doc = post[p].doc /\ disk'.save = save BY <1>1, <1>2, <1>6 DEF Contents, Config!Content
<1>8. new \in SavePosts BY <1>1, <1>6 DEF SavePosts, Steps
<1>9. new.at = "renamed" /\ new.save = save /\ new.asked = post[p].asked /\ new.data = post[p].data /\ new.doc = post[p].doc
BY <1>1 DEF SavePosts
<1>. HIDE DEF new
<1>10. OthersStay(p) /\ post'[p] = new BY <1>1, <1>3, <1>8 DEF OthersStay, PostTypes
<1>11. UNCHANGED <<config, process, acked>> BY DEF Config!Rename, Config!ProcessUnchanged
<1>. QED BY <1>2, <1>5, <1>7, <1>9, <1>10, <1>11 DEF save
LEMMA SyncAndAnswerStep ==
  ASSUME FileInv, NEW p \in Posts, Config!SyncAndAnswer(p)
  PROVE  /\ TurnsInto(p, "saved") /\ post[p].at = "renamed" /\ durable' = {disk}
         /\ acked' = IF post[p].save > acked THEN post[p].save ELSE acked
         /\ ProcessTypes' /\ UNCHANGED <<config, disk, temps, flushed>>
<1>. USE DEF Config!SyncAndAnswer
<1>1. post[p].at = "renamed" /\ post' = [post EXCEPT ![p].at = "saved"] BY DEF Config!Moves
<1>2. TurnsInto(p, "saved") BY <1>1, Move DEF Steps
<1>3. durable' = {disk} /\ (acked' = IF post[p].save > acked THEN post[p].save ELSE acked)
      /\ UNCHANGED <<config, disk, temps, flushed>>
BY DEF Config!TempsUnchanged
<1>4. process' = [process EXCEPT !.is = "stopping"] OBVIOUS
<1>5. ProcessTypes' BY <1>4 DEF FileInv, ProcessTypes
<1>. QED BY <1>1, <1>2, <1>3, <1>5
LEMMA FailStep ==
  ASSUME FileInv, NEW p \in Posts, Config!Fail(p)
  PROVE  /\ TurnsInto(p, "failed") /\ post[p].at \in {"admitted", "rendered", "temp", "synced", "renamed"}
         /\ temps' = temps \ {p} /\ flushed' = flushed \ {p} /\ ScopeTypes'
         /\ UNCHANGED <<disk, durable, process, acked>>
<1>. USE DEF Config!Fail
<1>1. post[p].at \in {"admitted", "rendered", "temp", "synced", "renamed"} /\ post' = [post EXCEPT ![p].at = "failed"]
      /\ temps' = temps \ {p} /\ flushed' = flushed \ {p}
OBVIOUS
<1>2. TurnsInto(p, "failed") BY <1>1, Move DEF Steps
<1>3. UNCHANGED <<disk, durable, process, acked>> BY DEF Config!FileUnchanged, Config!ProcessUnchanged
<1>4. config' = [config EXCEPT !["faults"] = @ - 1] BY DEF Config!Spends
<1>5. ScopeTypes' BY <1>4 DEF FileInv, ScopeTypes
<1>. QED BY <1>1, <1>2, <1>3, <1>5
\* What a stop of the process does to the posts.
Cut ==
  /\ PostTypes'
  /\ \A q \in Posts :
       /\ post'[q].data = post[q].data /\ post'[q].asked = post[q].asked /\ post'[q].doc = post[q].doc /\ post'[q].save = post[q].save
       /\ \/ post'[q].at = post[q].at /\ post[q].at \in {"none", "refused", "saved", "failed"}
          \/ post'[q].at = "cut" /\ post[q].at # "none"
LEMMA CutOffIs ==
  ASSUME FileInv, post' = Config!CutOff
  PROVE  Cut
<1>1. post \in [Posts -> SavePosts] BY DEF FileInv, PostTypes
<1>2. ASSUME NEW q \in Posts
      PROVE  /\ post'[q] \in SavePosts
             /\ post'[q].data = post[q].data /\ post'[q].asked = post[q].asked /\ post'[q].doc = post[q].doc /\ post'[q].save = post[q].save
             /\ \/ post'[q].at = post[q].at /\ post[q].at \in {"none", "refused", "saved", "failed"}
                \/ post'[q].at = "cut" /\ post[q].at # "none"
  <2>1. post'[q] = IF Config!Ends(q) \/ post[q].at = "none" THEN post[q] ELSE [post[q] EXCEPT !.at = "cut"] BY DEF Config!CutOff
  <2>2. post[q] \in SavePosts BY <1>1
  <2>3. CASE Config!Ends(q) \/ post[q].at = "none" BY <2>1, <2>2, <2>3 DEF Config!Ends
  <2>4. CASE ~(Config!Ends(q) \/ post[q].at = "none")
    <3>1. post'[q] = [post[q] EXCEPT !.at = "cut"] BY <2>1, <2>4
    <3>2. post'[q] \in SavePosts BY <3>1, <2>2 DEF SavePosts, Steps
    <3>3. post'[q].at = "cut" /\ post'[q].data = post[q].data /\ post'[q].asked = post[q].asked /\ post'[q].doc = post[q].doc
          /\ post'[q].save = post[q].save
      BY <3>1, <2>2 DEF SavePosts
    <3>. QED BY <2>4, <3>2, <3>3
  <2>. QED BY <2>3, <2>4
<1>3. post' = [q \in Posts |-> post'[q]] BY DEF Config!CutOff
<1>4. PostTypes' BY <1>2, <1>3 DEF PostTypes
<1>. QED BY <1>2, <1>4 DEF Cut
LEMMA ExitStep ==
  ASSUME FileInv, Config!Exit
  PROVE  Cut /\ ProcessTypes' /\ UNCHANGED <<config, disk, durable, temps, flushed, acked>>
<1>1. process' = [process EXCEPT !.is = "down"] /\ post' = Config!CutOff BY DEF Config!Exit
<1>2. ProcessTypes' BY <1>1 DEF FileInv, ProcessTypes
<1>3. UNCHANGED <<config, disk, durable, temps, flushed, acked>> BY DEF Config!Exit, Config!FileUnchanged, Config!TempsUnchanged
<1>. QED BY <1>1, <1>2, <1>3, CutOffIs
LEMMA StartStep ==
  ASSUME FileInv, Config!Start
  PROVE  ProcessTypes' /\ UNCHANGED <<config, disk, durable, post, temps, flushed, acked>>
<1>1. Config!Valid(disk.doc) /\ disk \in Contents BY DEF FileInv, ContentsLoad, DiskTypes
<1>2. process' = [is |-> "up", loaded |-> disk] BY <1>1 DEF Config!Start
<1>3. ProcessTypes' BY <1>1, <1>2 DEF ProcessTypes
<1>4. UNCHANGED <<config, disk, durable, post, temps, flushed, acked>>
BY DEF Config!Start, Config!FileUnchanged, Config!TempsUnchanged
<1>. QED BY <1>3, <1>4
LEMMA FileKillStep ==
  ASSUME FileInv, Config!Kill
  PROVE  Cut /\ ProcessTypes' /\ ScopeTypes' /\ UNCHANGED <<disk, durable, temps, flushed, acked>>
<1>. USE DEF Config!Kill
<1>1. process' = [process EXCEPT !.is = "down"] /\ post' = Config!CutOff OBVIOUS
<1>2. ProcessTypes' BY <1>1 DEF FileInv, ProcessTypes
<1>3. config' = [config EXCEPT !["kills"] = @ - 1] BY DEF Config!Spends
<1>4. ScopeTypes' BY <1>3 DEF FileInv, ScopeTypes
<1>5. UNCHANGED <<disk, durable, temps, flushed, acked>> BY DEF Config!FileUnchanged, Config!TempsUnchanged
<1>. QED BY <1>1, <1>2, <1>4, <1>5, CutOffIs
LEMMA PowerLossStep ==
  ASSUME FileInv, Config!PowerLoss
  PROVE  Cut /\ ProcessTypes' /\ ScopeTypes' /\ disk' \in durable /\ durable' = {disk'} /\ UNCHANGED <<temps, flushed, acked>>
<1>. USE DEF Config!PowerLoss
<1>1. process' = [process EXCEPT !.is = "down"] /\ post' = Config!CutOff OBVIOUS
<1>2. ProcessTypes' BY <1>1 DEF FileInv, ProcessTypes
<1>3. config' = [config EXCEPT !["losses"] = @ - 1] BY DEF Config!Spends
<1>4. ScopeTypes' BY <1>3 DEF FileInv, ScopeTypes
<1>5. disk' \in durable /\ durable' = {disk'} /\ UNCHANGED <<temps, flushed, acked>> BY DEF Config!TempsUnchanged
<1>. QED BY <1>1, <1>2, <1>4, <1>5, CutOffIs
LEMMA HandEditStep ==
  ASSUME FileInv, Config!HandEdit
  PROVE  /\ ScopeTypes' /\ disk' \in Contents /\ Config!Valid(disk'.doc) /\ disk'.save = disk.save /\ durable' = {disk'}
         /\ UNCHANGED <<post, temps, flushed, process, acked>>
<1>1. config' = [config EXCEPT !["hands"] = @ - 1] BY DEF Config!HandEdit, Config!Spends
<1>2. ScopeTypes' BY <1>1 DEF FileInv, ScopeTypes
<1>3. PICK edit \in config.byHand :
        LET doc == [disk.doc EXCEPT ![edit[1]] = edit[2]]
        IN Config!Valid(doc) /\ disk' = [disk EXCEPT !.doc = doc] /\ durable' = {disk'}
BY DEF Config!HandEdit
<1>. DEFINE doc == [disk.doc EXCEPT ![edit[1]] = edit[2]]
<1>4. edit[1] \in Config!Keys /\ edit[2] \in -1 .. 2 BY <1>3 DEF FileInv, ScopeTypes
<1>5. disk \in Contents /\ disk.doc \in Documents /\ disk.save \in Nat BY DEF FileInv, DiskTypes, Contents
<1>6. doc \in Documents BY <1>4, <1>5 DEF Documents
<1>7. Config!Valid(doc) /\ disk' = [disk EXCEPT !.doc = doc] /\ durable' = {disk'} BY <1>3
<1>. HIDE DEF doc
<1>8. disk' \in Contents /\ disk'.doc = doc /\ disk'.save = disk.save BY <1>5, <1>6, <1>7 DEF Contents
<1>9. UNCHANGED <<post, temps, flushed, process, acked>> BY DEF Config!HandEdit, Config!TempsUnchanged, Config!ProcessUnchanged
<1>. QED BY <1>2, <1>7, <1>8, <1>9
\* The posts that have renamed are counted.
LEMMA SavesKept ==
  ASSUME \A q \in Posts : post'[q].save = post[q].save
  PROVE  SavedPosts' = SavedPosts
BY DEF SavedPosts
LEMMA SavesFinite == IsFiniteSet(SavedPosts) /\ Cardinality(SavedPosts) \in Nat /\ Cardinality(SavedPosts) <= Cardinality(Posts) /\ Cardinality(Posts) \in Nat
<1>1. SavedPosts \subseteq Posts /\ IsFiniteSet(Posts) BY ConfigAssumption DEF SavedPosts
<1>. QED BY <1>1, FS_Subset, FS_CardinalityType
LEMMA RenameCounts ==
  ASSUME FileInv, NEW p \in Posts, Config!Rename(p)
  PROVE  Cardinality(SavedPosts') = Cardinality(SavedPosts) + 1
<1>1. post[p].save \in Nat /\ ~(post[p].save > 0)
  <2>1. post[p].at = "synced" BY RenameStep
  <2>. QED BY <2>1, PostTyped DEF FileInv, SavedHasRenamed
<1>2. p \notin SavedPosts BY <1>1 DEF SavedPosts
<1>3. post'[p].save > 0 /\ \A q \in Posts : q # p => post'[q].save = post[q].save
  <2>1. disk.save \in Nat /\ post'[p].save = disk.save + 1 BY RenameStep, PostTyped
  <2>2. \A q \in Posts : q # p => post'[q] = post[q] BY RenameStep DEF OthersStay
  <2>. QED BY <2>1, <2>2
<1>4. SavedPosts' = SavedPosts \cup {p} BY <1>3 DEF SavedPosts
<1>. QED BY <1>2, <1>4, SavesFinite, FS_AddElement
\* Every action keeps the invariant: a step for each, and one below it for each part it can disturb.
LEMMA FileStep == FileInv /\ [Config!Next]_configVars => FileInv'
<1>. SUFFICES ASSUME FileInv, [Config!Next]_configVars PROVE FileInv' OBVIOUS
<1>1. ASSUME FileInv, NEW p \in Posts, Config!OpenForm(p) PROVE FileInv'
  <2>. USE DEF OthersStay, FileInv
  <2>1. PostTypes' BY <1>1, OpenFormStep
  <2>2. AskedTypes' BY <1>1, OpenFormStep DEF AskedTypes
  <2>3. AckedIsKept' BY <1>1, OpenFormStep, PostTyped DEF AckedIsKept
  <2>4. SavesAreCounted'
    <3>1. \A q \in Posts : post'[q].save = post[q].save BY <1>1, OpenFormStep DEF TurnsInto
    <3>2. SavedPosts' = SavedPosts BY <3>1, SavesKept
    <3>. QED BY <1>1, <3>2, OpenFormStep DEF SavesAreCounted, DiskTypes
  <2>5. SavedHasRenamed' BY <1>1, OpenFormStep DEF SavedHasRenamed
  <2>6. AdmittedIs' BY <1>1, OpenFormStep DEF AdmittedIs
  <2>7. WrittenIsApplied' BY <1>1, OpenFormStep DEF WrittenIsApplied, SavedHasRenamed
  <2>8. SyncedIsFlushed' BY <1>1, OpenFormStep DEF SyncedIsFlushed, TempsAreOwn
  <2>9. Config!TempsAreTidied' BY <1>1, OpenFormStep DEF Config!TempsAreTidied, TempsAreOwn
  <2>10. ScopeTypes' /\ DiskTypes' /\ ProcessTypes' /\ ContentsLoad' /\ TempsAreOwn'
    <3>1. UNCHANGED <<config, disk, durable, process, acked, temps, flushed>> BY <1>1, OpenFormStep
    <3>. QED BY <1>1, <3>1 DEF ScopeTypes, DiskTypes, ProcessTypes, ContentsLoad, TempsAreOwn, Contents
  <2>. QED BY <2>1, <2>2, <2>3, <2>4, <2>5, <2>6, <2>7, <2>8, <2>9, <2>10
<1>2. ASSUME FileInv, NEW p \in Posts, Config!Submit(p) PROVE FileInv'
  <2>. USE DEF OthersStay, FileInv
  <2>1. PostTypes' BY <1>2, SubmitStep
  <2>2. AskedTypes' BY <1>2, SubmitStep DEF AskedTypes
  <2>3. AckedIsKept' BY <1>2, SubmitStep, PostTyped DEF AckedIsKept
  <2>4. SavesAreCounted'
    <3>1. \A q \in Posts : post'[q].save = post[q].save BY <1>2, SubmitStep DEF TurnsInto
    <3>2. SavedPosts' = SavedPosts BY <3>1, SavesKept
    <3>. QED BY <1>2, <3>2, SubmitStep DEF SavesAreCounted, DiskTypes
  <2>5. SavedHasRenamed' BY <1>2, SubmitStep DEF SavedHasRenamed
  <2>6. AdmittedIs' BY <1>2, SubmitStep DEF AdmittedIs
  <2>7. WrittenIsApplied' BY <1>2, SubmitStep DEF WrittenIsApplied, SavedHasRenamed
  <2>8. SyncedIsFlushed' BY <1>2, SubmitStep DEF SyncedIsFlushed, TempsAreOwn
  <2>9. Config!TempsAreTidied' BY <1>2, SubmitStep DEF Config!TempsAreTidied, TempsAreOwn
  <2>10. ScopeTypes' /\ DiskTypes' /\ ProcessTypes' /\ ContentsLoad' /\ TempsAreOwn'
    <3>1. UNCHANGED <<config, disk, durable, process, acked, temps, flushed>> BY <1>2, SubmitStep
    <3>. QED BY <1>2, <3>1 DEF ScopeTypes, DiskTypes, ProcessTypes, ContentsLoad, TempsAreOwn, Contents
  <2>. QED BY <2>1, <2>2, <2>3, <2>4, <2>5, <2>6, <2>7, <2>8, <2>9, <2>10
<1>3. ASSUME FileInv, NEW p \in Posts, Config!Read(p) PROVE FileInv'
  <2>. USE DEF OthersStay, FileInv
  <2>1. PostTypes' BY <1>3, ReadStep
  <2>2. AskedTypes' BY <1>3, ReadStep DEF AskedTypes
  <2>3. AckedIsKept' BY <1>3, ReadStep, PostTyped DEF AckedIsKept
  <2>4. SavesAreCounted'
    <3>1. \A q \in Posts : post'[q].save = post[q].save BY <1>3, ReadStep DEF TurnsInto
    <3>2. SavedPosts' = SavedPosts BY <3>1, SavesKept
    <3>. QED BY <1>3, <3>2, ReadStep DEF SavesAreCounted, DiskTypes
  <2>5. SavedHasRenamed' BY <1>3, ReadStep DEF SavedHasRenamed
  <2>6. AdmittedIs' BY <1>3, ReadStep DEF AdmittedIs
  <2>7. WrittenIsApplied' BY <1>3, ReadStep DEF WrittenIsApplied, SavedHasRenamed
  <2>8. SyncedIsFlushed' BY <1>3, ReadStep DEF SyncedIsFlushed, TempsAreOwn
  <2>9. Config!TempsAreTidied' BY <1>3, ReadStep DEF Config!TempsAreTidied, TempsAreOwn
  <2>10. ScopeTypes' /\ DiskTypes' /\ ProcessTypes' /\ ContentsLoad' /\ TempsAreOwn'
    <3>1. UNCHANGED <<config, disk, durable, process, acked, temps, flushed>> BY <1>3, ReadStep
    <3>. QED BY <1>3, <3>1 DEF ScopeTypes, DiskTypes, ProcessTypes, ContentsLoad, TempsAreOwn, Contents
  <2>. QED BY <2>1, <2>2, <2>3, <2>4, <2>5, <2>6, <2>7, <2>8, <2>9, <2>10
<1>4. ASSUME FileInv, NEW p \in Posts, Config!CreateTemp(p) PROVE FileInv'
  <2>. USE DEF OthersStay, TurnsInto, FileInv
  <2>1. PostTypes' BY <1>4, CreateTempStep
  <2>2. AskedTypes' BY <1>4, CreateTempStep DEF AskedTypes
  <2>3. AckedIsKept' BY <1>4, CreateTempStep, PostTyped DEF AckedIsKept
  <2>4. SavesAreCounted'
    <3>1. \A q \in Posts : post'[q].save = post[q].save BY <1>4, CreateTempStep
    <3>2. SavedPosts' = SavedPosts BY <3>1, SavesKept
    <3>. QED BY <1>4, <3>2, CreateTempStep DEF SavesAreCounted, DiskTypes
  <2>5. SavedHasRenamed' BY <1>4, CreateTempStep DEF SavedHasRenamed
  <2>6. AdmittedIs' BY <1>4, CreateTempStep DEF AdmittedIs
  <2>7. WrittenIsApplied' BY <1>4, CreateTempStep DEF WrittenIsApplied, SavedHasRenamed
  <2>8. SyncedIsFlushed' BY <1>4, CreateTempStep DEF SyncedIsFlushed, TempsAreOwn
  <2>9. TempsAreOwn' BY <1>4, CreateTempStep DEF TempsAreOwn
  <2>10. Config!TempsAreTidied' BY <1>4, CreateTempStep DEF Config!TempsAreTidied, TempsAreOwn
  <2>11. ScopeTypes' /\ DiskTypes' /\ ProcessTypes' /\ ContentsLoad'
    <3>1. UNCHANGED <<config, disk, durable, process, acked>> BY <1>4, CreateTempStep
    <3>. QED BY <1>4, <3>1 DEF ScopeTypes, DiskTypes, ProcessTypes, ContentsLoad, Contents
  <2>. QED BY <2>1, <2>2, <2>3, <2>4, <2>5, <2>6, <2>7, <2>8, <2>9, <2>10, <2>11
<1>5. ASSUME FileInv, NEW p \in Posts, Config!SyncTemp(p) PROVE FileInv'
  <2>. USE DEF OthersStay, TurnsInto, FileInv
  <2>1. PostTypes' BY <1>5, SyncTempStep
  <2>2. AskedTypes' BY <1>5, SyncTempStep DEF AskedTypes
  <2>3. AckedIsKept' BY <1>5, SyncTempStep, PostTyped DEF AckedIsKept
  <2>4. SavesAreCounted'
    <3>1. \A q \in Posts : post'[q].save = post[q].save BY <1>5, SyncTempStep
    <3>2. SavedPosts' = SavedPosts BY <3>1, SavesKept
    <3>. QED BY <1>5, <3>2, SyncTempStep DEF SavesAreCounted, DiskTypes
  <2>5. SavedHasRenamed' BY <1>5, SyncTempStep DEF SavedHasRenamed
  <2>6. AdmittedIs' BY <1>5, SyncTempStep DEF AdmittedIs
  <2>7. WrittenIsApplied' BY <1>5, SyncTempStep DEF WrittenIsApplied, SavedHasRenamed
  <2>8. SyncedIsFlushed' BY <1>5, SyncTempStep DEF SyncedIsFlushed, TempsAreOwn
  <2>9. TempsAreOwn' BY <1>5, SyncTempStep DEF TempsAreOwn, SyncedIsFlushed
  <2>10. Config!TempsAreTidied' BY <1>5, SyncTempStep DEF Config!TempsAreTidied, TempsAreOwn
  <2>11. ScopeTypes' /\ DiskTypes' /\ ProcessTypes' /\ ContentsLoad'
    <3>1. UNCHANGED <<config, disk, durable, process, acked>> BY <1>5, SyncTempStep
    <3>. QED BY <1>5, <3>1 DEF ScopeTypes, DiskTypes, ProcessTypes, ContentsLoad, Contents
  <2>. QED BY <2>1, <2>2, <2>3, <2>4, <2>5, <2>6, <2>7, <2>8, <2>9, <2>10, <2>11
<1>6. ASSUME FileInv, NEW p \in Posts, Config!Rename(p) PROVE FileInv'
  <2>. USE DEF FileInv
  <2>1. DiskTypes' BY <1>6, RenameStep, PostTyped DEF DiskTypes, OthersStay
  <2>2. PostTypes' BY <1>6, RenameStep DEF OthersStay
  <2>3. AskedTypes' BY <1>6, RenameStep DEF AskedTypes, OthersStay
  <2>4. ContentsLoad' BY <1>6, RenameStep DEF ContentsLoad, OthersStay, WrittenIsApplied
  <2>5. AckedIsKept'
    <3>. USE DEF AckedIsKept
    <3>1. disk.save \in Nat /\ acked \in Nat /\ disk.save >= acked BY PostTyped, <1>6 DEF DiskTypes
    <3>2. disk'.save = disk.save + 1 /\ durable' = durable \cup {disk'} /\ acked' = acked BY <1>6, RenameStep
    <3>3. \A q \in Posts : post'[q].at = "renamed" => post'[q].save <= disk'.save
      <4>1. SUFFICES ASSUME NEW q \in Posts, post'[q].at = "renamed" PROVE post'[q].save <= disk'.save OBVIOUS
      <4>2. CASE q = p BY <3>1, <3>2, <4>2, <1>6, RenameStep
      <4>3. CASE q # p
        <5>1. post[q].at = "renamed" /\ post'[q].save = post[q].save BY <4>1, <4>3, <1>6, RenameStep DEF OthersStay
        <5>2. post[q].save \in Nat /\ post[q].save <= disk.save BY <5>1, <1>6, PostTyped
        <5>. QED BY <3>1, <3>2, <5>1, <5>2
      <4>. QED BY <4>2, <4>3
    <3>4. \A content \in durable : content.save >= acked BY <1>6
    <3>5. disk'.save >= acked BY <3>1, <3>2
    <3>. QED BY <3>2, <3>3, <3>4, <3>5
  <2>6. SavesAreCounted'
    <3>1. durable' = durable \cup {disk'} /\ disk'.save = disk.save + 1 BY <1>6, RenameStep
    <3>2. Cardinality(SavedPosts') = Cardinality(SavedPosts) + 1 BY <1>6, RenameCounts
    <3>3. Cardinality(SavedPosts) \in Nat BY SavesFinite
    <3>4. \A content \in durable : content.save \in Nat /\ content.save <= Cardinality(SavedPosts)
      BY <1>6 DEF DiskTypes, Contents, SavesAreCounted
    <3>5. disk \in durable BY <1>6 DEF DiskTypes
    <3>6. \A content \in durable' : content.save <= Cardinality(SavedPosts') BY <3>1, <3>2, <3>3, <3>4, <3>5
    <3>. QED BY <3>6 DEF SavesAreCounted
  <2>7. SavedHasRenamed' BY <1>6, RenameStep DEF SavedHasRenamed, OthersStay
  <2>8. AdmittedIs' BY <1>6, RenameStep DEF AdmittedIs, OthersStay
  <2>9. WrittenIsApplied' BY <1>6, RenameStep DEF WrittenIsApplied, OthersStay
  <2>10. SyncedIsFlushed' BY <1>6, RenameStep DEF SyncedIsFlushed, OthersStay, TempsAreOwn
  <2>11. TempsAreOwn' BY <1>6, RenameStep DEF TempsAreOwn, OthersStay
  <2>12. Config!TempsAreTidied' BY <1>6, RenameStep DEF Config!TempsAreTidied, OthersStay, TempsAreOwn
  <2>13. ScopeTypes' /\ ProcessTypes'
    <3>1. UNCHANGED <<config, process>> BY <1>6, RenameStep
    <3>. QED BY <1>6, <3>1 DEF ScopeTypes, ProcessTypes
  <2>. QED BY <2>1, <2>2, <2>3, <2>4, <2>5, <2>6, <2>7, <2>8, <2>9, <2>10, <2>11, <2>12, <2>13
<1>7. ASSUME FileInv, NEW p \in Posts, Config!SyncAndAnswer(p) PROVE FileInv'
  <2>. USE DEF OthersStay, TurnsInto, FileInv
  <2>1. DiskTypes' BY <1>7, SyncAndAnswerStep, PostTyped DEF DiskTypes
  <2>2. ProcessTypes' BY <1>7, SyncAndAnswerStep
  <2>3. PostTypes' BY <1>7, SyncAndAnswerStep
  <2>4. AskedTypes' BY <1>7, SyncAndAnswerStep DEF AskedTypes
  <2>5. ContentsLoad' BY <1>7, SyncAndAnswerStep DEF ContentsLoad, DiskTypes
  <2>6. AckedIsKept'
    <3>. USE DEF AckedIsKept
    <3>1. disk.save \in Nat /\ acked \in Nat /\ disk.save >= acked BY PostTyped, <1>7 DEF DiskTypes
    <3>2. post[p].save \in Nat /\ post[p].save <= disk.save BY <1>7, SyncAndAnswerStep, PostTyped
    <3>3. durable' = {disk} /\ disk' = disk /\ (acked' = IF post[p].save > acked THEN post[p].save ELSE acked)
      BY <1>7, SyncAndAnswerStep
    <3>4. disk.save >= acked' BY <3>1, <3>2, <3>3
    <3>5. \A q \in Posts : post'[q].at = "renamed" => post[q].at = "renamed" /\ post'[q].save = post[q].save
      BY <1>7, SyncAndAnswerStep
    <3>6. \A q \in Posts : post[q].at = "renamed" => post[q].save <= disk.save BY <1>7
    <3>. QED BY <3>3, <3>4, <3>5, <3>6
  <2>7. SavesAreCounted'
    <3>1. \A q \in Posts : post'[q].save = post[q].save BY <1>7, SyncAndAnswerStep
    <3>2. SavedPosts' = SavedPosts BY <3>1, SavesKept
    <3>. QED BY <1>7, <3>2, SyncAndAnswerStep DEF SavesAreCounted, DiskTypes
  <2>8. SavedHasRenamed' BY <1>7, SyncAndAnswerStep DEF SavedHasRenamed
  <2>9. AdmittedIs' BY <1>7, SyncAndAnswerStep DEF AdmittedIs
  <2>10. WrittenIsApplied' BY <1>7, SyncAndAnswerStep DEF WrittenIsApplied
  <2>11. SyncedIsFlushed' BY <1>7, SyncAndAnswerStep DEF SyncedIsFlushed, TempsAreOwn
  <2>12. Config!TempsAreTidied' BY <1>7, SyncAndAnswerStep DEF Config!TempsAreTidied, TempsAreOwn
  <2>13. ScopeTypes' /\ TempsAreOwn'
    <3>1. UNCHANGED <<config, temps, flushed>> BY <1>7, SyncAndAnswerStep
    <3>. QED BY <1>7, <3>1 DEF ScopeTypes, TempsAreOwn
  <2>. QED BY <2>1, <2>2, <2>3, <2>4, <2>5, <2>6, <2>7, <2>8, <2>9, <2>10, <2>11, <2>12, <2>13
<1>8. ASSUME FileInv, NEW p \in Posts, Config!Fail(p) PROVE FileInv'
  <2>. USE DEF OthersStay, TurnsInto, FileInv
  <2>1. ScopeTypes' BY <1>8, FailStep
  <2>2. PostTypes' BY <1>8, FailStep
  <2>3. AskedTypes' BY <1>8, FailStep DEF AskedTypes
  <2>4. AckedIsKept' BY <1>8, FailStep, PostTyped DEF AckedIsKept
  <2>5. SavesAreCounted'
    <3>1. \A q \in Posts : post'[q].save = post[q].save BY <1>8, FailStep
    <3>2. SavedPosts' = SavedPosts BY <3>1, SavesKept
    <3>. QED BY <1>8, <3>2, FailStep DEF SavesAreCounted, DiskTypes
  <2>6. SavedHasRenamed' BY <1>8, FailStep DEF SavedHasRenamed
  <2>7. AdmittedIs' BY <1>8, FailStep DEF AdmittedIs
  <2>8. WrittenIsApplied' BY <1>8, FailStep DEF WrittenIsApplied, SavedHasRenamed
  <2>9. SyncedIsFlushed' BY <1>8, FailStep DEF SyncedIsFlushed, TempsAreOwn
  <2>10. TempsAreOwn' BY <1>8, FailStep DEF TempsAreOwn
  <2>11. Config!TempsAreTidied' BY <1>8, FailStep DEF Config!TempsAreTidied, TempsAreOwn
  <2>12. DiskTypes' /\ ProcessTypes' /\ ContentsLoad'
    <3>1. UNCHANGED <<disk, durable, process, acked>> BY <1>8, FailStep
    <3>. QED BY <1>8, <3>1 DEF DiskTypes, ProcessTypes, ContentsLoad, Contents
  <2>. QED BY <2>1, <2>2, <2>3, <2>4, <2>5, <2>6, <2>7, <2>8, <2>9, <2>10, <2>11, <2>12
<1>9. ASSUME FileInv, Config!Exit PROVE FileInv'
  <2>. USE DEF Cut, FileInv
  <2>1. ProcessTypes' BY <1>9, ExitStep
  <2>2. PostTypes' BY <1>9, ExitStep
  <2>3. AskedTypes' BY <1>9, ExitStep DEF AskedTypes
  <2>4. AckedIsKept' BY <1>9, ExitStep, PostTyped DEF AckedIsKept
  <2>5. SavesAreCounted'
    <3>1. \A q \in Posts : post'[q].save = post[q].save BY <1>9, ExitStep
    <3>2. SavedPosts' = SavedPosts BY <3>1, SavesKept
    <3>. QED BY <1>9, <3>2, ExitStep DEF SavesAreCounted, DiskTypes
  <2>6. SavedHasRenamed' BY <1>9, ExitStep DEF SavedHasRenamed
  <2>7. AdmittedIs' BY <1>9, ExitStep DEF AdmittedIs
  <2>8. WrittenIsApplied' BY <1>9, ExitStep DEF WrittenIsApplied
  <2>9. SyncedIsFlushed' BY <1>9, ExitStep DEF SyncedIsFlushed, TempsAreOwn
  <2>10. Config!TempsAreTidied' BY <1>9, ExitStep DEF Config!TempsAreTidied, TempsAreOwn
  <2>11. ScopeTypes' /\ DiskTypes' /\ ContentsLoad' /\ TempsAreOwn'
    <3>1. UNCHANGED <<config, disk, durable, acked, temps, flushed>> BY <1>9, ExitStep
    <3>. QED BY <1>9, <3>1 DEF ScopeTypes, DiskTypes, ContentsLoad, TempsAreOwn, Contents
  <2>. QED BY <2>1, <2>2, <2>3, <2>4, <2>5, <2>6, <2>7, <2>8, <2>9, <2>10, <2>11
<1>10. ASSUME FileInv, Config!Start PROVE FileInv'
  <2>1. ProcessTypes' BY <1>10, StartStep
  <2>2. ScopeTypes' /\ DiskTypes' /\ PostTypes' /\ AskedTypes' /\ ContentsLoad' /\ AckedIsKept' /\ SavesAreCounted' /\
        SavedHasRenamed' /\ AdmittedIs' /\ WrittenIsApplied' /\ SyncedIsFlushed' /\ TempsAreOwn' /\ Config!TempsAreTidied'
    <3>1. UNCHANGED <<config, disk, durable, acked, post, temps, flushed>> BY <1>10, StartStep
    <3>. QED BY <1>10, <3>1 DEF FileInv, ScopeTypes, DiskTypes, PostTypes, AskedTypes, ContentsLoad, AckedIsKept,
        SavesAreCounted, SavedHasRenamed, AdmittedIs, WrittenIsApplied, SyncedIsFlushed, TempsAreOwn, Config!TempsAreTidied,
        Contents, SavedPosts
  <2>. QED BY <2>1, <2>2 DEF FileInv
<1>11. ASSUME FileInv, Config!Kill PROVE FileInv'
  <2>. USE DEF Cut, FileInv
  <2>1. ScopeTypes' BY <1>11, FileKillStep
  <2>2. ProcessTypes' BY <1>11, FileKillStep
  <2>3. PostTypes' BY <1>11, FileKillStep
  <2>4. AskedTypes' BY <1>11, FileKillStep DEF AskedTypes
  <2>5. AckedIsKept' BY <1>11, FileKillStep, PostTyped DEF AckedIsKept
  <2>6. SavesAreCounted'
    <3>1. \A q \in Posts : post'[q].save = post[q].save BY <1>11, FileKillStep
    <3>2. SavedPosts' = SavedPosts BY <3>1, SavesKept
    <3>. QED BY <1>11, <3>2, FileKillStep DEF SavesAreCounted, DiskTypes
  <2>7. SavedHasRenamed' BY <1>11, FileKillStep DEF SavedHasRenamed
  <2>8. AdmittedIs' BY <1>11, FileKillStep DEF AdmittedIs
  <2>9. WrittenIsApplied' BY <1>11, FileKillStep DEF WrittenIsApplied
  <2>10. SyncedIsFlushed' BY <1>11, FileKillStep DEF SyncedIsFlushed, TempsAreOwn
  <2>11. Config!TempsAreTidied' BY <1>11, FileKillStep DEF Config!TempsAreTidied, TempsAreOwn
  <2>12. DiskTypes' /\ ContentsLoad' /\ TempsAreOwn'
    <3>1. UNCHANGED <<disk, durable, acked, temps, flushed>> BY <1>11, FileKillStep
    <3>. QED BY <1>11, <3>1 DEF DiskTypes, ContentsLoad, TempsAreOwn, Contents
  <2>. QED BY <2>1, <2>2, <2>3, <2>4, <2>5, <2>6, <2>7, <2>8, <2>9, <2>10, <2>11, <2>12
<1>12. ASSUME FileInv, Config!PowerLoss PROVE FileInv'
  <2>. USE DEF Cut, FileInv
  <2>1. ScopeTypes' BY <1>12, PowerLossStep
  <2>2. DiskTypes' BY <1>12, PowerLossStep, PostTyped DEF DiskTypes
  <2>3. ProcessTypes' BY <1>12, PowerLossStep
  <2>4. PostTypes' BY <1>12, PowerLossStep
  <2>5. AskedTypes' BY <1>12, PowerLossStep DEF AskedTypes
  <2>6. ContentsLoad' BY <1>12, PowerLossStep DEF ContentsLoad
  <2>7. AckedIsKept'
    <3>1. \A q \in Posts : post'[q].at # "renamed" BY <1>12, PowerLossStep
    <3>. QED BY <1>12, <3>1, PowerLossStep DEF AckedIsKept
  <2>8. SavesAreCounted'
    <3>1. \A q \in Posts : post'[q].save = post[q].save BY <1>12, PowerLossStep
    <3>2. SavedPosts' = SavedPosts BY <3>1, SavesKept
    <3>. QED BY <1>12, <3>2, PowerLossStep DEF SavesAreCounted, DiskTypes
  <2>9. SavedHasRenamed' BY <1>12, PowerLossStep DEF SavedHasRenamed
  <2>10. AdmittedIs' BY <1>12, PowerLossStep DEF AdmittedIs
  <2>11. WrittenIsApplied' BY <1>12, PowerLossStep DEF WrittenIsApplied
  <2>12. SyncedIsFlushed' BY <1>12, PowerLossStep DEF SyncedIsFlushed, TempsAreOwn
  <2>13. Config!TempsAreTidied' BY <1>12, PowerLossStep DEF Config!TempsAreTidied, TempsAreOwn
  <2>14. TempsAreOwn'
    <3>1. UNCHANGED <<temps, flushed>> BY <1>12, PowerLossStep
    <3>. QED BY <1>12, <3>1 DEF TempsAreOwn
  <2>. QED BY <2>1, <2>2, <2>3, <2>4, <2>5, <2>6, <2>7, <2>8, <2>9, <2>10, <2>11, <2>12, <2>13, <2>14
<1>13. ASSUME FileInv, Config!HandEdit PROVE FileInv'
  <2>. USE DEF DiskTypes, FileInv
  <2>1. ScopeTypes' BY <1>13, HandEditStep
  <2>2. DiskTypes' BY <1>13, HandEditStep, PostTyped
  <2>3. ContentsLoad' BY <1>13, HandEditStep DEF ContentsLoad
  <2>4. AckedIsKept' BY <1>13, HandEditStep, PostTyped DEF AckedIsKept
  <2>5. SavesAreCounted'
    <3>1. \A q \in Posts : post'[q].save = post[q].save BY <1>13, HandEditStep DEF TurnsInto, OthersStay
    <3>2. SavedPosts' = SavedPosts BY <3>1, SavesKept
    <3>. QED BY <1>13, <3>2, HandEditStep DEF SavesAreCounted
  <2>6. ProcessTypes' /\ PostTypes' /\ AskedTypes' /\ SavedHasRenamed' /\ AdmittedIs' /\ WrittenIsApplied' /\ SyncedIsFlushed'
        /\ TempsAreOwn' /\ Config!TempsAreTidied'
    <3>1. UNCHANGED <<process, post, temps, flushed>> BY <1>13, HandEditStep
    <3>. QED BY <1>13, <3>1 DEF ProcessTypes, PostTypes, AskedTypes, SavedHasRenamed, AdmittedIs, WrittenIsApplied,
         SyncedIsFlushed, TempsAreOwn, Config!TempsAreTidied
  <2>. QED BY <2>1, <2>2, <2>3, <2>4, <2>5, <2>6
<1>14. ASSUME UNCHANGED configVars PROVE FileInv'
BY <1>14 DEF configVars, FileInv, ScopeTypes, DiskTypes, ProcessTypes, PostTypes, AskedTypes, ContentsLoad, AckedIsKept, SavesAreCounted, SavedHasRenamed, AdmittedIs, WrittenIsApplied, SyncedIsFlushed, TempsAreOwn, Config!TempsAreTidied, SavedPosts
<1>. QED BY <1>1, <1>2, <1>3, <1>4, <1>5, <1>6, <1>7, <1>8, <1>9, <1>10, <1>11, <1>12, <1>13, <1>14 DEF Config!Next, Config!Saves
LEMMA FileInit == Config!Init /\ ConfigAssumption => FileInv
<1>1. SUFFICES ASSUME Config!Init PROVE FileInv BY ConfigAssumption
<1>2. config \in ConfigScopes /\ disk = Config!Content(config.first, 0) /\ durable = {disk} /\ acked = 0 /\ temps = {} /\ flushed = {}
      /\ process = [is |-> "up", loaded |-> disk] /\ post = [p \in Posts |-> Config!NoPost]
BY <1>1 DEF Config!Init
<1>3. ScopeTypes /\ config.first \in Documents /\ Config!Valid(config.first) BY <1>2, ConfigAssumption DEF ScopeTypes, Documents
<1>4. disk \in Contents /\ disk.doc = config.first /\ disk.save = 0 BY <1>2, <1>3 DEF Contents, Config!Content
<1>5. Config!Empty \in Documents BY DEF Config!Empty, Config!Absent, Documents
<1>6. Config!NoPost \in SavePosts /\ Config!NoPost.at = "none" /\ Config!NoPost.save = 0 BY <1>5 DEF Config!NoPost, SavePosts, Steps
<1>7. PostTypes /\ \A p \in Posts : post[p].at = "none" /\ post[p].save = 0 BY <1>2, <1>6 DEF PostTypes
<1>8. DiskTypes /\ ProcessTypes /\ ContentsLoad BY <1>2, <1>3, <1>4 DEF DiskTypes, ProcessTypes, ContentsLoad
<1>9. AckedIsKept BY <1>2, <1>4, <1>7 DEF AckedIsKept
<1>10. SavesAreCounted BY <1>2, <1>4, SavesFinite DEF SavesAreCounted
<1>11. AskedTypes /\ SavedHasRenamed /\ AdmittedIs /\ WrittenIsApplied
BY <1>7 DEF AskedTypes, SavedHasRenamed, AdmittedIs, WrittenIsApplied
<1>12. SyncedIsFlushed /\ TempsAreOwn /\ Config!TempsAreTidied BY <1>2, <1>7 DEF SyncedIsFlushed, TempsAreOwn, Config!TempsAreTidied
<1>. QED BY <1>3, <1>7, <1>8, <1>9, <1>10, <1>11, <1>12 DEF FileInv
LEMMA ConfigCardinality == \A S : Config!Cardinality(S) = Cardinality(S)
BY DEF Config!Cardinality, Cardinality
LEMMA FileTypeOK == FileInv => Config!TypeOK
<1>. USE DEF FileInv
<1>. SUFFICES ASSUME FileInv PROVE Config!TypeOK OBVIOUS
<1>1. disk \in durable /\ disk \in Contents /\ acked \in Nat BY DEF DiskTypes
<1>2. disk.doc \in [Config!Keys -> -1 .. 2] /\ disk.save \in Nat BY <1>1 DEF Contents, Documents
<1>3. acked <= disk.save /\ disk.save <= Cardinality(SavedPosts) BY <1>1 DEF AckedIsKept, SavesAreCounted
<1>4. acked <= Cardinality(Posts) BY <1>1, <1>2, <1>3, SavesFinite
<1>5. acked \in 0 .. Config!Cardinality(Posts) BY <1>1, <1>4, SavesFinite, ConfigCardinality
<1>6. \A p \in Posts : post[p].at \in Steps BY PostTyped
<1>7. process.is \in {"up", "stopping", "down", "refusing"} BY DEF ProcessTypes
<1>8. temps \subseteq Posts /\ flushed \subseteq temps /\ durable # {} BY <1>1 DEF TempsAreOwn
<1>. QED BY <1>2, <1>5, <1>6, <1>7, <1>8 DEF Config!TypeOK, Steps, Config!Absent
LEMMA SavesSay == FileInv => Config!SavedAsAsked
<1>. SUFFICES ASSUME FileInv, NEW p \in Posts, post[p].save > 0
     PROVE LET was == post[p].data  asked == post[p].asked  doc == post[p].doc  c == Config!Effective(doc)
           IN /\ \A k \in Config!Foreign : doc[k] = was[k]
              /\ \A k \in Config!Owned :
                   IF asked[k] = Config!Keep THEN doc[k] = was[k]
                   ELSE c[k] = asked[k] \/ (k = "reliability" /\ was[k] = Config!Absent /\ asked[k] = 0)
BY DEF Config!SavedAsAsked
<1>1. post[p].doc = Config!Applied(post[p].data, post[p].asked) /\ Config!Admits(post[p].asked) BY DEF FileInv, WrittenIsApplied
<1>2. post[p].at # "none" BY DEF FileInv, SavedHasRenamed
<1>3. post[p].asked \in Asked /\ post[p].data \in Documents BY <1>2, PostTyped DEF FileInv, AskedTypes
<1>4. \A k \in Config!Foreign : post[p].doc[k] = post[p].data[k] BY <1>1, AppliedIs
<1>5. ASSUME NEW k \in Config!Owned
      PROVE  IF post[p].asked[k] = Config!Keep THEN post[p].doc[k] = post[p].data[k]
             ELSE \/ Config!Effective(post[p].doc)[k] = post[p].asked[k]
                  \/ k = "reliability" /\ post[p].data[k] = Config!Absent /\ post[p].asked[k] = 0
BY <1>1, <1>3, AppliedSays
<1>. QED BY <1>4, <1>5

\* The part of MCServices that moves is Configuration or leaves it alone.
LEMMA FileMoves == [Next]_vars => [Config!Next]_configVars
BY DEF Next, vars, configVars, Config!configVars

\* However saves, hand edits, restarts, kills and power losses overlap: the file is one a start accepts, says what the form said,
\* keeps the secrets and the keys the view does not know, is never older than what was answered with success, and no temporary
\* file is left by a save that ended (ApplySettings, atomicWrite, LoadBytes).
THEOREM FileHolds == Spec => []FileIsSound
<1>1. Init => FileInv BY FileInit, ConfigAssumption DEF Init
<1>2. FileInv /\ [Next]_vars => FileInv' BY FileMoves, FileStep
<1>3. FileInv => FileIsSound
  <2>1. SUFFICES ASSUME FileInv PROVE FileIsSound OBVIOUS
  <2>2. Config!FileLoads BY <2>1 DEF FileInv, ContentsLoad, DiskTypes, ProcessTypes, Config!FileLoads
  <2>3. Config!AckedIsOnDisk BY <2>1 DEF FileInv, AckedIsKept, DiskTypes, Config!AckedIsOnDisk
  <2>4. Config!TypeOK /\ Config!SavedAsAsked /\ Config!TempsAreTidied BY <2>1, FileTypeOK, SavesSay DEF FileInv
  <2>. QED BY <2>2, <2>3, <2>4 DEF FileIsSound, Config!FileIsSound
<1>. QED BY <1>1, <1>2, <1>3, PTL DEF Spec

(***************************************************************************)
(* RunnerHealth: a slow module is no hanging one                           *)
(***************************************************************************)
Timings == [interval : Nat \ {0}, limit : Nat, failing : Nat, hangs : Nat]
HealthTypes ==
  /\ timing \in Timings
  /\ loop \in [Modules -> {"waiting", "ticking", "hung"}] /\ since \in [Modules -> 0 .. Health!StaleDeadline + 1]
  /\ ticker \in [Modules -> [left : 1 .. timing.interval, kept : BOOLEAN]]
  /\ status \in [Modules -> [failures : 0 .. 3, succeeded : BOOLEAN]]
\* A tick is no longer under way than its limit; a module that waits does so until its ticker fires, and not beyond.
TicksAreTimely ==
  \A m \in Modules :
    /\ loop[m] = "ticking" => since[m] <= timing.limit
    /\ loop[m] = "waiting" => since[m] + (IF ticker[m].kept THEN 0 ELSE ticker[m].left) <= timing.limit + timing.interval
HealthInv == HealthTypes /\ TicksAreTimely

LEMMA HealthBegins == Health!Init => HealthInv
<1>. USE DEF Health!Init
<1>. SUFFICES ASSUME Health!Init PROVE HealthInv OBVIOUS
<1>1. timing \in Timings BY HealthAssumption DEF Timings
<1>2. timing.interval \in Nat \ {0} /\ timing.limit \in Nat BY <1>1 DEF Timings
<1>3. 0 \in 0 .. Health!StaleDeadline + 1 /\ timing.interval \in 1 .. timing.interval BY <1>2 DEF Health!StaleDeadline
<1>4. HealthTypes BY <1>1, <1>3 DEF HealthTypes
<1>5. TicksAreTimely BY <1>2 DEF TicksAreTimely
<1>. QED BY <1>4, <1>5 DEF HealthInv

LEMMA HealthStep == HealthInv /\ [Health!Next]_healthVars => HealthInv'
<1>. SUFFICES ASSUME HealthInv, [Health!Next]_healthVars PROVE HealthInv' OBVIOUS
<1>. DEFINE S == 3 * timing.interval + timing.limit
<1>1. timing \in Timings /\ timing.interval \in Nat \ {0} /\ timing.limit \in Nat /\ timing.failing \in Nat /\ timing.hangs \in Nat
BY DEF HealthInv, HealthTypes, Timings
<1>2. Health!StaleDeadline = S /\ S \in Nat /\ timing.limit + timing.interval <= S BY <1>1 DEF Health!StaleDeadline
<1>3. /\ loop \in [Modules -> {"waiting", "ticking", "hung"}] /\ since \in [Modules -> 0 .. S + 1]
      /\ ticker \in [Modules -> [left : 1 .. timing.interval, kept : BOOLEAN]]
      /\ status \in [Modules -> [failures : 0 .. 3, succeeded : BOOLEAN]] /\ TicksAreTimely
BY <1>2 DEF HealthInv, HealthTypes
<1>4. \A m \in Modules :
         /\ ticker[m] \in [left : 1 .. timing.interval, kept : BOOLEAN]
         /\ ticker[m].left \in 1 .. timing.interval /\ ticker[m].kept \in BOOLEAN /\ since[m] \in 0 .. S + 1
BY <1>3
<1>. HIDE DEF S
\* The numbers that count stay what they are.
<1>5. ASSUME timing' \in Timings, timing'.interval = timing.interval, timing'.limit = timing.limit,
             loop' \in [Modules -> {"waiting", "ticking", "hung"}], since' \in [Modules -> 0 .. S + 1],
             ticker' \in [Modules -> [left : 1 .. timing.interval, kept : BOOLEAN]],
             status' \in [Modules -> [failures : 0 .. 3, succeeded : BOOLEAN]],
             \A m \in Modules :
               /\ loop'[m] = "ticking" => since'[m] <= timing.limit
               /\ loop'[m] = "waiting" => since'[m] + (IF ticker'[m].kept THEN 0 ELSE ticker'[m].left) <= timing.limit + timing.interval
      PROVE  HealthInv'
  <2>1. Health!StaleDeadline' = Health!StaleDeadline BY <1>1, <1>5 DEF Health!StaleDeadline
  <2>. QED BY <1>2, <1>5, <2>1 DEF HealthInv, HealthTypes, TicksAreTimely
<1>6. CASE UNCHANGED healthVars BY <1>1, <1>3, <1>5, <1>6 DEF healthVars, TicksAreTimely
<1>7. ASSUME NEW m \in Modules, Health!Begin(m) PROVE HealthInv'
  <2>1. /\ loop' = [loop EXCEPT ![m] = "ticking"] /\ since' = [since EXCEPT ![m] = 0]
        /\ ticker' = [ticker EXCEPT ![m].kept = FALSE] /\ UNCHANGED <<timing, status>> BY <1>7 DEF Health!Begin
  <2>2. /\ loop' \in [Modules -> {"waiting", "ticking", "hung"}] /\ since' \in [Modules -> 0 .. S + 1]
        /\ ticker' \in [Modules -> [left : 1 .. timing.interval, kept : BOOLEAN]]
    <3>1. 0 \in 0 .. S + 1 BY <1>2
    <3>2. [ticker[m] EXCEPT !.kept = FALSE] \in [left : 1 .. timing.interval, kept : BOOLEAN] BY <1>4
    <3>3. loop' \in [Modules -> {"waiting", "ticking", "hung"}] /\ since' \in [Modules -> 0 .. S + 1] BY <1>3, <2>1, <3>1
    <3>4. ticker' \in [Modules -> [left : 1 .. timing.interval, kept : BOOLEAN]] BY <1>3, <2>1, <3>2
    <3>. QED BY <3>3, <3>4
  <2>3. \A n \in Modules : IF n = m THEN loop'[n] = "ticking" /\ since'[n] = 0
                           ELSE loop'[n] = loop[n] /\ since'[n] = since[n] /\ ticker'[n] = ticker[n] BY <1>3, <2>1
  <2>4. \A n \in Modules :
          /\ loop'[n] = "ticking" => since'[n] <= timing.limit
          /\ loop'[n] = "waiting" => since'[n] + (IF ticker'[n].kept THEN 0 ELSE ticker'[n].left) <= timing.limit + timing.interval
    BY <1>1, <1>3, <2>3 DEF TicksAreTimely
  <2>. QED BY <1>1, <1>3, <1>5, <2>1, <2>2, <2>4
<1>8. ASSUME NEW m \in Modules, NEW ok \in BOOLEAN, Health!Finish(m, ok) PROVE HealthInv'
  <2>1. /\ loop[m] = "ticking" /\ (ok \/ timing.failing > 0)
        /\ timing' = IF ok THEN timing ELSE [timing EXCEPT !.failing = timing.failing - 1]
        /\ loop' = [loop EXCEPT ![m] = "waiting"] /\ ticker' = Health!Rearm(m) /\ status' = [status EXCEPT ![m] = Health!Recorded(m, ok)]
        /\ since' = since BY <1>8 DEF Health!Finish
  <2>2. timing' \in Timings /\ timing'.interval = timing.interval /\ timing'.limit = timing.limit BY <1>1, <2>1 DEF Timings
  <2>3. [left |-> timing.interval, kept |-> FALSE] \in [left : 1 .. timing.interval, kept : BOOLEAN] BY <1>1
  <2>4. /\ ticker' \in [Modules -> [left : 1 .. timing.interval, kept : BOOLEAN]]
        /\ \A n \in Modules \ {m} : ticker'[n] = ticker[n] BY <1>3, <2>1, <2>3 DEF Health!Rearm
  <2>5. Health!Recorded(m, ok) \in [failures : 0 .. 3, succeeded : BOOLEAN]
    BY <1>3 DEF Health!Recorded, Health!ReadinessFailureThreshold
  <2>6. status' \in [Modules -> [failures : 0 .. 3, succeeded : BOOLEAN]] BY <1>3, <2>1, <2>5
  <2>7. loop' \in [Modules -> {"waiting", "ticking", "hung"}] /\ loop'[m] = "waiting" /\ \A n \in Modules \ {m} : loop'[n] = loop[n]
    BY <1>3, <2>1
  <2>8. ticker'[m].left <= timing.interval /\ ticker'[m].left \in Nat /\ since[m] \in Nat /\ since[m] <= timing.limit
    <3>1. ticker'[m] \in [left : 1 .. timing.interval, kept : BOOLEAN] BY <2>4
    <3>2. ticker'[m].left \in 1 .. timing.interval BY <3>1
    <3>3. since[m] \in Nat BY <1>2, <1>4
    <3>. QED BY <1>1, <1>3, <2>1, <3>2, <3>3 DEF TicksAreTimely
  <2>9. \A n \in Modules :
          /\ loop'[n] = "ticking" => since'[n] <= timing.limit
          /\ loop'[n] = "waiting" => since'[n] + (IF ticker'[n].kept THEN 0 ELSE ticker'[n].left) <= timing.limit + timing.interval
    <3>1. TAKE n \in Modules
    <3>2. CASE n = m BY <1>1, <2>1, <2>7, <2>8, <3>2
    <3>3. CASE n # m BY <1>3, <2>1, <2>4, <2>7, <3>3 DEF TicksAreTimely
    <3>. QED BY <3>2, <3>3
  <2>. QED BY <1>3, <1>5, <2>1, <2>2, <2>4, <2>6, <2>7, <2>9
<1>9. ASSUME NEW m \in Modules, Health!Hang(m) PROVE HealthInv'
  <2>1. /\ timing.hangs > 0 /\ timing' = [timing EXCEPT !.hangs = timing.hangs - 1] /\ loop' = [loop EXCEPT ![m] = "hung"]
        /\ UNCHANGED <<since, ticker, status>> BY <1>9 DEF Health!Hang
  <2>2. timing' \in Timings /\ timing'.interval = timing.interval /\ timing'.limit = timing.limit BY <1>1, <2>1 DEF Timings
  <2>3. loop' \in [Modules -> {"waiting", "ticking", "hung"}] /\ loop'[m] = "hung" /\ \A n \in Modules \ {m} : loop'[n] = loop[n]
    BY <1>3, <2>1
  <2>4. \A n \in Modules :
          /\ loop'[n] = "ticking" => since'[n] <= timing.limit
          /\ loop'[n] = "waiting" => since'[n] + (IF ticker'[n].kept THEN 0 ELSE ticker'[n].left) <= timing.limit + timing.interval
    BY <1>3, <2>1, <2>3 DEF TicksAreTimely
  <2>. QED BY <1>3, <1>5, <2>1, <2>2, <2>3, <2>4
<1>10. CASE Health!Pass
  <2>1. /\ \A m \in Modules : ~Health!Due(m)
        /\ since' = [m \in Modules |-> IF since[m] > S THEN since[m] ELSE since[m] + 1]
        /\ ticker' = [m \in Modules |->
             IF ticker[m].left > 1 THEN [ticker[m] EXCEPT !.left = ticker[m].left - 1] ELSE [left |-> timing.interval, kept |-> TRUE]]
        /\ UNCHANGED <<timing, loop, status>> BY <1>2, <1>10 DEF Health!Pass
  <2>2. since' \in [Modules -> 0 .. S + 1] BY <1>2, <1>3, <2>1
  <2>3. \A m \in Modules : /\ ticker'[m] \in [left : 1 .. timing.interval, kept : BOOLEAN]
                           /\ ticker[m].left \in 1 .. timing.interval
                           /\ IF ticker[m].left > 1 THEN ticker'[m].left = ticker[m].left - 1 /\ ticker'[m].kept = ticker[m].kept
                              ELSE ticker'[m].kept = TRUE
    <3>1. TAKE m \in Modules
    <3>2. CASE ticker[m].left > 1
      <4>1. ticker'[m] = [ticker[m] EXCEPT !.left = ticker[m].left - 1] BY <2>1, <3>2
      <4>2. ticker[m].left - 1 \in 1 .. timing.interval BY <1>1, <1>4, <3>2
      <4>. QED BY <1>4, <3>2, <4>1, <4>2
    <3>3. CASE ~(ticker[m].left > 1)
      <4>1. ticker'[m] = [left |-> timing.interval, kept |-> TRUE] BY <2>1, <3>3
      <4>2. timing.interval \in 1 .. timing.interval BY <1>1
      <4>3. ticker'[m] \in [left : 1 .. timing.interval, kept : BOOLEAN] BY <4>1, <4>2
      <4>4. ticker'[m].kept = TRUE BY <4>1
      <4>. QED BY <1>4, <3>3, <4>3, <4>4
    <3>. QED BY <3>2, <3>3
  <2>4. ticker' \in [Modules -> [left : 1 .. timing.interval, kept : BOOLEAN]] BY <2>1, <2>3
  <2>5. ASSUME NEW m \in Modules
        PROVE  /\ loop'[m] = "ticking" => since'[m] <= timing.limit
               /\ loop'[m] = "waiting" => since'[m] + (IF ticker'[m].kept THEN 0 ELSE ticker'[m].left) <= timing.limit + timing.interval
    <3>1. ~Health!Due(m) /\ since[m] \in Nat /\ since'[m] \in Nat /\ since'[m] <= since[m] + 1 /\ loop'[m] = loop[m]
      BY <1>2, <1>3, <2>1
    <3>2. loop[m] = "ticking" => since[m] < timing.limit BY <1>1, <3>1 DEF Health!Due
    <3>3. loop[m] = "waiting" => ~ticker[m].kept /\ since[m] + ticker[m].left <= timing.limit + timing.interval
      BY <1>3, <3>1 DEF Health!Due, TicksAreTimely
    <3>. QED BY <1>1, <2>3, <3>1, <3>2, <3>3
  <2>. QED BY <1>1, <1>3, <1>5, <2>1, <2>2, <2>4, <2>5
<1>. QED BY <1>6, <1>7, <1>8, <1>9, <1>10 DEF Health!Next

LEMMA HealthSays == HealthInv => Health!TypeOK /\ Health!NoFalseAlarm
<1>. USE DEF HealthInv, HealthTypes
<1>. SUFFICES ASSUME HealthInv PROVE Health!TypeOK /\ Health!NoFalseAlarm OBVIOUS
<1>1. timing.interval \in Nat \ {0} /\ timing.limit \in Nat BY DEF Timings
<1>2. Health!TypeOK BY DEF Health!TypeOK, Health!ReadinessFailureThreshold
<1>3. ASSUME NEW m \in Modules, loop[m] # "hung" PROVE Health!IsLive(m)
  <2>1. since[m] \in Nat /\ ticker[m].left \in Nat BY <1>1, <1>3 DEF Health!StaleDeadline
  <2>2. loop[m] \in {"waiting", "ticking"} BY <1>3
  <2>. QED BY <1>1, <1>3, <2>1, <2>2 DEF TicksAreTimely, Health!IsLive, Health!StaleDeadline
<1>4. Health!NoFalseAlarm BY <1>3 DEF Health!NoFalseAlarm, Health!Live
<1>. QED BY <1>2, <1>4

\* The part of MCServices that moves is RunnerHealth or leaves it alone.
LEMMA HealthMoves == [Next]_vars => [Health!Next]_healthVars
BY DEF Next, vars

\* As long as no tick hangs the process is reported alive, whatever the interval and the time limit are, however many modules
\* there are and however often their ticks fail (runTick, StaleDeadline of Health).
THEOREM SlowIsNotDead == Spec => [](Health!TypeOK /\ Health!NoFalseAlarm)
<1>1. Init => HealthInv BY HealthBegins DEF Init
<1>2. HealthInv /\ [Next]_vars => HealthInv' BY HealthMoves, HealthStep
<1>. QED BY <1>1, <1>2, HealthSays, PTL DEF Spec

(***************************************************************************)
(* Library: what a request for an artist is told                           *)
(***************************************************************************)
AddPlaces == {"new", "invalid", "roots", "lookup", "create", "waiting", "recheck", "looked", "added", "already", "failed", "uncertain"}
Seen == {"nothing", "found", "absent", "error"}
LibraryTypes ==
  /\ lidarr \in [attempts : Nat \ {0}, faults : Nat] /\ artist \in BOOLEAN
  /\ create \in [Adds -> {"none", "under way", "landed", "refused", "lost"}]
  /\ add \in [Adds -> [at : AddPlaces, looks : 0 .. lidarr.attempts, saw : Seen]]
\* A request looks again only after it has waited, and not after its last look.
LooksAreLeft ==
  \A a \in Adds :
    /\ add[a].at \in {"new", "roots", "lookup", "create", "waiting"} => add[a].looks = 0
    /\ add[a].at = "recheck" => add[a].looks < lidarr.attempts
\* What was created or refused tells that the artist is there, and Lidarr keeps it.
AnswersAreTrue ==
  /\ \A a \in Adds : add[a].at \in {"added", "already"} \/ add[a].saw = "found" \/ create[a] \in {"landed", "refused"} => artist
  /\ \A a, b \in Adds : create[a] = "landed" /\ create[b] = "landed" => a = b
LibraryInv == LibraryTypes /\ LooksAreLeft /\ AnswersAreTrue

LEMMA LibraryBegins == Artists!Init => LibraryInv
<1>. USE DEF Artists!Init
<1>. SUFFICES ASSUME Artists!Init PROVE LibraryInv OBVIOUS
<1>1. lidarr \in [attempts : Nat \ {0}, faults : Nat] BY LibraryAssumption
<1>2. 0 \in 0 .. lidarr.attempts BY <1>1
<1>3. [at |-> "new", looks |-> 0, saw |-> "nothing"] \in [at : AddPlaces, looks : 0 .. lidarr.attempts, saw : Seen]
BY <1>2 DEF AddPlaces, Seen
<1>4. LibraryTypes BY <1>1, <1>3 DEF LibraryTypes
<1>5. LooksAreLeft /\ AnswersAreTrue BY DEF LooksAreLeft, AnswersAreTrue
<1>. QED BY <1>4, <1>5 DEF LibraryInv

LEMMA LibraryIs ==
  ASSUME LibraryInv
  PROVE  /\ lidarr.attempts \in Nat /\ 0 < lidarr.attempts /\ lidarr.faults \in Nat
         /\ add \in [Adds -> [at : AddPlaces, looks : 0 .. lidarr.attempts, saw : Seen]]
<1>1. lidarr \in [attempts : Nat \ {0}, faults : Nat] BY DEF LibraryInv, LibraryTypes
<1>2. lidarr.attempts \in Nat \ {0} /\ lidarr.faults \in Nat BY <1>1
<1>3. lidarr.attempts \in Nat /\ 0 < lidarr.attempts BY <1>2
<1>. QED BY <1>2, <1>3 DEF LibraryInv, LibraryTypes

\* The other requests stay where they are.
LEMMA MovesOne ==
  ASSUME LibraryInv, NEW a \in Adds, NEW x, NEW y \in AddPlaces, Artists!Moves(a, x, y)
  PROVE  /\ add[a].at = x /\ add' \in [Adds -> [at : AddPlaces, looks : 0 .. lidarr.attempts, saw : Seen]]
         /\ add'[a].at = y /\ add'[a].looks = add[a].looks /\ add'[a].saw = add[a].saw
         /\ \A b \in Adds \ {a} : add'[b] = add[b]
BY DEF Artists!Moves, LibraryInv, LibraryTypes

LEMMA LidarrSpends ==
  ASSUME LibraryInv, lidarr' = lidarr \/ Artists!Spend("faults")
  PROVE  lidarr' \in [attempts : Nat \ {0}, faults : Nat] /\ lidarr'.attempts = lidarr.attempts
<1>1. lidarr \in [attempts : Nat \ {0}, faults : Nat] BY DEF LibraryInv, LibraryTypes
<1>2. CASE Artists!Spend("faults")
  <2>1. lidarr.faults \in Nat /\ lidarr.faults > 0 /\ lidarr' = [lidarr EXCEPT !.faults = lidarr.faults - 1]
    BY <1>1, <1>2 DEF Artists!Spend
  <2>2. lidarr.faults - 1 \in Nat BY <2>1
  <2>. QED BY <1>1, <2>1, <2>2
<1>. QED BY <1>1, <1>2

\* A request takes a step that Lidarr does not notice.
LEMMA StepKeeps ==
  ASSUME LibraryInv, NEW a \in Adds, UNCHANGED <<artist, create>>, lidarr' = lidarr \/ Artists!Spend("faults"),
         add' \in [Adds -> [at : AddPlaces, looks : 0 .. lidarr.attempts, saw : Seen]],
         \A b \in Adds \ {a} : add'[b] = add[b],
         add'[a].at \in {"added", "already"} \/ add'[a].saw = "found" => artist,
         add'[a].at \in {"new", "roots", "lookup", "create", "waiting"} => add'[a].looks = 0,
         add'[a].at = "recheck" => add'[a].looks < lidarr.attempts
  PROVE  LibraryInv'
<1>. USE DEF LibraryInv
<1>1. lidarr' \in [attempts : Nat \ {0}, faults : Nat] /\ lidarr'.attempts = lidarr.attempts BY LidarrSpends
<1>2. LibraryTypes' BY <1>1 DEF LibraryTypes
<1>3. LooksAreLeft' BY <1>1 DEF LooksAreLeft
<1>4. AnswersAreTrue' BY DEF AnswersAreTrue
<1>. QED BY <1>2, <1>3, <1>4

\* A look finds the artist, or does not, or fails.
LEMMA LookIs ==
  ASSUME LibraryInv, NEW a \in Adds, Artists!Look(a)
  PROVE  /\ add[a].at = "recheck"
         /\ add' \in [Adds -> [at : AddPlaces, looks : 0 .. lidarr.attempts, saw : Seen]]
         /\ \A b \in Adds \ {a} : add'[b] = add[b]
         /\ add'[a].at = "looked"
         /\ add'[a].saw = "found" => artist
         /\ add'[a].saw = "absent" => ~artist
         /\ UNCHANGED <<artist, create>> /\ (lidarr' = lidarr \/ Artists!Spend("faults"))
<1>. DEFINE n == add[a].looks + 1
<1>1. add[a].at = "recheck" /\ n \in 0 .. lidarr.attempts
  <2>1. add[a].looks \in 0 .. lidarr.attempts /\ lidarr.attempts \in Nat BY LibraryIs
  <2>. QED BY <2>1 DEF Artists!Look, LibraryInv, LooksAreLeft
<1>2. PICK saw \in {"found", "absent", "error"} :
        /\ add' = [add EXCEPT ![a] = [at |-> "looked", looks |-> n, saw |-> saw]]
        /\ saw = "found" => artist
        /\ saw = "absent" => ~artist
        /\ lidarr' = lidarr \/ Artists!Spend("faults")
BY DEF Artists!Look
<1>. HIDE DEF n
<1>3. [at |-> "looked", looks |-> n, saw |-> saw] \in [at : AddPlaces, looks : 0 .. lidarr.attempts, saw : Seen]
BY <1>1 DEF AddPlaces, Seen
<1>4. UNCHANGED <<artist, create>> BY DEF Artists!Look, Artists!LidarrUnchanged
<1>5. /\ add' \in [Adds -> [at : AddPlaces, looks : 0 .. lidarr.attempts, saw : Seen]]
      /\ add'[a] = [at |-> "looked", looks |-> n, saw |-> saw] /\ \A b \in Adds \ {a} : add'[b] = add[b]
BY <1>2, <1>3, LibraryIs
<1>. QED BY <1>1, <1>2, <1>4, <1>5

\* What is made of a look.
LEMMA ConcludeIs ==
  ASSUME LibraryInv, NEW a \in Adds, Artists!Conclude(a)
  PROVE  /\ Artists!Moves(a, "looked", Artists!After(a)) /\ UNCHANGED <<artist, create, lidarr>>
         /\ Artists!After(a) \in AddPlaces /\ Artists!After(a) \in {"added", "recheck", "uncertain", "failed"}
         /\ Artists!After(a) = "added" => artist
         /\ Artists!After(a) = "failed" => add[a].saw \notin {"found", "error"}
         /\ Artists!After(a) = "recheck" => add[a].looks < lidarr.attempts
<1>1. add[a].saw = "found" => artist BY DEF LibraryInv, AnswersAreTrue
<1>. QED BY <1>1 DEF Artists!Conclude, Artists!After, Artists!Verdict, Artists!LidarrUnchanged, AddPlaces

LEMMA LibraryStep == LibraryInv /\ [Artists!Next]_libraryVars => LibraryInv'
<1>. USE DEF LibraryInv
<1>. SUFFICES ASSUME LibraryInv, [Artists!Next]_libraryVars PROVE LibraryInv' OBVIOUS
<1>1. CASE UNCHANGED libraryVars BY <1>1 DEF libraryVars, LibraryTypes, LooksAreLeft, AnswersAreTrue
\* A request goes from one place to another.
<1>2. ASSUME NEW a \in Adds, NEW x \in AddPlaces, NEW y \in AddPlaces, Artists!Moves(a, x, y), UNCHANGED <<artist, create>>,
             lidarr' = lidarr \/ Artists!Spend("faults"),
             y \in {"added", "already"} => artist,
             y \in {"new", "roots", "lookup", "create", "waiting", "recheck"} => x \in {"new", "roots", "lookup", "create", "waiting"}
      PROVE  LibraryInv'
  <2>1. /\ add[a].at = x /\ add' \in [Adds -> [at : AddPlaces, looks : 0 .. lidarr.attempts, saw : Seen]]
        /\ add'[a].at = y /\ add'[a].looks = add[a].looks /\ add'[a].saw = add[a].saw /\ \A b \in Adds \ {a} : add'[b] = add[b]
    BY <1>2, MovesOne
  <2>2. y \in {"new", "roots", "lookup", "create", "waiting", "recheck"} => add'[a].looks = 0 BY <1>2, <2>1 DEF LooksAreLeft
  <2>3. 0 < lidarr.attempts BY LibraryIs
  <2>4. add[a].saw = "found" => artist BY DEF AnswersAreTrue
  <2>. QED BY <1>2, <2>1, <2>2, <2>3, <2>4, StepKeeps
<1>3. ASSUME NEW a \in Adds, Artists!Admit(a) PROVE LibraryInv'
BY <1>2, <1>3 DEF Artists!Admit, Artists!LidarrUnchanged, AddPlaces
<1>4. ASSUME NEW a \in Adds, Artists!CheckRoots(a) PROVE LibraryInv'
BY <1>2, <1>4 DEF Artists!CheckRoots, Artists!LidarrUnchanged, AddPlaces
<1>5. ASSUME NEW a \in Adds, Artists!FindArtist(a) PROVE LibraryInv'
BY <1>2, <1>5 DEF Artists!FindArtist, Artists!LidarrUnchanged, AddPlaces
<1>6. ASSUME NEW a \in Adds, Artists!AddArtist(a) PROVE LibraryInv'
  <2>1. Artists!Moves(a, "create", "waiting") /\ create' = [create EXCEPT ![a] = "under way"] /\ UNCHANGED <<lidarr, artist>>
    BY <1>6 DEF Artists!AddArtist
  <2>2. /\ add[a].at = "create" /\ add' \in [Adds -> [at : AddPlaces, looks : 0 .. lidarr.attempts, saw : Seen]]
        /\ add'[a].at = "waiting" /\ add'[a].looks = add[a].looks /\ add'[a].saw = add[a].saw /\ \A b \in Adds \ {a} : add'[b] = add[b]
    BY <2>1, MovesOne DEF AddPlaces
  <2>3. LibraryTypes' BY <2>1, <2>2 DEF LibraryTypes
  <2>4. LooksAreLeft' BY <2>1, <2>2 DEF LooksAreLeft
  <2>5. AnswersAreTrue' BY <2>1, <2>2 DEF LibraryTypes, AnswersAreTrue
  <2>. QED BY <2>3, <2>4, <2>5
<1>7. ASSUME NEW a \in Adds, Artists!Answered(a) PROVE LibraryInv'
  <2>1. artist BY <1>7 DEF Artists!Answered, AnswersAreTrue
  <2>. QED BY <1>2, <1>7, <2>1 DEF Artists!Answered, Artists!LidarrUnchanged, AddPlaces
<1>8. ASSUME NEW a \in Adds, Artists!BreakOff(a) PROVE LibraryInv'
BY <1>2, <1>8 DEF Artists!BreakOff, Artists!LidarrUnchanged, AddPlaces
<1>9. ASSUME NEW a \in Adds, Artists!Look(a) PROVE LibraryInv' BY <1>9, LookIs, StepKeeps
<1>12. ASSUME NEW a \in Adds, Artists!Conclude(a) PROVE LibraryInv'
  <2>1. add[a].saw = "found" => artist BY DEF AnswersAreTrue
  <2>. QED BY <1>12, <2>1, ConcludeIs, MovesOne, StepKeeps
<1>10. ASSUME NEW a \in Adds, Artists!Expire(a) PROVE LibraryInv'
BY <1>2, <1>10 DEF Artists!Expire, Artists!LidarrUnchanged, AddPlaces
<1>11. ASSUME NEW a \in Adds, Artists!Land(a) \/ Artists!Lose(a) PROVE LibraryInv'
  <2>1. UNCHANGED <<lidarr, add>> /\ create[a] = "under way"
        /\ \/ create' = [create EXCEPT ![a] = IF artist THEN "refused" ELSE "landed"] /\ artist' = TRUE
           \/ create' = [create EXCEPT ![a] = "lost"] /\ artist' = artist
    BY <1>11 DEF Artists!Land, Artists!Lose
  <2>2. LibraryTypes' BY <2>1 DEF LibraryTypes
  <2>3. LooksAreLeft' BY <2>1 DEF LooksAreLeft
  <2>4. AnswersAreTrue' BY <2>1 DEF LibraryTypes, AnswersAreTrue
  <2>. QED BY <2>2, <2>3, <2>4
<1>. QED BY <1>1, <1>3, <1>4, <1>5, <1>6, <1>7, <1>8, <1>9, <1>10, <1>11, <1>12 DEF Artists!Next, Artists!Steps

\* Where a request for an artist that Lidarr has may be once it looks for it.
Found(b) == artist /\ (add[b].at \in {"recheck", "added", "uncertain"} \/ (add[b].at = "looked" /\ add[b].saw \in {"found", "error"}))
LEMMA FoundStays ==
  ASSUME LibraryInv, [Artists!Next]_libraryVars, NEW b \in Adds, Found(b)
  PROVE  Found(b)'
<1>1. CASE UNCHANGED libraryVars BY <1>1 DEF libraryVars, Found
<1>2. ASSUME NEW a \in Adds, Artists!Land(a) \/ Artists!Lose(a) PROVE Found(b)'
BY <1>2 DEF Artists!Land, Artists!Lose, Found
<1>3. ASSUME NEW a \in Adds, Artists!Look(a) PROVE Found(b)'
  <2>1. UNCHANGED artist /\ add'[a].at = "looked" /\ add'[a].saw \in Seen /\ (add'[a].saw = "absent" => ~artist) BY <1>3, LookIs
  <2>2. add'[a].saw # "nothing" BY <1>3, LibraryIs DEF Artists!Look
  <2>3. \A c \in Adds \ {a} : add'[c] = add[c] BY <1>3, LookIs
  <2>. QED BY <2>1, <2>2, <2>3 DEF Found, Seen
<1>4. ASSUME NEW a \in Adds, Artists!Conclude(a) PROVE Found(b)'
  <2>1. /\ UNCHANGED artist /\ add[a].at = "looked" /\ add'[a].at = Artists!After(a) /\ \A c \in Adds \ {a} : add'[c] = add[c]
        /\ Artists!After(a) \in {"added", "recheck", "uncertain", "failed"}
        /\ Artists!After(a) = "failed" => add[a].saw \notin {"found", "error"}
    BY <1>4, ConcludeIs, MovesOne
  <2>. QED BY <2>1 DEF Found
<1>5. ASSUME NEW a \in Adds, Artists!Expire(a) PROVE Found(b)'
  <2>1. UNCHANGED artist /\ add'[a].at = "uncertain" /\ \A c \in Adds \ {a} : add'[c] = add[c]
    BY <1>5, MovesOne DEF Artists!Expire, Artists!LidarrUnchanged, AddPlaces
  <2>. QED BY <2>1 DEF Found
<1>6. ASSUME NEW a \in Adds, NEW x \in {"new", "roots", "lookup", "create", "waiting"}, NEW y \in AddPlaces,
             Artists!Moves(a, x, y), artist' = artist
      PROVE  Found(b)'
  <2>1. add[a].at = x /\ \A c \in Adds \ {a} : add'[c] = add[c] BY <1>6, MovesOne
  <2>. QED BY <1>6, <2>1 DEF Found
<1>7. ASSUME NEW a \in Adds, Artists!Admit(a) \/ Artists!CheckRoots(a) \/ Artists!FindArtist(a) \/ Artists!AddArtist(a)
                             \/ Artists!Answered(a) \/ Artists!BreakOff(a)
      PROVE  Found(b)'
  <2>1. artist' = artist
        /\ \E x \in {"new", "roots", "lookup", "create", "waiting"} : \E y \in AddPlaces : Artists!Moves(a, x, y)
    BY <1>7 DEF Artists!Admit, Artists!CheckRoots, Artists!FindArtist, Artists!AddArtist, Artists!Answered, Artists!BreakOff,
         Artists!LidarrUnchanged, AddPlaces
  <2>. QED BY <1>6, <2>1
<1>. QED BY <1>1, <1>2, <1>3, <1>4, <1>5, <1>7 DEF Artists!Next, Artists!Steps

LEMMA LibrarySays == LibraryInv => Artists!TypeOK /\ Artists!SuccessMeansThere
<1>. SUFFICES ASSUME LibraryInv PROVE Artists!TypeOK /\ Artists!SuccessMeansThere OBVIOUS
<1>1. Artists!TypeOK
  <2>1. \A a \in Adds : add[a].at \in AddPlaces /\ add[a].looks \in 0 .. lidarr.attempts /\ add[a].saw \in Seen BY LibraryIs
  <2>2. artist \in BOOLEAN /\ \A a \in Adds : create[a] \in {"none", "under way", "landed", "refused", "lost"}
    BY DEF LibraryInv, LibraryTypes
  <2>. QED BY <2>1, <2>2 DEF AddPlaces, Seen, Artists!TypeOK
<1>. DEFINE T == {a \in Adds : create[a] = "landed"}
<1>2. Cardinality(T) <= 1
  <2>1. CASE T = {} BY <2>1, FS_EmptySet
  <2>2. CASE T # {}
    <3>1. PICK a \in T : TRUE BY <2>2
    <3>2. T = {a} BY <3>1 DEF LibraryInv, AnswersAreTrue
    <3>. QED BY <3>2, FS_Singleton
  <2>. QED BY <2>1, <2>2
<1>3. Artists!Cardinality(T) = Cardinality(T) BY DEF Artists!Cardinality, Cardinality
<1>. QED BY <1>1, <1>2, <1>3 DEF Artists!SuccessMeansThere, LibraryInv, AnswersAreTrue

\* The part of MCServices that moves is Library or leaves it alone.
LEMMA LibraryMoves == [Next]_vars => [Artists!Next]_libraryVars
BY DEF Next, vars

\* However many requests for an artist overlap, and whichever answers are lost: who is told that it was added or is there
\* finds it, one request at most created it, and a request with a look to come while Lidarr has the artist is never told
\* that its create failed (EnsureArtist, AddArtist, recheckArtistCreated).
THEOREM AnswersHold == Spec => [](Artists!TypeOK /\ Artists!SuccessMeansThere) /\ Artists!LandedIsNotFailed
<1>1. Init => LibraryInv BY LibraryBegins DEF Init
<1>2. LibraryInv /\ [Next]_vars => LibraryInv' BY LibraryMoves, LibraryStep
<1>3. ASSUME NEW a \in Adds PROVE Spec => [](artist /\ add[a].at = "recheck" => [](add[a].at # "failed"))
  <2>1. artist /\ add[a].at = "recheck" => Found(a) BY DEF Found
  <2>2. Found(a) /\ LibraryInv /\ [Next]_vars => Found(a)' BY LibraryMoves, FoundStays
  <2>3. Found(a) => add[a].at # "failed" BY DEF Found
  <2>. QED BY <1>1, <1>2, <2>1, <2>2, <2>3, PTL DEF Spec
<1>4. Spec => Artists!LandedIsNotFailed BY <1>3 DEF Artists!LandedIsNotFailed
<1>. QED BY <1>1, <1>2, <1>4, LibrarySays, PTL DEF Spec
================================================================================
