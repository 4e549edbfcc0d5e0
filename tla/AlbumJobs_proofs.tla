------------------------- MODULE AlbumJobs_proofs -------------------------
(* What AlbumJobs guarantees for every number of jobs, candidates, peers    *)
(* and files, and every MaxActive, MaxRetries and MaxCandidates.             *)
EXTENDS AlbumJobs, TLAPS

\* The states a job can be in while Discovery or Selecting is still deciding
\* about it: nobody else moves a job out of the set.
Undecided == {"WANTED", "SELECTING", "CANCELLED", "FAILED", "ABSENT"}
Searched == Undecided \ {"SELECTING"}

\* What each goroutine holds between two of its steps.
DisHolds == dis.pc # "idle" => state[dis.job] \in Searched
SelHolds ==
  /\ sel.pc \in {"activate", "reserve"} \cup HandOver => sel.cand \in Candidates
  /\ sel.pc \in {"next", "exhausted", "activate"} => state[sel.job] \in Undecided
DlHolds == dl.pc \notin {"idle", "resolve"} => dl.cand \in Candidates
ImpHolds == imp.pc = "work" => imp.cand \in Candidates

\* A row that a tick holds is its job's, or has been deleted.
HeldBy(c, j) == c # None /\ cand[c].st # "FREE" => cand[c].job = j
HeldRows ==
  HeldBy(sel.cand, sel.job) /\ HeldBy(dl.cand, dl.job) /\ HeldBy(imp.cand, imp.job)

IInv ==
  TypeOK /\ DisHolds /\ SelHolds /\ DlHolds /\ ImpHolds /\ HeldRows /\ ActiveCandidate

-----------------------------------------------------------------------------
(* Ticks at work *)

LEMMA DisBusy ==
  ASSUME TypeOK, dis.pc # "idle"
  PROVE /\ dis \in [pc : {"search", "insert", "advance"}, job : LidarrJobs,
                    retries : Retries, peers : SUBSET Peers]
        /\ dis.job \in Jobs /\ dis.retries \in Retries
BY DEF TypeOK, DisTicks, DisIdle, LidarrJobs

LEMMA SelBusy ==
  ASSUME TypeOK, sel.pc # "idle"
  PROVE /\ sel \in [pc : {"next", "exhausted", "activate", "reserve"} \cup HandOver,
                    job : Jobs, cand : Candidates \cup {None}, retries : Retries,
                    pend : SUBSET Files, file : Files \cup {None}]
        /\ sel.job \in Jobs /\ sel.retries \in Retries
BY DEF TypeOK, SelTicks, SelIdle

LEMMA DlBusy ==
  ASSUME TypeOK, dl.pc # "idle"
  PROVE /\ dl \in [pc : {"resolve", "done", "failed", "siblings", "reserve"} \cup HandOver,
                   job : Jobs, cand : Candidates \cup {None}, pend : SUBSET Files,
                   sent : SUBSET Files, file : Files \cup {None}]
        /\ dl.job \in Jobs
BY DEF TypeOK, DlTicks, DlIdle

LEMMA ImpBusy ==
  ASSUME TypeOK, imp.pc # "idle"
  PROVE /\ imp \in [pc : {"read", "work"}, job : Jobs, cand : Candidates \cup {None}]
        /\ imp.job \in Jobs
BY DEF TypeOK, ImpTicks, ImpIdle

\* Whatever it holds, a tick holds a row or None.
LEMMA HeldType ==
  ASSUME TypeOK
  PROVE {sel.cand, dl.cand, imp.cand} \subseteq Candidates \cup {None}
BY DEF TypeOK, SelTicks, SelIdle, DlTicks, DlIdle, ImpTicks, ImpIdle

LEMMA IdleTicks ==
  DisIdle \in DisTicks /\ SelIdle \in SelTicks /\ DlIdle \in DlTicks /\ ImpIdle \in ImpTicks
BY DEF DisTicks, SelTicks, DlTicks, ImpTicks

-----------------------------------------------------------------------------
(* Rows *)

StateType == [Jobs -> JobStates \cup {"ABSENT"}]
CandType == [Candidates -> CandidateRows]
TrType == [Candidates -> [Files -> TransferStates]]
DeferredType == [Candidates -> Deferrals]
LatestType == [Jobs -> Candidates \cup {None}]
RejectedType == [Jobs -> [Peers -> Rejections]]

LEMMA RowShape ==
  ASSUME TypeOK, NEW c \in Candidates
  PROVE /\ cand[c].st \in {"FREE", "NEW", "ACTIVE", "SUCCEEDED", "FAILED"}
        /\ cand[c].st = "FREE" <=> cand[c] = FreeCandidate
        /\ cand[c].st # "FREE" => /\ cand[c].job \in Jobs /\ cand[c].peer \in Peers
                                  /\ cand[c] \in [st : {"NEW", "ACTIVE", "SUCCEEDED", "FAILED"},
                                                  job : Jobs, peer : Peers]
        /\ cand[c].st = "FREE" => cand[c].job = None
BY DEF TypeOK, CandidateRows, FreeCandidate

LEMMA DeleteCandidatesType ==
  ASSUME TypeOK, NEW J \in SUBSET Jobs, DeleteCandidates(J)
  PROVE /\ cand' \in CandType /\ tr' \in TrType /\ deferred' \in DeferredType
        /\ latest' \in LatestType
BY DEF TypeOK, DeleteCandidates, CandType, TrType, DeferredType, Deferrals, LatestType,
       CandidateRows, NoRows, TransferStates

LEMMA DeleteRejectionsType ==
  ASSUME TypeOK, NEW J \in SUBSET Jobs, NEW K, DeleteRejections(J, K)
  PROVE rejected' \in RejectedType
BY DEF TypeOK, DeleteRejections, RejectedType, Rejections

LEMMA TerminalType ==
  ASSUME TypeOK, NEW c \in Candidates, NEW j \in Jobs,
         NEW st \in {"SUCCEEDED", "FAILED"}, NEW from, NEW to \in JobStates,
         NEW r \in Rejections, TerminalCandidateAndAdvance(c, j, st, from, to, r)
  PROVE /\ cand' \in CandType /\ latest' \in LatestType
        /\ state' \in StateType /\ rejected' \in RejectedType
<1>1. CASE ~(cand[c].st = "ACTIVE" /\ state[j] = from)
  BY <1>1 DEF TypeOK, TerminalCandidateAndAdvance, CandType, DeferredType, LatestType, StateType, RejectedType
<1>2. CASE cand[c].st = "ACTIVE" /\ state[j] = from
  <2>1. cand' = [cand EXCEPT ![c].st = st] /\ latest' = [latest EXCEPT ![j] = c]
        /\ state' = [state EXCEPT ![j] = to]
        /\ rejected' = IF r = "NO" THEN rejected ELSE [rejected EXCEPT ![j][cand[c].peer] = r]
    BY <1>2 DEF TerminalCandidateAndAdvance
  <2>2. cand' \in CandType BY ZenonT(60), <2>1, <1>2, RowShape DEF TypeOK, CandType, CandidateRows
  <2>3. rejected' \in RejectedType BY <2>1, <1>2, RowShape DEF TypeOK, RejectedType
  <2>. QED BY <2>1, <2>2, <2>3 DEF TypeOK, DeferredType, LatestType, StateType
<1>. QED BY <1>1, <1>2

-----------------------------------------------------------------------------
(* Steps of the others: a tick keeps what it holds, or ends *)

\* A tick may lose the row of the file it is handing over (RowsLost).
SelSame ==
  /\ sel' \in SelTicks /\ sel'.pc = sel.pc /\ sel'.job = sel.job /\ sel'.cand = sel.cand
DlSame ==
  /\ dl' \in DlTicks /\ dl'.pc = dl.pc /\ dl'.job = dl.job /\ dl'.cand = dl.cand
  /\ dl'.pend = dl.pend /\ dl'.sent = dl.sent
TicksKept ==
  /\ dis' \in {dis, DisIdle} /\ imp' \in {imp, ImpIdle}
  /\ sel' \in {sel, SelIdle} \/ SelSame
  /\ dl' \in {dl, DlIdle} \/ DlSame
JobsKept ==
  /\ dis' = dis /\ dis.pc # "idle" /\ state[dis.job] \in Searched => state'[dis.job] \in Searched
  /\ sel.pc # "idle" /\ state[sel.job] \in Undecided => state'[sel.job] \in Undecided
RowsKept ==
  \A c \in Candidates \cap {sel.cand, dl.cand, imp.cand} :
    cand'[c].st # "FREE" => cand[c].st # "FREE" /\ cand'[c].job = cand[c].job
TickTypes ==
  dis \in DisTicks /\ sel \in SelTicks /\ dl \in DlTicks /\ imp \in ImpTicks
Holds == DisHolds /\ SelHolds /\ DlHolds /\ ImpHolds /\ HeldRows

LEMMA Kept ==
  ASSUME IInv, TicksKept, JobsKept, RowsKept
  PROVE TickTypes' /\ Holds'
<1>1. TickTypes' BY IdleTicks DEF IInv, TypeOK, TicksKept, SelSame, DlSame, TickTypes
<1>2. DisHolds' BY DEF IInv, DisHolds, TicksKept, JobsKept, DisIdle
<1>3. SelHolds' BY DEF IInv, SelHolds, TicksKept, SelSame, JobsKept, SelIdle, HandOver
<1>4. DlHolds' /\ ImpHolds' BY DEF IInv, DlHolds, ImpHolds, TicksKept, DlSame, DlIdle, ImpIdle
<1>5. HeldRows'
  <2>1. HeldBy(sel.cand, sel.job)' BY HeldType DEF IInv, HeldRows, HeldBy, TicksKept, SelSame, RowsKept, SelIdle
  <2>2. HeldBy(dl.cand, dl.job)' BY HeldType DEF IInv, HeldRows, HeldBy, TicksKept, DlSame, RowsKept, DlIdle
  <2>3. HeldBy(imp.cand, imp.job)' BY HeldType DEF IInv, HeldRows, HeldBy, TicksKept, RowsKept, ImpIdle
  <2>. QED BY <2>1, <2>2, <2>3 DEF HeldRows
<1>. QED BY <1>1, <1>2, <1>3, <1>4, <1>5 DEF Holds

LEMMA TablesUnchanged ==
  ASSUME UNCHANGED <<state, cand>> PROVE JobsKept /\ RowsKept
BY DEF JobsKept, RowsKept

LEMMA ActiveUnchanged ==
  ASSUME ActiveCandidate, UNCHANGED <<state, cand>> PROVE ActiveCandidate'
BY DEF ActiveCandidate, ActiveCandidates, CandidatesOf

\* A job that moves between states that need no candidate, or out of all of
\* them, with the rows as they are.
SlotStates == {"DOWNLOADING", "IMPORTING"}
NoCandidateStates ==
  {"WANTED", "SELECTING", "FAILED", "DONE", "IMPORT_REFUSED", "NOT_IMPORTED", "ABSENT"}
LEMMA ActiveMoved ==
  ASSUME ActiveCandidate, cand' = cand,
         \A j \in Jobs : \/ state'[j] = state[j]
                         \/ state[j] \in NoCandidateStates /\ state'[j] \in NoCandidateStates
                         \/ state[j] \in SlotStates /\ state'[j] \in SlotStates
                         \/ state'[j] \in {"CANCELLED", "PARKED"}
  PROVE ActiveCandidate'
BY DEF ActiveCandidate, ActiveCandidates, CandidatesOf, SlotStates, NoCandidateStates

-----------------------------------------------------------------------------
(* Store transactions *)

\* A deleted job holds no candidate; the other jobs keep theirs.
LEMMA DeleteCandidatesRows ==
  ASSUME TypeOK, NEW J \in SUBSET Jobs, DeleteCandidates(J)
  PROVE /\ RowsKept
        /\ \A k \in Jobs :
             ActiveCandidates(k)' = IF k \in J THEN {} ELSE ActiveCandidates(k)
<1>1. \A c \in Candidates :
        cand'[c] = IF cand[c].job \in J THEN FreeCandidate ELSE cand[c]
  BY DEF DeleteCandidates
<1>2. FreeCandidate.st = "FREE" /\ FreeCandidate.job = None /\ None \notin Jobs BY NoneAssumption DEF FreeCandidate
<1>3. RowsKept BY <1>1, <1>2 DEF RowsKept
<1>4. ASSUME NEW k \in Jobs, k \in J PROVE ActiveCandidates(k)' = {} BY <1>1, <1>2, <1>4 DEF ActiveCandidates, CandidatesOf
<1>5. ASSUME NEW k \in Jobs, k \notin J PROVE ActiveCandidates(k)' = ActiveCandidates(k)
  BY <1>1, <1>2, <1>5 DEF ActiveCandidates, CandidatesOf
<1>. QED BY <1>3, <1>4, <1>5

\* MarkJobFailed by a tick that is still deciding about the job.
LEMMA FailedKeeps ==
  ASSUME IInv, NEW j \in Jobs, state[j] \in Undecided, MarkJobFailed(j)
  PROVE /\ state' \in StateType
        /\ \A k \in Jobs : \/ state'[k] = state[k]
                           \/ state[k] \in NoCandidateStates /\ state'[k] = "FAILED" /\ k = j
BY DEF IInv, TypeOK, MarkJobFailed, StateType, JobStates, Undecided, NoCandidateStates

LEMMA ResetKeeps ==
  ASSUME IInv, NEW j \in Jobs, NEW r \in Retries, ResetJobToWanted(j, r)
  PROVE /\ state' \in StateType /\ retries' \in [Jobs -> Retries] /\ cand' \in CandType
        /\ latest' \in LatestType /\ tr' \in TrType /\ deferred' \in DeferredType
        /\ RowsKept /\ ActiveCandidate'
        /\ \A k \in Jobs : state'[k] = state[k] \/ (state[k] = "SELECTING" /\ state'[k] = "WANTED")
<1>1. CASE state[j] # "SELECTING" BY <1>1, ActiveUnchanged, TablesUnchanged
     DEF IInv, TypeOK, ResetJobToWanted, StateType, CandType, DeferredType, LatestType, TrType
<1>2. CASE state[j] = "SELECTING"
  <2>1. /\ state' = [state EXCEPT ![j] = "WANTED"] /\ retries' = [retries EXCEPT ![j] = r]
        /\ DeleteCandidates({j})
    BY <1>2 DEF ResetJobToWanted
  <2>2. /\ cand' \in CandType /\ tr' \in TrType /\ deferred' \in DeferredType
        /\ latest' \in LatestType
    BY <2>1, DeleteCandidatesType DEF IInv
  <2>3. state' \in StateType /\ retries' \in [Jobs -> Retries] BY <2>1 DEF IInv, TypeOK, StateType, JobStates
  <2>4. RowsKept /\ \A k \in Jobs : ActiveCandidates(k)' = IF k = j THEN {} ELSE ActiveCandidates(k)
    BY <2>1, DeleteCandidatesRows DEF IInv
  <2>5. ActiveCandidate' BY <2>1, <2>4, <1>2 DEF IInv, TypeOK, ActiveCandidate
  <2>. QED BY <2>1, <2>2, <2>3, <2>4, <2>5, <1>2 DEF IInv, TypeOK
<1>. QED BY <1>1, <1>2

LEMMA TerminalKeeps ==
  ASSUME IInv, NEW c \in Candidates, NEW j \in Jobs, HeldBy(c, j),
         NEW st \in {"SUCCEEDED", "FAILED"}, NEW from \in SlotStates,
         NEW to \in {"SELECTING", "DONE", "NOT_IMPORTED", "PARKED", "IMPORT_REFUSED"},
         NEW r \in Rejections, TerminalCandidateAndAdvance(c, j, st, from, to, r)
  PROVE /\ ActiveCandidate' /\ RowsKept
        /\ \A k \in Jobs : state[k] \in Undecided => state'[k] = state[k]
<1>1. CASE ~(cand[c].st = "ACTIVE" /\ state[j] = from)
  BY <1>1, ActiveUnchanged, TablesUnchanged DEF IInv, TerminalCandidateAndAdvance
<1>2. CASE cand[c].st = "ACTIVE" /\ state[j] = from
  <2>1. cand' = [cand EXCEPT ![c].st = st] /\ state' = [state EXCEPT ![j] = to] BY <1>2 DEF TerminalCandidateAndAdvance
  <2>2. cand[c].job = j /\ c # None BY <1>2, NoneAssumption DEF HeldBy
  <2>3. cand[c] \in [st : {"NEW", "ACTIVE", "SUCCEEDED", "FAILED"}, job : Jobs, peer : Peers] BY <1>2, RowShape DEF IInv
  <2>4. \A d \in Candidates : /\ cand'[d].job = cand[d].job
                              /\ d # c => cand'[d] = cand[d]
                              /\ d = c => cand'[d].st = st
    BY <2>1, <2>3 DEF IInv, TypeOK
  <2>5. ActiveCandidates(j) = {c} BY <1>2, <2>2 DEF IInv, ActiveCandidate, ActiveCandidates, CandidatesOf, SlotStates
  <2>6. \A k \in Jobs : ActiveCandidates(k)' = IF k = j THEN {} ELSE ActiveCandidates(k)
    <3>1. ActiveCandidates(j)' = {} BY <2>4, <2>5 DEF ActiveCandidates, CandidatesOf
    <3>2. ASSUME NEW k \in Jobs, k # j PROVE ActiveCandidates(k)' = ActiveCandidates(k)
      BY <2>2, <2>4, <3>2 DEF ActiveCandidates, CandidatesOf
    <3>. QED BY <3>1, <3>2
  <2>7. ActiveCandidate'
    <3>1. \A k \in Jobs : state'[k] = IF k = j THEN to ELSE state[k] BY <2>1 DEF IInv, TypeOK
    <3>. QED BY <2>6, <3>1 DEF IInv, ActiveCandidate
  <2>. QED BY <2>1, <2>4, <2>7, <1>2 DEF RowsKept, IInv, TypeOK, SlotStates, Undecided
<1>. QED BY <1>1, <1>2

-----------------------------------------------------------------------------
(* Steps *)

TableTypes ==
  /\ state \in StateType /\ retries \in [Jobs -> Retries]
  /\ cand \in CandType /\ latest \in LatestType /\ tr \in TrType
  /\ deferred \in DeferredType /\ rejected \in RejectedType /\ deleting \subseteq Jobs

LEMMA Tables ==
  ASSUME IInv PROVE TableTypes
BY DEF IInv, TypeOK, TableTypes, StateType, CandType, DeferredType, LatestType, TrType, RejectedType

\* A step that writes the tables and takes no tick further.
LEMMA TableStep ==
  ASSUME IInv, TableTypes', TicksKept, JobsKept, RowsKept, ActiveCandidate'
  PROVE IInv'
<1>1. TickTypes' /\ Holds' BY Kept
<1>2. TypeOK'
  BY <1>1 DEF TypeOK, TickTypes, TableTypes, StateType, CandType, DeferredType, LatestType, TrType, RejectedType
<1>. QED BY <1>1, <1>2 DEF IInv, Holds

\* A step that leaves the candidates and the job states alone and takes no
\* tick further.
LEMMA QuietStep ==
  ASSUME IInv, TableTypes', TicksKept, UNCHANGED <<state, cand>>
  PROVE IInv'
BY TableStep, TablesUnchanged, ActiveUnchanged DEF IInv

\* A tick that takes its next step and leaves the rows alone.
LEMMA TickStep ==
  ASSUME IInv, UNCHANGED <<state, cand>>, TableTypes', TickTypes', Holds'
  PROVE IInv'
<1>1. TypeOK' BY DEF TypeOK, TickTypes, TableTypes, StateType, CandType, LatestType, DeferredType, TrType, RejectedType
<1>2. ActiveCandidate' BY ActiveUnchanged DEF IInv
<1>. QED BY <1>1, <1>2 DEF IInv, Holds

\* A tick that only reads.
LEMMA ReadStep ==
  ASSUME IInv, UNCHANGED <<tables, deleting>>, TickTypes', Holds'
  PROVE IInv'
<1>1. TableTypes' BY Tables DEF TableTypes, tables
<1>. QED BY <1>1, TickStep DEF tables

LEMMA TicksSame ==
  ASSUME UNCHANGED ticks PROVE TicksKept
BY DEF ticks, TicksKept

LEMMA SyncWantedStep ==
  ASSUME IInv, NEW W \in SUBSET LidarrJobs, NEW R \in SUBSET W, SyncWanted(W, R)
  PROVE IInv'
<1> DEFINE inserted  == {j \in W : state[j] = "ABSENT"}
           reentered == {j \in W : state[j] = "CANCELLED"}
           revived   == {j \in R : state[j] = "FAILED"}
           cancelled == {j \in LidarrJobs \ W :
                    state[j] \notin {"ABSENT", "DONE", "CANCELLED", "FAILED"}}
           again == reentered \cup revived
<1>1. /\ state' = [j \in Jobs |-> IF j \in inserted \cup reentered \cup revived THEN "WANTED"
                                  ELSE IF j \in cancelled THEN "CANCELLED" ELSE state[j]]
      /\ retries' = [j \in Jobs |->
                       IF j \in inserted \cup reentered \cup revived THEN 0 ELSE retries[j]]
      /\ DeleteCandidates(again) /\ DeleteRejections(again, Rejections)
      /\ UNCHANGED ticks /\ deleting' = deleting
      /\ \A j \in inserted : FreshJob(j)
  BY DEF SyncWanted
<1>2. again \in SUBSET Jobs BY DEF LidarrJobs
<1>3. TableTypes'
  <2>1. state' \in StateType /\ retries' \in [Jobs -> Retries]
    BY <1>1, Tables, ConfigAssumption DEF TableTypes, StateType, JobStates, Retries
  <2>. QED BY <1>1, <1>2, <2>1, DeleteCandidatesType, DeleteRejectionsType, Tables
           DEF IInv, TableTypes
<1>4. TicksKept BY <1>1, TicksSame
<1>5. JobsKept
  <2>1. dis.pc # "idle" => dis.job \in Jobs BY DisBusy DEF IInv
  <2>2. sel.pc # "idle" => sel.job \in Jobs BY SelBusy DEF IInv
  <2>. QED BY <1>1, <2>1, <2>2 DEF JobsKept, Searched, Undecided
<1>6. RowsKept /\ \A k \in Jobs :
        ActiveCandidates(k)' = IF k \in again THEN {} ELSE ActiveCandidates(k)
  BY <1>1, <1>2, DeleteCandidatesRows DEF IInv
<1>7. ActiveCandidate' BY <1>1, <1>6 DEF IInv, ActiveCandidate
<1>. QED BY <1>3, <1>4, <1>5, <1>6, <1>7, TableStep

LEMMA DiscoveryReads ==
  ASSUME IInv,
         \/ \E j \in LidarrJobs : DiscoveryRead(j)
         \/ \E S \in SUBSET Peers : DiscoveryFilter(S)
         \/ DiscoveryAbort
  PROVE IInv'
<1>1. TickTypes /\ Holds BY DEF IInv, TypeOK, TickTypes, Holds
<1>2. ASSUME NEW j \in LidarrJobs, DiscoveryRead(j) PROVE IInv'
  <2>1. /\ state[j] = "WANTED" /\ UNCHANGED <<tables, sel, dl, imp, deleting>>
        /\ dis' = [pc |-> "search", job |-> j, retries |-> retries[j], peers |-> {}]
    BY <1>2 DEF DiscoveryRead
  <2>2. j \in Jobs /\ retries[j] \in Retries BY DEF IInv, TypeOK, LidarrJobs
  <2>3. TickTypes' BY <1>1, <2>1, <2>2 DEF TickTypes, DisTicks
  <2>4. Holds'
    BY <1>1, <2>1 DEF tables, Holds, DisHolds, SelHolds, DlHolds, ImpHolds, HeldRows, HeldBy, Searched, Undecided
  <2>. QED BY <2>1, <2>3, <2>4, ReadStep
<1>3. ASSUME NEW S \in SUBSET Peers, DiscoveryFilter(S) PROVE IInv'
  <2>1. /\ dis.pc = "search" /\ UNCHANGED <<tables, sel, dl, imp, deleting>>
        /\ dis' = [dis EXCEPT !.pc = "insert", !.peers = S]
    BY <1>3 DEF DiscoveryFilter
  <2>2. dis' \in DisTicks /\ dis'.job = dis.job BY <2>1, DisBusy DEF IInv, DisTicks
  <2>3. TickTypes' BY <1>1, <2>1, <2>2 DEF TickTypes
  <2>4. Holds' BY <1>1, <2>1, <2>2 DEF tables, Holds, DisHolds, SelHolds, DlHolds, ImpHolds, HeldRows, HeldBy
  <2>. QED BY <2>1, <2>3, <2>4, ReadStep
<1>4. CASE DiscoveryAbort
  <2>1. TicksKept /\ UNCHANGED <<tables, deleting>> BY <1>4 DEF DiscoveryAbort, TicksKept
  <2>2. TableTypes' BY <2>1, Tables DEF TableTypes, tables
  <2>. QED BY <2>1, <2>2, QuietStep DEF tables
<1>. QED BY <1>2, <1>3, <1>4

\* The last budget or none: the job fails or its next search is put off.
LEMMA DiscoveryFailsStep ==
  ASSUME IInv, DiscoveryNoViable \/ DiscoveryExcluded
  PROVE IInv'
<1>1. /\ dis.pc # "idle" /\ TicksKept
      /\ UNCHANGED <<cand, latest, tr, deferred, rejected, deleting>>
      /\ \/ MarkJobFailed(dis.job) /\ UNCHANGED retries
         \/ ~BudgetSpent(dis.retries) /\ SetJobBackoff(dis.job, dis.retries + 1) /\ UNCHANGED state
  BY DEF DiscoveryNoViable, DiscoveryExcluded, TicksKept
<1>2. /\ dis.job \in Jobs /\ dis.retries \in Retries /\ state[dis.job] \in Undecided
      /\ dis' = DisIdle /\ sel' = sel
  BY <1>1, DisBusy DEF IInv, DisHolds, Searched, DiscoveryNoViable, DiscoveryExcluded
<1>3. CASE ~BudgetSpent(dis.retries) /\ SetJobBackoff(dis.job, dis.retries + 1) /\ UNCHANGED state
  <2>1. dis.retries + 1 \in Retries BY <1>2, <1>3, ConfigAssumption DEF BudgetSpent, Retries
  <2>2. retries' \in [Jobs -> Retries] BY <1>2, <1>3, <2>1, Tables DEF SetJobBackoff, TableTypes
  <2>3. TableTypes' BY <1>1, <1>3, <2>2, Tables DEF TableTypes
  <2>. QED BY <1>1, <1>3, <2>3, QuietStep
<1>4. CASE MarkJobFailed(dis.job) /\ UNCHANGED retries
  <2>1. /\ state' \in StateType
        /\ \A k \in Jobs : \/ state'[k] = state[k]
                           \/ state[k] \in NoCandidateStates /\ state'[k] = "FAILED" /\ k = dis.job
    BY <1>2, <1>4, FailedKeeps
  <2>2. TableTypes' BY <1>1, <1>4, <2>1, Tables DEF TableTypes
  <2>3. ActiveCandidate' BY <1>1, <2>1, ActiveMoved DEF IInv, NoCandidateStates
  <2>4. sel.pc # "idle" => sel.job \in Jobs BY SelBusy DEF IInv
  <2>5. JobsKept BY <1>2, <2>1, <2>4 DEF JobsKept, DisIdle, Undecided
  <2>6. RowsKept BY <1>1 DEF RowsKept
  <2>. QED BY <1>1, <2>2, <2>3, <2>5, <2>6, TableStep
<1>. QED BY <1>1, <1>3, <1>4

LEMMA DiscoveryInsertStep ==
  ASSUME IInv, NEW slot \in [dis.peers -> Candidates], DiscoveryInsert(slot)
  PROVE IInv'
<1>1. /\ dis.pc = "insert" /\ \A p \in dis.peers : FreshCandidate(slot[p])
      /\ cand' = [c \in Candidates |->
           IF \E p \in dis.peers : slot[p] = c
             THEN [st |-> "NEW", job |-> dis.job,
                   peer |-> CHOOSE p \in dis.peers : slot[p] = c]
             ELSE cand[c]]
      /\ retries' = IF state[dis.job] = "WANTED"
                      THEN [retries EXCEPT ![dis.job] = 0] ELSE retries
      /\ dis' = [dis EXCEPT !.pc = "advance"]
      /\ UNCHANGED <<state, latest, tr, deferred, rejected, sel, dl, imp, deleting>>
  BY DEF DiscoveryInsert
<1>2. /\ dis.job \in Jobs /\ dis.peers \subseteq Peers
      /\ dis' \in DisTicks /\ dis'.job = dis.job
  BY <1>1, DisBusy DEF IInv, DisTicks
<1>3. \A c \in Candidates :
        \/ cand'[c] = cand[c]
        \/ /\ cand[c].st = "FREE" /\ c \notin {sel.cand, dl.cand, imp.cand}
           /\ cand'[c].st = "NEW"
           /\ cand'[c] \in [st : {"NEW"}, job : Jobs, peer : Peers]
  <2> TAKE c \in Candidates
  <2>1. CASE \E p \in dis.peers : slot[p] = c
    <3>1. PICK p \in dis.peers : slot[p] = c BY <2>1
    <3>2. cand'[c] = [st |-> "NEW", job |-> dis.job, peer |-> CHOOSE q \in dis.peers : slot[q] = c] BY <1>1, <2>1
    <3>3. (CHOOSE q \in dis.peers : slot[q] = c) \in Peers BY <1>2, <2>1
    <3>4. FreshCandidate(c) BY <1>1, <3>1
    <3>. QED BY <1>2, <3>2, <3>3, <3>4 DEF FreshCandidate
  <2>2. CASE ~\E p \in dis.peers : slot[p] = c BY <1>1, <2>2
  <2>. QED BY <2>1, <2>2
<1>4. cand' \in CandType
  <2>1. \A c \in Candidates : cand'[c] \in CandidateRows BY <1>3, Tables DEF TableTypes, CandType, CandidateRows
  <2>. QED BY <1>1, <2>1 DEF CandType
<1>5. retries' \in [Jobs -> Retries] BY <1>1, <1>2, Tables, ConfigAssumption DEF TableTypes, Retries
<1>6. TableTypes' BY <1>1, <1>4, <1>5, Tables DEF TableTypes
<1>7. TickTypes' BY <1>1, <1>2 DEF IInv, TypeOK, TickTypes
<1>8. Holds'
  <2>1. DisHolds' /\ SelHolds' /\ DlHolds' /\ ImpHolds' BY <1>1, <1>2 DEF IInv, DisHolds, SelHolds, DlHolds, ImpHolds
  <2>2. HeldRows' BY SMTT(40), <1>1, <1>3, HeldType DEF IInv, HeldRows, HeldBy
  <2>. QED BY <2>1, <2>2 DEF Holds
<1>9. ActiveCandidate'
  <2>1. \A k \in Jobs : ActiveCandidates(k)' = ActiveCandidates(k) BY <1>3 DEF ActiveCandidates, CandidatesOf
  <2>. QED BY <1>1, <2>1 DEF IInv, ActiveCandidate
<1>10. TypeOK'
  BY <1>6, <1>7 DEF TypeOK, TickTypes, TableTypes, StateType, CandType, DeferredType, LatestType, TrType, RejectedType
<1>. QED BY <1>8, <1>9, <1>10 DEF IInv, Holds

LEMMA DiscoveryAdvanceStep ==
  ASSUME IInv, DiscoveryAdvance PROVE IInv'
<1>1. /\ dis.pc = "advance" /\ AdvanceJobStateFrom(dis.job, "WANTED", "SELECTING")
      /\ TicksKept /\ dis' = DisIdle
      /\ UNCHANGED <<retries, cand, latest, tr, deferred, rejected, deleting>>
  BY DEF DiscoveryAdvance, TicksKept
<1>2. dis.job \in Jobs BY <1>1, DisBusy DEF IInv
<1>3. \A k \in Jobs : state'[k] = state[k] \/ (state[k] = "WANTED" /\ state'[k] = "SELECTING")
  BY <1>1, <1>2 DEF AdvanceJobStateFrom, IInv, TypeOK
<1>4. state' \in StateType BY <1>1, <1>2, Tables DEF AdvanceJobStateFrom, TableTypes, StateType, JobStates
<1>5. TableTypes' BY <1>1, <1>4, Tables DEF TableTypes
<1>6. ActiveCandidate' BY <1>1, <1>3, ActiveMoved DEF IInv, NoCandidateStates
<1>7. sel.pc # "idle" => sel.job \in Jobs BY SelBusy DEF IInv
<1>8. JobsKept BY <1>1, <1>3, <1>7 DEF JobsKept, DisIdle, Undecided
<1>9. RowsKept BY <1>1 DEF RowsKept
<1>. QED BY <1>1, <1>5, <1>6, <1>8, <1>9, TableStep

LEMMA SelectReads ==
  ASSUME IInv,
         \/ \E j \in Jobs : SelectRead(j)
         \/ \E c \in Candidates : SelectNext(c)
         \/ SelectNoneLeft \/ SelectSkip \/ SelectStop
  PROVE IInv'
<1>1. TickTypes /\ Holds BY DEF IInv, TypeOK, TickTypes, Holds
<1>2. ASSUME NEW j \in Jobs, SelectRead(j) PROVE IInv'
  <2>1. /\ state[j] = "SELECTING"
        /\ UNCHANGED <<state, retries, cand, latest, tr, rejected, dis, dl, imp, deleting>>
        /\ deferred' = [c \in Candidates |-> IF deferred[c] = "NO" THEN "NO" ELSE "OLD"]
        /\ sel' = [SelIdle EXCEPT !.pc = "next", !.job = j, !.retries = retries[j]]
    BY <1>2 DEF SelectRead
  <2>2. sel' = [pc |-> "next", job |-> j, cand |-> None, retries |-> retries[j], pend |-> {},
                 file |-> None]
    BY <2>1 DEF SelIdle
  <2>3. retries[j] \in Retries BY DEF IInv, TypeOK
  <2>4. sel' \in SelTicks BY <2>2, <2>3 DEF SelTicks
  <2>5. TickTypes' BY <1>1, <2>1, <2>4 DEF TickTypes
  <2>6. sel'.pc = "next" /\ sel'.job = j /\ sel'.cand = None BY <2>2
  <2>7. Holds' BY <1>1, <2>1, <2>6 DEF Holds, DisHolds, SelHolds, DlHolds, ImpHolds, HeldRows, HeldBy, Undecided, HandOver
  <2>8. TableTypes' BY <2>1, Tables DEF TableTypes, DeferredType, Deferrals
  <2>. QED BY <2>1, <2>5, <2>7, <2>8, TickStep
<1>3. ASSUME NEW c \in Candidates, SelectNext(c) PROVE IInv'
  <2>1. /\ sel.pc = "next" /\ cand[c].job = sel.job /\ UNCHANGED <<tables, dis, dl, imp, deleting>>
        /\ sel' = [sel EXCEPT !.pc = "activate", !.cand = c]
    BY <1>3 DEF SelectNext, NewCandidates, CandidatesOf
  <2>2. sel' \in SelTicks /\ sel'.job = sel.job /\ sel'.cand = c /\ sel'.pc = "activate"
    BY <2>1, SelBusy DEF IInv, SelTicks
  <2>3. TickTypes' BY <1>1, <2>1, <2>2 DEF TickTypes
  <2>4. Holds' BY <1>1, <2>1, <2>2 DEF tables, Holds, DisHolds, SelHolds, DlHolds, ImpHolds, HeldRows, HeldBy
  <2>. QED BY <2>1, <2>3, <2>4, ReadStep
<1>4. CASE SelectNoneLeft
  <2>1. /\ sel.pc = "next" /\ UNCHANGED <<tables, dis, dl, imp, deleting>>
        /\ sel' = [sel EXCEPT !.pc = "exhausted"]
    BY <1>4 DEF SelectNoneLeft
  <2>2. sel' \in SelTicks /\ sel'.job = sel.job /\ sel'.cand = sel.cand /\ sel'.pc = "exhausted"
    BY <2>1, SelBusy DEF IInv, SelTicks
  <2>3. TickTypes' BY <1>1, <2>1, <2>2 DEF TickTypes
  <2>4. Holds'
    BY <1>1, <2>1, <2>2 DEF tables, Holds, DisHolds, SelHolds, DlHolds, ImpHolds, HeldRows, HeldBy, HandOver
  <2>. QED BY <2>1, <2>3, <2>4, ReadStep
<1>5. CASE SelectSkip \/ SelectStop
  <2>1. TicksKept /\ UNCHANGED <<tables, deleting>> BY <1>5 DEF SelectSkip, SelectStop, TicksKept
  <2>2. TableTypes' BY <2>1, Tables DEF TableTypes, tables
  <2>. QED BY <2>1, <2>2, QuietStep DEF tables
<1>. QED BY <1>2, <1>3, <1>4, <1>5

\* No candidate is left, or the one found is too old.
LEMMA SelectGivesUpStep ==
  ASSUME IInv, SelectExhausted \/ SelectExpired PROVE IInv'
<1>1. /\ sel.pc \in {"exhausted", "activate"} /\ TicksKept /\ sel' = SelIdle /\ dis' = dis
      /\ UNCHANGED <<rejected, deleting>>
      /\ \/ MarkJobFailed(sel.job) /\ UNCHANGED <<retries, cand, latest, tr, deferred>>
         \/ ~BudgetSpent(sel.retries) /\ ResetJobToWanted(sel.job, sel.retries + 1)
         \/ ResetJobToWanted(sel.job, sel.retries)
  BY DEF SelectExhausted, SelectExpired, TicksKept
<1>2. /\ sel.job \in Jobs /\ sel.retries \in Retries /\ state[sel.job] \in Undecided BY <1>1, SelBusy DEF IInv, SelHolds
<1>3. dis.pc # "idle" => dis.job \in Jobs BY DisBusy DEF IInv
<1>4. CASE MarkJobFailed(sel.job) /\ UNCHANGED <<retries, cand, latest, tr, deferred>>
  <2>1. /\ state' \in StateType
        /\ \A k \in Jobs : \/ state'[k] = state[k]
                           \/ state[k] \in NoCandidateStates /\ state'[k] = "FAILED" /\ k = sel.job
    BY <1>2, <1>4, FailedKeeps
  <2>2. TableTypes' BY <1>1, <1>4, <2>1, Tables DEF TableTypes
  <2>3. ActiveCandidate' BY <1>4, <2>1, ActiveMoved DEF IInv, NoCandidateStates
  <2>4. JobsKept BY <1>1, <1>2, <1>3, <2>1 DEF JobsKept, Searched, Undecided
  <2>5. RowsKept BY <1>4 DEF RowsKept
  <2>. QED BY <1>1, <2>2, <2>3, <2>4, <2>5, TableStep
<1>5. ASSUME NEW r \in Retries, ResetJobToWanted(sel.job, r) PROVE IInv'
  <2>1. /\ state' \in StateType /\ retries' \in [Jobs -> Retries] /\ cand' \in CandType
        /\ latest' \in LatestType /\ tr' \in TrType /\ deferred' \in DeferredType
        /\ RowsKept /\ ActiveCandidate'
        /\ \A k \in Jobs : state'[k] = state[k] \/ (state[k] = "SELECTING" /\ state'[k] = "WANTED")
    BY <1>2, <1>5, ResetKeeps
  <2>2. TableTypes' BY <1>1, <2>1, Tables DEF TableTypes
  <2>3. JobsKept BY <1>1, <1>2, <1>3, <2>1 DEF JobsKept, Searched, Undecided
  <2>. QED BY <1>1, <2>1, <2>2, <2>3, TableStep
<1>6. ~BudgetSpent(sel.retries) => sel.retries + 1 \in Retries BY <1>2, ConfigAssumption DEF BudgetSpent, Retries
<1>. QED BY <1>1, <1>2, <1>4, <1>5, <1>6

LEMMA SelectActivateStep ==
  ASSUME IInv, SelectActivate PROVE IInv'
<1>1. /\ sel.pc = "activate" /\ Activatable(sel.cand, sel.job)
      /\ tr' = [tr EXCEPT ![sel.cand] = AllPending]
      /\ cand' = [cand EXCEPT ![sel.cand].st = "ACTIVE"]
      /\ latest' = [latest EXCEPT ![sel.job] = sel.cand]
      /\ state' = [state EXCEPT ![sel.job] = "DOWNLOADING"]
      /\ sel' = [sel EXCEPT !.pc = "reserve", !.pend = Files]
      /\ UNCHANGED <<retries, deferred, rejected, dis, dl, imp, deleting>>
  BY DEF SelectActivate
<1>2. sel.cand \in Candidates /\ sel.job \in Jobs BY <1>1, SelBusy DEF IInv, SelHolds
<1>3. cand[sel.cand].st = "NEW" /\ cand[sel.cand].job = sel.job /\ state[sel.job] = "SELECTING" BY <1>1 DEF Activatable
<1>4. cand[sel.cand] \in [st : {"NEW", "ACTIVE", "SUCCEEDED", "FAILED"}, job : Jobs, peer : Peers]
  BY <1>2, <1>3, RowShape DEF IInv
<1>5. \A c \in Candidates : /\ cand'[c].job = cand[c].job
                            /\ c # sel.cand => cand'[c] = cand[c]
                            /\ c = sel.cand => cand'[c].st = "ACTIVE" /\ cand'[c] \in CandidateRows
  BY <1>1, <1>4 DEF IInv, TypeOK, CandidateRows
<1>6. TableTypes'
  <2>1. cand' \in CandType BY <1>1, <1>2, <1>5, Tables DEF TableTypes, CandType
  <2>2. tr' \in TrType BY <1>1, <1>2, Tables DEF TableTypes, TrType, AllPending, TransferStates, LiveTransfer
  <2>3. state' \in StateType /\ latest' \in LatestType
    BY <1>1, <1>2, Tables DEF TableTypes, StateType, JobStates, DeferredType, LatestType
  <2>. QED BY <1>1, <2>1, <2>2, <2>3, Tables DEF TableTypes
<1>7. sel' \in SelTicks /\ sel'.job = sel.job /\ sel'.cand = sel.cand /\ sel'.pc = "reserve"
  BY <1>1, SelBusy DEF IInv, SelTicks
<1>8. TickTypes' BY <1>1, <1>7 DEF IInv, TypeOK, TickTypes
<1>9. Holds'
  <2>1. dis.pc # "idle" => dis.job \in Jobs BY DisBusy DEF IInv
  <2>2. DisHolds' BY <1>1, <1>2, <1>3, <2>1 DEF IInv, TypeOK, DisHolds, Searched
  <2>3. SelHolds' /\ DlHolds' /\ ImpHolds' BY <1>1, <1>2, <1>7 DEF IInv, SelHolds, DlHolds, ImpHolds
  <2>4. HeldRows' BY <1>1, <1>3, <1>5, <1>7, HeldType DEF IInv, HeldRows, HeldBy
  <2>. QED BY <2>2, <2>3, <2>4 DEF Holds
<1>10. ActiveCandidate'
  <2>1. ActiveCandidates(sel.job) = {} BY <1>2, <1>3 DEF IInv, ActiveCandidate
  <2>2. \A k \in Jobs :
          ActiveCandidates(k)' = IF k = sel.job THEN {sel.cand} ELSE ActiveCandidates(k)
    BY <1>2, <1>3, <1>5, <2>1 DEF ActiveCandidates, CandidatesOf
  <2>. QED BY ZenonT(60), <1>1, <1>2, <2>2 DEF IInv, TypeOK, ActiveCandidate
<1>11. TypeOK'
  BY <1>6, <1>8 DEF TypeOK, TickTypes, TableTypes, StateType, CandType, DeferredType, LatestType, TrType, RejectedType
<1>. QED BY <1>9, <1>10, <1>11 DEF IInv, Holds

\* A tick at work keeps its job and its row, and only its phase and its list
\* of files move on.
SelMoved ==
  /\ sel.pc \in {"reserve"} \cup HandOver /\ sel' \in SelTicks
  /\ sel'.pc \in {"reserve"} \cup HandOver /\ sel'.job = sel.job /\ sel'.cand = sel.cand
  /\ UNCHANGED <<dis, dl, imp>>

LEMMA SelMovedStep ==
  ASSUME IInv, TableTypes', SelMoved, UNCHANGED <<state, cand>> PROVE IInv'
<1>1. TickTypes' BY DEF IInv, TypeOK, TickTypes, SelMoved
<1>2. Holds'
  BY DEF IInv, SelMoved, Holds, DisHolds, SelHolds, DlHolds, ImpHolds, HeldRows, HeldBy, HandOver
<1>3. TypeOK'
  BY <1>1 DEF TypeOK, TickTypes, TableTypes, StateType, CandType, DeferredType, LatestType, TrType, RejectedType
<1>4. ActiveCandidate' BY ActiveUnchanged DEF IInv
<1>. QED BY <1>2, <1>3, <1>4 DEF IInv, Holds

LEMMA DeferType ==
  ASSUME IInv, NEW c \in Candidates, DeferCandidate(c)
  PROVE deferred' \in DeferredType /\ latest' \in LatestType
BY RowShape DEF IInv, TypeOK, DeferCandidate, DeferredType, Deferrals, LatestType

\* The row of one file is written, by an intent or after a refusal.
EnqueueFile(c, f) ==
  /\ EnqueueIntent(c, f)
  /\ \E to \in {"SENT", "PENDING", "ERRORED"} : tr' = [tr EXCEPT ![c][f] = to]
Enqueues(c) == UNCHANGED tr \/ \E f \in Files : EnqueueFile(c, f)
BesidesTransfers == <<state, retries, cand, latest, deferred, rejected, dis, imp, deleting>>

LEMMA IntentEnqueues ==
  ASSUME NEW t, NEW f \in Files, RecordEnqueueIntent(t, f) PROVE Enqueues(t.cand)
BY DEF RecordEnqueueIntent, Enqueues, EnqueueFile

LEMMA RefusalEnqueues ==
  ASSUME NEW t, t.file \in Files \cup {None}, NEW to \in {"PENDING", "ERRORED"}, EnqueueRefused(t, to)
  PROVE Enqueues(t.cand)
BY DEF EnqueueRefused, Attachable, Writable, Enqueues, EnqueueFile, EnqueueIntent

\* Whatever a step of the hand-over does, it writes one row at most, and the
\* tick stays with its candidate until it ends.
LEMMA SelectTopUpParts ==
  ASSUME IInv, SelectTopUp
  PROVE /\ sel.pc \in HandOver /\ sel.cand \in Candidates
        /\ sel' = SelIdle \/ (SelMoved /\ sel'.pc \in HandOver)
        /\ UNCHANGED BesidesTransfers /\ UNCHANGED dl /\ Enqueues(sel.cand)
<1>1. sel.pc \in HandOver /\ sel.cand \in Candidates
  BY DEF SelectTopUp, SelectIntent, RecordEnqueueIntent, SelectRefused, EnqueueRefused,
     SelectEnqueued, SelectAttach, SelectCompensate, HandOver, IInv, SelHolds
<1>2. sel' = SelIdle \/ (SelMoved /\ sel'.pc \in HandOver)
  BY <1>1, SelBusy DEF SelectTopUp, SelectIntent, SelectRefused, SelectEnqueued, SelectAttach,
     SelectCompensate, HandOver, IInv, SelMoved, SelTicks, IntentFor, NextFile
<1>3. UNCHANGED BesidesTransfers /\ UNCHANGED dl
  BY DEF SelectTopUp, SelectIntent, RecordEnqueueIntent, SelectRefused, EnqueueRefused,
     SelectEnqueued, SelectAttach, SelectCompensate, BesidesTransfers, tables
<1>4. Enqueues(sel.cand)
  BY <1>1, SelBusy, IntentEnqueues, RefusalEnqueues DEF SelectTopUp, SelectIntent, SelectRefused,
     SelectEnqueued, SelectAttach, SelectCompensate, Enqueues, IInv, HandOver, tables
<1>. QED BY <1>1, <1>2, <1>3, <1>4

LEMMA TopUpSendParts ==
  ASSUME IInv, TopUpSend
  PROVE /\ dl.pc \in HandOver /\ dl.cand \in Candidates
        /\ \/ dl' = DlIdle
           \/ /\ dl' \in DlTicks /\ dl'.pc \in HandOver
              /\ dl'.job = dl.job /\ dl'.cand = dl.cand
        /\ UNCHANGED BesidesTransfers /\ UNCHANGED sel /\ Enqueues(dl.cand)
<1>1. dl.pc \in HandOver /\ dl.cand \in Candidates
  BY DEF TopUpSend, TopUpIntent, RecordEnqueueIntent, TopUpRefused, EnqueueRefused,
     TopUpEnqueued, TopUpAttach, TopUpCompensate, HandOver, IInv, DlHolds
<1>2. \/ dl' = DlIdle
      \/ dl' \in DlTicks /\ dl'.pc \in HandOver /\ dl'.job = dl.job /\ dl'.cand = dl.cand
  BY <1>1, DlBusy DEF TopUpSend, TopUpIntent, TopUpRefused, TopUpEnqueued, TopUpAttach,
     TopUpCompensate, HandOver, IInv, DlTicks, IntentFor, NextFile
<1>3. UNCHANGED BesidesTransfers /\ UNCHANGED sel
  BY DEF TopUpSend, TopUpIntent, RecordEnqueueIntent, TopUpRefused, EnqueueRefused,
     TopUpEnqueued, TopUpAttach, TopUpCompensate, BesidesTransfers, tables
<1>4. Enqueues(dl.cand)
  BY <1>1, DlBusy, IntentEnqueues, RefusalEnqueues DEF TopUpSend, TopUpIntent, TopUpRefused,
     TopUpEnqueued, TopUpAttach, TopUpCompensate, Enqueues, IInv, HandOver, tables
<1>. QED BY <1>1, <1>2, <1>3, <1>4

LEMMA EnqueueTables ==
  ASSUME IInv, NEW c \in Candidates, Enqueues(c), UNCHANGED BesidesTransfers
  PROVE TableTypes'
<1>1. tr' \in TrType
  <2>1. tr \in [Candidates -> [Files -> TransferStates]] BY DEF IInv, TypeOK
  <2>2. ASSUME NEW f \in Files, NEW to \in TransferStates, tr' = [tr EXCEPT ![c][f] = to]
        PROVE tr' \in TrType
    BY <2>1, <2>2 DEF TrType
  <2>3. {"SENT", "PENDING", "ERRORED"} \subseteq TransferStates BY DEF TransferStates, LiveTransfer
  <2>. QED BY <2>1, <2>2, <2>3 DEF Enqueues, EnqueueFile, TrType
<1>. QED BY <1>1, Tables DEF BesidesTransfers, TableTypes

LEMMA SelectTopUpSteps ==
  ASSUME IInv,
         SelectReserve \/ SelectDefer \/ SelectTopUp
  PROVE IInv'
<1>1. CASE SelectReserve
  <2>1. sel.pc = "reserve" /\ sel' = [sel EXCEPT !.pc = "topup"] /\ UNCHANGED <<dis, dl, imp>> BY <1>1 DEF SelectReserve
  <2>2. SelMoved BY <2>1, SelBusy DEF IInv, SelMoved, SelTicks, HandOver
  <2>3. TableTypes' BY <1>1, Tables DEF SelectReserve, ReserveFolder, TableTypes, DeferredType, Deferrals
  <2>. QED BY <1>1, <2>2, <2>3, SelMovedStep DEF SelectReserve
<1>2. CASE SelectDefer
  <2>1. sel.pc = "reserve" /\ DeferCandidate(sel.cand) /\ sel.cand \in Candidates BY <1>2 DEF SelectDefer, IInv, SelHolds
  <2>2. TableTypes' BY <1>2, <2>1, Tables, DeferType DEF SelectDefer, TableTypes
  <2>3. TicksKept BY <1>2 DEF SelectDefer, TicksKept
  <2>. QED BY <1>2, <2>2, <2>3, QuietStep DEF SelectDefer
<1>3. CASE SelectTopUp
  <2>1. UNCHANGED <<state, cand>> /\ TableTypes'
    BY <1>3, SelectTopUpParts, EnqueueTables DEF BesidesTransfers
  <2>2. CASE SelMoved BY <2>1, <2>2, SelMovedStep
  <2>3. CASE sel' = SelIdle
    <3>1. TicksKept BY <1>3, <2>3, SelectTopUpParts DEF TicksKept, BesidesTransfers
    <3>. QED BY <2>1, <3>1, QuietStep
  <2>. QED BY <1>3, <2>2, <2>3, SelectTopUpParts
<1>. QED BY <1>1, <1>2, <1>3

\* A candidate fails or succeeds, with its job, and the tick that decided ends.
LEMMA TerminalStep ==
  ASSUME IInv, TicksKept, UNCHANGED <<retries, tr, deferred, deleting>>,
         NEW c \in Candidates, NEW j \in Jobs, HeldBy(c, j),
         NEW st \in {"SUCCEEDED", "FAILED"}, NEW from \in SlotStates,
         NEW to \in {"SELECTING", "DONE", "NOT_IMPORTED", "PARKED", "IMPORT_REFUSED"},
         NEW r \in Rejections, TerminalCandidateAndAdvance(c, j, st, from, to, r)
  PROVE IInv'
<1>1. to \in JobStates BY DEF JobStates
<1>2. /\ cand' \in CandType /\ latest' \in LatestType
      /\ state' \in StateType /\ rejected' \in RejectedType
  BY <1>1, TerminalType DEF IInv
<1>3. TableTypes' BY <1>2, Tables DEF TableTypes
<1>4. /\ ActiveCandidate' /\ RowsKept
      /\ \A k \in Jobs : state[k] \in Undecided => state'[k] = state[k]
  BY TerminalKeeps
<1>5. (dis.pc # "idle" => dis.job \in Jobs) /\ (sel.pc # "idle" => sel.job \in Jobs) BY DisBusy, SelBusy DEF IInv
<1>6. JobsKept BY <1>4, <1>5 DEF JobsKept, Searched
<1>. QED BY <1>3, <1>4, <1>6, TableStep

LEMMA SelectFolderCeilingStep ==
  ASSUME IInv, SelectFolderCeiling PROVE IInv'
<1>1. /\ sel.pc = "reserve" /\ TicksKept /\ UNCHANGED <<retries, tr, deferred, deleting>>
      /\ TerminalCandidateAndAdvance(sel.cand, sel.job, "FAILED", "DOWNLOADING", "SELECTING", "NO")
  BY DEF SelectFolderCeiling, FailCandidateAndAdvance, TicksKept
<1>2. sel.cand \in Candidates /\ sel.job \in Jobs /\ HeldBy(sel.cand, sel.job)
  BY <1>1, SelBusy DEF IInv, SelHolds, HeldRows
<1>. QED BY <1>1, <1>2, TerminalStep DEF SlotStates, Rejections

LEMMA SelectingStep ==
  ASSUME IInv, Selecting PROVE IInv'
BY SelectReads, SelectGivesUpStep, SelectActivateStep, SelectTopUpSteps, SelectFolderCeilingStep
   DEF Selecting

LEMMA DiscoveryStep ==
  ASSUME IInv, Discovery PROVE IInv'
BY DiscoveryReads, DiscoveryFailsStep, DiscoveryInsertStep, DiscoveryAdvanceStep DEF Discovery

-----------------------------------------------------------------------------
(* Downloading and Importing *)

LEMMA ReconcileStep ==
  ASSUME IInv, NEW c \in Candidates, NEW f \in Files,
         \/ \E to \in {"PENDING", "COMPLETED", "ERRORED", "CANCELLED"} : Reconcile(c, f, to)
         \/ ReconcilePark(c, f)
  PROVE IInv'
<1>1. /\ \E to \in {"PENDING", "COMPLETED", "ERRORED", "CANCELLED"} : tr' = [tr EXCEPT ![c][f] = to]
      /\ UNCHANGED <<retries, cand, latest, deferred, rejected, ticks, deleting>>
  BY DEF Reconcile, ReconcilePark
<1>2. tr' \in TrType BY <1>1 DEF IInv, TypeOK, TrType, TransferStates, LiveTransfer
<1>3. TicksKept BY <1>1, TicksSame
<1>4. ASSUME NEW to, Reconcile(c, f, to) PROVE IInv'
  <2>1. UNCHANGED state BY <1>4 DEF Reconcile
  <2>2. TableTypes' BY <1>1, <1>2, <2>1, Tables DEF TableTypes
  <2>. QED BY <1>1, <1>3, <2>1, <2>2, QuietStep
<1>5. CASE ReconcilePark(c, f)
  <2>1. AdvanceJobStateFrom(cand[c].job, "DOWNLOADING", "PARKED") /\ cand[c].job \in Jobs
    BY <1>5, RowShape DEF ReconcilePark, IInv
  <2>2. state' \in StateType BY <2>1, Tables DEF AdvanceJobStateFrom, TableTypes, StateType, JobStates
  <2>3. \A k \in Jobs : state'[k] = state[k] \/ (state[k] = "DOWNLOADING" /\ state'[k] = "PARKED")
    BY <2>1 DEF AdvanceJobStateFrom, IInv, TypeOK
  <2>4. TableTypes' BY <1>1, <1>2, <2>2, Tables DEF TableTypes
  <2>5. ActiveCandidate' BY <1>1, <2>3, ActiveMoved DEF IInv
  <2>6. (dis.pc # "idle" => dis.job \in Jobs) /\ (sel.pc # "idle" => sel.job \in Jobs) BY DisBusy, SelBusy DEF IInv
  <2>7. JobsKept BY <2>3, <2>6 DEF JobsKept, Searched, Undecided
  <2>8. RowsKept BY <1>1 DEF RowsKept
  <2>. QED BY <1>3, <2>4, <2>5, <2>7, <2>8, TableStep
<1>. QED BY <1>4, <1>5

\* Downloading's tick moves on; the row it holds is its job's or deleted.
LEMMA DlMovedStep ==
  ASSUME IInv, TableTypes', dl' \in DlTicks, DlHolds', HeldBy(dl'.cand, dl'.job),
         UNCHANGED <<state, cand, dis, sel, imp>>
  PROVE IInv'
<1>1. TickTypes' BY DEF IInv, TypeOK, TickTypes
<1>2. Holds' BY DEF IInv, Holds, DisHolds, SelHolds, DlHolds, ImpHolds, HeldRows, HeldBy
<1>3. TypeOK'
  BY <1>1 DEF TypeOK, TickTypes, TableTypes, StateType, CandType, DeferredType, LatestType, TrType, RejectedType
<1>4. ActiveCandidate' BY ActiveUnchanged DEF IInv
<1>. QED BY <1>2, <1>3, <1>4 DEF IInv, Holds

LEMMA DlIdleHolds ==
  ASSUME dl' = DlIdle PROVE dl' \in DlTicks /\ DlHolds' /\ HeldBy(dl'.cand, dl'.job)
BY DEF DlIdle, DlTicks, DlHolds, HeldBy

LEMMA DownloadReads ==
  ASSUME IInv,
         \/ \E j \in Jobs : ResolveRead(j) \/ TopUpRead(j)
         \/ \E c \in Candidates : ResolveLook(c)
         \/ DownloadStop
  PROVE IInv'
<1>. SUFFICES ASSUME UNCHANGED <<tables, dis, sel, imp, deleting>>,
                     dl' \in DlTicks /\ DlHolds' /\ HeldBy(dl'.cand, dl'.job)
              PROVE IInv'
  <2>1. ASSUME NEW j \in Jobs, ResolveRead(j)
        PROVE dl' \in DlTicks /\ DlHolds' /\ HeldBy(dl'.cand, dl'.job)
    <3>1. dl' = [pc |-> "resolve", job |-> j, cand |-> None, pend |-> {}, sent |-> {},
                   file |-> None]
      BY <2>1 DEF ResolveRead, DlIdle
    <3>2. dl' \in DlTicks BY <3>1 DEF DlTicks
    <3>. QED BY <3>1, <3>2 DEF DlHolds, HeldBy
  <2>2. ASSUME NEW j \in Jobs, TopUpRead(j)
        PROVE dl' \in DlTicks /\ DlHolds' /\ HeldBy(dl'.cand, dl'.job)
    <3>1. PICK c \in ActiveCandidates(j) :
            dl' = [DlIdle EXCEPT !.pc = "reserve", !.job = j, !.cand = c,
                                 !.pend = RowsIn(c, {"PENDING"})]
      BY <2>2 DEF TopUpRead
    <3>2. /\ dl' = [pc |-> "reserve", job |-> j, cand |-> c, pend |-> RowsIn(c, {"PENDING"}), sent |-> {},
                    file |-> None]
          /\ c \in Candidates /\ cand[c].job = j /\ RowsIn(c, {"PENDING"}) \subseteq Files
      BY <3>1 DEF DlIdle, ActiveCandidates, CandidatesOf, RowsIn
    <3>3. dl' \in DlTicks BY <3>2 DEF DlTicks
    <3>. QED BY <3>2, <3>3 DEF DlHolds, HeldBy
  <2>3. ASSUME NEW c \in Candidates, ResolveLook(c)
        PROVE dl' \in DlTicks /\ DlHolds' /\ HeldBy(dl'.cand, dl'.job)
    <3> DEFINE pend == RowsIn(c, {"PENDING"})
               sent == RowsIn(c, {"SENT"})
    <3>1. /\ dl.pc = "resolve" /\ cand[c].job = dl.job
          /\ \/ \E pc \in {"failed", "siblings"} :
                  dl' = [dl EXCEPT !.pc = pc, !.cand = c, !.pend = pend, !.sent = sent]
             \/ dl' = [dl EXCEPT !.pc = "done", !.cand = c]
             \/ dl' = DlIdle
      BY <2>3 DEF ResolveLook, ActiveCandidates, CandidatesOf
    <3>2. pend \subseteq Files /\ sent \subseteq Files BY DEF RowsIn
    <3>3. CASE dl' = DlIdle BY <3>3, DlIdleHolds
    <3>4. CASE dl' = [dl EXCEPT !.pc = "done", !.cand = c]
      <4>1. dl' \in DlTicks /\ dl'.cand = c /\ dl'.job = dl.job BY <3>1, <3>4, DlBusy DEF IInv, DlTicks
      <4>. QED BY <3>1, <4>1 DEF DlHolds, HeldBy
    <3>5. ASSUME NEW pc \in {"failed", "siblings"},
                 dl' = [dl EXCEPT !.pc = pc, !.cand = c, !.pend = pend, !.sent = sent]
          PROVE dl' \in DlTicks /\ DlHolds' /\ HeldBy(dl'.cand, dl'.job)
      <4>1. dl' \in DlTicks /\ dl'.cand = c /\ dl'.job = dl.job BY <3>1, <3>2, <3>5, DlBusy DEF IInv, DlTicks
      <4>. QED BY <3>1, <4>1 DEF DlHolds, HeldBy
    <3>. QED BY <3>1, <3>3, <3>4, <3>5
  <2>4. CASE DownloadStop BY <2>4, DlIdleHolds DEF DownloadStop
  <2>. QED BY <2>1, <2>2, <2>3, <2>4 DEF ResolveRead, TopUpRead, ResolveLook, DownloadStop
<1>1. TableTypes' BY Tables DEF TableTypes, tables
<1>. QED BY <1>1, DlMovedStep DEF tables

LEMMA DownloadTopUpSteps ==
  ASSUME IInv,
         \/ TopUpReserve \/ TopUpDefer \/ TopUpSend
         \/ \E S \in SUBSET dl.sent : ResolveSiblings(S)
  PROVE IInv'
<1>1. CASE TopUpReserve
  <2>1. /\ dl.pc = "reserve" /\ dl' = [dl EXCEPT !.pc = "topup"]
        /\ UNCHANGED <<state, cand, dis, sel, imp>>
    BY <1>1 DEF TopUpReserve
  <2>2. dl' \in DlTicks /\ dl'.cand = dl.cand /\ dl'.job = dl.job
    BY <2>1, DlBusy DEF IInv, DlTicks, HandOver
  <2>3. DlHolds' /\ HeldBy(dl'.cand, dl'.job) BY <2>1, <2>2 DEF IInv, DlHolds, HeldRows, HeldBy
  <2>4. TableTypes' BY <1>1, Tables DEF TopUpReserve, ReserveFolder, TableTypes,
                                        DeferredType, Deferrals
  <2>. QED BY <2>1, <2>2, <2>3, <2>4, DlMovedStep
<1>2. CASE TopUpDefer
  <2>1. dl.pc = "reserve" /\ DeferCandidate(dl.cand) /\ dl.cand \in Candidates BY <1>2 DEF TopUpDefer, IInv, DlHolds
  <2>2. TableTypes' BY <1>2, <2>1, Tables, DeferType DEF TopUpDefer, TableTypes
  <2>3. TicksKept BY <1>2 DEF TopUpDefer, TicksKept
  <2>. QED BY <1>2, <2>2, <2>3, QuietStep DEF TopUpDefer
<1>3. CASE TopUpSend
  <2>1. UNCHANGED <<state, cand, dis, sel, imp>> /\ TableTypes'
    BY <1>3, TopUpSendParts, EnqueueTables DEF BesidesTransfers
  <2>2. dl' \in DlTicks /\ DlHolds' /\ HeldBy(dl'.cand, dl'.job)
    <3>1. CASE dl' = DlIdle BY <3>1, DlIdleHolds
    <3>2. CASE dl' # DlIdle BY <1>3, <2>1, <3>2, TopUpSendParts DEF IInv, DlHolds, HeldRows, HeldBy
    <3>. QED BY <3>1, <3>2
  <2>. QED BY <2>1, <2>2, DlMovedStep
<1>4. ASSUME NEW S \in SUBSET dl.sent, ResolveSiblings(S) PROVE IInv'
  <2>1. /\ dl.pc = "siblings" /\ dl.cand \in Candidates
        /\ dl' = [dl EXCEPT !.pc = "failed", !.pend = {}] \/ dl' = DlIdle
        /\ UNCHANGED <<state, retries, cand, latest, deferred, rejected, dis, sel, imp, deleting>>
    BY <1>4 DEF ResolveSiblings, IInv, DlHolds
  <2>2. tr' \in TrType
    <3> DEFINE after == [f \in Files |->
          IF f \in dl.pend \cup S /\ Writable(dl.cand, f)
            THEN "CANCELLED" ELSE tr[dl.cand][f]]
    <3>1. tr' = [tr EXCEPT ![dl.cand] = after] BY <1>4 DEF ResolveSiblings
    <3>2. tr \in TrType BY DEF IInv, TypeOK, TrType
    <3>3. after \in [Files -> TransferStates] BY <2>1, <3>2 DEF TrType, TransferStates
    <3> HIDE DEF after
    <3>. QED BY <2>1, <3>1, <3>2, <3>3 DEF TrType
  <2>3. TableTypes' BY <2>1, <2>2, Tables DEF TableTypes
  <2>4. CASE dl' = DlIdle BY <2>1, <2>3, <2>4, DlIdleHolds, DlMovedStep
  <2>5. CASE dl' = [dl EXCEPT !.pc = "failed", !.pend = {}]
    <3>1. dl' \in DlTicks /\ dl'.cand = dl.cand /\ dl'.job = dl.job BY <2>1, <2>5, DlBusy DEF IInv, DlTicks
    <3>2. DlHolds' /\ HeldBy(dl'.cand, dl'.job) BY <2>1, <3>1 DEF IInv, DlHolds, HeldRows, HeldBy
    <3>. QED BY <2>1, <2>3, <3>1, <3>2, DlMovedStep
  <2>. QED BY <2>1, <2>4, <2>5
<1>. QED BY <1>1, <1>2, <1>3, <1>4

\* The download of a candidate is over, one way or the other.
LEMMA DownloadEndsStep ==
  ASSUME IInv, TopUpFolderCeiling \/ ResolveFailed \/ ResolveDone PROVE IInv'
<1>1. /\ dl.pc \in {"reserve", "failed", "done"} /\ TicksKept
      /\ UNCHANGED <<retries, tr, deferred, deleting>>
  BY DEF TopUpFolderCeiling, ResolveFailed, ResolveDone, TicksKept
<1>2. dl.cand \in Candidates /\ dl.job \in Jobs /\ HeldBy(dl.cand, dl.job) BY <1>1, DlBusy DEF IInv, DlHolds, HeldRows
<1>3. CASE \/ TerminalCandidateAndAdvance(dl.cand, dl.job, "FAILED", "DOWNLOADING", "SELECTING", "NO")
           \/ TerminalCandidateAndAdvance(dl.cand, dl.job, "FAILED", "DOWNLOADING", "SELECTING", "COOLDOWN")
           \/ TerminalCandidateAndAdvance(dl.cand, dl.job, "SUCCEEDED", "DOWNLOADING", "NOT_IMPORTED", "NO")
  BY <1>1, <1>2, <1>3, TerminalStep DEF SlotStates, Rejections
<1>4. CASE AdvanceJobStateFrom(dl.job, "DOWNLOADING", "IMPORTING") /\ UNCHANGED <<cand, latest, rejected>>
  <2>1. \A k \in Jobs : state'[k] = state[k] \/ (state[k] = "DOWNLOADING" /\ state'[k] = "IMPORTING")
    BY <1>2, <1>4 DEF AdvanceJobStateFrom, IInv, TypeOK
  <2>2. state' \in StateType BY <1>2, <1>4, Tables DEF AdvanceJobStateFrom, TableTypes, StateType, JobStates
  <2>3. TableTypes' BY <1>1, <1>4, <2>2, Tables DEF TableTypes
  <2>4. ActiveCandidate' BY <1>4, <2>1, ActiveMoved DEF IInv, SlotStates
  <2>5. (dis.pc # "idle" => dis.job \in Jobs) /\ (sel.pc # "idle" => sel.job \in Jobs) BY DisBusy, SelBusy DEF IInv
  <2>6. JobsKept BY <2>1, <2>5 DEF JobsKept, Searched, Undecided
  <2>7. RowsKept BY <1>4 DEF RowsKept
  <2>. QED BY <1>1, <2>3, <2>4, <2>6, <2>7, TableStep
<1>. QED BY <1>3, <1>4 DEF TopUpFolderCeiling, ResolveFailed, ResolveDone, FailCandidateAndAdvance,
                    CooldownCandidateAndAdvance, SucceedCandidateAndAdvance

LEMMA DownloadingStep ==
  ASSUME IInv, Downloading PROVE IInv'
BY ReconcileStep, DownloadReads, DownloadTopUpSteps, DownloadEndsStep DEF Downloading

LEMMA ImportReads ==
  ASSUME IInv,
         \/ \E j \in Jobs : ImportRead(j)
         \/ \E c \in Candidates : ImportCandidate(c)
         \/ ImportStop
  PROVE IInv'
<1>1. TickTypes /\ Holds BY DEF IInv, TypeOK, TickTypes, Holds
<1>2. ASSUME NEW j \in Jobs, ImportRead(j) PROVE IInv'
  <2>1. imp' = [pc |-> "read", job |-> j, cand |-> None] /\ UNCHANGED <<tables, dis, sel, dl, deleting>>
    BY <1>2 DEF ImportRead, ImpIdle
  <2>2. imp' \in ImpTicks BY <2>1 DEF ImpTicks
  <2>3. TickTypes' BY <1>1, <2>1, <2>2 DEF TickTypes
  <2>4. Holds' BY <1>1, <2>1 DEF tables, Holds, DisHolds, SelHolds, DlHolds, ImpHolds, HeldRows, HeldBy
  <2>. QED BY <2>1, <2>3, <2>4, ReadStep
<1>3. ASSUME NEW c \in Candidates, ImportCandidate(c) PROVE IInv'
  <2>1. /\ imp.pc = "read" /\ cand[c].job = imp.job
        /\ imp' = [imp EXCEPT !.pc = "work", !.cand = c] /\ UNCHANGED <<tables, dis, sel, dl, deleting>>
    BY <1>3 DEF ImportCandidate, ActiveCandidates, CandidatesOf
  <2>2. imp' \in ImpTicks /\ imp'.job = imp.job /\ imp'.cand = c BY <2>1, ImpBusy DEF IInv, ImpTicks
  <2>3. TickTypes' BY <1>1, <2>1, <2>2 DEF TickTypes
  <2>4. Holds' BY <1>1, <2>1, <2>2 DEF tables, Holds, DisHolds, SelHolds, DlHolds, ImpHolds, HeldRows, HeldBy
  <2>. QED BY <2>1, <2>3, <2>4, ReadStep
<1>4. CASE ImportStop
  <2>1. TicksKept /\ UNCHANGED <<tables, deleting>> BY <1>4 DEF ImportStop, ImportEnd, TicksKept, tables
  <2>2. TableTypes' BY <2>1, Tables DEF TableTypes, tables
  <2>. QED BY <2>1, <2>2, QuietStep DEF tables
<1>. QED BY <1>2, <1>3, <1>4

\* Every end of an import is one terminal transaction.
LEMMA ImportVerdict ==
  ASSUME \/ ImportDone \/ ImportNotImported \/ ImportRejected \/ ImportStuck
         \/ ImportRefused \/ ImportUnconfirmed
  PROVE \E st \in {"SUCCEEDED", "FAILED"}, r \in Rejections,
           to \in {"SELECTING", "DONE", "NOT_IMPORTED", "PARKED", "IMPORT_REFUSED"} :
          TerminalCandidateAndAdvance(imp.cand, imp.job, st, "IMPORTING", to, r)
<1>1. CASE ImportDone BY <1>1 DEF ImportDone, SucceedCandidateAndAdvance, Rejections
<1>2. CASE ImportNotImported BY <1>2 DEF ImportNotImported, SucceedCandidateAndAdvance, Rejections
<1>3. CASE ImportRejected BY <1>3 DEF ImportRejected, RejectCandidateAndAdvance, Rejections
<1>4. CASE ImportStuck BY <1>4 DEF ImportStuck, FailCandidateAndAdvance, Rejections
<1>5. CASE ImportRefused BY <1>5 DEF ImportRefused, RejectCandidateAndAdvance, Rejections
<1>6. CASE ImportUnconfirmed BY <1>6 DEF ImportUnconfirmed, RejectCandidateAndAdvance, Rejections
<1>. QED BY <1>1, <1>2, <1>3, <1>4, <1>5, <1>6

LEMMA ImportEndsStep ==
  ASSUME IInv,
         \/ ImportDone \/ ImportNotImported \/ ImportRejected \/ ImportStuck
         \/ ImportRefused \/ ImportUnconfirmed
  PROVE IInv'
<1>1. imp.pc = "work" /\ TicksKept /\ UNCHANGED <<retries, tr, deferred, deleting>>
  BY DEF ImportDone, ImportNotImported, ImportRejected, ImportStuck, ImportRefused,
         ImportUnconfirmed, ImportEnd, TicksKept
<1>2. imp.cand \in Candidates /\ imp.job \in Jobs /\ HeldBy(imp.cand, imp.job)
  BY <1>1, ImpBusy DEF IInv, ImpHolds, HeldRows
<1>. QED BY <1>1, <1>2, ImportVerdict, TerminalStep DEF SlotStates

LEMMA ImportingStep ==
  ASSUME IInv, Importing PROVE IInv'
BY ImportReads, ImportEndsStep DEF Importing

-----------------------------------------------------------------------------
(* The user *)

\* A job cancelled, or cancelled and about to be deleted.
LEMMA CancelStep ==
  ASSUME IInv, NEW j \in Jobs, Cancel(j) \/ PrepareDelete(j) PROVE IInv'
<1>1. /\ state' = [state EXCEPT ![j] = "CANCELLED"] /\ CancelTransfersOf(j)
      /\ UNCHANGED <<retries, cand, latest, deferred, rejected, ticks>>
      /\ deleting' \subseteq Jobs
  BY DEF Cancel, PrepareDelete, UserUnchanged, IInv, TypeOK
<1>2. tr' \in TrType BY <1>1 DEF CancelTransfersOf, IInv, TypeOK, TrType, TransferStates
<1>3. state' \in StateType BY <1>1, Tables DEF TableTypes, StateType, JobStates
<1>4. TableTypes' BY <1>1, <1>2, <1>3, Tables DEF TableTypes
<1>5. TicksKept BY <1>1, TicksSame
<1>6. \A k \in Jobs : state'[k] = IF k = j THEN "CANCELLED" ELSE state[k] BY <1>1 DEF IInv, TypeOK
<1>7. ActiveCandidate' BY <1>1, <1>6, ActiveMoved DEF IInv
<1>8. (dis.pc # "idle" => dis.job \in Jobs) /\ (sel.pc # "idle" => sel.job \in Jobs) BY DisBusy, SelBusy DEF IInv
<1>9. JobsKept BY <1>6, <1>8 DEF JobsKept, Searched, Undecided
<1>10. RowsKept BY <1>1 DEF RowsKept
<1>. QED BY <1>4, <1>5, <1>7, <1>9, <1>10, TableStep

\* The rows of a job go; the job is deleted or searched again from nothing.
LEMMA ClearedStep ==
  ASSUME IInv, NEW j \in Jobs, DeleteJob(j) \/ RetryFailedJob(j) \/ ForceSearch(j) PROVE IInv'
<1>1. PICK to \in {"ABSENT", "WANTED"}, K \in {Rejections, {"COOLDOWN"}} :
        /\ state' = [state EXCEPT ![j] = to] /\ retries' = [retries EXCEPT ![j] = 0]
        /\ DeleteCandidates({j}) /\ DeleteRejections({j}, K)
  BY DEF DeleteJob, RetryFailedJob, ForceSearch
<1>2. UNCHANGED ticks /\ deleting' \subseteq Jobs
  BY DEF DeleteJob, RetryFailedJob, ForceSearch, UserUnchanged, IInv, TypeOK
<1>3. state' \in StateType /\ retries' \in [Jobs -> Retries]
  BY <1>1, Tables, ConfigAssumption DEF TableTypes, StateType, JobStates, Retries
<1>4. {j} \in SUBSET Jobs OBVIOUS
<1>5. TableTypes' BY <1>1, <1>2, <1>3, <1>4, DeleteCandidatesType, DeleteRejectionsType, Tables DEF IInv, TableTypes
<1>6. TicksKept BY <1>2, TicksSame
<1>7. \A k \in Jobs : state'[k] = IF k = j THEN to ELSE state[k] BY <1>1 DEF IInv, TypeOK
<1>8. RowsKept /\ \A k \in Jobs :
        ActiveCandidates(k)' = IF k \in {j} THEN {} ELSE ActiveCandidates(k)
  BY <1>1, <1>4, DeleteCandidatesRows DEF IInv
<1>9. ActiveCandidate' BY <1>7, <1>8 DEF IInv, ActiveCandidate
<1>10. (dis.pc # "idle" => dis.job \in Jobs) /\ (sel.pc # "idle" => sel.job \in Jobs) BY DisBusy, SelBusy DEF IInv
<1>11. JobsKept BY <1>7, <1>10 DEF JobsKept, Searched, Undecided
<1>. QED BY <1>5, <1>6, <1>8, <1>9, <1>11, TableStep

LEMMA DeleteGivesUpStep ==
  ASSUME IInv, NEW j \in Jobs, DeleteGivesUp(j) PROVE IInv'
<1>1. TableTypes' BY Tables DEF DeleteGivesUp, TableTypes, tables
<1>2. TicksKept BY TicksSame DEF DeleteGivesUp
<1>. QED BY <1>1, <1>2, QuietStep DEF DeleteGivesUp, tables

LEMMA TicksLoseRows ==
  ASSUME IInv, NEW j \in Jobs, RetryManualJob(j)
  PROVE dis' = dis /\ imp' = imp /\ (sel' = sel \/ SelSame) /\ (dl' = dl \/ DlSame)
<1>1. sel' = sel \/ SelSame
  <2>1. CASE sel.pc = "idle" BY <2>1, NoneAssumption DEF RetryManualJob, RowsLost, IInv, TypeOK, SelTicks, SelIdle, SelSame, HandOver
  <2>2. CASE sel.pc # "idle" BY <2>2, SelBusy DEF RetryManualJob, RowsLost, IInv, SelTicks, SelSame
  <2>. QED BY <2>1, <2>2
<1>2. dl' = dl \/ DlSame
  <2>1. CASE dl.pc = "idle" BY <2>1, NoneAssumption DEF RetryManualJob, RowsLost, IInv, TypeOK, DlTicks, DlIdle, DlSame, HandOver
  <2>2. CASE dl.pc # "idle" BY <2>2, DlBusy DEF RetryManualJob, RowsLost, IInv, DlTicks, DlSame
  <2>. QED BY <2>1, <2>2
<1>. QED BY <1>1, <1>2 DEF RetryManualJob

LEMMA RetryManualStep ==
  ASSUME IInv, NEW j \in Jobs, RetryManualJob(j) PROVE IInv'
<1>1. /\ j \in ManualJobs /\ state[j] \in {"FAILED", "PARKED"}
      /\ state' = [state EXCEPT ![j] = "SELECTING"] /\ retries' = [retries EXCEPT ![j] = 0]
      /\ cand' = [c \in Candidates |->
           IF cand[c].job = j THEN [cand[c] EXCEPT !.st = "NEW"] ELSE cand[c]]
      /\ tr' = [c \in Candidates |-> IF cand[c].job = j THEN NoRows ELSE tr[c]]
      /\ latest' = [latest EXCEPT ![j] = None]
      /\ UNCHANGED <<deferred, rejected, deleting>>
  BY DEF RetryManualJob
<1>2. \A c \in Candidates :
        /\ cand'[c].job = cand[c].job /\ cand'[c] \in CandidateRows
        /\ cand[c].job = j => cand[c].st # "FREE" /\ cand'[c].st = "NEW"
        /\ cand[c].job # j => cand'[c] = cand[c]
  <2> TAKE c \in Candidates
  <2>1. CASE cand[c].job = j
    <3>1. cand[c] \in [st : {"NEW", "ACTIVE", "SUCCEEDED", "FAILED"}, job : Jobs, peer : Peers]
      BY <2>1, RowShape, NoneAssumption DEF IInv
    <3>2. cand'[c] = [cand[c] EXCEPT !.st = "NEW"] BY <1>1, <2>1
    <3>. QED BY <2>1, <3>1, <3>2 DEF CandidateRows
  <2>2. CASE cand[c].job # j BY <1>1, <2>2 DEF IInv, TypeOK
  <2>. QED BY <2>1, <2>2
<1>3. TableTypes'
  <2>1. cand' \in CandType BY <1>1, <1>2 DEF CandType
  <2>2. tr' \in TrType BY <1>1, Tables DEF TableTypes, TrType, NoRows, TransferStates
  <2>3. /\ state' \in StateType /\ latest' \in LatestType /\ retries' \in [Jobs -> Retries]
    BY <1>1, Tables, ConfigAssumption DEF TableTypes, StateType, JobStates, DeferredType, LatestType, Retries
  <2>. QED BY <1>1, <2>1, <2>2, <2>3, Tables DEF TableTypes
<1>4. TicksKept BY TicksLoseRows DEF TicksKept
<1>5. \A k \in Jobs : state'[k] = IF k = j THEN "SELECTING" ELSE state[k] BY <1>1 DEF IInv, TypeOK
<1>6. \A k \in Jobs : ActiveCandidates(k)' = IF k = j THEN {} ELSE ActiveCandidates(k)
  BY <1>2 DEF ActiveCandidates, CandidatesOf
<1>7. ActiveCandidate' BY <1>5, <1>6 DEF IInv, ActiveCandidate
<1>8. (dis.pc # "idle" => dis.job \in Jobs \ ManualJobs) /\ (sel.pc # "idle" => sel.job \in Jobs)
  BY DisBusy, SelBusy DEF IInv, LidarrJobs
<1>9. JobsKept BY <1>1, <1>5, <1>8 DEF JobsKept, Undecided
<1>10. RowsKept BY <1>2 DEF RowsKept
<1>. QED BY <1>3, <1>4, <1>7, <1>9, <1>10, TableStep


\* The record of the tried candidates: the latest one is the job's, a refused
\* job's has FAILED, and a success ends its job for good.
Ended == {"DONE", "NOT_IMPORTED", "CANCELLED"}
LatestOfJob == \A j \in Jobs : latest[j] # None => cand[latest[j]].job = j
RefusedFailed ==
  \A j \in Jobs : state[j] = "IMPORT_REFUSED" =>
    latest[j] # None /\ cand[latest[j]].st = "FAILED"
SuccessEnds ==
  \A c \in Candidates : cand[c].st = "SUCCEEDED" => state[cand[c].job] \in Ended
RInv == LatestOfJob /\ RefusedFailed /\ SuccessEnds

LEMMA RetryRefusedStep ==
  ASSUME IInv, RInv, NEW j \in Jobs, RetryRefusedJob(j) PROVE IInv'
<1>1. PICK c \in CurrentCandidates(j) :
        /\ cand[c].st = "FAILED" /\ state[j] = "IMPORT_REFUSED"
        /\ cand' = [cand EXCEPT ![c].st = "ACTIVE"]
        /\ latest' = [latest EXCEPT ![j] = c]
        /\ rejected' = [rejected EXCEPT ![j][cand[c].peer] = "NO"]
        /\ state' = [state EXCEPT ![j] = "IMPORTING"]
        /\ UNCHANGED <<retries, tr, deferred, ticks, deleting>>
  BY DEF RetryRefusedJob, UserUnchanged
<1>2. c \in Candidates /\ cand[c].job = j
  BY DEF IInv, TypeOK, RInv, LatestOfJob, CurrentCandidates, ActiveCandidates, NewCandidates, CandidatesOf
<1>3. cand[c] \in [st : {"NEW", "ACTIVE", "SUCCEEDED", "FAILED"}, job : Jobs, peer : Peers]
  BY <1>1, <1>2, RowShape DEF IInv
<1>4. \A d \in Candidates : /\ cand'[d].job = cand[d].job
                            /\ d # c => cand'[d] = cand[d]
                            /\ d = c => cand'[d].st = "ACTIVE" /\ cand'[d] \in CandidateRows
  BY <1>1, <1>3 DEF IInv, TypeOK, CandidateRows
<1>5. TableTypes'
  <2>1. cand' \in CandType BY <1>1, <1>2, <1>4, Tables DEF TableTypes, CandType
  <2>2. rejected' \in RejectedType BY <1>1, <1>3, Tables DEF TableTypes, RejectedType, Rejections
  <2>3. state' \in StateType /\ latest' \in LatestType
    BY <1>1, <1>2, Tables DEF TableTypes, StateType, JobStates, DeferredType, LatestType
  <2>. QED BY <1>1, <2>1, <2>2, <2>3, Tables DEF TableTypes
<1>6. TicksKept BY <1>1, TicksSame
<1>7. \A k \in Jobs : state'[k] = IF k = j THEN "IMPORTING" ELSE state[k] BY <1>1 DEF IInv, TypeOK
<1>8. ActiveCandidates(j) = {} BY <1>1 DEF IInv, ActiveCandidate
<1>9. \A k \in Jobs : ActiveCandidates(k)' = IF k = j THEN {c} ELSE ActiveCandidates(k)
  BY <1>2, <1>4, <1>8 DEF ActiveCandidates, CandidatesOf
<1>10. ActiveCandidate' BY <1>2, <1>7, <1>9 DEF IInv, ActiveCandidate
<1>11. (dis.pc # "idle" => dis.job \in Jobs) /\ (sel.pc # "idle" => sel.job \in Jobs) BY DisBusy, SelBusy DEF IInv
<1>12. JobsKept BY <1>1, <1>7, <1>11 DEF JobsKept, Searched, Undecided
<1>13. RowsKept BY <1>1, <1>4 DEF RowsKept
<1>. QED BY <1>5, <1>6, <1>10, <1>12, <1>13, TableStep

LEMMA CreateManualStep ==
  ASSUME IInv, NEW j \in Jobs, NEW c \in Candidates, NEW p \in Peers, CreateManualJob(j, c, p)
  PROVE IInv'
<1>1. /\ FreshJob(j) /\ FreshCandidate(c)
      /\ state' = [state EXCEPT ![j] = "DOWNLOADING"]
      /\ retries' = [retries EXCEPT ![j] = 0]
      /\ cand' = [cand EXCEPT ![c] = [st |-> "ACTIVE", job |-> j, peer |-> p]]
      /\ latest' = [latest EXCEPT ![j] = c]
      /\ tr' = [tr EXCEPT ![c] = AllPending]
      /\ UNCHANGED <<deferred, rejected, ticks, deleting>>
  BY DEF CreateManualJob, UserUnchanged
<1>2. /\ state[j] = "ABSENT" /\ dis.job # j /\ sel.job # j
      /\ cand[c].st = "FREE" /\ c \notin {sel.cand, dl.cand, imp.cand}
  BY <1>1 DEF FreshJob, FreshCandidate
<1>3. \A d \in Candidates : IF d = c THEN cand'[d] = [st |-> "ACTIVE", job |-> j, peer |-> p]
                                     ELSE cand'[d] = cand[d]
  BY <1>1 DEF IInv, TypeOK
<1>4. TableTypes'
  <2>1. cand' \in CandType
    <3>1. [st |-> "ACTIVE", job |-> j, peer |-> p] \in CandidateRows BY DEF CandidateRows
    <3>. QED BY <1>1, <3>1, Tables DEF TableTypes, CandType
  <2>2. tr' \in TrType BY <1>1, Tables DEF TableTypes, TrType, AllPending, TransferStates, LiveTransfer
  <2>3. /\ state' \in StateType /\ latest' \in LatestType /\ retries' \in [Jobs -> Retries]
    BY <1>1, Tables, ConfigAssumption DEF TableTypes, StateType, JobStates, DeferredType, LatestType, Retries
  <2>. QED BY <1>1, <2>1, <2>2, <2>3, Tables DEF TableTypes
<1>5. TicksKept BY <1>1, TicksSame
<1>6. \A k \in Jobs : state'[k] = IF k = j THEN "DOWNLOADING" ELSE state[k] BY <1>1 DEF IInv, TypeOK
<1>7. ActiveCandidates(j) = {} BY <1>2 DEF IInv, ActiveCandidate
<1>8. cand[c].job = None /\ None \notin Jobs BY <1>2, RowShape, NoneAssumption DEF IInv
<1>9. \A k \in Jobs : ActiveCandidates(k)' = IF k = j THEN {c} ELSE ActiveCandidates(k)
  BY <1>3, <1>7, <1>8 DEF ActiveCandidates, CandidatesOf
<1>10. ActiveCandidate' BY <1>6, <1>9 DEF IInv, ActiveCandidate
<1>11. (dis.pc # "idle" => dis.job \in Jobs) /\ (sel.pc # "idle" => sel.job \in Jobs) BY DisBusy, SelBusy DEF IInv
<1>12. JobsKept BY <1>2, <1>6, <1>11 DEF JobsKept
<1>13. RowsKept BY <1>2, <1>3 DEF RowsKept
<1>. QED BY <1>4, <1>5, <1>10, <1>12, <1>13, TableStep

LEMMA UserStep ==
  ASSUME IInv, RInv, User PROVE IInv'
BY CancelStep, ClearedStep, DeleteGivesUpStep, RetryManualStep, RetryRefusedStep, CreateManualStep
   DEF User

LEMMA StutterStep ==
  ASSUME IInv, UNCHANGED vars PROVE IInv'
<1>1. TableTypes' BY Tables DEF TableTypes, vars, tables
<1>2. TicksKept BY TicksSame DEF vars
<1>. QED BY <1>1, <1>2, QuietStep DEF vars, tables

LEMMA IInvStep ==
  ASSUME IInv, RInv, [Next]_vars PROVE IInv'
BY SyncWantedStep, DiscoveryStep, SelectingStep, DownloadingStep, ImportingStep, UserStep, StutterStep
   DEF Next, Wanted

-----------------------------------------------------------------------------
(* The record of the tried candidates *)

\* The rows stay, and no job starts or stops being refused or ended, but by
\* cancellation or by giving a refusal or an end up.
RecordKept ==
  /\ UNCHANGED <<cand, latest>>
  /\ \A k \in Jobs : \/ state'[k] = state[k]
                     \/ state'[k] = "CANCELLED"
                     \/ state[k] \notin Ended /\ state'[k] # "IMPORT_REFUSED"

LEMMA RecordKeptStep ==
  ASSUME IInv, RInv, RecordKept PROVE RInv'
<1>1. LatestOfJob' /\ RefusedFailed' BY DEF RecordKept, RInv, LatestOfJob, RefusedFailed
<1>2. SuccessEnds' BY RowShape DEF IInv, RecordKept, RInv, SuccessEnds, Ended
<1>. QED BY <1>1, <1>2 DEF RInv

\* MarkJobFailed by a tick that is still deciding about the job.
LEMMA FailedRecord ==
  ASSUME IInv, NEW j \in Jobs, state[j] \in Undecided, MarkJobFailed(j), UNCHANGED <<cand, latest>>
  PROVE RecordKept
<1>1. \A k \in Jobs : \/ state'[k] = state[k]
                      \/ state[k] \in NoCandidateStates /\ state'[k] = "FAILED" /\ k = j
  BY FailedKeeps
<1>2. state'[j] = state[j] \/ state[j] \notin Ended BY DEF MarkJobFailed, Undecided, Ended, IInv, TypeOK
<1>. QED BY <1>1, <1>2 DEF RecordKept

\* The rows of the jobs in J go, and the others keep theirs and their states.
LEMMA DeletedRecord ==
  ASSUME IInv, RInv, NEW J \in SUBSET Jobs, DeleteCandidates(J),
         \A k \in J : state'[k] # "IMPORT_REFUSED",
         \A k \in Jobs \ J : \/ state'[k] = state[k]
                             \/ state'[k] = "CANCELLED"
                             \/ state[k] = "ABSENT" /\ state'[k] # "IMPORT_REFUSED"
  PROVE RInv'
<1>1. /\ \A c \in Candidates : cand'[c] = IF cand[c].job \in J THEN FreeCandidate ELSE cand[c]
      /\ \A j \in Jobs : latest'[j] = IF j \in J THEN None ELSE latest[j]
  BY DEF DeleteCandidates
<1>2. \A j \in Jobs : latest[j] # None => latest[j] \in Candidates BY DEF IInv, TypeOK
<1>3. LatestOfJob' BY <1>1, <1>2 DEF RInv, LatestOfJob
<1>4. RefusedFailed' BY <1>1, <1>2 DEF RInv, LatestOfJob, RefusedFailed
<1>5. SuccessEnds'
  <2> SUFFICES ASSUME NEW c \in Candidates, cand'[c].st = "SUCCEEDED"
               PROVE state'[cand'[c].job] \in Ended
    BY DEF SuccessEnds
  <2>1. cand[c].job \notin J /\ cand'[c] = cand[c] BY <1>1 DEF FreeCandidate
  <2>2. cand[c].job \in Jobs /\ state[cand[c].job] \in Ended BY <2>1, RowShape DEF IInv, RInv, SuccessEnds
  <2>. QED BY <2>1, <2>2 DEF Ended
<1>. QED BY <1>3, <1>4, <1>5 DEF RInv

\* One row of a job that is neither refused nor ended is tried, and becomes
\* the job's latest; the job is refused only when the row has failed and is
\* ended only when it has succeeded.
LEMMA TriedRecord ==
  ASSUME IInv, RInv, NEW c \in Candidates, NEW j \in Jobs, cand[c].job = j,
         state[j] \notin Ended, NEW st \in {"ACTIVE", "SUCCEEDED", "FAILED"}, NEW to,
         cand' = [cand EXCEPT ![c].st = st], latest' = [latest EXCEPT ![j] = c],
         state' = [state EXCEPT ![j] = to],
         to = "IMPORT_REFUSED" => st = "FAILED", st = "SUCCEEDED" => to \in Ended
  PROVE RInv'
<1>1. cand[c] \in [st : {"NEW", "ACTIVE", "SUCCEEDED", "FAILED"}, job : Jobs, peer : Peers]
  BY RowShape, NoneAssumption DEF IInv
<1>2. \A d \in Candidates : /\ cand'[d].job = cand[d].job
                            /\ cand'[d].st = IF d = c THEN st ELSE cand[d].st
  BY <1>1 DEF IInv, TypeOK
<1>3. \A k \in Jobs : /\ latest'[k] = IF k = j THEN c ELSE latest[k]
                      /\ latest[k] # None => latest[k] \in Candidates
                      /\ state'[k] = IF k = j THEN to ELSE state[k]
  BY DEF IInv, TypeOK
<1>4. LatestOfJob' BY <1>2, <1>3 DEF RInv, LatestOfJob
<1>5. RefusedFailed' BY <1>2, <1>3, NoneAssumption DEF RInv, LatestOfJob, RefusedFailed
<1>6. SuccessEnds' BY <1>2, <1>3, RowShape, NoneAssumption DEF IInv, RInv, SuccessEnds
<1>. QED BY <1>4, <1>5, <1>6 DEF RInv

LEMMA TerminalRecord ==
  ASSUME IInv, RInv, NEW c \in Candidates, NEW j \in Jobs, HeldBy(c, j),
         NEW st \in {"SUCCEEDED", "FAILED"}, NEW from \in SlotStates, NEW to, NEW r,
         TerminalCandidateAndAdvance(c, j, st, from, to, r),
         to = "IMPORT_REFUSED" => st = "FAILED", st = "SUCCEEDED" => to \in Ended
  PROVE RInv'
<1>1. CASE ~(cand[c].st = "ACTIVE" /\ state[j] = from) BY <1>1, RecordKeptStep DEF TerminalCandidateAndAdvance, RecordKept
<1>2. CASE cand[c].st = "ACTIVE" /\ state[j] = from
  <2>1. /\ cand' = [cand EXCEPT ![c].st = st] /\ latest' = [latest EXCEPT ![j] = c]
        /\ state' = [state EXCEPT ![j] = to]
    BY <1>2 DEF TerminalCandidateAndAdvance
  <2>2. cand[c].job = j /\ state[j] \notin Ended BY <1>2, NoneAssumption DEF HeldBy, SlotStates, Ended
  <2>. QED BY <2>1, <2>2, TriedRecord
<1>. QED BY <1>1, <1>2

\* A deferral dates the row anew: its job is neither refused by another row
\* nor ended by it.
LEMMA DeferRecord ==
  ASSUME IInv, RInv, NEW c \in Candidates, DeferCandidate(c), UNCHANGED <<state, cand>>
  PROVE RInv'
<1>1. CASE cand[c].st \in {"FREE", "NEW"} BY <1>1, RecordKeptStep DEF DeferCandidate, RecordKept
<1>2. CASE cand[c].st \notin {"FREE", "NEW"}
  <2>. DEFINE j == cand[c].job
  <2>1. j \in Jobs /\ cand[c].st \in {"ACTIVE", "SUCCEEDED", "FAILED"}
        /\ latest' = [latest EXCEPT ![j] = c]
    BY <1>2, RowShape DEF IInv, DeferCandidate
  <2>2. \A k \in Jobs : latest'[k] = IF k = j THEN c ELSE latest[k] BY <2>1 DEF IInv, TypeOK
  <2>3. state[j] = "IMPORT_REFUSED" => cand[c].st = "FAILED"
    <3>1. state[j] = "IMPORT_REFUSED" => c \notin ActiveCandidates(j) BY <2>1 DEF IInv, ActiveCandidate
    <3>. QED BY <2>1, <3>1 DEF ActiveCandidates, CandidatesOf, RInv, SuccessEnds, Ended
  <2>4. LatestOfJob' BY <2>1, <2>2 DEF RInv, LatestOfJob
  <2>5. RefusedFailed' BY <2>1, <2>2, <2>3, NoneAssumption DEF RInv, RefusedFailed
  <2>6. SuccessEnds' BY DEF RInv, SuccessEnds
  <2>. QED BY <2>4, <2>5, <2>6 DEF RInv
<1>. QED BY <1>1, <1>2

\* New rows take free ids: nothing has been tried under them.
LEMMA InsertedRecord ==
  ASSUME IInv, RInv, UNCHANGED <<state, latest>>,
         \A c \in Candidates : cand'[c] = cand[c] \/ (cand[c].st = "FREE" /\ cand'[c].st = "NEW")
  PROVE RInv'
<1>1. \A j \in Jobs : latest[j] # None => latest[j] \in Candidates /\ cand[latest[j]].st # "FREE"
  BY RowShape, NoneAssumption DEF IInv, TypeOK, RInv, LatestOfJob
<1>2. LatestOfJob' /\ RefusedFailed' BY <1>1 DEF RInv, LatestOfJob, RefusedFailed
<1>3. SuccessEnds' BY DEF RInv, SuccessEnds
<1>. QED BY <1>2, <1>3 DEF RInv

LEMMA SyncWantedRecord ==
  ASSUME IInv, RInv, NEW W \in SUBSET LidarrJobs, NEW R \in SUBSET W, SyncWanted(W, R)
  PROVE RInv'
<1> DEFINE again == {j \in W : state[j] = "CANCELLED"} \cup {j \in R : state[j] = "FAILED"}
<1>1. again \in SUBSET Jobs /\ DeleteCandidates(again) BY DEF SyncWanted, LidarrJobs
<1>2. /\ \A k \in again : state'[k] = "WANTED"
      /\ \A k \in Jobs \ again : \/ state'[k] = state[k]
                                 \/ state'[k] = "CANCELLED"
                                 \/ state[k] = "ABSENT" /\ state'[k] = "WANTED"
  BY <1>1 DEF SyncWanted
<1>. QED BY <1>1, <1>2, DeletedRecord

LEMMA DiscoveryRecord ==
  ASSUME IInv, RInv, Discovery PROVE RInv'
<1>1. CASE DiscoveryAdvance
  <2>1. dis.job \in Jobs BY <1>1, DisBusy DEF IInv, DiscoveryAdvance
  <2>2. RecordKept BY <1>1, <2>1 DEF DiscoveryAdvance, AdvanceJobStateFrom, RecordKept, Ended, IInv, TypeOK
  <2>. QED BY <2>2, RecordKeptStep
<1>2. CASE DiscoveryNoViable \/ DiscoveryExcluded
  <2>1. /\ dis.job \in Jobs /\ state[dis.job] \in Undecided /\ UNCHANGED <<cand, latest>>
        /\ MarkJobFailed(dis.job) \/ UNCHANGED state
    BY <1>2, DisBusy DEF IInv, DisHolds, Searched, DiscoveryNoViable, DiscoveryExcluded
  <2>2. RecordKept BY <2>1, FailedRecord DEF RecordKept
  <2>. QED BY <2>2, RecordKeptStep
<1>3. ASSUME NEW slot \in [dis.peers -> Candidates], DiscoveryInsert(slot) PROVE RInv'
  <2>1. \A c \in Candidates : cand'[c] = cand[c] \/ (cand[c].st = "FREE" /\ cand'[c].st = "NEW")
    <3> TAKE c \in Candidates
    <3>1. CASE \E p \in dis.peers : slot[p] = c
      <4>1. PICK p \in dis.peers : slot[p] = c BY <3>1
      <4>2. FreshCandidate(c) BY <1>3, <4>1 DEF DiscoveryInsert
      <4>3. cand'[c] = [st |-> "NEW", job |-> dis.job, peer |-> CHOOSE q \in dis.peers : slot[q] = c]
        BY <1>3, <3>1 DEF DiscoveryInsert
      <4>. QED BY <4>2, <4>3 DEF FreshCandidate
    <3>2. CASE ~\E p \in dis.peers : slot[p] = c BY <1>3, <3>2 DEF DiscoveryInsert
    <3>. QED BY <3>1, <3>2
  <2>. QED BY <1>3, <2>1, InsertedRecord DEF DiscoveryInsert
<1>4. CASE \/ \E j \in LidarrJobs : DiscoveryRead(j)
           \/ \E S \in SUBSET Peers : DiscoveryFilter(S)
           \/ DiscoveryAbort
  <2>1. UNCHANGED tables BY <1>4 DEF DiscoveryRead, DiscoveryFilter, DiscoveryAbort
  <2>2. RecordKept BY <2>1 DEF RecordKept, tables
  <2>. QED BY <2>2, RecordKeptStep
<1>. QED BY <1>1, <1>2, <1>3, <1>4 DEF Discovery

LEMMA SelectingRecord ==
  ASSUME IInv, RInv, Selecting PROVE RInv'
<1>1. CASE SelectExhausted \/ SelectExpired
  <2>1. sel.job \in Jobs /\ state[sel.job] \in Undecided
    BY <1>1, SelBusy DEF IInv, SelHolds, SelectExhausted, SelectExpired
  <2>2. \/ MarkJobFailed(sel.job) /\ UNCHANGED <<cand, latest>>
        \/ \E r \in {sel.retries, sel.retries + 1} : ResetJobToWanted(sel.job, r)
    BY <1>1 DEF SelectExhausted, SelectExpired
  <2>3. CASE MarkJobFailed(sel.job) /\ UNCHANGED <<cand, latest>> BY <2>1, <2>3, FailedRecord, RecordKeptStep
  <2>4. ASSUME NEW r, ResetJobToWanted(sel.job, r) PROVE RInv'
    <3>1. CASE state[sel.job] # "SELECTING" BY <2>4, <3>1, RecordKeptStep DEF ResetJobToWanted, RecordKept
    <3>2. CASE state[sel.job] = "SELECTING"
      <4>1. {sel.job} \in SUBSET Jobs /\ DeleteCandidates({sel.job})
            /\ state' = [state EXCEPT ![sel.job] = "WANTED"]
        BY <2>1, <2>4, <3>2 DEF ResetJobToWanted
      <4>2. \A k \in Jobs : state'[k] = IF k = sel.job THEN "WANTED" ELSE state[k] BY <4>1 DEF IInv, TypeOK
      <4>. QED BY <4>1, <4>2, DeletedRecord
    <3>. QED BY <3>1, <3>2
  <2>. QED BY <2>2, <2>3, <2>4
<1>2. CASE SelectActivate
  <2>1. /\ sel.cand \in Candidates /\ sel.job \in Jobs /\ cand[sel.cand].job = sel.job
        /\ state[sel.job] = "SELECTING"
    BY <1>2, SelBusy DEF IInv, SelHolds, SelectActivate, Activatable
  <2>. QED BY <1>2, <2>1, TriedRecord DEF SelectActivate, Ended
<1>3. CASE SelectDefer BY <1>3, DeferRecord DEF SelectDefer, IInv, SelHolds
<1>4. CASE SelectFolderCeiling
  <2>1. sel.cand \in Candidates /\ sel.job \in Jobs /\ HeldBy(sel.cand, sel.job)
    BY <1>4, SelBusy DEF SelectFolderCeiling, IInv, SelHolds, HeldRows
  <2>. QED BY <1>4, <2>1, TerminalRecord DEF SelectFolderCeiling, FailCandidateAndAdvance, SlotStates
<1>5. CASE \/ \E j \in Jobs : SelectRead(j)
           \/ \E c \in Candidates : SelectNext(c)
           \/ SelectNoneLeft \/ SelectSkip \/ SelectReserve
           \/ SelectTopUp \/ SelectStop
  <2>1. UNCHANGED <<state, cand, latest>>
    BY <1>5, SelectTopUpParts
       DEF SelectRead, SelectNext, SelectNoneLeft, SelectSkip, SelectReserve, BesidesTransfers,
           SelectStop, tables
  <2>2. RecordKept BY <2>1 DEF RecordKept
  <2>. QED BY <2>2, RecordKeptStep
<1>. QED BY <1>1, <1>2, <1>3, <1>4, <1>5 DEF Selecting

LEMMA DownloadingRecord ==
  ASSUME IInv, RInv, Downloading PROVE RInv'
<1>1. CASE \E c \in Candidates, f \in Files : ReconcilePark(c, f)
  <2>1. PICK c \in Candidates, f \in Files : ReconcilePark(c, f) BY <1>1
  <2>2. cand[c].job \in Jobs BY <2>1, RowShape DEF ReconcilePark, IInv
  <2>3. RecordKept BY <2>1, <2>2 DEF ReconcilePark, AdvanceJobStateFrom, RecordKept, Ended, IInv, TypeOK
  <2>. QED BY <2>3, RecordKeptStep
<1>2. CASE ResolveDone
  <2>1. dl.cand \in Candidates /\ dl.job \in Jobs /\ HeldBy(dl.cand, dl.job)
    BY <1>2, DlBusy DEF ResolveDone, IInv, DlHolds, HeldRows
  <2>2. CASE TerminalCandidateAndAdvance(dl.cand, dl.job, "SUCCEEDED", "DOWNLOADING", "NOT_IMPORTED", "NO")
    BY <2>1, <2>2, TerminalRecord DEF SlotStates, Ended
  <2>3. CASE AdvanceJobStateFrom(dl.job, "DOWNLOADING", "IMPORTING") /\ UNCHANGED <<cand, latest>>
    <3>1. RecordKept BY <2>1, <2>3 DEF AdvanceJobStateFrom, RecordKept, Ended, IInv, TypeOK
    <3>. QED BY <3>1, RecordKeptStep
  <2>. QED BY <1>2, <2>2, <2>3 DEF ResolveDone, SucceedCandidateAndAdvance
<1>3. CASE ResolveFailed \/ TopUpFolderCeiling
  <2>1. dl.cand \in Candidates /\ dl.job \in Jobs /\ HeldBy(dl.cand, dl.job)
    BY <1>3, DlBusy DEF ResolveFailed, TopUpFolderCeiling, IInv, DlHolds, HeldRows
  <2>. QED BY <1>3, <2>1, TerminalRecord
           DEF ResolveFailed, TopUpFolderCeiling, FailCandidateAndAdvance,
               CooldownCandidateAndAdvance, SlotStates
<1>4. CASE TopUpDefer BY <1>4, DeferRecord DEF TopUpDefer, IInv, DlHolds
<1>5. CASE \/ \E c \in Candidates, f \in Files :
                \E to \in {"PENDING", "COMPLETED", "ERRORED", "CANCELLED"} : Reconcile(c, f, to)
           \/ \E j \in Jobs : ResolveRead(j) \/ TopUpRead(j)
           \/ \E c \in Candidates : ResolveLook(c)
           \/ \E S \in SUBSET dl.sent : ResolveSiblings(S)
           \/ TopUpReserve \/ TopUpSend \/ DownloadStop
  <2>1. UNCHANGED <<state, cand, latest>>
    BY <1>5, TopUpSendParts
       DEF Reconcile, ResolveRead, TopUpRead, ResolveLook, ResolveSiblings, TopUpReserve,
           BesidesTransfers, DownloadStop, tables
  <2>2. RecordKept BY <2>1 DEF RecordKept
  <2>. QED BY <2>2, RecordKeptStep
<1>. QED BY <1>1, <1>2, <1>3, <1>4, <1>5 DEF Downloading

LEMMA ImportingRecord ==
  ASSUME IInv, RInv, Importing PROVE RInv'
<1>1. CASE \/ \E j \in Jobs : ImportRead(j)
           \/ \E c \in Candidates : ImportCandidate(c)
           \/ ImportStop
  <2>1. UNCHANGED <<state, cand, latest>> BY <1>1 DEF ImportRead, ImportCandidate, ImportStop, tables
  <2>2. RecordKept BY <2>1 DEF RecordKept
  <2>. QED BY <2>2, RecordKeptStep
<1>2. CASE \/ ImportDone \/ ImportNotImported \/ ImportRejected \/ ImportStuck
           \/ ImportRefused \/ ImportUnconfirmed
  <2>1. imp.cand \in Candidates /\ imp.job \in Jobs /\ HeldBy(imp.cand, imp.job)
    BY <1>2, ImpBusy DEF IInv, ImpHolds, HeldRows, ImportDone, ImportNotImported, ImportRejected,
                         ImportStuck, ImportRefused, ImportUnconfirmed
  <2>2. \E r \in Rejections :
          \/ \E to \in {"DONE", "NOT_IMPORTED"} :
               TerminalCandidateAndAdvance(imp.cand, imp.job, "SUCCEEDED", "IMPORTING", to, r)
          \/ \E to \in {"SELECTING", "PARKED", "IMPORT_REFUSED"} :
               TerminalCandidateAndAdvance(imp.cand, imp.job, "FAILED", "IMPORTING", to, r)
    <3>1. CASE ImportDone BY <3>1 DEF ImportDone, SucceedCandidateAndAdvance, Rejections
    <3>2. CASE ImportNotImported BY <3>2 DEF ImportNotImported, SucceedCandidateAndAdvance, Rejections
    <3>3. CASE ImportRejected BY <3>3 DEF ImportRejected, RejectCandidateAndAdvance, Rejections
    <3>4. CASE ImportStuck BY <3>4 DEF ImportStuck, FailCandidateAndAdvance, Rejections
    <3>5. CASE ImportRefused BY <3>5 DEF ImportRefused, RejectCandidateAndAdvance, Rejections
    <3>6. CASE ImportUnconfirmed BY <3>6 DEF ImportUnconfirmed, RejectCandidateAndAdvance, Rejections
    <3>. QED BY <1>2, <3>1, <3>2, <3>3, <3>4, <3>5, <3>6
  <2>. QED BY <2>1, <2>2, TerminalRecord DEF SlotStates, Ended
<1>. QED BY <1>1, <1>2 DEF Importing

LEMMA UserRecord ==
  ASSUME IInv, RInv, User PROVE RInv'
<1>. SUFFICES ASSUME NEW j \in Jobs,
                \/ Cancel(j) \/ PrepareDelete(j) \/ DeleteJob(j) \/ DeleteGivesUp(j)
                \/ RetryFailedJob(j) \/ RetryManualJob(j) \/ RetryRefusedJob(j)
                \/ ForceSearch(j)
                \/ \E c \in Candidates, p \in Peers : CreateManualJob(j, c, p)
              PROVE RInv'
  BY DEF User
<1>1. CASE Cancel(j) \/ PrepareDelete(j) \/ DeleteGivesUp(j)
  <2>1. RecordKept BY <1>1 DEF Cancel, PrepareDelete, DeleteGivesUp, tables, RecordKept, IInv, TypeOK
  <2>. QED BY <2>1, RecordKeptStep
<1>2. CASE DeleteJob(j) \/ RetryFailedJob(j) \/ ForceSearch(j)
  <2>1. PICK to \in {"ABSENT", "WANTED"} : state' = [state EXCEPT ![j] = to] /\ DeleteCandidates({j})
    BY <1>2 DEF DeleteJob, RetryFailedJob, ForceSearch
  <2>2. \A k \in Jobs : state'[k] = IF k = j THEN to ELSE state[k] BY <2>1 DEF IInv, TypeOK
  <2>3. {j} \in SUBSET Jobs OBVIOUS
  <2>. QED BY <2>1, <2>2, <2>3, DeletedRecord
<1>3. CASE RetryManualJob(j)
  <2>1. /\ state[j] \in {"FAILED", "PARKED"} /\ state' = [state EXCEPT ![j] = "SELECTING"]
        /\ latest' = [latest EXCEPT ![j] = None]
        /\ cand' = [c \in Candidates |->
             IF cand[c].job = j THEN [cand[c] EXCEPT !.st = "NEW"] ELSE cand[c]]
    BY <1>3 DEF RetryManualJob
  <2>2. \A k \in Jobs : /\ state'[k] = IF k = j THEN "SELECTING" ELSE state[k]
                        /\ latest'[k] = IF k = j THEN None ELSE latest[k]
                        /\ latest[k] # None => latest[k] \in Candidates
    BY <2>1 DEF IInv, TypeOK
  <2>3. \A c \in Candidates : /\ cand[c].job # j => cand'[c] = cand[c]
                              /\ cand[c].job = j => cand'[c].st = "NEW" /\ cand'[c].job = j
    <3> TAKE c \in Candidates
    <3>1. CASE cand[c].job = j
      <4>1. cand[c] \in [st : {"NEW", "ACTIVE", "SUCCEEDED", "FAILED"}, job : Jobs, peer : Peers]
        BY <3>1, RowShape, NoneAssumption DEF IInv
      <4>2. cand'[c] = [cand[c] EXCEPT !.st = "NEW"] BY <2>1, <3>1
      <4>. QED BY <3>1, <4>1, <4>2
    <3>. QED BY <2>1, <3>1
  <2>4. LatestOfJob' /\ RefusedFailed' BY <2>2, <2>3 DEF RInv, LatestOfJob, RefusedFailed
  <2>5. SuccessEnds' BY <2>1, <2>2, <2>3, RowShape DEF IInv, RInv, SuccessEnds
  <2>. QED BY <2>4, <2>5 DEF RInv
<1>4. CASE RetryRefusedJob(j)
  <2>1. PICK c \in CurrentCandidates(j) :
          /\ cand' = [cand EXCEPT ![c].st = "ACTIVE"] /\ latest' = [latest EXCEPT ![j] = c]
          /\ state[j] = "IMPORT_REFUSED" /\ state' = [state EXCEPT ![j] = "IMPORTING"]
    BY <1>4 DEF RetryRefusedJob
  <2>2. c \in Candidates /\ cand[c].job = j
    BY DEF IInv, TypeOK, RInv, LatestOfJob, CurrentCandidates, ActiveCandidates, NewCandidates, CandidatesOf
  <2>. QED BY <2>1, <2>2, TriedRecord DEF Ended
<1>5. ASSUME NEW c \in Candidates, NEW p \in Peers, CreateManualJob(j, c, p) PROVE RInv'
  <2>1. /\ cand[c].st = "FREE" /\ state[j] = "ABSENT"
        /\ cand' = [cand EXCEPT ![c] = [st |-> "ACTIVE", job |-> j, peer |-> p]]
        /\ latest' = [latest EXCEPT ![j] = c] /\ state' = [state EXCEPT ![j] = "DOWNLOADING"]
    BY <1>5 DEF CreateManualJob, FreshJob, FreshCandidate
  <2>2. \A k \in Jobs : /\ state'[k] = IF k = j THEN "DOWNLOADING" ELSE state[k]
                        /\ latest'[k] = IF k = j THEN c ELSE latest[k]
                        /\ latest[k] # None => latest[k] \in Candidates /\ latest[k] # c
    BY <2>1, RowShape, NoneAssumption DEF IInv, TypeOK, RInv, LatestOfJob
  <2>3. \A d \in Candidates : IF d = c THEN cand'[d] = [st |-> "ACTIVE", job |-> j, peer |-> p]
                                       ELSE cand'[d] = cand[d]
    BY <2>1 DEF IInv, TypeOK
  <2>4. LatestOfJob' /\ RefusedFailed' BY <2>2, <2>3, NoneAssumption DEF RInv, LatestOfJob, RefusedFailed
  <2>5. SuccessEnds' BY <2>1, <2>2, <2>3, RowShape DEF IInv, RInv, SuccessEnds, Ended
  <2>. QED BY <2>4, <2>5 DEF RInv
<1>. QED BY <1>1, <1>2, <1>3, <1>4, <1>5

LEMMA RInvStep ==
  ASSUME IInv, RInv, [Next]_vars PROVE RInv'
<1>1. CASE UNCHANGED vars
  <2>1. RecordKept BY <1>1 DEF vars, tables, RecordKept
  <2>. QED BY <2>1, RecordKeptStep
<1>. QED BY <1>1, SyncWantedRecord, DiscoveryRecord, SelectingRecord, DownloadingRecord,
            ImportingRecord, UserRecord DEF Next, Wanted

-----------------------------------------------------------------------------
(* Theorems *)

Inv == IInv /\ RInv

LEMMA InitInv ==
  ASSUME Init PROVE Inv
<1>1. TypeOK BY IdleTicks, ConfigAssumption
     DEF Init, TypeOK, JobStates, Retries, CandidateRows, NoRows, TransferStates, Rejections,
         Deferrals
<1>2. DisHolds /\ SelHolds /\ DlHolds /\ ImpHolds
  BY DEF Init, DisHolds, SelHolds, DlHolds, ImpHolds, DisIdle, SelIdle, DlIdle, ImpIdle, HandOver
<1>3. HeldRows BY DEF Init, HeldRows, HeldBy, SelIdle, DlIdle, ImpIdle
<1>4. ActiveCandidate BY NoneAssumption DEF Init, ActiveCandidate, ActiveCandidates, CandidatesOf, FreeCandidate
<1>5. RInv BY DEF Init, RInv, LatestOfJob, RefusedFailed, SuccessEnds, FreeCandidate
<1>. QED BY <1>1, <1>2, <1>3, <1>4, <1>5 DEF Inv, IInv

LEMMA SpecInv == Spec => []Inv
<1>1. Init => Inv BY InitInv
<1>2. Inv /\ [Next]_vars => Inv' BY IInvStep, RInvStep DEF Inv
<1>. QED BY <1>1, <1>2, PTL DEF Spec

\* Every table and every tick of every reachable state is well formed: in
\* particular the retries written by SetJobBackoff and ResetJobToWanted from
\* a value read earlier never pass the budget.
THEOREM TypeCorrect == Spec => []TypeOK
<1>1. Inv => TypeOK BY DEF Inv, IInv
<1>. QED BY <1>1, SpecInv, PTL

\* FailCandidateAndAdvance, ActivateCandidateWithTransfers, RetryManualJob,
\* RetryRefusedJob and CreateManualJob together keep one ACTIVE candidate per
\* job that holds a slot, and none for a job that is searching or over.
THEOREM OneActive == Spec => []ActiveCandidate
<1>1. Inv => ActiveCandidate BY DEF Inv, IInv
<1>. QED BY <1>1, SpecInv, PTL

LEMMA Revivable == Inv => RefusedRevivable
<1>. SUFFICES ASSUME Inv, NEW j \in Jobs, state[j] = "IMPORT_REFUSED"
              PROVE /\ CurrentCandidates(j) # {}
                    /\ \A c \in CurrentCandidates(j) : cand[c].st = "FAILED" /\ cand[c].job = j
  BY DEF RefusedRevivable
<1>1. ActiveCandidates(j) = {} BY DEF Inv, IInv, ActiveCandidate
<1>2. latest[j] # None /\ cand[latest[j]].st = "FAILED" /\ cand[latest[j]].job = j
  BY DEF Inv, RInv, RefusedFailed, LatestOfJob
<1>. QED BY <1>1, <1>2 DEF CurrentCandidates

\* RetryRefusedJob finds the candidate that Lidarr refused, for as long as
\* the job is IMPORT_REFUSED.
THEOREM RefusalRevivable == Spec => []RefusedRevivable
BY Revivable, SpecInv, PTL

\* No goroutine, whatever it read, moves a job that the pipeline has let go
\* of: MarkJobFailed, the only write without a single from-state, is reached
\* only while the job is still undecided or already stopped.
THEOREM StoppedStay == Spec => StoppedJobsStay
<1>. DEFINE Stays == \A j \in Jobs : state[j] \in Stopped => state'[j] = state[j]
<1>1. ASSUME Inv, Discovery PROVE Stays
  <2>1. CASE DiscoveryNoViable \/ DiscoveryExcluded
    <3>1. /\ dis.job \in Jobs /\ state[dis.job] \in Searched
          /\ MarkJobFailed(dis.job) \/ UNCHANGED state
      BY <1>1, <2>1, DisBusy DEF Inv, IInv, DisHolds, DiscoveryNoViable, DiscoveryExcluded
    <3>. QED BY <1>1, <3>1 DEF Inv, IInv, TypeOK, MarkJobFailed, Searched, Undecided, Stopped
  <2>2. CASE DiscoveryAdvance
    <3>1. dis.job \in Jobs /\ AdvanceJobStateFrom(dis.job, "WANTED", "SELECTING")
      BY <1>1, <2>2, DisBusy DEF Inv, IInv, DiscoveryAdvance
    <3>. QED BY <1>1, <3>1 DEF Inv, IInv, TypeOK, AdvanceJobStateFrom, Stopped
  <2>3. CASE ~(DiscoveryNoViable \/ DiscoveryExcluded \/ DiscoveryAdvance)
    BY <1>1, <2>3 DEF Discovery, DiscoveryRead, DiscoveryFilter, DiscoveryInsert, DiscoveryAbort, tables
  <2>. QED BY <2>1, <2>2, <2>3
<1>2. ASSUME Inv, Selecting PROVE Stays
  <2>1. CASE SelectExhausted \/ SelectExpired
    <3>1. /\ sel.job \in Jobs /\ state[sel.job] \in Undecided
          /\ \/ MarkJobFailed(sel.job)
             \/ \E r \in {sel.retries, sel.retries + 1} : ResetJobToWanted(sel.job, r)
      BY <1>2, <2>1, SelBusy DEF Inv, IInv, SelHolds, SelectExhausted, SelectExpired
    <3>2. CASE MarkJobFailed(sel.job) BY <1>2, <3>1, <3>2 DEF Inv, IInv, TypeOK, MarkJobFailed, Undecided, Stopped
    <3>3. ASSUME NEW r, ResetJobToWanted(sel.job, r) PROVE Stays
      BY <1>2, <3>1, <3>3 DEF Inv, IInv, TypeOK, ResetJobToWanted, Stopped
    <3>. QED BY <3>1, <3>2, <3>3
  <2>2. CASE SelectActivate
    <3>1. sel.job \in Jobs /\ state[sel.job] = "SELECTING" BY <1>2, <2>2, SelBusy
      DEF Inv, IInv, SelectActivate, Activatable
    <3>. QED BY <1>2, <2>2, <3>1 DEF Inv, IInv, TypeOK, SelectActivate, Stopped
  <2>3. CASE SelectFolderCeiling
    <3>1. sel.job \in Jobs BY <1>2, <2>3, SelBusy DEF Inv, IInv, SelectFolderCeiling
    <3>. QED BY <1>2, <2>3, <3>1
           DEF Inv, IInv, TypeOK, SelectFolderCeiling, FailCandidateAndAdvance,
               TerminalCandidateAndAdvance, Stopped
  <2>4. CASE ~(SelectExhausted \/ SelectExpired \/ SelectActivate \/ SelectFolderCeiling)
    BY <1>2, <2>4, SelectTopUpParts
       DEF Inv, Selecting, SelectRead, SelectNext, SelectNoneLeft, SelectSkip, SelectReserve,
           SelectDefer, BesidesTransfers, SelectStop, tables
  <2>. QED BY <2>1, <2>2, <2>3, <2>4
<1>3. ASSUME Inv, Downloading PROVE Stays
  <2>1. CASE \E c \in Candidates, f \in Files : ReconcilePark(c, f)
    <3>1. PICK c \in Candidates, f \in Files : ReconcilePark(c, f) BY <2>1
    <3>2. cand[c].job \in Jobs BY <1>3, <3>1, RowShape DEF ReconcilePark, Inv, IInv
    <3>. QED BY <1>3, <3>1, <3>2 DEF Inv, IInv, TypeOK, ReconcilePark, AdvanceJobStateFrom, Stopped
  <2>2. CASE ResolveDone \/ ResolveFailed \/ TopUpFolderCeiling
    <3>1. dl.job \in Jobs BY <1>3, <2>2, DlBusy DEF Inv, IInv, ResolveDone, ResolveFailed, TopUpFolderCeiling
    <3>2. \/ AdvanceJobStateFrom(dl.job, "DOWNLOADING", "IMPORTING")
          \/ \E st \in {"SUCCEEDED", "FAILED"}, to \in JobStates, r \in Rejections :
               TerminalCandidateAndAdvance(dl.cand, dl.job, st, "DOWNLOADING", to, r)
      BY <2>2 DEF ResolveDone, ResolveFailed, TopUpFolderCeiling, SucceedCandidateAndAdvance,
                  CooldownCandidateAndAdvance, FailCandidateAndAdvance, JobStates, Rejections
    <3>. QED BY <1>3, <3>1, <3>2
           DEF Inv, IInv, TypeOK, AdvanceJobStateFrom, TerminalCandidateAndAdvance, Stopped
  <2>3. CASE \/ \E c \in Candidates, f \in Files :
                  \E to \in {"PENDING", "COMPLETED", "ERRORED", "CANCELLED"} : Reconcile(c, f, to)
             \/ \E j \in Jobs : ResolveRead(j) \/ TopUpRead(j)
             \/ \E c \in Candidates : ResolveLook(c)
             \/ \E S \in SUBSET dl.sent : ResolveSiblings(S)
             \/ TopUpReserve \/ TopUpDefer \/ TopUpSend \/ DownloadStop
    BY <1>3, <2>3, TopUpSendParts
       DEF Inv, Reconcile, ResolveRead, TopUpRead, ResolveLook, ResolveSiblings, TopUpReserve,
           TopUpDefer, BesidesTransfers, DownloadStop, tables
  <2>. QED BY <1>3, <2>1, <2>2, <2>3 DEF Downloading
<1>4. ASSUME Inv, Importing PROVE Stays
  <2>1. CASE \/ \E j \in Jobs : ImportRead(j)
             \/ \E c \in Candidates : ImportCandidate(c)
             \/ ImportStop
    BY <2>1 DEF ImportRead, ImportCandidate, ImportStop, tables
  <2>2. CASE \/ ImportDone \/ ImportNotImported \/ ImportRejected \/ ImportStuck
             \/ ImportRefused \/ ImportUnconfirmed
    <3>1. imp.job \in Jobs BY <1>4, <2>2, ImpBusy DEF Inv, IInv, ImportDone, ImportNotImported, ImportRejected,
                                 ImportStuck, ImportRefused, ImportUnconfirmed
    <3>2. \E st, to, r : TerminalCandidateAndAdvance(imp.cand, imp.job, st, "IMPORTING", to, r)
      BY <2>2 DEF ImportDone, ImportNotImported, ImportRejected, ImportStuck, ImportRefused,
                  ImportUnconfirmed, SucceedCandidateAndAdvance, FailCandidateAndAdvance,
                  RejectCandidateAndAdvance
    <3>. QED BY <1>4, <3>1, <3>2 DEF Inv, IInv, TypeOK, TerminalCandidateAndAdvance, Stopped
  <2>. QED BY <1>4, <2>1, <2>2 DEF Importing
<1>5. Inv /\ [Next]_vars => [(\E j \in Jobs : state[j] \in Stopped /\ state'[j] # state[j]) => Wanted \/ User]_vars
  BY <1>1, <1>2, <1>3, <1>4 DEF Next
<1>. QED BY <1>5, SpecInv, PTL DEF Spec, StoppedJobsStay

\* Only a manual retry, which finds no CANCELLED job, touches the hand-over of
\* another goroutine's tick.
LEMMA OthersTicks ==
  ASSUME Next
  PROVE /\ sel' = sel \/ Selecting \/ \E j \in Jobs : RetryManualJob(j)
        /\ dl' = dl \/ Downloading \/ \E j \in Jobs : RetryManualJob(j)
<1>1. CASE Wanted BY <1>1 DEF Wanted, SyncWanted, ticks
<1>2. CASE Discovery BY <1>2 DEF Discovery, DiscoveryRead, DiscoveryFilter, DiscoveryNoViable,
     DiscoveryExcluded, DiscoveryInsert, DiscoveryAdvance, DiscoveryAbort
<1>3. CASE Importing BY <1>3 DEF Importing, ImportRead, ImportCandidate, ImportDone,
     ImportNotImported, ImportRejected, ImportStuck, ImportRefused, ImportUnconfirmed, ImportStop, ImportEnd
<1>4. CASE User BY <1>4 DEF User, Cancel, PrepareDelete, DeleteJob, DeleteGivesUp, RetryFailedJob,
     RetryRefusedJob, ForceSearch, CreateManualJob, UserUnchanged, ticks
<1>5. CASE Selecting
  <2>1. UNCHANGED dl BY <1>5 DEF Selecting, SelectRead, SelectNext, SelectNoneLeft, SelectExhausted,
       SelectExpired, SelectActivate, SelectSkip, SelectReserve, SelectDefer, SelectFolderCeiling,
       SelectTopUp, SelectIntent, SelectRefused, SelectEnqueued, SelectAttach, SelectCompensate, SelectStop
  <2>. QED BY <1>5, <2>1
<1>6. CASE Downloading
  <2>1. UNCHANGED sel BY <1>6 DEF Downloading, Reconcile, ReconcilePark, ResolveRead, ResolveLook,
       ResolveSiblings, ResolveFailed, ResolveDone, TopUpRead, TopUpReserve, TopUpDefer,
       TopUpFolderCeiling, TopUpSend, TopUpIntent, TopUpRefused, TopUpEnqueued, TopUpAttach,
       TopUpCompensate, DownloadStop, ticks
  <2>. QED BY <1>6, <2>1
<1>. QED BY <1>1, <1>2, <1>3, <1>4, <1>5, <1>6 DEF Next

LEMMA SelFinishes ==
  ASSUME IInv, Next, NEW c \in Candidates, cand[c].st # "FREE", state[cand[c].job] = "CANCELLED",
         sel.cand = c
  PROVE OnlyFinishes(sel, sel')
<1>1. cand[c].job = sel.job /\ c # None BY NoneAssumption DEF IInv, HeldRows, HeldBy
<1>2. CASE sel' = sel BY <1>2 DEF OnlyFinishes
<1>3. ASSUME NEW j \in Jobs, RetryManualJob(j) PROVE sel' = sel BY <1>1, <1>3 DEF RetryManualJob, RowsLost
<1>4. CASE Selecting
  <2>1. \A f : ~EnqueueIntent(c, f) /\ ~Attachable(c, f) BY DEF EnqueueIntent, Attachable, Writable
  <2>2. CASE SelectTopUp
    <3>1. sel \in [pc : {"reserve"} \cup HandOver, job : Jobs, cand : Candidates \cup {None}, retries : Retries, pend : SUBSET Files, file : Files \cup {None}]
      BY <2>2, SelectTopUpParts, SelBusy DEF IInv, HandOver
    <3>2. CASE SelectEnqueued \/ SelectCompensate
      BY <2>1, <3>1, <3>2 DEF SelectEnqueued, SelectCompensate, SelIdle, OnlyFinishes
    <3>3. ASSUME NEW to, SelectRefused(to) PROVE OnlyFinishes(sel, sel')
      BY <3>1, <3>3 DEF SelectRefused, EnqueueRefused, NextFile, OnlyFinishes
    <3>. QED BY <2>1, <2>2, <3>2, <3>3 DEF SelectTopUp, SelectIntent, RecordEnqueueIntent, SelectAttach
  <2>3. CASE ~SelectTopUp
    <3>1. sel.pc # "attach" \/ sel' = SelIdle \/ sel' = sel
      BY <1>4, <2>3 DEF Selecting, SelectRead, SelectNext, SelectNoneLeft, SelectExhausted, SelectExpired, SelectActivate,
     SelectSkip, SelectReserve, SelectDefer, SelectFolderCeiling, SelectStop, HandOver
    <3>2. sel'.pc # "send" \/ sel' = sel
      <4>0. ASSUME NEW j \in Jobs, SelectRead(j) PROVE sel'.pc = "next" BY <4>0 DEF SelectRead, SelIdle
      <4>1. CASE \/ SelectExhausted \/ SelectExpired \/ SelectSkip \/ SelectDefer
                 \/ SelectFolderCeiling \/ SelectStop
        BY <4>1 DEF SelectExhausted, SelectExpired, SelectSkip, SelectDefer, SelectFolderCeiling,
           SelectStop, SelIdle
      <4>2. CASE \/ \E d \in Candidates : SelectNext(d)
                 \/ SelectNoneLeft \/ SelectActivate \/ SelectReserve
        BY <4>2, SelBusy DEF IInv, SelectNext, SelectNoneLeft, SelectActivate, SelectReserve
      <4>. QED BY <1>4, <2>3, <4>0, <4>1, <4>2 DEF Selecting
    <3>. QED BY <3>1, <3>2 DEF OnlyFinishes, SelIdle
  <2>. QED BY <2>2, <2>3
<1>. QED BY <1>2, <1>3, <1>4, OthersTicks

LEMMA DlFinishes ==
  ASSUME IInv, Next, NEW c \in Candidates, cand[c].st # "FREE", state[cand[c].job] = "CANCELLED",
         dl.cand = c
  PROVE OnlyFinishes(dl, dl')
<1>1. cand[c].job = dl.job /\ c # None BY NoneAssumption DEF IInv, HeldRows, HeldBy
<1>2. CASE dl' = dl BY <1>2 DEF OnlyFinishes
<1>3. ASSUME NEW j \in Jobs, RetryManualJob(j) PROVE dl' = dl BY <1>1, <1>3 DEF RetryManualJob, RowsLost
<1>4. CASE Downloading
  <2>1. \A f : ~EnqueueIntent(c, f) /\ ~Attachable(c, f) BY DEF EnqueueIntent, Attachable, Writable
  <2>2. CASE TopUpSend
    <3>1. dl \in [pc : {"reserve"} \cup HandOver, job : Jobs, cand : Candidates \cup {None}, pend : SUBSET Files, sent : SUBSET Files, file : Files \cup {None}]
      BY <2>2, TopUpSendParts, DlBusy DEF IInv, HandOver
    <3>2. CASE TopUpEnqueued \/ TopUpCompensate
      BY <2>1, <3>1, <3>2 DEF TopUpEnqueued, TopUpCompensate, DlIdle, OnlyFinishes
    <3>3. ASSUME NEW to, TopUpRefused(to) PROVE OnlyFinishes(dl, dl')
      BY <3>1, <3>3 DEF TopUpRefused, EnqueueRefused, NextFile, OnlyFinishes
    <3>. QED BY <2>1, <2>2, <3>2, <3>3 DEF TopUpSend, TopUpIntent, RecordEnqueueIntent, TopUpAttach
  <2>3. CASE ~TopUpSend
    <3>1. dl.pc # "attach" \/ dl' = DlIdle \/ dl' = dl
      BY <1>4, <2>3 DEF Downloading, Reconcile, ReconcilePark, ResolveRead, ResolveLook, ResolveSiblings, ResolveFailed,
     ResolveDone, TopUpRead, TopUpReserve, TopUpDefer, TopUpFolderCeiling, DownloadStop, ticks, HandOver
    <3>2. dl'.pc # "send" \/ dl' = dl
      <4>1. CASE \/ \E d \in Candidates, f \in Files :
                     \/ \E to \in {"PENDING", "COMPLETED", "ERRORED", "CANCELLED"} : Reconcile(d, f, to)
                     \/ ReconcilePark(d, f)
                 \/ ResolveFailed \/ ResolveDone \/ TopUpDefer \/ TopUpFolderCeiling \/ DownloadStop
        BY <4>1 DEF Reconcile, ReconcilePark, ResolveFailed, ResolveDone, TopUpDefer,
           TopUpFolderCeiling, DownloadStop, ticks, DlIdle
      <4>2. ASSUME NEW j \in Jobs, ResolveRead(j) \/ TopUpRead(j) PROVE dl'.pc \in {"resolve", "reserve"}
        BY <4>2 DEF ResolveRead, TopUpRead, DlIdle
      <4>3. ASSUME NEW d \in Candidates, ResolveLook(d)
            PROVE dl'.pc \in {"failed", "siblings", "done", "idle"}
        <5>1. \A pc : [dl EXCEPT !.pc = pc, !.cand = d, !.pend = RowsIn(d, {"PENDING"}),
                                 !.sent = RowsIn(d, {"SENT"})].pc = pc
          BY <4>3, DlBusy DEF IInv, ResolveLook
        <5>2. [dl EXCEPT !.pc = "done", !.cand = d].pc = "done" BY <4>3, DlBusy DEF IInv, ResolveLook
        <5>. QED BY <4>3, <5>1, <5>2 DEF ResolveLook, DlIdle
      <4>4. CASE TopUpReserve BY <4>4, DlBusy DEF IInv, TopUpReserve
      <4>5. ASSUME NEW S, ResolveSiblings(S) PROVE dl'.pc \in {"failed", "idle"}
        <5>1. [dl EXCEPT !.pc = "failed", !.pend = {}].pc = "failed"
          BY <4>5, DlBusy DEF IInv, ResolveSiblings
        <5>. QED BY <4>5, <5>1 DEF ResolveSiblings, DlIdle
      <4>. QED BY <1>4, <2>3, <4>1, <4>2, <4>3, <4>4, <4>5 DEF Downloading
    <3>. QED BY <3>1, <3>2 DEF OnlyFinishes, DlIdle
  <2>. QED BY <2>2, <2>3
<1>. QED BY <1>2, <1>3, <1>4, OthersTicks

\* RecordEnqueueIntent, UpdateTransferProgress and AttachTransferID look at the
\* job in the transaction that writes the row: nothing of a cancelled job comes
\* alive, and no hand-over of its files is begun.
THEOREM CancelledStaysQuiet == Spec => CancellationBarrier
<1>. DEFINE Quiet ==
       \A c \in Candidates, f \in Files :
         (cand[c].st # "FREE" /\ state[cand[c].job] = "CANCELLED" /\ tr'[c][f] \in LiveTransfer)
           => tr[c][f] = tr'[c][f]
<1>0. ASSUME NEW J, DeleteCandidates(J) PROVE Quiet BY <1>0 DEF DeleteCandidates, NoRows, LiveTransfer
<1>1. ASSUME Inv, NEW d \in Candidates, Enqueues(d) PROVE Quiet
  BY <1>1 DEF Inv, IInv, TypeOK, Enqueues, EnqueueFile, EnqueueIntent
<1>2. ASSUME Inv, Selecting PROVE Quiet
  <2>1. CASE SelectActivate
    <3>1. sel.cand \in Candidates /\ cand[sel.cand].job = sel.job /\ state[sel.job] = "SELECTING"
      BY <1>2, <2>1 DEF Inv, IInv, SelHolds, SelectActivate, Activatable
    <3>. QED BY <1>2, <2>1, <3>1 DEF Inv, IInv, TypeOK, SelectActivate
  <2>2. CASE SelectTopUp BY <1>1, <1>2, <2>2, SelectTopUpParts DEF Inv
  <2>3. CASE SelectExhausted \/ SelectExpired BY <1>0, <2>3 DEF SelectExhausted, SelectExpired, ResetJobToWanted
  <2>4. CASE \/ \E j \in Jobs : SelectRead(j)
             \/ \E c \in Candidates : SelectNext(c)
             \/ SelectNoneLeft \/ SelectSkip \/ SelectReserve \/ SelectDefer
             \/ SelectFolderCeiling \/ SelectStop
    BY <2>4 DEF SelectRead, SelectNext, SelectNoneLeft, SelectSkip, SelectReserve, SelectDefer,
                SelectFolderCeiling, SelectStop, tables
  <2>. QED BY <1>2, <2>1, <2>2, <2>3, <2>4 DEF Selecting
<1>3. ASSUME Inv, Downloading PROVE Quiet
  <2>1. ASSUME NEW d \in Candidates, NEW g \in Files,
               \/ \E to \in {"PENDING", "COMPLETED", "ERRORED", "CANCELLED"} : Reconcile(d, g, to)
               \/ ReconcilePark(d, g)
        PROVE Quiet
    <3>1. PICK to : tr' = [tr EXCEPT ![d][g] = to] /\ tr[d][g] = "SENT"
                    /\ (state[cand[d].job] = "CANCELLED" => to \notin LiveTransfer)
      BY <2>1 DEF Reconcile, ReconcilePark, Writable, LiveTransfer
    <3>2. TypeOK BY <1>3 DEF Inv, IInv
    <3>. QED BY <3>1, <3>2 DEF TypeOK
  <2>2. ASSUME NEW S \in SUBSET dl.sent, ResolveSiblings(S) PROVE Quiet
    <3>1. dl.cand \in Candidates BY <1>3, <2>2 DEF Inv, IInv, DlHolds, ResolveSiblings
    <3>. QED BY <1>3, <2>2, <3>1 DEF Inv, IInv, TypeOK, ResolveSiblings, LiveTransfer
  <2>3. CASE TopUpSend BY <1>1, <1>3, <2>3, TopUpSendParts DEF Inv
  <2>4. CASE \/ \E j \in Jobs : ResolveRead(j) \/ TopUpRead(j)
             \/ \E c \in Candidates : ResolveLook(c)
             \/ ResolveFailed \/ ResolveDone
             \/ TopUpReserve \/ TopUpDefer \/ TopUpFolderCeiling \/ DownloadStop
    BY <2>4 DEF ResolveRead, TopUpRead, ResolveLook, ResolveFailed, ResolveDone, TopUpReserve,
                TopUpDefer, TopUpFolderCeiling, DownloadStop, tables
  <2>. QED BY <1>3, <2>1, <2>2, <2>3, <2>4 DEF Downloading
<1>4. ASSUME Inv, NEW j \in Jobs,
             \/ Cancel(j) \/ PrepareDelete(j) \/ DeleteJob(j) \/ DeleteGivesUp(j)
             \/ RetryFailedJob(j) \/ RetryManualJob(j) \/ RetryRefusedJob(j)
             \/ ForceSearch(j)
             \/ \E c \in Candidates, p \in Peers : CreateManualJob(j, c, p)
      PROVE Quiet
  <2>1. CASE Cancel(j) \/ PrepareDelete(j) BY <2>1 DEF Cancel, PrepareDelete, CancelTransfersOf, LiveTransfer
  <2>2. CASE DeleteJob(j) \/ RetryFailedJob(j) \/ ForceSearch(j) BY <1>0, <2>2 DEF DeleteJob, RetryFailedJob, ForceSearch
  <2>3. CASE RetryManualJob(j) BY <2>3 DEF RetryManualJob, NoRows, LiveTransfer
  <2>4. ASSUME NEW c \in Candidates, NEW p \in Peers, CreateManualJob(j, c, p) PROVE Quiet
    BY <1>4, <2>4 DEF Inv, IInv, TypeOK, CreateManualJob, FreshCandidate
  <2>5. CASE DeleteGivesUp(j) \/ RetryRefusedJob(j) BY <2>5 DEF DeleteGivesUp, RetryRefusedJob, tables
  <2>. QED BY <1>4, <2>1, <2>2, <2>3, <2>4, <2>5
<1>5. ASSUME Discovery \/ Importing PROVE Quiet
  <2>1. UNCHANGED tr BY <1>5 DEF Discovery, DiscoveryRead, DiscoveryFilter, DiscoveryNoViable, DiscoveryExcluded,
       DiscoveryInsert, DiscoveryAdvance, DiscoveryAbort, Importing, ImportRead, ImportCandidate,
       ImportDone, ImportNotImported, ImportRejected, ImportStuck, ImportRefused,
       ImportUnconfirmed, ImportStop, ImportEnd, tables
  <2>. QED BY <2>1
<1>6. ASSUME Wanted PROVE Quiet BY <1>0, <1>6 DEF Wanted, SyncWanted
<1>. DEFINE Barrier ==
       \A c \in Candidates :
         (cand[c].st # "FREE" /\ state[cand[c].job] = "CANCELLED") =>
           /\ \A f \in Files : tr'[c][f] \in LiveTransfer => tr[c][f] = tr'[c][f]
           /\ sel.cand = c => OnlyFinishes(sel, sel')
           /\ dl.cand = c => OnlyFinishes(dl, dl')
<1>7. ASSUME Inv, Next PROVE Barrier
  <2>1. Quiet BY <1>2, <1>3, <1>4, <1>5, <1>6, <1>7 DEF Next, User
  <2>. QED BY <1>7, <2>1, SelFinishes, DlFinishes DEF Inv
<1>8. Inv /\ [Next]_vars => [Barrier]_vars BY <1>7
<1>. QED BY <1>8, SpecInv, PTL DEF Spec, CancellationBarrier

(***************************************************************************)
(* The rows below a job: transfers, rejection history, and the verdict      *)
(* resolve has reached about a download                                     *)
(***************************************************************************)
\* Rows that are not there have no transfers; a row that has been activated
\* once has one for every file, until a manual retry starts it again.
FreeHasNoRows == \A c \in Candidates : cand[c].st = "FREE" => tr[c] = NoRows
TriedIsWhole ==
  \A c \in Candidates : cand[c].st \in {"ACTIVE", "SUCCEEDED", "FAILED"} => RowsIn(c, {"NONE"}) = {}

\* The peers a search has let through are still allowed: only Importing
\* rejects for good, and not while the job is being searched for.
PeersHonoured ==
  dis.pc = "insert" => \A p \in dis.peers : rejected[dis.job][p] \notin Permanent

\* While the Downloading tick holds a job, nobody takes it past the download.
DlJob ==
  dl.pc # "idle" =>
    state[dl.job] \notin {"IMPORTING", "PARKED", "DONE", "IMPORT_REFUSED", "NOT_IMPORTED"}

Judging == {"siblings", "failed", "done"}
ShareRow == sel.pc = "reserve" /\ sel.cand = dl.cand

\* The row resolve judges is not failed, retried and activated again behind
\* its back. Only Selecting could fail it, at the ceiling of a wait that began
\* before its own tick; but such a row has had no file sent yet.
Judged == dl.pc \in Judging => cand[dl.cand].st \in {"ACTIVE", "FREE"}
Waited ==
  (sel.pc = "reserve" /\ deferred[sel.cand] = "OLD" /\ state[sel.job] = "DOWNLOADING"
     /\ cand[sel.cand].st = "ACTIVE") =>
    /\ RowsIn(sel.cand, {"PENDING"}) = Files
    /\ ~(dl.pc \in Judging /\ dl.cand = sel.cand)

\* The same of a row topUpDownloads is sending the files of: reserving its
\* folder ended the wait.
Sent ==
  dl.pc \in {"reserve"} \cup HandOver =>
    /\ ShareRow => cand[dl.cand].st \in {"ACTIVE", "FREE"}
    /\ dl.pc \in HandOver =>
         /\ ShareRow => deferred[dl.cand] # "OLD"
         /\ cand[dl.cand].st \in {"NEW", "SUCCEEDED", "FAILED"} => deferred[dl.cand] = "NO"

\* What siblings will cancel is all that is still live.
SiblingsKnown ==
  (dl.pc = "siblings" /\ cand[dl.cand].st = "ACTIVE" /\ state[dl.job] = "DOWNLOADING") =>
    RowsIn(dl.cand, LiveTransfer) \subseteq dl.pend \cup dl.sent

RowInv ==
  /\ FreeHasNoRows /\ TriedIsWhole /\ PeersHonoured
  /\ DlJob /\ Judged /\ Waited /\ Sent /\ SiblingsKnown /\ VerdictStillHolds

Owned == FreeHasNoRows /\ TriedIsWhole
Held == DlJob /\ Judged /\ Waited /\ Sent /\ SiblingsKnown /\ VerdictStillHolds

-----------------------------------------------------------------------------
(* What a step can do to one row, besides what Selecting and Downloading do *)

Past == {"IMPORTING", "PARKED", "DONE", "IMPORT_REFUSED", "NOT_IMPORTED"}
Tried == {"ACTIVE", "SUCCEEDED", "FAILED"}

RowStays(c) == cand'[c] = cand[c] /\ tr'[c] = tr[c] /\ deferred'[c] = deferred[c]
RowGoes(c) == cand'[c].st = "FREE" /\ tr'[c] = NoRows /\ deferred'[c] = "NO"
RowComes(c) ==
  FreshCandidate(c) /\ cand'[c].st = "NEW" /\ tr'[c] = tr[c] /\ deferred'[c] = deferred[c]
\* Importing ends it, or the user takes it back from a refusal.
RowEnds(c) ==
  /\ cand[c].st \in Tried /\ cand'[c].st \in Tried
  /\ cand'[c].job = cand[c].job /\ cand'[c].peer = cand[c].peer
  /\ tr'[c] = tr[c] /\ deferred'[c] = deferred[c]
  /\ state[cand[c].job] \in Past /\ state'[cand[c].job] # "DOWNLOADING"
RowRestarts(c) ==
  /\ cand[c].st # "FREE" /\ cand'[c].st = "NEW"
  /\ cand'[c].job = cand[c].job /\ cand'[c].peer = cand[c].peer
  /\ tr'[c] = NoRows /\ deferred'[c] = deferred[c]
  /\ state[cand[c].job] \in {"FAILED", "PARKED"} /\ state'[cand[c].job] = "SELECTING"
RowStops(c) ==
  /\ cand[c].st # "FREE" /\ cand'[c] = cand[c] /\ deferred'[c] = deferred[c]
  /\ state'[cand[c].job] = "CANCELLED"
  /\ \A f \in Files : tr'[c][f] = IF tr[c][f] \in LiveTransfer THEN "CANCELLED" ELSE tr[c][f]
RowMoves(c) ==
  RowStays(c) \/ RowGoes(c) \/ RowComes(c) \/ RowEnds(c) \/ RowRestarts(c) \/ RowStops(c)

\* No job goes past its download, or starts one, unless no tick holds it.
JobMoves(j) ==
  \/ state'[j] = state[j]
  \/ FreshJob(j)
  \/ (state[j] \in Past \/ state'[j] \notin Past) /\ state'[j] # "DOWNLOADING"

\* None of these makes a file live.
LEMMA OwnedMoves ==
  ASSUME IInv, Owned, \A c \in Candidates : RowMoves(c) PROVE Owned'
<1>1. NoRows \in [Files -> {"NONE"}] BY DEF NoRows
<1>2. FreeHasNoRows' BY RowShape DEF IInv, Owned, FreeHasNoRows, RowMoves, RowStays, RowGoes, RowComes, RowEnds,
     RowRestarts, RowStops, Tried
<1>3. ASSUME NEW c \in Candidates, cand'[c].st \in Tried, NEW f \in Files
      PROVE tr'[c][f] # "NONE"
  BY <1>3 DEF Owned, TriedIsWhole, RowsIn, RowMoves, RowStays, RowGoes, RowComes, RowEnds,
     RowRestarts, RowStops, Tried
<1>4. TriedIsWhole' BY <1>3 DEF TriedIsWhole, RowsIn, Tried
<1>. QED BY <1>2, <1>4 DEF Owned

\* The Downloading tick stays as it is, or ends; Selecting's too, or it is not
\* waiting for a folder.
TicksStay ==
  /\ dl' \in {dl, DlIdle} \/ DlSame
  /\ sel' = sel \/ sel'.pc # "reserve" \/ SelSame

DlKeeps ==
  dl.pc # "idle" =>
    /\ state[dl.job] \notin Past => state'[dl.job] \notin Past
    /\ dl.cand # None =>
         /\ (dl.pc \in Judging \cup HandOver \/ sel'.pc = "reserve") /\ cand[dl.cand].st \in {"ACTIVE", "FREE"}
              => cand'[dl.cand].st \in {"ACTIVE", "FREE"}
         /\ dl.pc \in HandOver /\ deferred[dl.cand] = "NO" /\ cand'[dl.cand].st \notin {"ACTIVE", "FREE"}
              => deferred'[dl.cand] = "NO"
         /\ sel'.pc = "reserve" /\ deferred'[dl.cand] = "OLD" => deferred[dl.cand] = "OLD"
         /\ dl.pc \in Judging /\ cand'[dl.cand].st = "ACTIVE" /\ state'[dl.job] = "DOWNLOADING" =>
              /\ cand[dl.cand].st = "ACTIVE" /\ state[dl.job] = "DOWNLOADING"
              /\ \A f \in Files : \/ tr'[dl.cand][f] = tr[dl.cand][f]
                                  \/ dl.pc = "siblings" /\ tr[dl.cand][f] \in LiveTransfer
SelKeeps ==
  (sel'.pc = "reserve" /\ deferred'[sel.cand] = "OLD" /\ state'[sel.job] = "DOWNLOADING"
     /\ cand'[sel.cand].st = "ACTIVE") =>
    /\ deferred[sel.cand] = "OLD" /\ state[sel.job] = "DOWNLOADING"
    /\ cand[sel.cand].st = "ACTIVE" /\ \A f \in Files : tr'[sel.cand][f] = tr[sel.cand][f]

\* What the tick holds besides: a topped up file leaves pend.
LEMMA HeldKeeps ==
  ASSUME IInv, Held, DlKeeps, SelKeeps,
         sel' = sel \/ sel'.pc # "reserve" \/ SelSame,
         \/ dl'.pc = "idle"
         \/ /\ dl'.pc = dl.pc \/ (dl.pc \in HandOver /\ dl'.pc \in HandOver)
            /\ dl'.cand = dl.cand /\ dl'.job = dl.job
            /\ dl.pc = "siblings" => dl'.pend = dl.pend /\ dl'.sent = dl.sent
  PROVE Held'
<1>1. dl.pc \notin {"idle", "resolve"} => dl.cand \in Candidates /\ dl.cand # None BY NoneAssumption DEF IInv, DlHolds
<1>0. dl'.pc = dl.pc \/ dl'.pc \in HandOver \cup {"idle"} OBVIOUS
<1>2. sel.pc = "reserve" => sel.cand \in Candidates BY DEF IInv, SelHolds
<1>3. DlJob' BY DEF Held, DlJob, DlKeeps, Past, HandOver
<1>4. Judged' BY <1>1, <1>0 DEF Held, Judged, DlKeeps, Judging, HandOver
<1>5. Waited'
  <2>. SUFFICES ASSUME sel'.pc = "reserve", deferred'[sel'.cand] = "OLD",
                       state'[sel'.job] = "DOWNLOADING", cand'[sel'.cand].st = "ACTIVE"
                PROVE /\ RowsIn(sel.cand, {"PENDING"})' = Files
                      /\ ~(dl'.pc \in Judging /\ dl'.cand = sel'.cand)
    BY DEF Waited
  <2>1. sel.pc = "reserve" /\ sel'.cand = sel.cand /\ sel'.job = sel.job BY DEF SelSame
  <2>2. dl'.pc \in Judging => dl.pc \in Judging /\ dl'.cand = dl.cand BY <1>0 DEF Judging, HandOver
  <2>. QED BY <1>2, <2>1, <2>2 DEF Held, Waited, SelKeeps, RowsIn
<1>6. Sent'
  <2>1. ASSUME dl'.pc \in {"reserve"} \cup HandOver, ShareRow'
        PROVE /\ cand'[dl.cand].st \in {"ACTIVE", "FREE"}
              /\ dl.pc \in HandOver => deferred'[dl.cand] # "OLD"
    BY <1>1, <2>1 DEF Held, Sent, DlKeeps, ShareRow, SelSame, HandOver
  <2>2. ASSUME dl'.pc \in HandOver, cand'[dl.cand].st \in {"NEW", "SUCCEEDED", "FAILED"}
        PROVE deferred'[dl.cand] = "NO"
    <3>1. dl.pc \in HandOver /\ cand[dl.cand].st \in {"NEW", "SUCCEEDED", "FAILED"}
      BY <1>1, <2>2, RowShape DEF IInv, DlKeeps, HandOver
    <3>. QED BY <1>1, <2>2, <3>1 DEF Held, Sent, DlKeeps, HandOver
  <2>. QED BY <2>1, <2>2 DEF Sent, ShareRow, HandOver
<1>7. ASSUME dl'.pc \in Judging, cand'[dl'.cand].st = "ACTIVE", state'[dl'.job] = "DOWNLOADING"
      PROVE /\ dl'.pc = dl.pc /\ dl'.cand = dl.cand /\ dl'.job = dl.job
            /\ dl.pc = "siblings" => dl'.pend = dl.pend /\ dl'.sent = dl.sent
            /\ cand[dl.cand].st = "ACTIVE" /\ state[dl.job] = "DOWNLOADING"
            /\ \A f \in Files : \/ tr'[dl.cand][f] = tr[dl.cand][f]
                                \/ dl.pc = "siblings" /\ tr[dl.cand][f] \in LiveTransfer
  <2>1. dl'.pc = dl.pc /\ dl'.cand = dl.cand /\ dl'.job = dl.job BY <1>0, <1>7 DEF Judging, HandOver
  <2>2. dl.pc \in Judging /\ dl.cand # None BY <1>1, <1>7, <2>1 DEF Judging
  <2>3. dl.pc = "siblings" => dl'.pend = dl.pend /\ dl'.sent = dl.sent BY <2>1
  <2>. QED BY <1>7, <2>1, <2>2, <2>3 DEF DlKeeps, Judging
<1>8. SiblingsKnown'
  <2>. SUFFICES ASSUME dl'.pc = "siblings", cand'[dl'.cand].st = "ACTIVE", state'[dl'.job] = "DOWNLOADING",
                       NEW f \in Files, tr'[dl'.cand][f] \in LiveTransfer
                PROVE f \in dl'.pend \cup dl'.sent
    BY DEF SiblingsKnown, RowsIn
  <2>. QED BY <1>7 DEF Held, SiblingsKnown, RowsIn, Judging
<1>9. VerdictStillHolds'
  <2>. SUFFICES ASSUME dl'.pc \in {"done", "failed"}, cand'[dl'.cand].st = "ACTIVE",
                       state'[dl'.job] = "DOWNLOADING"
                PROVE (IF dl.pc = "done" THEN RowsIn(dl.cand, {"COMPLETED"}) = Files
                       ELSE RowsIn(dl.cand, LiveTransfer) = {})'
    BY DEF VerdictStillHolds
  <2>1. \A f \in Files : tr'[dl'.cand][f] = tr[dl.cand][f] BY <1>7 DEF Judging
  <2>. QED BY <1>7, <2>1 DEF Held, VerdictStillHolds, RowsIn, Judging
<1>. QED BY <1>3, <1>4, <1>5, <1>6, <1>8, <1>9 DEF Held

LEMMA HeldMoves ==
  ASSUME IInv, Held, TicksStay, \A j \in Jobs : JobMoves(j),
         \A c \in Candidates : RowMoves(c) \/ FreshCandidate(c)
  PROVE Held'
<1>1. DlKeeps
  <2>. SUFFICES ASSUME dl.pc # "idle" PROVE DlKeeps BY DEF DlKeeps
  <2>1. dl.job \in Jobs /\ ~FreshJob(dl.job) /\ state[dl.job] \notin Past
        /\ (dl.cand # None => dl.cand \in Candidates /\ ~FreshCandidate(dl.cand))
    BY DlBusy, HeldType DEF IInv, Held, DlJob, FreshJob, FreshCandidate, Past
  <2>2. /\ state'[dl.job] \notin Past
        /\ state'[dl.job] = "DOWNLOADING" => state[dl.job] = "DOWNLOADING"
    BY <2>1 DEF JobMoves, Past
  <2>3. ASSUME dl.cand # None, cand[dl.cand].st # "FREE" PROVE cand[dl.cand].job = dl.job
    BY <2>1, <2>3 DEF IInv, HeldRows, HeldBy
  <2>4. ASSUME dl.cand # None, cand[dl.cand].st \in {"ACTIVE", "FREE"}
        PROVE cand'[dl.cand].st \in {"ACTIVE", "FREE"}
    <3>1. state[dl.job] = "FAILED" => cand[dl.cand].st = "FREE"
      BY <2>1, <2>3, <2>4 DEF IInv, ActiveCandidate, ActiveCandidates, CandidatesOf
    <3>. QED BY <2>1, <2>3, <2>4, <3>1 DEF RowMoves, RowStays, RowGoes, RowComes, RowEnds,
               RowRestarts, RowStops, Past, Tried
  <2>5. ASSUME dl.cand # None
        PROVE deferred'[dl.cand] \in {deferred[dl.cand], "NO"}
    BY <2>1, <2>5 DEF RowMoves, RowStays, RowGoes, RowComes, RowEnds, RowRestarts, RowStops
  <2>6. ASSUME dl.cand # None, cand'[dl.cand].st = "ACTIVE", state'[dl.job] = "DOWNLOADING"
        PROVE cand[dl.cand].st = "ACTIVE" /\ tr'[dl.cand] = tr[dl.cand]
    BY <2>1, <2>2, <2>3, <2>6 DEF RowMoves, RowStays, RowGoes, RowComes, RowEnds, RowRestarts,
       RowStops, Tried
  <2>. QED BY <2>2, <2>4, <2>5, <2>6 DEF DlKeeps
<1>2. SelKeeps
  <2>. SUFFICES ASSUME sel'.pc = "reserve", deferred'[sel.cand] = "OLD",
                       state'[sel.job] = "DOWNLOADING", cand'[sel.cand].st = "ACTIVE"
                PROVE /\ deferred[sel.cand] = "OLD" /\ state[sel.job] = "DOWNLOADING"
                      /\ cand[sel.cand].st = "ACTIVE" /\ tr'[sel.cand] = tr[sel.cand]
    BY DEF SelKeeps
  <2>1. /\ sel.job \in Jobs /\ ~FreshJob(sel.job)
        /\ sel.cand \in Candidates /\ ~FreshCandidate(sel.cand)
    BY SelBusy DEF IInv, SelHolds, TicksStay, SelSame, FreshJob, FreshCandidate
  <2>2. state[sel.job] = "DOWNLOADING" BY <2>1 DEF JobMoves
  <2>3. cand[sel.cand].st # "FREE" => cand[sel.cand].job = sel.job BY <2>1, NoneAssumption DEF IInv, HeldRows, HeldBy
  <2>. QED BY <2>1, <2>2, <2>3 DEF RowMoves, RowStays, RowGoes, RowComes, RowEnds, RowRestarts,
             RowStops, Tried
<1>. QED BY <1>1, <1>2, HeldKeeps DEF TicksStay, DlIdle, DlSame

-----------------------------------------------------------------------------
(* The steps of the others *)

LEMMA Moves ==
  ASSUME IInv, Owned, Held, TicksStay, \A j \in Jobs : JobMoves(j), \A c \in Candidates : RowMoves(c)
  PROVE Owned' /\ Held'
BY OwnedMoves, HeldMoves

LEMMA QuietMoves ==
  ASSUME IInv, Owned, Held, TicksStay, UNCHANGED <<state, cand, tr, deferred>>
  PROVE Owned' /\ Held'
BY Moves DEF JobMoves, RowMoves, RowStays

\* A job is failed, advanced or set back and its rows are left or deleted.
LEMMA DeletedMoves ==
  ASSUME NEW J, DeleteCandidates(J) PROVE \A c \in Candidates : RowMoves(c)
BY DEF DeleteCandidates, RowMoves, RowStays, RowGoes, FreeCandidate

LEMMA JobSteps ==
  ASSUME IInv, Owned, Held, TicksStay, \A j \in Jobs : JobMoves(j),
         \/ UNCHANGED <<cand, tr, deferred>>
         \/ \E J \in SUBSET Jobs : DeleteCandidates(J)
  PROVE Owned' /\ Held'
BY Moves, DeletedMoves DEF RowMoves, RowStays

LEMMA FailedMoves ==
  ASSUME IInv, NEW j \in Jobs, MarkJobFailed(j) PROVE \A k \in Jobs : JobMoves(k)
BY DEF IInv, TypeOK, MarkJobFailed, JobMoves, Past

LEMMA WantedMoves ==
  ASSUME IInv, Owned, Held, Wanted PROVE Owned' /\ Held'
<1>0. PICK W \in SUBSET LidarrJobs : \E R \in SUBSET W : SyncWanted(W, R) BY DEF Wanted
<1>1. PICK R \in SUBSET W : SyncWanted(W, R) BY <1>0
<1>2. \A j \in Jobs : JobMoves(j) BY <1>1 DEF SyncWanted, JobMoves, Past
<1>3. \E J \in SUBSET Jobs : DeleteCandidates(J)
  <2>. DEFINE again == {j \in W : state[j] = "CANCELLED"} \cup {j \in R : state[j] = "FAILED"}
  <2>1. DeleteCandidates(again) /\ again \in SUBSET Jobs BY <1>1 DEF SyncWanted, LidarrJobs
  <2>. QED BY <2>1
<1>4. TicksStay BY <1>1 DEF SyncWanted, ticks, TicksStay
<1>. QED BY <1>2, <1>3, <1>4, JobSteps

LEMMA DiscoveryMoves ==
  ASSUME IInv, Owned, Held, Discovery PROVE Owned' /\ Held'
<1>1. TicksStay BY DEF Discovery, DiscoveryRead, DiscoveryFilter, DiscoveryNoViable, DiscoveryExcluded,
     DiscoveryInsert, DiscoveryAdvance, DiscoveryAbort, TicksStay
<1>2. CASE DiscoveryNoViable \/ DiscoveryExcluded \/ DiscoveryAdvance
  <2>1. dis.job \in Jobs BY <1>2, DisBusy DEF IInv, DiscoveryNoViable, DiscoveryExcluded, DiscoveryAdvance
  <2>2. \/ MarkJobFailed(dis.job) \/ UNCHANGED state
        \/ AdvanceJobStateFrom(dis.job, "WANTED", "SELECTING")
    BY <1>2 DEF DiscoveryNoViable, DiscoveryExcluded, DiscoveryAdvance
  <2>3. \A j \in Jobs : JobMoves(j)
    <3>1. CASE MarkJobFailed(dis.job) BY <2>1, <3>1, FailedMoves
    <3>2. CASE UNCHANGED state \/ AdvanceJobStateFrom(dis.job, "WANTED", "SELECTING")
      BY <2>1, <3>2 DEF IInv, TypeOK, AdvanceJobStateFrom, JobMoves, Past
    <3>. QED BY <2>2, <3>1, <3>2
  <2>. QED BY <1>1, <1>2, <2>3, JobSteps DEF DiscoveryNoViable, DiscoveryExcluded, DiscoveryAdvance
<1>3. ASSUME NEW slot \in [dis.peers -> Candidates], DiscoveryInsert(slot) PROVE Owned' /\ Held'
  <2>1. /\ UNCHANGED <<state, tr, deferred>>
        /\ \A p \in dis.peers : FreshCandidate(slot[p])
        /\ \A c \in Candidates :
             \/ cand'[c] = cand[c]
             \/ (\E p \in dis.peers : slot[p] = c) /\ cand'[c].st = "NEW"
    BY <1>3 DEF DiscoveryInsert
  <2>2. \A c \in Candidates : RowMoves(c) BY <2>1 DEF RowMoves, RowStays, RowComes
  <2>3. \A j \in Jobs : JobMoves(j) BY <2>1 DEF JobMoves
  <2>. QED BY <1>1, <2>2, <2>3, Moves
<1>4. CASE \/ \E j \in LidarrJobs : DiscoveryRead(j)
           \/ \E S \in SUBSET Peers : DiscoveryFilter(S)
           \/ DiscoveryAbort
  BY <1>1, <1>4, QuietMoves DEF DiscoveryRead, DiscoveryFilter, DiscoveryAbort, tables
<1>. QED BY <1>2, <1>3, <1>4 DEF Discovery

\* Importing ends a row only in a job it has not let go of.
LEMMA ImportingMoves ==
  ASSUME IInv, Owned, Held, Importing PROVE Owned' /\ Held'
<1>1. TicksStay /\ UNCHANGED <<tr, deferred>>
  BY DEF Importing, ImportRead, ImportCandidate, ImportDone, ImportNotImported, ImportRejected,
     ImportStuck, ImportRefused, ImportUnconfirmed, ImportStop, ImportEnd, TicksStay, tables
<1>2. CASE \/ \E j \in Jobs : ImportRead(j)
           \/ \E c \in Candidates : ImportCandidate(c)
           \/ ImportStop
  BY <1>1, <1>2, QuietMoves DEF ImportRead, ImportCandidate, ImportStop, tables
<1>3. CASE \/ ImportDone \/ ImportNotImported \/ ImportRejected \/ ImportStuck
           \/ ImportRefused \/ ImportUnconfirmed
  <2>1. imp.job \in Jobs /\ imp.cand \in Candidates /\ HeldBy(imp.cand, imp.job)
    BY <1>3, ImpBusy DEF IInv, ImpHolds, HeldRows, ImportDone, ImportNotImported, ImportRejected,
       ImportStuck, ImportRefused, ImportUnconfirmed
  <2>3. PICK st \in {"SUCCEEDED", "FAILED"}, r \in Rejections,
            to \in {"SELECTING", "DONE", "NOT_IMPORTED", "PARKED", "IMPORT_REFUSED"} :
          TerminalCandidateAndAdvance(imp.cand, imp.job, st, "IMPORTING", to, r)
    BY <1>3, ImportVerdict
  <2>4. CASE ~(cand[imp.cand].st = "ACTIVE" /\ state[imp.job] = "IMPORTING")
    BY <1>1, <2>3, <2>4, QuietMoves DEF TerminalCandidateAndAdvance
  <2>5. CASE cand[imp.cand].st = "ACTIVE" /\ state[imp.job] = "IMPORTING"
    <3>1. cand' = [cand EXCEPT ![imp.cand].st = st] /\ state' = [state EXCEPT ![imp.job] = to]
      BY <2>3, <2>5 DEF TerminalCandidateAndAdvance
    <3>2. cand[imp.cand].job = imp.job BY <2>1, <2>5, NoneAssumption DEF HeldBy
    <3>3. cand[imp.cand] \in [st : {"NEW", "ACTIVE", "SUCCEEDED", "FAILED"}, job : Jobs, peer : Peers]
      BY <2>1, <2>5, RowShape DEF IInv
    <3>4. \A c \in Candidates :
            IF c = imp.cand THEN cand'[c].st = st /\ cand'[c].job = imp.job
                                 /\ cand'[c].peer = cand[c].peer
            ELSE cand'[c] = cand[c]
      BY <3>1, <3>2, <3>3 DEF IInv, TypeOK
    <3>5. \A j \in Jobs : state'[j] = IF j = imp.job THEN to ELSE state[j] BY <3>1 DEF IInv, TypeOK
    <3>6. \A j \in Jobs : JobMoves(j) BY <2>5, <3>5 DEF JobMoves, Past
    <3>7. \A c \in Candidates : RowMoves(c)
      BY <1>1, <2>1, <2>5, <3>2, <3>4, <3>5 DEF RowMoves, RowStays, RowEnds, Past, Tried
    <3>. QED BY <1>1, <3>6, <3>7, Moves
  <2>. QED BY <2>4, <2>5
<1>. QED BY <1>2, <1>3 DEF Importing

-----------------------------------------------------------------------------
(* The user *)

LEMMA RetryManualMoves ==
  ASSUME IInv, NEW j \in Jobs, RetryManualJob(j)
  PROVE (\A k \in Jobs : JobMoves(k)) /\ \A c \in Candidates : RowMoves(c)
<1>1. /\ state[j] \in {"FAILED", "PARKED"} /\ state' = [state EXCEPT ![j] = "SELECTING"]
      /\ cand' = [c \in Candidates |->
           IF cand[c].job = j THEN [cand[c] EXCEPT !.st = "NEW"] ELSE cand[c]]
      /\ tr' = [c \in Candidates |-> IF cand[c].job = j THEN NoRows ELSE tr[c]]
      /\ deferred' = deferred
  BY DEF RetryManualJob
<1>2. \A k \in Jobs : state'[k] = IF k = j THEN "SELECTING" ELSE state[k] BY <1>1 DEF IInv, TypeOK
<1>3. \A k \in Jobs : JobMoves(k) BY <1>2 DEF JobMoves, Past
<1>4. ASSUME NEW c \in Candidates PROVE RowMoves(c)
  <2>1. CASE cand[c].job # j BY <1>1, <2>1 DEF RowMoves, RowStays
  <2>2. CASE cand[c].job = j
    <3>1. cand[c] \in [st : {"NEW", "ACTIVE", "SUCCEEDED", "FAILED"}, job : Jobs, peer : Peers]
      BY <2>2, RowShape, NoneAssumption DEF IInv
    <3>2. cand'[c] = [cand[c] EXCEPT !.st = "NEW"] /\ tr'[c] = NoRows BY <1>1, <2>2
    <3>3. cand'[c].st = "NEW" /\ cand'[c].job = cand[c].job /\ cand'[c].peer = cand[c].peer BY <3>1, <3>2
    <3>. QED BY <1>1, <1>2, <2>2, <3>1, <3>2, <3>3 DEF RowMoves, RowRestarts
  <2>. QED BY <2>1, <2>2
<1>. QED BY <1>3, <1>4

LEMMA RetryRefusedMoves ==
  ASSUME Inv, NEW j \in Jobs, RetryRefusedJob(j)
  PROVE (\A k \in Jobs : JobMoves(k)) /\ \A c \in Candidates : RowMoves(c)
<1>1. PICK c \in CurrentCandidates(j) :
        /\ cand[c].st = "FAILED" /\ cand' = [cand EXCEPT ![c].st = "ACTIVE"]
  BY DEF RetryRefusedJob
<1>2. /\ state[j] = "IMPORT_REFUSED" /\ state' = [state EXCEPT ![j] = "IMPORTING"]
      /\ UNCHANGED <<tr, deferred>>
  BY DEF RetryRefusedJob
<1>3. c \in Candidates /\ cand[c].job = j
  <2>1. CurrentCandidates(j) \subseteq Candidates
    BY DEF Inv, IInv, TypeOK, CurrentCandidates, ActiveCandidates, NewCandidates, CandidatesOf
  <2>. QED BY <1>1, <1>2, <2>1, Revivable DEF RefusedRevivable
<1>4. cand[c] \in [st : {"NEW", "ACTIVE", "SUCCEEDED", "FAILED"}, job : Jobs, peer : Peers]
  BY <1>1, <1>3, RowShape DEF Inv, IInv
<1>5. \A d \in Candidates :
        IF d = c THEN cand'[d].st = "ACTIVE" /\ cand'[d].job = j /\ cand'[d].peer = cand[d].peer
        ELSE cand'[d] = cand[d]
  BY <1>1, <1>3, <1>4 DEF Inv, IInv, TypeOK
<1>6. \A k \in Jobs : state'[k] = IF k = j THEN "IMPORTING" ELSE state[k] BY <1>2 DEF Inv, IInv, TypeOK
<1>7. \A k \in Jobs : JobMoves(k) BY <1>2, <1>6 DEF JobMoves, Past
<1>8. \A d \in Candidates : RowMoves(d) BY <1>1, <1>2, <1>3, <1>5, <1>6 DEF RowMoves, RowStays, RowEnds, Past, Tried
<1>. QED BY <1>7, <1>8

LEMMA CancelMoves ==
  ASSUME IInv, NEW j \in Jobs, Cancel(j) \/ PrepareDelete(j)
  PROVE (\A k \in Jobs : JobMoves(k)) /\ \A c \in Candidates : RowMoves(c)
<1>1. state' = [state EXCEPT ![j] = "CANCELLED"] /\ CancelTransfersOf(j) /\ UNCHANGED <<cand, deferred>>
  BY DEF Cancel, PrepareDelete
<1>2. \A k \in Jobs : state'[k] = IF k = j THEN "CANCELLED" ELSE state[k] BY <1>1 DEF IInv, TypeOK
<1>3. \A k \in Jobs : JobMoves(k) BY <1>2 DEF JobMoves, Past
<1>4. ASSUME NEW c \in Candidates PROVE RowMoves(c)
  <2>1. tr' = [d \in Candidates |-> [f \in Files |->
          IF cand[d].job = j /\ tr[d][f] \in LiveTransfer THEN "CANCELLED" ELSE tr[d][f]]]
    BY <1>1 DEF CancelTransfersOf
  <2>2. CASE cand[c].job # j
    <3>1. tr'[c] = tr[c] BY <2>1, <2>2 DEF IInv, TypeOK
    <3>. QED BY <1>1, <3>1 DEF RowMoves, RowStays
  <2>3. CASE cand[c].job = j
    <3>1. cand[c].st # "FREE" BY <2>3, RowShape, NoneAssumption DEF IInv
    <3>. QED BY <1>1, <1>2, <2>1, <2>3, <3>1 DEF RowMoves, RowStops
  <2>. QED BY <2>2, <2>3
<1>. QED BY <1>3, <1>4

\* A candidate becomes the one being downloaded.
LEMMA OwnedStarts ==
  ASSUME IInv, Owned, NEW c \in Candidates,
         \A d \in Candidates \ {c} : cand'[d] = cand[d] /\ tr'[d] = tr[d],
         cand'[c].st = "ACTIVE", tr'[c] = AllPending
  PROVE Owned'
<1>1. \A f \in Files : tr'[c][f] = "PENDING" BY DEF AllPending
<1>2. FreeHasNoRows' BY DEF Owned, FreeHasNoRows
<1>3. TriedIsWhole' BY <1>1 DEF Owned, TriedIsWhole, RowsIn
<1>. QED BY <1>2, <1>3 DEF Owned

LEMMA CreateManualMoves ==
  ASSUME IInv, Owned, Held, NEW j \in Jobs, NEW c \in Candidates, NEW p \in Peers,
         CreateManualJob(j, c, p)
  PROVE Owned' /\ Held'
<1>1. /\ FreshJob(j) /\ FreshCandidate(c)
      /\ state' = [state EXCEPT ![j] = "DOWNLOADING"]
      /\ cand' = [cand EXCEPT ![c] = [st |-> "ACTIVE", job |-> j, peer |-> p]]
      /\ tr' = [tr EXCEPT ![c] = AllPending]
      /\ UNCHANGED <<deferred, ticks>>
  BY DEF CreateManualJob, UserUnchanged
<1>2. /\ cand'[c].peer = p /\ cand'[c].st = "ACTIVE" /\ tr'[c] = AllPending
      /\ \A d \in Candidates \ {c} : cand'[d] = cand[d] /\ tr'[d] = tr[d]
  BY <1>1 DEF IInv, TypeOK
<1>3. Owned' BY <1>1, <1>2, OwnedStarts
<1>4. \A k \in Jobs : JobMoves(k) BY <1>1 DEF IInv, TypeOK, JobMoves
<1>5. \A d \in Candidates : RowMoves(d) \/ FreshCandidate(d) BY <1>1, <1>2 DEF RowMoves, RowStays
<1>6. TicksStay BY <1>1 DEF ticks, TicksStay
<1>. QED BY <1>3, <1>4, <1>5, <1>6, HeldMoves

LEMMA UserMoves ==
  ASSUME Inv, Owned, Held, User PROVE Owned' /\ Held'
<1>1. IInv BY DEF Inv
<1>2. PICK j \in Jobs :
        \/ Cancel(j) \/ PrepareDelete(j) \/ DeleteJob(j) \/ DeleteGivesUp(j)
        \/ RetryFailedJob(j) \/ RetryManualJob(j) \/ RetryRefusedJob(j)
        \/ ForceSearch(j)
        \/ \E c \in Candidates, p \in Peers : CreateManualJob(j, c, p)
  BY DEF User
<1>3. TicksStay
  <2>1. CASE RetryManualJob(j) BY <1>1, <2>1, TicksLoseRows DEF TicksStay
  <2>2. CASE ~RetryManualJob(j)
    BY <1>2, <2>2 DEF Cancel, PrepareDelete, DeleteJob, DeleteGivesUp, RetryFailedJob,
       RetryRefusedJob, ForceSearch, CreateManualJob, UserUnchanged, ticks, TicksStay
  <2>. QED BY <2>1, <2>2
<1>4. CASE \/ Cancel(j) \/ PrepareDelete(j) \/ RetryManualJob(j) \/ RetryRefusedJob(j)
  BY <1>1, <1>3, <1>4, Moves, CancelMoves, RetryManualMoves, RetryRefusedMoves
<1>5. CASE DeleteJob(j) \/ RetryFailedJob(j) \/ ForceSearch(j)
  <2>1. (\E J \in SUBSET Jobs : DeleteCandidates(J))
        /\ \E to \in {"ABSENT", "WANTED"} : state' = [state EXCEPT ![j] = to]
    <3>1. DeleteCandidates({j}) BY <1>5 DEF DeleteJob, RetryFailedJob, ForceSearch
    <3>2. \/ state' = [state EXCEPT ![j] = "ABSENT"] \/ state' = [state EXCEPT ![j] = "WANTED"]
      BY <1>5 DEF DeleteJob, RetryFailedJob, ForceSearch
    <3>. QED BY <3>1, <3>2
  <2>2. \A k \in Jobs : JobMoves(k) BY <1>1, <2>1 DEF IInv, TypeOK, JobMoves, Past
  <2>. QED BY <1>1, <1>3, <2>1, <2>2, JobSteps
<1>6. CASE DeleteGivesUp(j) BY <1>1, <1>3, <1>6, QuietMoves DEF DeleteGivesUp, tables
<1>7. ASSUME NEW c \in Candidates, NEW p \in Peers, CreateManualJob(j, c, p) PROVE Owned' /\ Held'
  BY <1>1, <1>7, CreateManualMoves
<1>. QED BY <1>2, <1>4, <1>5, <1>6, <1>7

-----------------------------------------------------------------------------
(* Selecting *)

LEMMA OwnedSends ==
  ASSUME IInv, Owned, NEW c \in Candidates, Enqueues(c), UNCHANGED cand
  PROVE Owned'
<1>1. CASE UNCHANGED tr BY <1>1 DEF Owned, FreeHasNoRows, TriedIsWhole, RowsIn
<1>2. ASSUME NEW f \in Files, EnqueueFile(c, f) PROVE Owned'
  <2>1. /\ cand[c].st # "FREE" /\ tr'[c][f] # "NONE"
        /\ \A d \in Candidates : d # c => tr'[d] = tr[d]
        /\ \A g \in Files : g # f => tr'[c][g] = tr[c][g]
    BY <1>2 DEF EnqueueFile, EnqueueIntent, IInv, TypeOK
  <2>2. FreeHasNoRows' BY <2>1 DEF Owned, FreeHasNoRows
  <2>3. TriedIsWhole' BY <2>1 DEF Owned, TriedIsWhole, RowsIn
  <2>. QED BY <2>2, <2>3 DEF Owned
<1>. QED BY <1>1, <1>2 DEF Enqueues

LEMMA OwnedStays ==
  ASSUME Owned, UNCHANGED <<cand, tr>> PROVE Owned'
BY DEF Owned, FreeHasNoRows, TriedIsWhole, RowsIn

\* Steps that leave the rows alone and take no job further.
LEMMA RowsStay ==
  ASSUME IInv, Owned, Held, TicksStay, UNCHANGED <<state, cand, tr>>,
         sel.pc = "idle" \/ sel'.pc # "reserve" \/ deferred' = deferred,
         \A c \in Candidates : deferred[c] = "NO" => deferred'[c] = "NO"
  PROVE Owned' /\ Held'
<1>1. Owned' BY OwnedStays
<1>2. dl.pc \notin {"idle", "resolve"} => dl.cand \in Candidates BY DEF IInv, DlHolds
<1>3. DlKeeps BY <1>2 DEF DlKeeps, TicksStay, SelSame, SelIdle, Judging, HandOver
<1>4. SelKeeps BY DEF SelKeeps, TicksStay, SelSame
<1>. QED BY <1>1, <1>3, <1>4, HeldKeeps DEF TicksStay, DlIdle, DlSame

LEMMA SelectActivateMoves ==
  ASSUME IInv, Owned, Held, SelectActivate PROVE Owned' /\ Held'
<1> DEFINE c == sel.cand
           j == sel.job
<1>1. /\ sel.pc = "activate" /\ Activatable(c, j)
      /\ tr' = [tr EXCEPT ![c] = AllPending] /\ cand' = [cand EXCEPT ![c].st = "ACTIVE"]
      /\ state' = [state EXCEPT ![j] = "DOWNLOADING"]
      /\ sel' = [sel EXCEPT !.pc = "reserve", !.pend = Files]
      /\ UNCHANGED <<deferred, dl>>
  BY DEF SelectActivate
<1>2. c \in Candidates /\ j \in Jobs BY <1>1, SelBusy DEF IInv, SelHolds
<1>3. cand[c].st = "NEW" /\ cand[c].job = j /\ state[j] = "SELECTING" BY <1>1 DEF Activatable
<1>4. cand[c] \in [st : {"NEW", "ACTIVE", "SUCCEEDED", "FAILED"}, job : Jobs, peer : Peers]
  BY <1>2, <1>3, RowShape DEF IInv
<1>5. /\ cand'[c].st = "ACTIVE" /\ cand'[c].job = j /\ cand'[c].peer = cand[c].peer
      /\ tr'[c] = AllPending
      /\ \A d \in Candidates \ {c} : cand'[d] = cand[d] /\ tr'[d] = tr[d]
  BY <1>1, <1>2, <1>3, <1>4 DEF IInv, TypeOK
<1>6. Owned' BY <1>2, <1>5, OwnedStarts
<1>7. sel'.pc = "reserve" /\ sel'.cand = c /\ sel'.job = j BY <1>1, SelBusy DEF IInv
<1>8. /\ state'[j] = "DOWNLOADING"
      /\ \A k \in Jobs : k # j => state'[k] = state[k]
  BY <1>1, <1>2 DEF IInv, TypeOK
<1>9. dl.pc # "idle" => dl.job \in Jobs /\ (dl.pc # "resolve" => dl.cand \in Candidates) BY DlBusy DEF IInv, DlHolds
<1>10. dl.pc \in Judging => dl.cand # c BY <1>3 DEF Held, Judged
<1>11. ASSUME dl.pc \in Judging, cand'[dl.cand].st = "ACTIVE", state'[dl.job] = "DOWNLOADING"
       PROVE /\ cand[dl.cand].st = "ACTIVE" /\ state[dl.job] = "DOWNLOADING"
             /\ tr'[dl.cand] = tr[dl.cand]
  <2>1. dl.cand \in Candidates /\ cand[dl.cand].st = "ACTIVE" /\ tr'[dl.cand] = tr[dl.cand]
    BY <1>5, <1>9, <1>10, <1>11 DEF Judging
  <2>2. cand[dl.cand].job = dl.job BY <1>11, <2>1, NoneAssumption DEF IInv, HeldRows, HeldBy
  <2>3. dl.job # j BY <1>2, <1>3, <2>1, <2>2 DEF IInv, ActiveCandidate, ActiveCandidates, CandidatesOf
  <2>. QED BY <1>8, <1>9, <1>11, <2>1, <2>3 DEF Judging
<1>12. DlJob' BY <1>1, <1>8, <1>9 DEF Held, DlJob
<1>13. Judged' BY <1>1, <1>5, <1>9, <1>10 DEF Held, Judged, Judging
<1>14. Waited' BY <1>1, <1>5, <1>7, <1>10 DEF Waited, RowsIn, AllPending
<1>15. Sent'
  <2>1. ASSUME dl.pc \in {"reserve"} \cup HandOver, dl.cand = c
        PROVE cand'[c].st = "ACTIVE" /\ (dl.pc \in HandOver => deferred'[c] = "NO")
    BY <1>1, <1>3, <1>5, <2>1 DEF Held, Sent
  <2>2. ASSUME dl.pc \in HandOver, dl.cand # c,
               cand'[dl.cand].st \in {"NEW", "SUCCEEDED", "FAILED"}
        PROVE deferred'[dl.cand] = "NO"
    BY <1>1, <1>5, <1>9, <2>2 DEF Held, Sent, HandOver
  <2>. QED BY <1>1, <1>5, <1>7, <2>1, <2>2 DEF Sent, ShareRow
<1>16. SiblingsKnown' BY <1>1, <1>11 DEF Held, SiblingsKnown, RowsIn, Judging
<1>17. VerdictStillHolds' BY <1>1, <1>11 DEF Held, VerdictStillHolds, RowsIn, Judging
<1>. QED BY <1>6, <1>12, <1>13, <1>14, <1>15, <1>16, <1>17 DEF Held

\* A row that fails at the ceiling has had no file sent, and nobody judges it.
LEMMA SelectFolderCeilingMoves ==
  ASSUME IInv, Owned, Held, SelectFolderCeiling PROVE Owned' /\ Held'
<1> DEFINE c == sel.cand
           j == sel.job
<1>1. /\ sel.pc = "reserve" /\ deferred[c] = "OLD" /\ UNCHANGED <<tr, deferred, dl>>
      /\ sel' = SelIdle /\ TerminalCandidateAndAdvance(c, j, "FAILED", "DOWNLOADING", "SELECTING", "NO")
  BY DEF SelectFolderCeiling, FailCandidateAndAdvance
<1>2. TicksStay BY <1>1 DEF TicksStay, SelIdle
<1>3. CASE ~(cand[c].st = "ACTIVE" /\ state[j] = "DOWNLOADING")
  BY <1>1, <1>2, <1>3, QuietMoves DEF TerminalCandidateAndAdvance
<1>4. CASE cand[c].st = "ACTIVE" /\ state[j] = "DOWNLOADING"
  <2>1. cand' = [cand EXCEPT ![c].st = "FAILED"] /\ state' = [state EXCEPT ![j] = "SELECTING"]
    BY <1>1, <1>4 DEF TerminalCandidateAndAdvance
  <2>2. c \in Candidates /\ j \in Jobs BY <1>1, SelBusy DEF IInv, SelHolds
  <2>3. cand[c] \in [st : {"NEW", "ACTIVE", "SUCCEEDED", "FAILED"}, job : Jobs, peer : Peers]
    BY <1>4, <2>2, RowShape DEF IInv
  <2>4. /\ cand'[c].st = "FAILED" /\ cand'[c].peer = cand[c].peer
        /\ \A d \in Candidates \ {c} : cand'[d] = cand[d]
    BY <2>1, <2>2, <2>3 DEF IInv, TypeOK
  <2>5. \A k \in Jobs : state'[k] = IF k = j THEN "SELECTING" ELSE state[k] BY <2>1 DEF IInv, TypeOK
  <2>6. Owned'
    <3>1. FreeHasNoRows' BY <1>1, <2>4 DEF Owned, FreeHasNoRows
    <3>2. TriedIsWhole' BY <1>1, <1>4, <2>4 DEF Owned, TriedIsWhole, RowsIn
    <3>. QED BY <3>1, <3>2 DEF Owned
  <2>7. DlKeeps
    <3>1. dl.pc \in Judging \cup HandOver => dl.cand # c BY <1>1, <1>4 DEF Held, Waited, Sent, ShareRow
    <3>2. dl.pc # "idle" => dl.job \in Jobs BY DlBusy DEF IInv
    <3>3. dl.cand # None => dl.cand \in Candidates BY HeldType DEF IInv
    <3>4. dl.pc # "idle" => (state[dl.job] \notin Past => state'[dl.job] \notin Past) BY <2>5, <3>2 DEF Past
    <3>5. sel'.pc # "reserve" BY <1>1 DEF SelIdle
    <3>6. ASSUME dl.pc \in Judging \cup HandOver, dl.cand # None
          PROVE cand'[dl.cand] = cand[dl.cand]
      BY <2>4, <3>1, <3>3, <3>6
    <3>7. dl.pc # "idle" /\ state'[dl.job] = "DOWNLOADING" => state[dl.job] = "DOWNLOADING" BY <2>5, <3>2
    <3>. QED BY <1>1, <3>4, <3>5, <3>6, <3>7 DEF DlKeeps
  <2>8. SelKeeps BY <1>1 DEF SelKeeps, SelIdle
  <2>. QED BY <1>1, <1>2, <2>6, <2>7, <2>8, HeldKeeps DEF TicksStay
<1>. QED BY <1>3, <1>4

LEMMA FileTouched ==
  ASSUME IInv, NEW c \in Candidates, Enqueues(c), NEW d \in Candidates, NEW g \in Files
  PROVE tr'[d][g] = tr[d][g] \/ (d = c /\ tr[d][g] \in LiveTransfer \cup {"NONE"})
<1>1. tr \in [Candidates -> [Files -> TransferStates]] BY DEF IInv, TypeOK
<1>2. ASSUME NEW f \in Files, NEW to, EnqueueIntent(c, f), tr' = [tr EXCEPT ![c][f] = to]
      PROVE tr'[d][g] = tr[d][g] \/ (d = c /\ tr[d][g] \in LiveTransfer \cup {"NONE"})
  BY <1>1, <1>2 DEF EnqueueIntent
<1>. QED BY <1>2 DEF Enqueues, EnqueueFile

LEMMA SelectTopUpMoves ==
  ASSUME IInv, Owned, Held, SelectTopUp
  PROVE Owned' /\ Held'
<1>1. /\ sel.cand \in Candidates /\ Enqueues(sel.cand) /\ sel'.pc # "reserve"
      /\ UNCHANGED <<state, cand, deferred, dl>>
  BY SelectTopUpParts DEF BesidesTransfers, SelIdle, HandOver
<1>2. Owned' BY <1>1, OwnedSends
<1>3. ASSUME dl.pc \in Judging, cand[dl.cand].st = "ACTIVE", state[dl.job] = "DOWNLOADING", NEW g \in Files
      PROVE \/ tr'[dl.cand][g] = tr[dl.cand][g]
            \/ dl.pc = "siblings" /\ tr[dl.cand][g] \in LiveTransfer
  <2>1. dl.cand \in Candidates BY <1>3 DEF IInv, DlHolds, Judging
  <2>2. tr[dl.cand][g] # "NONE" BY <1>3, <2>1 DEF Owned, TriedIsWhole, RowsIn
  <2>3. dl.pc # "siblings" => tr[dl.cand][g] \notin LiveTransfer
    BY <1>3 DEF Held, VerdictStillHolds, RowsIn, Judging, LiveTransfer
  <2>4. tr'[dl.cand][g] = tr[dl.cand][g] \/ tr[dl.cand][g] \in LiveTransfer \cup {"NONE"}
    BY <1>1, <2>1, FileTouched
  <2>. QED BY <2>2, <2>3, <2>4
<1>4. DlKeeps BY <1>1, <1>3 DEF DlKeeps
<1>5. SelKeeps BY <1>1 DEF SelKeeps
<1>. QED BY <1>1, <1>2, <1>4, <1>5, HeldKeeps

LEMMA SelectDeferMoves ==
  ASSUME IInv, Owned, Held, SelectDefer PROVE Owned' /\ Held'
<1>1. /\ sel.pc = "reserve" /\ sel' = SelIdle /\ UNCHANGED <<state, cand, tr, dl>>
      /\ DeferCandidate(sel.cand)
  BY DEF SelectDefer
<1>2. sel.cand \in Candidates BY <1>1 DEF IInv, SelHolds
<1>3. \A d \in Candidates : d # sel.cand => deferred'[d] = deferred[d] BY <1>1 DEF IInv, TypeOK, DeferCandidate
<1>4. Owned' BY <1>1, OwnedStays
<1>5. dl.pc \in HandOver => dl.cand \in Candidates BY DEF IInv, DlHolds, HandOver
<1>6. dl.pc \in HandOver /\ dl.cand = sel.cand => cand[dl.cand].st \in {"ACTIVE", "FREE"} BY <1>1 DEF Held, Sent, ShareRow
<1>7. sel'.pc # "reserve" BY <1>1 DEF SelIdle
<1>8. DlKeeps BY <1>1, <1>3, <1>5, <1>6, <1>7 DEF DlKeeps
<1>9. SelKeeps BY <1>7 DEF SelKeeps
<1>. QED BY <1>1, <1>4, <1>7, <1>8, <1>9, HeldKeeps

LEMMA SelectingMoves ==
  ASSUME IInv, Owned, Held, Selecting PROVE Owned' /\ Held'
<1>1. ASSUME NEW j \in Jobs, SelectRead(j) PROVE Owned' /\ Held'
  <2>1. /\ UNCHANGED <<state, cand, tr, dl>> /\ sel'.pc = "next"
        /\ deferred' = [c \in Candidates |-> IF deferred[c] = "NO" THEN "NO" ELSE "OLD"]
    BY <1>1 DEF SelectRead, SelIdle
  <2>. QED BY <2>1, RowsStay DEF TicksStay
<1>2. CASE SelectReserve
  <2>1. /\ UNCHANGED <<state, cand, tr, dl>> /\ sel'.pc = "topup"
        /\ deferred' = [deferred EXCEPT ![sel.cand] = "NO"]
    BY <1>2, SelBusy DEF IInv, SelectReserve, ReserveFolder
  <2>2. \A c \in Candidates : deferred[c] = "NO" => deferred'[c] = "NO" BY <2>1 DEF IInv, TypeOK
  <2>. QED BY <2>1, <2>2, RowsStay DEF TicksStay
<1>3. CASE (\E c \in Candidates : SelectNext(c)) \/ SelectNoneLeft \/ SelectSkip \/ SelectStop
  <2>1. UNCHANGED <<state, cand, tr, deferred, dl>> BY <1>3 DEF SelectNext, SelectNoneLeft, SelectSkip, SelectStop, tables
  <2>2. CASE (\E c \in Candidates : SelectNext(c)) \/ SelectNoneLeft
    <3>1. sel.pc # "idle" BY <2>2 DEF SelectNext, SelectNoneLeft
    <3>2. sel'.pc \in {"activate", "exhausted"} BY <2>2, <3>1, SelBusy DEF IInv, SelectNext, SelectNoneLeft
    <3>. QED BY <2>1, <3>2, QuietMoves DEF TicksStay
  <2>3. CASE SelectSkip \/ SelectStop BY <2>1, <2>3, QuietMoves DEF SelectSkip, SelectStop, SelIdle, TicksStay
  <2>. QED BY <1>3, <2>2, <2>3
<1>4. CASE SelectExhausted \/ SelectExpired
  <2>1. TicksStay /\ sel.job \in Jobs BY <1>4, SelBusy DEF IInv, SelectExhausted, SelectExpired, TicksStay, SelIdle
  <2>2. CASE MarkJobFailed(sel.job) /\ UNCHANGED <<cand, tr, deferred>> BY <2>1, <2>2, FailedMoves, JobSteps
  <2>3. ASSUME NEW r, ResetJobToWanted(sel.job, r) PROVE Owned' /\ Held'
    <3>1. \A k \in Jobs : JobMoves(k) BY <2>1, <2>3 DEF IInv, TypeOK, ResetJobToWanted, JobMoves, Past
    <3>2. \/ UNCHANGED <<cand, tr, deferred>>
          \/ \E J \in SUBSET Jobs : DeleteCandidates(J)
      BY <2>1, <2>3 DEF ResetJobToWanted
    <3>. QED BY <2>1, <3>1, <3>2, JobSteps
  <2>. QED BY <1>4, <2>2, <2>3 DEF SelectExhausted, SelectExpired
<1>. QED BY <1>1, <1>2, <1>3, <1>4, SelectActivateMoves, SelectFolderCeilingMoves, SelectDeferMoves,
            SelectTopUpMoves DEF Selecting

-----------------------------------------------------------------------------
(* Downloading *)

\* Rows settle where they are, or stay.
LEMMA OwnedSettles ==
  ASSUME IInv, Owned, UNCHANGED cand, NEW c \in Candidates, cand[c].st # "FREE",
         \A d \in Candidates \ {c} : tr'[d] = tr[d],
         \A f \in Files : \/ tr'[c][f] = tr[c][f]
                          \/ tr[c][f] \in LiveTransfer /\ tr'[c][f] # "NONE"
  PROVE Owned'
<1>1. FreeHasNoRows' BY DEF Owned, FreeHasNoRows
<1>2. TriedIsWhole' BY DEF Owned, TriedIsWhole, RowsIn, LiveTransfer
<1>. QED BY <1>1, <1>2 DEF Owned

LEMMA ReconcileMoves ==
  ASSUME IInv, Owned, Held, NEW c \in Candidates, NEW f \in Files,
         \/ \E to \in {"PENDING", "COMPLETED", "ERRORED", "CANCELLED"} : Reconcile(c, f, to)
         \/ ReconcilePark(c, f)
  PROVE Owned' /\ Held'
<1>1. PICK to \in {"PENDING", "COMPLETED", "ERRORED", "CANCELLED"} :
        tr' = [tr EXCEPT ![c][f] = to]
  BY DEF Reconcile, ReconcilePark
<1>2. /\ dl.pc = "idle" /\ tr[c][f] = "SENT" /\ cand[c].st # "FREE"
      /\ UNCHANGED <<cand, deferred, sel, dl>>
      /\ UNCHANGED state \/ AdvanceJobStateFrom(cand[c].job, "DOWNLOADING", "PARKED")
  BY DEF Reconcile, ReconcilePark, Writable, ticks
<1>3. /\ \A d \in Candidates \ {c} : tr'[d] = tr[d]
      /\ \A g \in Files : tr'[c][g] = IF g = f THEN to ELSE tr[c][g]
  BY <1>1 DEF IInv, TypeOK
<1>4. Owned' BY <1>2, <1>3, OwnedSettles DEF LiveTransfer
<1>5. \A j \in Jobs : state'[j] = "DOWNLOADING" => state[j] = "DOWNLOADING"
  BY <1>2, RowShape DEF IInv, TypeOK, AdvanceJobStateFrom
<1>6. SelKeeps
  <2>. SUFFICES ASSUME sel.pc = "reserve", deferred[sel.cand] = "OLD",
                       state'[sel.job] = "DOWNLOADING", cand[sel.cand].st = "ACTIVE"
                PROVE state[sel.job] = "DOWNLOADING" /\ tr'[sel.cand] = tr[sel.cand]
    BY <1>2 DEF SelKeeps
  <2>1. sel.job \in Jobs /\ sel.cand \in Candidates BY SelBusy DEF IInv, SelHolds
  <2>2. state[sel.job] = "DOWNLOADING" BY <1>5, <2>1
  <2>3. tr[sel.cand][f] = "PENDING" BY <2>2 DEF Held, Waited, RowsIn
  <2>. QED BY <1>2, <1>3, <2>1, <2>2, <2>3
<1>7. DlKeeps BY <1>2 DEF DlKeeps
<1>. QED BY <1>2, <1>4, <1>6, <1>7, HeldKeeps

LEMMA ResolveLookMoves ==
  ASSUME IInv, Owned, Held, NEW c \in Candidates, ResolveLook(c) PROVE Owned' /\ Held'
<1> DEFINE pend == RowsIn(c, {"PENDING"})
           sent == RowsIn(c, {"SENT"})
           failed == RowsIn(c, {"ERRORED", "CANCELLED"})
<1>1. /\ dl.pc = "resolve" /\ c \in ActiveCandidates(dl.job)
      /\ UNCHANGED <<state, cand, tr, deferred, sel>>
      /\ dl' = IF failed # {}
               THEN [dl EXCEPT !.pc = IF pend \cup sent = {} THEN "failed" ELSE "siblings",
                               !.cand = c, !.pend = pend, !.sent = sent]
               ELSE IF pend \cup sent = {} /\ RowsIn(c, {"COMPLETED"}) # {}
               THEN [dl EXCEPT !.pc = "done", !.cand = c]
               ELSE DlIdle
  BY DEF ResolveLook, tables
<1>2. Owned' BY <1>1, OwnedStays
<1>3. CASE dl' = DlIdle BY <1>1, <1>2, <1>3, QuietMoves DEF TicksStay
<1>4. CASE dl' # DlIdle
  <2>1. /\ dl'.pc \in Judging /\ dl'.cand = c /\ dl'.job = dl.job
        /\ dl'.pc = "siblings" => dl'.pend = pend /\ dl'.sent = sent
        /\ dl'.pc = "failed" => pend \cup sent = {}
        /\ dl'.pc = "done" => failed = {} /\ pend \cup sent = {}
    BY <1>1, <1>4, DlBusy DEF IInv, Judging
  <2>2. failed # {} \/ RowsIn(c, {"COMPLETED"}) # {} BY <1>1, <1>4
  <2>3. dl.job \in Jobs /\ cand[c].st = "ACTIVE" /\ cand[c].job = dl.job
    BY <1>1, DlBusy DEF IInv, ActiveCandidates, CandidatesOf
  <2>4. DlJob' BY <1>1, <2>1 DEF Held, DlJob
  <2>5. Judged' BY <1>1, <2>1, <2>3 DEF Judged
  <2>6. Waited'
    <3>. SUFFICES ASSUME sel.pc = "reserve", deferred[sel.cand] = "OLD", sel.cand = c,
                         state[sel.job] = "DOWNLOADING"
                  PROVE FALSE
      BY <1>1, <2>1 DEF Held, Waited, RowsIn
    <3>1. \A f \in Files : tr[c][f] = "PENDING" BY <2>3 DEF Held, Waited, RowsIn
    <3>. QED BY <2>2, <3>1 DEF RowsIn
  <2>7. Sent' BY <2>1 DEF Sent, Judging, HandOver
  <2>8. SiblingsKnown' BY <1>1, <2>1 DEF SiblingsKnown, RowsIn, LiveTransfer
  <2>9. VerdictStillHolds'
    <3>1. \A f \in Files : tr[c][f] \in TransferStates /\ tr[c][f] # "NONE"
      BY <2>3 DEF IInv, TypeOK, Owned, TriedIsWhole, RowsIn
    <3>2. dl'.pc = "done" => \A f \in Files : tr[c][f] = "COMPLETED" BY <2>1, <3>1 DEF RowsIn, TransferStates, LiveTransfer
    <3>3. dl'.pc = "failed" => \A f \in Files : tr[c][f] \notin LiveTransfer BY <2>1 DEF RowsIn, LiveTransfer
    <3>. QED BY <1>1, <2>1, <3>2, <3>3 DEF VerdictStillHolds, RowsIn
  <2>. QED BY <1>2, <2>4, <2>5, <2>6, <2>7, <2>8, <2>9 DEF Held
<1>. QED BY <1>3, <1>4

LEMMA ResolveSiblingsMoves ==
  ASSUME IInv, Owned, Held, NEW S \in SUBSET dl.sent, ResolveSiblings(S) PROVE Owned' /\ Held'
<1> DEFINE c == dl.cand
<1>1. /\ dl.pc = "siblings" /\ UNCHANGED <<state, cand, deferred, sel>>
      /\ tr' = [tr EXCEPT ![c] = [f \in Files |->
           IF f \in dl.pend \cup S /\ Writable(c, f) THEN "CANCELLED" ELSE tr[c][f]]]
      /\ dl' = IF dl.sent = {} THEN [dl EXCEPT !.pc = "failed", !.pend = {}] ELSE DlIdle
  BY DEF ResolveSiblings
<1>2. c \in Candidates BY <1>1 DEF IInv, DlHolds
<1>3. /\ \A d \in Candidates \ {c} : tr'[d] = tr[d]
      /\ \A f \in Files : tr'[c][f] =
           IF f \in dl.pend \cup S /\ Writable(c, f) THEN "CANCELLED" ELSE tr[c][f]
  BY <1>1, <1>2 DEF IInv, TypeOK
<1>4. Owned'
  <2>1. CASE cand[c].st # "FREE" BY <1>1, <1>2, <1>3, <2>1, OwnedSettles DEF Writable
  <2>2. CASE cand[c].st = "FREE"
    <3>1. \A f \in Files : tr'[c][f] = tr[c][f] BY <1>3, <2>2 DEF Writable
    <3>2. tr' = tr BY <1>1, <1>2, <2>2 DEF Writable, IInv, TypeOK
    <3>. QED BY <1>1, <3>2, OwnedStays
  <2>. QED BY <2>1, <2>2
<1>5. ASSUME sel.pc = "reserve", deferred[sel.cand] = "OLD", state[sel.job] = "DOWNLOADING",
             cand[sel.cand].st = "ACTIVE"
      PROVE sel.cand # c
  BY <1>1, <1>5 DEF Held, Waited, Judging
<1>6. SelKeeps
  <2>1. sel.pc = "reserve" => sel.cand \in Candidates BY DEF IInv, SelHolds
  <2>. QED BY <1>1, <1>3, <1>5, <2>1 DEF SelKeeps
<1>7. CASE dl' = DlIdle
  <2>1. DlKeeps BY <1>1, <1>2 DEF DlKeeps, LiveTransfer, Writable, Past
  <2>2. dl'.pc = "idle" BY <1>7 DEF DlIdle
  <2>3. Held' BY <1>1, <1>6, <2>1, <2>2, HeldKeeps
  <2>. QED BY <1>4, <2>3
<1>8. CASE dl' # DlIdle
  <2>1. dl'.pc = "failed" /\ dl'.cand = c /\ dl'.job = dl.job /\ dl.sent = {} BY <1>1, <1>8, DlBusy DEF IInv
  <2>2. DlJob' BY <1>1, <2>1 DEF Held, DlJob
  <2>3. Judged' BY <1>1, <2>1 DEF Held, Judged, Judging
  <2>4. Waited' BY <1>1, <1>5, <1>6, <2>1 DEF Held, Waited, SelKeeps, RowsIn, Judging
  <2>5. Sent' BY <2>1 DEF Sent, HandOver
  <2>6. SiblingsKnown' BY <2>1 DEF SiblingsKnown
  <2>7. VerdictStillHolds'
    <3>. SUFFICES ASSUME cand[c].st = "ACTIVE", state[dl.job] = "DOWNLOADING", NEW f \in Files
                  PROVE tr'[c][f] \notin LiveTransfer
      BY <1>1, <2>1 DEF VerdictStillHolds, RowsIn
    <3>1. cand[c].job = dl.job BY <1>2, NoneAssumption DEF IInv, HeldRows, HeldBy
    <3>2. tr[c][f] \in LiveTransfer => f \in dl.pend BY <1>1, <2>1 DEF Held, SiblingsKnown, RowsIn
    <3>. QED BY <1>3, <3>1, <3>2 DEF Writable, LiveTransfer
  <2>. QED BY <1>4, <2>2, <2>3, <2>4, <2>5, <2>6, <2>7 DEF Held
<1>. QED BY <1>7, <1>8

\* The tick ends the candidate, the job, or the wait, and holds nothing any more.
LEMMA DownloadEndsMoves ==
  ASSUME IInv, Owned, Held, ResolveFailed \/ ResolveDone \/ TopUpFolderCeiling PROVE Owned' /\ Held'
<1>1. /\ dl.pc # "idle" /\ dl.job \in Jobs /\ dl.cand \in Candidates /\ HeldBy(dl.cand, dl.job)
      /\ dl' = DlIdle /\ UNCHANGED <<tr, deferred, sel>>
  BY DlBusy DEF IInv, DlHolds, HeldRows, ResolveFailed, ResolveDone, TopUpFolderCeiling
<1>2. CASE UNCHANGED cand /\ AdvanceJobStateFrom(dl.job, "DOWNLOADING", "IMPORTING")
  <2>1. \A k \in Jobs : state'[k] = "DOWNLOADING" => state[k] = "DOWNLOADING"
    BY <1>1, <1>2 DEF IInv, TypeOK, AdvanceJobStateFrom
  <2>2. SelKeeps BY <1>1, <1>2, <2>1, SelBusy DEF IInv, SelKeeps
  <2>3. Waited' BY <1>1, <1>2, <2>2 DEF Held, Waited, SelKeeps, RowsIn, DlIdle, Judging
  <2>4. Owned' BY <1>1, <1>2, OwnedStays
  <2>. QED BY <1>1, <2>3, <2>4 DEF Held, HandOver, DlIdle, DlJob, Judged, Judging, Sent, SiblingsKnown, VerdictStillHolds
<1>3. ASSUME NEW st \in {"SUCCEEDED", "FAILED"}, NEW r, NEW to \in {"SELECTING", "NOT_IMPORTED"},
             TerminalCandidateAndAdvance(dl.cand, dl.job, st, "DOWNLOADING", to, r)
      PROVE Owned' /\ Held'
  <2>1. CASE ~(cand[dl.cand].st = "ACTIVE" /\ state[dl.job] = "DOWNLOADING")
    BY <1>1, <1>3, <2>1, QuietMoves DEF TerminalCandidateAndAdvance, TicksStay
  <2>2. CASE cand[dl.cand].st = "ACTIVE" /\ state[dl.job] = "DOWNLOADING"
    <3>1. cand' = [cand EXCEPT ![dl.cand].st = st] /\ state' = [state EXCEPT ![dl.job] = to]
      BY <1>3, <2>2 DEF TerminalCandidateAndAdvance
    <3>2. cand[dl.cand] \in [st : {"NEW", "ACTIVE", "SUCCEEDED", "FAILED"}, job : Jobs, peer : Peers]
      BY <1>1, <2>2, RowShape DEF IInv
    <3>3. /\ cand'[dl.cand].st = st /\ cand'[dl.cand].peer = cand[dl.cand].peer
          /\ \A d \in Candidates \ {dl.cand} : cand'[d] = cand[d]
      BY <1>1, <3>1, <3>2 DEF IInv, TypeOK
    <3>4. \A k \in Jobs : state'[k] = IF k = dl.job THEN to ELSE state[k] BY <3>1 DEF IInv, TypeOK
    <3>5. Owned'
      <4>1. FreeHasNoRows' BY <1>1, <3>3 DEF Owned, FreeHasNoRows
      <4>2. TriedIsWhole' BY <1>1, <2>2, <3>3 DEF Owned, TriedIsWhole, RowsIn
      <4>. QED BY <4>1, <4>2 DEF Owned
    <3>6. sel.pc = "reserve" => sel.job \in Jobs /\ sel.cand \in Candidates BY SelBusy DEF IInv, SelHolds
    <3>7. Waited' BY <1>1, <3>3, <3>4, <3>6 DEF Held, Waited, RowsIn, DlIdle, Judging
    <3>. QED BY <1>1, <3>5, <3>7 DEF Held, HandOver, DlIdle, DlJob, Judged, Judging, Sent, SiblingsKnown, VerdictStillHolds
  <2>. QED BY <2>1, <2>2
<1>. QED BY <1>2, <1>3 DEF ResolveFailed, ResolveDone, TopUpFolderCeiling, SucceedCandidateAndAdvance,
            CooldownCandidateAndAdvance, FailCandidateAndAdvance

LEMMA TopUpMoves ==
  ASSUME IInv, Owned, Held,
         \/ \E j \in Jobs : TopUpRead(j)
         \/ TopUpReserve \/ TopUpDefer \/ TopUpSend
  PROVE Owned' /\ Held'
<1>1. ASSUME NEW j \in Jobs, TopUpRead(j) PROVE Owned' /\ Held'
  <2>1. PICK c \in ActiveCandidates(j) :
          dl' = [DlIdle EXCEPT !.pc = "reserve", !.job = j, !.cand = c, !.pend = RowsIn(c, {"PENDING"})]
    BY <1>1 DEF TopUpRead
  <2>2. /\ state[j] = "DOWNLOADING" /\ UNCHANGED <<state, cand, tr, deferred, sel>>
        /\ dl'.pc = "reserve" /\ dl'.job = j /\ dl'.cand = c /\ cand[c].st = "ACTIVE"
    BY <1>1, <2>1 DEF TopUpRead, tables, DlIdle, ActiveCandidates, CandidatesOf
  <2>3. Owned' BY <2>2, OwnedStays
  <2>. QED BY <2>2, <2>3 DEF Held, DlJob, Judged, Waited, Sent, SiblingsKnown, VerdictStillHolds,
             Judging, ShareRow, RowsIn, HandOver
<1>2. CASE TopUpReserve
  <2>1. /\ dl.pc = "reserve" /\ UNCHANGED <<state, cand, tr, sel>>
        /\ deferred' = [deferred EXCEPT ![dl.cand] = "NO"]
        /\ dl'.pc = "topup" /\ dl'.job = dl.job /\ dl'.cand = dl.cand
    BY <1>2, DlBusy DEF IInv, TopUpReserve, ReserveFolder
  <2>2. \A c \in Candidates : deferred'[c] = IF c = dl.cand THEN "NO" ELSE deferred[c] BY <2>1 DEF IInv, TypeOK
  <2>3. dl.cand \in Candidates /\ (sel.pc = "reserve" => sel.cand \in Candidates) BY <2>1 DEF IInv, DlHolds, SelHolds
  <2>4. Owned' BY <2>1, OwnedStays
  <2>5. Waited' BY <2>1, <2>2, <2>3 DEF Held, Waited, RowsIn, Judging
  <2>6. Sent' BY <2>1, <2>2, <2>3 DEF Held, Sent, ShareRow, HandOver
  <2>. QED BY <2>1, <2>4, <2>5, <2>6 DEF Held, HandOver, DlJob, Judged, SiblingsKnown, VerdictStillHolds, Judging
<1>3. CASE TopUpDefer
  <2>1. /\ dl.pc = "reserve" /\ UNCHANGED <<state, cand, tr, sel>> /\ dl' = DlIdle
        /\ DeferCandidate(dl.cand)
    BY <1>3 DEF TopUpDefer
  <2>2. \A c \in Candidates : deferred'[c] = "OLD" => deferred[c] = "OLD" BY <2>1 DEF IInv, TypeOK, DeferCandidate
  <2>3. sel.pc = "reserve" => sel.cand \in Candidates BY DEF IInv, SelHolds
  <2>4. Owned' BY <2>1, OwnedStays
  <2>5. Waited' BY <2>1, <2>2, <2>3 DEF Held, Waited, RowsIn, Judging, DlIdle
  <2>. QED BY <2>1, <2>4, <2>5 DEF Held, HandOver, DlIdle, DlJob, Judged, Judging, Sent, SiblingsKnown, VerdictStillHolds
<1>4. CASE TopUpSend
  <2>1. /\ dl.pc \in HandOver /\ dl.cand \in Candidates /\ Enqueues(dl.cand)
        /\ UNCHANGED <<state, cand, deferred, sel>>
        /\ \/ dl'.pc = "idle"
           \/ dl'.pc \in HandOver /\ dl'.job = dl.job /\ dl'.cand = dl.cand
    BY <1>4, TopUpSendParts DEF BesidesTransfers, DlIdle
  <2>2. sel.pc = "reserve" => sel.cand \in Candidates BY DEF IInv, SelHolds
  <2>3. Owned' BY <2>1, OwnedSends
  <2>4. \A d \in Candidates : d # dl.cand => tr'[d] = tr[d]
    BY <2>1 DEF Enqueues, EnqueueFile, IInv, TypeOK
  <2>5. SelKeeps BY <2>1, <2>2, <2>4 DEF SelKeeps, Held, Sent, ShareRow
  <2>6. DlKeeps BY <2>1 DEF DlKeeps, Judging, HandOver
  <2>7. dl.pc # "siblings" BY <2>1 DEF HandOver
  <2>. QED BY <2>1, <2>3, <2>5, <2>6, <2>7, HeldKeeps
<1>. QED BY <1>1, <1>2, <1>3, <1>4

LEMMA DownloadingMoves ==
  ASSUME IInv, Owned, Held, Downloading PROVE Owned' /\ Held'
<1>1. ASSUME NEW j \in Jobs, ResolveRead(j) PROVE Owned' /\ Held'
  <2>1. /\ state[j] = "DOWNLOADING" /\ UNCHANGED <<state, cand, tr, deferred, sel>>
        /\ dl'.pc = "resolve" /\ dl'.job = j
    BY <1>1 DEF ResolveRead, tables, DlIdle
  <2>2. Owned' BY <2>1, OwnedStays
  <2>. QED BY <2>1, <2>2 DEF Held, DlJob, Judged, Waited, Sent, SiblingsKnown, VerdictStillHolds,
             Judging, RowsIn, HandOver
<1>2. CASE DownloadStop BY <1>2, QuietMoves DEF DownloadStop, TicksStay, tables
<1>. QED BY <1>1, <1>2, ReconcileMoves, ResolveLookMoves, ResolveSiblingsMoves, DownloadEndsMoves,
            TopUpMoves DEF Downloading

-----------------------------------------------------------------------------
(* Every step *)

\* A hand-over writes transfer rows only.
LEMMA HandOverFrame ==
  ASSUME SelectTopUp \/ TopUpSend
  PROVE UNCHANGED <<state, retries, cand, latest, deferred, rejected, dis, imp, deleting>>
BY DEF SelectTopUp, SelectIntent, SelectRefused, SelectEnqueued, SelectAttach, SelectCompensate,
   TopUpSend, TopUpIntent, TopUpRefused, TopUpEnqueued, TopUpAttach, TopUpCompensate,
   RecordEnqueueIntent, EnqueueRefused, tables

\* A rejection is lifted or recorded for a job nobody is searching for.
LEMMA RejectedKeeps ==
  ASSUME IInv, Next, dis.pc # "idle", NEW p \in Peers, rejected[dis.job][p] \notin Permanent
  PROVE rejected'[dis.job][p] \notin Permanent
<1> DEFINE j == dis.job
<1>0. /\ TypeOK /\ j \in Jobs /\ state[j] \in Searched BY DisBusy DEF IInv, DisHolds
<1>1. ASSUME NEW J, NEW K, DeleteRejections(J, K) PROVE rejected'[j][p] \in {rejected[j][p], "NO"}
  BY <1>0, <1>1 DEF DeleteRejections
<1>2. ASSUME NEW c, NEW k, NEW st, NEW from \in SlotStates, NEW to, NEW r,
             k \in Jobs, TerminalCandidateAndAdvance(c, k, st, from, to, r)
      PROVE rejected'[j] = rejected[j]
  BY <1>0, <1>2 DEF TypeOK, TerminalCandidateAndAdvance, SlotStates, Searched, Undecided
<1>3. CASE Wanted BY <1>1, <1>3 DEF Wanted, SyncWanted, Permanent
<1>4. CASE Discovery
  <2>1. UNCHANGED rejected BY <1>4 DEF Discovery, DiscoveryRead, DiscoveryFilter, DiscoveryNoViable, DiscoveryExcluded,
       DiscoveryInsert, DiscoveryAdvance, DiscoveryAbort, tables
  <2>. QED BY <2>1
<1>5. CASE Selecting
  <2>1. CASE SelectFolderCeiling
    <3>1. sel.job \in Jobs BY <1>0, <2>1, SelBusy DEF SelectFolderCeiling
    <3>. QED BY <1>2, <2>1, <3>1 DEF SelectFolderCeiling, FailCandidateAndAdvance, SlotStates
  <2>2. CASE ~SelectFolderCeiling
    <3>1. UNCHANGED rejected
      BY <1>5, <2>2, HandOverFrame DEF Selecting, SelectRead, SelectNext, SelectNoneLeft, SelectExhausted,
         SelectExpired, SelectActivate, SelectSkip, SelectReserve, SelectDefer, SelectStop, tables
    <3>. QED BY <3>1
  <2>. QED BY <2>1, <2>2
<1>6. CASE Downloading
  <2>1. CASE ResolveFailed \/ ResolveDone \/ TopUpFolderCeiling
    <3>1. dl.job \in Jobs BY <1>0, <2>1, DlBusy DEF ResolveFailed, ResolveDone, TopUpFolderCeiling
    <3>. QED BY <1>2, <2>1, <3>1 DEF ResolveFailed, ResolveDone, TopUpFolderCeiling,
           SucceedCandidateAndAdvance, CooldownCandidateAndAdvance, FailCandidateAndAdvance, SlotStates
  <2>2. CASE ~(ResolveFailed \/ ResolveDone \/ TopUpFolderCeiling)
    <3>1. UNCHANGED rejected
      BY <1>6, <2>2, HandOverFrame DEF Downloading, Reconcile, ReconcilePark, ResolveRead, ResolveLook,
         ResolveSiblings, TopUpRead, TopUpReserve, TopUpDefer, DownloadStop, tables
    <3>. QED BY <3>1
  <2>. QED BY <2>1, <2>2
<1>7. CASE Importing
  <2>1. CASE \/ ImportDone \/ ImportNotImported \/ ImportRejected
             \/ ImportStuck \/ ImportRefused \/ ImportUnconfirmed
    <3>1. imp.job \in Jobs BY <1>0, <2>1, ImpBusy DEF ImportDone, ImportNotImported, ImportRejected, ImportStuck,
         ImportRefused, ImportUnconfirmed
    <3>. QED BY <1>2, <2>1, <3>1 DEF ImportDone, ImportNotImported, ImportRejected, ImportStuck,
           ImportRefused, ImportUnconfirmed, SucceedCandidateAndAdvance, FailCandidateAndAdvance,
           RejectCandidateAndAdvance, SlotStates
  <2>2. CASE \/ \E k \in Jobs : ImportRead(k)
             \/ \E c \in Candidates : ImportCandidate(c)
             \/ ImportStop
    BY <2>2 DEF ImportRead, ImportCandidate, ImportStop, tables
  <2>. QED BY <1>7, <2>1, <2>2 DEF Importing
<1>8. ASSUME NEW k \in Jobs,
             \/ Cancel(k) \/ PrepareDelete(k) \/ DeleteJob(k) \/ DeleteGivesUp(k)
             \/ RetryFailedJob(k) \/ RetryManualJob(k) \/ RetryRefusedJob(k)
             \/ ForceSearch(k)
             \/ \E c \in Candidates, q \in Peers : CreateManualJob(k, c, q)
      PROVE rejected'[j][p] \notin Permanent
  <2>1. CASE DeleteJob(k) \/ RetryFailedJob(k) \/ ForceSearch(k)
    BY <1>1, <2>1 DEF DeleteJob, RetryFailedJob, ForceSearch, Permanent
  <2>2. CASE RetryRefusedJob(k) BY <1>0, <2>2 DEF RetryRefusedJob, TypeOK, Searched, Undecided
  <2>3. CASE ~(DeleteJob(k) \/ RetryFailedJob(k) \/ ForceSearch(k) \/ RetryRefusedJob(k))
    <3>1. UNCHANGED rejected
      BY <1>8, <2>3 DEF Cancel, PrepareDelete, DeleteGivesUp, RetryManualJob, CreateManualJob, tables
    <3>. QED BY <3>1
  <2>. QED BY <2>1, <2>2, <2>3
<1>. QED BY <1>3, <1>4, <1>5, <1>6, <1>7, <1>8 DEF Next, User

LEMMA PeersKeep ==
  ASSUME IInv, PeersHonoured, [Next]_vars PROVE PeersHonoured'
<1>0. dis.pc # "idle" => dis \in [pc : {"search", "insert", "advance"}, job : LidarrJobs,
                                  retries : Retries, peers : SUBSET Peers]
  BY DisBusy DEF IInv
<1>1. CASE dis' = dis
  <2>1. CASE Next BY <1>0, <1>1, <2>1, RejectedKeeps DEF PeersHonoured
  <2>2. CASE UNCHANGED vars BY SMTT(40), <2>2 DEF vars, tables, ticks, PeersHonoured
  <2>. QED BY <2>1, <2>2
<1>2. CASE dis' # dis
  <2>1. Discovery BY <1>2, HandOverFrame DEF Next, vars, ticks, Wanted, SyncWanted, Selecting, SelectRead, SelectNext,
       SelectNoneLeft, SelectExhausted, SelectExpired, SelectActivate, SelectSkip, SelectReserve,
       SelectDefer, SelectFolderCeiling, SelectStop, Downloading, Reconcile,
       ReconcilePark, ResolveRead, ResolveLook, ResolveSiblings, ResolveFailed, ResolveDone,
       TopUpRead, TopUpReserve, TopUpDefer, TopUpFolderCeiling, DownloadStop, Importing, ImportRead, ImportCandidate, ImportDone, ImportNotImported, ImportRejected,
       ImportStuck, ImportRefused, ImportUnconfirmed, ImportStop, ImportEnd, User, UserUnchanged,
       Cancel, PrepareDelete, DeleteJob, DeleteGivesUp, RetryFailedJob, RetryManualJob,
       RetryRefusedJob, ForceSearch, CreateManualJob
  <2>2. ASSUME NEW S \in SUBSET Peers, DiscoveryFilter(S) PROVE PeersHonoured'
    BY <1>0, <2>2 DEF DiscoveryFilter, PeersHonoured, tables
  <2>3. CASE ~\E S \in SUBSET Peers : DiscoveryFilter(S)
    <3>1. dis'.pc # "insert" BY <1>0, <2>1, <2>3 DEF Discovery, DiscoveryRead, DiscoveryNoViable, DiscoveryExcluded,
         DiscoveryInsert, DiscoveryAdvance, DiscoveryAbort, DisIdle
    <3>. QED BY <3>1 DEF PeersHonoured
  <2>. QED BY SMTT(40), <2>2, <2>3
<1>. QED BY <1>1, <1>2

LEMMA RowInvStep ==
  ASSUME Inv, RowInv, [Next]_vars PROVE RowInv'
<1>1. IInv /\ Owned /\ Held BY DEF Inv, RowInv, Owned, Held
<1>2. Owned' /\ Held'
  <2>1. CASE Next BY <1>1, <2>1, WantedMoves, DiscoveryMoves, SelectingMoves, DownloadingMoves, ImportingMoves,
       UserMoves DEF Next
  <2>2. CASE UNCHANGED vars BY <1>1, <2>2, QuietMoves DEF vars, tables, ticks, TicksStay
  <2>. QED BY <2>1, <2>2
<1>3. PeersHonoured' BY <1>1, PeersKeep DEF RowInv
<1>. QED BY <1>2, <1>3 DEF RowInv, Owned, Held

LEMMA InitRowInv ==
  ASSUME Init PROVE RowInv
<1>1. Owned BY DEF Init, Owned, FreeHasNoRows, TriedIsWhole, FreeCandidate
<1>2. Held BY DEF Init, Held, DlJob, Judged, Judging, Waited, Sent, SiblingsKnown, VerdictStillHolds,
     DlIdle, SelIdle, HandOver
<1>3. PeersHonoured BY DEF Init, PeersHonoured, DisIdle
<1>. QED BY <1>1, <1>2, <1>3 DEF RowInv, Owned, Held

LEMMA SpecRows == Spec => [](Inv /\ RowInv)
<1>1. Init => RowInv BY InitRowInv
<1>2. Inv /\ RowInv /\ [Next]_vars => RowInv' BY RowInvStep
<1>. QED BY <1>1, <1>2, SpecInv, PTL DEF Spec

\* Only InsertCandidates makes a row of a fresh id NEW.
LEMMA NewRowsComeFrom ==
  ASSUME TypeOK, Next, ~\E slot \in [dis.peers -> Candidates] : DiscoveryInsert(slot),
         NEW c \in Candidates, cand[c].st = "FREE"
  PROVE cand'[c].st # "NEW"
<1>0. cand[c] = FreeCandidate /\ cand[c].job \notin Jobs BY RowShape, NoneAssumption
<1>1. ASSUME NEW J, DeleteCandidates(J) PROVE cand'[c].st = "FREE" BY <1>0, <1>1 DEF DeleteCandidates, FreeCandidate
<1>2. ASSUME NEW d, NEW k, NEW st \in {"SUCCEEDED", "FAILED"}, NEW from, NEW to, NEW r,
             TerminalCandidateAndAdvance(d, k, st, from, to, r)
      PROVE cand'[c] = cand[c]
  BY <1>0, <1>2 DEF TypeOK, TerminalCandidateAndAdvance, FreeCandidate
<1>3. ASSUME cand' = cand PROVE cand'[c].st # "NEW" BY <1>3
<1>4. CASE Wanted BY <1>1, <1>4 DEF Wanted, SyncWanted
<1>5. CASE Discovery BY <1>3, <1>5 DEF Discovery, DiscoveryRead, DiscoveryFilter, DiscoveryNoViable,
     DiscoveryExcluded, DiscoveryAdvance, DiscoveryAbort, tables
<1>6. CASE Selecting
  <2>1. CASE SelectExhausted \/ SelectExpired BY <1>1, <1>3, <2>1 DEF SelectExhausted, SelectExpired, ResetJobToWanted
  <2>2. CASE SelectActivate BY <1>0, <2>2 DEF SelectActivate, Activatable, TypeOK, FreeCandidate
  <2>3. CASE SelectFolderCeiling BY <1>2, <2>3 DEF SelectFolderCeiling, FailCandidateAndAdvance
  <2>4. CASE ~(SelectExhausted \/ SelectExpired \/ SelectActivate \/ SelectFolderCeiling)
    BY <1>3, <1>6, <2>4, HandOverFrame DEF Selecting, SelectRead, SelectNext, SelectNoneLeft,
       SelectSkip, SelectReserve, SelectDefer, SelectStop, tables
  <2>. QED BY <2>1, <2>2, <2>3, <2>4
<1>7. CASE Downloading
  <2>1. CASE ResolveFailed \/ ResolveDone \/ TopUpFolderCeiling
    BY <1>2, <1>3, <2>1 DEF ResolveFailed, ResolveDone, TopUpFolderCeiling,
       SucceedCandidateAndAdvance, CooldownCandidateAndAdvance, FailCandidateAndAdvance
  <2>2. CASE ~(ResolveFailed \/ ResolveDone \/ TopUpFolderCeiling)
    BY <1>3, <1>7, <2>2, HandOverFrame DEF Downloading, Reconcile, ReconcilePark, ResolveRead,
       ResolveLook, ResolveSiblings, TopUpRead, TopUpReserve, TopUpDefer, DownloadStop, tables
  <2>. QED BY <2>1, <2>2
<1>8. CASE Importing
  <2>1. CASE \/ ImportDone \/ ImportNotImported \/ ImportRejected
             \/ ImportStuck \/ ImportRefused \/ ImportUnconfirmed
    BY <1>2, <2>1 DEF ImportDone, ImportNotImported, ImportRejected, ImportStuck, ImportRefused,
       ImportUnconfirmed, SucceedCandidateAndAdvance, FailCandidateAndAdvance,
       RejectCandidateAndAdvance
  <2>2. CASE \/ \E k \in Jobs : ImportRead(k)
             \/ \E d \in Candidates : ImportCandidate(d)
             \/ ImportStop
    BY <1>3, <2>2 DEF ImportRead, ImportCandidate, ImportStop, tables
  <2>. QED BY <1>8, <2>1, <2>2 DEF Importing
<1>9. ASSUME NEW k \in Jobs,
             \/ Cancel(k) \/ PrepareDelete(k) \/ DeleteJob(k) \/ DeleteGivesUp(k)
             \/ RetryFailedJob(k) \/ RetryManualJob(k) \/ RetryRefusedJob(k)
             \/ ForceSearch(k)
             \/ \E d \in Candidates, q \in Peers : CreateManualJob(k, d, q)
      PROVE cand'[c].st # "NEW"
  <2>1. CASE DeleteJob(k) \/ RetryFailedJob(k) \/ ForceSearch(k) BY <1>1, <2>1 DEF DeleteJob, RetryFailedJob, ForceSearch
  <2>2. CASE RetryManualJob(k) BY <1>0, <2>2 DEF RetryManualJob, FreeCandidate
  <2>3. CASE RetryRefusedJob(k) BY <1>0, <2>3 DEF RetryRefusedJob, TypeOK, FreeCandidate
  <2>4. ASSUME NEW d \in Candidates, NEW q \in Peers, CreateManualJob(k, d, q)
        PROVE cand'[c].st # "NEW"
    <3>1. cand' = [cand EXCEPT ![d] = [st |-> "ACTIVE", job |-> k, peer |-> q]] BY <2>4 DEF CreateManualJob
    <3>2. cand'[c] = IF c = d THEN [st |-> "ACTIVE", job |-> k, peer |-> q] ELSE cand[c] BY <3>1 DEF TypeOK
    <3>. QED BY <3>2
  <2>5. CASE Cancel(k) \/ PrepareDelete(k) \/ DeleteGivesUp(k)
    BY <1>3, <2>5 DEF Cancel, PrepareDelete, DeleteGivesUp, tables
  <2>. QED BY <1>9, <2>1, <2>2, <2>3, <2>4, <2>5
<1>. QED BY <1>4, <1>5, <1>6, <1>7, <1>8, <1>9 DEF Next, User

-----------------------------------------------------------------------------
(* Manual jobs *)

Looked == {"IMPORTING", "IMPORT_REFUSED"}
Served(j) ==
  /\ state[j] # "WANTED"
  /\ state[j] = "ABSENT" => CandidatesOf(j) = {}
  /\ state[j] # "ABSENT" => \E c \in Candidates : CandidatesOf(j) = {c}
  /\ j \in Unidentified => state[j] \notin Looked
ManualServed == \A j \in ManualJobs : Served(j)

\* What a step does to a manual job's state and to its rows.
StateKeeps(j) ==
  \/ state'[j] = state[j]
  \/ /\ state[j] # "ABSENT" /\ state'[j] \notin {"ABSENT", "WANTED"}
     /\ state'[j] \in Looked /\ j \in Unidentified => state[j] \in Looked
RowsOfKept(j) == \A c \in Candidates : cand'[c].job = j <=> cand[c].job = j

LEMMA ServedKeeps ==
  ASSUME NEW j, Served(j), StateKeeps(j), RowsOfKept(j) PROVE Served(j)'
<1>1. CandidatesOf(j)' = CandidatesOf(j) BY DEF RowsOfKept, CandidatesOf
<1>2. \A c : (CandidatesOf(j) = {c})' <=> CandidatesOf(j) = {c} BY <1>1
<1>. QED BY <1>1, <1>2 DEF Served, StateKeeps

\* The writes the transactions are built from.
LEMMA KeepingDeletes ==
  ASSUME NEW j \in Jobs, NEW J, j \notin J, DeleteCandidates(J) PROVE RowsOfKept(j)
BY NoneAssumption DEF DeleteCandidates, RowsOfKept, FreeCandidate

LEMMA KeepingTerminal ==
  ASSUME TypeOK, NEW j \in Jobs, NEW c, NEW k, NEW st, NEW from \in SlotStates, NEW to, NEW r,
         TerminalCandidateAndAdvance(c, k, st, from, to, r),
         to \notin {"ABSENT", "WANTED"}, to \in Looked => from \in Looked
  PROVE StateKeeps(j) /\ RowsOfKept(j)
<1>1. RowsOfKept(j)
  <2>1. ASSUME NEW d \in Candidates PROVE cand'[d].job = cand[d].job
    <3>1. CASE UNCHANGED cand BY <3>1
    <3>2. CASE cand' = [cand EXCEPT ![c].st = st] /\ cand[c].st = "ACTIVE"
      <4>1. CASE d = c
        <5>1. cand'[d] = [cand[d] EXCEPT !.st = st] BY <3>2, <4>1 DEF TypeOK
        <5>. QED BY <3>2, <4>1, <5>1, RowShape
      <4>2. CASE d # c BY <3>2, <4>2 DEF TypeOK
      <4>. QED BY <4>1, <4>2
    <3>. QED BY <3>1, <3>2 DEF TerminalCandidateAndAdvance
  <2>. QED BY <2>1 DEF RowsOfKept
<1>2. StateKeeps(j) BY DEF TypeOK, TerminalCandidateAndAdvance, StateKeeps, SlotStates
<1>. QED BY <1>1, <1>2

LEMMA KeepingFailed ==
  ASSUME TypeOK, NEW j \in Jobs, NEW k, MarkJobFailed(k) PROVE StateKeeps(j)
BY DEF TypeOK, MarkJobFailed, StateKeeps, Looked

LEMMA WantedServes ==
  ASSUME IInv, Wanted, NEW j \in ManualJobs PROVE StateKeeps(j) /\ RowsOfKept(j)
<1>1. PICK W \in SUBSET LidarrJobs : \E R \in SUBSET W : SyncWanted(W, R) BY DEF Wanted
<1>2. PICK R \in SUBSET W : SyncWanted(W, R) BY <1>1
<1>3. j \in Jobs /\ j \notin LidarrJobs BY ConfigAssumption DEF LidarrJobs
<1>4. state'[j] = state[j] BY <1>2, <1>3 DEF SyncWanted
<1>5. \E J : j \notin J /\ DeleteCandidates(J) BY <1>2, <1>3 DEF SyncWanted
<1>. QED BY <1>3, <1>4, <1>5, KeepingDeletes DEF StateKeeps

LEMMA DiscoveryServes ==
  ASSUME IInv, Discovery, NEW j \in ManualJobs PROVE StateKeeps(j) /\ RowsOfKept(j)
<1>0. j \in Jobs /\ j \notin LidarrJobs /\ TypeOK BY ConfigAssumption DEF LidarrJobs, IInv
<1>1. dis.pc # "idle" => dis.job # j BY <1>0, DisBusy DEF LidarrJobs
<1>2. state'[j] = state[j]
  <2>1. CASE DiscoveryNoViable \/ DiscoveryExcluded \/ DiscoveryAdvance
    BY <1>0, <1>1, <2>1 DEF TypeOK, DiscoveryNoViable, DiscoveryExcluded, DiscoveryAdvance,
       MarkJobFailed, AdvanceJobStateFrom
  <2>2. CASE ~(DiscoveryNoViable \/ DiscoveryExcluded \/ DiscoveryAdvance)
    BY <2>2 DEF Discovery, DiscoveryRead, DiscoveryFilter, DiscoveryInsert, DiscoveryAbort, tables
  <2>. QED BY <2>1, <2>2
<1>3. ASSUME NEW slot \in [dis.peers -> Candidates], DiscoveryInsert(slot) PROVE RowsOfKept(j)
  <2>1. dis.job # j BY <1>1, <1>3 DEF DiscoveryInsert
  <2>2. ASSUME NEW c \in Candidates, \E p \in dis.peers : slot[p] = c
        PROVE cand'[c].job # j /\ cand[c].job # j
    <3>1. cand'[c].job = dis.job BY <1>3, <2>2 DEF DiscoveryInsert
    <3>2. cand[c] = FreeCandidate BY <1>0, <1>3, <2>2, RowShape DEF DiscoveryInsert, FreshCandidate
    <3>. QED BY <1>0, <2>1, <3>1, <3>2, NoneAssumption DEF FreeCandidate
  <2>3. ASSUME NEW c \in Candidates, ~\E p \in dis.peers : slot[p] = c PROVE cand'[c] = cand[c]
    BY <1>3, <2>3 DEF DiscoveryInsert
  <2>. QED BY <2>2, <2>3 DEF RowsOfKept
<1>4. CASE ~\E slot \in [dis.peers -> Candidates] : DiscoveryInsert(slot)
  <2>1. cand' = cand BY <1>4 DEF Discovery, DiscoveryRead, DiscoveryFilter, DiscoveryNoViable,
       DiscoveryExcluded, DiscoveryAdvance, DiscoveryAbort, tables
  <2>. QED BY <1>2, <2>1 DEF StateKeeps, RowsOfKept
<1>. QED BY <1>2, <1>3, <1>4 DEF StateKeeps

LEMMA SelectingServes ==
  ASSUME IInv, Selecting, NEW j \in ManualJobs PROVE StateKeeps(j) /\ RowsOfKept(j)
<1>0. j \in Jobs /\ j \notin LidarrJobs /\ TypeOK BY ConfigAssumption DEF LidarrJobs, IInv
<1>1. CASE SelectExhausted \/ SelectExpired
  <2>1. CASE MarkJobFailed(sel.job) /\ UNCHANGED cand BY <1>0, <2>1, KeepingFailed DEF RowsOfKept
  <2>2. ASSUME NEW r, ResetJobToWanted(sel.job, r), sel.job # j PROVE StateKeeps(j) /\ RowsOfKept(j)
    <3>1. state'[j] = state[j] BY <1>0, <2>2 DEF TypeOK, ResetJobToWanted
    <3>2. UNCHANGED cand \/ DeleteCandidates({sel.job}) BY <2>2 DEF ResetJobToWanted
    <3>3. RowsOfKept(j) BY <1>0, <2>2, <3>2, KeepingDeletes DEF RowsOfKept
    <3>. QED BY <3>1, <3>3 DEF StateKeeps
  <2>. QED BY <1>0, <1>1, <2>1, <2>2 DEF SelectExhausted, SelectExpired
<1>2. CASE SelectActivate
  <2>1. \A d \in Candidates : cand'[d].job = cand[d].job
    BY <1>0, <1>2, RowShape DEF TypeOK, SelectActivate, CandidateRows, FreeCandidate
  <2>2. StateKeeps(j)
    BY <1>0, <1>2 DEF TypeOK, SelectActivate, Activatable, StateKeeps, Looked
  <2>. QED BY <2>1, <2>2 DEF RowsOfKept
<1>3. CASE SelectFolderCeiling
  BY <1>0, <1>3, KeepingTerminal DEF SelectFolderCeiling, FailCandidateAndAdvance, SlotStates, Looked
<1>4. CASE ~(SelectExhausted \/ SelectExpired \/ SelectActivate \/ SelectFolderCeiling)
  <2>1. UNCHANGED <<state, cand>> BY <1>4, HandOverFrame DEF Selecting, SelectRead, SelectNext,
       SelectNoneLeft, SelectSkip, SelectReserve, SelectDefer, SelectStop, tables
  <2>. QED BY <2>1 DEF StateKeeps, RowsOfKept
<1>. QED BY <1>1, <1>2, <1>3, <1>4

LEMMA DownloadingServes ==
  ASSUME IInv, Downloading, NEW j \in ManualJobs, Served(j) PROVE StateKeeps(j) /\ RowsOfKept(j)
<1>0. j \in Jobs /\ TypeOK BY ConfigAssumption DEF IInv
<1>1. ASSUME NEW c \in Candidates, NEW f \in Files, ReconcilePark(c, f)
      PROVE StateKeeps(j) /\ RowsOfKept(j)
  BY <1>0, <1>1 DEF TypeOK, ReconcilePark, AdvanceJobStateFrom, StateKeeps, RowsOfKept, Looked
<1>2. CASE ResolveDone
  <2>1. CASE dl.job \in Unidentified
    BY <1>0, <1>2, <2>1, KeepingTerminal DEF ResolveDone, SucceedCandidateAndAdvance, SlotStates, Looked
  <2>2. CASE dl.job \notin Unidentified
    BY <1>0, <1>2, <2>2 DEF TypeOK, ResolveDone, AdvanceJobStateFrom, StateKeeps, RowsOfKept
  <2>. QED BY <2>1, <2>2
<1>3. CASE ResolveFailed
  BY <1>0, <1>3, KeepingTerminal DEF ResolveFailed, CooldownCandidateAndAdvance, SlotStates, Looked
<1>4. CASE TopUpFolderCeiling
  BY <1>0, <1>4, KeepingTerminal DEF TopUpFolderCeiling, FailCandidateAndAdvance, SlotStates, Looked
<1>5. CASE /\ ~(ResolveDone \/ ResolveFailed \/ TopUpFolderCeiling)
           /\ ~\E c \in Candidates, f \in Files : ReconcilePark(c, f)
  <2>1. UNCHANGED <<state, cand>> BY <1>5, HandOverFrame DEF Downloading, Reconcile, ResolveRead,
       ResolveLook, ResolveSiblings, TopUpRead, TopUpReserve, TopUpDefer, DownloadStop, tables
  <2>. QED BY <2>1 DEF StateKeeps, RowsOfKept
<1>. QED BY <1>1, <1>2, <1>3, <1>4, <1>5

LEMMA ImportingServes ==
  ASSUME IInv, Importing, NEW j \in ManualJobs PROVE StateKeeps(j) /\ RowsOfKept(j)
<1>0. j \in Jobs /\ TypeOK BY ConfigAssumption DEF IInv
<1>1. CASE ImportDone \/ ImportNotImported
  BY <1>0, <1>1, KeepingTerminal
  DEF ImportDone, ImportNotImported, SucceedCandidateAndAdvance, SlotStates, Looked
<1>2. CASE ImportRejected \/ ImportRefused \/ ImportUnconfirmed
  BY <1>0, <1>2, KeepingTerminal
  DEF ImportRejected, ImportRefused, ImportUnconfirmed, RejectCandidateAndAdvance, SlotStates, Looked
<1>3. CASE ImportStuck
  BY <1>0, <1>3, KeepingTerminal DEF ImportStuck, FailCandidateAndAdvance, SlotStates, Looked
<1>4. CASE \/ \E k \in Jobs : ImportRead(k)
           \/ \E c \in Candidates : ImportCandidate(c)
           \/ ImportStop
  <2>1. UNCHANGED <<state, cand>> BY <1>4 DEF ImportRead, ImportCandidate, ImportStop, tables
  <2>. QED BY <2>1 DEF StateKeeps, RowsOfKept
<1>. QED BY <1>1, <1>2, <1>3, <1>4 DEF Importing

LEMMA CreatedServes ==
  ASSUME IInv, NEW k \in Jobs, NEW c \in Candidates, NEW p \in Peers, CreateManualJob(k, c, p),
         NEW j \in ManualJobs, Served(j)
  PROVE Served(j)'
<1>0. j \in Jobs /\ TypeOK BY ConfigAssumption DEF IInv
<1>1. cand[c] = FreeCandidate BY <1>0, RowShape DEF CreateManualJob, FreshCandidate
<1>2. \A d \in Candidates : cand'[d] = IF d = c THEN [st |-> "ACTIVE", job |-> k, peer |-> p] ELSE cand[d]
  BY <1>0 DEF TypeOK, CreateManualJob
<1>3. state' = [state EXCEPT ![k] = "DOWNLOADING"] /\ state[k] = "ABSENT" BY DEF CreateManualJob, FreshJob
<1>4. CASE j = k
  <2>1. CandidatesOf(j) = {} /\ state'[j] = "DOWNLOADING" BY <1>0, <1>3, <1>4 DEF Served, TypeOK
  <2>2. CandidatesOf(j)' = {c} BY <1>2, <1>4, <2>1 DEF CandidatesOf
  <2>. QED BY <2>1, <2>2 DEF Served, Looked
<1>5. CASE j # k
  <2>1. state'[j] = state[j] BY <1>0, <1>3, <1>5 DEF TypeOK
  <2>2. RowsOfKept(j) BY <1>0, <1>1, <1>2, <1>5, NoneAssumption DEF RowsOfKept, FreeCandidate
  <2>. QED BY <2>1, <2>2, ServedKeeps DEF StateKeeps
<1>. QED BY <1>4, <1>5

LEMMA UserServes ==
  ASSUME IInv, User, NEW j \in ManualJobs, Served(j) PROVE Served(j)'
<1>0. j \in Jobs /\ j \notin LidarrJobs /\ TypeOK BY ConfigAssumption DEF LidarrJobs, IInv
<1>1. ASSUME NEW k \in Jobs, Cancel(k) \/ PrepareDelete(k) PROVE StateKeeps(j) /\ RowsOfKept(j)
  BY <1>0, <1>1 DEF TypeOK, Cancel, PrepareDelete, StateKeeps, RowsOfKept, Looked
<1>2. ASSUME NEW k \in Jobs, DeleteJob(k) PROVE Served(j)'
  <2>1. CASE j = k
    <3>1. state'[j] = "ABSENT" BY <1>0, <1>2, <2>1 DEF TypeOK, DeleteJob
    <3>2. CandidatesOf(j)' = {}
      BY <1>0, <1>2, <2>1, NoneAssumption DEF DeleteJob, DeleteCandidates, CandidatesOf, FreeCandidate
    <3>. QED BY <3>1, <3>2 DEF Served, Looked
  <2>2. CASE j # k
    <3>1. state'[j] = state[j] BY <1>0, <1>2, <2>2 DEF TypeOK, DeleteJob
    <3>2. RowsOfKept(j) BY <1>0, <1>2, <2>2, KeepingDeletes DEF DeleteJob
    <3>. QED BY <3>1, <3>2, ServedKeeps DEF StateKeeps
  <2>. QED BY <2>1, <2>2
<1>3. ASSUME NEW k \in Jobs, RetryFailedJob(k) \/ ForceSearch(k) PROVE StateKeeps(j) /\ RowsOfKept(j)
  <2>1. k # j BY <1>0, <1>3 DEF RetryFailedJob, ForceSearch
  <2>2. state'[j] = state[j] BY <1>0, <1>3, <2>1 DEF TypeOK, RetryFailedJob, ForceSearch
  <2>3. RowsOfKept(j) BY <1>0, <1>3, <2>1, KeepingDeletes DEF RetryFailedJob, ForceSearch
  <2>. QED BY <2>2, <2>3 DEF StateKeeps
<1>4. ASSUME NEW k \in Jobs, RetryManualJob(k) PROVE StateKeeps(j) /\ RowsOfKept(j)
  <2>1. \A d \in Candidates : cand'[d].job = cand[d].job
    BY <1>0, <1>4, RowShape DEF TypeOK, RetryManualJob, CandidateRows, FreeCandidate
  <2>2. StateKeeps(j) BY <1>0, <1>4 DEF TypeOK, RetryManualJob, StateKeeps, Looked
  <2>. QED BY <2>1, <2>2 DEF RowsOfKept
<1>5. ASSUME NEW k \in Jobs, RetryRefusedJob(k) PROVE StateKeeps(j) /\ RowsOfKept(j)
  <2>1. \A d \in Candidates : cand'[d].job = cand[d].job
    BY <1>0, <1>5, RowShape DEF TypeOK, RetryRefusedJob, CandidateRows, FreeCandidate
  <2>2. StateKeeps(j) BY <1>0, <1>5 DEF TypeOK, RetryRefusedJob, StateKeeps, Looked
  <2>. QED BY <2>1, <2>2 DEF RowsOfKept
<1>6. ASSUME NEW k \in Jobs, DeleteGivesUp(k) PROVE StateKeeps(j) /\ RowsOfKept(j)
  BY <1>6 DEF DeleteGivesUp, tables, StateKeeps, RowsOfKept
<1>. QED BY <1>1, <1>2, <1>3, <1>4, <1>5, <1>6, ServedKeeps, CreatedServes DEF User

LEMMA ManualServedStep ==
  ASSUME IInv, ManualServed, [Next]_vars PROVE ManualServed'
<1>. SUFFICES ASSUME NEW j \in ManualJobs PROVE Served(j)' BY DEF ManualServed
<1>1. Served(j) BY DEF ManualServed
<1>2. CASE UNCHANGED vars BY <1>1, <1>2, ServedKeeps DEF vars, tables, StateKeeps, RowsOfKept
<1>3. CASE Next
  BY <1>1, <1>3, ServedKeeps, WantedServes, DiscoveryServes, SelectingServes, DownloadingServes,
     ImportingServes, UserServes DEF Next
<1>. QED BY <1>2, <1>3

-----------------------------------------------------------------------------
\* resolve never imports, fails or leaves hanging a download on the strength
\* of rows that are not there or no longer say what it has read, although
\* Selecting, reconcile and the user write them between its two steps.
THEOREM DownloadWhole == Spec => []DownloadIsWhole
<1>1. Inv /\ RowInv => DownloadIsWhole
  BY DEF RowInv, TriedIsWhole, DownloadIsWhole, DownloadHasRows, ActiveCandidates, CandidatesOf
<1>. QED BY <1>1, SpecRows, PTL

\* A manual job is never searched for and keeps the one row it was created
\* with, the only one a retry can download it from again: the late writes of
\* Discovery, a cancelled wish, an expired or exhausted choice are all of
\* Lidarr's jobs; and without an album it never reaches Importing (issue #347).
THEOREM ManualKept == Spec => []ManualKeepsItsPeer
<1>1. Init => ManualServed
  <2>. SUFFICES ASSUME Init, NEW j \in ManualJobs PROVE Served(j) BY DEF ManualServed
  <2>1. j \in Jobs /\ state[j] = "ABSENT" BY ConfigAssumption DEF Init
  <2>2. CandidatesOf(j) = {} BY <2>1, NoneAssumption DEF Init, CandidatesOf, FreeCandidate
  <2>. QED BY <2>1, <2>2 DEF Served, Looked
<1>2. Inv /\ ManualServed /\ [Next]_vars => ManualServed' BY ManualServedStep DEF Inv
<1>3. ManualServed => ManualKeepsItsPeer BY DEF ManualServed, Served, ManualKeepsItsPeer, Looked
<1>. QED BY <1>1, <1>2, <1>3, SpecInv, PTL DEF Spec

\* The rejection history Discovery read before it writes the candidates is
\* still true when it writes them, so a release rejected for good does not
\* come back (issue #317).
THEOREM RejectionsStand == Spec => RejectionsHonoured
<1> DEFINE Honoured ==
      \A c \in Candidates :
        (cand[c].st = "FREE" /\ cand'[c].st = "NEW") =>
          rejected[cand'[c].job][cand'[c].peer] \notin Permanent
<1>1. ASSUME Inv, RowInv, Next PROVE Honoured
  <2>. SUFFICES ASSUME NEW c \in Candidates, cand[c].st = "FREE", cand'[c].st = "NEW"
                PROVE rejected[cand'[c].job][cand'[c].peer] \notin Permanent
    OBVIOUS
  <2>0. TypeOK BY <1>1 DEF Inv, IInv
  <2>1. ASSUME NEW slot \in [dis.peers -> Candidates], DiscoveryInsert(slot)
        PROVE rejected[cand'[c].job][cand'[c].peer] \notin Permanent
    <3> DEFINE q == CHOOSE p \in dis.peers : slot[p] = c
    <3>1. dis.pc = "insert" /\ \E p \in dis.peers : slot[p] = c BY <2>1 DEF DiscoveryInsert
    <3>2. cand'[c] = [st |-> "NEW", job |-> dis.job, peer |-> q] BY <2>1, <3>1 DEF DiscoveryInsert
    <3>3. q \in dis.peers BY <3>1
    <3> HIDE DEF q
    <3>. QED BY <1>1, <3>1, <3>2, <3>3 DEF RowInv, PeersHonoured
  <2>2. CASE ~\E slot \in [dis.peers -> Candidates] : DiscoveryInsert(slot)
    <3>. QED BY <1>1, <2>0, <2>2, NewRowsComeFrom
  <2>. QED BY <2>1, <2>2
<1>2. Inv /\ RowInv /\ [Next]_vars => [Honoured]_vars BY <1>1
<1>. QED BY <1>2, SpecRows, PTL DEF Spec, RejectionsHonoured
=============================================================================
