--------------------------- MODULE Transfers_proofs ---------------------------
(* What Transfers guarantees for every release, budget and number of faults: *)
(* how rows end, and what the first activation of a candidate costs a peer.  *)
EXTENDS Transfers, FiniteSetTheorems, TLAPS

sel == top["selecting"]
dwn == top["downloading"]

-----------------------------------------------------------------------------
(* What the goroutines hold *)

\* Downloading is at a file, and so is a top-up between its calls.
AtFile == {"compensate", "cancelled", "stalled", "finish", "purge"}
InLoop == {"row"} \cup AtFile
Sending == {"enqueue", "refused", "attach", "compensate"}

DlShape ==
  /\ dl.pc \in AtFile => dl.f \in Files /\ dl.f \notin dl.todo
  /\ dl.pc # "idle" => dwn.pc = "idle"
  /\ \A f \in Files : dl.live[f] # "STOPPING"
TopShape ==
  \A g \in Goroutines :
    /\ top[g].pc \in Sending => top[g].f \in Files /\ top[g].f \notin top[g].todo /\ top[g].room > 0
    /\ top[g].candidate <= candidate /\ top[g].attempt <= attempt
    /\ top[g].pc \in Sending /\ top[g].attempt = attempt => top[g].candidate = candidate
\* The next activation waits for Selecting's top-up; no deadline passes while
\* it works, and the user cannot retry a manual job Downloading tops up.
Activated ==
  /\ candidate <= attempt /\ dl.attempt <= attempt
  /\ sel.pc # "idle" => sel.candidate = candidate /\ \A f \in Files : ~row[f].late
  /\ sel.pc \in Sending => sel.attempt = attempt
  /\ Manual /\ dwn.pc # "idle" => job \notin {"SELECTING", "PARKED"}

-----------------------------------------------------------------------------
(* Retries. Both goroutines write from what they have read: Selecting retries *)
(* a file at most once in an activation, Downloading re-reads every tick.     *)

\* f is still to be sent, or to be retried, by the top-up t.
Ahead(t, f) ==
  \/ t.pc \in {"intent", "enqueue", "refused", "attach"} /\ f \in t.todo
  \/ t.pc \in {"enqueue", "refused"} /\ f = t.f
SelAhead(f) == sel.pc = "read" \/ Ahead(sel, f)
DlAhead(f) == (dl.pc \in InLoop /\ f \in dl.todo) \/ (dl.pc \in {"stalled", "finish"} /\ f = dl.f)
Spare(f) == IF SelAhead(f) THEN 0 ELSE 1

\* No row has more retries than read, but for the one of Selecting.
RetriesAbove ==
  \A f \in Files :
    /\ SelAhead(f) => row[f].retries <= MaxTransferRetries
    /\ Ahead(dwn, f) => row[f].retries <= dwn.retries[f] + Spare(f)
    /\ DlAhead(f) => row[f].retries <= dl.rows[f].retries + Spare(f)

\* ... and none has fewer, so that a spent budget stays spent.
RetriesBelow ==
  \A f \in Files :
    /\ Ahead(sel, f) => sel.retries[f] <= row[f].retries
    /\ Ahead(dwn, f) /\ dwn.candidate = candidate => dwn.retries[f] <= row[f].retries
    /\ DlAhead(f) /\ dl.attempt = attempt => dl.rows[f].retries <= row[f].retries

\* A row the overdue loop is about is still overdue.
LateKnown ==
  (dl.pc \in InLoop /\ dl.loop = "overdue" /\ dl.attempt = attempt) =>
    \A f \in dl.todo : row[f].late

TransferInv ==
  TypeOK /\ DlShape /\ TopShape /\ Activated /\ RetriesAbove /\ RetriesBelow /\ LateKnown

-----------------------------------------------------------------------------
(* Records *)

DlSteps == {"idle", "listed", "row", "compensate", "cancelled", "stalled", "finish",
            "purge", "resolve", "siblings", "failed", "cleaned", "done", "topup"}

LEMMA Idles ==
  /\ PendingRow \in Row /\ PendingRows \in [Files -> Row] /\ NoRemote \in [Files -> Remote]
  /\ NoRetries \in RetriesRead /\ TopIdle \in TopTicks /\ DlIdle \in DlTicks
<1>1. PendingRow \in Row BY TransfersAssumption DEF PendingRow, Row, Live, Sent
<1>2. PendingRows \in [Files -> Row] BY <1>1 DEF PendingRows
<1>3. NoRemote \in [Files -> Remote] BY DEF NoRemote, Remote
<1>4. NoRetries \in RetriesRead BY TransfersAssumption DEF NoRetries, RetriesRead
<1>5. 0 \in Attempts /\ 0 \in 0 .. MaxInflightPerPeer BY TransfersAssumption DEF Attempts
<1>6. TopIdle \in TopTicks BY <1>4, <1>5 DEF TopIdle, TopTicks
<1>7. DlIdle \in DlTicks BY <1>2, <1>3, <1>5 DEF DlIdle, DlTicks
<1>. QED BY <1>1, <1>2, <1>3, <1>4, <1>6, <1>7

LEMMA TopTyped ==
  ASSUME TypeOK, NEW g \in Goroutines
  PROVE /\ top[g] \in TopTicks /\ top[g].todo \subseteq Files /\ top[g].room \in 0 .. MaxInflightPerPeer
        /\ top[g].retries \in RetriesRead /\ top[g].attempt \in Attempts /\ top[g].candidate \in Attempts
        /\ top[g].f \in Files \cup {None}
BY DEF TypeOK, TopTicks

LEMMA DlTyped ==
  ASSUME TypeOK
  PROVE /\ dl.pc \in DlSteps /\ dl.loop \in {"none", "overdue", "active"}
        /\ dl.live \in [Files -> Remote] /\ dl.rows \in [Files -> Row]
        /\ dl.todo \subseteq Files /\ dl.handled \subseteq Files /\ dl.f \in Files \cup {None}
        /\ dl.attempt \in Attempts /\ dl.candidate \in Attempts
BY DEF TypeOK, DlTicks, DlSteps

LEMMA Numbers ==
  ASSUME TypeOK
  PROVE /\ attempt \in Nat /\ candidate \in Nat /\ attempt \in Attempts /\ candidate \in Attempts
        /\ \A f \in Files : /\ row[f] \in Row /\ row[f].retries \in 0 .. MaxTransferRetries + 1
                            /\ row[f].late \in BOOLEAN /\ row[f].st \in Live \cup Settled
BY TransfersAssumption DEF TypeOK, Attempts, Row

LEMMA SkippedTyped ==
  ASSUME TypeOK, NEW f \in Files
  PROVE /\ Skipped(f) \in DlTicks /\ [Skipped(f) EXCEPT !.handled = @ \cup {f}] \in DlTicks
        /\ Skipped(f).pc = "row" /\ Skipped(f).loop = dl.loop /\ Skipped(f).live = dl.live
        /\ Skipped(f).todo = dl.todo \ {f} /\ Skipped(f).attempt = dl.attempt
        /\ \A h \in Files : h # f => Skipped(f).rows[h] = dl.rows[h]
<1>1. dl \in DlTicks /\ PendingRow \in Row BY Idles DEF TypeOK
<1>2. [dl.rows EXCEPT ![f] = PendingRow] \in [Files -> Row] BY <1>1, DlTyped
<1>3. Skipped(f) = [dl EXCEPT !.pc = "row", !.f = None, !.todo = dl.todo \ {f},
                              !.rows = [dl.rows EXCEPT ![f] = PendingRow]]
  BY <1>1 DEF Skipped, DlTicks
<1>4. Skipped(f) \in DlTicks BY ZenonT(60), <1>1, <1>2, <1>3 DEF DlTicks
<1>. QED BY ZenonT(60), <1>1, <1>2, <1>3, <1>4, DlTyped DEF DlTicks

-----------------------------------------------------------------------------
(* Writing a row *)

\* Only the row of f may change its state, when it is live and of the attempt a.
Touches(f, a, S) ==
  /\ row' \in [Files -> Row]
  /\ \A h \in Files : row'[h].late => row[h].late
  /\ \A h \in Files : row'[h].st # row[h].st =>
       h = f /\ a = attempt /\ row[f].st \in Live /\ row'[f].st \in S
SameRetries == \A h \in Files : row'[h].retries = row[h].retries

LEMMA ProgressTouches ==
  ASSUME TypeOK, NEW f \in Files, NEW a, NEW st \in Live \cup Settled, UpdateTransferProgress(f, a, st)
  PROVE Touches(f, a, {st}) /\ SameRetries /\ \A h \in Files : row'[h].late = row[h].late
<1>1. CASE ~Writable(f, a) BY <1>1 DEF UpdateTransferProgress, Touches, SameRetries, TypeOK
<1>2. CASE Writable(f, a)
  <2> DEFINE clock == row[f].clock \/ st = "IN_PROGRESS"
             r == [row[f] EXCEPT !.st = st, !.clock = clock]
  <2>1. row' = [row EXCEPT ![f] = r] BY <1>2 DEF UpdateTransferProgress, TypeOK
  <2>2. row[f] \in Row BY DEF TypeOK
  <2>3. clock \in BOOLEAN OBVIOUS
  <2>4. r \in Row BY <2>2, <2>3 DEF Row
  <2>5. r.st = st /\ r.retries = row[f].retries /\ r.late = row[f].late BY <2>2 DEF Row
  <2> HIDE DEF r
  <2>6. \A h \in Files : row'[h] = IF h = f THEN r ELSE row[h] BY <2>1 DEF TypeOK
  <2>7. row' \in [Files -> Row] BY <2>1, <2>4 DEF TypeOK
  <2>. QED BY <1>2, <2>5, <2>6, <2>7 DEF Touches, SameRetries, Writable
<1>. QED BY <1>1, <1>2

LEMMA RetryTouches ==
  ASSUME TypeOK, NEW f \in Files, NEW a, row[f].retries <= MaxTransferRetries, RetryTransfer(f, a)
  PROVE /\ Touches(f, a, {"PENDING"}) /\ \A h \in Files : row'[h].late = row[h].late
        /\ \A h \in Files : h # f => row'[h].retries = row[h].retries
        /\ row'[f].retries \in {row[f].retries, row[f].retries + 1}
<1>1. CASE ~Writable(f, a) BY <1>1 DEF RetryTransfer, Touches, TypeOK
<1>2. CASE Writable(f, a)
  <2> DEFINE r == [row[f] EXCEPT !.st = "PENDING", !.sid = FALSE, !.retries = @ + 1, !.clock = FALSE]
  <2>1. row' = [row EXCEPT ![f] = r] BY <1>2 DEF RetryTransfer
  <2>2. row[f] \in Row /\ row[f].retries + 1 \in 0 .. MaxTransferRetries + 1 BY Numbers, TransfersAssumption
  <2>3. r \in Row BY <2>2 DEF Row, Live
  <2>4. r.st = "PENDING" /\ r.retries = row[f].retries + 1 /\ r.late = row[f].late BY <2>2 DEF Row
  <2> HIDE DEF r
  <2>5. \A h \in Files : row'[h] = IF h = f THEN r ELSE row[h] BY <2>1 DEF TypeOK
  <2>6. row' \in [Files -> Row] BY <2>1, <2>3 DEF TypeOK
  <2>. QED BY <1>2, <2>4, <2>5, <2>6 DEF Touches, Writable
<1>. QED BY <1>1, <1>2

LEMMA ParkTouches ==
  ASSUME TypeOK, NEW f \in Files, NEW a, ParkJobForCandidate(f, a)
  PROVE /\ Touches(f, a, {"ERRORED"}) /\ SameRetries /\ \A h \in Files : row'[h].late = row[h].late
        /\ job' \in {job, "PARKED"}
<1> DEFINE r == [row[f] EXCEPT !.st = "ERRORED"]
<1>1. row[f] \in Row /\ r \in Row /\ r.st = "ERRORED" /\ r.retries = row[f].retries /\ r.late = row[f].late
  BY DEF TypeOK, Row, Settled
<1>2. CASE a = attempt /\ row[f].st \in Live
  <2>1. row' = [row EXCEPT ![f] = r] BY <1>2 DEF ParkJobForCandidate, TypeOK
  <2> HIDE DEF r
  <2>2. \A h \in Files : row'[h] = IF h = f THEN r ELSE row[h] BY <2>1 DEF TypeOK
  <2>3. row' \in [Files -> Row] BY <1>1, <2>1 DEF TypeOK
  <2>. QED BY <1>1, <1>2, <2>2, <2>3 DEF Touches, SameRetries, ParkJobForCandidate
<1>3. CASE ~(a = attempt /\ row[f].st \in Live) BY <1>3 DEF ParkJobForCandidate, Touches, SameRetries, TypeOK
<1>. QED BY <1>2, <1>3

-----------------------------------------------------------------------------
(* Downloading's tick *)

\* Its writes to the rows, whatever the action: a row is retried when that
\* was still ahead, and once; what is ahead was so before, or is just read.
DlWrites ==
  /\ row' \in [Files -> Row] /\ dwn.pc = "idle" /\ UNCHANGED <<top, attempt, candidate>>
  /\ \A h \in Files :
       /\ row'[h].late = row[h].late
       /\ \/ row'[h].retries = row[h].retries
          \/ /\ row'[h].retries = row[h].retries + 1 /\ dl.rows[h].retries < MaxTransferRetries
             /\ DlAhead(h) /\ ~DlAhead(h)'
       /\ DlAhead(h)' => \/ /\ DlAhead(h) /\ dl'.rows[h].retries = dl.rows[h].retries
                            /\ dl'.attempt = dl.attempt
                         \/ row' = row /\ row[h].st \in Sent /\ dl'.rows[h].retries = row[h].retries
  /\ dl'.attempt \in {dl.attempt, attempt, 0}

LEMMA DlWritesKeep ==
  ASSUME TransferInv, DlWrites PROVE TopShape' /\ Activated' /\ RetriesAbove' /\ RetriesBelow'
<1>0. TypeOK BY DEF TransferInv
<1>1. \A h \in Files : /\ row[h].retries \in Nat /\ row'[h].retries \in Nat
                       /\ dl.rows[h].retries \in Nat
  BY <1>0, DlTyped, TransfersAssumption DEF TypeOK, DlWrites, Row
<1>2. TopShape' BY DEF TransferInv, TopShape, DlWrites
<1>3. Activated'
  <2>1. sel' = sel /\ dwn' = dwn /\ attempt' = attempt /\ candidate' = candidate /\ dwn.pc = "idle"
    BY DEF DlWrites, sel, dwn
  <2>2. dl'.attempt <= attempt BY <1>0, Numbers, DlTyped DEF TransferInv, Activated, DlWrites, Attempts
  <2>. QED BY <2>1, <2>2 DEF TransferInv, Activated, DlWrites
<1>4. ASSUME NEW h \in Files
      PROVE /\ SelAhead(h)' <=> SelAhead(h)
            /\ Ahead(sel, h)' <=> Ahead(sel, h)
            /\ ~Ahead(dwn, h)'
  BY DEF DlWrites, SelAhead, Ahead, sel, dwn
<1>5. RetriesAbove'
  <2>. SUFFICES ASSUME NEW h \in Files
                PROVE /\ SelAhead(h) => row'[h].retries <= MaxTransferRetries
                      /\ DlAhead(h)' => row'[h].retries <= dl'.rows[h].retries + Spare(h)'
    BY <1>4 DEF RetriesAbove
  <2>1. Spare(h)' = Spare(h) /\ Spare(h) \in {0, 1} /\ (SelAhead(h) => Spare(h) = 0) BY <1>4 DEF Spare
  <2>2. SelAhead(h) => row'[h].retries <= MaxTransferRetries
    BY <1>1, <2>1, TransfersAssumption DEF TransferInv, RetriesAbove, DlWrites
  <2>3. DlAhead(h)' => row'[h].retries <= dl'.rows[h].retries + Spare(h)
    BY <1>1, <2>1 DEF TransferInv, RetriesAbove, DlWrites
  <2>. QED BY <2>1, <2>2, <2>3
<1>6. RetriesBelow'
  <2>. SUFFICES ASSUME NEW h \in Files
                PROVE /\ Ahead(sel, h) => sel.retries[h] <= row'[h].retries
                      /\ DlAhead(h)' /\ dl'.attempt = attempt => dl'.rows[h].retries <= row'[h].retries
    BY <1>4 DEF RetriesBelow, DlWrites, sel
  <2>1. row[h].retries <= row'[h].retries BY <1>1 DEF DlWrites
  <2>2. Ahead(sel, h) => sel.retries[h] \in Nat BY <1>0, TopTyped, TransfersAssumption DEF sel, Goroutines, RetriesRead
  <2>. QED BY <1>1, <2>1, <2>2 DEF TransferInv, RetriesBelow, DlWrites
<1>. QED BY <1>2, <1>3, <1>5, <1>6

\* Nothing is written.
LEMMA DlReads ==
  ASSUME TransferInv, UNCHANGED <<row, top, attempt, candidate>>, dwn.pc = "idle",
         dl'.attempt \in {dl.attempt, attempt, 0},
         \A h \in Files : DlAhead(h)' =>
           \/ DlAhead(h) /\ dl'.rows[h].retries = dl.rows[h].retries /\ dl'.attempt = dl.attempt
           \/ row[h].st \in Sent /\ dl'.rows[h].retries = row[h].retries
  PROVE DlWrites
BY DEF TransferInv, TypeOK, DlWrites

\* The row of the file at hand is written, and its retries are not.
LEMMA DlSettles ==
  ASSUME TransferInv, NEW f \in Files, NEW st \in Live \cup Settled, DlUnchanged,
         UpdateTransferProgress(f, dl.attempt, st) \/ ParkJobForCandidate(f, dl.attempt), dwn.pc = "idle",
         dl'.attempt = dl.attempt,
         \A h \in Files : DlAhead(h)' => DlAhead(h) /\ dl'.rows[h].retries = dl.rows[h].retries
  PROVE DlWrites
<1>1. TypeOK BY DEF TransferInv
<1>. QED BY <1>1, ProgressTouches, ParkTouches DEF DlWrites, Touches, SameRetries, DlUnchanged

\* ... or it is retried, from the retries the tick has read.
LEMMA DlRetries ==
  ASSUME TransferInv, NEW f \in Files, DlUnchanged, RetryTransfer(f, dl.attempt), dwn.pc = "idle",
         WithinBudget(dl.rows[f].retries), DlAhead(f), ~DlAhead(f)', dl'.attempt = dl.attempt,
         \A h \in Files : DlAhead(h)' => DlAhead(h) /\ dl'.rows[h].retries = dl.rows[h].retries
  PROVE DlWrites
<1>1. TypeOK BY DEF TransferInv
<1>2. dl.rows[f].retries < MaxTransferRetries BY DEF WithinBudget
<1>3. row[f].retries \in Nat /\ dl.rows[f].retries \in Nat BY <1>1, Numbers, DlTyped, TransfersAssumption DEF Row
<1>4. row[f].retries <= MaxTransferRetries BY <1>2, <1>3, TransfersAssumption DEF TransferInv, RetriesAbove, Spare
<1>. QED BY <1>1, <1>2, <1>4, RetryTouches DEF DlWrites, Touches, DlUnchanged

\* Where the tick goes from a row, or to the next.
LEMMA Leaves ==
  ASSUME TransferInv, NEW f \in Files, dl.pc \in InLoop, Skip(f) \/ Handled(f)
  PROVE /\ dl'.attempt = dl.attempt /\ dl' \in DlTicks
        /\ dl'.pc = "row" /\ dl'.loop = dl.loop /\ dl'.live = dl.live /\ dl'.todo = dl.todo \ {f}
        /\ ~DlAhead(f)'
        /\ \A h \in Files : DlAhead(h)' => DlAhead(h) /\ dl'.rows[h].retries = dl.rows[h].retries
<1>1. TypeOK BY DEF TransferInv
<1>2. Skipped(f) \in DlTicks /\ dl' \in {Skipped(f), [Skipped(f) EXCEPT !.handled = @ \cup {f}]}
  BY <1>1, SkippedTyped DEF Skip, Handled
<1>3. dl' \in DlTicks BY <1>1, <1>2, SkippedTyped
<1>4. /\ dl'.pc = Skipped(f).pc /\ dl'.loop = Skipped(f).loop /\ dl'.live = Skipped(f).live
      /\ dl'.todo = Skipped(f).todo /\ dl'.attempt = Skipped(f).attempt /\ dl'.rows = Skipped(f).rows
  BY <1>2 DEF DlTicks
<1>. QED BY ZenonT(60), <1>1, <1>3, <1>4, SkippedTyped DEF DlAhead, InLoop

LEMMA GoesTo ==
  ASSUME TransferInv, NEW f \in Files, dl.pc \in InLoop, NEW pc \in AtFile, Goto(pc, f)
  PROVE /\ dl'.attempt = dl.attempt /\ dl' \in DlTicks
        /\ dl'.pc = pc /\ dl'.f = f /\ dl'.loop = dl.loop /\ dl'.live = dl.live
        /\ dl'.todo = dl.todo \ {f} /\ dl'.rows = dl.rows
        /\ pc \notin {"stalled", "finish"} => ~DlAhead(f)'
        /\ \A h \in Files : h # f /\ DlAhead(h)' => DlAhead(h)
<1>1. dl \in DlTicks BY DEF TransferInv, TypeOK
<1>2. /\ dl'.attempt = dl.attempt /\ dl'.pc = pc /\ dl'.f = f /\ dl'.loop = dl.loop
      /\ dl'.live = dl.live /\ dl'.todo = dl.todo \ {f} /\ dl'.rows = dl.rows
  BY <1>1 DEF Goto, DlTicks
<1>3. dl' \in DlTicks BY <1>1 DEF Goto, DlTicks, AtFile
<1>. QED BY <1>2, <1>3 DEF DlAhead, InLoop, AtFile

DlDone == DlWrites /\ dl' \in DlTicks /\ DlShape' /\ LateKnown'

LEMMA MovesOn ==
  ASSUME TransferInv, DlWrites, dl.pc \in InLoop, dl'.live = dl.live, dl'.loop = dl.loop,
         dl'.todo \subseteq dl.todo, dl'.attempt = dl.attempt, dl' \in DlTicks,
         dl'.pc \in AtFile => dl'.f \in Files \ dl'.todo
  PROVE DlDone
<1>1. DlShape' BY DEF TransferInv, DlShape, DlWrites, dwn
<1>2. LateKnown'
  <2>1. \A h \in Files : row'[h].late = row[h].late BY DEF DlWrites
  <2>2. dl.todo \subseteq Files /\ attempt' = attempt BY DlTyped DEF TransferInv, DlWrites
  <2>. QED BY <2>1, <2>2 DEF TransferInv, LateKnown
<1>. QED BY <1>1, <1>2 DEF DlDone

\* The tick is done with the row of f, or will only speak to the backend.
LEMMA RowDone ==
  ASSUME TransferInv, NEW f \in Files, dl.pc \in InLoop, DlUnchanged,
         Skip(f) \/ Handled(f) \/ \E pc \in {"compensate", "cancelled", "purge"} : Goto(pc, f),
         \/ UNCHANGED row
         \/ \E st \in Live \cup Settled : UpdateTransferProgress(f, dl.attempt, st)
         \/ ParkJobForCandidate(f, dl.attempt)
         \/ DlAhead(f) /\ WithinBudget(dl.rows[f].retries) /\ RetryTransfer(f, dl.attempt)
  PROVE DlDone
<1>1. /\ dl'.attempt = dl.attempt /\ dl' \in DlTicks /\ dl'.loop = dl.loop /\ dl'.live = dl.live
      /\ dl'.todo = dl.todo \ {f} /\ ~DlAhead(f)'
      /\ \A h \in Files : DlAhead(h)' => DlAhead(h) /\ dl'.rows[h].retries = dl.rows[h].retries
      /\ dl'.pc \in AtFile => dl'.f = f
  <2>1. CASE Skip(f) \/ Handled(f) BY <2>1, Leaves DEF AtFile
  <2>2. ASSUME NEW pc \in {"compensate", "cancelled", "purge"}, Goto(pc, f)
        PROVE /\ dl'.attempt = dl.attempt /\ dl' \in DlTicks /\ dl'.loop = dl.loop /\ dl'.live = dl.live
              /\ dl'.todo = dl.todo \ {f} /\ ~DlAhead(f)'
              /\ \A h \in Files : DlAhead(h)' => DlAhead(h) /\ dl'.rows[h].retries = dl.rows[h].retries
              /\ dl'.pc \in AtFile => dl'.f = f
    <3>1. pc \in AtFile /\ pc \notin {"stalled", "finish"} BY DEF AtFile
    <3>. QED BY <2>2, <3>1, GoesTo
  <2>. QED BY <2>1, <2>2
<1>2. dwn.pc = "idle" BY DEF TransferInv, DlShape, InLoop, AtFile
<1>3. DlWrites
  <2>1. CASE UNCHANGED row BY <1>1, <1>2, <2>1, DlReads DEF DlUnchanged
  <2>2. CASE \E st \in Live \cup Settled : UpdateTransferProgress(f, dl.attempt, st) BY <1>1, <1>2, <2>2, DlSettles
  <2>3. CASE ParkJobForCandidate(f, dl.attempt) BY <1>1, <1>2, <2>3, DlSettles DEF Live
  <2>4. CASE DlAhead(f) /\ WithinBudget(dl.rows[f].retries) /\ RetryTransfer(f, dl.attempt) BY <1>1, <1>2, <2>4, DlRetries
  <2>. QED BY <2>1, <2>2, <2>3, <2>4
<1>. QED BY <1>1, <1>3, MovesOn

\* The row of f is to be retried or given up later.
LEMMA RowHeld ==
  ASSUME TransferInv, NEW f \in Files, dl.pc \in InLoop, DlUnchanged, DlAhead(f),
         NEW pc \in {"stalled", "finish"}, Goto(pc, f),
         UNCHANGED row \/ UpdateTransferProgress(f, dl.attempt, "STALLED")
  PROVE DlDone
<1>1. /\ dl'.attempt = dl.attempt /\ dl' \in DlTicks /\ dl'.loop = dl.loop /\ dl'.live = dl.live
      /\ dl'.todo = dl.todo \ {f} /\ dl'.rows = dl.rows /\ dl'.f = f
      /\ \A h \in Files : DlAhead(h)' => DlAhead(h)
  BY GoesTo DEF AtFile
<1>2. dwn.pc = "idle" BY DEF TransferInv, DlShape, InLoop, AtFile
<1>3. DlWrites
  <2>1. CASE UNCHANGED row BY <1>1, <1>2, <2>1, DlReads DEF DlUnchanged
  <2>2. CASE UpdateTransferProgress(f, dl.attempt, "STALLED") BY <1>1, <1>2, <2>2, DlSettles DEF Live, Sent
  <2>. QED BY <2>1, <2>2
<1>. QED BY <1>1, <1>3, MovesOn

LEMMA FinishStalledWrites ==
  ASSUME TransferInv, NEW f \in Files, DlAhead(f), FinishStalled(f)
  PROVE \/ \E st \in Live \cup Settled : UpdateTransferProgress(f, dl.attempt, st)
        \/ DlAhead(f) /\ WithinBudget(dl.rows[f].retries) /\ RetryTransfer(f, dl.attempt)
BY DEF FinishStalled, Settled

LEMMA ReconcileRows ==
  ASSUME TransferInv, NEW f \in Files,
         \/ \E loop \in {"overdue", "active"} : RowStallEnded(loop, f)
         \/ OverdueCancel(f) \/ OverdueCancelFails(f) \/ OverduePark(f) \/ OverdueLost(f)
         \/ ActiveLost(f) \/ ActiveRejected(f) \/ ActiveStalled(f) \/ ActiveCopy(f)
  PROVE DlDone
<1>1. dl.pc = "row" /\ dl.pc \in InLoop /\ f \in dl.todo /\ DlAhead(f)
  BY DEF RowStallEnded, OverdueCancel, OverdueCancelFails, OverduePark, OverdueLost, ActiveLost,
     ActiveRejected, ActiveStalled, ActiveCopy, AtRow, InLoop, DlAhead
<1>2. DlUnchanged BY DEF RowStallEnded, OverdueCancel, OverdueCancelFails, OverduePark, OverdueLost, ActiveLost,
     ActiveRejected, ActiveStalled, ActiveCopy
<1>3. ASSUME NEW loop, RowStallEnded(loop, f) PROVE DlDone
  BY <1>1, <1>2, <1>3, FinishStalledWrites, RowDone DEF RowStallEnded
<1>4. CASE OverdueCancel(f) BY <1>1, <1>2, <1>4, RowDone DEF OverdueCancel
<1>5. CASE OverdueCancelFails(f) BY <1>1, <1>2, <1>5, RowDone DEF OverdueCancelFails
<1>6. CASE OverduePark(f) BY <1>1, <1>2, <1>6, RowDone DEF OverduePark
<1>7. CASE OverdueLost(f) BY <1>1, <1>2, <1>7, RowDone DEF OverdueLost, Settled
<1>8. CASE ActiveLost(f) BY <1>1, <1>2, <1>8, RowDone DEF ActiveLost
<1>9. CASE ActiveRejected(f) BY <1>1, <1>2, <1>9, RowDone DEF ActiveRejected, RetryRejected
<1>10. CASE ActiveStalled(f) BY <1>1, <1>2, <1>10, RowHeld DEF ActiveStalled
<1>11. CASE ActiveCopy(f)
  <2>1. PICK st : /\ UpdateTransferProgress(f, dl.attempt, st)
                  /\ st = IF dl.live[f] \in {"REJECTED", "FAILED"} THEN "ERRORED" ELSE dl.live[f]
    BY <1>11 DEF ActiveCopy
  <2>2. dl.live[f] \in Remote \ {"NONE", "STOPPING"}
    BY <1>11, DlTyped DEF TransferInv, DlShape, ActiveCopy, Identified, Matched
  <2>3. st \in Live \cup Settled BY <2>1, <2>2 DEF Remote, Running, Ended, Live, Sent, Settled
  <2>. QED BY <1>1, <1>2, <1>11, <2>1, <2>3, RowDone DEF ActiveCopy
<1>. QED BY <1>3, <1>4, <1>5, <1>6, <1>7, <1>8, <1>9, <1>10, <1>11

LEMMA AtFileDone ==
  ASSUME TransferInv,
         RowCompensate \/ Purge \/ OverdueCancelled \/ StallCancel \/ StallFinish
  PROVE DlDone
<1>1. dl.pc \in {"compensate", "purge", "cancelled", "stalled", "finish"}
  BY DEF RowCompensate, Purge, OverdueCancelled, StallCancel, StallFinish
<1>2. dl.f \in Files /\ dl.pc \in InLoop /\ dl.pc \in AtFile /\ dl.f \notin dl.todo
  BY <1>1 DEF TransferInv, DlShape, InLoop, AtFile
<1>3. DlUnchanged BY DEF RowCompensate, Purge, OverdueCancelled, StallCancel, StallFinish
<1>4. dl.pc \in {"stalled", "finish"} => DlAhead(dl.f) BY DEF DlAhead
<1>5. CASE RowCompensate BY <1>2, <1>3, <1>5, RowDone DEF RowCompensate
<1>6. CASE Purge BY <1>2, <1>3, <1>6, RowDone DEF Purge
<1>7. CASE OverdueCancelled BY <1>2, <1>3, <1>7, RowDone DEF OverdueCancelled, Settled
<1>8. CASE StallFinish BY <1>2, <1>3, <1>4, <1>8, FinishStalledWrites, RowDone DEF StallFinish
<1>9. CASE StallCancel
  <2>1. CASE Goto("finish", dl.f) BY <1>2, <1>3, <1>4, <1>9, <2>1, RowHeld DEF StallCancel
  <2>2. CASE NextRow
    <3>1. dl \in DlTicks BY DEF TransferInv, TypeOK
    <3>2. /\ dl'.pc = "row" /\ dl'.todo = dl.todo /\ dl'.rows = dl.rows /\ dl'.loop = dl.loop
          /\ dl'.live = dl.live /\ dl'.attempt = dl.attempt /\ dl' \in DlTicks
      BY <2>2, <3>1 DEF NextRow, DlTicks
    <3>3. dwn.pc = "idle" BY <1>1 DEF TransferInv, DlShape
    <3>4. \A h \in Files : DlAhead(h)' => DlAhead(h) BY <1>2, <3>2 DEF DlAhead
    <3>5. DlWrites BY <1>3, <1>9, <3>2, <3>3, <3>4, DlReads DEF StallCancel, DlUnchanged
    <3>. QED BY <1>2, <3>2, <3>5, MovesOn DEF AtFile
  <2>. QED BY <1>9, <2>1, <2>2 DEF StallCancel
<1>. QED BY <1>5, <1>6, <1>7, <1>8, <1>9

LEMMA RowAttachDone ==
  ASSUME TransferInv, NEW f \in Files, NEW loop, RowAttach(loop, f) PROVE DlDone
<1>1. dl.pc = "row" /\ dl.pc \in InLoop /\ f \in dl.todo /\ dwn.pc = "idle" /\ DlUnchanged
  BY DEF RowAttach, AtRow, InLoop, TransferInv, DlShape
<1>2. CASE Goto("compensate", f) /\ UNCHANGED row BY <1>1, <1>2, RowDone
<1>3. CASE row' = [row EXCEPT ![f].sid = TRUE] /\ dl' = [dl EXCEPT !.rows[f].sid = TRUE]
  <2> DEFINE r == [row[f] EXCEPT !.sid = TRUE]
             d == [dl.rows[f] EXCEPT !.sid = TRUE]
  <2>1. row[f] \in Row /\ dl.rows[f] \in Row /\ dl \in DlTicks BY DlTyped DEF TransferInv, TypeOK
  <2>2. /\ r \in Row /\ d \in Row /\ r.retries = row[f].retries /\ r.late = row[f].late
        /\ d.retries = dl.rows[f].retries
    BY <2>1 DEF Row
  <2>3. row' = [row EXCEPT ![f] = r] /\ dl' = [dl EXCEPT !.rows = [dl.rows EXCEPT ![f] = d]]
    BY <1>3, <2>1, DlTyped DEF TransferInv, TypeOK, DlTicks
  <2> HIDE DEF r, d
  <2>4. \A h \in Files : row'[h] = IF h = f THEN r ELSE row[h] BY <2>3 DEF TransferInv, TypeOK
  <2>5. [dl.rows EXCEPT ![f] = d] \in [Files -> Row] BY <2>2, DlTyped DEF TransferInv
  <2>6. /\ dl'.pc = dl.pc /\ dl'.todo = dl.todo /\ dl'.loop = dl.loop /\ dl'.live = dl.live
        /\ dl'.f = dl.f /\ dl'.attempt = dl.attempt /\ dl' \in DlTicks
        /\ dl'.rows = [dl.rows EXCEPT ![f] = d]
    BY <2>1, <2>3, <2>5 DEF DlTicks
  <2>7. \A h \in Files : dl'.rows[h].retries = dl.rows[h].retries BY <2>2, <2>6, DlTyped DEF TransferInv
  <2>8. \A h \in Files : DlAhead(h)' <=> DlAhead(h) BY <2>6 DEF DlAhead
  <2>9. row' \in [Files -> Row] BY <2>2, <2>3 DEF TransferInv, TypeOK
  <2>10. DlWrites BY <1>1, <2>2, <2>4, <2>6, <2>7, <2>8, <2>9 DEF DlWrites, DlUnchanged
  <2>. QED BY <1>1, <2>6, <2>10, MovesOn DEF AtFile
<1>. QED BY <1>2, <1>3 DEF RowAttach

\* A tick that is in no row loop holds nothing back.
LEMMA OutOfLoop ==
  ASSUME TransferInv, UNCHANGED <<row, top, attempt, candidate>>, dwn.pc = "idle", dl' \in DlTicks,
         dl'.attempt \in {dl.attempt, attempt, 0}, dl'.pc \notin InLoop,
         \A h \in Files : dl'.live[h] # "STOPPING"
  PROVE DlDone
<1>1. \A h \in Files : ~DlAhead(h)' BY DEF DlAhead, InLoop, AtFile
<1>2. DlWrites BY <1>1, DlReads
<1>3. DlShape' BY DEF DlShape, InLoop, dwn
<1>4. LateKnown' BY DEF LateKnown
<1>. QED BY <1>2, <1>3, <1>4 DEF DlDone

LEMMA QueryTyped ==
  ASSUME TypeOK, NEW S \in SUBSET Files
  PROVE RowsOf(S) \in [Files -> Row] /\ \A f \in S : RowsOf(S)[f] = row[f]
BY Idles DEF RowsOf, TypeOK

LEMMA ReadsDone ==
  ASSUME TransferInv,
         ListDownloads \/ TransfersPastDeadline \/ ActiveTransfers \/ ReconcileEnd
  PROVE DlDone
<1>1. dl \in DlTicks /\ TypeOK BY DEF TransferInv, TypeOK
<1>2. dwn.pc = "idle" /\ UNCHANGED <<row, top, attempt, candidate>>
  BY DEF TransferInv, DlShape, ListDownloads, TransfersPastDeadline, ActiveTransfers, ReconcileEnd,
     DlUnchanged, dwn
<1>3. CASE ListDownloads
  <2>1. [f \in Files |-> Listed(remote[f])] \in [Files -> Remote] BY SMTT(40), <1>1 DEF Listed, TypeOK, Remote, Ended
  <2>2. /\ dl' \in DlTicks /\ dl'.attempt = dl.attempt /\ dl'.pc = "listed"
        /\ dl'.live = [f \in Files |-> Listed(remote[f])]
    BY <1>1, <1>3, <2>1 DEF ListDownloads, DlTicks
  <2>. QED BY SMTT(40), <1>2, <2>2, OutOfLoop DEF Listed, InLoop, AtFile
<1>4. CASE ReconcileEnd
  <2>1. /\ dl' \in DlTicks /\ dl'.attempt = 0 /\ dl'.pc = "resolve" /\ dl'.live = NoRemote
    BY <1>4, Idles DEF ReconcileEnd, DlIdle, DlTicks
  <2>. QED BY <1>2, <2>1, OutOfLoop DEF InLoop, AtFile, NoRemote
<1>5. CASE TransfersPastDeadline
  <2> DEFINE S == {f \in Files : row[f].st \in Sent /\ row[f].late}
  <2>1. S \subseteq Files /\ RowsOf(S) \in [Files -> Row] /\ \A f \in S : RowsOf(S)[f] = row[f] BY <1>1, QueryTyped
  <2>2. \A f \in S : row[f].late /\ row[f].st \in Sent OBVIOUS
  <2> HIDE DEF S
  <2>3. dl' = [dl EXCEPT !.pc = "row", !.loop = "overdue", !.rows = RowsOf(S),
                         !.attempt = attempt, !.todo = S]
    BY <1>5 DEF TransfersPastDeadline, S
  <2>4. /\ dl' \in DlTicks /\ dl'.attempt = attempt /\ dl'.pc = "row" /\ dl'.rows = RowsOf(S)
        /\ dl'.todo = S /\ dl'.live = dl.live
    BY <1>1, <2>1, <2>3, Numbers DEF DlTicks
  <2>5. \A h \in Files : DlAhead(h)' => row[h].st \in Sent /\ dl'.rows[h].retries = row[h].retries
    BY <2>1, <2>2, <2>4 DEF DlAhead, InLoop
  <2>6. DlWrites BY <1>2, <2>4, <2>5, DlReads
  <2>7. DlShape' BY <1>2, <2>4 DEF DlShape, TransferInv, AtFile, dwn
  <2>8. LateKnown' BY <1>2, <2>2, <2>4 DEF LateKnown
  <2>. QED BY <2>4, <2>6, <2>7, <2>8 DEF DlDone
<1>6. CASE ActiveTransfers
  <2> DEFINE S == {f \in Files : row[f].st \in Sent /\ ~(dl.attempt = attempt /\ f \in dl.handled)}
             L == [f \in Files |-> IF f \in S THEN dl.live[f] ELSE "NONE"]
  <2>1. S \subseteq Files /\ RowsOf(S) \in [Files -> Row] /\ \A f \in S : RowsOf(S)[f] = row[f] /\ row[f].st \in Sent
    BY <1>1, QueryTyped
  <2>2. L \in [Files -> Remote] /\ \A f \in Files : L[f] # "STOPPING"
    BY SMTT(40), <1>1, DlTyped DEF TransferInv, DlShape, Remote
  <2>3. dl' = [dl EXCEPT !.loop = "active", !.rows = RowsOf(S), !.attempt = attempt,
                         !.todo = S, !.handled = {}, !.live = L]
    BY SMTT(40), <1>1, <1>6 DEF ActiveTransfers, DlTicks
  <2> HIDE DEF S, L
  <2>4. /\ dl' \in DlTicks /\ dl'.attempt = attempt /\ dl'.pc = "row" /\ dl'.rows = RowsOf(S)
        /\ dl'.todo = S /\ dl'.live = L /\ dl'.loop = "active"
    BY ZenonT(60), <1>1, <1>6, <2>1, <2>2, <2>3, Numbers DEF DlTicks, ActiveTransfers
  <2>5. \A h \in Files : DlAhead(h)' => row[h].st \in Sent /\ dl'.rows[h].retries = row[h].retries
    BY <2>1, <2>4 DEF DlAhead, InLoop
  <2>6. DlWrites BY <1>2, <2>4, <2>5, DlReads
  <2>7. DlShape' BY <1>2, <2>2, <2>4 DEF DlShape, AtFile, dwn
  <2>8. LateKnown' BY <2>4 DEF LateKnown
  <2>. QED BY <2>4, <2>6, <2>7, <2>8 DEF DlDone
<1>. QED BY <1>3, <1>4, <1>5, <1>6

\* resolve reads again before it writes, and retries nothing.
LEMMA ResolveDone ==
  ASSUME TransferInv,
         \/ ResolveRead \/ SiblingsEnd \/ CleanupFolder \/ FailCandidate \/ DownloadDone \/ TickFails
  PROVE DlDone
<1>1. dl \in DlTicks /\ TypeOK BY DEF TransferInv, TypeOK
<1>2. dwn.pc = "idle" /\ UNCHANGED <<row, top, attempt, candidate>>
  BY DEF TransferInv, DlShape, ResolveRead, SiblingsEnd, CleanupFolder, FailCandidate, DownloadDone,
     TickFails, DlUnchanged
<1>3. CASE ResolveRead
  <2> DEFINE S == {f \in Files : row[f].st \in Live}
  <2>1. S \subseteq Files OBVIOUS
  <2>2. \/ \E pc \in {"topup", "done"} : dl' = [dl EXCEPT !.pc = pc]
        \/ dl' = [dl EXCEPT !.pc = "siblings", !.todo = S, !.rows = row, !.attempt = attempt,
                            !.candidate = candidate]
    BY <1>3 DEF ResolveRead
  <2> HIDE DEF S
  <2>3. /\ dl' \in DlTicks /\ dl'.attempt \in {dl.attempt, attempt} /\ dl'.pc \notin InLoop
        /\ dl'.live = dl.live
    BY ZenonT(60), <1>1, <2>1, <2>2, Numbers DEF DlTicks, InLoop, AtFile, TypeOK
  <2>. QED BY <1>2, <2>3, OutOfLoop DEF TransferInv, DlShape
<1>4. CASE SiblingsEnd
  <2>1. /\ dl' \in DlTicks /\ dl'.attempt = 0 /\ dl'.pc \in {"topup", "failed"}
        /\ dl'.live = NoRemote
    BY ZenonT(60), <1>1, <1>4, Idles, DlTyped DEF SiblingsEnd, DlIdle, DlTicks
  <2>. QED BY <1>2, <2>1, OutOfLoop DEF InLoop, AtFile, NoRemote
<1>5. CASE CleanupFolder
  <2>1. dl' \in DlTicks /\ dl'.attempt = dl.attempt /\ dl'.pc = "cleaned" /\ dl'.live = dl.live
    BY <1>1, <1>5 DEF CleanupFolder, DlTicks
  <2>. QED BY <1>2, <2>1, OutOfLoop DEF TransferInv, DlShape, InLoop, AtFile
<1>6. CASE FailCandidate \/ DownloadDone \/ TickFails
  <2>1. /\ dl' \in DlTicks /\ dl'.attempt = 0 /\ dl'.pc \in {"idle", "topup"} /\ dl'.live = NoRemote
    BY <1>1, <1>6, Idles DEF FailCandidate, DownloadDone, TickFails, DlIdle, DlTicks
  <2>. QED BY <1>2, <2>1, OutOfLoop DEF InLoop, AtFile, NoRemote
<1>. QED BY <1>3, <1>4, <1>5, <1>6

LEMMA SiblingsDone ==
  ASSUME TransferInv, NEW f \in Files,
         SiblingPending(f) \/ SiblingSent(f) \/ SiblingWriteFails(f)
  PROVE DlDone
<1>1. dl \in DlTicks /\ TypeOK BY DEF TransferInv, TypeOK
<1>2. dwn.pc = "idle" /\ UNCHANGED <<top, attempt, candidate>> /\ Goto("siblings", f)
  BY DEF TransferInv, DlShape, SiblingPending, SiblingSent, SiblingWriteFails, DlUnchanged
<1>3. /\ dl' \in DlTicks /\ dl'.attempt = dl.attempt /\ dl'.pc = "siblings" /\ dl'.live = dl.live
  BY <1>1, <1>2 DEF Goto, DlTicks
<1>4. CASE UNCHANGED row BY <1>2, <1>3, <1>4, OutOfLoop DEF TransferInv, DlShape, InLoop, AtFile
<1>5. CASE UpdateTransferProgress(f, dl.attempt, "CANCELLED")
  <2>1. \A h \in Files : ~DlAhead(h)' BY <1>3 DEF DlAhead, InLoop, AtFile
  <2>2. Touches(f, dl.attempt, {"CANCELLED"}) /\ SameRetries /\ \A h \in Files : row'[h].late = row[h].late
    BY <1>1, <1>5, ProgressTouches DEF Settled
  <2>3. DlWrites BY <1>2, <1>3, <2>1, <2>2 DEF DlWrites, Touches, SameRetries
  <2>4. DlShape' BY <1>2, <1>3 DEF TransferInv, DlShape, AtFile, dwn
  <2>5. LateKnown' BY <1>3 DEF LateKnown, InLoop, AtFile
  <2>. QED BY <1>3, <2>3, <2>4, <2>5 DEF DlDone
<1>. QED BY <1>4, <1>5 DEF SiblingPending, SiblingSent, SiblingWriteFails

-----------------------------------------------------------------------------
(* The job, the backend and the counters *)

RestOK ==
  /\ job \in {"SELECTING", "DOWNLOADING", "IMPORTING", "PARKED", "CANCELLED"}
  /\ remote \in [Files -> Remote]
  /\ attempt \in 1 .. MaxAttempts /\ candidate \in 1 .. MaxAttempts
  /\ cancelling \subseteq Files /\ faults \in 0 .. MaxFaults

LEMMA BackendTyped ==
  ASSUME TypeOK, NEW f \in Files,
         \/ EnqueueRemote(f) \/ CancelRemote(f) \/ TryCancelRemote(f) \/ RemoveRemote(f)
         \/ RemoteStep(f)
  PROVE remote' \in [Files -> Remote]
<1>1. \E r \in Remote : remote' = [remote EXCEPT ![f] = r]
  <2>1. remote[f] \in Remote /\ remote = [remote EXCEPT ![f] = remote[f]] BY DEF TypeOK
  <2>2. CASE EnqueueRemote(f) BY <2>1, <2>2 DEF EnqueueRemote, Remote, Running
  <2>3. ASSUME CancelRemote(f) PROVE \E r \in Remote : remote' = [remote EXCEPT ![f] = r]
    BY <2>1, <2>3 DEF CancelRemote, Remote, Ended
  <2>4. CASE TryCancelRemote(f) BY <2>1, <2>3, <2>4 DEF TryCancelRemote
  <2>5. CASE RemoveRemote(f) BY <2>1, <2>5 DEF RemoveRemote, Remote
  <2>6. CASE RemoteStep(f) BY <2>6 DEF RemoteStep, Remote, Running, Ended
  <2>. QED BY <2>2, <2>3, <2>4, <2>5, <2>6
<1>. QED BY <1>1 DEF TypeOK

LEMMA TopRest ==
  ASSUME TransferInv, NEW g \in Goroutines, TopUp(g) PROVE RestOK'
<1>1. TypeOK BY SMTT(40) DEF TransferInv
<1>2. TopUnchanged BY ZenonT(60) DEF TopUp, TopRead, TopIntent, TopEnqueue, TopRefused, TopAttach, TopCompensate, TopEnd
<1>3. \/ UNCHANGED remote
      \/ top[g].pc \in Sending /\ (EnqueueRemote(top[g].f) \/ TryCancelRemote(top[g].f))
  BY DEF TopUp, TopRead, TopIntent, TopEnqueue, TopRefused, TopAttach, TopCompensate, TopEnd, Sending
<1>4. remote' \in [Files -> Remote] BY <1>1, <1>3, BackendTyped DEF TransferInv, TopShape, TypeOK
<1>. QED BY SMTT(40), <1>1, <1>2, <1>4 DEF TopUnchanged, TypeOK, RestOK

LEMMA ReconcileRest ==
  ASSUME TransferInv, Reconcile PROVE RestOK'
<1>1. TypeOK BY DEF TransferInv
<1>2. DlUnchanged BY DEF Reconcile, ListDownloads, TransfersPastDeadline, ActiveTransfers, ReconcileEnd, RowAttach,
     RowStallEnded, OverdueCancel, OverdueCancelFails, OverduePark, OverdueLost, ActiveLost,
     ActiveRejected, ActiveStalled, ActiveCopy, RowCompensate, OverdueCancelled, StallCancel,
     StallFinish, Purge
<1>3. \/ UNCHANGED remote
      \/ \E f \in Files : CancelRemote(f) \/ TryCancelRemote(f) \/ RemoveRemote(f)
  <2>1. dl.pc \in AtFile => dl.f \in Files BY DEF TransferInv, DlShape
  <2>. QED BY <2>1
    DEF Reconcile, ListDownloads, TransfersPastDeadline, ActiveTransfers, ReconcileEnd, RowAttach,
     RowStallEnded, OverdueCancel, OverdueCancelFails, OverduePark, OverdueLost, ActiveLost,
     ActiveRejected, ActiveStalled, ActiveCopy, RowCompensate, OverdueCancelled, StallCancel,
     StallFinish, Purge, AtFile
<1>4. UNCHANGED job \/ job' \in {job, "PARKED"}
  <2>1. \A f : ParkJobForCandidate(f, dl.attempt) => job' \in {job, "PARKED"} BY DEF ParkJobForCandidate
  <2>. QED BY <2>1
    DEF Reconcile, ListDownloads, TransfersPastDeadline, ActiveTransfers, ReconcileEnd, RowAttach,
     RowStallEnded, OverdueCancel, OverdueCancelFails, OverduePark, OverdueLost, ActiveLost,
     ActiveRejected, ActiveStalled, ActiveCopy, RowCompensate, OverdueCancelled, StallCancel,
     StallFinish, Purge
<1>5. remote' \in [Files -> Remote] BY <1>1, <1>3, BackendTyped DEF TypeOK
<1>. QED BY <1>1, <1>2, <1>4, <1>5 DEF DlUnchanged, TypeOK, RestOK

LEMMA ResolveRest ==
  ASSUME TransferInv, Resolve \/ TopUpDownloads PROVE RestOK'
<1>1. TypeOK BY DEF TransferInv
<1>2. UNCHANGED <<attempt, candidate, cancelling, faults>> /\ job' \in {job, "SELECTING", "IMPORTING"}
  BY DEF Resolve, ResolveRead, SiblingsEnd, CleanupFolder, FailCandidate, DownloadDone,
     SiblingPending, SiblingSent, TopUpDownloads, DlUnchanged
<1>3. UNCHANGED remote \/ \E f \in Files : CancelRemote(f)
  BY DEF Resolve, ResolveRead, SiblingsEnd, CleanupFolder, FailCandidate, DownloadDone,
     SiblingPending, SiblingSent, TopUpDownloads
<1>4. remote' \in [Files -> Remote] BY <1>1, <1>3, BackendTyped DEF TypeOK
<1>. QED BY <1>1, <1>2, <1>4 DEF TypeOK, RestOK

LEMMA OtherRest ==
  ASSUME TransferInv, NextAttempt \/ Environment PROVE RestOK'
<1>1. TypeOK BY DEF TransferInv
<1>2. CASE NextAttempt BY SMTT(40), <1>1, <1>2, TransfersAssumption DEF NextAttempt, TransferInv, Activated, TypeOK, RestOK
<1>3. CASE Environment
  <2>1. \/ UNCHANGED remote \/ remote' = NoRemote
        \/ \E f \in Files : TryCancelRemote(f) \/ RemoteStep(f)
    BY ZenonT(60), <1>3 DEF Environment, TopFails, SiblingWriteFails, CancelJob, Unwanted, Restart,
       BackendRestart, TickFails, CancelRemoteTransfer, DeadlinePasses
  <2>2. remote' \in [Files -> Remote] BY SMTT(40), <1>1, <2>1, BackendTyped, Idles DEF TypeOK
  <2>3. UNCHANGED <<attempt, candidate>> /\ job' \in {job, "CANCELLED"}
    BY ZenonT(60), <1>3 DEF Environment, TopFails, SiblingWriteFails, CancelJob, Unwanted, Restart,
       BackendRestart, TickFails, CancelRemoteTransfer, DeadlinePasses, RemoteStep
  <2>4. UNCHANGED faults \/ Fault
    BY ZenonT(60), <1>3 DEF Environment, TopFails, SiblingWriteFails, CancelJob, Unwanted, Restart,
       BackendRestart, TickFails, CancelRemoteTransfer, DeadlinePasses, RemoteStep
  <2>5. faults' \in 0 .. MaxFaults BY SMTT(40), <1>1, <2>4, TransfersAssumption DEF Fault, TypeOK
  <2>6. cancelling' \subseteq Files
    BY <1>1, <1>3 DEF Environment, TopFails, SiblingWriteFails, CancelJob, Unwanted, Restart,
       BackendRestart, TickFails, CancelRemoteTransfer, DeadlinePasses, RemoteStep, TypeOK
  <2>. QED BY SMTT(40), <1>1, <2>2, <2>3, <2>5, <2>6 DEF TypeOK, RestOK
<1>. QED BY <1>2, <1>3

-----------------------------------------------------------------------------
(* A top-up *)

\* Its writes, whatever the action: a row is retried when that was still
\* ahead, and once; what is ahead was so before, or is just read.
TopMoves(g) ==
  /\ top[g].pc # "idle" /\ UNCHANGED <<dl, attempt, candidate, job>>
  /\ top' \in [Goroutines -> TopTicks] /\ \A k \in Goroutines : k # g => top'[k] = top[k]
  /\ row' \in [Files -> Row] /\ \A h \in Files : row'[h].late => row[h].late
  /\ \A h \in Files :
       \/ row'[h].retries = row[h].retries
       \/ /\ row'[h].retries = row[h].retries + 1 /\ top[g].retries[h] < MaxTransferRetries
          /\ Ahead(top[g], h) /\ ~Ahead(top'[g], h)
  /\ \A h \in Files : Ahead(top'[g], h) =>
       \/ Ahead(top[g], h) /\ top'[g].retries[h] = top[g].retries[h]
       \/ top[g].pc = "read" /\ row' = row /\ top'[g].retries[h] = row[h].retries
  /\ top'[g].pc # "read" /\ top'[g].candidate <= candidate /\ top'[g].attempt <= attempt
  /\ top'[g].pc # "idle" => top'[g].candidate = top[g].candidate
  /\ top'[g].pc \in Sending =>
       /\ top'[g].f \in Files /\ top'[g].f \notin top'[g].todo /\ top'[g].room > 0
       /\ \/ top[g].pc \in Sending /\ top'[g].attempt = top[g].attempt
          \/ top'[g].attempt = attempt /\ top[g].candidate = candidate

TopDone == DlShape' /\ TopShape' /\ Activated' /\ RetriesAbove' /\ RetriesBelow' /\ LateKnown'

LEMMA TopMovesKeep ==
  ASSUME TransferInv, NEW g \in Goroutines, TopMoves(g) PROVE TopDone
<1>0. TypeOK BY DEF TransferInv
<1>1. \A h \in Files : /\ row[h].retries \in Nat /\ row'[h].retries \in Nat
                       /\ dl.rows[h].retries \in Nat
  BY <1>0, DlTyped, TransfersAssumption DEF TypeOK, TopMoves, Row
<1>2. \A k \in Goroutines, h \in Files : top[k].retries[h] \in Nat /\ top'[k].retries[h] \in Nat
  <2>1. \A t \in TopTicks, h \in Files : t.retries[h] \in Nat BY TransfersAssumption DEF TopTicks, RetriesRead
  <2>. QED BY <1>0, <2>1 DEF TypeOK, TopMoves
<1>3. DlShape'
  <2>1. dl.pc # "idle" => dwn' = dwn BY DEF TransferInv, DlShape, TopMoves, Goroutines, dwn
  <2>. QED BY <2>1 DEF TransferInv, DlShape, TopMoves
<1>4. TopShape'
  <2>. SUFFICES ASSUME NEW k \in Goroutines
       PROVE /\ top'[k].pc \in Sending => top'[k].f \in Files /\ top'[k].f \notin top'[k].todo /\ top'[k].room > 0
             /\ top'[k].candidate <= candidate /\ top'[k].attempt <= attempt
             /\ top'[k].pc \in Sending /\ top'[k].attempt = attempt => top'[k].candidate = candidate
    BY DEF TopShape, TopMoves
  <2>1. CASE k # g BY <2>1 DEF TopMoves, TransferInv, TopShape
  <2>2. CASE k = g BY <2>2 DEF TopMoves, TransferInv, TopShape, Sending
  <2>. QED BY <2>1, <2>2
<1>5. Activated'
  <2>1. sel'.pc # "idle" => sel.pc # "idle" /\ sel'.candidate = sel.candidate BY DEF TopMoves, Goroutines, sel
  <2>2. dwn'.pc # "idle" => dwn.pc # "idle" BY DEF TopMoves, Goroutines, dwn
  <2>3. sel'.pc \in Sending => sel'.attempt = attempt BY DEF TopMoves, Goroutines, sel, TransferInv, Activated
  <2>. QED BY <2>1, <2>2, <2>3 DEF TransferInv, Activated, TopMoves
<1>6. LateKnown'
  <2>1. CASE g = "downloading" BY <2>1 DEF LateKnown, TransferInv, DlShape, TopMoves, dwn, InLoop, AtFile
  <2>2. CASE g = "selecting"
    <3>1. \A h \in Files : ~row[h].late BY <2>2 DEF TransferInv, Activated, TopMoves, sel
    <3>2. dl.todo \subseteq Files BY <1>0, DlTyped
    <3>. QED BY <3>1, <3>2 DEF TransferInv, LateKnown, TopMoves
  <2>. QED BY <2>1, <2>2 DEF Goroutines
<1>7. CASE g = "selecting"
  <2>1. ASSUME NEW h \in Files
        PROVE /\ SelAhead(h)' => SelAhead(h) /\ row'[h].retries = row[h].retries
              /\ row'[h].retries = row[h].retries \/ (row'[h].retries = row[h].retries + 1 /\ Spare(h) = 0 /\ Spare(h)' = 1)
              /\ Spare(h) <= Spare(h)' /\ Spare(h) \in {0, 1} /\ Spare(h)' \in {0, 1}
              /\ Ahead(dwn, h)' = Ahead(dwn, h) /\ DlAhead(h)' = DlAhead(h)
    <3>1. dwn' = dwn BY <1>7 DEF TopMoves, Goroutines, dwn
    <3>2. SelAhead(h)' => SelAhead(h) /\ row'[h].retries = row[h].retries BY <1>7 DEF TopMoves, SelAhead, sel
    <3>3. \/ row'[h].retries = row[h].retries
          \/ row'[h].retries = row[h].retries + 1 /\ SelAhead(h) /\ ~SelAhead(h)'
      BY <1>7 DEF TopMoves, SelAhead, sel
    <3>4. Ahead(dwn, h)' = Ahead(dwn, h) BY <3>1 DEF Ahead
    <3>5. DlAhead(h)' = DlAhead(h) BY DEF TopMoves, DlAhead
    <3>. QED BY <3>2, <3>3, <3>4, <3>5 DEF Spare
  <2>2. dwn' = dwn /\ dl' = dl /\ attempt' = attempt /\ candidate' = candidate BY <1>7 DEF TopMoves, Goroutines, dwn
  <2>3. RetriesAbove'
    <3>. SUFFICES ASSUME NEW h \in Files
          PROVE /\ SelAhead(h)' => row'[h].retries <= MaxTransferRetries
                /\ Ahead(dwn, h)' => row'[h].retries <= dwn'.retries[h] + Spare(h)'
                /\ DlAhead(h)' => row'[h].retries <= dl'.rows[h].retries + Spare(h)'
      BY DEF RetriesAbove
    <3>1. SelAhead(h)' => row'[h].retries <= MaxTransferRetries BY <2>1 DEF TransferInv, RetriesAbove
    <3>2. dwn.retries[h] \in Nat BY <1>2 DEF dwn, Goroutines
    <3>3. Ahead(dwn, h)' => row'[h].retries <= dwn'.retries[h] + Spare(h)'
      BY <1>1, <2>1, <2>2, <3>2 DEF TransferInv, RetriesAbove
    <3>4. DlAhead(h)' => row'[h].retries <= dl'.rows[h].retries + Spare(h)'
      BY <1>1, <2>1, <2>2 DEF TransferInv, RetriesAbove
    <3>. QED BY <3>1, <3>3, <3>4
  <2>4. RetriesBelow'
    <3>. SUFFICES ASSUME NEW h \in Files
          PROVE /\ Ahead(sel, h)' => sel'.retries[h] <= row'[h].retries
                /\ Ahead(dwn, h)' /\ dwn'.candidate = candidate' => dwn'.retries[h] <= row'[h].retries
                /\ DlAhead(h)' /\ dl'.attempt = attempt' => dl'.rows[h].retries <= row'[h].retries
      BY DEF RetriesBelow
    <3>1. row[h].retries <= row'[h].retries BY <1>1, <2>1
    <3>2. dwn.retries[h] \in Nat BY <1>2 DEF dwn, Goroutines
    <3>3. Ahead(sel, h)' => \/ Ahead(sel, h) /\ sel'.retries[h] = sel.retries[h]
                            \/ row' = row /\ sel'.retries[h] = row[h].retries
      BY <1>7 DEF TopMoves, sel
    <3>4. sel.retries[h] \in Nat BY <1>2 DEF sel, Goroutines
    <3>5. Ahead(sel, h)' => sel'.retries[h] <= row'[h].retries BY <1>1, <3>1, <3>3, <3>4 DEF TransferInv, RetriesBelow
    <3>6. Ahead(dwn, h)' /\ dwn'.candidate = candidate' => dwn'.retries[h] <= row'[h].retries
      BY <1>1, <2>1, <2>2, <3>1, <3>2 DEF TransferInv, RetriesBelow
    <3>7. DlAhead(h)' /\ dl'.attempt = attempt' => dl'.rows[h].retries <= row'[h].retries
      BY <1>1, <2>1, <2>2, <3>1 DEF TransferInv, RetriesBelow
    <3>. QED BY <3>5, <3>6, <3>7
  <2>. QED BY <1>3, <1>4, <1>5, <1>6, <2>3, <2>4 DEF TopDone
<1>8. CASE g = "downloading"
  <2>1. dl' = dl /\ dl.pc = "idle" /\ sel' = sel /\ candidate' = candidate
    BY <1>8 DEF TransferInv, DlShape, TopMoves, dwn, sel, Goroutines
  <2>2. \A h \in Files : ~DlAhead(h)' BY <2>1 DEF DlAhead, InLoop, AtFile
  <2>3. ASSUME NEW h \in Files
        PROVE /\ SelAhead(h)' = SelAhead(h) /\ Ahead(sel, h)' = Ahead(sel, h)
              /\ Spare(h)' = Spare(h) /\ Spare(h) \in {0, 1} /\ (SelAhead(h) => Spare(h) = 0)
              /\ dwn.retries[h] \in Nat /\ dwn'.retries[h] \in Nat /\ sel.retries[h] \in Nat
    <3>1. SelAhead(h)' = SelAhead(h) /\ Ahead(sel, h)' = Ahead(sel, h) BY <2>1 DEF SelAhead, Ahead
    <3>2. dwn.retries[h] \in Nat /\ dwn'.retries[h] \in Nat /\ sel.retries[h] \in Nat BY <1>2 DEF dwn, sel, Goroutines
    <3>. QED BY <3>1, <3>2 DEF Spare
  <2>4. ASSUME NEW h \in Files
        PROVE /\ \/ row'[h].retries = row[h].retries
                 \/ /\ row'[h].retries = row[h].retries + 1 /\ dwn.retries[h] < MaxTransferRetries
                    /\ Ahead(dwn, h) /\ ~Ahead(dwn, h)'
              /\ Ahead(dwn, h)' =>
                   \/ /\ Ahead(dwn, h) /\ dwn'.retries[h] = dwn.retries[h]
                      /\ dwn'.candidate = dwn.candidate
                   \/ row' = row /\ dwn'.retries[h] = row[h].retries
    <3>1. Ahead(dwn, h)' => dwn'.candidate = dwn.candidate BY <1>8 DEF TopMoves, dwn, Ahead
    <3>2. /\ top'["downloading"] = dwn' /\ top["downloading"] = dwn
          /\ Ahead(top'["downloading"], h) = Ahead(dwn, h)' /\ Ahead(top["downloading"], h) = Ahead(dwn, h)
      BY DEF dwn, Ahead
    <3>. QED BY <1>8, <3>1, <3>2 DEF TopMoves
  <2>5. RetriesAbove'
    <3>. SUFFICES ASSUME NEW h \in Files
          PROVE /\ SelAhead(h)' => row'[h].retries <= MaxTransferRetries
                /\ Ahead(dwn, h)' => row'[h].retries <= dwn'.retries[h] + Spare(h)'
      BY <2>2 DEF RetriesAbove
    <3>1. SelAhead(h)' => row'[h].retries <= MaxTransferRetries
      BY <1>1, <2>3, <2>4, TransfersAssumption DEF TransferInv, RetriesAbove
    <3>2. Ahead(dwn, h)' => row'[h].retries <= dwn'.retries[h] + Spare(h)'
      BY <1>1, <2>3, <2>4 DEF TransferInv, RetriesAbove
    <3>. QED BY <3>1, <3>2
  <2>6. RetriesBelow'
    <3>. SUFFICES ASSUME NEW h \in Files
          PROVE /\ Ahead(sel, h)' => sel'.retries[h] <= row'[h].retries
                /\ Ahead(dwn, h)' /\ dwn'.candidate = candidate' => dwn'.retries[h] <= row'[h].retries
      BY <2>2 DEF RetriesBelow
    <3>1. row[h].retries <= row'[h].retries BY <1>1, <2>4
    <3>2. Ahead(sel, h)' => sel'.retries[h] <= row'[h].retries BY <1>1, <2>1, <2>3, <3>1 DEF TransferInv, RetriesBelow
    <3>3. Ahead(dwn, h)' /\ dwn'.candidate = candidate' => dwn'.retries[h] <= row'[h].retries
      BY <1>1, <2>1, <2>3, <2>4, <3>1 DEF TransferInv, RetriesBelow
    <3>. QED BY <3>2, <3>3
  <2>. QED BY <1>3, <1>4, <1>5, <1>6, <2>5, <2>6 DEF TopDone
<1>. QED BY <1>7, <1>8 DEF Goroutines

LEMMA TopGoes ==
  ASSUME TypeOK, NEW g \in Goroutines, NEW t \in TopTicks, top' = [top EXCEPT ![g] = t]
  PROVE top' \in [Goroutines -> TopTicks] /\ top'[g] = t /\ \A k \in Goroutines : k # g => top'[k] = top[k]
BY DEF TypeOK

\* The top-up ends.
LEMMA TopEnds ==
  ASSUME TransferInv, NEW g \in Goroutines, top[g].pc # "idle", UNCHANGED row,
         UNCHANGED <<job, dl, attempt, candidate>>, top' = [top EXCEPT ![g] = TopIdle]
  PROVE TopMoves(g)
<1>1. TypeOK BY DEF TransferInv
<1>2. top' \in [Goroutines -> TopTicks] /\ top'[g] = TopIdle /\ \A k \in Goroutines : k # g => top'[k] = top[k]
  BY <1>1, Idles, TopGoes
<1>3. /\ TopIdle.pc = "idle" /\ TopIdle.candidate = 0 /\ TopIdle.attempt = 0
      /\ \A h \in Files : ~Ahead(TopIdle, h)
  BY DEF TopIdle, Ahead
<1>4. 0 <= candidate /\ 0 <= attempt BY <1>1, Numbers
<1>. QED BY <1>1, <1>2, <1>3, <1>4 DEF TopMoves, TypeOK, Sending

\* It goes on to pc with its file; only the row of that file is written.
LEMMA TopHolds ==
  ASSUME TransferInv, NEW g \in Goroutines, NEW pc \in {"refused", "attach", "compensate"}, UNCHANGED row,
         UNCHANGED <<job, dl, attempt, candidate>>, top[g].pc \in {"enqueue", "attach"},
         top[g].pc = "enqueue" \/ pc # "refused",
         top' = [top EXCEPT ![g].pc = pc]
  PROVE TopMoves(g)
<1>1. TypeOK /\ top[g] \in TopTicks BY DEF TransferInv, TypeOK
<1>2. PICK t : t = [top[g] EXCEPT !.pc = pc] OBVIOUS
<1>3. /\ t \in TopTicks /\ t.pc = pc /\ t.f = top[g].f /\ t.todo = top[g].todo /\ t.room = top[g].room
      /\ t.retries = top[g].retries /\ t.attempt = top[g].attempt /\ t.candidate = top[g].candidate
  BY <1>1, <1>2 DEF TopTicks
<1>4. top' \in [Goroutines -> TopTicks] /\ top'[g] = t /\ \A k \in Goroutines : k # g => top'[k] = top[k]
  BY <1>1, <1>2, <1>3, TopGoes
<1>5. \A h \in Files : Ahead(t, h) => Ahead(top[g], h) BY <1>3 DEF Ahead
<1>6. /\ top[g].f \in Files /\ top[g].f \notin top[g].todo /\ top[g].room > 0
      /\ top[g].candidate <= candidate /\ top[g].attempt <= attempt /\ top[g].pc \in Sending
  BY DEF TransferInv, TopShape, Sending
<1>. QED BY <1>1, <1>3, <1>4, <1>5, <1>6 DEF TopMoves, TypeOK

\* It goes on to the next file, with room left for n.
LEMMA TopNext ==
  ASSUME TransferInv, NEW g \in Goroutines, top[g].pc \in {"refused", "attach"},
         NEW n \in 0 .. MaxInflightPerPeer,
         UNCHANGED <<job, dl, attempt, candidate>>, row' \in [Files -> Row],
         \A h \in Files : row'[h].late = row[h].late,
         \A h \in Files : \/ row'[h].retries = row[h].retries
                          \/ /\ row'[h].retries = row[h].retries + 1 /\ top[g].retries[h] < MaxTransferRetries
                             /\ top[g].pc = "refused" /\ h = top[g].f,
         top' = [top EXCEPT ![g] = [top[g] EXCEPT !.pc = "intent", !.f = None, !.room = n]]
  PROVE TopMoves(g)
<1>1. TypeOK /\ top[g] \in TopTicks BY DEF TransferInv, TypeOK
<1>2. PICK t : t = [top[g] EXCEPT !.pc = "intent", !.f = None, !.room = n] OBVIOUS
<1>3. /\ t \in TopTicks /\ t.pc = "intent" /\ t.f = None /\ t.todo = top[g].todo
      /\ t.retries = top[g].retries /\ t.attempt = top[g].attempt /\ t.candidate = top[g].candidate
  BY <1>1, <1>2 DEF TopTicks
<1>4. top' \in [Goroutines -> TopTicks] /\ top'[g] = t /\ \A k \in Goroutines : k # g => top'[k] = top[k]
  BY <1>1, <1>2, <1>3, TopGoes
<1>5. /\ top[g].f \in Files /\ top[g].f \notin top[g].todo
      /\ top[g].candidate <= candidate /\ top[g].attempt <= attempt
  BY DEF TransferInv, TopShape, Sending
<1>. QED
  <2>1. "intent" \notin Sending /\ "intent" # "read" /\ "intent" # "idle" BY DEF Sending
  <2>2. \A h \in Files : Ahead(t, h) => Ahead(top[g], h) /\ h # top[g].f BY <1>3, <1>5 DEF Ahead
  <2>3. top[g].pc = "refused" => Ahead(top[g], top[g].f) BY DEF Ahead
  <2>. QED BY <1>1, <1>3, <1>4, <1>5, <2>1, <2>2, <2>3 DEF TopMoves, TypeOK

LEMMA SentCount == Cardinality({f \in Files : row[f].st \in Sent}) \in Nat
BY TransfersAssumption, FS_Subset, FS_CardinalityType

LEMMA TopReadMoves ==
  ASSUME TransferInv, NEW g \in Goroutines, TopRead(g) PROVE TopMoves(g)
<1>1. TypeOK /\ top[g] \in TopTicks /\ top[g].pc = "read" BY DEF TransferInv, TypeOK, TopRead
<1>2. UNCHANGED <<row, job, dl, attempt, candidate>> BY DEF TopRead, TopUnchanged
<1>3. CASE top' = [top EXCEPT ![g] = TopIdle] BY <1>1, <1>2, <1>3, TopEnds
<1>4. ASSUME NEW n, NEW todo \in SUBSET Files, NEW retries, n \in 0 .. MaxInflightPerPeer,
             retries = [f \in Files |-> row[f].retries],
             top' = [top EXCEPT ![g] = [top[g] EXCEPT !.pc = "intent", !.todo = todo, !.room = n,
                                                      !.retries = retries]]
      PROVE TopMoves(g)
  <2>1. retries \in RetriesRead BY <1>1, <1>4, Numbers DEF RetriesRead
  <2>2. PICK t : t = [top[g] EXCEPT !.pc = "intent", !.todo = todo, !.room = n, !.retries = retries] OBVIOUS
  <2>3. /\ t \in TopTicks /\ t.pc = "intent" /\ t.retries = retries
        /\ t.attempt = top[g].attempt /\ t.candidate = top[g].candidate
    BY ZenonT(60), <1>1, <1>4, <2>1, <2>2 DEF TopTicks
  <2>4. top' \in [Goroutines -> TopTicks] /\ top'[g] = t /\ \A k \in Goroutines : k # g => top'[k] = top[k]
    BY <1>1, <1>4, <2>2, <2>3, TopGoes
  <2>5. \A h \in Files : t.retries[h] = row[h].retries BY <1>4, <2>3
  <2>6. top[g].candidate <= candidate /\ top[g].attempt <= attempt BY SMTT(40) DEF TransferInv, TopShape
  <2>. QED BY <1>1, <1>2, <2>3, <2>4, <2>5, <2>6 DEF TopMoves, TypeOK, Sending
<1>5. CASE top[g].candidate = candidate
  <2> DEFINE inflight == Cardinality({f \in Files : row[f].st \in Sent})
             n == IF inflight >= MaxInflightPerPeer THEN 0 ELSE MaxInflightPerPeer - inflight
             todo == {f \in Files : row[f].st = "PENDING"}
             retries == [f \in Files |-> row[f].retries]
  <2>1. top' = [top EXCEPT ![g] = [top[g] EXCEPT !.pc = "intent", !.todo = todo, !.room = n,
                                                      !.retries = retries]]
    BY <1>5 DEF TopRead
  <2>2. inflight \in Nat BY SentCount
  <2>3. n \in 0 .. MaxInflightPerPeer BY <2>2, TransfersAssumption
  <2>4. todo \in SUBSET Files OBVIOUS
  <2> HIDE DEF n, todo
  <2>. QED BY <1>4, <2>1, <2>3, <2>4
<1>. QED BY <1>3, <1>5 DEF TopRead

LEMMA TopIntentMoves ==
  ASSUME TransferInv, NEW g \in Goroutines, NEW f \in Files, TopIntent(g, f) PROVE TopMoves(g)
<1>1. TypeOK /\ top[g] \in TopTicks /\ top[g].pc = "intent" /\ top[g].room > 0 /\ f \in top[g].todo
  BY DEF TransferInv, TypeOK, TopIntent, First
<1>2. UNCHANGED <<job, dl, attempt, candidate>> BY DEF TopIntent, TopUnchanged
<1>3. CASE top' = [top EXCEPT ![g] = TopIdle] /\ UNCHANGED row BY <1>1, <1>2, <1>3, TopEnds
<1>4. CASE Recordable(f, top[g].candidate)
  <2> DEFINE r == [row[f] EXCEPT !.st = "QUEUED", !.sid = FALSE, !.late = FALSE]
  <2>1. PICK t : t = [top[g] EXCEPT !.pc = "enqueue", !.f = f, !.todo = top[g].todo \ {f}, !.attempt = attempt] OBVIOUS
  <2>2. top' = [top EXCEPT ![g] = t] /\ row' = [row EXCEPT ![f] = r]
    BY <1>1, <1>4, <2>1 DEF TopIntent, RecordEnqueueIntent, TopTicks
  <2>3. /\ t \in TopTicks /\ t.pc = "enqueue" /\ t.f = f /\ t.todo = top[g].todo \ {f} /\ t.room = top[g].room
        /\ t.retries = top[g].retries /\ t.attempt = attempt /\ t.candidate = top[g].candidate
    BY <1>1, <2>1, Numbers DEF TopTicks
  <2>4. top' \in [Goroutines -> TopTicks] /\ top'[g] = t /\ \A k \in Goroutines : k # g => top'[k] = top[k]
    BY <1>1, <2>2, <2>3, TopGoes
  <2>5. r \in Row /\ r.retries = row[f].retries /\ r.late = FALSE BY <1>1, Numbers DEF Row, Live, Sent
  <2> HIDE DEF r
  <2>6. row' \in [Files -> Row] /\ \A h \in Files : row'[h] = IF h = f THEN r ELSE row[h] BY <1>1, <2>2, <2>5 DEF TypeOK
  <2>7. \A h \in Files : Ahead(t, h) => Ahead(top[g], h) BY <1>1, <2>3 DEF Ahead
  <2>8. top[g].candidate = candidate BY <1>4 DEF Recordable
  <2>9. attempt <= attempt /\ candidate <= candidate BY <1>1, Numbers
  <2>. QED BY <1>1, <1>2, <2>3, <2>4, <2>5, <2>6, <2>7, <2>8, <2>9 DEF TopMoves
<1>. QED BY <1>3, <1>4 DEF TopIntent

LEMMA TopRefusedMoves ==
  ASSUME TransferInv, NEW g \in Goroutines, TopRefused(g) PROVE TopMoves(g)
<1> DEFINE f == top[g].f
<1>1. TypeOK /\ top[g] \in TopTicks /\ top[g].pc = "refused" BY DEF TransferInv, TypeOK, TopRefused
<1>2. f \in Files /\ Ahead(top[g], f) BY <1>1 DEF TransferInv, TopShape, Sending, Ahead
<1>3. UNCHANGED <<job, dl, attempt, candidate>> BY DEF TopRefused, TopUnchanged
<1>4. /\ top[g].room \in 0 .. MaxInflightPerPeer
      /\ top' = [top EXCEPT ![g] = [top[g] EXCEPT !.pc = "intent", !.f = None, !.room = top[g].room]]
  BY <1>1 DEF TopRefused, TopTicks
<1>5. CASE WithinBudget(top[g].retries[f]) /\ RetryTransfer(f, top[g].attempt)
  <2>1. top[g].retries[f] \in Nat /\ row[f].retries \in Nat /\ top[g].retries[f] < MaxTransferRetries
    <3>1. \A t \in TopTicks, h \in Files : t.retries[h] \in Nat BY TransfersAssumption DEF TopTicks, RetriesRead
    <3>2. \A h \in Files : row[h].retries \in Nat BY <1>1, Numbers, TransfersAssumption
    <3>. QED BY <1>1, <1>2, <1>5, <3>1, <3>2 DEF WithinBudget
  <2>2. row[f].retries <= MaxTransferRetries
    <3>1. CASE g = "selecting" BY <1>2, <3>1 DEF TransferInv, RetriesAbove, SelAhead, sel
    <3>2. CASE g = "downloading"
      <4>1. row[f].retries <= top[g].retries[f] + Spare(f) /\ Spare(f) \in {0, 1}
        BY <1>2, <3>2 DEF TransferInv, RetriesAbove, Spare, dwn
      <4>. QED BY <2>1, <4>1, TransfersAssumption
    <3>. QED BY <3>1, <3>2 DEF Goroutines
  <2>3. /\ row' \in [Files -> Row] /\ \A h \in Files : row'[h].late = row[h].late
        /\ \A h \in Files : h # f => row'[h].retries = row[h].retries
        /\ row'[f].retries \in {row[f].retries, row[f].retries + 1}
    BY <1>1, <1>2, <1>5, <2>2, RetryTouches DEF Touches
  <2>. QED BY <1>1, <1>3, <1>4, <2>1, <2>3, TopNext
<1>6. CASE UpdateTransferProgress(f, top[g].attempt, "ERRORED")
  <2>1. /\ row' \in [Files -> Row] /\ \A h \in Files : row'[h].late = row[h].late
        /\ \A h \in Files : row'[h].retries = row[h].retries
    BY <1>1, <1>2, <1>6, ProgressTouches DEF Touches, SameRetries, Settled
  <2>. QED BY <1>1, <1>3, <1>4, <2>1, TopNext
<1>. QED BY <1>5, <1>6 DEF TopRefused

LEMMA TopAttachMoves ==
  ASSUME TransferInv, NEW g \in Goroutines, TopAttach(g) PROVE TopMoves(g)
<1> DEFINE f == top[g].f
<1>1. TypeOK /\ top[g] \in TopTicks /\ top[g].pc = "attach" BY DEF TransferInv, TypeOK, TopAttach
<1>2. f \in Files /\ top[g].room > 0 BY <1>1 DEF TransferInv, TopShape, Sending
<1>3. UNCHANGED <<job, dl, attempt, candidate>> BY DEF TopAttach, TopUnchanged
<1>4. CASE Attachable(f, top[g].attempt)
  <2>1. PICK id \in {TRUE, Native} : row' = [row EXCEPT ![f].sid = id] BY <1>4 DEF TopAttach
  <2> DEFINE r == [row[f] EXCEPT !.sid = id]
  <2>2. row[f] \in Row /\ id \in BOOLEAN BY <1>1, <1>2, <2>1, Numbers, TransfersAssumption
  <2>3. r \in Row /\ r.retries = row[f].retries /\ r.late = row[f].late BY <2>2 DEF Row
  <2>4. row' = [row EXCEPT ![f] = r] BY <2>1
  <2> HIDE DEF r
  <2>5. row' \in [Files -> Row] /\ \A h \in Files : row'[h] = IF h = f THEN r ELSE row[h] BY <1>1, <2>3, <2>4 DEF TypeOK
  <2>6. /\ top[g].room - 1 \in 0 .. MaxInflightPerPeer
        /\ top' = [top EXCEPT ![g] = [top[g] EXCEPT !.pc = "intent", !.f = None, !.room = top[g].room - 1]]
    BY <1>1, <1>2, <1>4, TransfersAssumption DEF TopAttach, TopTicks
  <2>. QED BY <1>1, <1>3, <2>3, <2>5, <2>6, TopNext
<1>5. CASE top' = [top EXCEPT ![g].pc = "compensate"] /\ UNCHANGED row BY <1>1, <1>3, <1>5, TopHolds
<1>. QED BY <1>4, <1>5 DEF TopAttach

LEMMA TopUpMoves ==
  ASSUME TransferInv, NEW g \in Goroutines, TopUp(g) \/ TopFails(g) PROVE TopMoves(g)
<1>1. CASE TopRead(g) BY <1>1, TopReadMoves
<1>2. CASE \E f \in Files : TopIntent(g, f) BY <1>2, TopIntentMoves
<1>3. CASE TopEnqueue(g) BY <1>3, TopHolds DEF TopEnqueue, TopUnchanged
<1>4. CASE TopRefused(g) BY <1>4, TopRefusedMoves
<1>5. CASE TopAttach(g) BY <1>5, TopAttachMoves
<1>6. CASE TopCompensate(g) BY <1>6, TopEnds DEF TopCompensate, TopUnchanged
<1>7. CASE TopEnd(g) BY <1>7, TopEnds DEF TopEnd, TopUnchanged
<1>8. CASE TopFails(g)
  <2>1. UNCHANGED <<row, job, dl, attempt, candidate>> /\ top[g].pc # "idle" BY <1>8 DEF TopFails
  <2>2. CASE top[g].pc = "attach" BY <1>8, <2>1, <2>2, TopHolds DEF TopFails
  <2>3. CASE top[g].pc = "refused"
    <3>1. TypeOK /\ top[g] \in TopTicks BY DEF TransferInv, TypeOK
    <3>2. /\ top[g].room \in 0 .. MaxInflightPerPeer
          /\ top' = [top EXCEPT ![g] = [top[g] EXCEPT !.pc = "intent", !.f = None, !.room = top[g].room]]
      BY <1>8, <2>3, <3>1 DEF TopFails, TopTicks
    <3>. QED BY <2>1, <2>3, <3>1, <3>2, TopNext DEF TypeOK
  <2>4. CASE top[g].pc \in {"read", "intent"} BY <1>8, <2>1, <2>4, TopEnds DEF TopFails
  <2>. QED BY <1>8, <2>2, <2>3, <2>4 DEF TopFails
<1>. QED BY <1>1, <1>2, <1>3, <1>4, <1>5, <1>6, <1>7, <1>8 DEF TopUp

-----------------------------------------------------------------------------
(* Activations, the user, time and restarts *)

MovesTyped == row' \in [Files -> Row] /\ top' \in [Goroutines -> TopTicks] /\ dl' \in DlTicks

\* No file of the new activation has been retried.
LEMMA NextAttemptDone ==
  ASSUME TransferInv, NextAttempt PROVE MovesTyped /\ TopDone
<1>1. TypeOK BY DEF TransferInv
<1>2. PICK t : t = [TopIdle EXCEPT !.pc = "read", !.candidate = candidate'] OBVIOUS
<1>3. candidate' \in Attempts /\ candidate <= candidate' /\ attempt' = attempt + 1 /\ candidate' <= attempt'
  BY <1>1, Numbers, TransfersAssumption DEF NextAttempt, Attempts, TransferInv, Activated, TypeOK
<1>4. /\ t \in TopTicks /\ t.pc = "read" /\ t.attempt = 0 /\ t.candidate = candidate'
  BY <1>2, <1>3, Idles DEF TopIdle, TopTicks
<1>5. top' = [top EXCEPT !["selecting"] = t] BY <1>2 DEF NextAttempt
<1>6. top' \in [Goroutines -> TopTicks] /\ sel' = t /\ dwn' = dwn /\ \A k \in Goroutines : k # "selecting" => top'[k] = top[k]
  BY <1>1, <1>4, <1>5, TopGoes DEF Goroutines, sel, dwn
<1>7. /\ row' = PendingRows /\ dl' = dl /\ sel.pc = "idle" /\ job' = "DOWNLOADING"
      /\ row' \in [Files -> Row] /\ \A h \in Files : row'[h].retries = 0 /\ row'[h].late = FALSE
  BY Idles DEF NextAttempt, PendingRows, PendingRow, sel
<1>8. /\ candidate \in Nat /\ attempt \in Nat /\ candidate' \in Nat /\ dl.attempt \in Nat
      /\ \A k \in Goroutines : top[k].attempt \in Nat /\ top[k].candidate \in Nat
  BY <1>1, <1>3, Numbers, DlTyped, TopTyped, TransfersAssumption DEF Attempts
<1>9. DlShape' BY <1>6, <1>7 DEF TransferInv, DlShape
<1>10. TopShape'
  <2>. SUFFICES ASSUME NEW k \in Goroutines
       PROVE /\ top'[k].pc \in Sending => top'[k].f \in Files /\ top'[k].f \notin top'[k].todo /\ top'[k].room > 0
             /\ top'[k].candidate <= candidate' /\ top'[k].attempt <= attempt'
             /\ top'[k].pc \in Sending /\ top'[k].attempt = attempt' => top'[k].candidate = candidate'
    BY DEF TopShape
  <2>1. CASE k = "selecting" BY <1>3, <1>4, <1>6, <1>8, <2>1 DEF sel, Sending
  <2>2. CASE k # "selecting"
    <3>1. top'[k] = top[k] /\ top[k].attempt <= attempt /\ top[k].candidate <= candidate
      BY <1>6, <2>2 DEF TransferInv, TopShape
    <3>2. top[k].attempt # attempt' /\ top[k].attempt <= attempt' /\ top[k].candidate <= candidate' BY <1>3, <1>8, <3>1
    <3>. QED BY <3>1, <3>2 DEF TransferInv, TopShape
  <2>. QED BY <2>1, <2>2
<1>11. Activated'
  <2>1. dl.attempt <= attempt' BY <1>3, <1>8 DEF TransferInv, Activated
  <2>. QED BY <1>3, <1>4, <1>6, <1>7, <2>1 DEF Activated, Sending
<1>12. \A h \in Files : ~Ahead(sel, h)' /\ Ahead(dwn, h)' = Ahead(dwn, h) /\ DlAhead(h)' = DlAhead(h)
  BY <1>4, <1>6, <1>7 DEF Ahead, DlAhead
<1>13. RetriesAbove'
  <2>1. \A h \in Files : dl'.rows[h].retries \in Nat /\ Spare(h)' \in Nat /\ dwn'.retries[h] \in Nat
    <3>1. \A t1 \in TopTicks, h \in Files : t1.retries[h] \in Nat BY TransfersAssumption DEF TopTicks, RetriesRead
    <3>2. \A h \in Files : dl'.rows[h].retries \in Nat
      <4>1. \A r \in Row : r.retries \in Nat BY TransfersAssumption DEF Row
      <4>2. dl.rows \in [Files -> Row] BY <1>1, DlTyped
      <4>. QED BY <1>7, <4>1, <4>2
    <3>3. dwn' \in TopTicks BY <1>1, <1>6 DEF TypeOK, dwn, Goroutines
    <3>. QED BY <3>1, <3>2, <3>3 DEF Spare
  <2>. QED BY <1>7, <2>1, TransfersAssumption DEF RetriesAbove
<1>14. RetriesBelow'
  <2>1. dl'.attempt # attempt' BY <1>3, <1>7, <1>8 DEF TransferInv, Activated
  <2>2. ASSUME NEW h \in Files, Ahead(dwn, h)', dwn'.candidate = candidate'
        PROVE dwn'.retries[h] <= row'[h].retries
    <3>1. candidate' = candidate
      <4>1. dwn.candidate <= candidate /\ dwn.candidate = candidate'
        BY <1>6, <2>2 DEF TransferInv, TopShape, dwn, Goroutines
      <4>2. candidate' \in {candidate, candidate + 1} BY DEF NextAttempt
      <4>. QED BY <1>8, <4>1, <4>2
    <3>2. Manual BY <1>8, <3>1 DEF NextAttempt
    \* The user cannot retry a manual job that Downloading tops up.
    <3>3. dwn.pc = "idle" BY <3>2 DEF NextAttempt, TransferInv, Activated
    <3>. QED BY <1>6, <2>2, <3>3 DEF Ahead
  <2>. QED BY <1>12, <2>1, <2>2 DEF RetriesBelow
<1>15. LateKnown'
  <2>1. dl'.attempt # attempt' BY <1>3, <1>7, <1>8 DEF TransferInv, Activated
  <2>. QED BY <2>1 DEF LateKnown
<1>16. dl' \in DlTicks BY <1>1, <1>7 DEF TypeOK
<1>. QED BY <1>6, <1>7, <1>9, <1>10, <1>11, <1>13, <1>14, <1>15, <1>16 DEF MovesTyped, TopDone

LEMMA TopUpDownloadsDone ==
  ASSUME TransferInv, TopUpDownloads PROVE MovesTyped /\ TopDone
<1>1. TypeOK BY DEF TransferInv
<1>2. /\ dl' = DlIdle /\ dl' \in DlTicks /\ dl'.pc = "idle" /\ dl'.attempt = 0
      /\ \A f \in Files : dl'.live[f] = "NONE"
      /\ UNCHANGED <<row, attempt, candidate, job>> /\ dwn.pc = "idle" /\ dl.pc = "topup"
  BY Idles DEF TopUpDownloads, DlIdle, NoRemote, TransferInv, DlShape
<1>3. /\ attempt \in Nat /\ candidate \in Nat /\ attempt \in Attempts /\ candidate \in Attempts
      /\ row' \in [Files -> Row]
  BY <1>1, <1>2, Numbers DEF TypeOK
<1>4. PICK t : t = [TopIdle EXCEPT !.pc = "read", !.candidate = candidate] OBVIOUS
<1>5. t \in TopTicks /\ t.pc = "read" /\ t.attempt = 0 /\ t.candidate = candidate
  BY <1>3, <1>4, Idles DEF TopIdle, TopTicks
<1>6. \/ top' = top
      \/ top' = [top EXCEPT !["downloading"] = t] /\ job = "DOWNLOADING"
  BY <1>4 DEF TopUpDownloads
<1>7. /\ top' \in [Goroutines -> TopTicks] /\ sel' = sel
      /\ dwn' = dwn \/ (dwn' = t /\ job = "DOWNLOADING")
      /\ \A k \in Goroutines : k # "downloading" => top'[k] = top[k]
  BY <1>1, <1>5, <1>6, TopGoes DEF Goroutines, sel, dwn, TypeOK
<1>8. \A h \in Files : /\ ~Ahead(dwn, h)' /\ ~DlAhead(h)' /\ Ahead(sel, h)' = Ahead(sel, h)
                       /\ SelAhead(h)' = SelAhead(h)
  BY <1>2, <1>5, <1>7 DEF Ahead, DlAhead, SelAhead, InLoop, AtFile
<1>9. DlShape' BY <1>2 DEF DlShape, AtFile
<1>10. TopShape'
  <2>. SUFFICES ASSUME NEW k \in Goroutines
       PROVE /\ top'[k].pc \in Sending => top'[k].f \in Files /\ top'[k].f \notin top'[k].todo /\ top'[k].room > 0
             /\ top'[k].candidate <= candidate /\ top'[k].attempt <= attempt
             /\ top'[k].pc \in Sending /\ top'[k].attempt = attempt => top'[k].candidate = candidate
    BY <1>2 DEF TopShape
  <2>1. CASE top'[k] = top[k] BY <2>1 DEF TransferInv, TopShape
  <2>2. CASE top'[k] = t BY <1>3, <1>5, <2>2 DEF Sending
  <2>. QED BY <1>7, <2>1, <2>2 DEF dwn
<1>11. Activated' BY <1>2, <1>3, <1>5, <1>7 DEF TransferInv, Activated
<1>12. RetriesAbove' BY <1>2, <1>8 DEF TransferInv, RetriesAbove
<1>13. RetriesBelow' BY <1>2, <1>7, <1>8 DEF TransferInv, RetriesBelow
<1>14. LateKnown' BY <1>2 DEF LateKnown, InLoop, AtFile
<1>. QED BY <1>2, <1>3, <1>7, <1>9, <1>10, <1>11, <1>12, <1>13, <1>14 DEF MovesTyped, TopDone

\* The user's cancel and a deadline change neither retries nor what is read.
LEMMA RowsChange ==
  ASSUME TransferInv, UNCHANGED <<attempt, candidate, top, dl>>, row' \in [Files -> Row],
         job' \in {job, "CANCELLED"},
         \A h \in Files : row'[h].retries = row[h].retries,
         \/ \A h \in Files : row'[h].late = row[h].late
         \/ dl.pc = "idle" /\ \A g \in Goroutines : top[g].pc = "idle"
  PROVE MovesTyped /\ TopDone
<1>1. MovesTyped BY DEF MovesTyped, TransferInv, TypeOK
<1>2. DlShape' /\ TopShape' BY DEF TransferInv, DlShape, TopShape, dwn
<1>3. Activated'
  <2>1. sel.pc # "idle" => \A h \in Files : row'[h].late = row[h].late BY DEF sel, Goroutines
  <2>. QED BY <2>1 DEF TransferInv, Activated, sel, dwn
<1>4. LateKnown'
  <2>1. dl.pc # "idle" => \A h \in Files : row'[h].late = row[h].late OBVIOUS
  <2>2. dl.todo \subseteq Files BY DlTyped DEF TransferInv
  <2>. QED BY <2>1, <2>2 DEF TransferInv, LateKnown, InLoop, AtFile
<1>5. \A h \in Files : /\ Ahead(dwn, h)' = Ahead(dwn, h) /\ DlAhead(h)' = DlAhead(h) /\ Ahead(sel, h)' = Ahead(sel, h)
                       /\ SelAhead(h)' = SelAhead(h) /\ Spare(h)' = Spare(h)
  BY DEF Ahead, DlAhead, SelAhead, Spare, sel, dwn
<1>6. RetriesAbove' BY <1>5 DEF TransferInv, RetriesAbove, sel, dwn
<1>7. RetriesBelow' BY <1>5 DEF TransferInv, RetriesBelow, sel, dwn
<1>. QED BY <1>1, <1>2, <1>3, <1>4, <1>6, <1>7 DEF TopDone

LEMMA EnvironmentDone ==
  ASSUME TransferInv,
         \/ CancelJob \/ Unwanted \/ BackendRestart
         \/ \E f \in Files : CancelRemoteTransfer(f) \/ DeadlinePasses(f) \/ RemoteStep(f)
  PROVE MovesTyped /\ TopDone
<1>1. TypeOK BY DEF TransferInv
<1>2. CASE UNCHANGED <<row, attempt, candidate, top, dl>> /\ job' \in {job, "CANCELLED"}
  BY <1>1, <1>2, RowsChange DEF TypeOK
<1>3. CASE CancelJob
  <2>1. ASSUME NEW h \in Files
        PROVE row'[h] \in Row /\ row'[h].retries = row[h].retries /\ row'[h].late = row[h].late
    <3>1. row[h] \in Row BY <1>1, Numbers
    <3>2. row'[h] = row[h] \/ row'[h] = [row[h] EXCEPT !.st = "CANCELLED"] BY <1>3 DEF CancelJob
    <3>. QED BY <3>1, <3>2 DEF Row, Settled
  <2>2. row' = [h \in Files |-> row'[h]] BY <1>3 DEF CancelJob
  <2>. QED BY <1>3, <2>1, <2>2, RowsChange DEF CancelJob
<1>4. ASSUME NEW f \in Files, DeadlinePasses(f) PROVE MovesTyped /\ TopDone
  <2> DEFINE r == [row[f] EXCEPT !.late = TRUE]
  <2>1. row[f] \in Row /\ r \in Row /\ r.retries = row[f].retries BY <1>1, Numbers DEF Row
  <2>2. row' = [row EXCEPT ![f] = r] BY <1>4 DEF DeadlinePasses
  <2> HIDE DEF r
  <2>3. row' \in [Files -> Row] /\ \A h \in Files : row'[h].retries = row[h].retries BY <1>1, <2>1, <2>2 DEF TypeOK
  <2>. QED BY <1>4, <2>3, RowsChange DEF DeadlinePasses
<1>. QED BY <1>2, <1>3, <1>4 DEF Unwanted, BackendRestart, CancelRemoteTransfer, RemoteStep

LEMMA RestartDone ==
  ASSUME TransferInv, Restart PROVE MovesTyped /\ TopDone
<1>1. TypeOK BY DEF TransferInv
<1>2. /\ dl' = DlIdle /\ dl'.pc = "idle" /\ dl'.attempt = 0 /\ \A f \in Files : dl'.live[f] = "NONE"
      /\ UNCHANGED <<row, job, attempt, candidate>>
      /\ \A g \in Goroutines : top'[g] = TopIdle
      /\ TopIdle.pc = "idle" /\ TopIdle.candidate = 0 /\ TopIdle.attempt = 0
  BY DEF Restart, DlIdle, TopIdle, NoRemote
<1>3. MovesTyped BY <1>1, <1>2, Idles DEF MovesTyped, TypeOK, Restart
<1>4. attempt \in Nat /\ candidate \in Nat BY <1>1, Numbers
<1>5. sel'.pc = "idle" /\ dwn'.pc = "idle" BY <1>2 DEF sel, dwn, Goroutines
<1>6. \A h \in Files : ~Ahead(dwn, h)' /\ ~DlAhead(h)' /\ ~Ahead(sel, h)' /\ ~SelAhead(h)'
  BY <1>2, <1>5 DEF Ahead, DlAhead, SelAhead, InLoop, AtFile
<1>7. DlShape' BY <1>2 DEF DlShape, AtFile
<1>8. TopShape' BY <1>2, <1>4 DEF TopShape, Sending
<1>9. Activated' BY <1>2, <1>4, <1>5 DEF TransferInv, Activated, Sending
<1>10. RetriesAbove' /\ RetriesBelow' BY <1>6 DEF RetriesAbove, RetriesBelow
<1>11. LateKnown' BY <1>2 DEF LateKnown, InLoop, AtFile
<1>. QED BY <1>3, <1>7, <1>8, <1>9, <1>10, <1>11 DEF TopDone

-----------------------------------------------------------------------------
(* Every step *)

LEMMA TransferInit == Init => TransferInv
<1>. SUFFICES ASSUME Init PROVE TransferInv OBVIOUS
<1>1. PICK t : t = [TopIdle EXCEPT !.pc = "read", !.candidate = 1] OBVIOUS
<1>2. 1 \in Attempts /\ 1 \in 1 .. MaxAttempts BY TransfersAssumption DEF Attempts
<1>3. /\ t \in TopTicks /\ t.pc = "read" /\ t.attempt = 0 /\ t.candidate = 1 BY <1>1, <1>2, Idles DEF TopIdle, TopTicks
<1>4. \A g \in Goroutines : top[g] = IF g = "downloading" THEN TopIdle ELSE t BY <1>1 DEF Init
<1>5. /\ sel = t /\ dwn = TopIdle /\ TopIdle.pc = "idle" /\ TopIdle.attempt = 0 /\ TopIdle.candidate = 0
      /\ top \in [Goroutines -> TopTicks]
  BY <1>3, <1>4, Idles DEF Init, sel, dwn, Goroutines, TopIdle
<1>6. /\ row = PendingRows /\ dl = DlIdle /\ dl.pc = "idle" /\ dl.attempt = 0 /\ attempt = 1 /\ candidate = 1
      /\ job = "DOWNLOADING" /\ \A f \in Files : row[f].retries = 0 /\ row[f].late = FALSE /\ dl.live[f] = "NONE"
  BY DEF Init, DlIdle, PendingRows, PendingRow, NoRemote
<1>7. TypeOK BY <1>2, <1>5, <1>6, Idles, TransfersAssumption DEF Init, TypeOK
<1>8. DlShape BY <1>6 DEF DlShape, AtFile
<1>9. TopShape BY <1>3, <1>4, <1>5, <1>6 DEF TopShape, Sending
<1>10. Activated BY <1>3, <1>5, <1>6 DEF Activated, Sending
<1>11. \A h \in Files : ~Ahead(dwn, h) /\ ~DlAhead(h) /\ ~Ahead(sel, h)
  BY <1>3, <1>5, <1>6 DEF Ahead, DlAhead, InLoop, AtFile
<1>12. RetriesAbove
  <2>1. 0 <= MaxTransferRetries BY TransfersAssumption
  <2>. QED BY <1>6, <1>11, <2>1 DEF RetriesAbove
<1>13. RetriesBelow BY <1>11 DEF RetriesBelow
<1>14. LateKnown BY <1>6 DEF LateKnown, InLoop, AtFile
<1>. QED BY <1>7, <1>8, <1>9, <1>10, <1>12, <1>13, <1>14 DEF TransferInv

LEMMA TickSteps ==
  ASSUME TransferInv, DlDone, RestOK' PROVE TransferInv'
<1>1. TopShape' /\ Activated' /\ RetriesAbove' /\ RetriesBelow' BY DlWritesKeep DEF DlDone
<1>2. TypeOK' BY DEF DlDone, DlWrites, RestOK, TransferInv, TypeOK
<1>. QED BY <1>1, <1>2 DEF DlDone, TransferInv

LEMMA OtherSteps ==
  ASSUME MovesTyped, TopDone, RestOK' PROVE TransferInv'
BY DEF MovesTyped, TopDone, RestOK, TransferInv, TypeOK

LEMMA TransferStep == TransferInv /\ [Next]_vars => TransferInv'
<1>. SUFFICES ASSUME TransferInv, [Next]_vars PROVE TransferInv' OBVIOUS
<1>1. CASE UNCHANGED vars
  <2>1. UNCHANGED <<job, row, attempt, candidate, remote, top, dl, cancelling, faults>> BY <1>1 DEF vars
  <2>2. TypeOK' BY <2>1 DEF TransferInv, TypeOK
  <2>3. MovesTyped BY <2>1 DEF MovesTyped, TransferInv, TypeOK
  <2>4. TopDone BY <2>1, <2>3, RowsChange DEF MovesTyped
  <2>. QED BY <2>2, <2>4 DEF TopDone, TransferInv
<1>2. ASSUME NEW g \in Goroutines, TopUp(g) PROVE TransferInv'
  <2>1. TopMoves(g) BY <1>2, TopUpMoves
  <2>2. MovesTyped BY <2>1 DEF TopMoves, MovesTyped, TransferInv, TypeOK
  <2>. QED BY <1>2, <2>1, <2>2, TopMovesKeep, TopRest, OtherSteps
<1>3. CASE Reconcile
  <2>1. RestOK' BY <1>3, ReconcileRest
  <2>2. DlDone BY <1>3, ReadsDone, RowAttachDone, ReconcileRows, AtFileDone DEF Reconcile
  <2>. QED BY <2>1, <2>2, TickSteps
<1>4. CASE Resolve
  <2>1. RestOK' BY <1>4, ResolveRest
  <2>2. DlDone BY <1>4, ResolveDone, SiblingsDone DEF Resolve
  <2>. QED BY <2>1, <2>2, TickSteps
<1>5. CASE TopUpDownloads BY <1>5, TopUpDownloadsDone, ResolveRest, OtherSteps
<1>6. CASE NextAttempt BY <1>6, NextAttemptDone, OtherRest, OtherSteps
<1>7. CASE Environment
  <2>1. RestOK' BY <1>7, OtherRest
  <2>2. ASSUME NEW g \in Goroutines, TopFails(g) PROVE TransferInv'
    <3>1. TopMoves(g) BY <2>2, TopUpMoves
    <3>2. MovesTyped BY <3>1 DEF TopMoves, MovesTyped, TransferInv, TypeOK
    <3>. QED BY <2>1, <3>1, <3>2, TopMovesKeep, OtherSteps
  <2>3. ASSUME NEW f \in Files, SiblingWriteFails(f) PROVE TransferInv' BY <2>1, <2>3, SiblingsDone, TickSteps
  <2>4. CASE TickFails BY <2>1, <2>4, ResolveDone, TickSteps
  <2>5. CASE Restart BY <2>1, <2>5, RestartDone, OtherSteps
  <2>6. CASE \/ CancelJob \/ Unwanted \/ BackendRestart
             \/ \E f \in Files : CancelRemoteTransfer(f) \/ DeadlinePasses(f) \/ RemoteStep(f)
    BY <2>1, <2>6, EnvironmentDone, OtherSteps
  <2>. QED BY <1>7, <2>2, <2>3, <2>4, <2>5, <2>6 DEF Environment
<1>. QED BY <1>1, <1>2, <1>3, <1>4, <1>5, <1>6, <1>7 DEF Next, Selecting, Downloading, Goroutines

LEMMA SpecTransfers == Spec => []TransferInv
<1>. QED BY TransferInit, TransferStep, PTL DEF Spec

\* No file is retried more than once past MaxTransferRetries, although
\* Selecting's top-up, Downloading's and its reconcile pass each decide from
\* the count they have read (retryOrFail, finishStalled, topUpCandidate).
THEOREM RetriesBounded == Spec => []TypeOK
BY SpecTransfers, PTL DEF TransferInv

-----------------------------------------------------------------------------
(* How a row ends *)

Justified(f) == row[f].retries >= MaxTransferRetries \/ dl.live[f] = "FAILED" \/ row[f].late
Ends ==
  \A f \in Files :
    /\ attempt' = attempt /\ row[f].st \in Settled => row'[f].st = row[f].st
    /\ row[f].st \in Live /\ row'[f].st = "ERRORED" => Justified(f)

LEMMA TouchesEnds ==
  ASSUME NEW f \in Files, NEW a, NEW S, Touches(f, a, S),
         a = attempt /\ row[f].st \in Live /\ "ERRORED" \in S => Justified(f)
  PROVE Ends
<1>1. Live \cap Settled = {} /\ "ERRORED" \notin Live BY DEF Live, Sent, Settled
<1>. QED BY <1>1 DEF Touches, Ends

LEMMA KeepsEnds == ASSUME UNCHANGED row PROVE Ends
BY DEF Ends, Live, Sent

LEMMA ProgressEnds ==
  ASSUME TypeOK, NEW f \in Files, NEW a, NEW st \in Live \cup Settled, UpdateTransferProgress(f, a, st),
         a = attempt /\ st = "ERRORED" => Justified(f)
  PROVE Ends
BY ProgressTouches, TouchesEnds

LEMMA RetryEnds ==
  ASSUME TypeOK, NEW f \in Files, NEW a, row[f].retries <= MaxTransferRetries, RetryTransfer(f, a)
  PROVE Ends
BY RetryTouches, TouchesEnds

LEMMA ParkEnds ==
  ASSUME TypeOK, NEW f \in Files, NEW a, ParkJobForCandidate(f, a), a = attempt => Justified(f)
  PROVE Ends
BY ParkTouches, TouchesEnds

\* The retries the tick has read are spent: so are the row's.
LEMMA DlSpent ==
  ASSUME TransferInv, NEW f \in Files, DlAhead(f)
  PROVE /\ dl.attempt = attempt /\ ~WithinBudget(dl.rows[f].retries) => Justified(f)
        /\ WithinBudget(dl.rows[f].retries) => row[f].retries <= MaxTransferRetries
<1>1. row[f].retries \in Nat /\ dl.rows[f].retries \in Nat
  <2>1. \A r \in Row : r.retries \in Nat BY TransfersAssumption DEF Row
  <2>2. dl.rows \in [Files -> Row] /\ row \in [Files -> Row] BY DlTyped DEF TransferInv, TypeOK
  <2>. QED BY <2>1, <2>2
<1>2. dl.attempt = attempt => dl.rows[f].retries <= row[f].retries BY DEF TransferInv, RetriesBelow
<1>3. row[f].retries <= dl.rows[f].retries + Spare(f) /\ Spare(f) \in {0, 1} BY DEF TransferInv, RetriesAbove, Spare
<1>. QED BY <1>1, <1>2, <1>3, TransfersAssumption DEF WithinBudget, Justified

LEMMA FinishEnds ==
  ASSUME TransferInv, NEW f \in Files, DlAhead(f), FinishStalled(f) PROVE Ends
<1>1. TypeOK BY DEF TransferInv
<1>2. CASE WithinBudget(dl.rows[f].retries) BY <1>1, <1>2, DlSpent, RetryEnds DEF FinishStalled
<1>3. CASE ~WithinBudget(dl.rows[f].retries) BY <1>1, <1>3, DlSpent, ProgressEnds DEF FinishStalled, Settled
<1>. QED BY <1>2, <1>3

LEMMA ReconcileRowsEnd ==
  ASSUME TransferInv, NEW f \in Files,
         \/ \E loop \in {"overdue", "active"} : RowAttach(loop, f) \/ RowStallEnded(loop, f)
         \/ OverdueCancel(f) \/ OverdueCancelFails(f) \/ OverduePark(f) \/ OverdueLost(f)
         \/ ActiveLost(f) \/ ActiveRejected(f) \/ ActiveStalled(f) \/ ActiveCopy(f)
  PROVE Ends
<1>1. TypeOK /\ dl.pc = "row" /\ f \in dl.todo /\ DlAhead(f)
  BY DEF RowAttach, RowStallEnded, OverdueCancel, OverdueCancelFails, OverduePark, OverdueLost, ActiveLost,
     ActiveRejected, ActiveStalled, ActiveCopy, AtRow, InLoop, DlAhead, TransferInv
<1>2. ASSUME NEW loop, RowAttach(loop, f) PROVE Ends
  <2>1. CASE UNCHANGED row BY <2>1, KeepsEnds
  <2>2. CASE row' = [row EXCEPT ![f].sid = TRUE]
    <3>1. \A h \in Files : row'[h].st = row[h].st BY <1>1, <2>2, Numbers DEF TypeOK, Row
    <3>. QED BY <3>1 DEF Ends, Live, Sent
  <2>. QED BY <1>2, <2>1, <2>2 DEF RowAttach
<1>3. ASSUME NEW loop, RowStallEnded(loop, f) PROVE Ends BY <1>1, <1>3, FinishEnds DEF RowStallEnded
<1>4. CASE OverdueCancel(f) \/ OverdueCancelFails(f) BY <1>4, KeepsEnds DEF OverdueCancel, OverdueCancelFails
<1>5. CASE OverduePark(f)
  <2>1. dl.attempt = attempt => row[f].late BY <1>1, <1>5 DEF OverduePark, AtRow, TransferInv, LateKnown, InLoop
  <2>. QED BY <1>1, <1>5, <2>1, ParkEnds DEF OverduePark, Justified
<1>6. CASE OverdueLost(f) BY <1>1, <1>6, ProgressEnds DEF OverdueLost, Settled
<1>7. CASE ActiveLost(f)
  <2>1. CASE WithinBudget(dl.rows[f].retries) BY <1>1, <1>7, <2>1, DlSpent, RetryEnds DEF ActiveLost
  <2>2. CASE ~WithinBudget(dl.rows[f].retries) BY <1>1, <1>7, <2>2, DlSpent, ParkEnds DEF ActiveLost
  <2>. QED BY <2>1, <2>2
<1>8. CASE ActiveRejected(f) BY <1>1, <1>8, DlSpent, RetryEnds DEF ActiveRejected, RetryRejected
<1>9. CASE ActiveStalled(f) BY <1>1, <1>9, KeepsEnds, ProgressEnds DEF ActiveStalled, Live, Sent
<1>10. CASE ActiveCopy(f)
  <2>1. PICK st : /\ UpdateTransferProgress(f, dl.attempt, st)
                  /\ st = IF dl.live[f] \in {"REJECTED", "FAILED"} THEN "ERRORED" ELSE dl.live[f]
    BY <1>10 DEF ActiveCopy
  <2>2. dl.live[f] \in Remote \ {"NONE", "STOPPING"}
    BY <1>10, DlTyped DEF TransferInv, DlShape, ActiveCopy, Identified, Matched
  <2>3. st \in Live \cup Settled /\ (st = "ERRORED" => dl.live[f] \in {"REJECTED", "FAILED"})
    BY <2>1, <2>2 DEF Remote, Running, Ended, Live, Sent, Settled
  <2>4. dl.live[f] = "REJECTED" => ~WithinBudget(dl.rows[f].retries) BY <1>10 DEF ActiveCopy, RetryRejected
  <2>5. dl.attempt = attempt /\ st = "ERRORED" => Justified(f) BY <1>1, <2>3, <2>4, DlSpent DEF Justified
  <2>. QED BY <1>1, <2>1, <2>3, <2>5, ProgressEnds
<1>. QED BY <1>2, <1>3, <1>4, <1>5, <1>6, <1>7, <1>8, <1>9, <1>10

LEMMA TopRefusedEnds ==
  ASSUME TransferInv, NEW g \in Goroutines, TopRefused(g) PROVE Ends
<1> DEFINE f == top[g].f
<1>1. TypeOK /\ top[g].pc = "refused" BY DEF TransferInv, TopRefused
<1>2. f \in Files /\ Ahead(top[g], f) BY <1>1 DEF TransferInv, TopShape, Sending, Ahead
<1>3. top[g].retries[f] \in Nat /\ row[f].retries \in Nat
  <2>1. \A t \in TopTicks, h \in Files : t.retries[h] \in Nat BY TransfersAssumption DEF TopTicks, RetriesRead
  <2>2. \A r \in Row : r.retries \in Nat BY TransfersAssumption DEF Row
  <2>3. top[g] \in TopTicks /\ row[f] \in Row BY <1>1, <1>2 DEF TypeOK
  <2>. QED BY <1>2, <2>1, <2>2, <2>3
<1>4. CASE WithinBudget(top[g].retries[f]) /\ RetryTransfer(f, top[g].attempt)
  <2>1. row[f].retries <= MaxTransferRetries
    <3>1. CASE g = "selecting" BY <1>2, <3>1 DEF TransferInv, RetriesAbove, SelAhead, sel
    <3>2. CASE g = "downloading"
      <4>1. row[f].retries <= top[g].retries[f] + Spare(f) /\ Spare(f) \in {0, 1}
        BY <1>2, <3>2 DEF TransferInv, RetriesAbove, Spare, dwn
      <4>. QED BY <1>3, <1>4, <4>1, TransfersAssumption DEF WithinBudget
    <3>. QED BY <3>1, <3>2 DEF Goroutines
  <2>. QED BY <1>1, <1>2, <1>4, <2>1, RetryEnds
<1>5. CASE ~WithinBudget(top[g].retries[f]) /\ UpdateTransferProgress(f, top[g].attempt, "ERRORED")
  <2>1. ASSUME top[g].attempt = attempt PROVE Justified(f)
    <3>1. top[g].candidate = candidate BY <1>1, <2>1 DEF TransferInv, TopShape, Sending
    <3>2. top[g].retries[f] <= row[f].retries BY <1>2, <3>1 DEF TransferInv, RetriesBelow, sel, dwn, Goroutines
    <3>. QED BY <1>3, <1>5, <3>2, TransfersAssumption DEF WithinBudget, Justified
  <2>. QED BY <1>1, <1>2, <1>5, <2>1, ProgressEnds DEF Settled
<1>. QED BY <1>4, <1>5 DEF TopRefused

LEMMA OtherEnds ==
  ASSUME TransferInv, NextAttempt \/ TopUpDownloads \/ Environment PROVE Ends
<1>1. TypeOK BY DEF TransferInv
<1>2. CASE UNCHANGED row BY <1>2, KeepsEnds
<1>3. CASE NextAttempt
  <2>1. attempt' # attempt /\ \A f \in Files : row'[f].st = "PENDING"
    BY <1>1, <1>3, Numbers DEF NextAttempt, PendingRows, PendingRow
  <2>. QED BY <2>1 DEF Ends
<1>4. CASE CancelJob
  <2>1. \A f \in Files : row'[f] = row[f] \/ (row[f].st \in Live /\ row'[f] = [row[f] EXCEPT !.st = "CANCELLED"])
    BY <1>4 DEF CancelJob
  <2>2. \A r \in Row : [r EXCEPT !.st = "CANCELLED"].st = "CANCELLED" BY DEF Row
  <2>3. \A f \in Files : row[f] \in Row BY <1>1, Numbers
  <2>. QED BY <2>1, <2>2, <2>3 DEF Ends, Live, Sent, Settled
<1>5. ASSUME NEW f \in Files, DeadlinePasses(f) PROVE Ends
  <2>1. \A h \in Files : row'[h].st = row[h].st BY <1>1, <1>5, Numbers DEF DeadlinePasses, TypeOK, Row
  <2>. QED BY <2>1 DEF Ends, Live, Sent
<1>. QED BY <1>2, <1>3, <1>4, <1>5 DEF TopUpDownloads, Environment, TopFails, SiblingWriteFails, Unwanted, Restart,
       BackendRestart, TickFails, CancelRemoteTransfer, RemoteStep

LEMMA StepEnds == TransferInv /\ [Next]_vars => [Ends]_vars
<1>. SUFFICES ASSUME TransferInv, Next PROVE Ends OBVIOUS
<1>1. TypeOK BY DEF TransferInv
<1>2. ASSUME NEW g \in Goroutines, TopUp(g) PROVE Ends
  <2>1. CASE TopRefused(g) BY <2>1, TopRefusedEnds
  <2>2. ASSUME NEW f \in Files, TopIntent(g, f) PROVE Ends
    <3>1. CASE UNCHANGED row BY <3>1, KeepsEnds
    <3>2. CASE Recordable(f, top[g].candidate) /\ RecordEnqueueIntent(f)
      <4>1. row[f].st \in Live /\ \A h \in Files \ {f} : row'[h] = row[h]
        BY <1>1, <3>2 DEF Recordable, RecordEnqueueIntent, TypeOK
      <4>2. row'[f].st = "QUEUED" BY <1>1, <3>2, Numbers DEF RecordEnqueueIntent, TypeOK, Row
      <4>. QED BY <4>1, <4>2 DEF Ends, Live, Sent, Settled
    <3>. QED BY <2>2, <3>1, <3>2 DEF TopIntent
  <2>3. CASE TopAttach(g)
    <3>1. CASE UNCHANGED row BY <3>1, KeepsEnds
    <3>2. ASSUME NEW id, row' = [row EXCEPT ![top[g].f].sid = id] PROVE Ends
      <4>1. \A h \in Files : row'[h].st = row[h].st BY <1>1, <3>2, Numbers DEF TypeOK, Row
      <4>. QED BY <4>1 DEF Ends, Live, Sent
    <3>. QED BY <2>3, <3>1, <3>2 DEF TopAttach
  <2>. QED BY <1>2, <2>1, <2>2, <2>3, KeepsEnds DEF TopUp, TopRead, TopEnqueue, TopCompensate, TopEnd
<1>3. CASE Reconcile
  <2>1. CASE OverdueCancelled
    <3>1. dl.f \in Files BY <2>1 DEF OverdueCancelled, TransferInv, DlShape, AtFile
    <3>. QED BY <1>1, <2>1, <3>1, ProgressEnds DEF OverdueCancelled, Settled
  <2>2. CASE StallFinish
    <3>1. dl.f \in Files /\ DlAhead(dl.f) BY <2>2 DEF StallFinish, TransferInv, DlShape, AtFile, DlAhead
    <3>. QED BY <2>2, <3>1, FinishEnds DEF StallFinish
  <2>. QED BY <1>3, <2>1, <2>2, KeepsEnds, ReconcileRowsEnd
    DEF Reconcile, ListDownloads, TransfersPastDeadline, ActiveTransfers, ReconcileEnd, RowCompensate,
        StallCancel, Purge
<1>4. CASE Resolve
  <2>1. ASSUME NEW f \in Files, UpdateTransferProgress(f, dl.attempt, "CANCELLED") PROVE Ends
    BY <1>1, <2>1, ProgressEnds DEF Settled
  <2>. QED BY <1>4, <2>1, KeepsEnds DEF Resolve, ResolveRead, SiblingsEnd, CleanupFolder, FailCandidate,
       DownloadDone, SiblingPending, SiblingSent
<1>. QED BY <1>2, <1>3, <1>4, OtherEnds DEF Next, Selecting, Downloading, Goroutines

\* A settled row is not sent again by a stale write, and a file is given up
\* as ERRORED only for a reason (RecordEnqueueIntent, reconcile): for every
\* release, retry budget, backend and number of faults.
THEOREM RowsEnd == Spec => RowsEndRightly
<1>1. [Ends]_vars => [\A f \in Files :
        (attempt' = attempt /\ row[f].st \in Settled) => row'[f].st = row[f].st]_vars
  BY DEF Ends
<1>2. [Ends]_vars => [\A f \in Files :
        (row[f].st \in Live /\ row'[f].st = "ERRORED") =>
          \/ row[f].retries >= MaxTransferRetries
          \/ dl.live[f] = "FAILED" \/ row[f].late]_vars
  BY DEF Ends, Justified
<1>3. Spec => SettledIsFinal BY <1>1, SpecTransfers, StepEnds, PTL DEF Spec, SettledIsFinal
<1>4. Spec => ErroredIsJustified BY <1>2, SpecTransfers, StepEnds, PTL DEF Spec, ErroredIsJustified
<1>. QED BY <1>3, <1>4 DEF RowsEndRightly

-----------------------------------------------------------------------------
(* Counting files *)

LEMMA Counts ==
  ASSUME NEW T \in SUBSET Files, NEW S \in SUBSET T
  PROVE /\ IsFiniteSet(S) /\ Cardinality(S) \in Nat /\ Cardinality(T) \in Nat
        /\ Cardinality(S) <= Cardinality(T)
<1>1. IsFiniteSet(T) BY TransfersAssumption, FS_Subset
<1>. QED BY <1>1, FS_Subset, FS_CardinalityType

LEMMA OneMore ==
  ASSUME NEW S \in SUBSET Files, NEW f \in Files
  PROVE Cardinality(S \cup {f}) <= Cardinality(S) + 1
BY Counts, FS_AddElement

\* Any files have a last one, in filename order.
LEMMA LastFile ==
  ASSUME NEW S \in SUBSET Files, S # {} PROVE \E f \in S : \A h \in S : h <= f
<1> DEFINE After(f) == {h \in S : f < h}
           T == {After(f) : f \in S}
<1>1. IsWellFoundedOn(StrictSubsetOrdering(S), FiniteSubsetsOf(S)) BY FS_StrictSubsetOrderingWellFounded
<1>2. \A f \in S : After(f) \in SUBSET S /\ IsFiniteSet(After(f)) BY Counts
<1>3. T \subseteq FiniteSubsetsOf(S) /\ T # {} BY <1>2 DEF FiniteSubsetsOf
<1>4. PICK x \in T : \A y \in T : ~(<<y, x>> \in StrictSubsetOrdering(S))
  <2> HIDE DEF T
  <2>. QED BY <1>1, <1>3, WFMin
<1>5. PICK f \in S : x = After(f) BY <1>4
<1>6. ASSUME NEW h \in S, f < h PROVE FALSE
  <2>1. S \subseteq Nat BY TransfersAssumption
  <2>2. \A k \in S : h < k => f < k BY <1>6, <2>1
  <2>3. After(h) \subseteq After(f) BY <2>2
  <2>4. h \in After(f) /\ h \notin After(h) BY <1>6, <2>1
  <2>5. <<After(h), After(f)>> \in StrictSubsetOrdering(S) BY <1>2, <2>3, <2>4 DEF StrictSubsetOrdering
  <2>. QED BY <1>4, <1>5, <2>5
<1>. QED BY <1>6, TransfersAssumption

-----------------------------------------------------------------------------
(* The first activation of a candidate, with the native backend: what the    *)
(* list said was over is over still, for its records are kept until removed. *)

Over(f) == remote[f] \in Ended \cup {"STOPPING"}
Gone ==
  /\ dl.pc \notin InLoop => dl.handled = {} /\ dl.loop = "none"
  /\ dl.pc \in InLoop => dl.attempt = attempt /\ dl.todo \cap dl.handled = {}
  /\ dl.pc \in {"listed"} \cup InLoop =>
       \A f \in Files \ dl.handled :
         dl.live[f] \in Ended /\ (dl.loop = "active" => f \in dl.todo) => Over(f)
  /\ dl.pc \in {"cancelled", "finish", "purge"} => Over(dl.f)

\* Only a restart and the removal of a finished transfer forget one.
LEMMA OverStays ==
  ASSUME TransferInv, Native, Next, ~Restart, NEW f \in Files, Over(f), ~(Purge /\ f = dl.f)
  PROVE Over(f)'
<1>1. TypeOK BY DEF TransferInv
<1>2. CASE UNCHANGED remote BY <1>2 DEF Over
<1>3. ASSUME NEW h, EnqueueRemote(h) PROVE Over(f)' BY <1>1, <1>3 DEF EnqueueRemote, Over, TypeOK, Running, Ended
<1>4. ASSUME NEW h, CancelRemote(h) PROVE Over(f)' BY <1>1, <1>4 DEF CancelRemote, Over, TypeOK, Running, Ended
<1>5. ASSUME NEW h, TryCancelRemote(h) PROVE Over(f)' BY <1>2, <1>4, <1>5 DEF TryCancelRemote
<1>6. ASSUME NEW h, RemoteStep(h) PROVE Over(f)' BY <1>1, <1>6 DEF RemoteStep, Over, TypeOK, Running, Ended
<1>7. CASE Purge BY SMTT(40), <1>1, <1>7 DEF Purge, RemoveRemote, Over, TypeOK
<1>8. CASE \E g \in Goroutines : TopUp(g)
  BY <1>2, <1>3, <1>5, <1>8 DEF TopUp, TopRead, TopIntent, TopEnqueue, TopRefused, TopAttach, TopCompensate, TopEnd
<1>9. CASE Reconcile BY <1>2, <1>4, <1>5, <1>7, <1>9
  DEF Reconcile, ListDownloads, TransfersPastDeadline, ActiveTransfers, ReconcileEnd, RowAttach,
      RowStallEnded, OverdueCancel, OverdueCancelFails, OverduePark, OverdueLost, ActiveLost,
      ActiveRejected, ActiveStalled, ActiveCopy, RowCompensate, OverdueCancelled, StallCancel, StallFinish
<1>10. CASE Resolve \/ TopUpDownloads \/ NextAttempt BY SMTT(40), <1>2, <1>4, <1>10
  DEF Resolve, ResolveRead, SiblingsEnd, CleanupFolder, FailCandidate, DownloadDone,
      SiblingPending, SiblingSent, TopUpDownloads, NextAttempt
<1>11. CASE Environment BY <1>2, <1>5, <1>6, <1>11 DEF Environment, TopFails, SiblingWriteFails, CancelJob, Unwanted,
     BackendRestart, TickFails, CancelRemoteTransfer, DeadlinePasses
<1>. QED BY <1>8, <1>9, <1>10, <1>11 DEF Next, Selecting, Downloading, Goroutines

\* The tick is idle or past its row loops.
LEMMA GoneOutside ==
  ASSUME dl'.pc \notin {"listed"} \cup InLoop, dl'.handled = {}, dl'.loop = "none" PROVE Gone'
BY DEF Gone, InLoop, AtFile

\* It stays in its row loop.
LEMMA GoneMoves ==
  ASSUME TransferInv, Gone, dl.pc \in InLoop, dl'.pc \in InLoop, UNCHANGED attempt,
         dl'.live = dl.live, dl'.loop = dl.loop, dl'.attempt = dl.attempt, dl'.todo \subseteq dl.todo,
         dl.handled \subseteq dl'.handled, dl'.todo \cap dl'.handled = {},
         \A f \in Files \ dl'.handled : Over(f) => Over(f)',
         dl'.pc \in {"cancelled", "finish", "purge"} => Over(dl.f)'
  PROVE Gone'
<1>1. dl'.pc \in {"listed"} \cup InLoop =>
        \A f \in Files \ dl'.handled : dl'.live[f] \in Ended /\ (dl'.loop = "active" => f \in dl'.todo) => Over(f)'
  BY DEF Gone
<1>. QED BY <1>1 DEF Gone

\* ... and has no say for f any more.
LEMMA GoneLeaves ==
  ASSUME TransferInv, Gone, NEW f \in Files, dl.pc \in InLoop, Skip(f) \/ Handled(f), UNCHANGED attempt,
         \A h \in Files \ dl'.handled : Over(h) => Over(h)'
  PROVE Gone'
<1>1. /\ dl'.attempt = dl.attempt /\ dl'.pc = "row" /\ dl'.loop = dl.loop /\ dl'.live = dl.live
      /\ dl'.todo = dl.todo \ {f}
  BY Leaves
<1>2. dl'.handled \in {dl.handled, dl.handled \cup {f}}
  <2>1. dl \in DlTicks BY DEF TransferInv, TypeOK
  <2>. QED BY <2>1 DEF Skip, Handled, Skipped, DlTicks
<1>3. dl'.todo \subseteq dl.todo /\ dl.handled \subseteq dl'.handled /\ dl'.todo \cap dl'.handled = {}
  BY <1>1, <1>2 DEF Gone
<1>4. dl'.pc \in InLoop /\ dl'.pc \notin {"cancelled", "finish", "purge"} BY <1>1 DEF InLoop
<1>. QED BY <1>1, <1>3, <1>4, GoneMoves

LEMMA GoneGoes ==
  ASSUME TransferInv, Gone, NEW f \in Files, dl.pc \in InLoop, NEW pc \in AtFile, Goto(pc, f), UNCHANGED attempt,
         \A h \in Files : Over(h) => Over(h)',
         pc \in {"cancelled", "finish", "purge"} => Over(f)'
  PROVE Gone'
<1>1. /\ dl'.attempt = dl.attempt /\ dl'.pc = pc /\ dl'.f = f /\ dl'.loop = dl.loop /\ dl'.live = dl.live
      /\ dl'.todo = dl.todo \ {f}
  BY GoesTo
<1>2. dl'.handled = dl.handled
  <2>1. dl \in DlTicks BY DEF TransferInv, TypeOK
  <2>. QED BY <2>1 DEF Goto, DlTicks
<1>3. pc \in {"cancelled", "finish", "purge"} => Over(dl.f)' BY <1>1 DEF Over
<1>. QED BY <1>1, <1>2, <1>3, GoneMoves DEF Gone, InLoop

\* A tick acts on an ended transfer that was over, and still is.
LEMMA ListedOver ==
  ASSUME TransferInv, Gone, NEW f \in Files, dl.pc = "row", f \in dl.todo, dl.live[f] \in Ended
  PROVE Over(f)
BY DEF Gone, InLoop

LEMMA CancelOver ==
  ASSUME TransferInv, Native, NEW f \in Files, CanCancel(f), CancelRemote(f) PROVE Over(f)'
<1>1. remote \in [Files -> Remote] /\ remote[f] # "NONE" BY DEF TransferInv, TypeOK, CanCancel
<1>2. remote[f] \in Remote \ {"NONE"} BY <1>1
<1>. QED BY <1>1, <1>2 DEF CancelRemote, Over, Remote, Running, Ended

LEMMA GoneRows ==
  ASSUME TransferInv, Gone, Native, Next, UNCHANGED attempt, NEW f \in Files,
         \/ \E loop \in {"overdue", "active"} : RowAttach(loop, f) \/ RowStallEnded(loop, f)
         \/ OverdueCancel(f) \/ OverdueCancelFails(f) \/ OverduePark(f) \/ OverdueLost(f)
         \/ ActiveLost(f) \/ ActiveRejected(f) \/ ActiveStalled(f) \/ ActiveCopy(f)
  PROVE Gone'
<1>1. dl.pc = "row" /\ dl.pc \in InLoop /\ f \in dl.todo
  BY DEF RowAttach, RowStallEnded, OverdueCancel, OverdueCancelFails, OverduePark, OverdueLost, ActiveLost,
     ActiveRejected, ActiveStalled, ActiveCopy, AtRow, InLoop
<1>2. \A h \in Files : Over(h) => Over(h)'
  <2>1. ~Restart /\ ~Purge
    <3>1. ~Purge BY <1>1 DEF Purge
    <3>2. UNCHANGED faults BY DEF RowAttach, RowStallEnded, OverdueCancel, OverdueCancelFails, OverduePark, OverdueLost,
         ActiveLost, ActiveRejected, ActiveStalled, ActiveCopy, DlUnchanged
    <3>3. faults \in Nat BY DEF TransferInv, TypeOK
    <3>. QED BY <3>1, <3>2, <3>3 DEF Restart, Fault
  <2>. QED BY <2>1, OverStays
<1>3. dl.live[f] \in Ended => Over(f)' BY <1>1, <1>2, ListedOver
<1>4. {"compensate", "cancelled", "stalled", "finish", "purge"} = AtFile BY DEF AtFile
<1>5. ASSUME Skip(f) \/ Handled(f) PROVE Gone' BY <1>1, <1>2, <1>5, GoneLeaves
<1>6. ASSUME NEW loop, RowAttach(loop, f) PROVE Gone'
  <2>1. CASE Goto("compensate", f) BY <1>1, <1>2, <1>4, <2>1, GoneGoes
  <2>2. CASE dl' = [dl EXCEPT !.rows[f].sid = TRUE]
    <3>1. dl \in DlTicks BY DEF TransferInv, TypeOK
    <3>2. /\ dl'.attempt = dl.attempt /\ dl'.pc = dl.pc /\ dl'.f = dl.f /\ dl'.loop = dl.loop
          /\ dl'.live = dl.live /\ dl'.todo = dl.todo /\ dl'.handled = dl.handled
      BY <2>2, <3>1 DEF DlTicks
    <3>3. dl'.todo \cap dl'.handled = {} BY <1>1, <3>2 DEF Gone
    <3>4. dl'.pc \notin {"cancelled", "finish", "purge"} BY <1>1, <3>2
    <3>. QED BY <1>1, <1>2, <3>2, <3>3, <3>4, GoneMoves
  <2>. QED BY <1>6, <2>1, <2>2 DEF RowAttach
<1>7. ASSUME NEW loop, RowStallEnded(loop, f) PROVE Gone'
  BY <1>1, <1>2, <1>3, <1>4, <1>7, GoneGoes DEF RowStallEnded, StallEnded, Ended
<1>8. CASE OverdueCancel(f) BY <1>1, <1>2, <1>4, <1>8, CancelOver, GoneGoes DEF OverdueCancel
<1>9. CASE ActiveRejected(f) BY <1>1, <1>2, <1>3, <1>4, <1>9, GoneGoes DEF ActiveRejected, RetryRejected, Ended
<1>10. CASE ActiveStalled(f) BY <1>1, <1>2, <1>4, <1>10, GoneGoes DEF ActiveStalled
<1>11. CASE ActiveCopy(f) BY <1>1, <1>2, <1>3, <1>4, <1>5, <1>11, GoneGoes DEF ActiveCopy
<1>. QED BY <1>5, <1>6, <1>7, <1>8, <1>9, <1>10, <1>11
  DEF OverdueCancelFails, OverduePark, OverdueLost, ActiveLost

LEMMA GoneAtFile ==
  ASSUME TransferInv, Gone, Native, Next, UNCHANGED attempt,
         RowCompensate \/ Purge \/ OverdueCancelled \/ StallCancel \/ StallFinish
  PROVE Gone'
<1>1. dl.pc \in {"compensate", "purge", "cancelled", "stalled", "finish"}
  BY DEF RowCompensate, Purge, OverdueCancelled, StallCancel, StallFinish
<1>2. dl.f \in Files /\ dl.pc \in InLoop BY <1>1 DEF TransferInv, DlShape, InLoop, AtFile
<1>3. ~Restart
  <2>1. UNCHANGED faults BY DEF RowCompensate, Purge, OverdueCancelled, StallCancel, StallFinish, DlUnchanged
  <2>2. faults \in Nat BY DEF TransferInv, TypeOK
  <2>. QED BY <2>1, <2>2 DEF Restart, Fault
<1>4. \A h \in Files : Over(h) /\ ~(Purge /\ h = dl.f) => Over(h)' BY <1>3, OverStays
<1>5. CASE RowCompensate
  <2>1. ~Purge BY <1>5 DEF Purge, RowCompensate
  <2>. QED BY <1>2, <1>4, <1>5, <2>1, GoneLeaves DEF RowCompensate
<1>6. CASE Purge
  <2>1. dl.f \in dl'.handled
    <3>1. dl \in DlTicks BY DEF TransferInv, TypeOK
    <3>. QED BY <1>6, <3>1 DEF Purge, Handled, Skipped, DlTicks
  <2>. QED BY <1>2, <1>4, <1>6, <2>1, GoneLeaves DEF Purge
<1>7. CASE OverdueCancelled
  <2>1. ~Purge /\ Over(dl.f) /\ "purge" \in AtFile BY <1>7 DEF Purge, OverdueCancelled, Gone, AtFile
  <2>. QED BY <1>2, <1>4, <1>7, <2>1, GoneGoes DEF OverdueCancelled
<1>8. CASE StallFinish
  <2>1. ~Purge /\ Over(dl.f) /\ "purge" \in AtFile BY <1>8 DEF Purge, StallFinish, Gone, AtFile
  <2>. QED BY <1>2, <1>4, <1>8, <2>1, GoneGoes DEF StallFinish
<1>9. CASE StallCancel
  <2>1. ~Purge /\ "finish" \in AtFile BY <1>9 DEF Purge, StallCancel, AtFile
  <2>2. CASE CanCancel(dl.f) /\ CancelRemote(dl.f) /\ Goto("finish", dl.f) BY <1>2, <1>4, <2>1, <2>2, CancelOver, GoneGoes
  <2>3. CASE NextRow
    <3>1. dl \in DlTicks BY DEF TransferInv, TypeOK
    <3>2. /\ dl'.attempt = dl.attempt /\ dl'.pc = "row" /\ dl'.loop = dl.loop
          /\ dl'.live = dl.live /\ dl'.todo = dl.todo /\ dl'.handled = dl.handled
      BY <2>3, <3>1 DEF NextRow, DlTicks
    <3>3. dl'.todo \cap dl'.handled = {} /\ dl'.pc \in InLoop BY <1>2, <3>2 DEF Gone, InLoop
    <3>. QED BY <1>2, <1>4, <2>1, <3>2, <3>3, GoneMoves
  <2>. QED BY <1>9, <2>2, <2>3 DEF StallCancel
<1>. QED BY <1>5, <1>6, <1>7, <1>8, <1>9

LEMMA GoneReads ==
  ASSUME TransferInv, Gone, Native, UNCHANGED <<attempt, remote>>,
         ListDownloads \/ TransfersPastDeadline \/ ActiveTransfers \/ ReconcileEnd
  PROVE Gone'
<1>1. dl \in DlTicks BY DEF TransferInv, TypeOK
<1>2. \A h \in Files : Over(h)' = Over(h) BY DEF Over
<1>3. CASE ListDownloads
  <2>1. /\ dl'.pc = "listed" /\ dl'.handled = {} /\ dl'.loop = "none"
        /\ dl'.live = [f \in Files |-> Listed(remote[f])]
    BY <1>1, <1>3 DEF ListDownloads, DlTicks, Gone, InLoop, AtFile
  <2>2. \A f \in Files : dl'.live[f] \in Ended => Over(f)' BY <1>2, <2>1 DEF Listed, Over
  <2>. QED BY <2>1, <2>2 DEF Gone, InLoop, AtFile
<1>4. CASE TransfersPastDeadline
  <2>1. /\ dl'.pc = "row" /\ dl'.handled = {} /\ dl'.loop = "overdue" /\ dl'.live = dl.live
        /\ dl'.attempt = attempt
    BY <1>1, <1>4 DEF TransfersPastDeadline, DlTicks, Gone, InLoop, AtFile
  <2>2. \A f \in Files : dl.live[f] \in Ended => Over(f)' BY <1>2, <1>4 DEF TransfersPastDeadline, Gone, InLoop, AtFile
  <2>. QED BY <2>1, <2>2 DEF Gone, InLoop, AtFile
<1>5. CASE ActiveTransfers
  <2> DEFINE S == {f \in Files : row[f].st \in Sent /\ ~(dl.attempt = attempt /\ f \in dl.handled)}
  <2>1. dl.attempt = attempt /\ dl.pc = "row" /\ dl.loop = "overdue" BY <1>5 DEF ActiveTransfers, Gone, InLoop
  <2>2. /\ dl'.pc = "row" /\ dl'.handled = {} /\ dl'.loop = "active" /\ dl'.attempt = attempt
        /\ dl'.todo = S /\ \A f \in S : dl'.live[f] = dl.live[f]
    <3>1. dl' = [dl EXCEPT !.loop = "active", !.rows = RowsOf(S), !.attempt = attempt,
                       !.todo = S, !.handled = {},
                       !.live = [f \in Files |-> IF f \in S THEN dl.live[f] ELSE "NONE"]]
      BY <1>1, <1>5 DEF ActiveTransfers, DlTicks
    <3> HIDE DEF S
    <3>2. S \subseteq Files BY DEF S
    <3>. QED BY <1>1, <2>1, <3>1, <3>2 DEF DlTicks
  <2>3. \A f \in S : f \in Files \ dl.handled BY <2>1
  <2> HIDE DEF S
  <2>4. \A f \in S : dl.live[f] \in Ended => Over(f)' BY <1>2, <2>1, <2>3 DEF Gone, InLoop
  <2>5. dl'.todo \cap dl'.handled = {} BY <2>2
  <2>. QED BY <2>2, <2>4, <2>5 DEF Gone, InLoop
<1>6. CASE ReconcileEnd
  <2>1. dl'.pc = "resolve" /\ dl'.handled = {} /\ dl'.loop = "none" BY <1>6 DEF ReconcileEnd, DlIdle
  <2>. QED BY <2>1, GoneOutside DEF InLoop, AtFile
<1>. QED BY <1>3, <1>4, <1>5, <1>6

LEMMA GoneResolve ==
  ASSUME TransferInv, Gone,
         \/ Resolve \/ TopUpDownloads \/ TickFails \/ Restart \/ \E f \in Files : SiblingWriteFails(f)
  PROVE Gone'
<1>1. dl \in DlTicks BY DEF TransferInv, TypeOK
<1>2. CASE dl.pc \in {"resolve", "siblings", "failed"}
  <2>1. dl.handled = {} /\ dl.loop = "none" BY <1>2 DEF Gone, InLoop, AtFile
  <2>2. CASE ResolveRead
    <3>1. dl'.pc \in {"topup", "siblings", "done"} /\ dl'.handled = {} /\ dl'.loop = "none"
      BY <1>1, <2>1, <2>2 DEF ResolveRead, DlTicks
    <3>. QED BY <3>1, GoneOutside DEF InLoop, AtFile
  <2>3. ASSUME NEW f, Goto("siblings", f) PROVE Gone'
    <3>1. dl'.pc = "siblings" /\ dl'.handled = {} /\ dl'.loop = "none" BY <1>1, <2>1, <2>3 DEF Goto, DlTicks
    <3>. QED BY <3>1, GoneOutside DEF InLoop, AtFile
  <2>4. CASE SiblingsEnd
    <3>1. dl'.pc \in {"topup", "failed"} /\ dl'.handled = {} /\ dl'.loop = "none" BY <2>4 DEF SiblingsEnd, DlIdle
    <3>. QED BY <3>1, GoneOutside DEF InLoop, AtFile
  <2>5. CASE CleanupFolder
    <3>1. dl'.pc = "cleaned" /\ dl'.handled = {} /\ dl'.loop = "none" BY <1>1, <2>1, <2>5 DEF CleanupFolder, DlTicks
    <3>. QED BY <3>1, GoneOutside DEF InLoop, AtFile
  <2>6. CASE TickFails \/ Restart
    <3>1. dl'.pc = "idle" /\ dl'.handled = {} /\ dl'.loop = "none" BY <2>6 DEF TickFails, Restart, DlIdle
    <3>. QED BY <3>1, GoneOutside DEF InLoop, AtFile
  <2>. QED BY <1>2, <2>2, <2>3, <2>4, <2>5, <2>6 DEF Resolve, SiblingPending, SiblingSent, SiblingWriteFails,
       FailCandidate, DownloadDone, TopUpDownloads
<1>3. CASE dl.pc \notin {"resolve", "siblings", "failed"}
  <2>1. FailCandidate \/ DownloadDone \/ TopUpDownloads \/ TickFails \/ Restart
    BY <1>3 DEF Resolve, ResolveRead, SiblingsEnd, CleanupFolder, SiblingPending, SiblingSent, SiblingWriteFails
  <2>2. dl'.pc \in {"idle", "topup"} /\ dl'.handled = {} /\ dl'.loop = "none"
    BY <2>1 DEF FailCandidate, DownloadDone, TopUpDownloads, TickFails, Restart, DlIdle
  <2>. QED BY <2>2, GoneOutside DEF InLoop, AtFile
<1>. QED BY <1>2, <1>3

\* The tick of Downloading is not concerned.
LEMMA GoneElsewhere ==
  ASSUME TransferInv, Gone, UNCHANGED <<dl, attempt>>, \A f \in Files : Over(f) => Over(f)' PROVE Gone'
<1>1. dl.pc \in AtFile => dl.f \in Files BY DEF TransferInv, DlShape
<1>2. dl.pc \in {"cancelled", "finish", "purge"} => Over(dl.f)' BY SMTT(40), <1>1 DEF Gone, AtFile, Over
<1>3. dl'.pc \in {"listed"} \cup InLoop =>
        \A f \in Files \ dl'.handled : dl'.live[f] \in Ended /\ (dl'.loop = "active" => f \in dl'.todo) => Over(f)'
  BY SMTT(40) DEF Gone
<1>. QED BY <1>2, <1>3 DEF Gone

LEMMA OneActivation == ASSUME MaxAttempts = 1, TransferInv, Next PROVE UNCHANGED attempt /\ ~NextAttempt
<1>1. ~NextAttempt BY TransfersAssumption DEF TransferInv, TypeOK, NextAttempt
<1>. QED BY <1>1
  DEF Next, Selecting, Downloading, TopUp, TopRead, TopIntent, TopEnqueue, TopRefused, TopAttach,
      TopCompensate, TopEnd, TopUnchanged, Reconcile, ListDownloads, TransfersPastDeadline, ActiveTransfers,
      ReconcileEnd, RowAttach, RowStallEnded, OverdueCancel, OverdueCancelFails, OverduePark, OverdueLost,
      ActiveLost, ActiveRejected, ActiveStalled, ActiveCopy, RowCompensate, OverdueCancelled, StallCancel,
      StallFinish, Purge, DlUnchanged, Resolve, ResolveRead, SiblingsEnd, CleanupFolder, FailCandidate,
      DownloadDone, SiblingPending, SiblingSent, TopUpDownloads, Environment, TopFails, SiblingWriteFails,
      CancelJob, Unwanted, Restart, BackendRestart, TickFails, CancelRemoteTransfer, DeadlinePasses, RemoteStep

LEMMA GoneStep == ASSUME Native, MaxAttempts = 1 PROVE TransferInv /\ Gone /\ [Next]_vars => Gone'
<1>. SUFFICES ASSUME TransferInv, Gone, [Next]_vars PROVE Gone' OBVIOUS
<1>1. CASE UNCHANGED vars BY <1>1, GoneElsewhere DEF vars, Over
<1>2. CASE Next
  <2>1. UNCHANGED attempt /\ ~NextAttempt BY <1>2, OneActivation
  <2>2. CASE Reconcile
    <3>1. CASE ListDownloads \/ TransfersPastDeadline \/ ActiveTransfers \/ ReconcileEnd BY <2>1, <3>1, GoneReads
         DEF ListDownloads, TransfersPastDeadline, ActiveTransfers, ReconcileEnd
    <3>. QED BY <1>2, <2>1, <2>2, <3>1, GoneRows, GoneAtFile DEF Reconcile
  <2>3. CASE \/ Resolve \/ TopUpDownloads \/ TickFails \/ Restart \/ \E f \in Files : SiblingWriteFails(f)
    BY <2>3, GoneResolve
  <2>4. CASE \/ \E g \in Goroutines : TopUp(g) \/ TopFails(g)
             \/ CancelJob \/ Unwanted \/ BackendRestart
             \/ \E f \in Files : CancelRemoteTransfer(f) \/ DeadlinePasses(f) \/ RemoteStep(f)
    <3>1. UNCHANGED dl BY <2>4 DEF TopUp, TopRead, TopIntent, TopEnqueue, TopRefused, TopAttach, TopCompensate, TopEnd,
         TopUnchanged, TopFails, CancelJob, Unwanted, BackendRestart, CancelRemoteTransfer, DeadlinePasses,
         RemoteStep
    <3>2. CASE Restart \/ Purge BY <1>2, <2>3, <3>1, <3>2, <2>1, GoneAtFile
    <3>3. CASE ~Restart /\ ~Purge
      <4>1. \A f \in Files : Over(f) => Over(f)' BY <1>2, <3>3, OverStays
      <4>. QED BY <2>1, <3>1, <4>1, GoneElsewhere
    <3>. QED BY SMTT(40), <3>2, <3>3
  <2>. QED BY <1>2, <2>1, <2>2, <2>3, <2>4 DEF Next, Selecting, Downloading, Environment, Goroutines
<1>. QED BY <1>1, <1>2

LEMMA GoneInit == Init => Gone
BY DEF Init, DlIdle, Gone, InLoop, AtFile

\* A step of reconcile that lets go of f was about f.
Disowns(f) == row[f].st \in Sent /\ row'[f].st \in Settled \cup {"PENDING"}

LEMMA WritesOne ==
  ASSUME TypeOK, NEW f \in Files, NEW h \in Files, Disowns(f), NEW a,
         \/ \E st \in Live \cup Settled : UpdateTransferProgress(h, a, st)
         \/ RetryTransfer(h, a) \/ ParkJobForCandidate(h, a)
  PROVE h = f
<1>1. row[f].st # row'[f].st BY DEF Disowns, Sent, Settled
<1>. QED BY <1>1 DEF UpdateTransferProgress, RetryTransfer, ParkJobForCandidate, TypeOK

LEMMA KeepsOne == ASSUME NEW f, Disowns(f), UNCHANGED row PROVE FALSE
BY DEF Disowns, Sent, Settled

LEMMA FinishIsWrite ==
  ASSUME NEW h, FinishStalled(h)
  PROVE \/ \E st \in Live \cup Settled : UpdateTransferProgress(h, dl.attempt, st)
        \/ RetryTransfer(h, dl.attempt)
BY DEF FinishStalled, Settled

LEMMA DisownedRow ==
  ASSUME TransferInv, Gone, Native, NEW f \in Files, Disowns(f), remote[f] \in Running, NEW h \in Files,
         \/ \E loop \in {"overdue", "active"} : RowAttach(loop, h) \/ RowStallEnded(loop, h)
         \/ OverdueCancel(h) \/ OverdueCancelFails(h) \/ OverduePark(h) \/ OverdueLost(h)
         \/ ActiveLost(h) \/ ActiveRejected(h) \/ ActiveStalled(h) \/ ActiveCopy(h)
  PROVE dl.live[f] = "NONE"
<1>1. TypeOK /\ ~Over(f) BY DEF TransferInv, Over, Running, Ended
<1>2. dl.pc = "row" /\ h \in dl.todo
  BY DEF RowAttach, RowStallEnded, OverdueCancel, OverdueCancelFails, OverduePark, OverdueLost, ActiveLost,
     ActiveRejected, ActiveStalled, ActiveCopy, AtRow
<1>3. dl.live[h] \in Ended => h # f BY <1>1, <1>2, ListedOver
<1>4. ASSUME NEW loop, RowAttach(loop, h) PROVE FALSE
  <2>1. CASE UNCHANGED row BY <2>1, KeepsOne
  <2>2. CASE row' = [row EXCEPT ![h].sid = TRUE]
    <3>1. row'[f].st = row[f].st BY <1>1, <2>2, Numbers DEF TypeOK, Row
    <3>. QED BY <3>1 DEF Disowns, Sent, Settled
  <2>. QED BY <1>4, <2>1, <2>2 DEF RowAttach
<1>5. ASSUME NEW loop, RowStallEnded(loop, h) PROVE FALSE
  <2>1. h = f BY <1>1, <1>5, FinishIsWrite, WritesOne DEF RowStallEnded
  <2>. QED BY <1>3, <1>5, <2>1 DEF RowStallEnded, StallEnded, Ended
<1>6. ~OverdueCancel(h) /\ ~OverdueCancelFails(h) BY KeepsOne DEF OverdueCancel, OverdueCancelFails
<1>7. ~OverduePark(h)
  <2>. SUFFICES ASSUME OverduePark(h) PROVE FALSE OBVIOUS
  <2>1. h = f BY <1>1, WritesOne DEF OverduePark
  <2>. QED BY <2>1 DEF OverduePark, CancelMayFail, Running
<1>8. CASE OverdueLost(h)
  <2>1. h = f BY <1>1, <1>8, WritesOne DEF OverdueLost, Settled
  <2>. QED BY <1>8, <2>1 DEF OverdueLost, Matched
<1>9. CASE ActiveLost(h)
  <2>1. h = f BY <1>1, <1>9, WritesOne DEF ActiveLost
  <2>. QED BY <1>9, <2>1 DEF ActiveLost, Matched
<1>10. ~ActiveRejected(h)
  <2>. SUFFICES ASSUME ActiveRejected(h) PROVE FALSE OBVIOUS
  <2>1. h = f BY <1>1, WritesOne DEF ActiveRejected
  <2>. QED BY <1>3, <2>1 DEF ActiveRejected, RetryRejected, Ended
<1>11. ~ActiveStalled(h)
  <2>. SUFFICES ASSUME ActiveStalled(h) PROVE FALSE OBVIOUS
  <2>1. UpdateTransferProgress(h, dl.attempt, "STALLED") BY KeepsOne DEF ActiveStalled
  <2>2. h = f BY <1>1, <2>1, WritesOne DEF Live, Sent
  <2>3. row'[f].st \in {row[f].st, "STALLED"} BY <1>1, <2>1, <2>2, Numbers DEF UpdateTransferProgress, TypeOK, Row
  <2>. QED BY <2>3 DEF Disowns, Sent, Settled
<1>12. ~ActiveCopy(h)
  <2>. SUFFICES ASSUME ActiveCopy(h) PROVE FALSE OBVIOUS
  <2>1. PICK st : /\ UpdateTransferProgress(h, dl.attempt, st)
                  /\ st = IF dl.live[h] \in {"REJECTED", "FAILED"} THEN "ERRORED" ELSE dl.live[h]
    BY DEF ActiveCopy
  <2>2. dl.live[h] \in Remote \ {"NONE", "STOPPING"} BY DlTyped DEF TransferInv, DlShape, ActiveCopy, Identified, Matched
  <2>3. st \in Live \cup Settled BY <2>1, <2>2 DEF Remote, Running, Ended, Live, Sent, Settled
  <2>4. h = f BY <1>1, <2>1, <2>3, WritesOne
  <2>5. dl.live[f] \in Running BY <1>3, <2>2, <2>4 DEF Remote
  <2>6. st \in Running BY <2>1, <2>4, <2>5 DEF Running
  <2>7. row'[f].st \in {row[f].st, st} BY <1>1, <2>1, <2>4, Numbers DEF UpdateTransferProgress, TypeOK, Row
  <2>. QED BY <2>6, <2>7 DEF Disowns, Running, Sent, Settled
<1>. QED BY <1>4, <1>5, <1>6, <1>7, <1>8, <1>9, <1>10, <1>11, <1>12

LEMMA DisownedAbsent ==
  ASSUME TransferInv, Gone, Native, NEW f \in Files, Disowns(f), remote[f] \in Running, Reconcile
  PROVE dl.live[f] = "NONE"
<1>1. TypeOK /\ ~Over(f) BY DEF TransferInv, Over, Running, Ended
<1>2. ~OverdueCancelled
  <2>. SUFFICES ASSUME OverdueCancelled PROVE FALSE OBVIOUS
  <2>1. dl.f \in Files BY DEF OverdueCancelled, TransferInv, DlShape, AtFile
  <2>2. dl.f = f BY <1>1, <2>1, WritesOne DEF OverdueCancelled, Settled
  <2>. QED BY <1>1, <2>2 DEF OverdueCancelled, Gone
<1>3. ~StallFinish
  <2>. SUFFICES ASSUME StallFinish PROVE FALSE OBVIOUS
  <2>1. dl.f \in Files BY DEF StallFinish, TransferInv, DlShape, AtFile
  <2>2. dl.f = f BY <1>1, <2>1, FinishIsWrite, WritesOne DEF StallFinish
  <2>. QED BY <1>1, <2>2 DEF StallFinish, Gone
<1>4. ~(ListDownloads \/ TransfersPastDeadline \/ ActiveTransfers \/ ReconcileEnd \/ RowCompensate
          \/ StallCancel \/ Purge)
  BY KeepsOne DEF ListDownloads, TransfersPastDeadline, ActiveTransfers, ReconcileEnd, RowCompensate,
     StallCancel, Purge
<1>. QED BY <1>2, <1>3, <1>4, DisownedRow DEF Reconcile

\* In a candidate's first activation with the native backend, the row of a
\* transfer that still runs is let go only when the backend's list did not
\* name it: reconcile orphans no download it knows of, whatever the peer, the
\* user and Selecting do between the list and the write.
THEOREM NoneDisowned == ASSUME Native, MaxAttempts = 1 PROVE Spec => DisownedWasAbsent
<1>1. TransferInv /\ Gone /\ [Next]_vars =>
        [\A f \in Files :
           (row[f].st \in Sent /\ row'[f].st \in Settled \cup {"PENDING"}
              /\ remote[f] \in Running /\ Reconcile) => dl.live[f] = "NONE"]_vars
  BY DisownedAbsent DEF Disowns
<1>2. TransferInv /\ Gone /\ [Next]_vars => Gone' BY GoneStep
<1>. QED BY <1>1, <1>2, GoneInit, SpecTransfers, PTL DEF Spec, DisownedWasAbsent

-----------------------------------------------------------------------------
(* The peer's budget. A file is sent only when, of the files that come no    *)
(* later in filename order, at most MaxInflightPerPeer are undelivered. Each *)
(* top-up sees to that from its own count, and no goroutine can undo it for  *)
(* the other: within an activation files only cease to be live.              *)

\* What Downloading's tick is about had been sent when it read the rows.
SentBefore == \A f \in Files : DlAhead(f) => row[f].st # "PENDING"

LiveUpTo(r, f) == {h \in Files : h <= f /\ r[h].st \in Live}
Entered(f) == row[f].st \in Sent \/ (row[f].st \in Live /\ remote[f] \in Running)
\* What a top-up has counted, or sent, and is not delivered.
Counted(r, t) == {h \in Files \ t.todo : r[h].st \in Live}
TopRank(r, t) ==
  /\ t.pc = "intent" => Cardinality(Counted(r, t)) + t.room <= MaxInflightPerPeer
  /\ t.pc \in {"enqueue", "attach"} =>
       /\ Cardinality(Counted(r, t)) + t.room <= MaxInflightPerPeer + 1
       /\ r[t.f].st \in Live => Cardinality(LiveUpTo(r, t.f)) <= MaxInflightPerPeer
  /\ t.pc # "refused"
Ranked ==
  /\ \A f \in Files : Entered(f) => Cardinality(LiveUpTo(row, f)) <= MaxInflightPerPeer
  /\ \A g \in Goroutines : TopRank(row, top[g])

BudgetInv == TransferInv /\ SentBefore /\ Ranked

\* How the rows move, but for a hand-over.
Moves ==
  \A f \in Files :
    /\ row'[f].st = "PENDING" => row[f].st = "PENDING" \/ row'[f].retries # row[f].retries
    /\ row'[f].st \in Sent => row[f].st \in Sent \/ DlAhead(f)

LEMMA SameMoves == ASSUME \A f \in Files : row'[f].st = row[f].st PROVE Moves
BY DEF Moves

LEMMA ProgressMoves ==
  ASSUME TypeOK, NEW f \in Files, NEW a, NEW st \in Sent \cup Settled, UpdateTransferProgress(f, a, st),
         st \in Settled \/ DlAhead(f)
  PROVE Moves
<1>1. Sent \cap Settled = {} /\ "PENDING" \notin Sent \cup Settled BY DEF Sent, Settled
<1>2. Touches(f, a, {st}) BY ProgressTouches DEF Live
<1>. QED BY <1>1, <1>2 DEF Touches, Moves

LEMMA RetryMoves ==
  ASSUME TypeOK, NEW f \in Files, NEW a, RetryTransfer(f, a) PROVE Moves
<1>1. CASE UNCHANGED row BY <1>1, SameMoves
<1>2. CASE row' = [row EXCEPT ![f] = [row[f] EXCEPT !.st = "PENDING", !.sid = FALSE, !.retries = @ + 1, !.clock = FALSE]]
  <2>1. \A h \in Files \ {f} : row'[h] = row[h] BY <1>2 DEF TypeOK
  <2>2. row[f] \in Row /\ row[f].retries \in Nat BY Numbers, TransfersAssumption
  <2>3. row'[f].st = "PENDING" /\ row'[f].retries = row[f].retries + 1 BY <1>2, <2>2 DEF TypeOK, Row
  <2>4. row'[f].retries # row[f].retries BY <2>2, <2>3
  <2>. QED BY <2>1, <2>3, <2>4 DEF Moves, Sent
<1>. QED BY <1>1, <1>2 DEF RetryTransfer

LEMMA ParkMoves ==
  ASSUME TypeOK, NEW f \in Files, NEW a, ParkJobForCandidate(f, a) PROVE Moves
<1>1. Touches(f, a, {"ERRORED"}) BY ParkTouches
<1>. QED BY <1>1 DEF Touches, Moves, Sent

LEMMA FinishMoves == ASSUME TypeOK, NEW f \in Files, FinishStalled(f) PROVE Moves
BY RetryMoves, ProgressMoves DEF FinishStalled, Settled

LEMMA ReconcileRowsMove ==
  ASSUME TransferInv, NEW f \in Files,
         \/ \E loop \in {"overdue", "active"} : RowAttach(loop, f) \/ RowStallEnded(loop, f)
         \/ OverdueCancel(f) \/ OverdueCancelFails(f) \/ OverduePark(f) \/ OverdueLost(f)
         \/ ActiveLost(f) \/ ActiveRejected(f) \/ ActiveStalled(f) \/ ActiveCopy(f)
  PROVE Moves
<1>1. TypeOK /\ DlAhead(f)
  BY DEF RowAttach, RowStallEnded, OverdueCancel, OverdueCancelFails, OverduePark, OverdueLost, ActiveLost,
     ActiveRejected, ActiveStalled, ActiveCopy, AtRow, InLoop, DlAhead, TransferInv
<1>2. ASSUME NEW loop, RowAttach(loop, f) PROVE Moves
  <2>1. CASE UNCHANGED row BY <2>1, SameMoves
  <2>2. CASE row' = [row EXCEPT ![f].sid = TRUE]
    <3>1. \A h \in Files : row'[h].st = row[h].st BY <1>1, <2>2, Numbers DEF TypeOK, Row
    <3>. QED BY <3>1, SameMoves
  <2>. QED BY <1>2, <2>1, <2>2 DEF RowAttach
<1>3. ASSUME NEW loop, RowStallEnded(loop, f) PROVE Moves BY <1>1, <1>3, FinishMoves DEF RowStallEnded
<1>4. CASE OverdueCancel(f) \/ OverdueCancelFails(f) BY <1>4, SameMoves DEF OverdueCancel, OverdueCancelFails
<1>5. CASE OverduePark(f) BY <1>1, <1>5, ParkMoves DEF OverduePark
<1>6. CASE OverdueLost(f) BY <1>1, <1>6, ProgressMoves DEF OverdueLost, Settled
<1>7. CASE ActiveLost(f) BY <1>1, <1>7, RetryMoves, ParkMoves DEF ActiveLost
<1>8. CASE ActiveRejected(f) BY <1>1, <1>8, RetryMoves DEF ActiveRejected
<1>9. CASE ActiveStalled(f) BY <1>1, <1>9, SameMoves, ProgressMoves DEF ActiveStalled, Sent
<1>10. CASE ActiveCopy(f)
  <2>1. PICK st : /\ UpdateTransferProgress(f, dl.attempt, st)
                  /\ st = IF dl.live[f] \in {"REJECTED", "FAILED"} THEN "ERRORED" ELSE dl.live[f]
    BY <1>10 DEF ActiveCopy
  <2>2. dl.live[f] \in Remote \ {"NONE", "STOPPING"}
    BY <1>10, DlTyped DEF TransferInv, DlShape, ActiveCopy, Identified, Matched
  <2>3. st \in Sent \cup Settled BY <2>1, <2>2 DEF Remote, Running, Ended, Sent, Settled
  <2>. QED BY <1>1, <2>1, <2>3, ProgressMoves
<1>. QED BY <1>2, <1>3, <1>4, <1>5, <1>6, <1>7, <1>8, <1>9, <1>10

\* Downloading's tick keeps to what was sent before.
LEMMA TickMoves ==
  ASSUME TransferInv, Reconcile \/ Resolve \/ TickFails \/ \E f \in Files : SiblingWriteFails(f)
  PROVE Moves
<1>1. TypeOK BY DEF TransferInv
<1>2. CASE OverdueCancelled
  <2>1. dl.f \in Files BY <1>2 DEF OverdueCancelled, TransferInv, DlShape, AtFile
  <2>. QED BY <1>1, <1>2, <2>1, ProgressMoves DEF OverdueCancelled, Settled
<1>3. CASE StallFinish
  <2>1. dl.f \in Files BY <1>3 DEF StallFinish, TransferInv, DlShape, AtFile
  <2>. QED BY <1>1, <1>3, <2>1, FinishMoves DEF StallFinish
<1>4. CASE Reconcile BY <1>2, <1>3, <1>4, SameMoves, ReconcileRowsMove
  DEF Reconcile, ListDownloads, TransfersPastDeadline, ActiveTransfers, ReconcileEnd, RowCompensate,
      StallCancel, Purge
<1>5. CASE Resolve
  <2>1. ASSUME NEW f \in Files, UpdateTransferProgress(f, dl.attempt, "CANCELLED") PROVE Moves
    BY <1>1, <2>1, ProgressMoves DEF Settled
  <2>. QED BY <1>5, <2>1, SameMoves DEF Resolve, ResolveRead, SiblingsEnd, CleanupFolder, FailCandidate,
       DownloadDone, SiblingPending, SiblingSent
<1>. QED BY <1>4, <1>5, SameMoves DEF TickFails, SiblingWriteFails

LEMMA SentBeforeTick ==
  ASSUME TransferInv, SentBefore, Reconcile \/ Resolve \/ TickFails \/ \E f \in Files : SiblingWriteFails(f)
  PROVE SentBefore'
<1>1. DlWrites BY ReadsDone, RowAttachDone, ReconcileRows, AtFileDone, ResolveDone, SiblingsDone
  DEF Reconcile, Resolve, DlDone
<1>2. Moves BY TickMoves
<1>3. ASSUME NEW f \in Files, DlAhead(f)', row'[f].st = "PENDING" PROVE FALSE
  <2>1. CASE row' = row /\ row[f].st \in Sent BY <1>3, <2>1 DEF Sent
  <2>2. CASE DlAhead(f) BY <1>1, <1>2, <1>3, <2>2 DEF SentBefore, Moves, DlWrites
  <2>. QED BY <1>1, <1>3, <2>1, <2>2 DEF DlWrites
<1>. QED BY <1>3 DEF SentBefore

\* Steps that leave the tick alone, or end it.
LEMMA SentBeforeElse ==
  ASSUME TransferInv, SentBefore, UNCHANGED dl \/ dl'.pc = "idle",
         \A f \in Files : row'[f].st = "PENDING" => row[f].st = "PENDING"
  PROVE SentBefore'
<1>1. \A f \in Files : DlAhead(f)' => DlAhead(f) BY SMTT(40) DEF DlAhead, InLoop, AtFile
<1>. QED BY SMTT(40), <1>1 DEF SentBefore

\* Of the others only a hand-over, a refusal and an activation touch a state.
LEMMA EnvironmentMoves ==
  ASSUME TransferInv, TopUpDownloads \/ Environment
  PROVE \A f \in Files : row'[f].st = row[f].st \/ row'[f].st = "CANCELLED"
<1>1. TypeOK BY DEF TransferInv
<1>2. CASE UNCHANGED row BY <1>2
<1>3. CASE CancelJob
  <2>1. \A f \in Files : row'[f] = row[f] \/ row'[f] = [row[f] EXCEPT !.st = "CANCELLED"] BY <1>3 DEF CancelJob
  <2>2. \A r \in Row : [r EXCEPT !.st = "CANCELLED"].st = "CANCELLED" BY DEF Row
  <2>3. \A f \in Files : row[f] \in Row BY <1>1, Numbers
  <2>. QED BY <2>1, <2>2, <2>3
<1>4. ASSUME NEW f \in Files, DeadlinePasses(f) PROVE \A h \in Files : row'[h].st = row[h].st
  BY <1>1, <1>4, Numbers DEF DeadlinePasses, TypeOK, Row
<1>. QED BY <1>2, <1>3, <1>4 DEF TopUpDownloads, Environment, TopFails, SiblingWriteFails, Unwanted, Restart,
       BackendRestart, TickFails, CancelRemoteTransfer, RemoteStep

LEMMA TopUpSame ==
  ASSUME TransferInv, NEW g \in Goroutines,
         TopRead(g) \/ TopEnqueue(g) \/ TopAttach(g) \/ TopCompensate(g) \/ TopEnd(g) \/ TopFails(g)
  PROVE \A f \in Files : row'[f].st = row[f].st
<1>1. TypeOK BY DEF TransferInv
<1>2. CASE UNCHANGED row BY <1>2
<1>3. ASSUME NEW id, row' = [row EXCEPT ![top[g].f].sid = id] PROVE \A f \in Files : row'[f].st = row[f].st
  BY <1>1, <1>3, Numbers DEF TypeOK, Row
<1>. QED BY <1>2, <1>3 DEF TopRead, TopEnqueue, TopAttach, TopCompensate, TopEnd, TopFails

LEMMA SentBeforeStep ==
  ASSUME Native, MaxAttempts = 1, BudgetInv, Next PROVE SentBefore'
<1>0. TypeOK /\ TransferInv /\ SentBefore /\ ~NextAttempt BY OneActivation DEF BudgetInv, TransferInv
<1>1. CASE Reconcile \/ Resolve \/ TickFails \/ \E f \in Files : SiblingWriteFails(f) BY <1>0, <1>1, SentBeforeTick
<1>2. CASE Environment \/ TopUpDownloads
  <2>1. \A f \in Files : row'[f].st = "PENDING" => row[f].st = "PENDING" BY <1>0, <1>2, EnvironmentMoves
  <2>2. CASE UNCHANGED dl \/ dl'.pc = "idle" BY <1>0, <2>1, <2>2, SentBeforeElse
  <2>3. CASE TopUpDownloads \/ Restart BY <2>2, <2>3 DEF TopUpDownloads, Restart, DlIdle
  <2>4. CASE \E g \in Goroutines : TopFails(g) BY <2>2, <2>4 DEF TopFails
  <2>5. CASE \/ CancelJob \/ Unwanted \/ BackendRestart
             \/ \E f \in Files : CancelRemoteTransfer(f) \/ DeadlinePasses(f) \/ RemoteStep(f)
    BY <2>2, <2>5 DEF CancelJob, Unwanted, BackendRestart, CancelRemoteTransfer, DeadlinePasses, RemoteStep
  <2>. QED BY <1>1, <1>2, <2>3, <2>4, <2>5 DEF Environment
<1>3. ASSUME NEW g \in Goroutines, TopUp(g) PROVE SentBefore'
  <2>1. ~TopRefused(g) BY DEF BudgetInv, Ranked, TopRank, TopRefused
  <2>2. \A f \in Files : row'[f].st = "PENDING" => row[f].st = "PENDING"
    <3>1. CASE TopRead(g) \/ TopEnqueue(g) \/ TopAttach(g) \/ TopCompensate(g) \/ TopEnd(g) BY <1>0, <3>1, TopUpSame
    <3>2. ASSUME NEW f \in Files, TopIntent(g, f)
          PROVE \A h \in Files : row'[h].st = "PENDING" => row[h].st = "PENDING"
      <4>1. CASE UNCHANGED row BY <4>1
      <4>2. CASE row' = [row EXCEPT ![f] = [row[f] EXCEPT !.st = "QUEUED", !.sid = FALSE, !.late = FALSE]]
        <5>1. row[f] \in Row BY <1>0, Numbers
        <5>2. row'[f].st = "QUEUED" BY SMTT(40), <1>0, <4>2, <5>1 DEF TypeOK, Row
        <5>3. \A h \in Files \ {f} : row'[h] = row[h] BY SMTT(40), <1>0, <4>2 DEF TypeOK
        <5>. QED BY <5>2, <5>3
      <4>. QED BY <3>2, <4>1, <4>2 DEF TopIntent, RecordEnqueueIntent
    <3>. QED BY <1>3, <2>1, <3>1, <3>2 DEF TopUp
  <2>3. UNCHANGED dl BY <1>3, <2>1 DEF TopUp, TopRead, TopIntent, TopEnqueue, TopAttach, TopCompensate, TopEnd,
     TopUnchanged
  <2>. QED BY <1>0, <2>2, <2>3, SentBeforeElse
<1>. QED BY <1>0, <1>1, <1>2, <1>3 DEF Next, Selecting, Downloading, Goroutines

-----------------------------------------------------------------------------
LEMMA LiveShrinks ==
  ASSUME TransferInv, MaxAttempts = 1, Next
  PROVE \A f \in Files : row'[f].st \in Live => row[f].st \in Live
<1>1. Ends /\ UNCHANGED attempt BY StepEnds, OneActivation, KeepsEnds DEF vars
<1>2. \A f \in Files : row[f].st \in Live \cup Settled BY Numbers DEF TransferInv
<1>3. Live \cap Settled = {} BY DEF Live, Sent, Settled
<1>. QED BY <1>1, <1>2, <1>3 DEF Ends

LEMMA UpToShrinks ==
  ASSUME NEW r, NEW q, \A f \in Files : q[f].st \in Live => r[f].st \in Live, NEW f \in Files
  PROVE /\ Cardinality(LiveUpTo(q, f)) \in Nat /\ Cardinality(LiveUpTo(r, f)) \in Nat
        /\ Cardinality(LiveUpTo(q, f)) <= Cardinality(LiveUpTo(r, f))
<1>1. LiveUpTo(q, f) \in SUBSET LiveUpTo(r, f) /\ LiveUpTo(r, f) \in SUBSET Files BY DEF LiveUpTo
<1>. QED BY <1>1, Counts

LEMMA CountedShrinks ==
  ASSUME NEW r, NEW q, \A f \in Files : q[f].st \in Live => r[f].st \in Live, NEW t
  PROVE /\ Cardinality(Counted(q, t)) \in Nat /\ Cardinality(Counted(r, t)) \in Nat
        /\ Cardinality(Counted(q, t)) <= Cardinality(Counted(r, t))
<1>1. Counted(q, t) \in SUBSET Counted(r, t) /\ Counted(r, t) \in SUBSET Files BY DEF Counted
<1>. QED BY <1>1, Counts

LEMMA RankShrinks ==
  ASSUME NEW r, NEW q, \A f \in Files : q[f].st \in Live => r[f].st \in Live,
         NEW t \in TopTicks, TopRank(r, t), t.pc \in Sending => t.f \in Files
  PROVE TopRank(q, t)
<1>0. /\ Cardinality(Counted(q, t)) \in Nat /\ Cardinality(Counted(r, t)) \in Nat
      /\ Cardinality(Counted(q, t)) <= Cardinality(Counted(r, t))
  BY CountedShrinks
<1>1. t.room \in Nat BY TransfersAssumption DEF TopTicks
<1>2. ASSUME t.pc \in {"enqueue", "attach"}, q[t.f].st \in Live
      PROVE Cardinality(LiveUpTo(q, t.f)) <= MaxInflightPerPeer
  <2>1. t.f \in Files BY <1>2 DEF Sending
  <2>2. Cardinality(LiveUpTo(r, t.f)) <= MaxInflightPerPeer BY <1>2, <2>1 DEF TopRank
  <2>3. /\ Cardinality(LiveUpTo(q, t.f)) \in Nat /\ Cardinality(LiveUpTo(r, t.f)) \in Nat
        /\ Cardinality(LiveUpTo(q, t.f)) <= Cardinality(LiveUpTo(r, t.f))
    BY <2>1, UpToShrinks
  <2>. QED BY <2>2, <2>3, TransfersAssumption
<1>. QED BY <1>0, <1>1, <1>2, TransfersAssumption DEF TopRank

\* What is live comes to be sent only by a hand-over, and runs only by one.
LEMMA RankedKeeps ==
  ASSUME TransferInv, Ranked,
         \A f \in Files : row'[f].st \in Live => row[f].st \in Live,
         \A f \in Files : Entered(f)' => Entered(f) \/ Cardinality(LiveUpTo(row, f)) <= MaxInflightPerPeer,
         \A g \in Goroutines : top'[g] = top[g] \/ TopRank(row', top'[g])
  PROVE Ranked'
<1>1. ASSUME NEW f \in Files, Entered(f)' PROVE Cardinality(LiveUpTo(row', f)) <= MaxInflightPerPeer
  <2>1. Cardinality(LiveUpTo(row, f)) <= MaxInflightPerPeer BY <1>1 DEF Ranked
  <2>2. /\ Cardinality(LiveUpTo(row', f)) \in Nat /\ Cardinality(LiveUpTo(row, f)) \in Nat
        /\ Cardinality(LiveUpTo(row', f)) <= Cardinality(LiveUpTo(row, f))
    BY UpToShrinks
  <2>. QED BY <2>1, <2>2, TransfersAssumption
<1>2. ASSUME NEW g \in Goroutines PROVE TopRank(row', top'[g])
  <2>. SUFFICES ASSUME top'[g] = top[g] PROVE TopRank(row', top'[g]) OBVIOUS
  <2>1. top[g] \in TopTicks /\ TopRank(row, top[g]) /\ (top[g].pc \in Sending => top[g].f \in Files)
    BY DEF TransferInv, TypeOK, Ranked, TopShape
  <2>. QED BY <2>1, RankShrinks
<1>. QED BY <1>1, <1>2 DEF Ranked

\* Sending starts at a hand-over and running at an Enqueue, whoever else acts.
LEMMA NoNewRunning ==
  ASSUME TransferInv, Native, Next, ~\E g \in Goroutines : TopEnqueue(g)
  PROVE \A f \in Files : remote'[f] \in Running => remote[f] \in Running
<1> DEFINE Goal == \A f \in Files : remote'[f] \in Running => remote[f] \in Running
<1>1. TypeOK BY DEF TransferInv
<1>2. CASE UNCHANGED remote BY <1>2
<1>3. CASE remote' = NoRemote BY <1>3 DEF NoRemote, Running
<1>4. ASSUME NEW h, CancelRemote(h) PROVE Goal BY <1>1, <1>4 DEF CancelRemote, TypeOK, Running
<1>5. ASSUME NEW h, TryCancelRemote(h) PROVE Goal BY <1>2, <1>4, <1>5 DEF TryCancelRemote
<1>6. ASSUME NEW h, RemoveRemote(h) PROVE Goal BY SMTT(40), <1>1, <1>2, <1>6 DEF RemoveRemote, TypeOK, Running
<1>7. ASSUME NEW h, RemoteStep(h) PROVE Goal BY SMTT(40), <1>1, <1>7 DEF RemoteStep, TypeOK, Running
<1>8. CASE \E g \in Goroutines : TopUp(g)
  BY <1>2, <1>5, <1>8 DEF TopUp, TopRead, TopIntent, TopRefused, TopAttach, TopCompensate, TopEnd
<1>9. CASE Reconcile BY <1>2, <1>4, <1>5, <1>6, <1>9
  DEF Reconcile, ListDownloads, TransfersPastDeadline, ActiveTransfers, ReconcileEnd, RowAttach,
      RowStallEnded, OverdueCancel, OverdueCancelFails, OverduePark, OverdueLost, ActiveLost,
      ActiveRejected, ActiveStalled, ActiveCopy, RowCompensate, OverdueCancelled, StallCancel, StallFinish, Purge
<1>10. CASE Resolve \/ TopUpDownloads \/ NextAttempt BY SMTT(40), <1>2, <1>4, <1>10
  DEF Resolve, ResolveRead, SiblingsEnd, CleanupFolder, FailCandidate, DownloadDone,
      SiblingPending, SiblingSent, TopUpDownloads, NextAttempt
<1>11. CASE Environment
  BY <1>2, <1>3, <1>5, <1>7, <1>11 DEF Environment, TopFails, SiblingWriteFails, CancelJob, Unwanted, Restart,
     BackendRestart, TickFails, CancelRemoteTransfer, DeadlinePasses
<1>. QED BY <1>8, <1>9, <1>10, <1>11 DEF Next, Selecting, Downloading, Goroutines

LEMMA NoneEnters ==
  ASSUME TransferInv, Ranked, Native, MaxAttempts = 1, Next, ~\E g \in Goroutines : TopEnqueue(g),
         NEW f \in Files, Entered(f)', row'[f].st \in Sent => row[f].st \in Sent
  PROVE Entered(f)
<1>1. remote'[f] \in Running => remote[f] \in Running BY NoNewRunning
<1>2. row'[f].st \in Live => row[f].st \in Live BY LiveShrinks
<1>. QED BY <1>1, <1>2 DEF Entered

LEMMA RankedTick ==
  ASSUME BudgetInv, Native, MaxAttempts = 1, Next,
         Reconcile \/ Resolve \/ TickFails \/ \E f \in Files : SiblingWriteFails(f)
  PROVE Ranked'
<1>0. TransferInv /\ SentBefore /\ Ranked BY DEF BudgetInv
<1>1. Moves BY <1>0, TickMoves
<1>2. \A f \in Files : row[f].st \in Live \cup Settled BY <1>0, Numbers DEF TransferInv
<1>3. \A f \in Files : row'[f].st \in Live => row[f].st \in Live BY <1>0, LiveShrinks
<1>4. \A f \in Files : row'[f].st \in Sent => row[f].st \in Sent BY <1>0, <1>1, <1>3 DEF Moves, SentBefore, Live
<1>5. UNCHANGED top BY DEF Reconcile, ListDownloads, TransfersPastDeadline, ActiveTransfers, ReconcileEnd, RowAttach,
     RowStallEnded, OverdueCancel, OverdueCancelFails, OverduePark, OverdueLost, ActiveLost,
     ActiveRejected, ActiveStalled, ActiveCopy, RowCompensate, OverdueCancelled, StallCancel, StallFinish, Purge,
     Resolve, ResolveRead, SiblingsEnd, CleanupFolder, FailCandidate, DownloadDone, SiblingPending,
     SiblingSent, DlUnchanged, TickFails, SiblingWriteFails
<1>6. ~\E g \in Goroutines : TopEnqueue(g) BY <1>0, <1>5 DEF TopEnqueue, TransferInv, TypeOK, TopTicks
<1>7. \A f \in Files : Entered(f)' => Entered(f) BY <1>0, <1>4, <1>6, NoneEnters
<1>. QED BY <1>0, <1>3, <1>5, <1>7, RankedKeeps

LEMMA IdleRank ==
  ASSUME NEW r, NEW t, t.pc \in {"idle", "read", "compensate"} PROVE TopRank(r, t)
BY DEF TopRank

LEMMA RankedEnvironment ==
  ASSUME BudgetInv, Native, MaxAttempts = 1, Next,
         \/ TopUpDownloads \/ CancelJob \/ Unwanted \/ Restart \/ BackendRestart
         \/ \E f \in Files : CancelRemoteTransfer(f) \/ DeadlinePasses(f) \/ RemoteStep(f)
  PROVE Ranked'
<1>0. TransferInv /\ Ranked /\ TypeOK BY DEF BudgetInv, TransferInv
<1>1. \A f \in Files : row'[f].st = row[f].st \/ row'[f].st = "CANCELLED" BY <1>0, EnvironmentMoves DEF Environment
<1>2. \A f \in Files : row'[f].st \in Sent => row[f].st \in Sent BY <1>1 DEF Sent
<1>3. \A f \in Files : row'[f].st \in Live => row[f].st \in Live BY <1>0, LiveShrinks
<1>4. \A g \in Goroutines : top'[g] = top[g] \/ top'[g].pc \in {"idle", "read"}
  <2>1. CASE TopUpDownloads
    <3>1. PICK t : t = [TopIdle EXCEPT !.pc = "read", !.candidate = candidate] OBVIOUS
    <3>2. t.pc = "read" BY <3>1 DEF TopIdle
    <3>3. top' = top \/ top' = [top EXCEPT !["downloading"] = t] BY <2>1, <3>1 DEF TopUpDownloads
    <3>. QED BY <1>0, <3>2, <3>3 DEF TypeOK
  <2>2. CASE Restart BY <2>2 DEF Restart, TopIdle
  <2>. QED BY <2>1, <2>2 DEF CancelJob, Unwanted, BackendRestart, CancelRemoteTransfer, DeadlinePasses, RemoteStep
<1>5. \A g \in Goroutines : top'[g] = top[g] \/ TopRank(row', top'[g]) BY <1>4, IdleRank
<1>6. CASE \E g \in Goroutines : TopEnqueue(g)
  <2>. SUFFICES ASSUME NEW g \in Goroutines, TopEnqueue(g) PROVE FALSE BY <1>6
  <2>1. top[g].pc = "enqueue" /\ top'[g].pc \in {"attach", "refused"} BY <1>0 DEF TopEnqueue, TypeOK, TopTicks
  <2>. QED BY <1>4, <2>1
<1>7. CASE ~\E g \in Goroutines : TopEnqueue(g)
  <2>1. \A f \in Files : Entered(f)' => Entered(f) BY <1>0, <1>2, <1>7, NoneEnters
  <2>. QED BY <1>0, <1>3, <1>5, <2>1, RankedKeeps
<1>. QED BY <1>6, <1>7

\* The rows are counted: what is sent, and no more than the budget.
LEMMA SentWithin == ASSUME Ranked PROVE Cardinality({f \in Files : row[f].st \in Sent}) <= MaxInflightPerPeer
<1> DEFINE S == {f \in Files : row[f].st \in Sent}
<1>1. S \in SUBSET Files OBVIOUS
<1>2. CASE S = {} BY <1>2, FS_EmptySet, TransfersAssumption
<1>3. CASE S # {}
  <2>1. PICK f \in S : \A h \in S : h <= f BY <1>1, <1>3, LastFile
  <2>2. S \in SUBSET LiveUpTo(row, f) /\ LiveUpTo(row, f) \in SUBSET Files BY <2>1 DEF LiveUpTo, Live
  <2>3. Cardinality(LiveUpTo(row, f)) <= MaxInflightPerPeer BY DEF Ranked, Entered
  <2>4. Cardinality(S) \in Nat /\ Cardinality(LiveUpTo(row, f)) \in Nat /\ Cardinality(S) <= Cardinality(LiveUpTo(row, f))
    BY <2>2, Counts
  <2>. QED BY <2>3, <2>4, TransfersAssumption
<1>. QED BY <1>2, <1>3

\* A top-up that goes on keeps within what it has counted.
TopsRanked == \A k \in Goroutines : top'[k] = top[k] \/ TopRank(row', top'[k])

LEMMA ReadRanked ==
  ASSUME BudgetInv, NEW g \in Goroutines, TopRead(g) PROVE TopsRanked
<1>1. TypeOK /\ Ranked /\ top[g] \in TopTicks /\ row' = row BY DEF BudgetInv, TransferInv, TypeOK, TopRead
<1>2. CASE top' = [top EXCEPT ![g] = TopIdle]
  <2>1. TopIdle.pc = "idle" BY DEF TopIdle
  <2>. QED BY <1>1, <1>2, <2>1, Idles, TopGoes, IdleRank DEF TopsRanked
<1>3. CASE top[g].candidate = candidate
  <2> DEFINE S == {f \in Files : row[f].st \in Sent}
             todo == {f \in Files : row[f].st = "PENDING"}
             room == IF Cardinality(S) >= MaxInflightPerPeer THEN 0
                     ELSE MaxInflightPerPeer - Cardinality(S)
             retries == [f \in Files |-> row[f].retries]
  <2>1. Cardinality(S) <= MaxInflightPerPeer BY <1>1, SentWithin
  <2>2. Cardinality(S) \in Nat BY SentCount
  <2>3. room \in 0 .. MaxInflightPerPeer /\ Cardinality(S) + room <= MaxInflightPerPeer BY <2>1, <2>2, TransfersAssumption
  <2>4. retries \in RetriesRead BY <1>1, Numbers DEF RetriesRead
  <2>5. PICK t : t = [top[g] EXCEPT !.pc = "intent", !.todo = todo, !.room = room, !.retries = retries] OBVIOUS
  <2>6. top' = [top EXCEPT ![g] = t] BY <1>3, <2>5 DEF TopRead
  <2>7. S = {h \in Files \ todo : row[h].st \in Live} BY DEF Live, Sent
  <2> HIDE DEF room, retries, todo, S
  <2>8. todo \in SUBSET Files BY DEF todo
  <2>9. t \in TopTicks /\ t.pc = "intent" /\ t.todo = todo /\ t.room = room BY <1>1, <2>3, <2>4, <2>5, <2>8 DEF TopTicks
  <2>10. Counted(row, t) = S BY <2>7, <2>9 DEF Counted
  <2>11. TopRank(row, t) BY <2>3, <2>9, <2>10 DEF TopRank
  <2>. QED BY <1>1, <2>6, <2>9, <2>11, TopGoes DEF TopsRanked
<1>. QED BY <1>2, <1>3 DEF TopRead

\* The first file left to send: what comes no later is counted, or the file itself.
LEMMA IntentRanked ==
  ASSUME BudgetInv, NEW g \in Goroutines, NEW f \in Files, TopIntent(g, f)
  PROVE /\ TopsRanked
        /\ \A h \in Files : row'[h].st \in Sent =>
             row[h].st \in Sent \/ Cardinality(LiveUpTo(row, h)) <= MaxInflightPerPeer
<1>1. TypeOK /\ Ranked /\ top[g] \in TopTicks /\ top[g].pc = "intent" /\ top[g].room > 0
  BY DEF BudgetInv, TransferInv, TypeOK, TopIntent
<1>2. CASE top' = [top EXCEPT ![g] = TopIdle] /\ UNCHANGED row
  <2>1. TopIdle.pc = "idle" BY DEF TopIdle
  <2>. QED BY <1>1, <1>2, <2>1, Idles, TopGoes, IdleRank DEF TopsRanked
<1>3. CASE Recordable(f, top[g].candidate)
  <2>1. f \in top[g].todo /\ (\A h \in top[g].todo : f <= h) /\ row[f].st \in Live BY <1>3 DEF TopIntent, First, Recordable
  <2> DEFINE C == Counted(row, top[g])
  <2>2. C \in SUBSET Files /\ Cardinality(C) \in Nat BY Counts DEF Counted
  <2>3. Cardinality(C) + top[g].room <= MaxInflightPerPeer BY <1>1 DEF Ranked, TopRank
  <2>4. top[g].room \in Nat /\ MaxInflightPerPeer \in Nat BY <1>1, TopTyped, TransfersAssumption
  <2> DEFINE D == C \cup {f}
  <2>5. D \in SUBSET Files /\ Cardinality(D) \in Nat /\ Cardinality(D) <= Cardinality(C) + 1 BY <2>2, OneMore, Counts
  <2>6. LiveUpTo(row, f) \in SUBSET D
    <3>1. \A h \in Files : h <= f /\ h # f => ~(f <= h) BY TransfersAssumption
    <3>. QED BY <2>1, <3>1 DEF LiveUpTo, Counted
  <2>7. Cardinality(LiveUpTo(row, f)) \in Nat /\ Cardinality(LiveUpTo(row, f)) <= Cardinality(D) BY <2>5, <2>6, Counts
  <2>8. Cardinality(LiveUpTo(row, f)) <= MaxInflightPerPeer BY <1>1, <2>2, <2>3, <2>4, <2>5, <2>7
  <2>9. PICK t : t = [top[g] EXCEPT !.pc = "enqueue", !.f = f, !.todo = top[g].todo \ {f}, !.attempt = attempt] OBVIOUS
  <2>10. top' = [top EXCEPT ![g] = t] BY <1>1, <1>3, <2>9 DEF TopIntent, RecordEnqueueIntent, TopTicks
  <2>11. /\ t \in TopTicks /\ t.pc = "enqueue" /\ t.f = f /\ t.todo = top[g].todo \ {f} /\ t.room = top[g].room
    BY <1>1, <2>9, Numbers DEF TopTicks
  <2>12. \A h \in Files : h # f => row'[h] = row[h] BY <1>1, <1>3 DEF TopIntent, RecordEnqueueIntent, TypeOK
  <2>13. \A h \in Files : row'[h].st \in Live => row[h].st \in Live BY <2>1, <2>12
  <2>14. Counted(row', t) \in SUBSET D BY <2>11, <2>13 DEF Counted
  <2>15. Cardinality(Counted(row', t)) \in Nat /\ Cardinality(Counted(row', t)) <= Cardinality(D) BY <2>5, <2>14, Counts
  <2>16. /\ Cardinality(LiveUpTo(row', f)) \in Nat
         /\ Cardinality(LiveUpTo(row', f)) <= Cardinality(LiveUpTo(row, f))
    BY <2>13, UpToShrinks
  <2> HIDE DEF C, D
  <2>17. Cardinality(Counted(row', t)) + t.room <= MaxInflightPerPeer + 1 BY <2>2, <2>3, <2>4, <2>5, <2>11, <2>15
  <2>18. Cardinality(LiveUpTo(row', f)) <= MaxInflightPerPeer BY <2>4, <2>7, <2>8, <2>16
  <2>19. TopRank(row', t) BY <2>11, <2>17, <2>18 DEF TopRank
  <2>20. TopsRanked BY <1>1, <2>10, <2>11, <2>19, TopGoes DEF TopsRanked
  <2>. QED BY <2>8, <2>12, <2>20
<1>. QED BY <1>2, <1>3 DEF TopIntent

LEMMA EnqueueRanked ==
  ASSUME BudgetInv, Native, NEW g \in Goroutines, TopEnqueue(g)
  PROVE /\ TopsRanked
        /\ \A h \in Files : Entered(h)' =>
             Entered(h) \/ Cardinality(LiveUpTo(row, h)) <= MaxInflightPerPeer
<1>1. TypeOK /\ Ranked /\ top[g] \in TopTicks /\ top[g].pc = "enqueue" /\ row' = row
  BY DEF BudgetInv, TransferInv, TypeOK, TopEnqueue
<1>2. EnqueueRemote(top[g].f) /\ top' = [top EXCEPT ![g].pc = "attach"] BY DEF TopEnqueue
<1>3. PICK t : t = [top[g] EXCEPT !.pc = "attach"] OBVIOUS
<1>4. /\ t \in TopTicks /\ t.pc = "attach" /\ t.f = top[g].f /\ t.todo = top[g].todo /\ t.room = top[g].room
  BY <1>1, <1>3 DEF TopTicks
<1>5. TopRank(row, top[g]) BY <1>1 DEF Ranked
<1>6. Counted(row, t) = Counted(row, top[g]) BY <1>4 DEF Counted
<1>7. TopRank(row, t) BY <1>1, <1>4, <1>5, <1>6 DEF TopRank
<1>8. TopsRanked BY <1>1, <1>2, <1>3, <1>4, <1>7, TopGoes DEF TopsRanked
<1>9. ASSUME NEW h \in Files, Entered(h)', ~Entered(h)
      PROVE Cardinality(LiveUpTo(row, h)) <= MaxInflightPerPeer
  <2>1. row[h].st \in Live /\ remote'[h] # remote[h] BY <1>1, <1>9 DEF Entered
  <2>2. h = top[g].f BY <1>1, <1>2, <2>1 DEF EnqueueRemote, TypeOK
  <2>. QED BY <1>1, <1>5, <2>1, <2>2 DEF TopRank
<1>. QED BY <1>8, <1>9

\* After Enqueue the file takes one of the room, or is taken back.
LEMMA AttachRanked ==
  ASSUME BudgetInv, NEW g \in Goroutines, TopAttach(g) PROVE TopsRanked
<1>1. TypeOK /\ TransferInv /\ Ranked /\ top[g] \in TopTicks /\ top[g].pc = "attach" /\ TopRank(row, top[g])
  BY DEF BudgetInv, TransferInv, TypeOK, TopAttach, Ranked
<1>2. CASE top' = [top EXCEPT ![g].pc = "compensate"]
  <2>1. PICK t : t = [top[g] EXCEPT !.pc = "compensate"] OBVIOUS
  <2>2. t \in TopTicks /\ t.pc = "compensate" BY <1>1, <2>1 DEF TopTicks
  <2>3. top' = [top EXCEPT ![g] = t] BY <1>2, <2>1
  <2>4. TopRank(row', t) BY <2>2, IdleRank
  <2>. QED BY <1>1, <2>2, <2>3, <2>4, TopGoes DEF TopsRanked
<1>3. CASE Attachable(top[g].f, top[g].attempt)
  <2>1. top[g].room \in 0 .. MaxInflightPerPeer /\ top[g].room > 0 BY <1>1, TopTyped DEF TransferInv, TopShape, Sending
  <2>2. top[g].room - 1 \in 0 .. MaxInflightPerPeer BY <2>1, TransfersAssumption
  <2>3. PICK t : t = [top[g] EXCEPT !.pc = "intent", !.f = None, !.room = top[g].room - 1] OBVIOUS
  <2>4. top' = [top EXCEPT ![g] = t] BY <1>1, <1>3, <2>3 DEF TopAttach, TopTicks
  <2>5. t \in TopTicks /\ t.pc = "intent" /\ t.todo = top[g].todo /\ t.room = top[g].room - 1
    BY <1>1, <2>2, <2>3 DEF TopTicks
  <2>6. \A h \in Files : row'[h].st = row[h].st BY <1>1, TopUpSame
  <2>7. Counted(row', t) = Counted(row, top[g]) BY <2>5, <2>6 DEF Counted
  <2>8. Cardinality(Counted(row, top[g])) \in Nat BY Counts DEF Counted
  <2>9. Cardinality(Counted(row, top[g])) + top[g].room <= MaxInflightPerPeer + 1 BY <1>1 DEF TopRank
  <2>10. Cardinality(Counted(row', t)) + t.room <= MaxInflightPerPeer BY <2>1, <2>5, <2>7, <2>8, <2>9, TransfersAssumption
  <2>11. TopRank(row', t) BY <2>5, <2>10 DEF TopRank
  <2>. QED BY <1>1, <2>4, <2>5, <2>11, TopGoes DEF TopsRanked
<1>. QED BY <1>2, <1>3 DEF TopAttach

LEMMA EndRanked ==
  ASSUME BudgetInv, NEW g \in Goroutines, TopCompensate(g) \/ TopEnd(g) \/ TopFails(g) PROVE TopsRanked
<1>1. TypeOK /\ Ranked /\ top[g] \in TopTicks /\ top[g].pc # "refused"
  BY DEF BudgetInv, TransferInv, TypeOK, Ranked, TopRank
<1>2. CASE top' = [top EXCEPT ![g] = TopIdle]
  <2>1. TopIdle.pc = "idle" BY DEF TopIdle
  <2>. QED BY <1>1, <1>2, <2>1, Idles, TopGoes, IdleRank DEF TopsRanked
<1>3. CASE TopFails(g) /\ top[g].pc = "attach"
  <2>1. PICK t : t = [top[g] EXCEPT !.pc = "compensate"] OBVIOUS
  <2>2. t \in TopTicks /\ t.pc = "compensate" BY <1>1, <2>1 DEF TopTicks
  <2>3. top' = [top EXCEPT ![g] = t] BY <1>3, <2>1 DEF TopFails
  <2>. QED BY <1>1, <2>2, <2>3, TopGoes, IdleRank DEF TopsRanked
<1>4. CASE TopFails(g) /\ top[g].pc # "attach"
  <2>1. top' = [top EXCEPT ![g] = TopIdle] BY <1>1, <1>4 DEF TopFails
  <2>. QED BY <1>2, <2>1
<1>. QED BY <1>2, <1>3, <1>4 DEF TopCompensate, TopEnd

LEMMA RankedTop ==
  ASSUME BudgetInv, Native, MaxAttempts = 1, Next, NEW g \in Goroutines, TopUp(g) \/ TopFails(g)
  PROVE Ranked'
<1>0. TransferInv /\ Ranked /\ TypeOK BY DEF BudgetInv, TransferInv
<1>1. \A f \in Files : row'[f].st \in Live => row[f].st \in Live BY <1>0, LiveShrinks
<1>2. ~TopRefused(g) BY <1>0 DEF Ranked, TopRank, TopRefused
<1> DEFINE Enters == \A h \in Files : Entered(h)' =>
                       Entered(h) \/ Cardinality(LiveUpTo(row, h)) <= MaxInflightPerPeer
<1>3. CASE TopEnqueue(g)
  <2>1. TopsRanked /\ Enters BY <1>3, EnqueueRanked
  <2>. QED BY <1>0, <1>1, <2>1, RankedKeeps DEF TopsRanked
<1>4. CASE ~TopEnqueue(g)
  <2>1. TopsRanked /\ \A h \in Files : row'[h].st \in Sent =>
          row[h].st \in Sent \/ Cardinality(LiveUpTo(row, h)) <= MaxInflightPerPeer
    <3>1. CASE \E f \in Files : TopIntent(g, f) BY <3>1, IntentRanked
    <3>2. CASE TopRead(g) \/ TopAttach(g) \/ TopCompensate(g) \/ TopEnd(g) \/ TopFails(g)
      <4>1. \A h \in Files : row'[h].st = row[h].st BY <1>0, <3>2, TopUpSame
      <4>2. TopsRanked BY <3>2, ReadRanked, AttachRanked, EndRanked
      <4>. QED BY <4>1, <4>2
    <3>. QED BY <1>2, <1>4, <3>1, <3>2 DEF TopUp
  <2>2. \A k \in Goroutines : ~TopEnqueue(k)
    <3>. SUFFICES ASSUME NEW k \in Goroutines, k # g, TopEnqueue(k) PROVE FALSE BY <1>4
    <3>1. top[k].pc = "enqueue" /\ top'[k].pc \in {"attach", "refused"} BY SMTT(40), <1>0 DEF TopEnqueue, TypeOK, TopTicks
    <3>2. PICK t : top' = [top EXCEPT ![g] = t]
      BY <1>2, <1>4 DEF TopUp, TopRead, TopIntent, TopAttach, TopCompensate, TopEnd, TopFails
    <3>. QED BY <1>0, <3>1, <3>2 DEF TypeOK
  <2>3. Enters
    <3>. SUFFICES ASSUME NEW h \in Files, Entered(h)',
                         ~(Cardinality(LiveUpTo(row, h)) <= MaxInflightPerPeer)
                  PROVE Entered(h)
      OBVIOUS
    <3>. QED BY <1>0, <2>1, <2>2, NoneEnters
  <2>. QED BY <1>0, <1>1, <2>1, <2>3, RankedKeeps DEF TopsRanked
<1>. QED BY <1>3, <1>4

LEMMA BudgetStep == ASSUME Native, MaxAttempts = 1 PROVE BudgetInv /\ [Next]_vars => BudgetInv'
<1>. SUFFICES ASSUME BudgetInv, [Next]_vars PROVE BudgetInv' OBVIOUS
<1>1. TransferInv' BY TransferStep DEF BudgetInv
<1>2. CASE UNCHANGED vars BY <1>1, <1>2 DEF vars, BudgetInv, SentBefore, DlAhead, InLoop, AtFile, Ranked, Entered
<1>3. CASE Next
  <2>1. SentBefore' BY <1>3, SentBeforeStep
  <2>2. Ranked'
    <3>1. ~NextAttempt BY <1>3, OneActivation DEF BudgetInv
    <3>2. CASE \E g \in Goroutines : TopUp(g) \/ TopFails(g) BY <1>3, <3>2, RankedTop
    <3>3. CASE Reconcile \/ Resolve \/ TickFails \/ \E f \in Files : SiblingWriteFails(f) BY <1>3, <3>3, RankedTick
    <3>. QED BY <1>3, <3>1, <3>2, <3>3, RankedEnvironment
      DEF Next, Selecting, Downloading, Environment, Goroutines
  <2>. QED BY <1>1, <2>1, <2>2 DEF BudgetInv
<1>. QED BY <1>2, <1>3

LEMMA BudgetInit == Init => BudgetInv
<1>. SUFFICES ASSUME Init PROVE BudgetInv OBVIOUS
<1>1. TransferInv BY TransferInit
<1>2. SentBefore BY DEF Init, SentBefore, DlAhead, DlIdle, InLoop, AtFile
<1>3. \A f \in Files : ~Entered(f) BY DEF Init, Entered, PendingRows, PendingRow, NoRemote, Sent, Running
<1>4. \A g \in Goroutines : top[g].pc \in {"idle", "read"} BY DEF Init, TopIdle, Goroutines
<1>5. Ranked BY <1>3, <1>4, IdleRank DEF Ranked
<1>. QED BY <1>1, <1>2, <1>5 DEF BudgetInv

\* The last of the files that run has all the others before it.
LEMMA BudgetKept == BudgetInv => BudgetsHold
<1>. SUFFICES ASSUME BudgetInv PROVE BudgetShared BY DEF BudgetInv, TransferInv, BudgetsHold
<1> DEFINE S == {f \in Files : row[f].st \in Live /\ remote[f] \in Running}
<1>1. S \in SUBSET Files OBVIOUS
<1>2. CASE S = {}
  <2>1. Cardinality(S) <= MaxInflightPerPeer
    <3> HIDE DEF S
    <3>. QED BY <1>2, FS_EmptySet, TransfersAssumption
  <2>. QED BY <2>1 DEF BudgetShared
<1>3. CASE S # {}
  <2>1. PICK f \in S : \A h \in S : h <= f BY <1>1, <1>3, LastFile
  <2>2. S \in SUBSET LiveUpTo(row, f) /\ LiveUpTo(row, f) \in SUBSET Files BY <2>1 DEF LiveUpTo
  <2>3. Cardinality(LiveUpTo(row, f)) <= MaxInflightPerPeer BY DEF BudgetInv, Ranked, Entered
  <2>4. Cardinality(S) \in Nat /\ Cardinality(LiveUpTo(row, f)) \in Nat /\ Cardinality(S) <= Cardinality(LiveUpTo(row, f))
    BY <2>2, Counts
  <2>5. Cardinality(S) <= MaxInflightPerPeer BY <2>3, <2>4, TransfersAssumption
  <2>. QED BY <2>5 DEF BudgetShared
<1>. QED BY <1>2, <1>3

\* In a candidate's first activation with the native backend, the top-ups of
\* Selecting and Downloading (topUpCandidate) together keep no more undelivered
\* files running at a peer than MaxInflightPerPeer, though each counts for
\* itself and from rows that may be old; and no file is retried more than once
\* beyond MaxTransferRetries.
THEOREM BudgetsHeld == ASSUME Native, MaxAttempts = 1 PROVE Spec => []BudgetsHold
<1>1. BudgetInv /\ [Next]_vars => BudgetInv' BY BudgetStep
<1>. QED BY <1>1, BudgetInit, BudgetKept, PTL DEF Spec
=============================================================================
