----------------------------- MODULE Sharing_proofs -----------------------------
(* What Uploads, Shares and ShareDeliveries guarantee for every number of   *)
(* users, requests and slots, and whatever the bounds of MCSharing are.     *)
EXTENDS MCSharing, SequenceTheorems, FiniteSetTheorems, TLAPS

(***************************************************************************)
(* ShareDeliveries: the ledger of answers and the slots                    *)
(***************************************************************************)
Searched == {"first", "second"}
Reserving == {"reserved", "connect", "delivered", "undelivered"}
Places == {"new", "claimed", "match", "matched", "over"} \cup Reserving

DeliveryTypes ==
  /\ at \in [Requests -> Places] /\ matching \in Nat /\ sending \in Nat
  /\ delivery \in [of : [Requests -> {"first", "second", "folder"}], workers : Nat, deliverers : Nat,
                   cap : Nat, stops : Nat]
  /\ inFlight \subseteq Searched /\ recent \subseteq Searched /\ expired \subseteq Searched
  /\ answers \in [Searched -> Nat]
  /\ \A r \in Requests : at[r] \in Reserving \cup {"matched"} => Answers!Key(r) \in Searched

\* A key is in flight for one request, and is in one part of the ledger only.
OneReservation ==
  /\ inFlight = {Answers!Key(r) : r \in {q \in Requests : at[q] \in Reserving}}
  /\ \A r, o \in Requests : at[r] \in Reserving /\ at[o] \in Reserving /\ Answers!Key(r) = Answers!Key(o) => r = o
  /\ inFlight \cap recent = {} /\ inFlight \cap expired = {} /\ recent \cap expired = {}

\* What has been answered is in the ledger, or is about to be.
AnswersKnown ==
  \A k \in Searched :
    answers[k] = IF k \in recent \/ \E r \in Requests : at[r] = "delivered" /\ Answers!Key(r) = k THEN 1 ELSE 0

DeliveryInv ==
  DeliveryTypes /\ OneReservation /\ AnswersKnown /\ Answers!SlotsAreUsed /\ Answers!LedgerIsBounded

\* Cardinality is the same in the modules that are instantiated.
LEMMA AnswersCount == ASSUME NEW S PROVE Answers!Cardinality(S) = Cardinality(S)
BY DEF Answers!Cardinality, Cardinality

\* Ledgers are small sets.
LEMMA LedgerCounts ==
  ASSUME NEW S \in SUBSET Searched
  PROVE /\ IsFiniteSet(S) /\ Cardinality(S) \in Nat
        /\ \A k \in S : Cardinality(S \ {k}) = Cardinality(S) - 1
        /\ \A k : k \notin S => Cardinality(S \cup {k}) = Cardinality(S) + 1
<1>1. IsFiniteSet(Searched) 
  <2>1. Searched = {"first"} \cup {"second"} BY DEF Searched
  <2>. QED BY <2>1, FS_Singleton, FS_AddElement
<1>2. IsFiniteSet(S) BY <1>1, FS_Subset
<1>. QED BY <1>2, FS_CardinalityType, FS_AddElement, FS_RemoveElement

\* A request moves in or out of the requests that are counted.
LEMMA SlotsCount ==
  ASSUME NEW S \in SUBSET Requests
  PROVE /\ IsFiniteSet(S) /\ Cardinality(S) \in Nat
        /\ \A r \in S : Cardinality(S \ {r}) = Cardinality(S) - 1
        /\ \A r : r \notin S => Cardinality(S \cup {r}) = Cardinality(S) + 1
<1>1. IsFiniteSet(S) BY DeliveriesAssumption, FS_Subset
<1>. QED BY <1>1, FS_CardinalityType, FS_AddElement, FS_RemoveElement

\* A request goes on to another place.
LEMMA GoesOn ==
  ASSUME DeliveryTypes, NEW r \in Requests, NEW to \in Places, at' = [at EXCEPT ![r] = to]
  PROVE /\ at' \in [Requests -> Places] /\ at'[r] = to /\ \A q \in Requests : q # r => at'[q] = at[q]
        /\ at[r] \in Places
BY DEF DeliveryTypes

\* The requests at the places P, as a places them.
InPlaces(a, P) == Cardinality({q \in Requests : a[q] \in P})

LEMMA SlotsMove ==
  ASSUME DeliveryTypes, NEW r \in Requests, NEW to \in Places, at' = [at EXCEPT ![r] = to], NEW P
  PROVE /\ InPlaces(at, P) \in Nat /\ InPlaces(at', P) \in Nat
        /\ at[r] \in P /\ to \notin P => InPlaces(at', P) = InPlaces(at, P) - 1
        /\ at[r] \notin P /\ to \in P => InPlaces(at', P) = InPlaces(at, P) + 1
        /\ (at[r] \in P <=> to \in P) => InPlaces(at', P) = InPlaces(at, P)
<1> DEFINE S == {q \in Requests : at[q] \in P}
           T == {q \in Requests : at'[q] \in P}
<1>1. at'[r] = to /\ \A q \in Requests : q # r => at'[q] = at[q] BY GoesOn
<1>2. S \in SUBSET Requests /\ T \in SUBSET Requests OBVIOUS
<1>3. Cardinality(S) \in Nat /\ Cardinality(T) \in Nat BY <1>2, SlotsCount
<1>4. at[r] \in P /\ to \notin P => T = S \ {r} /\ r \in S BY <1>1
<1>5. at[r] \notin P /\ to \in P => T = S \cup {r} /\ r \notin S BY <1>1
<1>6. (at[r] \in P <=> to \in P) => T = S BY <1>1
<1>7. InPlaces(at, P) = Cardinality(S) /\ InPlaces(at', P) = Cardinality(T) BY DEF InPlaces
<1> HIDE DEF S, T
<1>8. r \in S => Cardinality(S \ {r}) = Cardinality(S) - 1 BY <1>2, SlotsCount
<1>9. r \notin S => Cardinality(S \cup {r}) = Cardinality(S) + 1 BY <1>2, SlotsCount
<1>. QED BY <1>3, <1>4, <1>5, <1>6, <1>7, <1>8, <1>9

\* matching and sending change with the place of the request.
Matching(p) == IF p \in {"claimed", "match"} THEN 1 ELSE 0
Sending(p) == IF p = "connect" THEN 1 ELSE 0

LEMMA SlotsUsed ==
  Answers!SlotsAreUsed <=> matching = InPlaces(at, {"claimed", "match"}) /\ sending = InPlaces(at, {"connect"})
<1>1. {q \in Requests : at[q] \in {"connect"}} = {q \in Requests : at[q] = "connect"} OBVIOUS
<1>. QED BY <1>1, AnswersCount DEF Answers!SlotsAreUsed, InPlaces

LEMMA SlotsUsedNext ==
  Answers!SlotsAreUsed' <=> matching' = InPlaces(at', {"claimed", "match"}) /\ sending' = InPlaces(at', {"connect"})
<1>1. {q \in Requests : at'[q] \in {"connect"}} = {q \in Requests : at'[q] = "connect"} OBVIOUS
<1>. QED BY <1>1, AnswersCount DEF Answers!SlotsAreUsed, InPlaces

LEMMA SlotsFollow ==
  ASSUME DeliveryInv, NEW r \in Requests, NEW to \in Places, at' = [at EXCEPT ![r] = to],
         matching' = matching - Matching(at[r]) + Matching(to),
         sending' = sending - Sending(at[r]) + Sending(to)
  PROVE Answers!SlotsAreUsed' /\ matching' \in Nat /\ sending' \in Nat
<1>0. DeliveryTypes /\ matching = InPlaces(at, {"claimed", "match"}) /\ sending = InPlaces(at, {"connect"})
BY SlotsUsed DEF DeliveryInv
<1>1. matching' = InPlaces(at', {"claimed", "match"}) /\ matching' \in Nat
  <2> DEFINE P == {"claimed", "match"}
  <2>1. /\ InPlaces(at, P) \in Nat /\ InPlaces(at', P) \in Nat
        /\ at[r] \in P /\ to \notin P => InPlaces(at', P) = InPlaces(at, P) - 1
        /\ at[r] \notin P /\ to \in P => InPlaces(at', P) = InPlaces(at, P) + 1
        /\ (at[r] \in P <=> to \in P) => InPlaces(at', P) = InPlaces(at, P) BY <1>0, SlotsMove
  <2>2. \A p : (p \in P => Matching(p) = 1) /\ (p \notin P => Matching(p) = 0) BY DEF Matching
  <2>. QED BY <1>0, <2>1, <2>2
<1>2. sending' = InPlaces(at', {"connect"}) /\ sending' \in Nat
  <2> DEFINE P == {"connect"}
  <2>1. /\ InPlaces(at, P) \in Nat /\ InPlaces(at', P) \in Nat
        /\ at[r] \in P /\ to \notin P => InPlaces(at', P) = InPlaces(at, P) - 1
        /\ at[r] \notin P /\ to \in P => InPlaces(at', P) = InPlaces(at, P) + 1
        /\ (at[r] \in P <=> to \in P) => InPlaces(at', P) = InPlaces(at, P) BY <1>0, SlotsMove
  <2>2. \A p : (p \in P => Sending(p) = 1) /\ (p \notin P => Sending(p) = 0) BY DEF Sending
  <2>. QED BY <1>0, <2>1, <2>2
<1>. QED BY <1>1, <1>2, SlotsUsedNext

\* Before a reservation and after it nothing of the ledger is the request's.
LEMMA LedgerStays ==
  ASSUME DeliveryInv, NEW r \in Requests, NEW to \in Places, at' = [at EXCEPT ![r] = to],
         UNCHANGED <<inFlight, recent, expired, answers>>, delivery'.cap = delivery.cap, delivery'.of = delivery.of,
         \/ at[r] \notin Reserving /\ to \notin Reserving
         \/ at[r] \in Reserving \ {"delivered"} /\ to \in Reserving \ {"delivered"}
  PROVE OneReservation' /\ AnswersKnown' /\ Answers!LedgerIsBounded'
<1>0. DeliveryTypes /\ OneReservation /\ AnswersKnown /\ Answers!LedgerIsBounded BY DEF DeliveryInv
<1>1. at'[r] = to /\ \A q \in Requests : q # r => at'[q] = at[q] BY <1>0, GoesOn
<1>2. \A q \in Requests : (at'[q] \in Reserving <=> at[q] \in Reserving) /\ (at'[q] = "delivered" <=> at[q] = "delivered")
BY <1>1 DEF Reserving
<1>3. \A q \in Requests : Answers!Key(q)' = Answers!Key(q) BY DEF Answers!Key
<1>4. OneReservation' BY <1>0, <1>2, <1>3 DEF OneReservation
<1>5. AnswersKnown' BY <1>0, <1>2, <1>3 DEF AnswersKnown
<1>6. Answers!LedgerIsBounded' BY <1>0 DEF Answers!LedgerIsBounded
<1>. QED BY <1>4, <1>5, <1>6

\* A step that only moves a request, with the slots it takes and gives back.
Moves(r, to) ==
  /\ at' = [at EXCEPT ![r] = to] /\ to \in Places
  /\ matching' = matching - Matching(at[r]) + Matching(to)
  /\ sending' = sending - Sending(at[r]) + Sending(to)
  /\ inFlight' = inFlight /\ recent' = recent /\ expired' = expired /\ answers' = answers /\ delivery' = delivery
  /\ \/ at[r] \notin Reserving /\ to \notin Reserving
     \/ at[r] \in Reserving \ {"delivered"} /\ to \in Reserving \ {"delivered"}
  /\ to \in Reserving \cup {"matched"} => Answers!Key(r) \in Searched

LEMMA RequestMoves == ASSUME DeliveryInv, NEW r \in Requests, NEW to, Moves(r, to) PROVE DeliveryInv'
<1>0. DeliveryTypes /\ to \in Places /\ at' = [at EXCEPT ![r] = to] BY DEF DeliveryInv, Moves
<1>1. Answers!SlotsAreUsed' /\ matching' \in Nat /\ sending' \in Nat BY <1>0, SlotsFollow DEF Moves
<1>2. OneReservation' /\ AnswersKnown' /\ Answers!LedgerIsBounded' BY <1>0, LedgerStays DEF Moves
<1>3. at' \in [Requests -> Places] /\ at'[r] = to /\ \A q \in Requests : q # r => at'[q] = at[q] BY <1>0, GoesOn
<1>4. \A q \in Requests : Answers!Key(q)' = Answers!Key(q) BY DEF Answers!Key, Moves
<1>5. \A q \in Requests : at'[q] \in Reserving \cup {"matched"} => Answers!Key(q)' \in Searched
BY <1>0, <1>3, <1>4 DEF DeliveryTypes, Moves
<1>6. DeliveryTypes' BY <1>0, <1>1, <1>3, <1>5 DEF DeliveryTypes, Moves
<1>. QED BY <1>1, <1>2, <1>6 DEF DeliveryInv

LEMMA Working ==
  ASSUME DeliveryInv, NEW r \in Requests,
         \/ Answers!ClaimMatchSlot(r) \/ Answers!StartTracked(r) \/ Answers!FolderContents(r) \/ Answers!Match(r)
         \/ Answers!ClaimDeliverySlot(r)
  PROVE DeliveryInv'
<1>0. DeliveryTypes /\ matching \in Nat /\ sending \in Nat BY DEF DeliveryInv, DeliveryTypes
<1>1. CASE Answers!ClaimMatchSlot(r)
  <2>1. CASE at[r] = "new" /\ at' = [at EXCEPT ![r] = "claimed"] /\ matching' = matching + 1
    <3>1. Matching("new") = 0 /\ Matching("claimed") = 1 /\ Sending("new") = 0 /\ Sending("claimed") = 0
      BY DEF Matching, Sending
    <3>2. Moves(r, "claimed") BY <1>0, <1>1, <2>1, <3>1
             DEF Moves, Answers!ClaimMatchSlot, Answers!LedgerUnchanged, Answers!Fixed, Places, Reserving
    <3>. QED BY <3>2, RequestMoves
  <2>2. CASE at[r] = "new" /\ at' = [at EXCEPT ![r] = "over"] /\ matching' = matching
    <3>1. Matching("new") = 0 /\ Matching("over") = 0 /\ Sending("new") = 0 /\ Sending("over") = 0 BY DEF Matching, Sending
    <3>2. Moves(r, "over") BY <1>0, <1>1, <2>2, <3>1
             DEF Moves, Answers!ClaimMatchSlot, Answers!LedgerUnchanged, Answers!Fixed, Places, Reserving
    <3>. QED BY <3>2, RequestMoves
  <2>. QED BY <1>1, <2>1, <2>2 DEF Answers!ClaimMatchSlot, Answers!Goes
<1>2. CASE Answers!StartTracked(r)
  <2>0. Matching("claimed") = 1 /\ Matching("match") = 1 /\ Matching("over") = 0
        /\ Sending("claimed") = 0 /\ Sending("match") = 0 /\ Sending("over") = 0 BY DEF Matching, Sending
  <2>1. CASE at[r] = "claimed" /\ at' = [at EXCEPT ![r] = "match"] /\ matching' = matching
    <3>1. Moves(r, "match") BY <1>0, <1>2, <2>0, <2>1 DEF Moves, Answers!StartTracked, Answers!LedgerUnchanged, Answers!Fixed, Places, Reserving
    <3>. QED BY <3>1, RequestMoves
  <2>2. CASE at[r] = "claimed" /\ at' = [at EXCEPT ![r] = "over"] /\ matching' = matching - 1
    <3>1. Moves(r, "over") BY <1>0, <1>2, <2>0, <2>2 DEF Moves, Answers!StartTracked, Answers!LedgerUnchanged, Answers!Fixed, Places, Reserving
    <3>. QED BY <3>1, RequestMoves
  <2>. QED BY <1>2, <2>1, <2>2 DEF Answers!StartTracked, Answers!GiveBackSlot, Answers!Goes
<1>3. CASE Answers!FolderContents(r)
  <2>0. Matching("match") = 1 /\ Matching("over") = 0 /\ Sending("match") = 0 /\ Sending("over") = 0 BY DEF Matching, Sending
  <2>1. Moves(r, "over") BY <1>0, <1>3, <2>0
    DEF Moves, Answers!FolderContents, Answers!Goes, Answers!LedgerUnchanged, Answers!Fixed, Places, Reserving
  <2>. QED BY <2>1, RequestMoves
<1>4. CASE Answers!Match(r)
  <2>0. Matching("match") = 1 /\ Matching("over") = 0 /\ Sending("match") = 0 /\ Sending("over") = 0
        /\ Matching("matched") = 0 /\ Sending("matched") = 0 BY DEF Matching, Sending
  <2>1. Answers!Key(r) \in Searched BY <1>0, <1>4 DEF Answers!Match, Answers!Key, DeliveryTypes, Searched
  <2>2. PICK to \in {"matched", "over"} : Answers!Goes(r, "match", to) BY <1>4 DEF Answers!Match
  <2>3. to \in Places /\ to \notin Reserving /\ "match" \notin Reserving BY DEF Places, Reserving
  <2>4. Matching(to) = 0 /\ Sending(to) = 0 BY <2>0
  <2>5. at[r] = "match" /\ at' = [at EXCEPT ![r] = to] BY <2>2 DEF Answers!Goes
  <2>6. matching' = matching - 1 /\ sending' = sending /\ inFlight' = inFlight /\ recent' = recent
        /\ expired' = expired /\ answers' = answers /\ delivery' = delivery
    BY <1>4 DEF Answers!Match, Answers!LedgerUnchanged, Answers!Fixed
  <2>7. matching' = matching - Matching(at[r]) + Matching(to) /\ sending' = sending - Sending(at[r]) + Sending(to)
    BY <1>0, <2>0, <2>4, <2>5, <2>6
  <2>8. Moves(r, to) BY <2>1, <2>3, <2>5, <2>6, <2>7 DEF Moves
  <2>. QED BY <2>8, RequestMoves
<1>5. CASE Answers!ClaimDeliverySlot(r)
  <2>0. Matching("reserved") = 0 /\ Matching("connect") = 0 /\ Matching("undelivered") = 0
        /\ Sending("reserved") = 0 /\ Sending("connect") = 1 /\ Sending("undelivered") = 0 BY DEF Matching, Sending
  <2>1. at[r] = "reserved" /\ Answers!Key(r) \in Searched
    BY <1>0, <1>5 DEF Answers!ClaimDeliverySlot, Answers!Goes, DeliveryTypes, Reserving
  <2>2. CASE at' = [at EXCEPT ![r] = "connect"] /\ sending' = sending + 1
    <3>1. Moves(r, "connect") BY <1>0, <1>5, <2>0, <2>1, <2>2
      DEF Moves, Answers!ClaimDeliverySlot, Answers!LedgerUnchanged, Answers!Fixed, Places, Reserving
    <3>. QED BY <3>1, RequestMoves
  <2>3. CASE at' = [at EXCEPT ![r] = "undelivered"] /\ sending' = sending
    <3>1. Moves(r, "undelivered") BY <1>0, <1>5, <2>0, <2>1, <2>3
      DEF Moves, Answers!ClaimDeliverySlot, Answers!LedgerUnchanged, Answers!Fixed, Places, Reserving
    <3>. QED BY <3>1, RequestMoves
  <2>. QED BY <1>5, <2>2, <2>3 DEF Answers!ClaimDeliverySlot, Answers!Goes
<1>. QED BY <1>1, <1>2, <1>3, <1>4, <1>5

LEMMA KeysAreSearched == Searched = Answers!Keys BY DEF Searched, Answers!Keys

\* The answer that is sent is the first to its search.
LEMMA Delivering == ASSUME DeliveryInv, NEW r \in Requests, Answers!Deliver(r) PROVE DeliveryInv'
<1>0. DeliveryTypes /\ matching \in Nat /\ sending \in Nat /\ OneReservation /\ AnswersKnown /\ Answers!LedgerIsBounded
BY DEF DeliveryInv, DeliveryTypes
<1>1. Matching("connect") = 0 /\ Matching("delivered") = 0 /\ Matching("undelivered") = 0
      /\ Sending("connect") = 1 /\ Sending("delivered") = 0 /\ Sending("undelivered") = 0 BY DEF Matching, Sending
<1>2. at[r] = "connect" /\ Answers!Key(r) \in Searched BY <1>0 DEF Answers!Deliver, Answers!Goes, DeliveryTypes, Reserving
<1>3. matching' = matching /\ sending' = sending - 1 /\ inFlight' = inFlight /\ recent' = recent
      /\ expired' = expired /\ delivery' = delivery BY DEF Answers!Deliver, Answers!Fixed
<1>4. CASE at' = [at EXCEPT ![r] = "undelivered"] /\ answers' = answers
  <2>1. Moves(r, "undelivered") BY <1>0, <1>1, <1>2, <1>3, <1>4 DEF Moves, Places, Reserving
  <2>. QED BY <2>1, RequestMoves
<1>5. CASE at' = [at EXCEPT ![r] = "delivered"] /\ answers' = [answers EXCEPT ![Answers!Key(r)] = answers[Answers!Key(r)] + 1]
  <2>1. "delivered" \in Places BY DEF Places, Reserving
  <2>2. at' \in [Requests -> Places] /\ at'[r] = "delivered" /\ \A q \in Requests : q # r => at'[q] = at[q]
    BY <1>0, <1>5, <2>1, GoesOn
  <2>3. matching' = matching - Matching(at[r]) + Matching("delivered")
        /\ sending' = sending - Sending(at[r]) + Sending("delivered") BY <1>0, <1>1, <1>2, <1>3
  <2>4. Answers!SlotsAreUsed' /\ matching' \in Nat /\ sending' \in Nat BY <1>5, <2>1, <2>3, SlotsFollow
  <2>5. \A q \in Requests : Answers!Key(q)' = Answers!Key(q) BY <1>3 DEF Answers!Key
  <2>6. \A q \in Requests : at'[q] \in Reserving <=> at[q] \in Reserving BY <1>2, <2>2 DEF Reserving
  <2>7. OneReservation' BY <1>0, <1>3, <2>5, <2>6 DEF OneReservation
  <2>8. answers[Answers!Key(r)] \in Nat /\ answers' \in [Searched -> Nat] /\ answers'[Answers!Key(r)] = answers[Answers!Key(r)] + 1
        /\ \A k \in Searched : k # Answers!Key(r) => answers'[k] = answers[k] BY <1>0, <1>2, <1>5 DEF DeliveryTypes
  <2>9. AnswersKnown'
    <3>1. at[r] \in Reserving BY <1>2 DEF Reserving
    <3>2. Answers!Key(r) \in inFlight BY <1>0, <3>1 DEF OneReservation
    <3>3. Answers!Key(r) \notin recent BY <1>0, <3>2 DEF OneReservation
    <3>4. \A o \in Requests : at[o] = "delivered" => Answers!Key(o) # Answers!Key(r)
      BY <1>0, <1>2, <3>1 DEF OneReservation, Reserving
    <3>5. answers[Answers!Key(r)] = 0 BY <1>0, <1>2, <3>3, <3>4 DEF AnswersKnown
    <3>6. answers'[Answers!Key(r)] = 1 BY <2>8, <3>5
    <3>7. ASSUME NEW k \in Searched, k # Answers!Key(r)
          PROVE answers'[k] = IF k \in recent \/ \E o \in Requests : at'[o] = "delivered" /\ Answers!Key(o) = k THEN 1 ELSE 0
      <4>1. (\E o \in Requests : at'[o] = "delivered" /\ Answers!Key(o) = k)
            <=> \E o \in Requests : at[o] = "delivered" /\ Answers!Key(o) = k BY <1>2, <2>2, <3>7
      <4>2. answers[k] = IF k \in recent \/ \E o \in Requests : at[o] = "delivered" /\ Answers!Key(o) = k THEN 1 ELSE 0
        BY <1>0 DEF AnswersKnown
      <4>. QED BY <2>8, <3>7, <4>1, <4>2
    <3>8. \A k \in Searched : answers'[k] =
            IF k \in recent \/ \E o \in Requests : at'[o] = "delivered" /\ Answers!Key(o) = k THEN 1 ELSE 0
      BY <2>2, <3>6, <3>7
    <3>. QED BY <1>3, <2>5, <3>8 DEF AnswersKnown
  <2>10. Answers!LedgerIsBounded' BY <1>0, <1>3 DEF Answers!LedgerIsBounded
  <2>11. \A q \in Requests : at'[q] \in Reserving \cup {"matched"} => Answers!Key(q)' \in Searched
    BY <1>0, <1>2, <2>2, <2>5 DEF DeliveryTypes
  <2>12. DeliveryTypes' BY <1>0, <1>3, <2>2, <2>4, <2>8, <2>11 DEF DeliveryTypes
  <2>. QED BY <2>4, <2>7, <2>9, <2>10, <2>12 DEF DeliveryInv
<1>. QED BY <1>4, <1>5 DEF Answers!Deliver, Answers!Goes

\* What was answered becomes recent, and nothing else is kept of a reservation.
LEMMA Finishing == ASSUME DeliveryInv, NEW r \in Requests, Answers!FinishSearchDelivery(r) PROVE DeliveryInv'
<1>0. DeliveryTypes /\ matching \in Nat /\ sending \in Nat /\ OneReservation /\ AnswersKnown /\ Answers!LedgerIsBounded
BY DEF DeliveryInv, DeliveryTypes
<1>1. at[r] \in {"delivered", "undelivered"} /\ at' = [at EXCEPT ![r] = "over"] /\ matching' = matching /\ sending' = sending
      /\ answers' = answers /\ delivery' = delivery BY DEF Answers!FinishSearchDelivery, Answers!Fixed
<1> DEFINE key == Answers!Key(r)
<1>2. at[r] \in Reserving /\ key \in Searched BY <1>0, <1>1 DEF Reserving, DeliveryTypes
<1>3. inFlight' = inFlight \ {key} /\ key \in inFlight
BY <1>0, <1>2 DEF Answers!FinishSearchDelivery, Answers!DropReservation, OneReservation
<1>4. recent' = (IF at[r] = "delivered" THEN recent \cup {key} ELSE recent)
      /\ expired' = (IF at[r] = "delivered" THEN expired \ {key} ELSE expired) BY DEF Answers!FinishSearchDelivery
<1>5. "over" \in Places /\ "over" \notin Reserving BY DEF Places, Reserving
<1>6. at' \in [Requests -> Places] /\ at'[r] = "over" /\ \A q \in Requests : q # r => at'[q] = at[q]
BY <1>0, <1>1, <1>5, GoesOn
<1>7. Answers!SlotsAreUsed' /\ matching' \in Nat /\ sending' \in Nat
  <2>1. Matching("over") = 0 /\ Sending("over") = 0 BY DEF Matching, Sending
  <2>2. Matching(at[r]) = 0 /\ Sending(at[r]) = 0 BY <1>1 DEF Matching, Sending
  <2>3. matching' = matching - Matching(at[r]) + Matching("over") /\ sending' = sending - Sending(at[r]) + Sending("over")
    BY <1>0, <1>1, <2>1, <2>2
  <2>. QED BY <1>1, <1>5, <2>3, SlotsFollow
<1>8. \A q \in Requests : Answers!Key(q)' = Answers!Key(q) BY <1>1 DEF Answers!Key
<1>9. \A q \in Requests : at'[q] \in Reserving <=> at[q] \in Reserving /\ q # r BY <1>5, <1>6
<1>10. \A q \in Requests : at[q] \in Reserving /\ q # r => Answers!Key(q) # key BY <1>0, <1>2 DEF OneReservation
<1>11. key \notin recent /\ key \notin expired BY <1>0, <1>3 DEF OneReservation
<1>12. OneReservation'
  <2>1. inFlight' = {Answers!Key(q) : q \in {o \in Requests : at'[o] \in Reserving}}
    <3>1. inFlight = {Answers!Key(q) : q \in {o \in Requests : at[o] \in Reserving}} BY <1>0 DEF OneReservation
    <3>. QED BY <1>3, <1>9, <1>10, <3>1
  <2>2. \A q, o \in Requests : at'[q] \in Reserving /\ at'[o] \in Reserving /\ Answers!Key(q) = Answers!Key(o) => q = o
    BY <1>0, <1>9 DEF OneReservation
  <2>3. inFlight' \cap recent' = {} /\ inFlight' \cap expired' = {} /\ recent' \cap expired' = {}
    BY <1>0, <1>3, <1>4, <1>11 DEF OneReservation
  <2>4. {Answers!Key(q) : q \in {o \in Requests : at'[o] \in Reserving}} =
        {Answers!Key(q)' : q \in {o \in Requests : at'[o] \in Reserving}} BY <1>8
  <2>. QED BY <1>8, <2>1, <2>2, <2>3, <2>4 DEF OneReservation
<1>13. AnswersKnown'
  <2>1. SUFFICES ASSUME NEW k \in Searched
                 PROVE (k \in recent' \/ \E o \in Requests : at'[o] = "delivered" /\ Answers!Key(o) = k)
                       <=> (k \in recent \/ \E o \in Requests : at[o] = "delivered" /\ Answers!Key(o) = k)
    <3>1. \A k \in Searched : (\E o \in Requests : at'[o] = "delivered" /\ Answers!Key(o)' = k)
                              <=> (\E o \in Requests : at'[o] = "delivered" /\ Answers!Key(o) = k) BY <1>8
    <3>. QED BY <1>0, <1>1, <2>1, <3>1 DEF AnswersKnown
  <2>2. CASE k = key /\ at[r] = "delivered" BY <1>4, <2>2
  <2>3. CASE k = key /\ at[r] = "undelivered"
    <3>1. \A o \in Requests : at'[o] = "delivered" => at[o] = "delivered" /\ o # r BY <1>6
    <3>2. \A o \in Requests : at[o] = "delivered" => Answers!Key(o) # key BY <1>10, <2>3 DEF Reserving
    <3>. QED BY <1>4, <2>3, <3>1, <3>2
  <2>4. CASE k # key
    <3>1. k \in recent' <=> k \in recent BY <1>4, <2>4
    <3>2. \A o \in Requests : o # r => (at'[o] = "delivered" <=> at[o] = "delivered") BY <1>6
    <3>3. at'[r] # "delivered" /\ Answers!Key(r) # k BY <1>6, <2>4
    <3>. QED BY <3>1, <3>2, <3>3
  <2>. QED BY <1>1, <2>2, <2>3, <2>4
<1>14. recent' \subseteq Searched /\ expired' \subseteq Searched /\ inFlight' \subseteq Searched
BY <1>0, <1>2, <1>3, <1>4 DEF DeliveryTypes
<1>15. Answers!LedgerIsBounded'
  <2>0. inFlight \in SUBSET Searched /\ recent \in SUBSET Searched /\ expired \in SUBSET Searched BY <1>0 DEF DeliveryTypes
  <2>1. Cardinality(recent) \in Nat /\ Cardinality(expired) \in Nat /\ Cardinality(inFlight) \in Nat BY <2>0, LedgerCounts
  <2>2. Cardinality(recent) + Cardinality(expired) + Cardinality(inFlight) <= delivery.cap
    BY <1>0, AnswersCount DEF Answers!LedgerIsBounded
  <2>3. Cardinality(inFlight') = Cardinality(inFlight) - 1 BY <1>3, <2>0, LedgerCounts
  <2>4. Cardinality(recent') = Cardinality(recent) \/ Cardinality(recent') = Cardinality(recent) + 1
    <3>1. Cardinality(recent \cup {key}) = Cardinality(recent) + 1 BY <1>11, <2>0, LedgerCounts
    <3>. QED BY <1>4, <3>1
  <2>5. expired' = expired BY <1>4, <1>11
  <2>6. delivery.cap \in Nat BY <1>0 DEF DeliveryTypes
  <2>7. Cardinality(recent') + Cardinality(expired') + Cardinality(inFlight') <= delivery'.cap
    BY <1>1, <2>1, <2>2, <2>3, <2>4, <2>5, <2>6
  <2>. QED BY <2>7, AnswersCount DEF Answers!LedgerIsBounded
<1>16. \A q \in Requests : at'[q] \in Reserving \cup {"matched"} => Answers!Key(q)' \in Searched
BY <1>0, <1>5, <1>6, <1>8 DEF DeliveryTypes
<1>17. DeliveryTypes' BY <1>0, <1>1, <1>6, <1>7, <1>14, <1>16 DEF DeliveryTypes
<1>. QED BY <1>7, <1>12, <1>13, <1>15, <1>17 DEF DeliveryInv

\* What is forgotten of the recent answers is not about to be answered.
LEMMA Forgetting ==
  ASSUME DeliveryInv, NEW ks \in SUBSET recent, Answers!Forget(ks)
  PROVE /\ answers' \in [Searched -> Nat]
        /\ \A k \in Searched : answers'[k] =
             IF k \in recent \ ks \/ \E o \in Requests : at[o] = "delivered" /\ Answers!Key(o) = k THEN 1 ELSE 0
<1>0. DeliveryTypes /\ OneReservation /\ AnswersKnown BY DEF DeliveryInv
<1>1. answers' = [k \in Searched |-> IF k \in ks THEN 0 ELSE answers[k]] BY KeysAreSearched DEF Answers!Forget
<1>2. \A k \in Searched : answers[k] \in Nat BY <1>0 DEF DeliveryTypes
<1>3. \A o \in Requests : at[o] = "delivered" => Answers!Key(o) \in inFlight BY <1>0 DEF OneReservation, Reserving
<1>4. \A k \in ks : k \notin inFlight BY <1>0 DEF OneReservation
<1>5. ASSUME NEW k \in Searched
      PROVE answers'[k] = IF k \in recent \ ks \/ \E o \in Requests : at[o] = "delivered" /\ Answers!Key(o) = k THEN 1 ELSE 0
  <2>1. answers[k] = IF k \in recent \/ \E o \in Requests : at[o] = "delivered" /\ Answers!Key(o) = k THEN 1 ELSE 0
    BY <1>0 DEF AnswersKnown
  <2>2. answers'[k] = IF k \in ks THEN 0 ELSE answers[k] BY <1>1
  <2>3. k \in ks => ~ \E o \in Requests : at[o] = "delivered" /\ Answers!Key(o) = k BY <1>3, <1>4
  <2>. QED BY <2>1, <2>2, <2>3
<1>6. answers' \in [Searched -> Nat] BY <1>1, <1>2
<1>. QED BY <1>5, <1>6

\* Room is made only by what was answered, and a reservation is only made where there is room.
LEMMA Reserves == ASSUME DeliveryInv, NEW r \in Requests, Answers!ReserveSearchDelivery(r) PROVE DeliveryInv'
<1>0. DeliveryTypes /\ matching \in Nat /\ sending \in Nat /\ OneReservation /\ AnswersKnown /\ Answers!LedgerIsBounded
BY DEF DeliveryInv, DeliveryTypes
<1> DEFINE key == Answers!Key(r)
<1>1. PICK evicted \in Answers!Evicted(r) :
        /\ recent' = recent \ evicted /\ expired' = {} /\ Answers!Forget(evicted)
        /\ IF Answers!Refused(r, evicted) THEN Answers!Goes(r, "matched", "over") /\ UNCHANGED inFlight
           ELSE Answers!Goes(r, "matched", "reserved") /\ inFlight' = inFlight \cup {key}
BY DEF Answers!ReserveSearchDelivery
<1>2. matching' = matching /\ sending' = sending /\ delivery' = delivery BY DEF Answers!ReserveSearchDelivery, Answers!Fixed
<1>3. evicted \in SUBSET recent BY <1>1 DEF Answers!Evicted
<1>4. PICK to \in {"over", "reserved"} :
        at[r] = "matched" /\ at' = [at EXCEPT ![r] = to] /\ (to = "over" <=> Answers!Refused(r, evicted))
BY <1>1 DEF Answers!Goes
<1>5. to \in Places /\ (to \in Reserving <=> to = "reserved") /\ "matched" \notin Reserving /\ to # "delivered"
      /\ key \in Searched
BY <1>0, <1>4 DEF Places, Reserving, DeliveryTypes
<1>6. at' \in [Requests -> Places] /\ at'[r] = to /\ \A q \in Requests : q # r => at'[q] = at[q] BY <1>0, <1>4, <1>5, GoesOn
<1>7. Answers!SlotsAreUsed' /\ matching' \in Nat /\ sending' \in Nat
  <2>1. Matching(to) = 0 /\ Sending(to) = 0 /\ Matching("matched") = 0 /\ Sending("matched") = 0
    BY <1>4 DEF Matching, Sending
  <2>2. matching' = matching - Matching(at[r]) + Matching(to) /\ sending' = sending - Sending(at[r]) + Sending(to)
    BY <1>0, <1>2, <1>4, <2>1
  <2>. QED BY <1>4, <1>5, <2>2, SlotsFollow
<1>8. \A q \in Requests : Answers!Key(q)' = Answers!Key(q) BY <1>2 DEF Answers!Key
<1>9. inFlight' = (IF to = "reserved" THEN inFlight \cup {key} ELSE inFlight) BY <1>1, <1>4
<1>10. to = "reserved" => key \notin inFlight \cup recent BY <1>4 DEF Answers!Refused
<1>11. \A q \in Requests : at'[q] \in Reserving <=> (at[q] \in Reserving \/ (q = r /\ to = "reserved")) BY <1>4, <1>5, <1>6
<1>12. \A q \in Requests : at[q] \in Reserving => Answers!Key(q) \in inFlight BY <1>0 DEF OneReservation
<1>13. OneReservation'
  <2>1. inFlight' = {Answers!Key(q) : q \in {o \in Requests : at'[o] \in Reserving}}
    <3>1. inFlight = {Answers!Key(q) : q \in {o \in Requests : at[o] \in Reserving}} BY <1>0 DEF OneReservation
    <3>2. CASE to = "reserved" BY <1>9, <1>11, <3>1, <3>2
    <3>3. CASE to = "over" BY <1>9, <1>11, <3>1, <3>3
    <3>. QED BY <1>4, <3>2, <3>3
  <2>2. \A q, o \in Requests : at'[q] \in Reserving /\ at'[o] \in Reserving /\ Answers!Key(q) = Answers!Key(o) => q = o
    BY <1>0, <1>10, <1>11, <1>12 DEF OneReservation
  <2>3. inFlight' \cap recent' = {} /\ inFlight' \cap expired' = {} /\ recent' \cap expired' = {}
    BY <1>0, <1>1, <1>9, <1>10 DEF OneReservation
  <2>4. {Answers!Key(q) : q \in {o \in Requests : at'[o] \in Reserving}} =
        {Answers!Key(q)' : q \in {o \in Requests : at'[o] \in Reserving}} BY <1>8
  <2>. QED BY <1>8, <2>1, <2>2, <2>3, <2>4 DEF OneReservation
<1>14. answers' \in [Searched -> Nat] /\ AnswersKnown'
  <2>1. answers' \in [Searched -> Nat]
        /\ \A k \in Searched : answers'[k] =
             IF k \in recent' \/ \E o \in Requests : at[o] = "delivered" /\ Answers!Key(o) = k THEN 1 ELSE 0
    BY <1>1, <1>3, Forgetting
  <2>2. \A o \in Requests : at'[o] = "delivered" <=> at[o] = "delivered" BY <1>4, <1>5, <1>6
  <2>. QED BY <1>8, <2>1, <2>2 DEF AnswersKnown
<1>15. recent' \subseteq Searched /\ expired' \subseteq Searched /\ inFlight' \subseteq Searched
BY <1>0, <1>1, <1>5, <1>9 DEF DeliveryTypes
<1>16. Answers!LedgerIsBounded'
  <2>0. inFlight \in SUBSET Searched /\ recent \in SUBSET Searched /\ expired \in SUBSET Searched
        /\ recent' \in SUBSET Searched BY <1>0, <1>15 DEF DeliveryTypes
  <2>1. Cardinality(recent) \in Nat /\ Cardinality(expired) \in Nat /\ Cardinality(inFlight) \in Nat
        /\ Cardinality(recent') \in Nat BY <2>0, LedgerCounts
  <2>2. Cardinality(recent) + Cardinality(expired) + Cardinality(inFlight) <= delivery.cap
    BY <1>0, AnswersCount DEF Answers!LedgerIsBounded
  <2>3. Cardinality(recent') <= Cardinality(recent) BY <1>1, <2>0, LedgerCounts, FS_Subset
  <2>4. delivery.cap \in Nat BY <1>0 DEF DeliveryTypes
  <2>5. Cardinality(expired') = 0 BY <1>1, FS_EmptySet
  <2>6. Cardinality(recent') + Cardinality(inFlight') <= delivery.cap
    <3>1. CASE to = "over" BY <1>9, <2>1, <2>2, <2>3, <2>4, <3>1
    <3>2. CASE to = "reserved"
      <4>1. Cardinality(inFlight') = Cardinality(inFlight) + 1 BY <1>9, <1>10, <2>0, <3>2, LedgerCounts
      <4>2. ~(Cardinality(inFlight) + Cardinality(recent') >= delivery.cap)
        BY <1>1, <1>4, <3>2, AnswersCount DEF Answers!Refused
      <4>. QED BY <2>1, <2>4, <4>1, <4>2
    <3>. QED BY <1>4, <3>1, <3>2
  <2>7. Cardinality(inFlight') \in Nat BY <1>15, LedgerCounts
  <2>8. Cardinality(recent') + Cardinality(expired') + Cardinality(inFlight') <= delivery'.cap
    BY <1>2, <2>1, <2>4, <2>5, <2>6, <2>7
  <2>. QED BY <2>8, AnswersCount DEF Answers!LedgerIsBounded
<1>17. \A q \in Requests : at'[q] \in Reserving \cup {"matched"} => Answers!Key(q)' \in Searched
BY <1>0, <1>5, <1>6, <1>8 DEF DeliveryTypes
<1>18. DeliveryTypes' BY <1>0, <1>2, <1>6, <1>7, <1>14, <1>15, <1>17 DEF DeliveryTypes
<1>. QED BY <1>7, <1>13, <1>14, <1>16, <1>18 DEF DeliveryInv

\* What expires may be answered again.
LEMMA Expiring == ASSUME DeliveryInv, NEW k \in Answers!Keys, Answers!Expires(k) PROVE DeliveryInv'
<1>0. DeliveryTypes /\ OneReservation /\ AnswersKnown /\ Answers!LedgerIsBounded /\ Answers!SlotsAreUsed BY DEF DeliveryInv
<1>1. k \in recent /\ recent' = recent \ {k} /\ expired' = expired \cup {k} /\ Answers!Forget({k})
      /\ at' = at /\ matching' = matching /\ sending' = sending /\ inFlight' = inFlight /\ delivery' = delivery
BY DEF Answers!Expires, Answers!Fixed
<1>2. k \in Searched /\ {k} \in SUBSET recent BY <1>1, KeysAreSearched
<1>3. \A q \in Requests : Answers!Key(q)' = Answers!Key(q) BY <1>1 DEF Answers!Key
<1>4. OneReservation' BY <1>0, <1>1, <1>3 DEF OneReservation
<1>5. answers' \in [Searched -> Nat] /\ AnswersKnown'
  <2>1. answers' \in [Searched -> Nat]
        /\ \A l \in Searched : answers'[l] =
             IF l \in recent' \/ \E o \in Requests : at[o] = "delivered" /\ Answers!Key(o) = l THEN 1 ELSE 0
    BY <1>1, <1>2, Forgetting
  <2>. QED BY <1>1, <1>3, <2>1 DEF AnswersKnown
<1>6. Answers!SlotsAreUsed' BY <1>0, <1>1 DEF Answers!SlotsAreUsed
<1>7. Answers!LedgerIsBounded'
  <2>0. inFlight \in SUBSET Searched /\ recent \in SUBSET Searched /\ expired \in SUBSET Searched BY <1>0 DEF DeliveryTypes
  <2>1. Cardinality(recent) \in Nat /\ Cardinality(expired) \in Nat /\ Cardinality(inFlight) \in Nat BY <2>0, LedgerCounts
  <2>2. Cardinality(recent) + Cardinality(expired) + Cardinality(inFlight) <= delivery.cap
    BY <1>0, AnswersCount DEF Answers!LedgerIsBounded
  <2>3. k \notin expired BY <1>0, <1>1 DEF OneReservation
  <2>4. Cardinality(expired') = Cardinality(expired) + 1 BY <1>1, <2>0, <2>3, LedgerCounts
  <2>5. Cardinality(recent') = Cardinality(recent) - 1 BY <1>1, <2>0, LedgerCounts
  <2>6. Cardinality(recent') + Cardinality(expired') + Cardinality(inFlight') <= delivery'.cap
    BY <1>1, <2>1, <2>2, <2>4, <2>5
  <2>. QED BY <2>6, AnswersCount DEF Answers!LedgerIsBounded
<1>8. recent' \subseteq Searched /\ expired' \subseteq Searched BY <1>0, <1>1, <1>2 DEF DeliveryTypes
<1>9. DeliveryTypes' BY <1>0, <1>1, <1>3, <1>5, <1>8 DEF DeliveryTypes
<1>. QED BY <1>4, <1>5, <1>6, <1>7, <1>9 DEF DeliveryInv

\* The lifecycle moves nothing of the requests; a stop is spent.
LEMMA Lifecycle ==
  ASSUME DeliveryInv, UNCHANGED <<at, matching, sending, inFlight, recent, expired, answers>>,
         delivery' \in [of : [Requests -> {"first", "second", "folder"}], workers : Nat, deliverers : Nat,
                        cap : Nat, stops : Nat],
         delivery'.of = delivery.of, delivery'.cap = delivery.cap
  PROVE DeliveryInv'
<1>0. DeliveryTypes /\ OneReservation /\ AnswersKnown /\ Answers!LedgerIsBounded /\ Answers!SlotsAreUsed BY DEF DeliveryInv
<1>1. \A q \in Requests : Answers!Key(q)' = Answers!Key(q) BY DEF Answers!Key
<1>2. OneReservation' BY <1>0, <1>1 DEF OneReservation
<1>3. AnswersKnown' BY <1>0, <1>1 DEF AnswersKnown
<1>4. Answers!LedgerIsBounded' /\ Answers!SlotsAreUsed' BY <1>0 DEF Answers!LedgerIsBounded, Answers!SlotsAreUsed
<1>5. DeliveryTypes' BY <1>0, <1>1 DEF DeliveryTypes
<1>. QED BY <1>2, <1>3, <1>4, <1>5 DEF DeliveryInv

LEMMA DeliverySteps == ASSUME DeliveryInv, [Answers!Next]_answerVars PROVE DeliveryInv'
<1>0. DeliveryTypes BY DEF DeliveryInv
<1>1. ASSUME NEW r \in Requests, Answers!Works(r) PROVE DeliveryInv'
BY <1>1, Working, Delivering, Reserves, Finishing DEF Answers!Works
<1>2. ASSUME NEW k \in Answers!Keys, Answers!Expires(k) PROVE DeliveryInv' BY <1>2, Expiring
<1>3. CASE Answers!StopClient
  <2>1. delivery.stops \in Nat /\ delivery.stops > 0 /\ delivery' = [delivery EXCEPT !.stops = delivery.stops - 1]
        /\ UNCHANGED <<at, matching, sending, inFlight, recent, expired, answers>>
    BY <1>0, <1>3 DEF Answers!StopClient, Answers!LedgerUnchanged, DeliveryTypes
  <2>2. delivery.stops - 1 \in Nat BY <2>1
  <2>3. delivery' \in [of : [Requests -> {"first", "second", "folder"}], workers : Nat, deliverers : Nat,
                       cap : Nat, stops : Nat]
        /\ delivery'.of = delivery.of /\ delivery'.cap = delivery.cap
    BY <1>0, <2>1, <2>2 DEF DeliveryTypes
  <2>. QED BY <2>1, <2>3, Lifecycle
<1>4. CASE Answers!ClientStopped \/ Answers!BeginLifecycle \/ UNCHANGED answerVars
  <2>1. UNCHANGED <<at, matching, sending, inFlight, recent, expired, answers>> /\ delivery' = delivery
    BY <1>4 DEF Answers!ClientStopped, Answers!BeginLifecycle, Answers!LedgerUnchanged, answerVars
  <2>. QED BY <1>0, <2>1, Lifecycle DEF DeliveryTypes
<1>. QED BY <1>1, <1>2, <1>3, <1>4 DEF Answers!Next

LEMMA DeliveriesBegin == Answers!Init => DeliveryInv
<1> SUFFICES ASSUME Answers!Init PROVE DeliveryInv OBVIOUS
<1>1. /\ delivery \in Deliveries /\ at = [r \in Requests |-> "new"] /\ matching = 0 /\ sending = 0
      /\ inFlight = {} /\ recent = {} /\ expired = {} /\ answers = [k \in Searched |-> 0]
BY KeysAreSearched DEF Answers!Init
<1>2. delivery \in [of : [Requests -> {"first", "second", "folder"}], workers : Nat, deliverers : Nat,
                    cap : Nat, stops : Nat] BY <1>1, DeliveriesAssumption
<1>3. "new" \in Places /\ "new" \notin Reserving \cup {"matched"} BY DEF Places, Reserving
<1>4. \A r \in Requests : at[r] = "new" BY <1>1
<1>5. DeliveryTypes BY <1>1, <1>2, <1>3, <1>4 DEF DeliveryTypes
<1>6. OneReservation BY <1>1, <1>3, <1>4 DEF OneReservation
<1>7. AnswersKnown BY <1>1, <1>4 DEF AnswersKnown
<1>8. Answers!SlotsAreUsed
  <2>1. {q \in Requests : at[q] \in {"claimed", "match"}} = {} /\ {q \in Requests : at[q] \in {"connect"}} = {} BY <1>4
  <2>. QED BY <1>1, <2>1, SlotsUsed, FS_EmptySet DEF InPlaces
<1>9. Answers!LedgerIsBounded BY <1>1, <1>2, FS_EmptySet, AnswersCount DEF Answers!LedgerIsBounded
<1>. QED BY <1>5, <1>6, <1>7, <1>8, <1>9 DEF DeliveryInv

\* A request that is turned away finds another one's answer or reservation, or a ledger full of reservations.
LEMMA RefusedRightly ==
  ASSUME DeliveryInv, [Answers!Next]_answerVars, NEW r \in Requests, at[r] = "matched", at'[r] = "over"
  PROVE \/ answers[Answers!Key(r)] > 0
        \/ \E o \in Requests \ {r} : at[o] \in Reserving /\ Answers!Key(o) = Answers!Key(r)
        \/ Cardinality({Answers!Key(o) : o \in {q \in Requests : at[q] \in Reserving}}) >= delivery.cap
<1>0. DeliveryTypes /\ OneReservation /\ AnswersKnown /\ Answers!LedgerIsBounded BY DEF DeliveryInv
<1>1. Answers!ReserveSearchDelivery(r)
  <2>1. at' # at OBVIOUS
  <2>2. PICK q \in Requests : Answers!Works(q)
    BY <2>1 DEF Answers!Next, Answers!Expires, Answers!StopClient, Answers!ClientStopped, Answers!BeginLifecycle, answerVars
  <2>3. q = r
    <3>1. ASSUME NEW to, at' = [at EXCEPT ![q] = to], q # r PROVE FALSE BY <1>0, <3>1 DEF DeliveryTypes
    <3>2. \E to : at' = [at EXCEPT ![q] = to]
      BY <2>2 DEF Answers!Works, Answers!ClaimMatchSlot, Answers!StartTracked, Answers!FolderContents, Answers!Match,
         Answers!ReserveSearchDelivery, Answers!ClaimDeliverySlot, Answers!Deliver, Answers!FinishSearchDelivery,
         Answers!Goes, Answers!GiveBackSlot
    <3>. QED BY <3>1, <3>2
  <2>. QED
    BY <2>2, <2>3 DEF Answers!Works, Answers!ClaimMatchSlot, Answers!StartTracked, Answers!FolderContents, Answers!Match,
       Answers!ClaimDeliverySlot, Answers!Deliver, Answers!FinishSearchDelivery, Answers!Goes, Answers!GiveBackSlot
<1> DEFINE key == Answers!Key(r)
<1>2. PICK evicted \in Answers!Evicted(r) :
        IF Answers!Refused(r, evicted) THEN Answers!Goes(r, "matched", "over") ELSE Answers!Goes(r, "matched", "reserved")
BY <1>1 DEF Answers!ReserveSearchDelivery
<1>3. Answers!Refused(r, evicted) BY <1>0, <1>2 DEF Answers!Goes, DeliveryTypes
<1>4. key \in Searched BY <1>0 DEF DeliveryTypes
<1>5. CASE key \in recent BY <1>0, <1>4, <1>5 DEF AnswersKnown
<1>6. CASE key \in inFlight
  <2>1. PICK o \in Requests : at[o] \in Reserving /\ Answers!Key(o) = key BY <1>0, <1>6 DEF OneReservation
  <2>2. o # r BY <2>1 DEF Reserving
  <2>. QED BY <2>1, <2>2
<1>7. CASE key \notin inFlight \cup recent
  <2>0. inFlight \in SUBSET Searched /\ recent \in SUBSET Searched /\ expired \in SUBSET Searched BY <1>0 DEF DeliveryTypes
  <2>1. Cardinality(recent) \in Nat /\ Cardinality(expired) \in Nat /\ Cardinality(inFlight) \in Nat
        /\ delivery.cap \in Nat BY <1>0, <2>0, LedgerCounts DEF DeliveryTypes
  <2>2. Cardinality(recent) + Cardinality(expired) + Cardinality(inFlight) <= delivery.cap
    BY <1>0, AnswersCount DEF Answers!LedgerIsBounded
  <2>3. Cardinality(inFlight) + Cardinality(recent \ evicted) >= delivery.cap BY <1>3, <1>7, AnswersCount DEF Answers!Refused
  <2>4. CASE recent = {}
    <3>1. Cardinality(recent \ evicted) = 0 BY <2>4, FS_EmptySet
    <3>2. Cardinality(inFlight) >= delivery.cap BY <2>1, <2>3, <3>1
    <3>. QED BY <1>0, <3>2 DEF OneReservation
  <2>5. CASE recent # {}
    <3>1. PICK k \in recent : TRUE BY <2>5
    <3>2. \A l \in recent : Cardinality(recent \ {l}) = Cardinality(recent) - 1 BY <2>0, LedgerCounts
    <3>3. CASE Cardinality(inFlight) + Cardinality(recent) >= delivery.cap
      <4>1. \E l \in recent : evicted = {l} BY <1>2, <1>7, <2>5, <3>3, AnswersCount DEF Answers!Evicted
      <4>2. Cardinality(recent \ evicted) = Cardinality(recent) - 1 BY <3>2, <4>1
      <4>. QED BY <2>1, <2>2, <2>3, <4>2
    <3>4. CASE ~(Cardinality(inFlight) + Cardinality(recent) >= delivery.cap)
      <4>1. evicted = {} BY <1>2, <3>4, AnswersCount DEF Answers!Evicted
      <4>. QED BY <2>3, <3>4, <4>1
    <3>. QED BY <3>3, <3>4
  <2>. QED BY <2>4, <2>5
<1>. QED BY <1>5, <1>6, <1>7

LEMMA RefusalsStep ==
  DeliveryInv /\ [Answers!Next]_answerVars =>
    [\A r \in Requests :
       at[r] = "matched" /\ at'[r] = "over" =>
         \/ answers[Answers!Key(r)] > 0
         \/ \E o \in Requests \ {r} :
              at[o] \in {"reserved", "connect", "delivered", "undelivered"} /\ Answers!Key(o) = Answers!Key(r)
         \/ Answers!Cardinality({Answers!Key(o) : o \in {q \in Requests : at[q] \in {"reserved", "connect", "delivered", "undelivered"}}})
              >= delivery.cap]_answerVars
BY RefusedRightly, AnswersCount DEF Reserving

LEMMA AnswersMove == [SharingNext]_<<part, vars, shareVars>> => [Answers!Next]_answerVars
BY DEF SharingNext, shareVars, answerVars

LEMMA SearchesOnce == DeliveryInv => Answers!SlotsAreUsed /\ Answers!AnsweredOnce /\ Answers!LedgerIsBounded
<1> SUFFICES ASSUME DeliveryInv PROVE Answers!SlotsAreUsed /\ Answers!AnsweredOnce /\ Answers!LedgerIsBounded OBVIOUS
<1>1. \A k \in Searched : answers[k] = 0 \/ answers[k] = 1 BY DEF DeliveryInv, AnswersKnown
<1>. QED BY <1>1, KeysAreSearched DEF DeliveryInv, Answers!AnsweredOnce

\* A search that reached us is answered at most once while its answer is remembered, is turned away only because a copy of
\* it was answered or is about to be or because the ledger is full of copies that are, and the worker slots and the ledger
\* keep within their limits (respondToSearch, reserveSearchDelivery and finishSearchDelivery of soulseek/shares.go).
THEOREM DeliveriesHold == SharingSpec => DeliveriesAreSound
<1>1. SharingInit => DeliveryInv BY DeliveriesBegin DEF SharingInit
<1>2. DeliveryInv /\ [SharingNext]_<<part, vars, shareVars>> => DeliveryInv' BY DeliverySteps, AnswersMove
<1>3. DeliveryInv /\ [SharingNext]_<<part, vars, shareVars>> =>
        [\A r \in Requests :
           at[r] = "matched" /\ at'[r] = "over" =>
             \/ answers[Answers!Key(r)] > 0
             \/ \E o \in Requests \ {r} :
                  at[o] \in {"reserved", "connect", "delivered", "undelivered"} /\ Answers!Key(o) = Answers!Key(r)
             \/ Answers!Cardinality({Answers!Key(o) : o \in {q \in Requests : at[q] \in {"reserved", "connect", "delivered", "undelivered"}}})
                  >= delivery.cap]_Answers!deliveryVars
BY RefusalsStep, AnswersMove DEF answerVars, Answers!deliveryVars
<1>. QED BY <1>1, <1>2, <1>3, SearchesOnce, PTL
         DEF SharingSpec, DeliveriesAreSound, Answers!DeliveriesAreSound, Answers!RefusedForAReason
(***************************************************************************)
(* Shares: the scans and the snapshot of the shared folders                *)
(***************************************************************************)
FileIds == [ino : Nat, ver : Nat]
Rows == [Files -> [key : Nat, attrs : Nat, some : BOOLEAN]]
Walking == {"walk", "build", "save"}
Waiting == {"idle", "claimed", "meta", "load"}
Scans == [at : Walking \cup Waiting, todo : SUBSET Files, file : Files \cup {None}, info : FileIds, cached : Rows, active : BOOLEAN,
          found : Rows, quiet : BOOLEAN]
IsSnapshot(s) ==
  /\ s = [folders |-> s.folders, files |-> s.files, seq |-> s.seq]
  /\ s.files \in Rows /\ s.seq \in Nat /\ s.seq <= sharing.seq
\* The types of the variables.
BoundTypes ==
  /\ DOMAIN sharing = {"configs", "room", "writes", "mounts", "faults", "starts", "rescans", "written", "seq"}
  /\ sharing.written \in Nat /\ sharing.seq \in Nat
TreeTypes ==
  /\ fs \in [Files -> FileIds] /\ mount \in [Index!Folders -> {"up", "empty", "gone"}]
  /\ \A f \in Files : fs[f] = Index!Absent \/ (fs[f].ino >= 1 /\ fs[f].ver >= 1 /\ fs[f].ver <= Index!Now)
StoreTypes == meta \in Rows /\ IsSnapshot(index) /\ IsSnapshot(snapshot)
LifeTypes ==
  /\ alive \in {"down", "up", "stopping"} /\ initial \in {"load", "scan", "busy", "backoff", "over"}
  /\ slot \in {None, "initial", "signal", "manual"} /\ failure \in BOOLEAN /\ unsaved \in BOOLEAN
ScanTypes == scan \in Scans
\* Whoever has the slot works, and the initial scan has it when it is busy.
SlotIsHeld ==
  /\ (slot = None) <=> (scan.at = "idle")
  /\ alive # "down" => ((slot = "initial") <=> (initial = "busy"))
  /\ alive = "down" => scan.at = "idle"
  /\ scan.at = "load" => slot = "initial"
  /\ scan.at = "claimed" => slot = "manual"
\* Attributes are of the version they are stored for or of a later one, and then the file is no longer of that version.
RowIs(f, row) ==
  \/ row = Index!Unknown
  \/ /\ f \in Audio /\ row.key >= 1 /\ row.key <= row.attrs /\ row.attrs <= Index!Now
     /\ fs[f] = Index!Absent \/ fs[f].ver >= row.attrs
MetaIsPast == \A f \in Files : RowIs(f, meta[f])
CachedIsPast == \A f \in Files : RowIs(f, scan.cached[f])
FoundIsPast == \A f \in Audio : RowIs(f, scan.found[f])
SeenIsPast ==
  scan.file # None =>
    /\ scan.at = "walk" /\ scan.file[1] \in folders /\ scan.file \notin scan.todo
    /\ scan.info.ino >= 1 /\ scan.info.ver >= 1 /\ scan.info.ver <= Index!Now
    /\ fs[scan.file] = Index!Absent \/ fs[scan.file].ver >= scan.info.ver
\* A scan begins with nothing, ends when all is visited, and finds what is in its folders.
ScanBegins == scan.at \in Waiting => scan.found = Index!Nothing /\ scan.cached = Index!Nothing /\ scan.file = None
ScanIsOver == scan.at \in {"build", "save"} => scan.todo = {} /\ scan.file = None
TodoIsOurs == \A f \in scan.todo : f[1] \in folders
FoundIsOurs == \A f \in Files : scan.found[f] # Index!Unknown => f[1] \in folders
\* What a quiet scan has visited it has found as it is.
QuietIsRight ==
  scan.at \in Walking /\ scan.quiet =>
    /\ \A f \in Files : f \notin scan.todo /\ f # scan.file => scan.found[f] \in Index!Right(f)
    /\ \A f \in scan.todo : scan.found[f] = Index!Unknown
    /\ scan.file # None => scan.found[scan.file] = Index!Unknown /\ scan.info = Index!Visible(scan.file)
\* What is stored is of the folders it names, and older than what is published only when it could not be stored.
IndexIsOurs == \A f \in Files : index.files[f] # Index!Unknown => f[1] \in index.folders
SavedIsThere == scan.at = "save" => snapshot # Index!Empty
NewestIsStored == alive # "down" => scan.at = "save" \/ unsaved \/ index.seq >= snapshot.seq
ScanInv ==
  /\ ScanTypes /\ CachedIsPast /\ FoundIsPast /\ SeenIsPast
  /\ ScanBegins /\ ScanIsOver /\ TodoIsOurs /\ FoundIsOurs /\ QuietIsRight
IndexInv ==
  /\ BoundTypes /\ TreeTypes /\ StoreTypes /\ LifeTypes /\ SlotIsHeld /\ MetaIsPast /\ ScanInv
  /\ IndexIsOurs /\ Index!NoForeignFolder /\ SavedIsThere /\ Index!SharedOrTold /\ NewestIsStored
\* Nothing changes on the disk, and of the bounds one is used up.
DiskStays == UNCHANGED <<fs, mount>> /\ BoundTypes' /\ sharing'.seq = sharing.seq /\ sharing'.written = sharing.written
LEMMA SpendStays ==
  ASSUME IndexInv, Index!Free \/ \E what \in {"mounts", "rescans", "faults", "starts"} : Index!Spend(what)
  PROVE  BoundTypes' /\ sharing'.seq = sharing.seq /\ sharing'.written = sharing.written
<1>1. BoundTypes BY DEF IndexInv
<1>2. CASE Index!Free BY <1>1, <1>2 DEF Index!Free, BoundTypes
<1>3. ASSUME NEW what \in {"mounts", "rescans", "faults", "starts"}, Index!Spend(what)
      PROVE  BoundTypes' /\ sharing'.seq = sharing.seq /\ sharing'.written = sharing.written
  <2>1. sharing' = [sharing EXCEPT ![what] = @ - 1] BY <1>3 DEF Index!Spend
  <2>. QED BY <1>1, <1>3, <2>1 DEF BoundTypes
<1>. QED BY <1>2, <1>3
LEMMA DiskKeeps ==
  ASSUME IndexInv, DiskStays
  PROVE  /\ BoundTypes' /\ TreeTypes'
         /\ \A f \in Files : \A row : RowIs(f, row) <=> RowIs(f, row)'
         /\ UNCHANGED meta => MetaIsPast'
         /\ UNCHANGED <<meta, index, snapshot>> => StoreTypes'
         /\ \A f \in Files : Index!Visible(f)' = Index!Visible(f)
<1>1. BoundTypes' /\ fs' = fs /\ mount' = mount /\ sharing'.seq = sharing.seq /\ sharing'.written = sharing.written BY DEF DiskStays
<1>2. Index!Now' = Index!Now BY <1>1 DEF Index!Now
<1>3. TreeTypes' BY <1>1, <1>2 DEF IndexInv, TreeTypes
<1>4. ASSUME NEW f \in Files, NEW row PROVE RowIs(f, row) <=> RowIs(f, row)' BY <1>1, <1>2 DEF RowIs
<1>5. ASSUME UNCHANGED meta PROVE MetaIsPast' BY <1>1, <1>2, <1>5 DEF IndexInv, MetaIsPast, RowIs
<1>6. ASSUME UNCHANGED <<meta, index, snapshot>> PROVE StoreTypes' BY <1>1, <1>6 DEF IndexInv, StoreTypes, IsSnapshot
<1>7. \A f \in Files : Index!Visible(f)' = Index!Visible(f) BY <1>1 DEF Index!Visible
<1>. QED BY <1>1, <1>3, <1>4, <1>5, <1>6, <1>7
LEMMA NothingIs ==
  /\ Index!Nothing \in Rows /\ Index!Unknown \in [key : Nat, attrs : Nat, some : BOOLEAN] /\ \A f \in Files : Index!Nothing[f] = Index!Unknown
  /\ Index!Empty.seq = 0 /\ Index!Empty.files = Index!Nothing
<1>1. Index!Unknown \in [key : Nat, attrs : Nat, some : BOOLEAN] BY DEF Index!Unknown
<1>2. Index!Nothing \in Rows /\ \A f \in Files : Index!Nothing[f] = Index!Unknown BY <1>1 DEF Index!Nothing, Rows
<1>3. Index!Empty = [folders |-> {}, files |-> Index!Nothing, seq |-> 0] BY DEF Index!Empty
<1>4. Index!Empty.seq = 0 /\ Index!Empty.files = Index!Nothing /\ Index!Empty.folders = {} BY <1>3
<1>. QED BY <1>1, <1>2, <1>4
LEMMA NoScanIs ==
  /\ Index!NoScan \in Scans /\ Index!NoScan.at = "idle" /\ Index!NoScan.todo = {} /\ Index!NoScan.file = None
  /\ Index!NoScan.cached = Index!Nothing /\ Index!NoScan.found = Index!Nothing /\ Index!NoScan.quiet = TRUE
BY NothingIs DEF Index!NoScan, Scans, Waiting, Walking, FileIds, Index!Absent
\* A scan that has not begun to look around.
LEMMA BlankScan ==
  ASSUME scan' \in Scans, scan'.at \in Waiting, \A f \in scan'.todo : f[1] \in folders', scan'.file = None,
         scan'.cached = Index!Nothing, scan'.found = Index!Nothing
  PROVE  ScanInv'
<1>1. \A f \in Files : scan'.cached[f] = Index!Unknown /\ scan'.found[f] = Index!Unknown BY NothingIs
<1>2. \A f \in Files : RowIs(f, scan.cached[f])' /\ RowIs(f, scan.found[f])' BY <1>1 DEF RowIs
<1>3. CachedIsPast' BY <1>2 DEF CachedIsPast
<1>4. FoundIsPast' BY <1>2, SharesAssumption DEF FoundIsPast
<1>5. scan'.at \notin Walking BY DEF Waiting, Walking
<1>6. ScanTypes' /\ SeenIsPast' /\ ScanBegins' /\ TodoIsOurs' BY DEF ScanTypes, SeenIsPast, ScanBegins, TodoIsOurs
<1>7. ScanIsOver' /\ QuietIsRight' BY <1>5 DEF ScanIsOver, QuietIsRight, Walking
<1>8. FoundIsOurs' BY <1>1 DEF FoundIsOurs
<1>. QED BY <1>3, <1>4, <1>6, <1>7, <1>8 DEF ScanInv
LEMMA ScanEnds ==
  ASSUME scan' = Index!NoScan
  PROVE  ScanInv' /\ scan'.at = "idle"
BY BlankScan, NoScanIs DEF Waiting
LEMMA ScanBegun ==
  ASSUME NEW at0 \in {"claimed", "meta", "load"}, scan' = [Index!NoScan EXCEPT !.at = at0]
  PROVE  ScanInv' /\ scan'.at = at0
<1>1. scan' \in Scans BY NoScanIs DEF Scans, Waiting
<1>2. scan'.at = at0 /\ scan'.todo = {} /\ scan'.file = None /\ scan'.cached = Index!Nothing /\ scan'.found = Index!Nothing
BY NoScanIs DEF Scans
<1>. QED BY <1>1, <1>2, BlankScan DEF Waiting
LEMMA ScanStays ==
  ASSUME IndexInv, DiskStays, UNCHANGED <<scan, folders>>
  PROVE  ScanInv'
<1>1. \A f \in Files : \A row : RowIs(f, row) <=> RowIs(f, row)' BY DiskKeeps
<1>2. UNCHANGED <<fs, scan, folders, mount>> /\ Index!Now' = Index!Now BY DEF DiskStays, Index!Now
<1>. QED BY <1>2
   DEF IndexInv, ScanInv, ScanTypes, CachedIsPast, FoundIsPast, SeenIsPast, ScanBegins, ScanIsOver, TodoIsOurs, FoundIsOurs, QuietIsRight,
       RowIs, Index!Right, Index!Visible
\* The disk changes under a scan.
Disturbed ==
  /\ scan' = [scan EXCEPT !.quiet = FALSE]
  /\ UNCHANGED <<meta, index, snapshot, failure, alive, folders, initial, slot, unsaved>>
LEMMA DisturbedIs ==
  ASSUME IndexInv, Disturbed
  PROVE  /\ ScanTypes' /\ ScanBegins' /\ ScanIsOver' /\ TodoIsOurs' /\ FoundIsOurs' /\ QuietIsRight'
         /\ scan'.at = scan.at /\ scan'.todo = scan.todo /\ scan'.file = scan.file /\ scan'.info = scan.info
         /\ scan'.cached = scan.cached /\ scan'.found = scan.found
         /\ LifeTypes' /\ SlotIsHeld' /\ IndexIsOurs' /\ Index!NoForeignFolder' /\ SavedIsThere' /\ Index!SharedOrTold' /\ NewestIsStored'
<1>1. scan \in Scans BY DEF IndexInv, ScanInv, ScanTypes
<1>2. scan' \in Scans /\ scan'.quiet = FALSE BY <1>1 DEF Disturbed, Scans
<1>3. scan'.at = scan.at /\ scan'.todo = scan.todo /\ scan'.file = scan.file /\ scan'.info = scan.info
      /\ scan'.cached = scan.cached /\ scan'.found = scan.found
BY <1>1 DEF Disturbed, Scans
<1>4. UNCHANGED <<meta, index, snapshot, failure, alive, folders, initial, slot, unsaved>> BY DEF Disturbed
<1>5. ScanTypes' /\ ScanBegins' /\ ScanIsOver' /\ TodoIsOurs' /\ FoundIsOurs' /\ QuietIsRight'
BY <1>2, <1>3, <1>4 DEF IndexInv, ScanInv, ScanTypes, ScanBegins, ScanIsOver, TodoIsOurs, FoundIsOurs, QuietIsRight
<1>6. LifeTypes' /\ IndexIsOurs' /\ Index!NoForeignFolder' /\ Index!SharedOrTold'
BY <1>4 DEF IndexInv, LifeTypes, IndexIsOurs, Index!NoForeignFolder, Index!SharedOrTold, Index!Told
<1>7. SlotIsHeld' /\ SavedIsThere' /\ NewestIsStored' BY <1>3, <1>4 DEF IndexInv, SlotIsHeld, SavedIsThere, NewestIsStored
<1>. QED BY <1>3, <1>5, <1>6, <1>7
LEMMA ChangeKeeps ==
  ASSUME IndexInv, NEW f \in Files, NEW file \in FileIds, Index!Change(f, file),
         file = Index!Absent \/ (file.ino >= 1 /\ file.ver = Index!Now + 1)
  PROVE  IndexInv'
<1>1. Disturbed /\ mount' = mount BY DEF Index!Change, Disturbed
<1>2. sharing' = [sharing EXCEPT !.writes = @ - 1, !.written = @ + 1] /\ fs' = [fs EXCEPT ![f] = file] BY DEF Index!Change
<1>3. BoundTypes /\ TreeTypes /\ StoreTypes /\ MetaIsPast /\ CachedIsPast /\ FoundIsPast /\ SeenIsPast BY DEF IndexInv, ScanInv
<1>4. BoundTypes' /\ sharing'.written = sharing.written + 1 /\ sharing'.seq = sharing.seq BY <1>2, <1>3 DEF BoundTypes
<1>5. Index!Now \in Nat /\ Index!Now' = Index!Now + 1 BY <1>3, <1>4 DEF Index!Now, BoundTypes
<1>6. fs' \in [Files -> FileIds] /\ fs'[f] = file /\ \A g \in Files : g # f => fs'[g] = fs[g] BY <1>2, <1>3 DEF TreeTypes
<1>7. TreeTypes'
  <2>1. ASSUME NEW g \in Files PROVE (fs'[g] = Index!Absent \/ (fs'[g].ino >= 1 /\ fs'[g].ver >= 1 /\ fs'[g].ver <= Index!Now'))
    <3>1. CASE g = f BY <1>5, <1>6, <3>1
    <3>2. CASE g # f
      <4>1. fs[g] = Index!Absent \/ (fs[g].ino >= 1 /\ fs[g].ver >= 1 /\ fs[g].ver <= Index!Now) BY <1>3 DEF TreeTypes
      <4>2. fs[g].ver \in Nat BY <1>3 DEF TreeTypes, FileIds
      <4>. QED BY <1>5, <1>6, <3>2, <4>1, <4>2
    <3>. QED BY <3>1, <3>2
  <2>. QED BY <1>1, <1>3, <1>6, <2>1 DEF TreeTypes
<1>8. ASSUME NEW g \in Files, NEW row \in [key : Nat, attrs : Nat, some : BOOLEAN], RowIs(g, row) PROVE RowIs(g, row)'
  <2>1. CASE row = Index!Unknown BY <2>1 DEF RowIs
  <2>2. CASE /\ g \in Audio /\ row.key >= 1 /\ row.key <= row.attrs /\ row.attrs <= Index!Now
             /\ fs[g] = Index!Absent \/ fs[g].ver >= row.attrs
    <3>1. row.attrs \in Nat /\ row.attrs <= Index!Now' BY <1>5, <2>2
    <3>2. fs'[g] = Index!Absent \/ fs'[g].ver >= row.attrs BY <1>5, <1>6, <2>2, <3>1
    <3>. QED BY <2>2, <3>1, <3>2 DEF RowIs
  <2>. QED BY <1>8, <2>1, <2>2 DEF RowIs
<1>9. scan.cached \in Rows /\ scan.found \in Rows /\ meta \in Rows BY <1>3 DEF IndexInv, ScanInv, ScanTypes, Scans, StoreTypes
<1>10. scan'.cached = scan.cached /\ scan'.found = scan.found /\ meta' = meta BY <1>1, DisturbedIs DEF Disturbed
<1>11. MetaIsPast' BY <1>3, <1>8, <1>9, <1>10 DEF MetaIsPast, Rows, RowIs
<1>12. CachedIsPast' BY <1>3, <1>8, <1>9, <1>10 DEF CachedIsPast, Rows, RowIs
<1>13. FoundIsPast' BY <1>3, <1>8, <1>9, <1>10, SharesAssumption DEF FoundIsPast, Rows, RowIs
<1>14. SeenIsPast'
  <2>1. SUFFICES ASSUME scan'.file # None PROVE SeenIsPast' BY DEF SeenIsPast
  <2>2. scan'.file = scan.file /\ scan'.info = scan.info /\ scan'.at = scan.at /\ scan'.todo = scan.todo /\ folders' = folders
    BY <1>1, DisturbedIs DEF Disturbed
  <2>3. scan.file \in Files /\ scan.info.ver \in Nat BY <2>1, <2>2 DEF IndexInv, ScanInv, ScanTypes, Scans, FileIds
  <2>4. /\ scan.at = "walk" /\ scan.file[1] \in folders /\ scan.file \notin scan.todo
        /\ scan.info.ino >= 1 /\ scan.info.ver >= 1 /\ scan.info.ver <= Index!Now
        /\ fs[scan.file] = Index!Absent \/ fs[scan.file].ver >= scan.info.ver
    BY <1>3, <2>1, <2>2 DEF SeenIsPast
  <2>5. fs'[scan.file] = Index!Absent \/ fs'[scan.file].ver >= scan.info.ver BY <1>5, <1>6, <2>3, <2>4
  <2>6. scan.info.ver <= Index!Now' BY <1>5, <2>3, <2>4
  <2>. QED BY <2>2, <2>4, <2>5, <2>6 DEF SeenIsPast
<1>15. StoreTypes'
  <2>1. UNCHANGED <<meta, index, snapshot>> BY <1>1 DEF Disturbed
  <2>. QED BY <1>3, <1>4, <2>1 DEF StoreTypes, IsSnapshot
<1>. QED BY <1>1, <1>4, <1>7, <1>11, <1>12, <1>13, <1>14, <1>15, DisturbedIs DEF IndexInv, ScanInv
LEMMA WriteKeeps == ASSUME IndexInv, NEW f \in Files, Index!Write(f) PROVE IndexInv'
<1>1. fs[f] \in FileIds /\ fs[f] # Index!Absent /\ fs[f].ino >= 1 /\ Index!Now \in Nat
BY DEF Index!Write, IndexInv, TreeTypes, BoundTypes, Index!Now
<1>. DEFINE file == [fs[f] EXCEPT !.ver = Index!Now + 1]
<1>2. file \in FileIds /\ file.ino >= 1 /\ file.ver = Index!Now + 1 BY <1>1 DEF FileIds
<1>3. Index!Change(f, file) BY DEF Index!Write
<1>. HIDE DEF file
<1>. QED BY <1>2, <1>3, ChangeKeeps
LEMMA ReplaceKeeps == ASSUME IndexInv, NEW f \in Files, Index!Replace(f) PROVE IndexInv'
<1>1. Index!Now \in Nat BY DEF IndexInv, BoundTypes, Index!Now
<1>. DEFINE file == [ino |-> Index!Now + 1, ver |-> Index!Now + 1]
<1>2. file \in FileIds /\ file.ino >= 1 /\ file.ver = Index!Now + 1 BY <1>1 DEF FileIds
<1>3. Index!Change(f, file) BY DEF Index!Replace
<1>. HIDE DEF file
<1>. QED BY <1>2, <1>3, ChangeKeeps
LEMMA RemoveKeeps == ASSUME IndexInv, NEW f \in Files, Index!Remove(f) PROVE IndexInv'
<1>1. Index!Absent \in FileIds BY DEF Index!Absent, FileIds
<1>. QED BY <1>1, ChangeKeeps DEF Index!Remove
LEMMA MountKeeps ==
  ASSUME IndexInv, NEW d \in Index!Folders, NEW how \in {"up", "empty", "gone"}, Index!Mount(d, how)
  PROVE  IndexInv'
<1>1. Disturbed /\ fs' = fs BY DEF Index!Mount, Disturbed
<1>2. BoundTypes' /\ sharing'.seq = sharing.seq /\ sharing'.written = sharing.written BY SpendStays DEF Index!Mount
<1>3. Index!Now' = Index!Now BY <1>2 DEF Index!Now
<1>4. mount' = [mount EXCEPT ![d] = how] BY DEF Index!Mount
<1>5. TreeTypes' BY <1>1, <1>3, <1>4 DEF IndexInv, TreeTypes
<1>6. UNCHANGED <<meta, index, snapshot, folders>> BY <1>1 DEF Disturbed
<1>7. MetaIsPast' BY <1>1, <1>3, <1>6 DEF IndexInv, MetaIsPast, RowIs
<1>8. StoreTypes' BY <1>2, <1>6 DEF IndexInv, StoreTypes, IsSnapshot
<1>9. scan'.cached = scan.cached /\ scan'.found = scan.found /\ scan'.file = scan.file /\ scan'.info = scan.info /\ scan'.at = scan.at
      /\ scan'.todo = scan.todo
BY <1>1, DisturbedIs
<1>10. CachedIsPast' /\ FoundIsPast' BY <1>1, <1>3, <1>9 DEF IndexInv, ScanInv, CachedIsPast, FoundIsPast, RowIs
<1>11. SeenIsPast' BY <1>1, <1>3, <1>6, <1>9 DEF IndexInv, ScanInv, SeenIsPast
<1>. QED BY <1>1, <1>2, <1>5, <1>7, <1>8, <1>10, <1>11, DisturbedIs DEF IndexInv, ScanInv
LEMMA BeginKeeps ==
  ASSUME IndexInv, alive # "down", DiskStays, NEW at0 \in {"claimed", "meta", "load"}, NEW who \in {"initial", "signal", "manual"},
         Index!Begin(who, at0), at0 = "load" => who = "initial", at0 = "claimed" => who = "manual",
         (who = "initial" /\ initial' = "busy") \/ (who # "initial" /\ initial' = initial),
         UNCHANGED <<meta, index, snapshot, failure, unsaved, alive, folders>>
  PROVE  IndexInv'
<1>1. slot = None /\ slot' = who /\ scan' = [Index!NoScan EXCEPT !.at = at0] BY DEF Index!Begin
<1>2. ScanInv' /\ scan'.at = at0 BY <1>1, ScanBegun
<1>3. who # None BY SharesAssumption
<1>4. initial # "busy" /\ scan.at = "idle" BY <1>1, SharesAssumption DEF IndexInv, SlotIsHeld
<1>5. SlotIsHeld' BY <1>1, <1>2, <1>3, <1>4 DEF IndexInv, SlotIsHeld
<1>6. LifeTypes' BY <1>1 DEF IndexInv, LifeTypes
<1>7. BoundTypes' /\ TreeTypes' /\ MetaIsPast' /\ StoreTypes' BY DiskKeeps
<1>8. IndexIsOurs' /\ Index!NoForeignFolder' BY DEF IndexInv, IndexIsOurs, Index!NoForeignFolder
<1>9. SavedIsThere' BY <1>2 DEF SavedIsThere
<1>10. Index!SharedOrTold' BY DEF IndexInv, Index!SharedOrTold, Index!Told
<1>11. NewestIsStored' BY <1>4 DEF IndexInv, NewestIsStored
<1>. QED BY <1>2, <1>5, <1>6, <1>7, <1>8, <1>9, <1>10, <1>11 DEF IndexInv
LEMMA RescanKeeps == ASSUME IndexInv, Index!RescanShares PROVE IndexInv'
<1>1. alive = "up" /\ Index!Begin("signal", "meta") /\ Index!Spend("rescans") BY DEF Index!RescanShares
<1>2. UNCHANGED <<initial, fs, mount, meta, index, snapshot, failure, unsaved, alive, folders>>
BY DEF Index!RescanShares, Index!diskVars, Index!processVars, Index!DatabaseUnchanged, Index!MemoryUnchanged
<1>3. DiskStays BY <1>1, <1>2, SpendStays DEF DiskStays
<1>. QED BY <1>1, <1>2, <1>3, BeginKeeps
LEMMA TriggerKeeps == ASSUME IndexInv, Index!TriggerRescanShares PROVE IndexInv'
<1>1. alive # "down" /\ Index!Begin("manual", "claimed") /\ Index!Spend("rescans") BY DEF Index!TriggerRescanShares
<1>2. UNCHANGED <<initial, fs, mount, meta, index, snapshot, failure, unsaved, alive, folders>>
BY DEF Index!TriggerRescanShares, Index!diskVars, Index!processVars, Index!DatabaseUnchanged, Index!MemoryUnchanged
<1>3. DiskStays BY <1>1, <1>2, SpendStays DEF DiskStays
<1>. QED BY <1>1, <1>2, <1>3, BeginKeeps
LEMMA InitialLoadsKeeps == ASSUME IndexInv, Index!InitialLoads PROVE IndexInv'
<1>1. alive = "up" /\ Index!Begin("initial", "load") /\ Index!Free /\ initial' = "busy" BY DEF Index!InitialLoads
<1>2. UNCHANGED <<fs, mount, meta, index, snapshot, failure, unsaved, alive, folders>>
BY DEF Index!InitialLoads, Index!diskVars, Index!processVars, Index!DatabaseUnchanged, Index!MemoryUnchanged
<1>3. DiskStays BY <1>1, <1>2, SpendStays DEF DiskStays
<1>. QED BY <1>1, <1>2, <1>3, BeginKeeps
LEMMA InitialScansKeeps == ASSUME IndexInv, Index!InitialScans PROVE IndexInv'
<1>1. alive = "up" /\ Index!Begin("initial", "meta") /\ Index!Free /\ initial' = "busy" BY DEF Index!InitialScans
<1>2. UNCHANGED <<fs, mount, meta, index, snapshot, failure, unsaved, alive, folders>>
BY DEF Index!InitialScans, Index!diskVars, Index!processVars, Index!DatabaseUnchanged, Index!MemoryUnchanged
<1>3. DiskStays BY <1>1, <1>2, SpendStays DEF DiskStays
<1>. QED BY <1>1, <1>2, <1>3, BeginKeeps
\* A scan that ends, whether it published or failed.
LEMMA EndKeeps ==
  ASSUME IndexInv, DiskStays, alive # "down", Index!ReleaseShareScan, UNCHANGED <<alive, folders>>,
         initial' \in {"load", "scan", "backoff", "over"}, slot # "initial" => initial' = initial
  PROVE  BoundTypes' /\ TreeTypes' /\ ScanInv' /\ SlotIsHeld' /\ SavedIsThere' /\ (UNCHANGED meta => MetaIsPast')
<1>1. slot' = None /\ scan' = Index!NoScan BY DEF Index!ReleaseShareScan
<1>2. ScanInv' /\ scan'.at = "idle" BY <1>1, ScanEnds
<1>3. SlotIsHeld' BY <1>1, <1>2, SharesAssumption DEF IndexInv, SlotIsHeld
<1>4. SavedIsThere' BY <1>2 DEF SavedIsThere
<1>5. BoundTypes' /\ TreeTypes' /\ (UNCHANGED meta => MetaIsPast') BY DiskKeeps
<1>. QED BY <1>2, <1>3, <1>4, <1>5
\* One that fails, or whose slot is let go, leaves what is stored and published.
LEMMA GiveUpKeeps ==
  ASSUME IndexInv, DiskStays, alive # "down", Index!ReleaseShareScan, scan.at # "save",
         (slot = "initial" /\ initial' \in {"scan", "backoff"}) \/ (slot # "initial" /\ initial' = initial),
         UNCHANGED <<meta, index, snapshot, failure, unsaved, alive, folders>>
  PROVE  IndexInv'
<1>1. initial \in {"load", "scan", "busy", "backoff", "over"} /\ (slot # "initial" => initial # "busy")
BY DEF IndexInv, LifeTypes, SlotIsHeld
<1>2. initial' \in {"load", "scan", "backoff", "over"} BY <1>1
<1>3. BoundTypes' /\ TreeTypes' /\ ScanInv' /\ SlotIsHeld' /\ SavedIsThere' /\ MetaIsPast' BY <1>2, EndKeeps
<1>4. LifeTypes' BY <1>2 DEF IndexInv, LifeTypes, Index!ReleaseShareScan
<1>5. StoreTypes' BY DiskKeeps
<1>6. IndexIsOurs' /\ Index!NoForeignFolder' BY DEF IndexInv, IndexIsOurs, Index!NoForeignFolder
<1>7. Index!SharedOrTold' BY <1>2 DEF IndexInv, Index!SharedOrTold, Index!Told
<1>8. NewestIsStored' BY DEF IndexInv, NewestIsStored
<1>. QED BY <1>3, <1>4, <1>5, <1>6, <1>7, <1>8 DEF IndexInv
\* Scanning goes on under the slot.
LEMMA ScanGoesOn ==
  ASSUME IndexInv, DiskStays, alive # "down", ScanInv', scan.at \notin {"idle", "load", "save"}, scan'.at \notin {"idle", "load", "save", "claimed"},
         UNCHANGED <<index, snapshot, failure, unsaved, alive, folders, slot, initial>>, meta' \in Rows, MetaIsPast'
  PROVE  IndexInv'
<1>1. BoundTypes' /\ TreeTypes' BY DiskKeeps
<1>2. StoreTypes' BY DEF IndexInv, StoreTypes, IsSnapshot, DiskStays
<1>3. LifeTypes' /\ SlotIsHeld' BY DEF IndexInv, LifeTypes, SlotIsHeld
<1>4. IndexIsOurs' /\ Index!NoForeignFolder' BY DEF IndexInv, IndexIsOurs, Index!NoForeignFolder
<1>5. SavedIsThere' /\ NewestIsStored' BY DEF IndexInv, SavedIsThere, NewestIsStored
<1>6. Index!SharedOrTold' BY DEF IndexInv, Index!SharedOrTold, Index!Told
<1>. QED BY <1>1, <1>2, <1>3, <1>4, <1>5, <1>6 DEF IndexInv
\* The process or the initial scan goes on while the slot, the scan and what is shared stay.
LEMMA LifeGoesOn ==
  ASSUME IndexInv, DiskStays, UNCHANGED <<slot, scan, meta, index, snapshot, failure, unsaved, folders>>, LifeTypes', SlotIsHeld',
         alive = "down" => alive' = "down", alive' = "up" => alive = "up" /\ initial' # "over"
  PROVE  IndexInv'
<1>1. ScanInv' BY ScanStays
<1>2. BoundTypes' /\ TreeTypes' /\ MetaIsPast' /\ StoreTypes' BY DiskKeeps
<1>3. IndexIsOurs' /\ Index!NoForeignFolder' /\ Index!SharedOrTold' BY DEF IndexInv, IndexIsOurs, Index!NoForeignFolder, Index!SharedOrTold
<1>4. SavedIsThere' /\ NewestIsStored' BY DEF IndexInv, SavedIsThere, NewestIsStored
<1>. QED BY <1>1, <1>2, <1>3, <1>4 DEF IndexInv
LEMMA StartTrackedKeeps == ASSUME IndexInv, Index!StartTracked PROVE IndexInv'
<1>1. UNCHANGED <<initial, fs, mount, meta, index, snapshot, failure, unsaved, alive, folders>> /\ Index!Free /\ scan.at = "claimed"
BY DEF Index!StartTracked, Index!diskVars, Index!processVars, Index!DatabaseUnchanged, Index!MemoryUnchanged
<1>2. DiskStays BY <1>1, SpendStays DEF DiskStays
<1>3. alive # "down" BY <1>1 DEF IndexInv, SlotIsHeld
<1>4. CASE alive = "up"
  <2>1. scan' = [scan EXCEPT !.at = "meta"] /\ slot' = slot BY <1>4 DEF Index!StartTracked
  <2>2. ScanTypes /\ scan \in Scans BY DEF IndexInv, ScanInv, ScanTypes
  <2>3. scan' \in Scans /\ scan'.at = "meta" /\ scan'.todo = scan.todo /\ scan'.file = scan.file /\ scan'.cached = scan.cached
        /\ scan'.found = scan.found
    BY <2>1, <2>2 DEF Scans, Waiting
  <2>4. scan.file = None /\ scan.cached = Index!Nothing /\ scan.found = Index!Nothing /\ \A f \in scan.todo : f[1] \in folders
    BY <1>1 DEF IndexInv, ScanInv, ScanBegins, TodoIsOurs, Waiting
  <2>5. ScanInv' BY <1>1, <2>3, <2>4, BlankScan DEF Waiting
  <2>6. meta' \in Rows /\ MetaIsPast' BY <1>1, <1>2, DiskKeeps DEF IndexInv, StoreTypes
  <2>. QED BY <1>1, <1>2, <1>3, <2>1, <2>3, <2>5, <2>6, ScanGoesOn
<1>5. CASE alive # "up"
  <2>1. Index!ReleaseShareScan BY <1>5 DEF Index!StartTracked
  <2>2. slot # "initial" BY <1>1 DEF IndexInv, SlotIsHeld
  <2>. QED BY <1>1, <1>2, <1>3, <2>1, <2>2, GiveUpKeeps
<1>. QED BY <1>4, <1>5
LEMMA BackoffEndsKeeps == ASSUME IndexInv, Index!BackoffEnds PROVE IndexInv'
<1>1. UNCHANGED <<slot, scan, fs, mount, meta, index, snapshot, failure, unsaved, alive, folders>> /\ Index!Free
      /\ initial = "backoff" /\ initial' = "scan"
BY DEF Index!BackoffEnds, Index!diskVars, Index!processVars, Index!DatabaseUnchanged, Index!MemoryUnchanged
<1>2. DiskStays BY <1>1, SpendStays DEF DiskStays
<1>3. LifeTypes' /\ SlotIsHeld' BY <1>1 DEF IndexInv, LifeTypes, SlotIsHeld
<1>. QED BY <1>1, <1>2, <1>3, LifeGoesOn
LEMMA InitialGivesUpKeeps == ASSUME IndexInv, Index!InitialGivesUp PROVE IndexInv'
<1>1. UNCHANGED <<slot, scan, fs, mount, meta, index, snapshot, failure, unsaved, alive, folders>> /\ Index!Free
      /\ initial \in {"load", "scan", "backoff"} /\ initial' = "over" /\ alive = "stopping"
BY DEF Index!InitialGivesUp, Index!diskVars, Index!processVars, Index!DatabaseUnchanged, Index!MemoryUnchanged
<1>2. DiskStays BY <1>1, SpendStays DEF DiskStays
<1>3. LifeTypes' /\ SlotIsHeld' BY <1>1 DEF IndexInv, LifeTypes, SlotIsHeld
<1>. QED BY <1>1, <1>2, <1>3, LifeGoesOn
LEMMA StopKeeps == ASSUME IndexInv, Index!Stop PROVE IndexInv'
<1>1. UNCHANGED <<folders, initial, slot, scan, fs, mount, meta, index, snapshot, failure, unsaved>> /\ Index!Free
      /\ alive = "up" /\ alive' = "stopping"
BY DEF Index!Stop, Index!diskVars, Index!DatabaseUnchanged, Index!MemoryUnchanged
<1>2. DiskStays BY <1>1, SpendStays DEF DiskStays
<1>3. LifeTypes' /\ SlotIsHeld' BY <1>1 DEF IndexInv, LifeTypes, SlotIsHeld
<1>. QED BY <1>1, <1>2, <1>3, LifeGoesOn
\* The process ends, and with it every scan.
LEMMA DownKeeps ==
  ASSUME IndexInv, DiskStays, alive' = "down", slot' = None, scan' = Index!NoScan, initial' = "over",
         UNCHANGED <<meta, index, snapshot, failure, unsaved, folders>>
  PROVE  IndexInv'
<1>1. ScanInv' /\ scan'.at = "idle" BY ScanEnds
<1>2. BoundTypes' /\ TreeTypes' /\ MetaIsPast' /\ StoreTypes' BY DiskKeeps
<1>3. LifeTypes' /\ SlotIsHeld' BY <1>1, SharesAssumption DEF IndexInv, LifeTypes, SlotIsHeld
<1>4. IndexIsOurs' /\ Index!NoForeignFolder' /\ Index!SharedOrTold' BY DEF IndexInv, IndexIsOurs, Index!NoForeignFolder, Index!SharedOrTold
<1>5. SavedIsThere' /\ NewestIsStored' BY <1>1 DEF SavedIsThere, NewestIsStored
<1>. QED BY <1>1, <1>2, <1>3, <1>4, <1>5 DEF IndexInv
LEMMA ExitKeeps == ASSUME IndexInv, Index!Exit PROVE IndexInv'
<1>1. UNCHANGED <<folders, initial, fs, mount, meta, index, snapshot, failure, unsaved>> /\ Index!Free
      /\ initial = "over" /\ alive' = "down" /\ slot' = None /\ scan' = Index!NoScan
BY DEF Index!Exit, Index!diskVars, Index!DatabaseUnchanged, Index!MemoryUnchanged
<1>2. DiskStays BY <1>1, SpendStays DEF DiskStays
<1>. QED BY <1>1, <1>2, DownKeeps
LEMMA CrashKeeps == ASSUME IndexInv, Index!Crash PROVE IndexInv'
<1>1. UNCHANGED <<folders, fs, mount, meta, index, snapshot, failure, unsaved>> /\ Index!Free
      /\ initial' = "over" /\ alive' = "down" /\ slot' = None /\ scan' = Index!NoScan
BY DEF Index!Crash, Index!diskVars, Index!DatabaseUnchanged, Index!MemoryUnchanged
<1>2. DiskStays BY <1>1, SpendStays DEF DiskStays
<1>. QED BY <1>1, <1>2, DownKeeps
LEMMA StartKeeps == ASSUME IndexInv, Index!Start PROVE IndexInv'
<1>1. alive' = "up" /\ initial' = "load" /\ snapshot' = Index!Empty /\ failure' = FALSE /\ unsaved' = FALSE /\ slot' = None
      /\ scan' = Index!NoScan /\ UNCHANGED <<fs, mount, meta, index>>
BY DEF Index!Start, Index!diskVars, Index!DatabaseUnchanged
<1>2. sharing' = [sharing EXCEPT !.starts = @ - 1] BY DEF Index!Start
<1>3. BoundTypes' /\ sharing'.seq = sharing.seq /\ sharing'.written = sharing.written BY <1>2 DEF IndexInv, BoundTypes
<1>4. DiskStays BY <1>1, <1>3 DEF DiskStays
<1>5. ScanInv' /\ scan'.at = "idle" BY <1>1, ScanEnds
<1>6. TreeTypes' /\ MetaIsPast' BY <1>1, <1>4, DiskKeeps
<1>7. LifeTypes' /\ SlotIsHeld' BY <1>1, <1>5, SharesAssumption DEF IndexInv, LifeTypes, SlotIsHeld
<1>8. IsSnapshot(snapshot)'
  <2>1. snapshot' = [folders |-> {}, files |-> Index!Nothing, seq |-> 0] BY <1>1 DEF Index!Empty
  <2>2. snapshot'.folders = {} /\ snapshot'.files = Index!Nothing /\ snapshot'.seq = 0 BY <2>1
  <2>3. sharing'.seq \in Nat BY <1>3 DEF BoundTypes
  <2>. QED BY <2>1, <2>2, <2>3, NothingIs DEF IsSnapshot
<1>9. StoreTypes' BY <1>1, <1>3, <1>8 DEF IndexInv, StoreTypes, IsSnapshot
<1>10. IndexIsOurs' /\ Index!NoForeignFolder' /\ Index!SharedOrTold' BY <1>1 DEF IndexInv, IndexIsOurs, Index!NoForeignFolder, Index!SharedOrTold
<1>11. SavedIsThere' BY <1>5 DEF SavedIsThere
<1>12. NewestIsStored'
  <2>1. index'.seq \in Nat BY <1>1 DEF IndexInv, StoreTypes, IsSnapshot
  <2>2. snapshot'.seq = 0 BY <1>1, NothingIs
  <2>. QED BY <2>1, <2>2 DEF NewestIsStored
<1>. QED BY <1>3, <1>5, <1>6, <1>7, <1>9, <1>10, <1>11, <1>12 DEF IndexInv
LEMMA ScanTyped ==
  ASSUME IndexInv
  PROVE  /\ scan \in Scans /\ scan.at \in Walking \cup Waiting /\ scan.todo \subseteq Files /\ scan.file \in Files \cup {None} /\ scan.info \in FileIds
         /\ scan.cached \in Rows /\ scan.found \in Rows /\ meta \in Rows
         /\ scan.at # "idle" => alive # "down"
         /\ \A f \in Files : fs[f] \in FileIds /\ Index!Visible(f) \in FileIds
         /\ Index!Now \in Nat
<1>1. scan \in Scans /\ meta \in Rows /\ fs \in [Files -> FileIds] /\ (scan.at # "idle" => alive # "down") /\ sharing.written \in Nat
BY DEF IndexInv, ScanInv, ScanTypes, StoreTypes, TreeTypes, SlotIsHeld, BoundTypes
<1>2. Index!Absent \in FileIds BY DEF Index!Absent, FileIds
<1>3. \A f \in Files : fs[f] \in FileIds /\ Index!Visible(f) \in FileIds BY <1>1, <1>2 DEF Index!Visible
<1>. QED BY <1>1, <1>3 DEF Scans, Index!Now
LEMMA RowsStay ==
  ASSUME IndexInv, DiskStays
  PROVE  /\ scan'.cached = scan.cached => CachedIsPast'
         /\ scan'.found = scan.found => FoundIsPast'
<1>1. \A f \in Files : \A row : RowIs(f, row) <=> RowIs(f, row)' BY DiskKeeps
<1>2. CachedIsPast /\ FoundIsPast BY DEF IndexInv, ScanInv
<1>3. fs' = fs /\ Index!Now' = Index!Now BY DEF DiskStays, Index!Now
<1>. QED BY <1>2, <1>3 DEF CachedIsPast, FoundIsPast, RowIs
LEMMA LoadCacheKeeps == ASSUME IndexInv, Index!LoadShareMetaCache PROVE IndexInv'
<1>. DEFINE todo == {f \in Files : f[1] \in folders}
<1>1. scan.at = "meta" /\ (Index!Free \/ Index!Spend("faults")) BY DEF Index!LoadShareMetaCache
<1>2. UNCHANGED <<slot, initial, fs, mount, alive, folders, meta, index, snapshot, failure, unsaved>>
BY DEF Index!LoadShareMetaCache, Index!Step, Index!ScanUnchanged, Index!diskVars, Index!processVars, Index!DatabaseUnchanged, Index!MemoryUnchanged
<1>3. DiskStays BY <1>1, <1>2, SpendStays DEF DiskStays
<1>4. scan' = [Index!Walk(scan) EXCEPT !.cached = meta, !.active = TRUE] \/ scan' = Index!Walk(scan)
BY DEF Index!LoadShareMetaCache, Index!Step, Index!ShareFileMetadata
<1>5. Index!Walk(scan) = [scan EXCEPT !.at = "walk", !.todo = todo] BY DEF Index!Walk
<1>. HIDE DEF todo
<1>6. todo \subseteq Files /\ \A f \in Files : f \in todo <=> f[1] \in folders BY DEF todo
<1>7. Index!Walk(scan) \in Scans BY <1>5, <1>6, ScanTyped DEF Scans, Walking
<1>8. /\ scan' \in Scans /\ scan'.at = "walk" /\ scan'.todo = todo /\ scan'.file = scan.file /\ scan'.found = scan.found
      /\ scan'.cached \in {meta, scan.cached} /\ scan'.quiet = scan.quiet
  <2>1. CASE scan' = Index!Walk(scan) BY <1>5, <1>7, <2>1, ScanTyped DEF Scans
  <2>2. CASE scan' = [Index!Walk(scan) EXCEPT !.cached = meta, !.active = TRUE]
    <3>1. scan' \in Scans
      <4>1. meta \in Rows BY ScanTyped
      <4>. QED BY <1>7, <2>2, <4>1 DEF Scans
    <3>2. scan' = [[scan EXCEPT !.at = "walk", !.todo = todo] EXCEPT !.cached = meta, !.active = TRUE] BY <1>5, <2>2
    <3>. QED BY <3>1, <3>2, ScanTyped DEF Scans
  <2>. QED BY <1>4, <2>1, <2>2
<1>9. scan.found = Index!Nothing /\ scan.file = None BY <1>1 DEF IndexInv, ScanInv, ScanBegins, Waiting
<1>10. FoundIsPast' BY <1>3, <1>8, RowsStay
<1>11. CachedIsPast'
  <2>1. CASE scan'.cached = scan.cached BY <2>1, <1>3, RowsStay
  <2>2. CASE scan'.cached = meta
    <3>1. MetaIsPast' /\ meta' = meta BY <1>2, <1>3, DiskKeeps
    <3>. QED BY <2>2, <3>1 DEF MetaIsPast, CachedIsPast, RowIs
  <2>. QED BY <1>8, <2>1, <2>2
<1>12. QuietIsRight'
  <2>1. \A f \in Files : scan'.found[f] = Index!Unknown BY <1>8, <1>9, NothingIs
  <2>2. \A f \in Files : f \notin scan'.todo => Index!Right(f)' = {Index!Unknown} BY <1>2, <1>6, <1>8 DEF Index!Right
  <2>3. scan'.file = None BY <1>8, <1>9
  <2>. QED BY <1>6, <1>8, <2>1, <2>2, <2>3 DEF QuietIsRight
<1>13. ScanTypes' /\ SeenIsPast' /\ ScanBegins' /\ ScanIsOver' /\ TodoIsOurs' /\ FoundIsOurs'
  <2>1. \A f \in Files : scan'.found[f] = Index!Unknown BY <1>8, <1>9, NothingIs
  <2>. QED BY <1>2, <1>6, <1>8, <1>9, <2>1 DEF ScanTypes, SeenIsPast, ScanBegins, ScanIsOver, TodoIsOurs, FoundIsOurs, Waiting
<1>14. ScanInv' BY <1>10, <1>11, <1>12, <1>13 DEF ScanInv
<1>15. alive # "down" /\ meta' \in Rows /\ MetaIsPast' BY <1>1, <1>2, <1>3, ScanTyped, DiskKeeps
<1>. QED BY <1>1, <1>2, <1>3, <1>8, <1>14, <1>15, ScanGoesOn
\* An error ends a scan.
LEMMA ErrorKeeps ==
  ASSUME IndexInv, DiskStays, Index!Ends("error"), scan.at \in {"walk", "build"},
         UNCHANGED <<meta, index, snapshot, failure, unsaved, alive, folders>>
  PROVE  IndexInv'
<1>1. Index!ReleaseShareScan BY DEF Index!Ends
<1>2. initial' = IF slot # "initial" THEN initial ELSE "backoff" BY DEF Index!Ends
<1>3. alive # "down" /\ scan.at # "save" BY ScanTyped
<1>4. (slot = "initial" /\ initial' \in {"scan", "backoff"}) \/ (slot # "initial" /\ initial' = initial) BY <1>2
<1>. QED BY <1>1, <1>3, <1>4, GiveUpKeeps
LEMMA ScanFailsKeeps == ASSUME IndexInv, Index!ScanFails PROVE IndexInv'
<1>1. UNCHANGED <<fs, mount, meta, index, snapshot, failure, unsaved, alive, folders>> /\ (Index!Free \/ Index!Spend("faults"))
      /\ scan.at \in {"walk", "build"} /\ Index!Ends("error")
BY DEF Index!ScanFails, Index!ScanUnchanged, Index!diskVars, Index!processVars, Index!DatabaseUnchanged, Index!MemoryUnchanged
<1>2. DiskStays BY <1>1, SpendStays DEF DiskStays
<1>. QED BY <1>1, <1>2, ErrorKeeps
LEMMA VisitKeeps == ASSUME IndexInv, Index!VisitFile PROVE IndexInv'
<1>. DEFINE f == CHOOSE g \in scan.todo : TRUE
            file == IF Index!Visible(f) = Index!Absent THEN None ELSE f
            new == [scan EXCEPT !.todo = @ \ {f}, !.file = file, !.info = Index!Visible(f)]
<1>1. scan.at = "walk" /\ scan.file = None /\ scan.todo # {} /\ Index!Free BY DEF Index!VisitFile
<1>2. UNCHANGED <<fs, mount, meta, index, snapshot, failure, unsaved, alive, folders>>
BY DEF Index!VisitFile, Index!ScanUnchanged, Index!diskVars, Index!processVars, Index!DatabaseUnchanged, Index!MemoryUnchanged
<1>3. DiskStays BY <1>1, <1>2, SpendStays DEF DiskStays
<1>4. f \in scan.todo /\ f \in Files BY <1>1, ScanTyped
<1>5. Index!Ends("error") \/ (scan' = new /\ slot' = slot /\ initial' = initial) BY DEF Index!VisitFile, Index!Step
<1>6. file = IF Index!Visible(f) = Index!Absent THEN None ELSE f OBVIOUS
<1>7. new = [scan EXCEPT !.todo = scan.todo \ {f}, !.file = file, !.info = Index!Visible(f)] OBVIOUS
<1>. HIDE DEF f, file, new
<1>8. CASE Index!Ends("error") BY <1>1, <1>2, <1>3, <1>8, ErrorKeeps
<1>9. CASE scan' = new /\ slot' = slot /\ initial' = initial
  <2>1. /\ scan' \in Scans /\ scan'.at = "walk" /\ scan'.todo = scan.todo \ {f} /\ scan'.file = file /\ scan'.info = Index!Visible(f)
        /\ scan'.cached = scan.cached /\ scan'.found = scan.found /\ scan'.quiet = scan.quiet
    <3>1. scan \in Scans /\ scan.todo \ {f} \in SUBSET Files /\ file \in Files \cup {None} /\ Index!Visible(f) \in FileIds
      BY <1>4, <1>6, ScanTyped
    <3>. QED BY <1>1, <1>7, <1>9, <3>1 DEF Scans
  <2>2. CachedIsPast' /\ FoundIsPast' BY <1>3, <2>1, RowsStay
  <2>3. TodoIsOurs /\ FoundIsOurs /\ QuietIsRight /\ TreeTypes BY DEF IndexInv, ScanInv
  <2>4. ScanTypes' /\ ScanBegins' /\ ScanIsOver' /\ TodoIsOurs' /\ FoundIsOurs'
    BY <1>2, <2>1, <2>3 DEF ScanTypes, ScanBegins, ScanIsOver, TodoIsOurs, FoundIsOurs, Waiting
  <2>5. SeenIsPast'
    <3>1. SUFFICES ASSUME scan'.file # None PROVE SeenIsPast' BY DEF SeenIsPast
    <3>2. scan'.file = f /\ Index!Visible(f) # Index!Absent BY <1>6, <2>1, <3>1
    <3>3. Index!Visible(f) = fs[f] /\ fs[f] # Index!Absent BY <3>2 DEF Index!Visible
    <3>4. fs[f].ino >= 1 /\ fs[f].ver >= 1 /\ fs[f].ver <= Index!Now BY <1>4, <2>3, <3>3 DEF TreeTypes
    <3>5. f[1] \in folders /\ f \notin scan'.todo BY <1>4, <2>1, <2>3 DEF TodoIsOurs
    <3>6. fs[f].ver >= fs[f].ver BY <1>4, ScanTyped DEF FileIds
    <3>7. fs' = fs /\ Index!Now' = Index!Now /\ folders' = folders BY <1>2, <1>3 DEF DiskStays, Index!Now
    <3>. QED BY <2>1, <3>2, <3>3, <3>4, <3>5, <3>6, <3>7 DEF SeenIsPast
  <2>6. QuietIsRight'
    <3>1. SUFFICES ASSUME scan.quiet PROVE QuietIsRight' BY <2>1 DEF QuietIsRight
    <3>2. /\ \A g \in Files : g \notin scan.todo => scan.found[g] \in Index!Right(g)
          /\ \A g \in scan.todo : scan.found[g] = Index!Unknown
      BY <1>1, <2>3, <3>1, SharesAssumption DEF QuietIsRight, Walking
    <3>3. \A g \in Files : Index!Right(g)' = Index!Right(g) /\ Index!Visible(g)' = Index!Visible(g) BY <1>2 DEF Index!Right, Index!Visible
    <3>4. ASSUME NEW g \in Files, g \notin scan'.todo, g # scan'.file PROVE scan'.found[g] \in Index!Right(g)'
      <4>1. CASE g = f
        <5>1. Index!Visible(f) = Index!Absent BY <1>6, <2>1, <3>4, <4>1
        <5>. QED BY <1>4, <2>1, <3>2, <3>3, <4>1, <5>1 DEF Index!Right
      <4>2. CASE g # f BY <2>1, <3>2, <3>3, <3>4, <4>2
      <4>. QED BY <4>1, <4>2
    <3>5. \A g \in scan'.todo : scan'.found[g] = Index!Unknown BY <2>1, <3>2
    <3>6. ASSUME scan'.file # None PROVE (scan.found[scan.file] = Index!Unknown)' /\ (scan.info = Index!Visible(scan.file))'
      <4>1. scan'.file = f BY <1>6, <2>1, <3>6
      <4>2. scan'.found[f] = Index!Unknown BY <1>4, <2>1, <3>2
      <4>3. scan'.info = IF mount'[f[1]] = "up" THEN fs'[f] ELSE Index!Absent BY <1>2, <2>1 DEF Index!Visible
      <4>. QED BY <4>1, <4>2, <4>3 DEF Index!Visible
    <3>. QED BY <3>4, <3>5, <3>6 DEF QuietIsRight
  <2>7. ScanInv' BY <2>2, <2>4, <2>5, <2>6 DEF ScanInv
  <2>8. alive # "down" /\ meta' \in Rows /\ MetaIsPast' BY <1>1, <1>2, <1>3, ScanTyped, DiskKeeps
  <2>. QED BY <1>1, <1>2, <1>3, <1>9, <2>1, <2>7, <2>8, ScanGoesOn
<1>. QED BY <1>5, <1>8, <1>9
LEMMA ReadKeeps == ASSUME IndexInv, Index!ReadFile PROVE IndexInv'
<1>. DEFINE f == scan.file
            known == Index!SameShareFileMeta(scan.cached[f], scan.info)
            Row(attrs, some) == [key |-> scan.info.ver, attrs |-> attrs, some |-> some]
            New(attrs, some) == [scan EXCEPT !.file = None, !.info = Index!Absent, !.found[f] = Row(attrs, some)]
            Takes(attrs, some) ==
              Index!Ends("error") \/ (Index!Visible(f).ino = scan.info.ino /\ scan' = New(attrs, some) /\ slot' = slot /\ initial' = initial)
<1>1. scan.at = "walk" /\ f # None /\ f \in Files /\ (Index!Free \/ Index!Spend("faults")) BY ScanTyped DEF Index!ReadFile
<1>2. UNCHANGED <<fs, mount, meta, index, snapshot, failure, unsaved, alive, folders>>
BY DEF Index!ReadFile, Index!ScanUnchanged, Index!diskVars, Index!processVars, Index!DatabaseUnchanged, Index!MemoryUnchanged
<1>3. DiskStays BY <1>1, <1>2, SpendStays DEF DiskStays
<1>4. \E attrs, some : /\ Takes(attrs, some)
                       /\ \/ f \notin Audio /\ attrs = 0 /\ some = FALSE
                          \/ f \in Audio /\ known /\ attrs = scan.cached[f].attrs /\ some = scan.cached[f].some
                          \/ f \in Audio /\ ~known /\ attrs = fs[f].ver /\ some \in BOOLEAN
  <2>1. CASE f \notin Audio
    <3>1. Takes(0, FALSE) BY <2>1 DEF Index!ReadFile, Index!Step, Index!NoAttributes
    <3>. QED BY <2>1, <3>1
  <2>2. CASE f \in Audio /\ known
    <3>1. Takes(scan.cached[f].attrs, scan.cached[f].some) BY <2>2 DEF Index!ReadFile, Index!Step
    <3>. QED BY <2>2, <3>1
  <2>3. CASE f \in Audio /\ ~known
    <3>1. Takes(fs[f].ver, TRUE) \/ Takes(fs[f].ver, FALSE) BY <2>3 DEF Index!ReadFile, Index!Step, Index!ExtractTechnicalMetadata
    <3>. QED BY <2>3, <3>1
  <2>. QED BY <2>1, <2>2, <2>3
<1>41. PICK attrs, some : /\ Takes(attrs, some)
                        /\ \/ f \notin Audio /\ attrs = 0 /\ some = FALSE
                           \/ f \in Audio /\ known /\ attrs = scan.cached[f].attrs /\ some = scan.cached[f].some
                           \/ f \in Audio /\ ~known /\ attrs = fs[f].ver /\ some \in BOOLEAN
BY <1>4
<1>. DEFINE row == Row(attrs, some)
            found == [scan.found EXCEPT ![f] = row]
<1>5. CASE Index!Ends("error") BY <1>1, <1>2, <1>3, <1>5, ErrorKeeps
<1>6. CASE Index!Visible(f).ino = scan.info.ino /\ scan' = New(attrs, some) /\ slot' = slot /\ initial' = initial
  <2>1. /\ f[1] \in folders /\ f \notin scan.todo
        /\ scan.info.ino >= 1 /\ scan.info.ver >= 1 /\ scan.info.ver <= Index!Now
        /\ fs[f] = Index!Absent \/ fs[f].ver >= scan.info.ver
    BY <1>1 DEF IndexInv, ScanInv, SeenIsPast
  <2>2. fs[f] \in FileIds /\ scan.info \in FileIds /\ scan.cached \in Rows /\ scan.found \in Rows /\ Index!Now \in Nat BY <1>1, ScanTyped
  <2>3. scan.info.ver \in Nat /\ scan.info.ino \in Nat /\ fs[f].ver \in Nat /\ scan.cached[f].key \in Nat /\ scan.cached[f].attrs \in Nat
        /\ scan.cached[f].some \in BOOLEAN
    BY <1>1, <2>2 DEF FileIds, Rows
  <2>4. Index!Visible(f) = fs[f] /\ fs[f] # Index!Absent
    <3>1. Index!Absent.ino = 0 BY DEF Index!Absent
    <3>2. Index!Visible(f) # Index!Absent BY <1>6, <2>1, <2>3, <3>1
    <3>. QED BY <3>2 DEF Index!Visible
  <2>5. fs[f].ver >= scan.info.ver /\ fs[f].ver <= Index!Now BY <1>1, <2>1, <2>4 DEF IndexInv, TreeTypes
  <2>6. RowIs(f, scan.cached[f]) BY <1>1 DEF IndexInv, ScanInv, CachedIsPast
  <2>7. ASSUME known PROVE scan.cached[f].key = scan.info.ver /\ scan.info.ver <= scan.cached[f].attrs /\ scan.cached[f].attrs <= fs[f].ver
    <3>1. scan.cached[f].key = scan.info.ver BY <2>7 DEF Index!SameShareFileMeta
    <3>2. scan.cached[f] # Index!Unknown BY <2>1, <3>1 DEF Index!Unknown
    <3>. QED BY <2>4, <2>6, <3>1, <3>2 DEF RowIs
  <2>9. /\ attrs \in Nat /\ some \in BOOLEAN
        /\ f \in Audio => scan.info.ver <= attrs /\ attrs <= fs[f].ver
        /\ f \notin Audio => attrs = 0 /\ some = FALSE
    <3>0. \/ f \notin Audio /\ attrs = 0 /\ some = FALSE
          \/ f \in Audio /\ known /\ attrs = scan.cached[f].attrs /\ some = scan.cached[f].some
          \/ f \in Audio /\ ~known /\ attrs = fs[f].ver /\ some \in BOOLEAN
      BY <1>41
    <3>1. CASE f \notin Audio
      <4>1. attrs = 0 BY <3>0, <3>1
      <4>2. some = FALSE BY Zenon, <3>0, <3>1
      <4>. QED BY <3>1, <4>1, <4>2
    <3>2. CASE f \in Audio /\ known
      <4>1. attrs = scan.cached[f].attrs BY <3>0, <3>2
      <4>2. some \in BOOLEAN BY Zenon, <2>3, <3>0, <3>2
      <4>. QED BY <2>3, <2>7, <3>2, <4>1, <4>2
    <3>3. CASE f \in Audio /\ ~known
      <4>1. attrs = fs[f].ver BY <3>0, <3>3
      <4>2. some \in BOOLEAN BY Zenon, <3>0, <3>3
      <4>. QED BY <2>3, <2>5, <3>3, <4>1, <4>2
    <3>. QED BY <3>1, <3>2, <3>3
  <2>91. scan' = [scan EXCEPT !.file = None, !.info = Index!Absent, !.found = found] BY <1>6
  <2>92. row = [key |-> scan.info.ver, attrs |-> attrs, some |-> some] OBVIOUS
  <2>. HIDE DEF known
  <2>10. row \in [key : Nat, attrs : Nat, some : BOOLEAN] /\ row.key = scan.info.ver /\ row.attrs = attrs /\ row.some = some BY <2>3, <2>9
  <2>. HIDE DEF row
  <2>11. found \in Rows /\ found[f] = row /\ \A g \in Files : g # f => found[g] = scan.found[g] BY <1>1, <2>2, <2>10 DEF Rows
  <2>. HIDE DEF found
  <2>12. /\ scan' \in Scans /\ scan'.at = "walk" /\ scan'.todo = scan.todo /\ scan'.file = None
         /\ scan'.cached = scan.cached /\ scan'.found = found /\ scan'.quiet = scan.quiet
    <3>1. scan \in Scans /\ Index!Absent \in FileIds BY ScanTyped DEF Index!Absent, FileIds
    <3>. QED BY <1>1, <2>11, <2>91, <3>1 DEF Scans
  <2>13. RowIs(f, row) \/ f \notin Audio
    <3>1. SUFFICES ASSUME f \in Audio PROVE RowIs(f, row) OBVIOUS
    <3>2. row.key >= 1 /\ row.key <= row.attrs /\ row.attrs <= Index!Now /\ fs[f].ver >= row.attrs
      BY <2>1, <2>2, <2>3, <2>5, <2>9, <2>10, <3>1
    <3>. QED BY <3>1, <3>2 DEF RowIs
  <2>14. FoundIsPast'
    <3>1. \A g \in Audio : RowIs(g, found[g]) BY <2>11, <2>13, SharesAssumption DEF IndexInv, ScanInv, FoundIsPast
    <3>2. fs' = fs /\ Index!Now' = Index!Now BY <1>3 DEF DiskStays, Index!Now
    <3>. QED BY <2>12, <3>1, <3>2 DEF FoundIsPast, RowIs
  <2>15. CachedIsPast' BY <1>3, <2>12, RowsStay
  <2>16. ScanTypes' /\ SeenIsPast' /\ ScanBegins' /\ ScanIsOver' BY <2>12 DEF ScanTypes, SeenIsPast, ScanBegins, ScanIsOver, Waiting
  <2>17. TodoIsOurs' /\ FoundIsOurs' BY <1>2, <2>1, <2>11, <2>12 DEF IndexInv, ScanInv, TodoIsOurs, FoundIsOurs
  <2>18. QuietIsRight'
    <3>1. SUFFICES ASSUME scan.quiet PROVE QuietIsRight' BY <2>12 DEF QuietIsRight
    <3>2. /\ \A g \in Files : g \notin scan.todo /\ g # f => scan.found[g] \in Index!Right(g)
          /\ \A g \in scan.todo : scan.found[g] = Index!Unknown
          /\ scan.info = Index!Visible(f)
      BY <1>1, <3>1 DEF IndexInv, ScanInv, QuietIsRight, Walking
    <3>3. \A g \in Files : Index!Right(g)' = Index!Right(g) BY <1>2 DEF Index!Right, Index!Visible
    <3>4. row \in Index!Right(f)
      <4>1. f[1] \in folders /\ Index!Visible(f) # Index!Absent /\ scan.info.ver = fs[f].ver BY <2>1, <2>4, <3>2
      <4>2. CASE f \in Audio
        <5>1. attrs = fs[f].ver BY <2>3, <2>9, <4>1, <4>2
        <5>2. Index!Right(f) = [key : {fs[f].ver}, attrs : {fs[f].ver}, some : BOOLEAN] BY <4>1, <4>2 DEF Index!Right
        <5>3. row = [key |-> fs[f].ver, attrs |-> fs[f].ver, some |-> some] BY <2>92, <4>1, <5>1
        <5>. QED BY <2>9, <5>2, <5>3
      <4>3. CASE f \notin Audio
        <5>1. attrs = 0 /\ some = FALSE BY Zenon, <2>9, <4>3
        <5>2. Index!Right(f) = [key : {fs[f].ver}, attrs : {0}, some : {FALSE}] BY <4>1, <4>3 DEF Index!Right
        <5>3. row = [key |-> fs[f].ver, attrs |-> 0, some |-> some] BY <2>92, <4>1, <5>1
        <5>. QED BY <5>1, <5>2, <5>3
      <4>. QED BY <4>2, <4>3
    <3>5. \A g \in Files : g \notin scan.todo => found[g] \in Index!Right(g) BY <2>11, <3>2, <3>4
    <3>6. \A g \in scan.todo : found[g] = Index!Unknown BY <2>1, <2>11, <3>2, ScanTyped
    <3>. QED BY <2>12, <3>3, <3>5, <3>6 DEF QuietIsRight
  <2>19. ScanInv' BY <2>14, <2>15, <2>16, <2>17, <2>18 DEF ScanInv
  <2>20. alive # "down" /\ meta' \in Rows /\ MetaIsPast' BY <1>1, <1>2, <1>3, ScanTyped, DiskKeeps
  <2>. QED BY <1>1, <1>2, <1>3, <1>6, <2>12, <2>19, <2>20, ScanGoesOn
<1>. QED BY <1>41, <1>5, <1>6
LEMMA FlushKeeps == ASSUME IndexInv, Index!FlushShareMetaCache PROVE IndexInv'
<1>. DEFINE computed == {f \in (Index!Found \cap Audio) \ Odd : scan.cached[f].key # scan.found[f].key}
            stale == IF Index!Found = {} THEN {} ELSE {f \in Files : scan.cached[f] # Index!Unknown} \ (Index!Found \cap Audio)
            Flushed(up, gone) == Index!DeleteShareFileMetadata(Index!UpsertShareFileMetadata(meta, up), gone)
            new == [scan EXCEPT !.at = "build", !.cached = Index!Nothing]
<1>1. scan.at = "walk" /\ scan.file = None /\ scan.todo = {} /\ scan' = new /\ slot' = slot /\ initial' = initial
      /\ (Index!Free \/ Index!Spend("faults"))
BY DEF Index!FlushShareMetaCache, Index!Step
<1>2. UNCHANGED <<fs, mount, index, snapshot, failure, unsaved, alive, folders>>
BY DEF Index!FlushShareMetaCache, Index!ScanUnchanged, Index!diskVars, Index!processVars, Index!MemoryUnchanged
<1>3. DiskStays BY <1>1, <1>2, SpendStays DEF DiskStays
<1>4. computed \subseteq Audio /\ computed \subseteq Files BY SharesAssumption
<1>5. meta' = meta \/ \E up \in {{}, computed}, gone \in {{}, stale} : meta' = Flushed(up, gone)
BY DEF Index!FlushShareMetaCache
<1>. HIDE DEF computed, stale
<1>6. ASSUME NEW up \in {{}, computed}, NEW gone, meta' = Flushed(up, gone), NEW f \in Files
      PROVE  meta'[f] \in {meta[f], Index!Unknown} \/ (f \in Audio /\ meta'[f] = scan.found[f])
  <2>1. meta'[f] = IF f \in gone THEN Index!Unknown ELSE IF f \in up THEN scan.found[f] ELSE meta[f]
    BY <1>6 DEF Index!DeleteShareFileMetadata, Index!UpsertShareFileMetadata
  <2>. QED BY <1>4, <1>6, <2>1
<1>7. meta' \in Rows /\ \A f \in Files : meta'[f] \in {meta[f], Index!Unknown} \/ (f \in Audio /\ meta'[f] = scan.found[f])
  <2>1. CASE meta' = meta BY <2>1, ScanTyped
  <2>2. CASE \E up \in {{}, computed}, gone \in {{}, stale} : meta' = Flushed(up, gone)
    <3>1. PICK up \in {{}, computed}, gone \in {{}, stale} : meta' = Flushed(up, gone) BY <2>2
    <3>2. \A f \in Files : meta'[f] \in {meta[f], Index!Unknown} \/ (f \in Audio /\ meta'[f] = scan.found[f]) BY <1>6, <3>1
    <3>3. meta' = [f \in Files |-> meta'[f]] BY <3>1 DEF Index!DeleteShareFileMetadata
    <3>4. \A f \in Files : meta'[f] \in [key : Nat, attrs : Nat, some : BOOLEAN] BY <3>2, NothingIs, ScanTyped DEF Rows
    <3>5. meta' \in Rows BY <3>3, <3>4 DEF Rows
    <3>. QED BY <3>2, <3>5
  <2>. QED BY <1>5, <2>1, <2>2
<1>8. MetaIsPast'
  <2>1. \A f \in Files : RowIs(f, meta'[f]) BY <1>7 DEF IndexInv, ScanInv, MetaIsPast, FoundIsPast, RowIs
  <2>2. fs' = fs /\ Index!Now' = Index!Now BY <1>3 DEF DiskStays, Index!Now
  <2>. QED BY <2>1, <2>2 DEF MetaIsPast, RowIs
<1>9. /\ scan' \in Scans /\ scan'.at = "build" /\ scan'.todo = {} /\ scan'.file = None
      /\ scan'.cached = Index!Nothing /\ scan'.found = scan.found /\ scan'.quiet = scan.quiet
BY <1>1, ScanTyped, NothingIs DEF Scans, Walking
<1>10. CachedIsPast'
  <2>1. \A f \in Files : scan'.cached[f] = Index!Unknown BY <1>9, NothingIs
  <2>. QED BY <2>1 DEF CachedIsPast, RowIs
<1>11. FoundIsPast' BY <1>3, <1>9, RowsStay
<1>12. ScanTypes' /\ SeenIsPast' /\ ScanBegins' /\ ScanIsOver' /\ TodoIsOurs' BY <1>9 DEF ScanTypes, SeenIsPast, ScanBegins, ScanIsOver, TodoIsOurs, Waiting
<1>13. FoundIsOurs' BY <1>2, <1>9 DEF IndexInv, ScanInv, FoundIsOurs
<1>14. QuietIsRight'
  <2>1. SUFFICES ASSUME scan.quiet PROVE QuietIsRight' BY <1>9 DEF QuietIsRight
  <2>2. \A f \in Files : scan.found[f] \in Index!Right(f) BY <1>1, <2>1, SharesAssumption DEF IndexInv, ScanInv, QuietIsRight, Walking
  <2>3. \A f \in Files : Index!Right(f)' = Index!Right(f) BY <1>2 DEF Index!Right, Index!Visible
  <2>. QED BY <1>9, <2>2, <2>3 DEF QuietIsRight
<1>15. ScanInv' BY <1>10, <1>11, <1>12, <1>13, <1>14 DEF ScanInv
<1>16. alive # "down" BY <1>1, ScanTyped
<1>. QED BY <1>1, <1>2, <1>3, <1>7, <1>8, <1>9, <1>15, <1>16, ScanGoesOn
LEMMA PublishKeeps == ASSUME IndexInv, Index!Publish PROVE IndexInv'
<1>1. scan.at = "build" /\ alive = "up" /\ UNCHANGED <<fs, mount, meta, index, unsaved, alive, folders>>
BY DEF Index!Publish, Index!ScanUnchanged, Index!diskVars, Index!processVars, Index!DatabaseUnchanged
<1>2. CASE Index!TooLarge
  <2>1. Index!Ends("too_large") /\ failure' = TRUE /\ Index!Free /\ snapshot' = snapshot BY <1>2 DEF Index!Publish
  <2>2. DiskStays BY <1>1, <2>1, SpendStays DEF DiskStays
  <2>3. Index!ReleaseShareScan /\ initial' = IF slot # "initial" THEN initial ELSE "over" BY <2>1 DEF Index!Ends
  <2>4. initial \in {"load", "scan", "busy", "backoff", "over"} /\ (slot # "initial" => initial # "busy")
    BY <1>1 DEF IndexInv, LifeTypes, SlotIsHeld
  <2>5. BoundTypes' /\ TreeTypes' /\ ScanInv' /\ SlotIsHeld' /\ SavedIsThere' /\ MetaIsPast' BY <1>1, <2>2, <2>3, <2>4, EndKeeps
  <2>6. StoreTypes' BY <1>1, <2>1, <2>2, DiskKeeps
  <2>7. LifeTypes' BY <1>1, <2>1, <2>3, <2>4 DEF IndexInv, LifeTypes, Index!ReleaseShareScan
  <2>8. IndexIsOurs' /\ Index!NoForeignFolder' /\ Index!SharedOrTold'
    BY <1>1, <2>1 DEF IndexInv, IndexIsOurs, Index!NoForeignFolder, Index!SharedOrTold, Index!Told
  <2>9. NewestIsStored' BY <1>1, <2>1 DEF IndexInv, NewestIsStored
  <2>. QED BY <2>5, <2>6, <2>7, <2>8, <2>9 DEF IndexInv
<1>3. CASE ~Index!TooLarge
  <2>. DEFINE new == [folders |-> folders, files |-> scan.found, seq |-> sharing.seq + 1]
  <2>1. scan' = [scan EXCEPT !.at = "save"] /\ slot' = slot /\ initial' = initial /\ failure' = FALSE
        /\ sharing' = [sharing EXCEPT !.seq = @ + 1] /\ snapshot' = new
    BY <1>3 DEF Index!Publish, Index!Step
  <2>2. BoundTypes BY DEF IndexInv
  <2>3. BoundTypes' /\ sharing'.seq = sharing.seq + 1 /\ sharing'.written = sharing.written /\ sharing.seq \in Nat BY <2>1, <2>2 DEF BoundTypes
  <2>4. Index!Now' = Index!Now BY <2>3 DEF Index!Now
  <2>5. TreeTypes' /\ MetaIsPast' BY <1>1, <2>4 DEF IndexInv, TreeTypes, MetaIsPast, RowIs
  <2>6. new.folders = folders /\ new.files = scan.found /\ new.seq = sharing.seq + 1 OBVIOUS
  <2>7. new = [folders |-> new.folders, files |-> new.files, seq |-> new.seq] OBVIOUS
  <2>8. new # Index!Empty
    <3>1. new.seq # 0 BY <2>3, <2>6
    <3>. HIDE DEF new
    <3>. QED BY <3>1, NothingIs
  <2>. HIDE DEF new
  <2>9. IsSnapshot(snapshot)' BY <2>1, <2>3, <2>6, <2>7, ScanTyped DEF IsSnapshot
  <2>10. StoreTypes'
    <3>1. IsSnapshot(index) /\ index.seq \in Nat BY DEF IndexInv, StoreTypes, IsSnapshot
    <3>2. index'.seq <= sharing'.seq BY <1>1, <2>3, <3>1 DEF IsSnapshot
    <3>3. IsSnapshot(index)' BY <1>1, <3>1, <3>2 DEF IsSnapshot
    <3>. QED BY <1>1, <2>9, <3>3, ScanTyped DEF StoreTypes
  <2>11. /\ scan' \in Scans /\ scan'.at = "save" /\ scan'.todo = scan.todo /\ scan'.file = scan.file /\ scan'.info = scan.info
         /\ scan'.cached = scan.cached /\ scan'.found = scan.found /\ scan'.quiet = scan.quiet
    BY <2>1, ScanTyped DEF Scans, Walking
  <2>12. CachedIsPast' /\ FoundIsPast' BY <1>1, <2>4, <2>11 DEF IndexInv, ScanInv, CachedIsPast, FoundIsPast, RowIs
  <2>13. ScanTypes' /\ ScanBegins' /\ ScanIsOver' /\ TodoIsOurs' /\ FoundIsOurs'
    BY <1>1, <2>11 DEF IndexInv, ScanInv, ScanTypes, ScanBegins, ScanIsOver, TodoIsOurs, FoundIsOurs, Waiting
  <2>14. SeenIsPast' BY <1>1, <2>11 DEF IndexInv, ScanInv, ScanIsOver, SeenIsPast
  <2>15. QuietIsRight'
    <3>1. \A f \in Files : Index!Right(f)' = Index!Right(f) /\ Index!Visible(f)' = Index!Visible(f) BY <1>1 DEF Index!Right, Index!Visible
    <3>2. scan'.file = None /\ scan'.todo = {} BY <1>1, <2>11 DEF IndexInv, ScanInv, ScanIsOver
    <3>3. scan.quiet => \A f \in Files : scan.found[f] \in Index!Right(f)
      BY <1>1, SharesAssumption DEF IndexInv, ScanInv, ScanIsOver, QuietIsRight, Walking
    <3>. QED BY <2>11, <3>1, <3>2, <3>3 DEF QuietIsRight
  <2>16. ScanInv' BY <2>12, <2>13, <2>14, <2>15 DEF ScanInv
  <2>17. LifeTypes' /\ SlotIsHeld' BY <1>1, <2>1, <2>11 DEF IndexInv, LifeTypes, SlotIsHeld
  <2>18. IndexIsOurs' BY <1>1 DEF IndexInv, IndexIsOurs
  <2>19. Index!NoForeignFolder' BY <1>1, <2>1, <2>6 DEF IndexInv, ScanInv, FoundIsOurs, Index!NoForeignFolder
  <2>20. SavedIsThere' /\ Index!SharedOrTold' /\ NewestIsStored' BY <2>1, <2>8, <2>11 DEF SavedIsThere, Index!SharedOrTold, Index!Told, NewestIsStored
  <2>. QED BY <2>3, <2>5, <2>10, <2>16, <2>17, <2>18, <2>19, <2>20 DEF IndexInv
<1>. QED BY <1>2, <1>3
LEMMA SaveKeeps == ASSUME IndexInv, Index!SaveShareIndex PROVE IndexInv'
<1>1. scan.at = "save" /\ Index!Ends("done") /\ UNCHANGED <<fs, mount, meta, snapshot, failure, alive, folders>>
BY DEF Index!SaveShareIndex, Index!ScanUnchanged, Index!diskVars, Index!processVars
<1>2. (index' = snapshot /\ unsaved' = FALSE /\ Index!Free) \/ (index' = index /\ unsaved' = TRUE /\ (Index!Free \/ Index!Spend("faults")))
BY DEF Index!SaveShareIndex, Index!Stored
<1>3. DiskStays BY <1>1, <1>2, SpendStays DEF DiskStays
<1>4. Index!ReleaseShareScan /\ initial' = IF slot # "initial" THEN initial ELSE "over" BY <1>1 DEF Index!Ends
<1>5. alive # "down" BY <1>1, ScanTyped
<1>6. initial \in {"load", "scan", "busy", "backoff", "over"} /\ (slot # "initial" => initial # "busy")
BY <1>5 DEF IndexInv, LifeTypes, SlotIsHeld
<1>7. BoundTypes' /\ TreeTypes' /\ ScanInv' /\ SlotIsHeld' /\ SavedIsThere' /\ MetaIsPast' BY <1>1, <1>3, <1>4, <1>5, <1>6, EndKeeps
<1>8. StoreTypes'
  <2>1. IsSnapshot(index') BY <1>2 DEF IndexInv, StoreTypes, IsSnapshot
  <2>2. sharing'.seq = sharing.seq BY <1>3 DEF DiskStays
  <2>. QED BY <1>1, <2>1, <2>2 DEF IndexInv, StoreTypes, IsSnapshot
<1>9. LifeTypes' BY <1>1, <1>2, <1>4, <1>6 DEF IndexInv, LifeTypes, Index!ReleaseShareScan
<1>10. snapshot # Index!Empty BY <1>1 DEF IndexInv, SavedIsThere
<1>11. Index!NoForeignFolder' /\ Index!SharedOrTold' BY <1>1, <1>10 DEF IndexInv, Index!NoForeignFolder, Index!SharedOrTold, Index!Told
<1>12. IndexIsOurs' BY <1>2, <1>5, <1>10 DEF IndexInv, IndexIsOurs, Index!NoForeignFolder
<1>13. NewestIsStored' BY <1>1, <1>2 DEF IndexInv, StoreTypes, IsSnapshot, NewestIsStored
<1>. QED BY <1>7, <1>8, <1>9, <1>11, <1>12, <1>13 DEF IndexInv
LEMMA LoadIs ==
  ASSUME IndexInv, Index!LoadAndPublishShareIndex
  PROVE  /\ scan.at = "load" /\ alive # "down" /\ slot = "initial" /\ Index!ReleaseShareScan /\ DiskStays
         /\ UNCHANGED <<meta, index, unsaved, alive, folders>>
         /\ \/ initial' = "scan" /\ snapshot' = snapshot /\ failure' = failure
            \/ /\ initial' = "over" /\ failure' = FALSE /\ snapshot' = index /\ index # Index!Empty /\ index.folders = folders
<1>1. scan.at = "load" /\ Index!ReleaseShareScan /\ (Index!Free \/ Index!Spend("faults")) /\ UNCHANGED <<fs, mount, meta, index, unsaved, alive, folders>>
BY DEF Index!LoadAndPublishShareIndex, Index!diskVars, Index!processVars, Index!DatabaseUnchanged, Index!MemoryUnchanged
<1>2. slot = "initial" /\ alive # "down" BY <1>1, ScanTyped DEF IndexInv, SlotIsHeld
<1>3. DiskStays BY <1>1, SpendStays DEF DiskStays
<1>4. \/ initial' = "scan" /\ snapshot' = snapshot /\ failure' = failure
      \/ /\ initial' = "over" /\ failure' = FALSE /\ snapshot' = Index!RebuildShareSnapshot(Index!LoadShareIndex)
         /\ Index!LoadShareIndex # Index!Empty
BY DEF Index!LoadAndPublishShareIndex, Index!MemoryUnchanged
<1>5. ASSUME Index!LoadShareIndex # Index!Empty
      PROVE  index # Index!Empty /\ index.folders = folders /\ Index!RebuildShareSnapshot(Index!LoadShareIndex) = index
  <2>1. Index!LoadShareIndex = index /\ index.folders = folders BY <1>5 DEF Index!LoadShareIndex, Index!ShareIndex, Index!SameFolders
  <2>2. index = [folders |-> index.folders, files |-> index.files, seq |-> index.seq] BY DEF IndexInv, StoreTypes, IsSnapshot
  <2>. QED BY <1>5, <2>1, <2>2 DEF Index!RebuildShareSnapshot
<1>. QED BY <1>1, <1>2, <1>3, <1>4, <1>5
LEMMA LoadKeeps == ASSUME IndexInv, Index!LoadAndPublishShareIndex PROVE IndexInv'
<1>1. CASE initial' = "scan" /\ snapshot' = snapshot /\ failure' = failure BY <1>1, LoadIs, GiveUpKeeps
<1>2. CASE initial' = "over" /\ failure' = FALSE /\ snapshot' = index /\ index # Index!Empty /\ index.folders = folders
  <2>1. BoundTypes' /\ TreeTypes' /\ ScanInv' /\ SlotIsHeld' /\ SavedIsThere' /\ MetaIsPast' BY <1>2, LoadIs, EndKeeps
  <2>2. StoreTypes' BY <1>2, LoadIs DEF IndexInv, StoreTypes, IsSnapshot, DiskStays
  <2>3. LifeTypes' BY <1>2, LoadIs DEF IndexInv, LifeTypes, Index!ReleaseShareScan
  <2>4. IndexIsOurs' /\ Index!NoForeignFolder' BY <1>2, LoadIs DEF IndexInv, IndexIsOurs, Index!NoForeignFolder
  <2>5. Index!SharedOrTold' BY <1>2 DEF Index!SharedOrTold, Index!Told
  <2>6. NewestIsStored'
    <3>1. index.seq \in Nat BY DEF IndexInv, StoreTypes, IsSnapshot
    <3>2. index' = index /\ snapshot' = index BY <1>2, LoadIs
    <3>3. index'.seq >= snapshot'.seq BY <3>1, <3>2
    <3>. QED BY <3>3 DEF NewestIsStored
  <2>. QED BY <2>1, <2>2, <2>3, <2>4, <2>5, <2>6 DEF IndexInv
<1>. QED BY <1>1, <1>2, LoadIs
\* Every action keeps the invariant.
LEMMA IndexStep == IndexInv /\ [Index!Next]_indexVars => IndexInv'
<1>. SUFFICES ASSUME IndexInv, [Index!Next]_indexVars PROVE IndexInv' OBVIOUS
<1>1. ASSUME NEW f \in Files, Index!Write(f) \/ Index!Replace(f) \/ Index!Remove(f) PROVE IndexInv' BY <1>1, WriteKeeps, ReplaceKeeps, RemoveKeeps
<1>2. ASSUME NEW d \in Index!Folders, NEW how \in {"up", "empty", "gone"}, Index!Mount(d, how) PROVE IndexInv' BY <1>2, MountKeeps
<1>3. CASE Index!RescanShares \/ Index!TriggerRescanShares \/ Index!StartTracked BY <1>3, RescanKeeps, TriggerKeeps, StartTrackedKeeps
<1>4. CASE Index!InitialLoads \/ Index!LoadAndPublishShareIndex \/ Index!InitialScans BY <1>4, InitialLoadsKeeps, LoadKeeps, InitialScansKeeps
<1>5. CASE Index!BackoffEnds \/ Index!InitialGivesUp BY <1>5, BackoffEndsKeeps, InitialGivesUpKeeps
<1>6. CASE Index!ScanStep
BY <1>6, LoadCacheKeeps, ScanFailsKeeps, VisitKeeps, ReadKeeps, FlushKeeps, PublishKeeps, SaveKeeps DEF Index!ScanStep
<1>7. CASE Index!Start \/ Index!Stop \/ Index!Exit \/ Index!Crash BY <1>7, StartKeeps, StopKeeps, ExitKeeps, CrashKeeps
<1>8. CASE UNCHANGED indexVars
  <2>1. UNCHANGED <<sharing, fs, mount, meta, index, snapshot, failure, alive, folders, initial, slot, scan, unsaved>> BY <1>8 DEF indexVars
  <2>2. DiskStays BY <2>1 DEF DiskStays, IndexInv, BoundTypes
  <2>3. LifeTypes' /\ SlotIsHeld' /\ IndexIsOurs' /\ Index!NoForeignFolder' /\ SavedIsThere' /\ Index!SharedOrTold' /\ NewestIsStored'
    BY <2>1 DEF IndexInv, LifeTypes, SlotIsHeld, IndexIsOurs, Index!NoForeignFolder, SavedIsThere, Index!SharedOrTold, Index!Told, NewestIsStored
  <2>. QED BY <2>1, <2>2, <2>3, DiskKeeps, ScanStays DEF IndexInv
<1>. QED BY <1>1, <1>2, <1>3, <1>4, <1>5, <1>6, <1>7, <1>8 DEF Index!Next
LEMMA IndexBegins == Index!Init /\ SharesAssumption => IndexInv
<1>. SUFFICES ASSUME Index!Init PROVE IndexInv OBVIOUS
<1>1. sharing \in ShareScopes /\ fs = [f \in Files |-> [ino |-> 1, ver |-> 1]] /\ mount = [d \in Index!Folders |-> "up"]
      /\ meta = Index!Nothing /\ index = Index!Empty /\ snapshot = Index!Empty
      /\ failure = FALSE /\ unsaved = FALSE /\ alive = "down" /\ folders = {}
      /\ initial = "over" /\ slot = None /\ scan = Index!NoScan
BY DEF Index!Init
<1>2. BoundTypes BY <1>1, SharesAssumption DEF BoundTypes
<1>3. TreeTypes
  <2>1. [ino |-> 1, ver |-> 1] \in FileIds BY DEF FileIds
  <2>2. \A f \in Files : fs[f].ino = 1 /\ fs[f].ver = 1 BY <1>1
  <2>3. 1 <= Index!Now BY <1>2 DEF BoundTypes, Index!Now
  <2>4. fs \in [Files -> FileIds] BY <1>1, <2>1
  <2>5. mount \in [Index!Folders -> {"up", "empty", "gone"}] BY <1>1
  <2>. QED BY <2>2, <2>3, <2>4, <2>5 DEF TreeTypes
<1>4. IsSnapshot(Index!Empty)
  <2>1. Index!Empty = [folders |-> {}, files |-> Index!Nothing, seq |-> 0] BY DEF Index!Empty
  <2>2. Index!Empty.folders = {} /\ Index!Empty.files = Index!Nothing /\ Index!Empty.seq = 0 BY <2>1
  <2>3. 0 <= sharing.seq BY <1>2 DEF BoundTypes
  <2>. QED BY <2>1, <2>2, <2>3, NothingIs DEF IsSnapshot
<1>5. StoreTypes BY <1>1, <1>4, NothingIs DEF StoreTypes
<1>6. scan.at = "idle" BY <1>1, NoScanIs
<1>7. LifeTypes /\ SlotIsHeld BY <1>1, <1>6 DEF LifeTypes, SlotIsHeld
<1>8. MetaIsPast BY <1>1, NothingIs DEF MetaIsPast, RowIs
<1>9. ScanInv
  <2>1. \A f \in Files : scan.cached[f] = Index!Unknown /\ scan.found[f] = Index!Unknown BY <1>1, NoScanIs, NothingIs
  <2>2. CachedIsPast /\ FoundIsPast BY <2>1, SharesAssumption DEF CachedIsPast, FoundIsPast, RowIs
  <2>3. scan \in Scans /\ scan.todo = {} /\ scan.file = None /\ scan.cached = Index!Nothing /\ scan.found = Index!Nothing BY <1>1, NoScanIs
  <2>4. ScanTypes /\ SeenIsPast /\ ScanBegins /\ ScanIsOver /\ TodoIsOurs /\ FoundIsOurs
    BY <1>6, <2>1, <2>3 DEF ScanTypes, SeenIsPast, ScanBegins, ScanIsOver, TodoIsOurs, FoundIsOurs
  <2>5. QuietIsRight BY <1>6 DEF QuietIsRight, Walking
  <2>. QED BY <2>2, <2>4, <2>5 DEF ScanInv
<1>10. IndexIsOurs BY <1>1, NothingIs DEF IndexIsOurs
<1>11. Index!NoForeignFolder /\ Index!SharedOrTold /\ NewestIsStored BY <1>1 DEF Index!NoForeignFolder, Index!SharedOrTold, NewestIsStored
<1>12. SavedIsThere BY <1>6 DEF SavedIsThere
<1>. QED BY <1>2, <1>3, <1>5, <1>7, <1>8, <1>9, <1>10, <1>11, <1>12 DEF IndexInv
LEMMA IndexSays == IndexInv => Index!SharesAreSound
<1>. SUFFICES ASSUME IndexInv PROVE Index!SharesAreSound OBVIOUS
<1>1. Index!TypeOK BY DEF IndexInv, LifeTypes, SlotIsHeld, StoreTypes, IsSnapshot, Index!TypeOK
<1>2. Index!QuietScanIsRight
  <2>1. SUFFICES ASSUME scan.at \in {"build", "save"}, scan.quiet, NEW f \in Files PROVE scan.found[f] \in Index!Right(f)
    BY DEF Index!QuietScanIsRight
  <2>2. scan.todo = {} /\ scan.file = None BY <2>1 DEF IndexInv, ScanInv, ScanIsOver
  <2>. QED BY <2>1, <2>2, SharesAssumption DEF IndexInv, ScanInv, QuietIsRight, Walking
<1>. QED BY <1>1, <1>2 DEF IndexInv, Index!SharesAreSound
\* A step publishes something newer, unless storing had failed.
LEMMA NewerStep ==
  IndexInv /\ [Index!Next]_indexVars => [alive # "down" /\ alive' # "down" => snapshot'.seq >= snapshot.seq \/ unsaved]_indexVars
<1>. SUFFICES ASSUME IndexInv, Index!Next, alive # "down", alive' # "down", ~unsaved PROVE snapshot'.seq >= snapshot.seq
BY DEF indexVars
<1>1. snapshot.seq \in Nat /\ sharing.seq \in Nat /\ snapshot.seq <= sharing.seq /\ index.seq \in Nat
BY DEF IndexInv, StoreTypes, IsSnapshot, BoundTypes
<1>2. CASE snapshot' = snapshot BY <1>1, <1>2
<1>3. CASE Index!LoadAndPublishShareIndex
  <2>1. snapshot' = snapshot \/ snapshot' = index BY <1>3, LoadIs
  <2>2. index.seq >= snapshot.seq BY <1>3, LoadIs DEF IndexInv, NewestIsStored
  <2>. QED BY <1>1, <2>1, <2>2
<1>4. CASE Index!Publish
  <2>1. snapshot' = snapshot \/ snapshot' = [folders |-> folders, files |-> scan.found, seq |-> sharing.seq + 1] BY <1>4 DEF Index!Publish
  <2>2. snapshot' = snapshot \/ snapshot'.seq = sharing.seq + 1 BY <2>1
  <2>. QED BY <1>1, <2>2
<1>5. snapshot' = snapshot \/ Index!LoadAndPublishShareIndex \/ Index!Publish
  <2>1. CASE \E f \in Files : Index!Write(f) \/ Index!Replace(f) \/ Index!Remove(f)
    BY <2>1 DEF Index!Write, Index!Replace, Index!Remove, Index!Change
  <2>2. CASE \E d \in Index!Folders, how \in {"up", "empty", "gone"} : Index!Mount(d, how) BY <2>2 DEF Index!Mount
  <2>3. CASE Index!RescanShares \/ Index!TriggerRescanShares \/ Index!StartTracked
    BY <2>3 DEF Index!RescanShares, Index!TriggerRescanShares, Index!StartTracked, Index!MemoryUnchanged
  <2>4. CASE Index!InitialLoads \/ Index!InitialScans \/ Index!BackoffEnds \/ Index!InitialGivesUp
    BY <2>4 DEF Index!InitialLoads, Index!InitialScans, Index!BackoffEnds, Index!InitialGivesUp, Index!MemoryUnchanged
  <2>5. CASE Index!LoadShareMetaCache \/ Index!ScanFails \/ Index!VisitFile
    BY <2>5 DEF Index!LoadShareMetaCache, Index!ScanFails, Index!VisitFile, Index!MemoryUnchanged
  <2>6. CASE Index!ReadFile \/ Index!FlushShareMetaCache \/ Index!SaveShareIndex
    BY <2>6 DEF Index!ReadFile, Index!FlushShareMetaCache, Index!SaveShareIndex, Index!MemoryUnchanged
  <2>7. CASE Index!Stop \/ Index!Exit \/ Index!Crash BY <2>7 DEF Index!Stop, Index!Exit, Index!Crash, Index!MemoryUnchanged
  <2>8. ~Index!Start BY DEF Index!Start
  <2>. QED BY <2>1, <2>2, <2>3, <2>4, <2>5, <2>6, <2>7, <2>8 DEF Index!Next, Index!ScanStep
<1>. QED BY <1>2, <1>3, <1>4, <1>5
LEMMA IndexMoves == [SharingNext]_<<part, vars, shareVars>> => [Index!Next]_indexVars
BY DEF SharingNext, shareVars, indexVars

\* Whatever changes on the disk, is unmounted, fails, crashes or is reconfigured while scans run: a scan that nothing disturbed has
\* found exactly the files there are with their attributes, what is shared is of the folders configured now, and once the initial
\* scan is over there is something shared or a failure to show (scanShares, loadShareMetaCache, flushShareMetaCache,
\* loadAndPublishShareIndex, scanAndPublishLocked).
THEOREM SharesHold == SharingSpec => []SharesAreSound
<1>1. SharingInit => IndexInv BY IndexBegins, SharesAssumption DEF SharingInit
<1>2. IndexInv /\ [SharingNext]_<<part, vars, shareVars>> => IndexInv' BY IndexStep, IndexMoves
<1>3. IndexInv => SharesAreSound BY IndexSays DEF SharesAreSound
<1>. QED BY <1>1, <1>2, <1>3, PTL DEF SharingSpec

\* A newer snapshot gives way to an older one only when storing it had failed, though the initial load may come after a rescan
\* (loadAndPublishShareIndex, saveShareIndex).
THEOREM SnapshotsGetNewer == SharingSpec => Index!SharesNeverGoBack
<1>1. SharingInit => IndexInv BY IndexBegins, SharesAssumption DEF SharingInit
<1>2. IndexInv /\ [SharingNext]_<<part, vars, shareVars>> => IndexInv' BY IndexStep, IndexMoves
<1>3. IndexInv /\ [SharingNext]_<<part, vars, shareVars>> =>
        [alive # "down" /\ alive' # "down" => snapshot'.seq >= snapshot.seq \/ unsaved]_Index!shareVars
BY NewerStep, IndexMoves DEF indexVars, Index!shareVars
<1>. QED BY <1>1, <1>2, <1>3, PTL DEF SharingSpec, Index!SharesNeverGoBack

(***************************************************************************)
(* Uploads: the inductive invariant                                        *)
(***************************************************************************)
Results == {"none", "rejected", "aborted", "completed"}
UploadJobs ==
  [key : Keys, active : BOOLEAN, at : Running \cup {"waiting", "over"}, reply : {"none", "read", "allowed", "declined"},
   sent : 0 .. MaxSize, start : 0 .. MaxSize, written : 0 .. MaxSize, low : -1 .. StrikeLimit, fresh : BOOLEAN,
   slow : BOOLEAN, row : [status : Results, bytes : Nat]]

UploadTypes ==
  /\ life \in {"down", "up", "cancelled", "stopping"} /\ runs \in 0 .. MaxRuns /\ scans \in 0 .. MaxScans
  /\ dispatcher \in {"off", "asleep", "scanning", "leaving"} /\ wake \in BOOLEAN
  /\ shared \subseteq Names
  /\ jobs \in Seq(UploadJobs) /\ Len(jobs) <= MaxJobs /\ byToken \subseteq Made
  /\ waiting \in Seq(Nat) /\ byKey \in [Keys -> Nat] /\ active \in Nat /\ perUser \in [Users -> Nat]

\* What a goroutine has sent, at each of its places, and what it has recorded of it.
Told(b) ==
  /\ b.start + b.written = b.sent
  /\ b.at = "body" => b.sent < MaxSize
  /\ b.at = "flush" => b.sent = MaxSize
  /\ b.at \notin {"body", "flush", "record", "return"} => b.sent = 0
  /\ b.at \notin {"record", "return"} => b.row = NoRecord
  /\ b.row.status # "none" => b.row.bytes = b.written
  /\ b.row.status = "completed" => b.sent = MaxSize
  /\ b.row.status = "rejected" => b.written = 0
RowsTold == \A j \in Made : Told(jobs[j])

\* A job in the queue waits and is the one its key stands for; an active one runs and is; a key stands for no other.
WaitersWait ==
  \A i \in 1 .. Len(waiting) :
    waiting[i] \in Made /\ jobs[waiting[i]].at = "waiting" /\ ~jobs[waiting[i]].active
    /\ byKey[jobs[waiting[i]].key] = waiting[i]
WaitersOnce == \A i, l \in 1 .. Len(waiting) : waiting[i] = waiting[l] => i = l
ActiveRun == \A j \in Made : jobs[j].active => jobs[j].at \in Running /\ byKey[jobs[j].key] = j
KeysStand ==
  \A k \in Keys : byKey[k] # 0 =>
    /\ byKey[k] \in Made /\ jobs[byKey[k]].key = k
    /\ jobs[byKey[k]].active \/ \E i \in 1 .. Len(waiting) : waiting[i] = byKey[k]
QueueAgrees == WaitersWait /\ WaitersOnce /\ ActiveRun /\ KeysStand

\* The sets that are counted.
RunningIn(b) == {j \in DOMAIN b : b[j].at \in Running}
ActiveIn(b) == {j \in DOMAIN b : b[j].active}
PendingOf(b, u) == {k \in Keys : k[1] = u /\ b[k] # 0}

\* While the dispatcher runs, what runs is active; a client that is down has no goroutines.
SlotsCounted ==
  /\ active = Cardinality(ActiveIn(jobs)) /\ active <= Slots
  /\ Cardinality(RunningIn(jobs)) <= Slots
  /\ dispatcher # "off" => \A j \in Made : jobs[j].at \in Running => jobs[j].active
  /\ life = "down" => dispatcher = "off" /\ \A j \in Made : jobs[j].at \notin Running

UsersCounted ==
  \A u \in Users : IsFiniteSet(PendingOf(byKey, u)) /\ perUser[u] = Cardinality(PendingOf(byKey, u)) /\ perUser[u] <= MaxPerUser

UploadInv == UploadTypes /\ RowsTold /\ QueueAgrees /\ SlotsCounted /\ UsersCounted

(***************************************************************************)
(* What the steps are made of                                              *)
(***************************************************************************)
\* Jobs are finitely many.
LEMMA MadeCounts ==
  ASSUME UploadTypes, NEW S \in SUBSET Made
  PROVE /\ IsFiniteSet(S) /\ Cardinality(S) \in Nat
        /\ \A j \in S : Cardinality(S \ {j}) = Cardinality(S) - 1
        /\ \A j : j \notin S => Cardinality(S \cup {j}) = Cardinality(S) + 1
<1>1. Len(jobs) \in Nat BY LenProperties DEF UploadTypes
<1>2. IsFiniteSet(Made) BY <1>1, FS_Interval DEF Made
<1>3. IsFiniteSet(S) BY <1>2, FS_Subset
<1>. QED BY <1>3, FS_CardinalityType, FS_AddElement, FS_RemoveElement

LEMMA JobsMade ==
  ASSUME UploadTypes
  PROVE DOMAIN jobs = Made /\ Made = 1 .. Len(jobs) /\ Len(jobs) \in Nat /\ \A j \in Made : jobs[j] \in UploadJobs
BY LenProperties, ElementOfSeq DEF UploadTypes, Made

\* One job becomes b.
LEMMA JobBecomes ==
  ASSUME UploadTypes, NEW j \in Made, NEW b \in UploadJobs, jobs' = [jobs EXCEPT ![j] = b]
  PROVE /\ jobs' \in Seq(UploadJobs) /\ Len(jobs') = Len(jobs) /\ Made' = Made /\ DOMAIN jobs' = Made
        /\ jobs'[j] = b /\ \A l \in Made : l # j => jobs'[l] = jobs[l]
<1>1. jobs \in Seq(UploadJobs) /\ j \in 1 .. Len(jobs) BY DEF UploadTypes, Made
<1>2. /\ jobs' \in Seq(UploadJobs) /\ Len(jobs') = Len(jobs)
      /\ \A l \in 1 .. Len(jobs) : jobs'[l] = IF l = j THEN b ELSE jobs[l]
BY <1>1, ExceptSeq
<1>3. DOMAIN jobs' = 1 .. Len(jobs') BY <1>2, LenProperties
<1>. QED BY <1>1, <1>2, <1>3 DEF Made

\* A goroutine goes on, or is answered.
Progress(j, b) ==
  /\ b \in UploadJobs /\ jobs' = [jobs EXCEPT ![j] = b] /\ Told(b)
  /\ b.key = jobs[j].key /\ b.active = jobs[j].active
  /\ (b.at \in Running <=> jobs[j].at \in Running) /\ (b.at = "waiting" <=> jobs[j].at = "waiting")
  /\ byToken' \subseteq Made
  /\ life' = life /\ runs' = runs /\ scans' = scans /\ dispatcher' = dispatcher /\ wake' = wake /\ shared' = shared
  /\ waiting' = waiting /\ byKey' = byKey /\ active' = active /\ perUser' = perUser

LEMMA ProgressKeeps == ASSUME UploadInv, NEW j \in Made, NEW b, Progress(j, b) PROVE UploadInv'
<1>0. UploadTypes /\ RowsTold /\ QueueAgrees /\ SlotsCounted /\ UsersCounted BY DEF UploadInv
<1>1. b \in UploadJobs /\ jobs' = [jobs EXCEPT ![j] = b] BY DEF Progress
<1>2. /\ jobs' \in Seq(UploadJobs) /\ Len(jobs') = Len(jobs) /\ Made' = Made /\ DOMAIN jobs' = Made
      /\ jobs'[j] = b /\ \A l \in Made : l # j => jobs'[l] = jobs[l]
BY <1>0, <1>1, JobBecomes
<1>3. UploadTypes' BY <1>0, <1>2 DEF UploadTypes, Progress
<1>4. RowsTold' BY <1>0, <1>2 DEF RowsTold, Progress
<1>5. \A l \in Made : jobs'[l].key = jobs[l].key /\ jobs'[l].active = jobs[l].active
        /\ (jobs'[l].at \in Running <=> jobs[l].at \in Running) /\ (jobs'[l].at = "waiting" <=> jobs[l].at = "waiting")
BY <1>2 DEF Progress
<1>6. waiting' = waiting /\ byKey' = byKey /\ active' = active /\ perUser' = perUser /\ life' = life /\ dispatcher' = dispatcher
BY DEF Progress
<1>7. QueueAgrees'
  <2>0. WaitersWait /\ WaitersOnce /\ ActiveRun /\ KeysStand BY <1>0 DEF QueueAgrees
  <2>1. WaitersWait' BY <1>2, <1>5, <1>6, <2>0 DEF WaitersWait
  <2>2. WaitersOnce' BY <1>6, <2>0 DEF WaitersOnce
  <2>3. ActiveRun' BY <1>2, <1>5, <1>6, <2>0 DEF ActiveRun
  <2>4. KeysStand' BY <1>2, <1>5, <1>6, <2>0 DEF KeysStand
  <2>. QED BY <2>1, <2>2, <2>3, <2>4 DEF QueueAgrees
<1>8. SlotsCounted'
  <2>1. RunningIn(jobs') = RunningIn(jobs) /\ ActiveIn(jobs') = ActiveIn(jobs)
    BY <1>0, <1>2, <1>5, JobsMade DEF RunningIn, ActiveIn
  <2>. QED BY <1>0, <1>2, <1>5, <1>6, <2>1 DEF SlotsCounted
<1>9. UsersCounted' BY <1>0, <1>6 DEF UsersCounted
<1>. QED BY <1>3, <1>4, <1>7, <1>8, <1>9 DEF UploadInv

\* How an upload ends.
LEMMA Ending ==
  ASSUME UploadInv, NEW j \in Made, NEW status \in {"rejected", "aborted", "completed"}, Ends(j, status),
         jobs[j].at \in Running, status = "rejected" => jobs[j].written = 0,
         status = "completed" => jobs[j].sent = MaxSize,
         byToken' \subseteq Made,
         life' = life, runs' = runs, scans' = scans, dispatcher' = dispatcher, wake' = wake, shared' = shared,
         waiting' = waiting, byKey' = byKey, active' = active, perUser' = perUser
  PROVE UploadInv'
<1>0. UploadTypes /\ jobs[j] \in UploadJobs /\ Told(jobs[j]) BY JobsMade DEF UploadInv, RowsTold
<1>1. MaxSize \in Nat /\ StrikeLimit \in Nat BY UploadsAssumption
<1>2. PICK r : r = [status |-> status, bytes |-> IF status = "rejected" THEN 0 ELSE BytesSent(j)] OBVIOUS
<1>3. BytesSent(j) = jobs[j].written /\ jobs[j].written \in Nat /\ jobs[j].sent \in 0 .. MaxSize
BY <1>0, <1>1 DEF BytesSent, UploadJobs, Told
<1>4. r.status = status /\ r.bytes = jobs[j].written /\ r \in [status : Results, bytes : Nat] BY <1>2, <1>3 DEF Results
<1>5. PICK b : b = [jobs[j] EXCEPT !.at = "record", !.reply = "read", !.low = -1, !.fresh = FALSE, !.slow = FALSE, !.row = r]
OBVIOUS
<1>6. jobs' = [jobs EXCEPT ![j] = b] BY <1>2, <1>5 DEF Ends
<1>7. /\ b.key = jobs[j].key /\ b.active = jobs[j].active /\ b.at = "record" /\ b.reply = "read" /\ b.sent = jobs[j].sent
      /\ b.start = jobs[j].start /\ b.written = jobs[j].written /\ b.low = -1 /\ b.row = r
      /\ b \in UploadJobs
  <2>1. "record" \in Running \cup {"waiting", "over"} /\ -1 \in -1 .. StrikeLimit BY <1>1 DEF Running
  <2>. QED BY <1>0, <1>4, <1>5, <2>1 DEF UploadJobs
<1>8. Told(b) BY <1>0, <1>4, <1>7 DEF Told
<1>9. Progress(j, b) BY <1>6, <1>7, <1>8 DEF Progress, Running
<1>. QED BY <1>9, ProgressKeeps

LEMMA Unchanged ==
  ASSUME UploadUnchanged
  PROVE life' = life /\ runs' = runs /\ scans' = scans /\ dispatcher' = dispatcher /\ wake' = wake /\ shared' = shared
        /\ waiting' = waiting /\ byKey' = byKey /\ active' = active /\ perUser' = perUser
BY DEF UploadUnchanged, queue

\* The steps of an upload's goroutine up to its row, and those of its sampler and of its socket.
LEMMA Opening == ASSUME UploadInv, NEW j \in Made, Open(j) PROVE UploadInv'
<1>0. UploadTypes /\ jobs[j] \in UploadJobs /\ Told(jobs[j]) /\ byToken \subseteq Made
BY JobsMade DEF UploadInv, RowsTold, UploadTypes
<1>1. jobs[j].at = "open" /\ UploadUnchanged /\ byToken' = byToken /\ "open" \in Running BY DEF Open, Running
<1>2. jobs[j].written = 0 BY <1>0, <1>1, UploadsAssumption DEF Told, UploadJobs
<1>3. CASE Ends(j, "rejected") BY <1>0, <1>1, <1>2, <1>3, Ending, Unchanged
<1>4. CASE jobs' = [jobs EXCEPT ![j].at = "connect"]
  <2>1. PICK b : b = [jobs[j] EXCEPT !.at = "connect"] OBVIOUS
  <2>2. jobs' = [jobs EXCEPT ![j] = b] BY <1>4, <2>1
  <2>3. "connect" \in Running BY DEF Running
  <2>4. b \in UploadJobs /\ b.at = "connect" BY <1>0, <2>1, <2>3 DEF UploadJobs
  <2>5. Told(b) /\ b.key = jobs[j].key /\ b.active = jobs[j].active BY <1>0, <1>1, <2>1 DEF Told, UploadJobs
  <2>6. Progress(j, b) BY <1>0, <1>1, <2>2, <2>3, <2>4, <2>5, Unchanged DEF Progress
  <2>. QED BY <2>6, ProgressKeeps
<1>. QED BY <1>3, <1>4 DEF Open

LEMMA Connecting == ASSUME UploadInv, NEW j \in Made, Connect(j) PROVE UploadInv'
<1>0. UploadTypes /\ jobs[j] \in UploadJobs /\ Told(jobs[j]) /\ byToken \subseteq Made
BY JobsMade DEF UploadInv, RowsTold, UploadTypes
<1>1. jobs[j].at = "connect" /\ UploadUnchanged /\ "connect" \in Running BY DEF Connect, Running
<1>2. jobs[j].written = 0 BY <1>0, <1>1, UploadsAssumption DEF Told, UploadJobs
<1>3. byToken' \subseteq Made BY <1>0 DEF Connect, RegisterToken
<1>4. CASE Ends(j, "rejected") BY <1>0, <1>1, <1>2, <1>3, <1>4, Ending, Unchanged
<1>5. CASE jobs' = [jobs EXCEPT ![j].at = "negotiate"]
  <2>1. PICK b : b = [jobs[j] EXCEPT !.at = "negotiate"] OBVIOUS
  <2>2. jobs' = [jobs EXCEPT ![j] = b] BY <1>5, <2>1
  <2>3. "negotiate" \in Running BY DEF Running
  <2>4. b \in UploadJobs /\ b.at = "negotiate" BY <1>0, <2>1, <2>3 DEF UploadJobs
  <2>5. Told(b) /\ b.key = jobs[j].key /\ b.active = jobs[j].active BY <1>0, <1>1, <2>1 DEF Told, UploadJobs
  <2>6. Progress(j, b) BY <1>0, <1>1, <1>3, <2>2, <2>3, <2>4, <2>5, Unchanged DEF Progress
  <2>. QED BY <2>6, ProgressKeeps
<1>. QED BY <1>4, <1>5 DEF Connect

LEMMA Negotiating == ASSUME UploadInv, NEW j \in Made, Negotiate(j) PROVE UploadInv'
<1>0. UploadTypes /\ jobs[j] \in UploadJobs /\ Told(jobs[j]) /\ byToken \subseteq Made
BY JobsMade DEF UploadInv, RowsTold, UploadTypes
<1>1. jobs[j].at = "negotiate" /\ UploadUnchanged /\ byToken' = byToken /\ "negotiate" \in Running BY DEF Negotiate, Running
<1>2. jobs[j].written = 0 BY <1>0, <1>1, UploadsAssumption DEF Told, UploadJobs
<1>3. CASE Ends(j, "rejected") BY <1>0, <1>1, <1>2, <1>3, Ending, Unchanged
<1>4. CASE jobs' = [jobs EXCEPT ![j] = [@ EXCEPT !.at = "dial", !.reply = "read"]]
  <2>1. PICK b : b = [jobs[j] EXCEPT !.at = "dial", !.reply = "read"] OBVIOUS
  <2>2. jobs' = [jobs EXCEPT ![j] = b] BY <1>4, <2>1
  <2>3. "dial" \in Running BY DEF Running
  <2>4. b \in UploadJobs /\ b.at = "dial" BY <1>0, <2>1, <2>3 DEF UploadJobs
  <2>5. Told(b) /\ b.key = jobs[j].key /\ b.active = jobs[j].active BY <1>0, <1>1, <2>1 DEF Told, UploadJobs
  <2>6. Progress(j, b) BY <1>0, <1>1, <2>2, <2>3, <2>4, <2>5, Unchanged DEF Progress
  <2>. QED BY <2>6, ProgressKeeps
<1>. QED BY <1>3, <1>4 DEF Negotiate

LEMMA Dialling == ASSUME UploadInv, NEW j \in Made, DialFile(j) PROVE UploadInv'
<1>0. UploadTypes /\ jobs[j] \in UploadJobs /\ Told(jobs[j]) /\ byToken \subseteq Made
BY JobsMade DEF UploadInv, RowsTold, UploadTypes
<1>1. jobs[j].at = "dial" /\ UploadUnchanged /\ byToken' = byToken /\ "dial" \in Running BY DEF DialFile, Running
<1>2. CASE Ends(j, "aborted") BY <1>0, <1>1, <1>2, Ending, Unchanged
<1>3. CASE jobs' = [jobs EXCEPT ![j].at = "offset"]
  <2>1. PICK b : b = [jobs[j] EXCEPT !.at = "offset"] OBVIOUS
  <2>2. jobs' = [jobs EXCEPT ![j] = b] BY <1>3, <2>1
  <2>3. "offset" \in Running BY DEF Running
  <2>4. b \in UploadJobs /\ b.at = "offset" BY <1>0, <2>1, <2>3 DEF UploadJobs
  <2>5. Told(b) /\ b.key = jobs[j].key /\ b.active = jobs[j].active BY <1>0, <1>1, <2>1 DEF Told, UploadJobs
  <2>6. Progress(j, b) BY <1>0, <1>1, <2>2, <2>3, <2>4, <2>5, Unchanged DEF Progress
  <2>. QED BY <2>6, ProgressKeeps
<1>. QED BY <1>2, <1>3 DEF DialFile

LEMMA Resuming == ASSUME UploadInv, NEW j \in Made, ReadOffset(j) PROVE UploadInv'
<1>0. UploadTypes /\ jobs[j] \in UploadJobs /\ Told(jobs[j]) /\ byToken \subseteq Made
BY JobsMade DEF UploadInv, RowsTold, UploadTypes
<1>1. jobs[j].at = "offset" /\ UploadUnchanged /\ byToken' = byToken /\ "offset" \in Running BY DEF ReadOffset, Running
<1>2. CASE Ends(j, "aborted") BY <1>0, <1>1, <1>2, Ending, Unchanged
<1>3. ASSUME NEW offset \in 0 .. MaxSize,
             jobs' = [jobs EXCEPT ![j] = [@ EXCEPT !.sent = offset, !.start = offset,
                                                  !.at = IF offset < MaxSize THEN "body" ELSE "flush"]]
      PROVE UploadInv'
  <2>0. MaxSize \in Nat BY UploadsAssumption
  <2>1. PICK to : to = IF offset < MaxSize THEN "body" ELSE "flush" OBVIOUS
  <2>2. PICK b : b = [jobs[j] EXCEPT !.sent = offset, !.start = offset, !.at = to] OBVIOUS
  <2>3. jobs' = [jobs EXCEPT ![j] = b] BY <1>3, <2>1, <2>2
  <2>4. to \in Running /\ to # "waiting" BY <2>1 DEF Running
  <2>5. b \in UploadJobs /\ b.at = to /\ b.sent = offset /\ b.start = offset /\ b.written = jobs[j].written
        /\ b.row = jobs[j].row /\ b.key = jobs[j].key /\ b.active = jobs[j].active
    BY <1>0, <2>0, <2>2, <2>4 DEF UploadJobs
  <2>6. jobs[j].written = 0 /\ jobs[j].row = NoRecord BY <1>0, <1>1, <2>0 DEF Told, UploadJobs
  <2>7. Told(b) BY <2>0, <2>1, <2>5, <2>6 DEF Told, NoRecord
  <2>8. Progress(j, b) BY <1>0, <1>1, <2>3, <2>4, <2>5, <2>7, Unchanged DEF Progress
  <2>. QED BY <2>8, ProgressKeeps
<1>. QED BY <1>2, <1>3 DEF ReadOffset

LEMMA Writing == ASSUME UploadInv, NEW j \in Made, WriteBlock(j) PROVE UploadInv'
<1>0. UploadTypes /\ jobs[j] \in UploadJobs /\ Told(jobs[j]) /\ byToken \subseteq Made
BY JobsMade DEF UploadInv, RowsTold, UploadTypes
<1>1. jobs[j].at = "body" /\ UploadUnchanged /\ byToken' = byToken /\ "body" \in Running BY DEF WriteBlock, Running
<1>2. MaxSize \in Nat BY UploadsAssumption
<1>3. PICK to : to = IF jobs[j].sent + 1 = MaxSize THEN "flush" ELSE "body" OBVIOUS
<1>4. PICK b : b = [jobs[j] EXCEPT !.sent = jobs[j].sent + 1, !.written = jobs[j].written + 1, !.fresh = TRUE, !.at = to]
OBVIOUS
<1>5. jobs' = [jobs EXCEPT ![j] = b] BY <1>3, <1>4 DEF WriteBlock
<1>6. to \in Running /\ to # "waiting" BY <1>3 DEF Running
<1>7. jobs[j].sent \in 0 .. MaxSize /\ jobs[j].start \in 0 .. MaxSize /\ jobs[j].written \in 0 .. MaxSize
      /\ jobs[j].start + jobs[j].written = jobs[j].sent /\ jobs[j].sent < MaxSize /\ jobs[j].row = NoRecord
BY <1>0, <1>1 DEF Told, UploadJobs
<1>8. jobs[j].sent + 1 \in 0 .. MaxSize /\ jobs[j].written + 1 \in 0 .. MaxSize BY <1>2, <1>7
<1>9. b \in UploadJobs /\ b.at = to /\ b.sent = jobs[j].sent + 1 /\ b.start = jobs[j].start
      /\ b.written = jobs[j].written + 1 /\ b.row = jobs[j].row /\ b.key = jobs[j].key /\ b.active = jobs[j].active
BY <1>0, <1>4, <1>6, <1>8 DEF UploadJobs
<1>10. Told(b) BY <1>2, <1>3, <1>7, <1>9 DEF Told, NoRecord
<1>11. Progress(j, b) BY <1>0, <1>1, <1>5, <1>6, <1>9, <1>10, Unchanged DEF Progress
<1>. QED BY <1>11, ProgressKeeps

LEMMA Sampling == ASSUME UploadInv, NEW j \in Made, SampleWindow(j) \/ SamplerCloses(j) PROVE UploadInv'
<1>0. UploadTypes /\ jobs[j] \in UploadJobs /\ Told(jobs[j]) /\ byToken \subseteq Made
BY JobsMade DEF UploadInv, RowsTold, UploadTypes
<1>1. UploadUnchanged /\ byToken' = byToken BY DEF SampleWindow, SamplerCloses
<1>2. CASE SampleWindow(j)
  <2>1. PICK low : low = IF jobs[j].low = -1 \/ jobs[j].fresh THEN 0 ELSE jobs[j].low + 1 OBVIOUS
  <2>2. low \in -1 .. StrikeLimit
    <3>1. jobs[j].low \in -1 .. StrikeLimit BY <1>0 DEF UploadJobs
    <3>. QED BY <1>2, <2>1, <3>1, UploadsAssumption DEF SampleWindow
  <2>3. PICK b : b = [jobs[j] EXCEPT !.low = low, !.fresh = FALSE] OBVIOUS
  <2>4. jobs' = [jobs EXCEPT ![j] = b] BY <1>2, <2>1, <2>3 DEF SampleWindow
  <2>5. b \in UploadJobs BY <1>0, <2>2, <2>3 DEF UploadJobs
  <2>6. Told(b) /\ b.key = jobs[j].key /\ b.active = jobs[j].active /\ b.at = jobs[j].at BY <1>0, <2>3 DEF Told, UploadJobs
  <2>7. Progress(j, b) BY <1>0, <1>1, <2>4, <2>5, <2>6, Unchanged DEF Progress
  <2>. QED BY <2>7, ProgressKeeps
<1>3. CASE SamplerCloses(j)
  <2>1. PICK b : b = [jobs[j] EXCEPT !.slow = TRUE] OBVIOUS
  <2>2. jobs' = [jobs EXCEPT ![j] = b] BY <1>3, <2>1 DEF SamplerCloses
  <2>3. b \in UploadJobs BY <1>0, <2>1 DEF UploadJobs
  <2>4. Told(b) /\ b.key = jobs[j].key /\ b.active = jobs[j].active /\ b.at = jobs[j].at BY <1>0, <2>1 DEF Told, UploadJobs
  <2>5. Progress(j, b) BY <1>0, <1>1, <2>2, <2>3, <2>4, Unchanged DEF Progress
  <2>. QED BY <2>5, ProgressKeeps
<1>. QED BY <1>2, <1>3

LEMMA Streaming == ASSUME UploadInv, NEW j \in Made, StreamFails(j) \/ Delivered(j) PROVE UploadInv'
<1>0. UploadTypes /\ jobs[j] \in UploadJobs /\ Told(jobs[j]) /\ byToken \subseteq Made
BY JobsMade DEF UploadInv, RowsTold, UploadTypes
<1>1. UploadUnchanged /\ byToken' = byToken BY DEF StreamFails, Delivered
<1>2. CASE StreamFails(j)
  <2>1. jobs[j].at \in Running /\ Ends(j, "aborted") BY <1>2 DEF StreamFails, Running
  <2>. QED BY <1>0, <1>1, <2>1, Ending, Unchanged
<1>3. CASE Delivered(j)
  <2>1. jobs[j].at \in Running /\ jobs[j].at = "flush" /\ Ends(j, "completed") BY <1>3 DEF Delivered, Running
  <2>2. jobs[j].sent = MaxSize BY <1>0, <2>1 DEF Told
  <2>. QED BY <1>0, <1>1, <2>1, <2>2, Ending, Unchanged
<1>. QED BY <1>2, <1>3

LEMMA Recording == ASSUME UploadInv, NEW j \in Made, RecordUpload(j) PROVE UploadInv'
<1>0. UploadTypes /\ jobs[j] \in UploadJobs /\ Told(jobs[j]) /\ byToken \subseteq Made
BY JobsMade DEF UploadInv, RowsTold, UploadTypes
<1>1. jobs[j].at = "record" /\ UploadUnchanged /\ byToken' = byToken /\ "record" \in Running BY DEF RecordUpload, Running
<1>2. PICK b : b = [jobs[j] EXCEPT !.at = "return"] OBVIOUS
<1>3. jobs' = [jobs EXCEPT ![j] = b] BY <1>2 DEF RecordUpload
<1>4. "return" \in Running BY DEF Running
<1>5. b \in UploadJobs /\ b.at = "return" BY <1>0, <1>2, <1>4 DEF UploadJobs
<1>6. Told(b) /\ b.key = jobs[j].key /\ b.active = jobs[j].active BY <1>0, <1>1, <1>2, <1>5 DEF Told, UploadJobs
<1>7. Progress(j, b) BY <1>0, <1>1, <1>3, <1>4, <1>5, <1>6, Unchanged DEF Progress
<1>. QED BY <1>7, ProgressKeeps

LEMMA Answering ==
  ASSUME UploadInv, NEW user \in Users, NEW j \in Made, NEW said \in {"allowed", "declined"}, Deliver(user, j, said)
  PROVE UploadInv'
<1>0. UploadTypes /\ jobs[j] \in UploadJobs /\ Told(jobs[j]) /\ byToken \subseteq Made
BY JobsMade DEF UploadInv, RowsTold, UploadTypes
<1>1. UploadUnchanged /\ byToken' = byToken BY DEF Deliver
<1>2. PICK b : b = [jobs[j] EXCEPT !.reply = said] OBVIOUS
<1>3. jobs' = [jobs EXCEPT ![j] = b] BY <1>2 DEF Deliver
<1>4. b \in UploadJobs BY <1>0, <1>2 DEF UploadJobs
<1>5. Told(b) /\ b.key = jobs[j].key /\ b.active = jobs[j].active /\ b.at = jobs[j].at BY <1>0, <1>2 DEF Told, UploadJobs
<1>6. Progress(j, b) BY <1>0, <1>1, <1>3, <1>4, <1>5, Unchanged DEF Progress
<1>. QED BY <1>6, ProgressKeeps

(***************************************************************************)
(* The queue                                                               *)
(***************************************************************************)
\* The entries of a user are counted as keys come and go.
LEMMA KeyEnters ==
  ASSUME UploadTypes, UsersCounted, NEW k \in Keys, byKey[k] = 0, NEW n \in Nat \ {0}, byKey' = [byKey EXCEPT ![k] = n],
         perUser[k[1]] < MaxPerUser, perUser' = [perUser EXCEPT ![k[1]] = perUser[k[1]] + 1]
  PROVE UsersCounted' /\ perUser' \in [Users -> Nat] /\ byKey' \in [Keys -> Nat]
<1>1. k[1] \in Users BY DEF Keys
<1>2. byKey' \in [Keys -> Nat] /\ byKey'[k] = n /\ \A l \in Keys : l # k => byKey'[l] = byKey[l] BY DEF UploadTypes
<1>3. perUser' \in [Users -> Nat] /\ perUser'[k[1]] = perUser[k[1]] + 1
      /\ \A u \in Users : u # k[1] => perUser'[u] = perUser[u] BY <1>1 DEF UploadTypes
<1>4. ASSUME NEW u \in Users
      PROVE IsFiniteSet(PendingOf(byKey', u)) /\ perUser'[u] = Cardinality(PendingOf(byKey', u)) /\ perUser'[u] <= MaxPerUser
  <2>1. IsFiniteSet(PendingOf(byKey, u)) /\ perUser[u] = Cardinality(PendingOf(byKey, u)) /\ perUser[u] <= MaxPerUser
    BY DEF UsersCounted
  <2>2. CASE u = k[1]
    <3>1. PendingOf(byKey', u) = PendingOf(byKey, u) \cup {k} /\ k \notin PendingOf(byKey, u) BY <1>2, <2>2 DEF PendingOf
    <3>2. PICK S : S = PendingOf(byKey, u) OBVIOUS
    <3>3. IsFiniteSet(S \cup {k}) /\ Cardinality(S \cup {k}) = Cardinality(S) + 1 BY <2>1, <3>1, <3>2, FS_AddElement
    <3>4. IsFiniteSet(PendingOf(byKey', u)) /\ Cardinality(PendingOf(byKey', u)) = Cardinality(PendingOf(byKey, u)) + 1
      BY <3>1, <3>2, <3>3
    <3>5. perUser[u] \in Nat /\ perUser[u] + 1 <= MaxPerUser BY <1>1, <2>2, UploadsAssumption DEF UploadTypes
    <3>. QED BY <1>3, <2>1, <2>2, <3>4, <3>5
  <2>3. CASE u # k[1]
    <3>1. PendingOf(byKey', u) = PendingOf(byKey, u) BY <1>2, <2>3 DEF PendingOf
    <3>. QED BY <1>3, <2>1, <2>3, <3>1
  <2>. QED BY <2>2, <2>3
<1>. QED BY <1>2, <1>3, <1>4 DEF UsersCounted

LEMMA KeyLeaves ==
  ASSUME UploadTypes, UsersCounted, NEW k \in Keys, byKey[k] # 0, byKey' = [byKey EXCEPT ![k] = 0],
         perUser' = [perUser EXCEPT ![k[1]] = perUser[k[1]] - 1]
  PROVE UsersCounted' /\ perUser' \in [Users -> Nat] /\ byKey' \in [Keys -> Nat]
<1>1. k[1] \in Users BY DEF Keys
<1>2. byKey' \in [Keys -> Nat] /\ byKey'[k] = 0 /\ \A l \in Keys : l # k => byKey'[l] = byKey[l] BY DEF UploadTypes
<1>3. perUser'[k[1]] = perUser[k[1]] - 1 /\ \A u \in Users : u # k[1] => perUser'[u] = perUser[u] BY <1>1 DEF UploadTypes
<1>4. ASSUME NEW u \in Users
      PROVE /\ IsFiniteSet(PendingOf(byKey', u)) /\ perUser'[u] = Cardinality(PendingOf(byKey', u)) /\ perUser'[u] <= MaxPerUser
            /\ perUser'[u] \in Nat
  <2>1. IsFiniteSet(PendingOf(byKey, u)) /\ perUser[u] = Cardinality(PendingOf(byKey, u)) /\ perUser[u] <= MaxPerUser
        /\ perUser[u] \in Nat
    BY DEF UsersCounted, UploadTypes
  <2>2. CASE u = k[1]
    <3>1. PendingOf(byKey', u) = PendingOf(byKey, u) \ {k} /\ k \in PendingOf(byKey, u) BY <1>2, <2>2 DEF PendingOf
    <3>2. IsFiniteSet(PendingOf(byKey', u)) /\ Cardinality(PendingOf(byKey', u)) = Cardinality(PendingOf(byKey, u)) - 1
      BY ZenonT(60), <2>1, <3>1, FS_RemoveElement
    <3>3. Cardinality(PendingOf(byKey', u)) \in Nat BY <3>2, FS_CardinalityType
    <3>. QED BY <1>3, <2>1, <2>2, <3>2, <3>3, UploadsAssumption
  <2>3. CASE u # k[1]
    <3>1. PendingOf(byKey', u) = PendingOf(byKey, u) BY <1>2, <2>3 DEF PendingOf
    <3>. QED BY <1>3, <2>1, <2>3, <3>1
  <2>. QED BY <2>2, <2>3
<1>5. perUser' \in [Users -> Nat] BY <1>4 DEF UploadTypes
<1>. QED BY <1>2, <1>4, <1>5 DEF UsersCounted

LEMMA Enqueuing == ASSUME UploadInv, NEW key \in Keys, Enqueue(key) PROVE UploadInv'
<1>0. UploadTypes /\ RowsTold /\ WaitersWait /\ WaitersOnce /\ ActiveRun /\ KeysStand /\ SlotsCounted /\ UsersCounted
BY DEF UploadInv, QueueAgrees
<1> DEFINE n == Len(jobs) + 1
           m == Len(waiting) + 1
           b == NewJob(key)
<1>1. /\ life # "down" /\ Len(jobs) < MaxJobs /\ byKey[key] = 0 /\ perUser[key[1]] < MaxPerUser
      /\ jobs' = Append(jobs, b) /\ byKey' = [byKey EXCEPT ![key] = n] /\ waiting' = Append(waiting, n)
      /\ perUser' = [perUser EXCEPT ![key[1]] = perUser[key[1]] + 1] /\ wake' = TRUE
      /\ life' = life /\ runs' = runs /\ scans' = scans /\ dispatcher' = dispatcher /\ shared' = shared /\ active' = active
      /\ byToken' = byToken
  <2>1. perUser[key[1]] \in Nat BY <1>0 DEF UploadTypes, Keys
  <2>. QED BY SMTT(40), <2>1, UploadsAssumption DEF Enqueue, Pending, Full
<1>2. Len(jobs) \in Nat /\ Made = 1 .. Len(jobs) /\ DOMAIN jobs = Made /\ n \in Nat \ {0} /\ n \notin Made
      /\ \A j \in Made : jobs[j] \in UploadJobs
BY <1>0, JobsMade
<1>3. b \in UploadJobs /\ Told(b) /\ b.at = "waiting" /\ b.active = FALSE /\ b.key = key /\ b.at \notin Running
  <2>1. b = [key |-> key, active |-> FALSE, at |-> "waiting", reply |-> "none", sent |-> 0, start |-> 0,
             written |-> 0, low |-> -1, fresh |-> FALSE, slow |-> FALSE, row |-> NoRecord] BY DEF NewJob
  <2>2. 0 \in 0 .. MaxSize /\ -1 \in -1 .. StrikeLimit BY UploadsAssumption
  <2>3. NoRecord \in [status : Results, bytes : Nat] /\ NoRecord.status = "none" BY DEF NoRecord, Results
  <2> HIDE DEF b
  <2>. QED BY <2>1, <2>2, <2>3 DEF UploadJobs, Told, Running
<1> HIDE DEF b
<1>4. /\ jobs' \in Seq(UploadJobs) /\ Len(jobs') = n /\ jobs'[n] = b /\ \A j \in Made : jobs'[j] = jobs[j]
      /\ DOMAIN jobs' = Made \cup {n} /\ Made' = Made \cup {n}
  <2>1. jobs \in Seq(UploadJobs) BY <1>0 DEF UploadTypes
  <2>2. jobs' \in Seq(UploadJobs) /\ Len(jobs') = n /\ jobs'[n] = b /\ \A j \in 1 .. Len(jobs) : jobs'[j] = jobs[j]
    BY <1>1, <1>3, <2>1, AppendProperties
  <2>3. DOMAIN jobs' = 1 .. n BY <2>2, LenProperties
  <2>4. 1 .. n = 1 .. Len(jobs) \cup {n} BY <1>2
  <2>. QED BY <1>2, <2>2, <2>3, <2>4 DEF Made
<1>5. /\ waiting' \in Seq(Nat) /\ Len(waiting') = m /\ waiting'[m] = n /\ Len(waiting) \in Nat
      /\ \A i \in 1 .. Len(waiting) : waiting'[i] = waiting[i]
  <2>1. waiting \in Seq(Nat) /\ Len(waiting) \in Nat BY <1>0, LenProperties DEF UploadTypes
  <2>2. n \in Nat /\ waiting' = Append(waiting, n) BY <1>1, <1>2
  <2> HIDE DEF n
  <2>. QED BY <2>1, <2>2, AppendProperties
<1>6. UsersCounted' /\ perUser' \in [Users -> Nat] /\ byKey' \in [Keys -> Nat] BY <1>0, <1>1, <1>2, KeyEnters
<1>7. byKey'[key] = n /\ \A k \in Keys : k # key => byKey'[k] = byKey[k] BY <1>0, <1>1 DEF UploadTypes
<1>8. UploadTypes'
  <2>1. n <= MaxJobs BY <1>1, <1>2, UploadsAssumption
  <2>. QED BY <1>0, <1>1, <1>4, <1>5, <1>6, <2>1 DEF UploadTypes
<1>9. RowsTold' BY <1>0, <1>3, <1>4 DEF RowsTold
<1>10. \A i \in 1 .. m : i = m \/ i \in 1 .. Len(waiting) BY <1>5
<1>11. \A j \in Made : jobs[j].key \in Keys BY <1>2 DEF UploadJobs
<1>12. WaitersWait'
  <2>1. SUFFICES ASSUME NEW i \in 1 .. m
                 PROVE waiting'[i] \in Made \cup {n} /\ jobs'[waiting'[i]].at = "waiting" /\ ~jobs'[waiting'[i]].active
                       /\ byKey'[jobs'[waiting'[i]].key] = waiting'[i]
    BY <1>4, <1>5, <2>1 DEF WaitersWait
  <2>2. CASE i = m BY <1>3, <1>4, <1>5, <1>7, <2>2
  <2>3. CASE i \in 1 .. Len(waiting)
    <3>1. waiting[i] \in Made /\ jobs[waiting[i]].at = "waiting" /\ ~jobs[waiting[i]].active
          /\ byKey[jobs[waiting[i]].key] = waiting[i] BY <1>0, <2>3 DEF WaitersWait
    <3>2. jobs[waiting[i]].key # key BY <1>1, <1>2, <3>1
    <3>. QED BY <1>4, <1>5, <1>7, <1>11, <2>3, <3>1, <3>2
  <2>. QED BY <1>10, <2>2, <2>3
<1>13. WaitersOnce'
  <2>1. \A i \in 1 .. Len(waiting) : waiting[i] # n BY <1>0, <1>2 DEF WaitersWait
  <2>2. \A i, l \in 1 .. Len(waiting) : waiting[i] = waiting[l] => i = l BY <1>0 DEF WaitersOnce
  <2>. QED BY <1>5, <1>10, <2>1, <2>2 DEF WaitersOnce
<1>14. ActiveRun'
  <2>1. ASSUME NEW j \in Made, jobs[j].active PROVE jobs[j].at \in Running /\ byKey'[jobs[j].key] = j
    <3>1. jobs[j].at \in Running /\ byKey[jobs[j].key] = j BY <1>0, <2>1 DEF ActiveRun
    <3>2. jobs[j].key # key BY <1>1, <1>2, <3>1
    <3>. QED BY <1>7, <1>11, <3>1, <3>2
  <2>. QED BY <1>3, <1>4, <2>1 DEF ActiveRun
<1>15. KeysStand'
  <2>1. SUFFICES ASSUME NEW k \in Keys, byKey'[k] # 0
                 PROVE byKey'[k] \in Made \cup {n} /\ jobs'[byKey'[k]].key = k
                       /\ (jobs'[byKey'[k]].active \/ \E i \in 1 .. m : waiting'[i] = byKey'[k])
    BY <1>4, <1>5, <2>1 DEF KeysStand
  <2>2. m \in 1 .. m BY <1>5
  <2>3. CASE k = key BY <1>3, <1>4, <1>5, <1>7, <2>2, <2>3
  <2>4. CASE k # key
    <3>1. byKey[k] \in Made /\ jobs[byKey[k]].key = k
          /\ (jobs[byKey[k]].active \/ \E i \in 1 .. Len(waiting) : waiting[i] = byKey[k])
      BY <1>0, <1>7, <2>1, <2>4 DEF KeysStand
    <3>2. \A i \in 1 .. Len(waiting) : i \in 1 .. m BY <1>5
    <3>. QED BY <1>4, <1>5, <1>7, <2>4, <3>1, <3>2
  <2>. QED BY <2>3, <2>4
<1>16. SlotsCounted'
  <2>1. RunningIn(jobs') = RunningIn(jobs) /\ ActiveIn(jobs') = ActiveIn(jobs) BY <1>2, <1>3, <1>4 DEF RunningIn, ActiveIn
  <2>2. \A j \in Made \cup {n} : jobs'[j].at \in Running => j \in Made /\ jobs[j].at \in Running /\ jobs'[j].active = jobs[j].active
    BY <1>3, <1>4
  <2>. QED BY <1>0, <1>1, <1>4, <2>1, <2>2 DEF SlotsCounted
<1>. QED BY <1>6, <1>8, <1>9, <1>12, <1>13, <1>14, <1>15, <1>16 DEF UploadInv, QueueAgrees

\* What complete leaves: the job is over, its key stands for nothing any more, and its slot is free.
LEMMA Completes ==
  ASSUME UploadInv, NEW j \in Made, Complete(j)
  PROVE /\ jobs' \in Seq(UploadJobs) /\ Len(jobs') = Len(jobs) /\ Made' = Made
        /\ jobs'[j].at = "over" /\ jobs'[j].active = FALSE /\ jobs'[j].key = jobs[j].key /\ jobs[j].key \in Keys /\ Told(jobs'[j])
        /\ \A l \in Made : l # j => jobs'[l] = jobs[l]
        /\ byKey' \in [Keys -> Nat] /\ perUser' \in [Users -> Nat] /\ UsersCounted' /\ wake' = TRUE
        /\ \A k \in Keys : byKey'[k] = IF byKey[k] = j THEN 0 ELSE byKey[k]
        /\ active' \in Nat /\ active' = Cardinality(ActiveIn(jobs')) /\ active' <= Slots
        /\ Cardinality(RunningIn(jobs')) <= Slots
<1>0. UploadTypes /\ KeysStand /\ SlotsCounted /\ UsersCounted BY DEF UploadInv, QueueAgrees
<1>1. Len(jobs) \in Nat /\ Made = 1 .. Len(jobs) /\ DOMAIN jobs = Made /\ \A l \in Made : jobs[l] \in UploadJobs
BY <1>0, JobsMade
<1> DEFINE b == Over(j)
<1>2. b \in UploadJobs /\ Told(b) /\ b.at = "over" /\ b.active = FALSE /\ b.key = jobs[j].key
  <2>0. jobs[j].key \in Keys BY <1>1 DEF UploadJobs
  <2>1. PICK n : n = NewJob(jobs[j].key) OBVIOUS
  <2>2. 0 \in 0 .. MaxSize /\ -1 \in -1 .. StrikeLimit BY UploadsAssumption
  <2>3. NoRecord \in [status : Results, bytes : Nat] /\ NoRecord.status = "none" BY DEF NoRecord, Results
  <2>4. n = [key |-> jobs[j].key, active |-> FALSE, at |-> "waiting", reply |-> "none", sent |-> 0, start |-> 0,
             written |-> 0, low |-> -1, fresh |-> FALSE, slow |-> FALSE, row |-> NoRecord] BY <2>1 DEF NewJob
  <2>5. n \in UploadJobs /\ n.key = jobs[j].key /\ n.active = FALSE /\ n.start = 0 /\ n.sent = 0 /\ n.written = 0
        /\ n.row.status = "none" /\ n.row = NoRecord
    BY <2>0, <2>2, <2>3, <2>4 DEF UploadJobs
  <2>6. b = [n EXCEPT !.at = "over"] BY <2>1 DEF Over
  <2> HIDE DEF b
  <2>. QED BY <2>5, <2>6 DEF UploadJobs, Told
<1>3. jobs' = [jobs EXCEPT ![j] = b] BY DEF Complete
<1> HIDE DEF b
<1>4. /\ jobs' \in Seq(UploadJobs) /\ Len(jobs') = Len(jobs) /\ Made' = Made /\ DOMAIN jobs' = Made
      /\ jobs'[j] = b /\ \A l \in Made : l # j => jobs'[l] = jobs[l]
BY <1>0, <1>2, <1>3, JobBecomes
<1>5. jobs[j].key \in Keys /\ jobs[j].active \in BOOLEAN BY <1>1 DEF UploadJobs
<1>6. /\ byKey' \in [Keys -> Nat] /\ perUser' \in [Users -> Nat] /\ UsersCounted'
      /\ \A k \in Keys : byKey'[k] = IF byKey[k] = j THEN 0 ELSE byKey[k]
  <2>1. \A k \in Keys : byKey[k] = j => k = jobs[j].key BY <1>0, <1>1 DEF KeysStand
  <2>2. CASE byKey[jobs[j].key] = j
    <3>1. byKey' = [byKey EXCEPT ![jobs[j].key] = 0] /\ perUser' = [perUser EXCEPT ![jobs[j].key[1]] = perUser[jobs[j].key[1]] - 1]
      BY <2>2 DEF Complete, User
    <3>2. byKey[jobs[j].key] # 0 BY <1>1, <2>2
    <3>3. byKey' \in [Keys -> Nat] /\ perUser' \in [Users -> Nat] /\ UsersCounted' BY <1>0, <1>5, <3>1, <3>2, KeyLeaves
    <3>4. \A k \in Keys : byKey'[k] = IF k = jobs[j].key THEN 0 ELSE byKey[k] BY <1>0, <3>1 DEF UploadTypes
    <3>. QED BY <2>1, <2>2, <3>3, <3>4
  <2>3. CASE byKey[jobs[j].key] # j
    <3>1. byKey' = byKey /\ perUser' = perUser BY <2>3 DEF Complete
    <3>. QED BY <1>0, <2>1, <2>3, <3>1 DEF UploadTypes, UsersCounted
  <2>. QED BY <2>2, <2>3
<1>7. active' \in Nat /\ active' = Cardinality(ActiveIn(jobs')) /\ active' <= Slots
  <2>0. Slots \in Nat /\ active \in Nat /\ active = Cardinality(ActiveIn(jobs)) /\ active <= Slots
    BY <1>0, UploadsAssumption DEF SlotsCounted, UploadTypes
  <2>1. ActiveIn(jobs) \in SUBSET Made BY <1>1 DEF ActiveIn
  <2>2. ActiveIn(jobs') = ActiveIn(jobs) \ {j} BY <1>1, <1>2, <1>4 DEF ActiveIn
  <2>3. Cardinality(ActiveIn(jobs) \ {j}) \in Nat BY <1>0, <2>1, MadeCounts
  <2>4. CASE jobs[j].active
    <3>1. j \in ActiveIn(jobs) BY <1>1, <2>4 DEF ActiveIn
    <3>2. Cardinality(ActiveIn(jobs) \ {j}) = Cardinality(ActiveIn(jobs)) - 1 BY <1>0, <2>1, <3>1, MadeCounts
    <3>3. active' = active - 1 BY <2>4 DEF Complete
    <3>. QED BY <2>0, <2>2, <2>3, <3>2, <3>3
  <2>5. CASE ~jobs[j].active
    <3>1. ActiveIn(jobs) \ {j} = ActiveIn(jobs) BY <2>5 DEF ActiveIn
    <3>2. active' = active BY <2>5 DEF Complete
    <3>. QED BY <2>0, <2>2, <3>1, <3>2
  <2>. QED BY <2>4, <2>5
<1>8. Cardinality(RunningIn(jobs')) <= Slots
  <2>0. Slots \in Nat /\ Cardinality(RunningIn(jobs)) <= Slots BY <1>0, UploadsAssumption DEF SlotsCounted
  <2>1. RunningIn(jobs) \in SUBSET Made BY <1>1 DEF RunningIn
  <2>2. b.at \notin Running BY <1>2 DEF Running
  <2>3. RunningIn(jobs') = RunningIn(jobs) \ {j} BY <1>1, <1>4, <2>2 DEF RunningIn
  <2>4. Cardinality(RunningIn(jobs) \ {j}) <= Cardinality(RunningIn(jobs)) /\ Cardinality(RunningIn(jobs)) \in Nat
        /\ Cardinality(RunningIn(jobs) \ {j}) \in Nat
    BY <1>0, <2>1, MadeCounts, FS_Subset
  <2>. QED BY <2>0, <2>3, <2>4
<1>9. wake' = TRUE BY DEF Complete
<1>. QED BY <1>2, <1>4, <1>5, <1>6, <1>7, <1>8, <1>9

LEMMA Returning == ASSUME UploadInv, NEW j \in Made, Return(j) PROVE UploadInv'
<1>0. UploadTypes /\ RowsTold /\ WaitersWait /\ WaitersOnce /\ ActiveRun /\ KeysStand /\ SlotsCounted /\ UsersCounted
BY DEF UploadInv, QueueAgrees
<1>1. Complete(j) /\ jobs[j].at = "return" /\ byToken' \subseteq byToken /\ life' = life /\ runs' = runs /\ scans' = scans
      /\ dispatcher' = dispatcher /\ shared' = shared /\ waiting' = waiting
BY DEF Return, UnregisterToken
<1>2. /\ jobs' \in Seq(UploadJobs) /\ Len(jobs') = Len(jobs) /\ Made' = Made
      /\ jobs'[j].at = "over" /\ jobs'[j].active = FALSE /\ jobs'[j].key = jobs[j].key /\ jobs[j].key \in Keys /\ Told(jobs'[j])
      /\ \A l \in Made : l # j => jobs'[l] = jobs[l]
      /\ byKey' \in [Keys -> Nat] /\ perUser' \in [Users -> Nat] /\ UsersCounted' /\ wake' = TRUE
      /\ \A k \in Keys : byKey'[k] = IF byKey[k] = j THEN 0 ELSE byKey[k]
      /\ active' \in Nat /\ active' = Cardinality(ActiveIn(jobs')) /\ active' <= Slots
      /\ Cardinality(RunningIn(jobs')) <= Slots
BY <1>1, Completes
<1>3. \A l \in Made : jobs[l].key \in Keys BY <1>0, JobsMade DEF UploadJobs
<1>4. UploadTypes' BY <1>0, <1>1, <1>2 DEF UploadTypes
<1>5. RowsTold' BY <1>0, <1>2 DEF RowsTold
<1>6. \A i \in 1 .. Len(waiting) : waiting[i] # j BY <1>0, <1>1 DEF WaitersWait
<1>7. WaitersWait'
  <2>1. SUFFICES ASSUME NEW i \in 1 .. Len(waiting)
                 PROVE waiting[i] \in Made /\ jobs'[waiting[i]].at = "waiting" /\ ~jobs'[waiting[i]].active
                       /\ byKey'[jobs'[waiting[i]].key] = waiting[i]
    BY <1>1, <1>2 DEF WaitersWait
  <2>2. waiting[i] \in Made /\ jobs[waiting[i]].at = "waiting" /\ ~jobs[waiting[i]].active
        /\ byKey[jobs[waiting[i]].key] = waiting[i] /\ waiting[i] # j BY <1>0, <1>6 DEF WaitersWait
  <2>. QED BY <1>2, <1>3, <2>2
<1>8. WaitersOnce' BY <1>0, <1>1 DEF WaitersOnce
<1>9. ActiveRun'
  <2>1. \A l \in Made : jobs'[l].active => l # j BY <1>2
  <2>. QED BY <1>0, <1>2, <1>3, <2>1 DEF ActiveRun
<1>10. KeysStand'
  <2>1. SUFFICES ASSUME NEW k \in Keys, byKey'[k] # 0
                 PROVE byKey'[k] \in Made /\ jobs'[byKey'[k]].key = k
                       /\ (jobs'[byKey'[k]].active \/ \E i \in 1 .. Len(waiting) : waiting[i] = byKey'[k])
    BY <1>1, <1>2 DEF KeysStand
  <2>2. byKey[k] # j /\ byKey'[k] = byKey[k] BY <1>2, <2>1
  <2>. QED BY <1>0, <1>2, <2>1, <2>2 DEF KeysStand
<1>11. SlotsCounted'
  <2>1. jobs'[j].at \notin Running BY <1>2 DEF Running
  <2>2. \A l \in Made : jobs'[l].at \in Running => l # j /\ jobs[l].at \in Running /\ jobs'[l].active = jobs[l].active
    BY <1>2, <2>1
  <2>. QED BY <1>0, <1>1, <1>2, <2>2 DEF SlotsCounted
<1>. QED BY <1>2, <1>4, <1>5, <1>7, <1>8, <1>9, <1>10, <1>11 DEF UploadInv, QueueAgrees

\* The head of the queue leaves it.
LEMMA QueueMovesUp ==
  ASSUME UploadTypes, WaitersWait, WaitersOnce, waiting # <<>>, waiting' = Tail(waiting)
  PROVE /\ Head(waiting) = waiting[1] /\ 1 \in 1 .. Len(waiting) /\ Head(waiting) \in Made
        /\ waiting' \in Seq(Nat) /\ Len(waiting') = Len(waiting) - 1 /\ Len(waiting) \in Nat
        /\ \A i \in 1 .. Len(waiting') :
             i + 1 \in 1 .. Len(waiting) /\ waiting'[i] = waiting[i + 1] /\ waiting'[i] # Head(waiting)
        /\ \A i \in 1 .. Len(waiting) : i # 1 => i - 1 \in 1 .. Len(waiting') /\ waiting'[i - 1] = waiting[i]
        /\ WaitersOnce'
<1>1. waiting \in Seq(Nat) /\ Len(waiting) \in Nat BY LenProperties DEF UploadTypes
<1>2. Len(waiting) # 0 /\ Head(waiting) = waiting[1] BY <1>1, EmptySeq
<1>3. waiting' \in Seq(Nat) /\ Len(waiting') = Len(waiting) - 1 /\ \A i \in 1 .. Len(waiting') : waiting'[i] = waiting[i + 1]
BY <1>1, HeadTailProperties
<1>4. 1 \in 1 .. Len(waiting) /\ \A i \in 1 .. Len(waiting') : i + 1 \in 1 .. Len(waiting) /\ i + 1 # 1 BY <1>1, <1>2, <1>3
<1>5. \A i \in 1 .. Len(waiting) : i # 1 => i - 1 \in 1 .. Len(waiting') /\ waiting'[i - 1] = waiting[i] BY <1>1, <1>2, <1>3
<1>6. waiting[1] \in Made BY <1>4 DEF WaitersWait
<1>7. \A i \in 1 .. Len(waiting') : waiting'[i] # waiting[1] BY <1>3, <1>4 DEF WaitersOnce
<1>8. WaitersOnce'
  <2>1. ASSUME NEW i \in 1 .. Len(waiting'), NEW l \in 1 .. Len(waiting'), waiting'[i] = waiting'[l] PROVE i = l
    <3>1. waiting[i + 1] = waiting[l + 1] BY <1>3, <2>1
    <3>2. i + 1 = l + 1 BY <1>4, <3>1 DEF WaitersOnce
    <3>. QED BY <3>2
  <2>. QED BY <2>1 DEF WaitersOnce
<1>. QED BY <1>1, <1>2, <1>3, <1>4, <1>5, <1>6, <1>7, <1>8

LEMMA Dispatching == ASSUME UploadInv, Dispatch PROVE UploadInv'
<1>0. UploadTypes /\ RowsTold /\ WaitersWait /\ WaitersOnce /\ ActiveRun /\ KeysStand /\ SlotsCounted /\ UsersCounted
BY DEF UploadInv, QueueAgrees
<1>1. dispatcher = "scanning" /\ life' = life /\ runs' = runs /\ scans' = scans /\ wake' = wake /\ shared' = shared
      /\ byKey' = byKey /\ perUser' = perUser /\ byToken' = byToken BY DEF Dispatch
<1>2. CASE active >= Slots \/ waiting = <<>>
  <2>1. dispatcher' = "asleep" /\ jobs' = jobs /\ waiting' = waiting /\ active' = active BY <1>2 DEF Dispatch
  <2>2. UploadTypes' BY <1>0, <1>1, <2>1 DEF UploadTypes, Made
  <2>3. RowsTold' BY <1>0, <2>1 DEF RowsTold, Made
  <2>4. QueueAgrees' BY <1>0, <1>1, <2>1 DEF QueueAgrees, WaitersWait, WaitersOnce, ActiveRun, KeysStand, Made
  <2>5. SlotsCounted' BY <1>0, <1>1, <2>1 DEF SlotsCounted, Made
  <2>6. UsersCounted' BY <1>0, <1>1 DEF UsersCounted
  <2>. QED BY <2>2, <2>3, <2>4, <2>5, <2>6 DEF UploadInv
<1>3. CASE active < Slots /\ waiting # <<>>
  <2> DEFINE h == Head(waiting)
             b == [jobs[h] EXCEPT !.active = TRUE, !.at = "open"]
  <2>0. active \in Nat /\ Slots \in Nat BY <1>0, UploadsAssumption DEF UploadTypes
  <2>1. waiting' = Tail(waiting) /\ active' = active + 1 /\ jobs' = [jobs EXCEPT ![h] = b] /\ dispatcher' = dispatcher
    BY <1>3, <2>0 DEF Dispatch
  <2>2. /\ h = waiting[1] /\ 1 \in 1 .. Len(waiting) /\ h \in Made
        /\ waiting' \in Seq(Nat)
        /\ \A i \in 1 .. Len(waiting') : i + 1 \in 1 .. Len(waiting) /\ waiting'[i] = waiting[i + 1] /\ waiting'[i] # h
        /\ \A i \in 1 .. Len(waiting) : i # 1 => i - 1 \in 1 .. Len(waiting') /\ waiting'[i - 1] = waiting[i]
        /\ WaitersOnce'
    BY <1>0, <1>3, <2>1, QueueMovesUp
  <2>3. jobs[h].at = "waiting" /\ ~jobs[h].active /\ byKey[jobs[h].key] = h BY <1>0, <2>2 DEF WaitersWait
  <2>4. jobs[h] \in UploadJobs /\ Told(jobs[h]) /\ \A j \in Made : jobs[j].key \in Keys
    BY <1>0, <2>2, JobsMade DEF RowsTold, UploadJobs
  <2>5. "open" \in Running BY DEF Running
  <2>6. b \in UploadJobs /\ b.active = TRUE /\ b.at = "open" /\ b.key = jobs[h].key BY <2>4, <2>5 DEF UploadJobs
  <2>7. Told(b) BY <2>3, <2>4 DEF Told, UploadJobs
  <2> HIDE DEF b, h
  <2>8. /\ jobs' \in Seq(UploadJobs) /\ Len(jobs') = Len(jobs) /\ Made' = Made /\ DOMAIN jobs' = Made
        /\ jobs'[h] = b /\ \A l \in Made : l # h => jobs'[l] = jobs[l]
    BY <1>0, <2>1, <2>2, <2>6, JobBecomes
  <2>9. UploadTypes' BY SMTT(40), <1>0, <1>1, <2>0, <2>1, <2>2, <2>8 DEF UploadTypes
  <2>10. RowsTold' BY <1>0, <2>7, <2>8 DEF RowsTold
  <2>11. WaitersWait'
    <3>1. SUFFICES ASSUME NEW i \in 1 .. Len(waiting')
                   PROVE waiting'[i] \in Made /\ jobs'[waiting'[i]].at = "waiting" /\ ~jobs'[waiting'[i]].active
                         /\ byKey[jobs'[waiting'[i]].key] = waiting'[i]
      BY <1>1, <2>8 DEF WaitersWait
    <3>2. i + 1 \in 1 .. Len(waiting) /\ waiting'[i] = waiting[i + 1] /\ waiting'[i] # h BY <2>2
    <3>3. waiting[i + 1] \in Made /\ jobs[waiting[i + 1]].at = "waiting" /\ ~jobs[waiting[i + 1]].active
          /\ byKey[jobs[waiting[i + 1]].key] = waiting[i + 1] BY <1>0, <3>2 DEF WaitersWait
    <3>. QED BY <2>8, <3>2, <3>3
  <2>12. ActiveRun'
    <3>1. \A j \in Made : j # h /\ jobs'[j].active => jobs'[j].at \in Running /\ byKey[jobs'[j].key] = j
      BY <1>0, <2>8 DEF ActiveRun
    <3>2. jobs'[h].at \in Running /\ byKey[jobs'[h].key] = h BY <2>3, <2>5, <2>6, <2>8
    <3>. QED BY <1>1, <2>8, <3>1, <3>2 DEF ActiveRun
  <2>13. KeysStand'
    <3>1. SUFFICES ASSUME NEW k \in Keys, byKey[k] # 0
                   PROVE byKey[k] \in Made /\ jobs'[byKey[k]].key = k
                         /\ (jobs'[byKey[k]].active \/ \E i \in 1 .. Len(waiting') : waiting'[i] = byKey[k])
      BY <1>1, <2>8 DEF KeysStand
    <3>2. byKey[k] \in Made /\ jobs[byKey[k]].key = k
          /\ (jobs[byKey[k]].active \/ \E i \in 1 .. Len(waiting) : waiting[i] = byKey[k])
      BY <1>0, <3>1 DEF KeysStand
    <3>3. CASE byKey[k] = h BY <2>6, <2>8, <3>2, <3>3
    <3>4. CASE byKey[k] # h
      <4>1. ASSUME NEW i \in 1 .. Len(waiting), waiting[i] = byKey[k] PROVE \E l \in 1 .. Len(waiting') : waiting'[l] = byKey[k]
        <5>1. i # 1 BY <2>2, <3>4, <4>1
        <5>2. i - 1 \in 1 .. Len(waiting') /\ waiting'[i - 1] = waiting[i] BY <2>2, <5>1
        <5>. QED BY <4>1, <5>2
      <4>. QED BY <2>8, <3>2, <3>4, <4>1
    <3>. QED BY <3>3, <3>4
  <2>14. SlotsCounted'
    <3>1. ActiveIn(jobs) \in SUBSET Made /\ h \notin ActiveIn(jobs) /\ ActiveIn(jobs') = ActiveIn(jobs) \cup {h}
      <4>1. DOMAIN jobs = Made BY <1>0, JobsMade
      <4>. QED BY <2>2, <2>3, <2>6, <2>8, <4>1 DEF ActiveIn
    <3>2. Cardinality(ActiveIn(jobs')) = Cardinality(ActiveIn(jobs)) + 1 BY <1>0, <3>1, MadeCounts
    <3>3. \A j \in Made : jobs'[j].at \in Running => jobs'[j].active
      <4>1. \A j \in Made : j # h => (jobs'[j].at \in Running => jobs'[j].active) BY <1>0, <1>1, <2>8 DEF SlotsCounted
      <4>. QED BY <2>6, <2>8, <4>1
    <3>4. RunningIn(jobs') = ActiveIn(jobs')
      <4>1. \A j \in Made : jobs'[j].active => jobs'[j].at \in Running BY <2>8, <2>12 DEF ActiveRun
      <4>. QED BY <2>8, <3>3, <4>1 DEF RunningIn, ActiveIn
    <3>5. active' = Cardinality(ActiveIn(jobs')) /\ active' <= Slots BY <1>0, <1>3, <2>0, <2>1, <3>2 DEF SlotsCounted
    <3>6. life' # "down" BY <1>0, <1>1 DEF SlotsCounted
    <3>. QED BY <2>8, <3>3, <3>4, <3>5, <3>6 DEF SlotsCounted
  <2>15. UsersCounted' BY <1>0, <1>1 DEF UsersCounted
  <2>. QED BY <2>2, <2>9, <2>10, <2>11, <2>12, <2>13, <2>14, <2>15 DEF UploadInv, QueueAgrees
<1>. QED BY <1>0, <1>2, <1>3, UploadsAssumption DEF UploadTypes

LEMMA Refusing == ASSUME UploadInv, DispatchRefused PROVE UploadInv'
<1>0. UploadTypes /\ RowsTold /\ WaitersWait /\ WaitersOnce /\ ActiveRun /\ KeysStand /\ SlotsCounted /\ UsersCounted
BY DEF UploadInv, QueueAgrees
<1> DEFINE h == Head(waiting)
<1>1. /\ dispatcher = "scanning" /\ life = "stopping" /\ waiting # <<>> /\ Complete(h) /\ waiting' = Tail(waiting)
      /\ dispatcher' = "leaving" /\ life' = life /\ runs' = runs /\ scans' = scans /\ shared' = shared /\ byToken' = byToken
BY DEF DispatchRefused
<1>2. /\ h = waiting[1] /\ 1 \in 1 .. Len(waiting) /\ h \in Made
      /\ waiting' \in Seq(Nat)
      /\ \A i \in 1 .. Len(waiting') : i + 1 \in 1 .. Len(waiting) /\ waiting'[i] = waiting[i + 1] /\ waiting'[i] # h
      /\ \A i \in 1 .. Len(waiting) : i # 1 => i - 1 \in 1 .. Len(waiting') /\ waiting'[i - 1] = waiting[i]
      /\ WaitersOnce'
BY <1>0, <1>1, QueueMovesUp
<1> HIDE DEF h
<1>3. /\ jobs' \in Seq(UploadJobs) /\ Len(jobs') = Len(jobs) /\ Made' = Made
      /\ jobs'[h].at = "over" /\ jobs'[h].active = FALSE /\ jobs'[h].key = jobs[h].key /\ jobs[h].key \in Keys /\ Told(jobs'[h])
      /\ \A l \in Made : l # h => jobs'[l] = jobs[l]
      /\ byKey' \in [Keys -> Nat] /\ perUser' \in [Users -> Nat] /\ UsersCounted' /\ wake' = TRUE
      /\ \A k \in Keys : byKey'[k] = IF byKey[k] = h THEN 0 ELSE byKey[k]
      /\ active' \in Nat /\ active' = Cardinality(ActiveIn(jobs')) /\ active' <= Slots
      /\ Cardinality(RunningIn(jobs')) <= Slots
BY <1>1, <1>2, Completes
<1>4. \A l \in Made : jobs[l].key \in Keys BY <1>0, JobsMade DEF UploadJobs
<1>5. UploadTypes' BY <1>0, <1>1, <1>2, <1>3 DEF UploadTypes
<1>6. RowsTold' BY <1>0, <1>3 DEF RowsTold
<1>7. WaitersWait'
  <2>1. SUFFICES ASSUME NEW i \in 1 .. Len(waiting')
                 PROVE waiting'[i] \in Made /\ jobs'[waiting'[i]].at = "waiting" /\ ~jobs'[waiting'[i]].active
                       /\ byKey'[jobs'[waiting'[i]].key] = waiting'[i]
    BY <1>3 DEF WaitersWait
  <2>2. i + 1 \in 1 .. Len(waiting) /\ waiting'[i] = waiting[i + 1] /\ waiting'[i] # h BY <1>2
  <2>3. waiting[i + 1] \in Made /\ jobs[waiting[i + 1]].at = "waiting" /\ ~jobs[waiting[i + 1]].active
        /\ byKey[jobs[waiting[i + 1]].key] = waiting[i + 1] BY <1>0, <2>2 DEF WaitersWait
  <2>. QED BY SMTT(40), <1>3, <1>4, <2>2, <2>3
<1>8. ActiveRun'
  <2>1. \A l \in Made : jobs'[l].active => l # h BY <1>3
  <2>. QED BY <1>0, <1>3, <1>4, <2>1 DEF ActiveRun
<1>9. KeysStand'
  <2>1. SUFFICES ASSUME NEW k \in Keys, byKey'[k] # 0
                 PROVE byKey'[k] \in Made /\ jobs'[byKey'[k]].key = k
                       /\ (jobs'[byKey'[k]].active \/ \E i \in 1 .. Len(waiting') : waiting'[i] = byKey'[k])
    BY <1>3 DEF KeysStand
  <2>2. byKey[k] # h /\ byKey'[k] = byKey[k] BY <1>3, <2>1
  <2>3. byKey[k] \in Made /\ jobs[byKey[k]].key = k
        /\ (jobs[byKey[k]].active \/ \E i \in 1 .. Len(waiting) : waiting[i] = byKey[k])
    BY <1>0, <2>1, <2>2 DEF KeysStand
  <2>4. ASSUME NEW i \in 1 .. Len(waiting), waiting[i] = byKey[k] PROVE \E l \in 1 .. Len(waiting') : waiting'[l] = byKey[k]
    <3>1. i # 1 BY <1>2, <2>2, <2>4
    <3>. QED BY <1>2, <2>4, <3>1
  <2>. QED BY <1>3, <2>2, <2>3, <2>4
<1>10. SlotsCounted'
  <2>1. jobs'[h].at \notin Running BY <1>3 DEF Running
  <2>2. \A l \in Made : jobs'[l].at \in Running => l # h /\ jobs[l].at \in Running /\ jobs'[l].active = jobs[l].active
    BY <1>3, <2>1
  <2>. QED BY <1>0, <1>1, <1>3, <2>2 DEF SlotsCounted
<1>. QED BY <1>2, <1>3, <1>5, <1>6, <1>7, <1>8, <1>9, <1>10 DEF UploadInv, QueueAgrees

(***************************************************************************)
(* The client's life                                                       *)
(***************************************************************************)
LEMMA SameInterval == ASSUME NEW m \in Nat, NEW n \in Nat, 1 .. m = 1 .. n PROVE m = n
<1>1. ASSUME m < n PROVE FALSE
  <2>1. n \in 1 .. n /\ n \notin 1 .. m BY <1>1
  <2>. QED BY <2>1
<1>2. ASSUME n < m PROVE FALSE
  <2>1. m \in 1 .. m /\ m \notin 1 .. n BY <1>2
  <2>. QED BY <2>1
<1>. QED BY <1>1, <1>2

\* reset forgets the queue and takes the slots back; the goroutines are still there.
LEMMA Resetting ==
  ASSUME UploadInv, ResetQueue
  PROVE /\ jobs' \in Seq(UploadJobs) /\ Len(jobs') = Len(jobs) /\ Made' = Made /\ RunningIn(jobs') = RunningIn(jobs)
        /\ \A j \in Made : jobs'[j].at = jobs[j].at /\ jobs'[j].active = FALSE
        /\ RowsTold' /\ QueueAgrees' /\ UsersCounted'
        /\ waiting' \in Seq(Nat) /\ byKey' \in [Keys -> Nat] /\ perUser' \in [Users -> Nat] /\ byToken' = {}
        /\ active' = 0 /\ Cardinality(ActiveIn(jobs')) = 0
<1>0. UploadTypes /\ RowsTold /\ ActiveRun /\ KeysStand /\ UsersCounted BY DEF UploadInv, QueueAgrees
<1>1. Len(jobs) \in Nat /\ Made = 1 .. Len(jobs) /\ DOMAIN jobs = Made /\ \A j \in Made : jobs[j] \in UploadJobs /\ Told(jobs[j])
BY <1>0, JobsMade DEF RowsTold
<1>2. /\ active' = 0 /\ waiting' = <<>> /\ byToken' = {} /\ byKey' = [k \in Keys |-> 0] /\ perUser' = [u \in Users |-> 0]
BY DEF ResetQueue
<1> DEFINE listed == {byKey[k] : k \in Keys}
           Left(j) == IF j \in listed THEN [jobs[j] EXCEPT !.active = FALSE] ELSE jobs[j]
<1>3. jobs' = [j \in Made |-> Left(j)] BY DEF ResetQueue
<1>4. ASSUME NEW j \in Made
      PROVE /\ Left(j) \in UploadJobs /\ Told(Left(j)) /\ Left(j).at = jobs[j].at /\ Left(j).active = FALSE
  <2>1. jobs[j] \in UploadJobs /\ Told(jobs[j]) BY <1>1
  <2>2. jobs[j].active => j \in listed
    <3>1. jobs[j].key \in Keys BY <2>1 DEF UploadJobs
    <3>. QED BY <1>0, <3>1 DEF ActiveRun
  <2>3. CASE j \in listed
    <3>1. Left(j) = [jobs[j] EXCEPT !.active = FALSE] BY <2>3
    <3> HIDE DEF Left
    <3>. QED BY ZenonT(60), <2>1, <3>1 DEF UploadJobs, Told
  <2>4. CASE j \notin listed
    <3>1. Left(j) = jobs[j] BY <2>4
    <3> HIDE DEF Left
    <3>. QED BY <2>1, <2>2, <2>4, <3>1 DEF UploadJobs
  <2>. QED BY <2>3, <2>4
<1> HIDE DEF Left
<1>5. jobs' \in [1 .. Len(jobs) -> UploadJobs] BY <1>1, <1>3, <1>4
<1>6. jobs' \in Seq(UploadJobs) BY <1>1, <1>5, SeqDef
<1>7. Len(jobs') = Len(jobs) /\ Made' = Made /\ DOMAIN jobs' = Made
  <2>1. DOMAIN jobs' = 1 .. Len(jobs') /\ DOMAIN jobs' = 1 .. Len(jobs) /\ Len(jobs') \in Nat
    BY SMTT(40), <1>5, <1>6, LenProperties
  <2>2. Len(jobs') = Len(jobs) BY <1>1, <2>1, SameInterval
  <2>. QED BY <1>1, <2>1, <2>2 DEF Made
<1>8. \A j \in Made : jobs'[j] = Left(j) BY <1>3
<1>9. \A j \in Made : jobs'[j].at = jobs[j].at /\ jobs'[j].active = FALSE /\ Told(jobs'[j]) BY <1>4, <1>8
<1>10. RunningIn(jobs') = RunningIn(jobs) /\ ActiveIn(jobs') = {} BY <1>1, <1>7, <1>9 DEF RunningIn, ActiveIn
<1>11. RowsTold' BY <1>7, <1>9 DEF RowsTold
<1>12. waiting' \in Seq(Nat) /\ Len(waiting') = 0 BY <1>2, EmptySeq
<1>13. byKey' \in [Keys -> Nat] /\ perUser' \in [Users -> Nat] /\ (\A k \in Keys : byKey'[k] = 0)
       /\ \A u \in Users : perUser'[u] = 0 BY <1>2
<1>14. QueueAgrees'
  <2>1. WaitersWait' /\ WaitersOnce' BY <1>12 DEF WaitersWait, WaitersOnce
  <2>2. ActiveRun' BY <1>7, <1>9 DEF ActiveRun
  <2>3. KeysStand' BY <1>13 DEF KeysStand
  <2>. QED BY <2>1, <2>2, <2>3 DEF QueueAgrees
<1>15. UsersCounted'
  <2>1. \A u \in Users : PendingOf(byKey', u) = {} BY <1>13 DEF PendingOf
  <2>. QED BY <1>13, <2>1, FS_EmptySet, UploadsAssumption DEF UsersCounted
<1>16. Cardinality(ActiveIn(jobs')) = 0 BY <1>10, FS_EmptySet
<1>. QED BY <1>2, <1>6, <1>7, <1>9, <1>10, <1>11, <1>12, <1>13, <1>14, <1>15, <1>16

LEMMA LifeChanges ==
  ASSUME UploadInv, DispatcherLeaves \/ BeginLifecycle \/ StopLifecycle PROVE UploadInv'
<1>0. UploadTypes /\ SlotsCounted BY DEF UploadInv
<1>1. ResetQueue BY DEF DispatcherLeaves, BeginLifecycle, StopLifecycle
<1>2. /\ jobs' \in Seq(UploadJobs) /\ Len(jobs') = Len(jobs) /\ Made' = Made /\ RunningIn(jobs') = RunningIn(jobs)
      /\ \A j \in Made : jobs'[j].at = jobs[j].at /\ jobs'[j].active = FALSE
      /\ RowsTold' /\ QueueAgrees' /\ UsersCounted'
      /\ waiting' \in Seq(Nat) /\ byKey' \in [Keys -> Nat] /\ perUser' \in [Users -> Nat] /\ byToken' = {}
      /\ active' = 0 /\ Cardinality(ActiveIn(jobs')) = 0
BY <1>1, Resetting
<1>3. /\ life' \in {"down", "up", "cancelled", "stopping"} /\ runs' \in 0 .. MaxRuns /\ scans' = scans
      /\ dispatcher' \in {"off", "asleep"} /\ wake' = wake /\ shared' = shared
BY SMTT(40), <1>0, UploadsAssumption DEF DispatcherLeaves, BeginLifecycle, StopLifecycle, UploadTypes
<1>4. UploadTypes' BY <1>0, <1>2, <1>3 DEF UploadTypes
<1>5. Slots \in Nat /\ Cardinality(RunningIn(jobs)) <= Slots BY <1>0, UploadsAssumption DEF SlotsCounted
<1>6. dispatcher' # "off" => \A j \in Made : jobs[j].at \notin Running
BY <1>0 DEF DispatcherLeaves, BeginLifecycle, StopLifecycle, SlotsCounted
<1>7. life' = "down" => dispatcher' = "off" /\ \A j \in Made : jobs[j].at \notin Running
BY <1>0 DEF DispatcherLeaves, BeginLifecycle, StopLifecycle, SlotsCounted
<1>8. SlotsCounted'
  <2>1. active' = Cardinality(ActiveIn(jobs')) /\ active' <= Slots BY <1>2, <1>5
  <2>2. Cardinality(RunningIn(jobs')) <= Slots BY <1>2, <1>5
  <2>3. dispatcher' # "off" => \A j \in Made' : jobs'[j].at \in Running => jobs'[j].active BY <1>2, <1>6
  <2>4. life' = "down" => dispatcher' = "off" /\ \A j \in Made' : jobs'[j].at \notin Running BY <1>2, <1>7
  <2>. QED BY <2>1, <2>2, <2>3, <2>4 DEF SlotsCounted
<1>. QED BY <1>2, <1>4, <1>8 DEF UploadInv

LEMMA Wakening == ASSUME UploadInv, DispatcherWakes \/ Cancel \/ Rescan \/ UNCHANGED vars PROVE UploadInv'
<1>0. UploadTypes /\ RowsTold /\ QueueAgrees /\ SlotsCounted /\ UsersCounted BY DEF UploadInv
<1>1. jobs' = jobs /\ byToken' = byToken /\ waiting' = waiting /\ byKey' = byKey /\ active' = active /\ perUser' = perUser
BY DEF DispatcherWakes, Cancel, Rescan, vars, queue
<1>2. /\ life' \in {"down", "up", "cancelled", "stopping"} /\ runs' \in 0 .. MaxRuns /\ scans' \in 0 .. MaxScans
      /\ dispatcher' \in {"off", "asleep", "scanning", "leaving"} /\ wake' \in BOOLEAN /\ shared' \subseteq Names
      /\ (dispatcher' = "off" <=> dispatcher = "off") /\ (life' = "down" => life = "down")
  <2>1. CASE DispatcherWakes BY <1>0, <2>1 DEF DispatcherWakes, UploadTypes
  <2>2. CASE Cancel BY <1>0, <2>2 DEF Cancel, UploadTypes
  <2>3. CASE Rescan
    <3>1. scans + 1 \in 0 .. MaxScans BY SMTT(40), <1>0, <2>3, UploadsAssumption DEF Rescan, UploadTypes
    <3>. QED BY <1>0, <2>3, <3>1 DEF Rescan, UploadTypes
  <2>4. CASE UNCHANGED vars BY <1>0, <2>4 DEF vars, UploadTypes
  <2>. QED BY <2>1, <2>2, <2>3, <2>4
<1>3. Made' = Made BY <1>1 DEF Made
<1>4. UploadTypes' BY <1>0, <1>1, <1>2, <1>3 DEF UploadTypes
<1>5. RowsTold' BY <1>0, <1>1, <1>3 DEF RowsTold
<1>6. QueueAgrees' BY <1>0, <1>1, <1>3 DEF QueueAgrees, WaitersWait, WaitersOnce, ActiveRun, KeysStand
<1>7. SlotsCounted' BY <1>0, <1>1, <1>2, <1>3 DEF SlotsCounted
<1>8. UsersCounted' BY <1>0, <1>1 DEF UsersCounted
<1>. QED BY <1>4, <1>5, <1>6, <1>7, <1>8 DEF UploadInv

LEMMA UploadsBegin == Init => UploadInv
<1> SUFFICES ASSUME Init PROVE UploadInv OBVIOUS
<1>0. {0} \subseteq Nat /\ 0 \in 0 .. MaxRuns /\ 0 \in 0 .. MaxScans /\ 0 <= MaxJobs /\ 0 <= MaxPerUser /\ 0 <= Slots
BY UploadsAssumption
<1>1. jobs \in Seq(UploadJobs) /\ waiting \in Seq(Nat) /\ Len(jobs) = 0 /\ Len(waiting) = 0 /\ Made = {} /\ DOMAIN jobs = {}
BY EmptySeq DEF Init, Made
<1>2. \A k \in Keys : byKey[k] = 0 BY DEF Init
<1>3. UploadTypes BY <1>0, <1>1 DEF Init, UploadTypes
<1>4. RowsTold /\ QueueAgrees BY <1>1, <1>2 DEF RowsTold, QueueAgrees, WaitersWait, WaitersOnce, ActiveRun, KeysStand
<1>5. SlotsCounted
  <2>1. RunningIn(jobs) = {} /\ ActiveIn(jobs) = {} BY <1>1 DEF RunningIn, ActiveIn
  <2>. QED BY <1>0, <1>1, <2>1, FS_EmptySet DEF Init, SlotsCounted
<1>6. UsersCounted
  <2>1. \A u \in Users : PendingOf(byKey, u) = {} /\ perUser[u] = 0 BY <1>2 DEF PendingOf, Init
  <2>. QED BY <1>0, <2>1, FS_EmptySet DEF UsersCounted
<1>. QED BY <1>3, <1>4, <1>5, <1>6 DEF UploadInv

LEMMA UploadSteps == UploadInv /\ [Next]_vars => UploadInv'
<1> SUFFICES ASSUME UploadInv, [Next]_vars PROVE UploadInv' OBVIOUS
<1>1. ASSUME NEW user \in Users, Frame(user) PROVE UploadInv'
  <2>1. ASSUME NEW name \in Names, Enqueue(<<user, name>>) PROVE UploadInv'
    <3>1. <<user, name>> \in Keys BY DEF Keys
    <3>. QED BY <2>1, <3>1, Enqueuing
  <2>. QED BY <1>1, <2>1, Answering DEF Frame
<1>2. CASE Dispatcher BY <1>2, Wakening, Dispatching, Refusing, LifeChanges DEF Dispatcher
<1>3. ASSUME NEW j \in Made, Upload(j) PROVE UploadInv'
BY <1>3, Opening, Connecting, Negotiating, Dialling, Resuming, Streaming, Recording, Returning DEF Upload
<1>4. ASSUME NEW j \in Made, WriteBlock(j) \/ SampleWindow(j) \/ SamplerCloses(j) PROVE UploadInv' BY <1>4, Writing, Sampling
<1>5. CASE BeginLifecycle \/ StopLifecycle \/ Cancel \/ Rescan \/ UNCHANGED vars BY <1>5, LifeChanges, Wakening
<1>. QED BY <1>1, <1>2, <1>3, <1>4, <1>5 DEF Next

(***************************************************************************)
(* What follows                                                            *)
(***************************************************************************)
LEMMA Truncates ==
  ASSUME NEW limit
  PROVE Report(limit).truncated = Len(waiting) - (IF limit < Len(waiting) THEN limit ELSE Len(waiting))
BY DEF Report

LEMMA SlotsAndRows == UploadInv => SlotsHeld /\ RowTellsVolume
<1> SUFFICES ASSUME UploadInv PROVE SlotsHeld /\ RowTellsVolume OBVIOUS
<1>1. UploadTypes BY DEF UploadInv
<1>2. DOMAIN jobs = Made /\ \A j \in Made : jobs[j] \in UploadJobs BY <1>1, JobsMade
<1>3. SlotsHeld
  <2>1. RunningIn(jobs) = {j \in Made : jobs[j].at \in Running} BY <1>2 DEF RunningIn
  <2>. QED BY <2>1 DEF SlotsHeld, UploadInv, SlotsCounted
<1>4. RowTellsVolume
  <2>1. \A j \in Made : Told(jobs[j]) BY DEF UploadInv, RowsTold
  <2>. QED BY <2>1 DEF RowTellsVolume, Told
<1>. QED BY <1>3, <1>4

LEMMA TypesHold == UploadInv => TypeOK
<1> SUFFICES ASSUME UploadInv PROVE TypeOK OBVIOUS
<1>0. UploadTypes /\ WaitersWait /\ KeysStand /\ SlotsCounted /\ UsersCounted BY DEF UploadInv, QueueAgrees
<1>1. Len(jobs) \in Nat /\ Made = 1 .. Len(jobs) /\ \A j \in Made : jobs[j] \in UploadJobs /\ Told(jobs[j])
BY <1>0, JobsMade DEF UploadInv, RowsTold
<1>2. ASSUME NEW j \in Made
      PROVE /\ jobs[j].key \in Keys /\ jobs[j].at \in Running \cup {"waiting", "over"}
            /\ jobs[j].low \in -1 .. StrikeLimit /\ jobs[j].start \in 0 .. jobs[j].sent /\ jobs[j].sent \in 0 .. MaxSize
  <2>1. jobs[j].start \in 0 .. MaxSize /\ jobs[j].written \in 0 .. MaxSize /\ jobs[j].sent \in 0 .. MaxSize
        /\ jobs[j].start + jobs[j].written = jobs[j].sent BY <1>1 DEF UploadJobs, Told
  <2>2. jobs[j].start \in 0 .. jobs[j].sent BY <2>1, UploadsAssumption
  <2>. QED BY <1>1, <2>1, <2>2 DEF UploadJobs
<1>3. waiting \in Seq(Made)
  <2>1. waiting \in Seq(Nat) BY <1>0 DEF UploadTypes
  <2>2. Len(waiting) \in Nat /\ waiting \in [1 .. Len(waiting) -> Nat] BY <2>1, LenProperties
  <2>3. \A i \in 1 .. Len(waiting) : waiting[i] \in Made BY <1>0 DEF WaitersWait
  <2>4. waiting \in [1 .. Len(waiting) -> Made] BY <2>2, <2>3
  <2>. QED BY <2>2, <2>4, SeqDef
<1>4. byKey \in [Keys -> 0 .. MaxJobs]
  <2>1. \A k \in Keys : byKey[k] \in 0 .. MaxJobs
    <3>1. \A k \in Keys : byKey[k] = 0 \/ byKey[k] \in 1 .. Len(jobs) BY <1>0, <1>1 DEF KeysStand
    <3>2. Len(jobs) \in Nat /\ MaxJobs \in Nat /\ Len(jobs) <= MaxJobs BY <1>0, <1>1, UploadsAssumption DEF UploadTypes
    <3>3. 0 \in 0 .. MaxJobs /\ 1 .. Len(jobs) \subseteq 0 .. MaxJobs BY <3>2
    <3>. QED BY <3>1, <3>3
  <2>. QED BY <1>0, <2>1 DEF UploadTypes
<1>5. active \in 0 .. Slots BY <1>0, UploadsAssumption DEF UploadTypes, SlotsCounted
<1>6. perUser \in [Users -> 0 .. MaxPerUser]
  <2>1. \A u \in Users : perUser[u] \in 0 .. MaxPerUser BY <1>0, UploadsAssumption DEF UploadTypes, UsersCounted
  <2>. QED BY <1>0, <2>1 DEF UploadTypes
<1>. QED BY <1>0, <1>2, <1>3, <1>4, <1>5, <1>6 DEF TypeOK, UploadTypes

LEMMA CountersHold == UploadInv => CountersAgree
<1> SUFFICES ASSUME UploadInv PROVE CountersAgree OBVIOUS
<1>0. UploadTypes /\ WaitersWait /\ WaitersOnce /\ ActiveRun /\ KeysStand /\ SlotsCounted /\ UsersCounted
BY DEF UploadInv, QueueAgrees
<1>1. Len(jobs) \in Nat /\ Made = 1 .. Len(jobs) /\ DOMAIN jobs = Made /\ \A j \in Made : jobs[j] \in UploadJobs
BY <1>0, JobsMade
<1>2. Len(waiting) \in Nat /\ DOMAIN waiting = 1 .. Len(waiting) BY <1>0, LenProperties DEF UploadTypes
<1> DEFINE live == {byKey[k] : k \in {k \in Keys : Pending(k)}}
           activeJobs == {j \in Made : jobs[j].active}
<1>3. \A j \in Made : jobs[j].key \in Keys /\ j # 0 BY <1>1 DEF UploadJobs
<1>4. \A k \in Keys : Pending(k) => jobs[byKey[k]].key = k BY <1>0 DEF KeysStand, Pending
<1>5. live = ToSet(waiting) \cup activeJobs
  <2>1. ASSUME NEW k \in Keys, Pending(k) PROVE byKey[k] \in ToSet(waiting) \cup activeJobs
    <3>1. byKey[k] \in Made /\ (jobs[byKey[k]].active \/ \E i \in 1 .. Len(waiting) : waiting[i] = byKey[k])
      BY <1>0, <2>1 DEF KeysStand, Pending
    <3>. QED BY <1>2, <3>1 DEF ToSet
  <2>2. ASSUME NEW j \in activeJobs PROVE j \in live
    <3>1. byKey[jobs[j].key] = j /\ jobs[j].key \in Keys BY <1>0, <1>3 DEF ActiveRun
    <3>2. Pending(jobs[j].key) BY <1>3, <3>1 DEF Pending
    <3>. QED BY <3>1, <3>2
  <2>3. ASSUME NEW i \in 1 .. Len(waiting) PROVE waiting[i] \in live
    <3>1. waiting[i] \in Made /\ byKey[jobs[waiting[i]].key] = waiting[i] BY <1>0 DEF WaitersWait
    <3>2. Pending(jobs[waiting[i]].key) /\ jobs[waiting[i]].key \in Keys BY <1>3, <3>1 DEF Pending
    <3>. QED BY <3>1, <3>2
  <2>. QED BY <1>2, <2>1, <2>2, <2>3 DEF ToSet
<1>6. ToSet(waiting) \cap activeJobs = {} BY <1>0, <1>2 DEF ToSet, WaitersWait
<1>7. IsInjective(waiting)
  <2>1. \A i, l \in DOMAIN waiting : waiting[i] = waiting[l] => i = l BY <1>0, <1>2 DEF WaitersOnce
  <2>. QED BY <2>1 DEF IsInjective
<1>8. active = Cardinality({j \in live : jobs[j].active})
  <2>0. ToSet(waiting) \subseteq Made BY <1>0, <1>2 DEF ToSet, WaitersWait
  <2>1. {j \in live : jobs[j].active} = activeJobs BY <1>5, <1>6, <2>0
  <2>2. activeJobs = ActiveIn(jobs) BY <1>1 DEF ActiveIn
  <2>. QED BY <1>0, <2>1, <2>2 DEF SlotsCounted
<1>9. \A u \in Users : perUser[u] = Cardinality({k \in Keys : k[1] = u /\ Pending(k)})
  <2>1. \A u \in Users : PendingOf(byKey, u) = {k \in Keys : k[1] = u /\ Pending(k)} BY DEF PendingOf, Pending
  <2>. QED BY <1>0, <2>1 DEF UsersCounted
<1>10. Report(0).truncated = Report(1).truncated + (IF waiting = <<>> THEN 0 ELSE 1)
  <2>1. waiting = <<>> <=> Len(waiting) = 0 BY <1>0, EmptySeq DEF UploadTypes
  <2>. QED BY <1>2, <2>1, Truncates
<1>. QED BY <1>4, <1>5, <1>6, <1>7, <1>8, <1>9, <1>10 DEF CountersAgree

\* Uploads, queue and history agree at any time: no more uploads run than there are slots, also while a stopped client's
\* goroutines wind down; the counters and the map are those of the jobs (complete, reset of soulseek/uploads.go); a history
\* row says what was sent (recordUpload).
THEOREM UploadsHold == Spec => []UploadsAreSound
<1>1. UploadInv => UploadsAreSound BY SlotsAndRows, TypesHold, CountersHold DEF UploadsAreSound
<1>. QED BY <1>1, UploadsBegin, UploadSteps, PTL DEF Spec

(***************************************************************************)
(* The place in the queue                                                  *)
(***************************************************************************)
\* What a place is.
PlacesTold ==
  \A k \in Keys : byKey[k] # 0 =>
    /\ jobs[byKey[k]].active => Position(k) = 0
    /\ ~jobs[byKey[k]].active => \E i \in 1 .. Len(waiting) : waiting[i] = byKey[k]
    /\ \A i \in 1 .. Len(waiting) : waiting[i] = byKey[k] => Position(k) = i

LEMMA PlacesAre == UploadInv => PlacesTold
<1> SUFFICES ASSUME UploadInv, NEW k \in Keys, byKey[k] # 0
             PROVE /\ jobs[byKey[k]].active => Position(k) = 0
                   /\ ~jobs[byKey[k]].active => \E i \in 1 .. Len(waiting) : waiting[i] = byKey[k]
                   /\ \A i \in 1 .. Len(waiting) : waiting[i] = byKey[k] => Position(k) = i
BY DEF PlacesTold
<1>1. WaitersWait /\ WaitersOnce /\ KeysStand /\ DOMAIN waiting = 1 .. Len(waiting)
BY LenProperties DEF UploadInv, QueueAgrees, UploadTypes
<1>2. jobs[byKey[k]].active => Position(k) = 0 BY DEF Position, Pending
<1>3. ~jobs[byKey[k]].active => \E i \in 1 .. Len(waiting) : waiting[i] = byKey[k] BY <1>1 DEF KeysStand
<1>4. ASSUME NEW i \in 1 .. Len(waiting), waiting[i] = byKey[k] PROVE Position(k) = i
  <2>1. ~jobs[byKey[k]].active BY <1>1, <1>4 DEF WaitersWait
  <2>2. Position(k) = CHOOSE l \in DOMAIN waiting : waiting[l] = byKey[k] BY <2>1 DEF Position, Pending
  <2>3. \A l \in DOMAIN waiting : waiting[l] = byKey[k] => l = i BY <1>1, <1>4 DEF WaitersOnce
  <2>. QED BY <1>1, <1>4, <2>2, <2>3
<1>. QED BY <1>2, <1>3, <1>4

\* No step moves anything into the queue but at its end, or out of it but at its head, unless it is emptied; and a job that
\* is active stays so while its key stands for it.
LEMMA QueueOnward ==
  ASSUME UploadInv, [Next]_vars
  PROVE \/ ResetQueue
        \/ /\ \/ waiting' = waiting
              \/ \E n \in Nat : waiting' = Append(waiting, n)
              \/ waiting # <<>> /\ waiting' = Tail(waiting)
           /\ \A j \in Made : jobs[j].active => jobs'[j].active \/ \A k \in Keys : byKey'[k] # j
<1>0. UploadTypes /\ WaitersWait /\ WaitersOnce /\ KeysStand BY DEF UploadInv, QueueAgrees
<1>1. Len(jobs) \in Nat /\ Made = 1 .. Len(jobs) /\ DOMAIN jobs = Made /\ \A j \in Made : jobs[j] \in UploadJobs
BY <1>0, JobsMade
<1>2. ASSUME NEW j \in Made, NEW b, jobs' = [jobs EXCEPT ![j] = b], waiting' = waiting, jobs[j].active => b.active
      PROVE waiting' = waiting /\ \A l \in Made : jobs[l].active => jobs'[l].active
BY <1>1, <1>2
<1>3. ASSUME NEW user \in Users, Frame(user)
      PROVE /\ waiting' = waiting \/ \E n \in Nat : waiting' = Append(waiting, n)
            /\ \A l \in Made : jobs[l].active => jobs'[l].active
  <2>1. ASSUME NEW key, Enqueue(key)
        PROVE (\E n \in Nat : waiting' = Append(waiting, n)) /\ \A l \in Made : jobs'[l] = jobs[l]
    <3>1. Len(jobs) + 1 \in Nat /\ waiting' = Append(waiting, Len(jobs) + 1) /\ jobs' = Append(jobs, NewJob(key))
      BY <1>1, <2>1 DEF Enqueue
    <3>2. \A l \in 1 .. Len(jobs) : Append(jobs, NewJob(key))[l] = jobs[l] BY <1>0 DEF UploadTypes
    <3>. QED BY <1>1, <3>1, <3>2
  <2>2. ASSUME NEW j \in Made, NEW said \in {"allowed", "declined"}, Deliver(user, j, said)
        PROVE waiting' = waiting /\ \A l \in Made : jobs[l].active => jobs'[l].active
    <3>1. PICK b : b = [jobs[j] EXCEPT !.reply = said] OBVIOUS
    <3>2. jobs' = [jobs EXCEPT ![j] = b] /\ waiting' = waiting BY <2>2, <3>1, Unchanged DEF Deliver
    <3>3. b.active = jobs[j].active BY <1>1, <3>1 DEF UploadJobs
    <3>. QED BY <1>2, <3>2, <3>3
  <2>. QED BY <1>3, <2>1, <2>2 DEF Frame
<1>4. ASSUME NEW j \in Made, NEW status, Ends(j, status) PROVE \A l \in Made : jobs[l].active => jobs'[l].active
  <2>1. PICK r : r = [status |-> status, bytes |-> IF status = "rejected" THEN 0 ELSE BytesSent(j)] OBVIOUS
  <2>2. PICK b : b = [jobs[j] EXCEPT !.at = "record", !.reply = "read", !.low = -1, !.fresh = FALSE, !.slow = FALSE, !.row = r]
    OBVIOUS
  <2>3. jobs' = [jobs EXCEPT ![j] = b] BY <1>4, <2>1, <2>2 DEF Ends
  <2>4. b.active = jobs[j].active BY <1>1, <2>2 DEF UploadJobs
  <2>. QED BY <1>1, <2>3, <2>4
<1>5. ASSUME NEW j \in Made, Return(j)
      PROVE waiting' = waiting /\ \A l \in Made : jobs[l].active => jobs'[l].active \/ \A k \in Keys : byKey'[k] # l
  <2>1. Complete(j) /\ waiting' = waiting BY <1>5 DEF Return
  <2>2. (\A l \in Made : l # j => jobs'[l] = jobs[l]) /\ \A k \in Keys : byKey'[k] = IF byKey[k] = j THEN 0 ELSE byKey[k]
    BY <2>1, Completes
  <2>3. j # 0 BY <1>1
  <2>. QED BY <2>1, <2>2, <2>3
<1>6. ASSUME NEW j \in Made, Upload(j) \/ WriteBlock(j) \/ SampleWindow(j) \/ SamplerCloses(j), ~Return(j)
      PROVE waiting' = waiting /\ \A l \in Made : jobs[l].active => jobs'[l].active
  <2>0. waiting' = waiting
    BY <1>6, Unchanged DEF Upload, Open, Connect, Negotiate, DialFile, ReadOffset, StreamFails, Delivered, RecordUpload,
       WriteBlock, SampleWindow, SamplerCloses
  <2>1. CASE \E status : Ends(j, status) BY <1>4, <2>0, <2>1
  <2>2. CASE ~\E status : Ends(j, status)
    <3>1. \E b : jobs' = [jobs EXCEPT ![j] = b] /\ b.active = jobs[j].active
      <4>0. jobs[j] \in UploadJobs BY <1>1
      <4>1. CASE Open(j)
        <5>1. PICK b : b = [jobs[j] EXCEPT !.at = "connect"] OBVIOUS
        <5>2. jobs' = [jobs EXCEPT ![j] = b] BY <2>2, <4>1, <5>1 DEF Open
        <5>9. b.active = jobs[j].active BY <4>0, <5>1 DEF UploadJobs
        <5>. QED BY <5>2, <5>9
      <4>2. CASE Connect(j)
        <5>1. PICK b : b = [jobs[j] EXCEPT !.at = "negotiate"] OBVIOUS
        <5>2. jobs' = [jobs EXCEPT ![j] = b] BY <2>2, <4>2, <5>1 DEF Connect
        <5>9. b.active = jobs[j].active BY <4>0, <5>1 DEF UploadJobs
        <5>. QED BY <5>2, <5>9
      <4>3. CASE Negotiate(j)
        <5>1. PICK b : b = [jobs[j] EXCEPT !.at = "dial", !.reply = "read"] OBVIOUS
        <5>2. jobs' = [jobs EXCEPT ![j] = b] BY <2>2, <4>3, <5>1 DEF Negotiate
        <5>9. b.active = jobs[j].active BY <4>0, <5>1 DEF UploadJobs
        <5>. QED BY <5>2, <5>9
      <4>4. CASE DialFile(j)
        <5>1. PICK b : b = [jobs[j] EXCEPT !.at = "offset"] OBVIOUS
        <5>2. jobs' = [jobs EXCEPT ![j] = b] BY <2>2, <4>4, <5>1 DEF DialFile
        <5>9. b.active = jobs[j].active BY <4>0, <5>1 DEF UploadJobs
        <5>. QED BY <5>2, <5>9
      <4>5. CASE ReadOffset(j)
        <5>1. PICK offset \in 0 .. MaxSize :
                jobs' = [jobs EXCEPT ![j] = [@ EXCEPT !.sent = offset, !.start = offset,
                                                     !.at = IF offset < MaxSize THEN "body" ELSE "flush"]]
          BY <2>2, <4>5 DEF ReadOffset
        <5>2. PICK to : to = IF offset < MaxSize THEN "body" ELSE "flush" OBVIOUS
        <5>3. PICK b : b = [jobs[j] EXCEPT !.sent = offset, !.start = offset, !.at = to] OBVIOUS
        <5>4. jobs' = [jobs EXCEPT ![j] = b] BY <5>1, <5>2, <5>3
        <5>9. b.active = jobs[j].active BY <4>0, <5>3 DEF UploadJobs
        <5>. QED BY <5>4, <5>9
      <4>6. CASE RecordUpload(j)
        <5>1. PICK b : b = [jobs[j] EXCEPT !.at = "return"] OBVIOUS
        <5>2. jobs' = [jobs EXCEPT ![j] = b] BY <4>6, <5>1 DEF RecordUpload
        <5>9. b.active = jobs[j].active BY <4>0, <5>1 DEF UploadJobs
        <5>. QED BY <5>2, <5>9
      <4>7. CASE WriteBlock(j)
        <5>1. PICK to : to = IF jobs[j].sent + 1 = MaxSize THEN "flush" ELSE "body" OBVIOUS
        <5>2. PICK b : b = [jobs[j] EXCEPT !.sent = jobs[j].sent + 1, !.written = jobs[j].written + 1, !.fresh = TRUE, !.at = to]
          OBVIOUS
        <5>3. jobs' = [jobs EXCEPT ![j] = b] BY <4>7, <5>1, <5>2 DEF WriteBlock
        <5>9. b.active = jobs[j].active BY <4>0, <5>2 DEF UploadJobs
        <5>. QED BY <5>3, <5>9
      <4>8. CASE SampleWindow(j)
        <5>1. PICK low : low = IF jobs[j].low = -1 \/ jobs[j].fresh THEN 0 ELSE jobs[j].low + 1 OBVIOUS
        <5>2. PICK b : b = [jobs[j] EXCEPT !.low = low, !.fresh = FALSE] OBVIOUS
        <5>3. jobs' = [jobs EXCEPT ![j] = b] BY <4>8, <5>1, <5>2 DEF SampleWindow
        <5>9. b.active = jobs[j].active BY <4>0, <5>2 DEF UploadJobs
        <5>. QED BY <5>3, <5>9
      <4>9. CASE SamplerCloses(j)
        <5>1. PICK b : b = [jobs[j] EXCEPT !.slow = TRUE] OBVIOUS
        <5>2. jobs' = [jobs EXCEPT ![j] = b] BY <4>9, <5>1 DEF SamplerCloses
        <5>9. b.active = jobs[j].active BY <4>0, <5>1 DEF UploadJobs
        <5>. QED BY <5>2, <5>9
      <4>10. ~StreamFails(j) /\ ~Delivered(j) BY <2>2 DEF StreamFails, Delivered
      <4>. QED BY <1>6, <4>1, <4>2, <4>3, <4>4, <4>5, <4>6, <4>7, <4>8, <4>9, <4>10 DEF Upload
    <3>. QED BY <1>2, <2>0, <3>1
  <2>. QED BY SMTT(40), <2>1, <2>2
<1>7. ASSUME Dispatch
      PROVE /\ waiting' = waiting \/ (waiting # <<>> /\ waiting' = Tail(waiting))
            /\ \A l \in Made : jobs[l].active => jobs'[l].active
  <2>1. CASE active >= Slots \/ waiting = <<>> BY <1>7, <2>1 DEF Dispatch
  <2>2. CASE ~(active >= Slots \/ waiting = <<>>)
    <3>1. waiting # <<>> /\ waiting' = Tail(waiting) BY <1>7, <2>2 DEF Dispatch
    <3>2. Head(waiting) \in Made BY <1>0, <3>1, QueueMovesUp
    <3>3. PICK b : b = [jobs[Head(waiting)] EXCEPT !.active = TRUE, !.at = "open"] OBVIOUS
    <3>4. jobs' = [jobs EXCEPT ![Head(waiting)] = b] BY <1>7, <2>2, <3>3 DEF Dispatch
    <3>5. b.active = TRUE BY <1>1, <3>2, <3>3 DEF UploadJobs
    <3>. QED BY <1>1, <3>1, <3>2, <3>4, <3>5
  <2>. QED BY <2>1, <2>2
<1>8. ASSUME DispatchRefused
      PROVE /\ waiting # <<>> /\ waiting' = Tail(waiting)
            /\ \A l \in Made : jobs[l].active => jobs'[l].active
  <2>1. waiting # <<>> /\ waiting' = Tail(waiting) /\ Complete(Head(waiting)) BY <1>8 DEF DispatchRefused
  <2>2. Head(waiting) \in Made /\ Head(waiting) = waiting[1] /\ 1 \in 1 .. Len(waiting) BY <1>0, <2>1, QueueMovesUp
  <2>3. \A l \in Made : l # Head(waiting) => jobs'[l] = jobs[l] BY <2>1, <2>2, Completes
  <2>4. ~jobs[Head(waiting)].active BY <1>0, <2>2 DEF WaitersWait
  <2>. QED BY <2>1, <2>3, <2>4
<1>9. CASE DispatcherWakes \/ Cancel \/ Rescan \/ UNCHANGED vars BY <1>9 DEF DispatcherWakes, Cancel, Rescan, vars, queue
<1>10. CASE DispatcherLeaves \/ BeginLifecycle \/ StopLifecycle BY <1>10 DEF DispatcherLeaves, BeginLifecycle, StopLifecycle
<1>. QED BY <1>3, <1>5, <1>6, <1>7, <1>8, <1>9, <1>10 DEF Next, Dispatcher

\* Nobody who waits is told a worse place than before: the queue is served from its head (position, dispatch).
THEOREM PlaceOnlyFalls == Spec => PlaceNeverGrows
<1>1. UploadInv /\ UploadInv' /\ PlacesTold /\ PlacesTold' /\ [Next]_vars =>
        [\A k \in Keys : Pending(k) /\ byKey'[k] = byKey[k] => Position(k)' <= Position(k)]_vars
  <2> SUFFICES ASSUME UploadInv, UploadInv', PlacesTold, PlacesTold', [Next]_vars, NEW k \in Keys,
                      Pending(k), byKey'[k] = byKey[k]
               PROVE Position(k)' <= Position(k)
    OBVIOUS
  <2>0. UploadTypes /\ KeysStand /\ WaitersWait /\ WaitersOnce BY DEF UploadInv, QueueAgrees
  <2>1. byKey[k] # 0 /\ byKey'[k] # 0 /\ byKey[k] \in Made BY <2>0 DEF Pending, KeysStand
  <2>2. ~ResetQueue BY <2>1 DEF ResetQueue
  <2>3. /\ \/ waiting' = waiting
           \/ \E n \in Nat : waiting' = Append(waiting, n)
           \/ waiting # <<>> /\ waiting' = Tail(waiting)
        /\ jobs[byKey[k]].active => jobs'[byKey[k]].active
    BY <2>1, <2>2, QueueOnward
  <2>4. jobs'[byKey'[k]].active => Position(k)' = 0 BY <2>1 DEF PlacesTold
  <2>5. \A i \in 1 .. Len(waiting') : waiting'[i] = byKey'[k] => Position(k)' = i BY <2>1 DEF PlacesTold
  <2>6. CASE jobs[byKey[k]].active
    <3>1. Position(k) = 0 BY <2>1, <2>6 DEF PlacesTold
    <3>. QED BY <2>3, <2>4, <2>6, <3>1
  <2>7. CASE ~jobs[byKey[k]].active
    <3>0. waiting \in Seq(Nat) /\ Len(waiting) \in Nat BY <2>0, LenProperties DEF UploadTypes
    <3>1. PICK i \in 1 .. Len(waiting) : waiting[i] = byKey[k] BY <2>1, <2>7 DEF PlacesTold
    <3>2. Position(k) = i BY <2>1, <3>1 DEF PlacesTold
    <3>3. CASE waiting' = waiting BY <2>5, <3>0, <3>1, <3>2, <3>3
    <3>4. ASSUME NEW n \in Nat, waiting' = Append(waiting, n) PROVE Position(k)' <= Position(k)
      <4>1. Len(waiting') = Len(waiting) + 1 /\ waiting'[i] = waiting[i] BY <3>0, <3>4, AppendProperties
      <4>2. i \in 1 .. Len(waiting') BY <3>0, <4>1
      <4>. QED BY <2>5, <3>1, <3>2, <4>1, <4>2
    <3>5. CASE waiting # <<>> /\ waiting' = Tail(waiting)
      <4>1. \A l \in 1 .. Len(waiting) : l # 1 => l - 1 \in 1 .. Len(waiting') /\ waiting'[l - 1] = waiting[l]
        BY <2>0, <3>5, QueueMovesUp
      <4>2. CASE i # 1
        <5>1. i - 1 \in 1 .. Len(waiting') /\ waiting'[i - 1] = byKey'[k] BY <3>1, <4>1, <4>2
        <5>2. Position(k)' = i - 1 BY <2>5, <5>1
        <5>. QED BY <3>0, <3>2, <5>2
      <4>3. CASE i = 1
        <5>1. \A l \in 1 .. Len(waiting') : waiting'[l] # Head(waiting) BY <2>0, <3>5, QueueMovesUp
        <5>2. Head(waiting) = waiting[1] BY <2>0, <3>5, QueueMovesUp
        <5>3. jobs'[byKey'[k]].active
          <6>1. ~jobs'[byKey'[k]].active => \E l \in 1 .. Len(waiting') : waiting'[l] = byKey'[k] BY <2>1 DEF PlacesTold
          <6>. QED BY <3>1, <4>3, <5>1, <5>2, <6>1
        <5>. QED BY <2>4, <3>2, <4>3, <5>3
      <4>. QED BY <4>2, <4>3
    <3>. QED BY <2>3, <3>3, <3>4, <3>5
  <2>. QED BY <2>6, <2>7
<1>. QED BY <1>1, UploadsBegin, UploadSteps, PlacesAre, PTL DEF Spec, PlaceNeverGrows
====
