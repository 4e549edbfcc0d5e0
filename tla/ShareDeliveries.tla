---------------------------- MODULE ShareDeliveries ----------------------------
(* How a search that reached us is answered (respondToSearch in             *)
(* soulseek/shares.go) and the contents of a folder are served, within      *)
(* their worker slots: a request is claimed a slot on a reader's goroutine  *)
(* and worked on in one the client's lifecycle tracks; what was delivered   *)
(* is remembered for a while, so that the tree's many copies of a search    *)
(* are answered once. What is found is in ShareLookups.                     *)
EXTENDS Integers, FiniteSets

CONSTANTS Requests, Deliveries \* bounds: of (request -> key, or "folder"), workers, deliverers, cap, stops

VARIABLES
  delivery,  \* the bounds of this behaviour
  shareLife, \* the client's lifecycle: up, stopping, down
  at,        \* request -> where its goroutine is
  matching,  \* shareWorkers: slots taken
  sending,   \* deliverWorkers: slots taken
  inFlight,  \* searchDeliveryInFlight
  recent,    \* searchDeliveries: the keys with an expiry that lies ahead
  expired,   \* ... and the keys whose expiry has passed
  answers    \* key -> answers sent since it was last forgotten

deliveryVars == <<delivery, shareLife, at, matching, sending, inFlight, recent, expired, answers>>

Keys == {"first", "second"}
Init ==
  /\ delivery \in Deliveries /\ shareLife = "up" /\ at = [r \in Requests |-> "new"]
  /\ matching = 0 /\ sending = 0 /\ inFlight = {} /\ recent = {} /\ expired = {} /\ answers = [k \in Keys |-> 0]

Key(r) == delivery.of[r]
Goes(r, from, to) == at[r] = from /\ at' = [at EXCEPT ![r] = to]
LedgerUnchanged == UNCHANGED <<inFlight, recent, expired, answers>>
Fixed == UNCHANGED <<delivery, shareLife>>

\* The slot of shareWorkers, or none: the request is dropped.
ClaimMatchSlot(r) ==
  /\ shareLife # "down" /\ UNCHANGED sending /\ LedgerUnchanged /\ Fixed
  /\ \/ matching < delivery.workers /\ Goes(r, "new", "claimed") /\ matching' = matching + 1
     \/ (matching = delivery.workers \/ shareLife = "stopping") /\ Goes(r, "new", "over") /\ UNCHANGED matching
\* startTracked: refused once the lifecycle is stopping, which gives the slot back.
GiveBackSlot(r) == Goes(r, "claimed", "over") /\ matching' = matching - 1
StartTracked(r) ==
  /\ IF shareLife = "up" THEN Goes(r, "claimed", "match") /\ UNCHANGED matching ELSE GiveBackSlot(r)
  /\ UNCHANGED sending /\ LedgerUnchanged /\ Fixed
FolderContents(r) ==
  /\ Key(r) = "folder" /\ Goes(r, "match", "over") /\ matching' = matching - 1
  /\ UNCHANGED sending /\ LedgerUnchanged /\ Fixed
Match(r) ==
  /\ Key(r) # "folder" /\ \E to \in {"matched", "over"} : Goes(r, "match", to)
  /\ matching' = matching - 1 /\ UNCHANGED sending /\ LedgerUnchanged /\ Fixed

\* reserveSearchDelivery: what has expired goes; at the cap one that was delivered makes room, never one in flight.
Refused(r, evicted) ==
  \/ Key(r) \in inFlight \cup recent
  \/ Cardinality(inFlight) + Cardinality(recent \ evicted) >= delivery.cap
Evicted(r) ==
  IF Key(r) \notin inFlight \cup recent /\ Cardinality(inFlight) + Cardinality(recent) >= delivery.cap /\ recent # {}
  THEN {{k} : k \in recent} ELSE {{}}
Forget(ks) == answers' = [k \in Keys |-> IF k \in ks THEN 0 ELSE answers[k]]
ReserveSearchDelivery(r) ==
  /\ \E evicted \in Evicted(r) :
       /\ recent' = recent \ evicted /\ expired' = {} /\ Forget(evicted)
       /\ IF Refused(r, evicted) THEN Goes(r, "matched", "over") /\ UNCHANGED inFlight
          ELSE Goes(r, "matched", "reserved") /\ inFlight' = inFlight \cup {Key(r)}
  /\ UNCHANGED <<matching, sending>> /\ Fixed
ClaimDeliverySlot(r) ==
  /\ IF sending < delivery.deliverers THEN Goes(r, "reserved", "connect") /\ sending' = sending + 1
     ELSE Goes(r, "reserved", "undelivered") /\ UNCHANGED sending
  /\ UNCHANGED matching /\ LedgerUnchanged /\ Fixed
\* The session may not come about, and its queue may be full.
Deliver(r) ==
  /\ \/ Goes(r, "connect", "delivered") /\ answers' = [answers EXCEPT ![Key(r)] = @ + 1]
     \/ Goes(r, "connect", "undelivered") /\ UNCHANGED answers
  /\ sending' = sending - 1 /\ UNCHANGED <<matching, inFlight, recent, expired>> /\ Fixed
\* Mutant: a reservation that was not answered is kept.
KeepReservation(r) == IF at[r] = "delivered" THEN inFlight \ {Key(r)} ELSE inFlight
DropReservation(r) == inFlight \ {Key(r)}
FinishSearchDelivery(r) ==
  /\ at[r] \in {"delivered", "undelivered"} /\ at' = [at EXCEPT ![r] = "over"]
  /\ inFlight' = DropReservation(r)
  /\ recent' = IF at[r] = "delivered" THEN recent \cup {Key(r)} ELSE recent
  /\ expired' = IF at[r] = "delivered" THEN expired \ {Key(r)} ELSE expired
  /\ UNCHANGED <<matching, sending, answers>> /\ Fixed
\* searchResponseTTL has passed; the entry itself goes with the next reservation.
Expires(k) ==
  /\ k \in recent /\ recent' = recent \ {k} /\ expired' = expired \cup {k} /\ Forget({k})
  /\ UNCHANGED <<at, matching, sending, inFlight>> /\ Fixed

StopClient ==
  /\ shareLife = "up" /\ delivery.stops > 0 /\ shareLife' = "stopping" /\ delivery' = [delivery EXCEPT !.stops = @ - 1]
  /\ UNCHANGED <<at, matching, sending>> /\ LedgerUnchanged
\* stopLifecycle waits for what is tracked; the readers that call respondToSearch are.
ClientStopped ==
  /\ shareLife = "stopping" /\ (\A r \in Requests : at[r] \in {"new", "over"}) /\ shareLife' = "down"
  /\ UNCHANGED <<delivery, at, matching, sending>> /\ LedgerUnchanged
BeginLifecycle ==
  /\ shareLife = "down" /\ shareLife' = "up" /\ UNCHANGED <<delivery, at, matching, sending>> /\ LedgerUnchanged

Works(r) ==
  \/ ClaimMatchSlot(r) \/ StartTracked(r) \/ FolderContents(r) \/ Match(r) \/ ReserveSearchDelivery(r)
  \/ ClaimDeliverySlot(r) \/ Deliver(r) \/ FinishSearchDelivery(r)
Next ==
  \/ \E r \in Requests : Works(r)
  \/ \E k \in Keys : Expires(k)
  \/ StopClient \/ ClientStopped \/ BeginLifecycle
Spec == Init /\ [][Next]_deliveryVars

\* A slot is taken by a request that is at the work it is for, also when the lifecycle refused to start it.
SlotsAreUsed ==
  /\ matching = Cardinality({r \in Requests : at[r] \in {"claimed", "match"}})
  /\ sending = Cardinality({r \in Requests : at[r] = "connect"})

\* A search is answered once until its entry expires or makes room at the cap, however many copies of it arrive at once.
AnsweredOnce == \A k \in Keys : answers[k] <= 1

\* The ledger stays within its cap.
LedgerIsBounded == Cardinality(recent) + Cardinality(expired) + Cardinality(inFlight) <= delivery.cap

\* A copy is turned away only because another has been answered or may still be, or for want of room: an attempt that
\* failed stands in nobody's way (finishSearchDelivery).
RefusedForAReason ==
  [][\A r \in Requests :
       at[r] = "matched" /\ at'[r] = "over" =>
         \/ answers[Key(r)] > 0
         \/ \E o \in Requests \ {r} : at[o] \in {"reserved", "connect", "delivered", "undelivered"} /\ Key(o) = Key(r)
         \/ Cardinality({Key(o) : o \in {q \in Requests : at[q] \in {"reserved", "connect", "delivered", "undelivered"}}}) >= delivery.cap]_deliveryVars

\* A search is answered once and refused only for a reason, with slots and ledger within their limits (reserveSearchDelivery).
DeliveriesAreSound == [](SlotsAreUsed /\ AnsweredOnce /\ LedgerIsBounded) /\ RefusedForAReason
=============================================================================
