-------------------------- MODULE RemoteTransfers --------------------------
(***************************************************************************)
(* What a peer backend promises the pipeline about its transfers: the      *)
(* states that ListDownloads may show one after the other for one key, and *)
(* the file that a completed transfer stands for.  NativeDownloads         *)
(* implements it.                                                          *)
(***************************************************************************)
CONSTANTS Keys
VARIABLES state, stored
vars == <<state, stored>>

Active == {"QUEUED", "IN_PROGRESS"}
Ended == {"COMPLETED", "ERRORED", "CANCELLED"}

Sets(k, s) == state' = [state EXCEPT ![k] = s]

\* Enqueue and Remove; neither touches what is stored under the key.
Enqueue(k) == state[k] = "NONE" /\ Sets(k, "QUEUED") /\ UNCHANGED stored
Remove(k) == state[k] # "NONE" /\ Sets(k, "NONE") /\ UNCHANGED stored

\* The file is in place before the transfer is shown as completed, and it may
\* be in place though the transfer is not: a cancel in the last instant wins.
Store(k) == stored' = [stored EXCEPT ![k] = TRUE] /\ UNCHANGED state
Start(k) == state[k] = "QUEUED" /\ Sets(k, "IN_PROGRESS") /\ UNCHANGED stored
Complete(k) == state[k] = "IN_PROGRESS" /\ stored[k] /\ Sets(k, "COMPLETED") /\ UNCHANGED stored

\* As long as it is not, the file may be replaced by part of one: a Remove that
\* gave up waiting leaves a goroutine that renames its successor's partial file.
Overwrite(k) == state[k] # "COMPLETED" /\ stored' = [stored EXCEPT ![k] = FALSE] /\ UNCHANGED state

\* A completed transfer cannot be cancelled; an ended one may still change
\* between failed and cancelled.
Fail(k) == state[k] \in Active \cup {"CANCELLED"} /\ Sets(k, "ERRORED") /\ UNCHANGED stored
Cancel(k) == state[k] \in Active \cup {"ERRORED"} /\ Sets(k, "CANCELLED") /\ UNCHANGED stored

\* The backend may forget everything at once: it restarts.
Forget == state' = [k \in Keys |-> "NONE"] /\ UNCHANGED stored

Init == state = [k \in Keys |-> "NONE"] /\ stored = [k \in Keys |-> FALSE]
Next == Forget \/ \E k \in Keys : Enqueue(k) \/ Remove(k) \/ Store(k) \/ Overwrite(k) \/ Start(k) \/ Complete(k) \/ Fail(k) \/ Cancel(k)
Spec == Init /\ [][Next]_vars

\* No transfer stays active: every wait of its goroutine has a time limit.
TransfersEnd == \A k \in Keys : state[k] \in Active ~> state[k] \notin Active

\* What the pipeline may rely on.
Backend == Spec /\ TransfersEnd
=============================================================================
