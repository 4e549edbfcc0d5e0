------------------------------ MODULE Uploads ------------------------------
(***************************************************************************)
(* Uploads of the native Soulseek client: the queue of requests, the       *)
(* dispatcher that commits a slot to the oldest of them, the goroutine of  *)
(* an upload from the share index to the history row, and what a stop of   *)
(* the client does to all of it.                                           *)
(*                                                                         *)
(* One action is one critical section of uploadManager.mu, or the part of  *)
(* an upload's goroutine between two waits.  A file has MaxSize blocks; a  *)
(* sampler window in which one block is written is above the floor.  The   *)
(* wake channel holds one value.  Requests are bounded by MaxJobs, starts  *)
(* of the client by MaxRuns and changes of the shares by MaxScans.         *)
(***************************************************************************)
EXTENDS Integers, Sequences, FiniteSets, SequencesExt

CONSTANTS
  Users, Names,               \* peers, and the virtual paths of shared files
  Slots,                      \* Config.UploadSlots
  MaxWaiting, MaxPerUser,     \* maxWaitingUploads, maxWaitingUploadsPerUser
  MaxSize, StrikeLimit,       \* blocks of a file; uploadThroughputStrikeLimit
  MaxJobs, MaxRuns, MaxScans  \* bounds

ASSUME UploadsAssumption ==
  {Slots, MaxWaiting, MaxPerUser, MaxSize, StrikeLimit, MaxJobs, MaxRuns, MaxScans} \subseteq Nat

VARIABLES
  life,     \* the client: down, up, cancelled, stopping
  runs, scans,
  dispatcher, \* its loop: off, asleep, scanning, leaving
  wake,     \* the wake channel holds a value
  shared,   \* the files of the published share snapshot
  jobs,     \* every uploadJob made, by its seq; a job outlives its queue entry
  waiting, byKey, active, perUser, byToken  \* uploadManager

vars == <<life, runs, scans, dispatcher, wake, shared, jobs, waiting, byKey, active, perUser, byToken>>
queue == <<waiting, byKey, active, perUser>>

Keys == Users \X Names
User(j) == jobs[j].key[1]
Made == 1 .. Len(jobs)
Running == {"open", "connect", "negotiate", "dial", "offset", "body", "flush", "record", "return"}
NoRecord == [status |-> "none", bytes |-> 0]

\* uploadJob, with the locals of the goroutine that runs it.  written is what
\* its socket took; reply the channel of its response waiter; low the streak
\* of windows below the floor, -1 before the first.
NewJob(key) ==
  [key |-> key, active |-> FALSE, at |-> "waiting", reply |-> "none", sent |-> 0, start |-> 0,
   written |-> 0, low |-> -1, fresh |-> FALSE, slow |-> FALSE, row |-> NoRecord]
\* What is left of its data when it has ended.
Over(j) == [NewJob(jobs[j].key) EXCEPT !.at = "over"]

(*************************************************************************)
(* The queue.                                                            *)
(*************************************************************************)
Pending(key) == byKey[key] # 0
Full(user) == Len(waiting) >= MaxWaiting \/ perUser[user] >= MaxPerUser

\* An unknown file, or a full queue, is answered with a denial.
Enqueue(key) ==
  /\ life # "down"
  /\ Len(jobs) < MaxJobs
  /\ key[2] \in shared /\ ~Pending(key) /\ ~Full(key[1])
  /\ jobs' = Append(jobs, NewJob(key))
  /\ byKey' = [byKey EXCEPT ![key] = Len(jobs) + 1]
  /\ waiting' = Append(waiting, Len(jobs) + 1)
  /\ perUser' = [perUser EXCEPT ![key[1]] = @ + 1]
  /\ wake' = TRUE
  /\ UNCHANGED <<life, runs, scans, dispatcher, shared, active, byToken>>

\* The place a PlaceInQueueRequest is answered with; 0 is streaming, -1 denied.
Position(key) ==
  CASE ~Pending(key) -> -1
    [] Pending(key) /\ jobs[byKey[key]].active -> 0
    [] OTHER -> CHOOSE i \in DOMAIN waiting : waiting[i] = byKey[key]

\* UploadReport, by seq: every active upload, then as many waiting as limit.
Report(limit) ==
  LET live == {byKey[k] : k \in {k \in Keys : Pending(k)}}
      shown == IF limit < Len(waiting) THEN limit ELSE Len(waiting)
  IN [active |-> active, queued |-> Len(waiting), truncated |-> Len(waiting) - shown,
      uploads |-> SetToSortSeq({j \in live : jobs[j].active}, <) \o SubSeq(waiting, 1, shown)]

ResetQueue ==
  /\ jobs' = [j \in Made |->
       IF j \in {byKey[k] : k \in Keys} THEN [jobs[j] EXCEPT !.active = FALSE] ELSE jobs[j]]
  /\ active' = 0 /\ waiting' = <<>> /\ byToken' = {}
  /\ byKey' = [k \in Keys |-> 0] /\ perUser' = [u \in Users |-> 0]

(*************************************************************************)
(* The dispatcher.                                                       *)
(*************************************************************************)
\* ctx is done in every state but up; lifeStopping is set in stopping.
Cancelled == life # "up"

DispatcherWakes ==
  /\ dispatcher = "asleep" /\ wake
  /\ dispatcher' = "scanning" /\ wake' = FALSE
  /\ UNCHANGED <<life, runs, scans, shared, jobs, byToken, queue>>

\* The head of the queue takes a free slot.  The context may have been
\* cancelled since the loop looked at it.
Dispatch ==
  /\ dispatcher = "scanning"
  /\ IF active >= Slots \/ waiting = <<>>
     THEN dispatcher' = "asleep" /\ UNCHANGED <<jobs, waiting, active>>
     ELSE /\ life # "stopping"
          /\ waiting' = Tail(waiting)
          /\ active' = active + 1
          /\ jobs' = [jobs EXCEPT ![Head(waiting)] = [@ EXCEPT !.active = TRUE, !.at = "open"]]
          /\ UNCHANGED dispatcher
  /\ UNCHANGED <<life, runs, scans, wake, shared, byKey, perUser, byToken>>

\* Mutant: a finished upload does not wake the dispatcher.
CompleteSilently(j) ==
  /\ IF byKey[jobs[j].key] = j
     THEN /\ byKey' = [byKey EXCEPT ![jobs[j].key] = 0]
          /\ perUser' = [perUser EXCEPT ![User(j)] = @ - 1]
     ELSE UNCHANGED <<byKey, perUser>>
  /\ active' = IF jobs[j].active THEN active - 1 ELSE active
  /\ jobs' = [jobs EXCEPT ![j] = Over(j)]
  /\ UNCHANGED wake

\* Only the entry that is still this job's is removed, and a slot that reset
\* has taken back is not given back again.
Complete(j) ==
  /\ IF byKey[jobs[j].key] = j
     THEN /\ byKey' = [byKey EXCEPT ![jobs[j].key] = 0]
          /\ perUser' = [perUser EXCEPT ![User(j)] = @ - 1]
     ELSE UNCHANGED <<byKey, perUser>>
  /\ active' = IF jobs[j].active THEN active - 1 ELSE active
  /\ jobs' = [jobs EXCEPT ![j] = Over(j)]
  /\ wake' = TRUE

\* startTracked refuses the goroutine: the job is completed at once.
DispatchRefused ==
  /\ dispatcher = "scanning" /\ life = "stopping"
  /\ active < Slots /\ waiting # <<>>
  /\ Complete(Head(waiting))
  /\ waiting' = Tail(waiting)
  /\ dispatcher' = "leaving"
  /\ UNCHANGED <<life, runs, scans, shared, byToken>>

DispatcherLeaves ==
  /\ dispatcher \in {"asleep", "scanning", "leaving"} /\ Cancelled
  /\ dispatcher' = "off"
  /\ ResetQueue
  /\ UNCHANGED <<life, runs, scans, wake, shared>>

Dispatcher == DispatcherWakes \/ Dispatch \/ DispatchRefused \/ DispatcherLeaves

(*************************************************************************)
(* The goroutine of an upload (runUpload); row is what recordUpload is     *)
(* called with.                                                          *)
(*************************************************************************)
UploadUnchanged == UNCHANGED <<life, runs, scans, dispatcher, wake, shared, queue>>

\* Saturates at zero.
BytesSent(j) == IF jobs[j].sent < jobs[j].start THEN 0 ELSE jobs[j].sent - jobs[j].start

Ends(j, status) ==
  jobs' = [jobs EXCEPT ![j] = [@ EXCEPT
            !.at = "record", !.reply = "read", !.low = -1, !.fresh = FALSE, !.slow = FALSE,
            !.row = [status |-> status, bytes |-> IF status = "rejected" THEN 0 ELSE BytesSent(j)]]]

\* The file has left the index, or is not on disk what the scan saw.
Open(j) ==
  /\ jobs[j].at = "open"
  /\ \/ Ends(j, "rejected")
     \/ jobs[j].key[2] \in shared /\ jobs' = [jobs EXCEPT ![j].at = "connect"]
  /\ UploadUnchanged /\ UNCHANGED byToken

RegisterToken(j) == byToken \cup {j}
UnregisterToken(j) == byToken \ {j}

\* The session, the token, and the request, which the session may not take.
Connect(j) ==
  /\ jobs[j].at = "connect"
  /\ \/ Ends(j, "rejected") /\ byToken' \in {byToken, RegisterToken(j)}
     \/ jobs' = [jobs EXCEPT ![j].at = "negotiate"] /\ byToken' = RegisterToken(j)
  /\ UploadUnchanged

\* The timer, or a cancelled context, may win over an answer that is there.
Negotiate(j) ==
  /\ jobs[j].at = "negotiate"
  /\ \/ jobs[j].reply = "allowed" /\ jobs' = [jobs EXCEPT ![j] = [@ EXCEPT !.at = "dial", !.reply = "read"]]
     \/ Ends(j, "rejected")
  /\ UploadUnchanged /\ UNCHANGED byToken

\* The file connection is a connection of its own.
DialFile(j) ==
  /\ jobs[j].at = "dial"
  /\ \/ Ends(j, "aborted")
     \/ jobs' = [jobs EXCEPT ![j].at = "offset"]
  /\ UploadUnchanged /\ UNCHANGED byToken

\* The offset the peer resumes from, which may be beyond the end.
ReadOffset(j) ==
  /\ jobs[j].at = "offset"
  /\ \/ Ends(j, "aborted")
     \/ \E offset \in 0 .. MaxSize :
          jobs' = [jobs EXCEPT ![j] = [@ EXCEPT !.sent = offset, !.start = offset,
                                                !.at = IF offset < MaxSize THEN "body" ELSE "flush"]]
  /\ UploadUnchanged /\ UNCHANGED byToken

\* The sampler has closed the socket when slow is set.
WriteBlock(j) ==
  /\ jobs[j].at = "body" /\ ~jobs[j].slow
  /\ jobs' = [jobs EXCEPT ![j] = [@ EXCEPT
                !.sent = jobs[j].sent + 1, !.written = jobs[j].written + 1, !.fresh = TRUE,
                !.at = IF jobs[j].sent + 1 = MaxSize THEN "flush" ELSE "body"]]
  /\ UploadUnchanged /\ UNCHANGED byToken

StreamFails(j) ==
  /\ jobs[j].at \in {"body", "flush"}
  /\ Ends(j, "aborted")
  /\ UploadUnchanged /\ UNCHANGED byToken

\* The first window is grace.
SampleWindow(j) ==
  /\ jobs[j].at = "body" /\ jobs[j].low < StrikeLimit
  /\ jobs' = [jobs EXCEPT ![j] = [@ EXCEPT
                !.low = IF jobs[j].low = -1 \/ jobs[j].fresh THEN 0 ELSE jobs[j].low + 1, !.fresh = FALSE]]
  /\ UploadUnchanged /\ UNCHANGED byToken

\* The copy may have ended after the sampler found it running.
SamplerCloses(j) ==
  /\ jobs[j].at \in {"body", "flush"} /\ jobs[j].low = StrikeLimit /\ ~jobs[j].slow
  /\ jobs' = [jobs EXCEPT ![j].slow = TRUE]
  /\ UploadUnchanged /\ UNCHANGED byToken

\* The downloader closes the connection.
Delivered(j) ==
  /\ jobs[j].at = "flush" /\ ~jobs[j].slow
  /\ Ends(j, "completed")
  /\ UploadUnchanged /\ UNCHANGED byToken

\* The row is written, or the sink fails and nothing is retried.
RecordUpload(j) ==
  /\ jobs[j].at = "record"
  /\ jobs' = [jobs EXCEPT ![j].at = "return"]
  /\ UploadUnchanged /\ UNCHANGED byToken

\* The deferred unregisterToken and complete.
Return(j) ==
  /\ jobs[j].at = "return"
  /\ Complete(j)
  /\ byToken' = UnregisterToken(j)
  /\ UNCHANGED <<life, runs, scans, dispatcher, shared, waiting>>

Upload(j) == Open(j) \/ Connect(j) \/ Negotiate(j) \/ DialFile(j) \/ ReadOffset(j) \/ StreamFails(j) \/ Delivered(j)
             \/ RecordUpload(j) \/ Return(j)

\* A TransferResponse counts when the user it comes from is the job's; the
\* channel holds one.
Deliver(user, j, answer) ==
  /\ life # "down"
  /\ j \in byToken /\ User(j) = user /\ jobs[j].reply = "none"
  /\ jobs' = [jobs EXCEPT ![j].reply = answer]
  /\ UploadUnchanged /\ UNCHANGED byToken

\* What a session of the user may bring; a question for the place, an unknown
\* file and a full queue only draw an answer.
Frame(user) ==
  \/ \E name \in Names : Enqueue(<<user, name>>)
  \/ \E j \in Made, answer \in {"allowed", "declined"} : Deliver(user, j, answer)

(*************************************************************************)
(* The client's life, and the shares.                                    *)
(*************************************************************************)
BeginLifecycle ==
  /\ life = "down" /\ runs < MaxRuns
  /\ life' = "up" /\ runs' = runs + 1 /\ dispatcher' = "asleep"
  /\ ResetQueue
  /\ UNCHANGED <<scans, wake, shared>>

\* ctx ends, or Run leaves its loop; then stopLifecycle.
Cancel ==
  /\ life \in {"up", "cancelled"}
  /\ life' = IF life = "up" THEN "cancelled" ELSE "stopping"
  /\ UNCHANGED <<runs, scans, dispatcher, wake, shared, jobs, byToken, queue>>

\* Mutant: the client is down while uploads still wind down.
StopWithoutWait ==
  /\ life = "stopping"
  /\ dispatcher = "off"
  /\ life' = "down"
  /\ ResetQueue
  /\ UNCHANGED <<runs, scans, dispatcher, wake, shared>>

\* lifeWG.Wait, then the last reset: a session hook may have queued a job
\* after the dispatcher's.
StopLifecycle ==
  /\ life = "stopping"
  /\ dispatcher = "off" /\ \A j \in Made : jobs[j].at \notin Running
  /\ life' = "down"
  /\ ResetQueue
  /\ UNCHANGED <<runs, scans, dispatcher, wake, shared>>

Rescan ==
  /\ scans < MaxScans
  /\ scans' = scans + 1
  /\ \E files \in SUBSET Names : shared' = files
  /\ UNCHANGED <<life, runs, dispatcher, wake, jobs, byToken, queue>>

Init ==
  /\ life = "down" /\ runs = 0 /\ scans = 0 /\ dispatcher = "off" /\ wake = FALSE
  /\ shared = Names /\ jobs = <<>> /\ waiting = <<>> /\ active = 0 /\ byToken = {}
  /\ byKey = [k \in Keys |-> 0] /\ perUser = [u \in Users |-> 0]

Next ==
  \/ \E user \in Users : Frame(user)
  \/ Dispatcher
  \/ \E j \in Made : Upload(j) \/ WriteBlock(j) \/ SampleWindow(j) \/ SamplerCloses(j)
  \/ BeginLifecycle \/ Cancel \/ StopLifecycle \/ Rescan

\* Goroutines run; each wait of an upload has a deadline; a cancelled client
\* is stopped.  Nobody has to ask for a file, answer or stop the client.
Fairness ==
  /\ WF_vars(Dispatcher)
  /\ WF_vars(life = "cancelled" /\ Cancel)
  /\ WF_vars(StopLifecycle)
  /\ \A j \in 1 .. MaxJobs : WF_vars(j \in Made /\ Upload(j))

Spec == Init /\ [][Next]_vars /\ Fairness
-----------------------------------------------------------------------------
TypeOK ==
  /\ life \in {"down", "up", "cancelled", "stopping"} /\ runs \in 0 .. MaxRuns /\ scans \in 0 .. MaxScans
  /\ dispatcher \in {"off", "asleep", "scanning", "leaving"} /\ wake \in BOOLEAN
  /\ shared \subseteq Names
  /\ \A j \in Made :
       /\ jobs[j].key \in Keys /\ jobs[j].at \in Running \cup {"waiting", "over"}
       /\ jobs[j].low \in -1 .. StrikeLimit /\ jobs[j].start \in 0 .. jobs[j].sent /\ jobs[j].sent \in 0 .. MaxSize
  /\ waiting \in Seq(Made) /\ byKey \in [Keys -> 0 .. MaxJobs] /\ byToken \subseteq Made
  /\ active \in 0 .. Slots /\ perUser \in [Users -> 0 .. MaxPerUser]

\* No more goroutines upload at once than there are slots, over a stop of the
\* client and the next start too, where reset forgets the running jobs.
SlotsHeld == Cardinality({j \in Made : jobs[j].at \in Running}) <= Slots

\* The counters and the map agree with the jobs: byKey holds exactly the
\* waiting and the active ones, active counts the latter, perUser counts
\* every user's entries.  A job that outlives a reset disturbs none of them.
CountersAgree ==
  LET live == {byKey[k] : k \in {k \in Keys : Pending(k)}} IN
  /\ \A k \in Keys : Pending(k) => jobs[byKey[k]].key = k
  /\ live = ToSet(waiting) \cup {j \in Made : jobs[j].active}
  /\ ToSet(waiting) \cap {j \in Made : jobs[j].active} = {} /\ IsInjective(waiting)
  /\ active = Cardinality({j \in live : jobs[j].active})
  /\ \A u \in Users : perUser[u] = Cardinality({k \in Keys : k[1] = u /\ Pending(k)})
  /\ Report(0).truncated = Report(1).truncated + (IF waiting = <<>> THEN 0 ELSE 1)

\* A peer that asks for its place again is never told a worse one while its
\* request stays in the queue.
PlaceNeverGrows ==
  [][\A k \in Keys : Pending(k) /\ byKey'[k] = byKey[k] => Position(k)' <= Position(k)]_vars

\* The history row tells the truth about the attempt: its bytes are what the
\* socket took above the resume offset, a completed upload reached the end of
\* the file, a rejected one sent nothing.
RowTellsVolume ==
  \A j \in Made : jobs[j].row.status # "none" =>
    /\ jobs[j].row.bytes = jobs[j].written
    /\ jobs[j].row.status = "completed" => jobs[j].start + jobs[j].written = MaxSize
    /\ jobs[j].row.status = "rejected" => jobs[j].written = 0

\* Every queued request leaves the queue: its turn comes, or the client
\* stops.  No wake-up of the dispatcher is lost on the way.
EveryRequestEnds == \A k \in Keys : Pending(k) ~> ~Pending(k)

\* Slots, queue, counters and history agree with what the uploads really do, over a stop and the next start (complete, reset).
UploadsAreSound == TypeOK /\ SlotsHeld /\ CountersAgree /\ RowTellsVolume

\* Who asks for a file moves forward in the queue and comes to its end (position, dispatch).
RequestsAreServed == PlaceNeverGrows /\ EveryRequestEnds
=============================================================================
