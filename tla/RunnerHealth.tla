----------------------------- MODULE RunnerHealth -----------------------------
(* What the runner says of its modules (pipeline/runner.go): every module   *)
(* ticks at its interval, a tick may take as long as its time limit and     *)
(* may fail, panic or hang; /healthz and /readyz are answered from the time *)
(* of the last attempt and the failures in a row. Time counts in units of   *)
(* which an interval has few; a ticker keeps one tick for a slow reader.    *)
EXTENDS Integers, Sequences

CONSTANTS
  Modules,
  HealthScopes \* Interval and TickTimeout, ticks that fail, hang

VARIABLES
  timing,  \* the numbers of this behaviour
  loop,    \* module -> waiting, ticking or hung
  since,   \* module -> time since its last attempt, up to where nothing changes any more
  ticker,  \* module -> time to the next tick of its ticker, and whether one is kept
  status   \* module -> ConsecutiveFailures up to the threshold, whether it ever succeeded

healthVars == <<timing, loop, since, ticker, status>>

ReadinessFailureThreshold == 3
StaleDeadline == timing.interval * 3 + timing.limit

Init ==
  /\ timing \in HealthScopes
  /\ loop = [m \in Modules |-> "ticking"] /\ since = [m \in Modules |-> 0]
  /\ ticker = [m \in Modules |-> [left |-> timing.interval, kept |-> FALSE]]
  /\ status = [m \in Modules |-> [failures |-> 0, succeeded |-> FALSE]]

\* runTick stores the attempt before the module's Tick.
Begin(m) ==
  /\ loop[m] = "waiting" /\ ticker[m].kept
  /\ loop' = [loop EXCEPT ![m] = "ticking"] /\ since' = [since EXCEPT ![m] = 0]
  /\ ticker' = [ticker EXCEPT ![m].kept = FALSE]
  /\ UNCHANGED <<timing, status>>
\* The ticker is made after the first tick.
Rearm(m) == IF status[m].failures = 0 /\ ~status[m].succeeded THEN [ticker EXCEPT ![m] = [left |-> timing.interval, kept |-> FALSE]] ELSE ticker
Recorded(m, ok) ==
  IF ok THEN [failures |-> 0, succeeded |-> TRUE]
  ELSE [status[m] EXCEPT !.failures = IF @ < ReadinessFailureThreshold THEN @ + 1 ELSE @]
\* A tick returns, or panics, which counts as an error.
Finish(m, ok) ==
  /\ loop[m] = "ticking"
  /\ ok \/ timing.failing > 0
  /\ timing' = IF ok THEN timing ELSE [timing EXCEPT !.failing = @ - 1]
  /\ loop' = [loop EXCEPT ![m] = "waiting"] /\ ticker' = Rearm(m)
  /\ status' = [status EXCEPT ![m] = Recorded(m, ok)]
  /\ UNCHANGED since
\* A tick that does not mind its context.
Hang(m) ==
  /\ loop[m] = "ticking" /\ timing.hangs > 0
  /\ timing' = [timing EXCEPT !.hangs = @ - 1] /\ loop' = [loop EXCEPT ![m] = "hung"]
  /\ UNCHANGED <<since, ticker, status>>

\* A unit of time, before which what is due is done: a kept tick begins, a tick whose time limit has come returns.
Due(m) == (loop[m] = "waiting" /\ ticker[m].kept) \/ (loop[m] = "ticking" /\ since[m] >= timing.limit)
\* Mutant: the start of an attempt counts as a success.
PassStoringAttempts ==
  /\ \A m \in Modules : ~Due(m)
  /\ since' = [m \in Modules |-> IF ticker[m].left = 1 THEN 0 ELSE since[m] + 1]
  /\ ticker' = [m \in Modules |->
       IF ticker[m].left > 1 THEN [ticker[m] EXCEPT !.left = @ - 1] ELSE [left |-> timing.interval, kept |-> TRUE]]
  /\ UNCHANGED <<timing, loop, status>>
Pass ==
  /\ \A m \in Modules : ~Due(m)
  /\ since' = [m \in Modules |-> IF since[m] > StaleDeadline THEN since[m] ELSE since[m] + 1]
  /\ ticker' = [m \in Modules |->
       IF ticker[m].left > 1 THEN [ticker[m] EXCEPT !.left = @ - 1] ELSE [left |-> timing.interval, kept |-> TRUE]]
  /\ UNCHANGED <<timing, loop, status>>

Next == Pass \/ \E m \in Modules : Begin(m) \/ Hang(m) \/ \E ok \in BOOLEAN : Finish(m, ok)
\* Time passes: what is due is done, and then there is a later time.
HealthFairness == WF_healthVars(Pass) /\ \A m \in Modules : WF_healthVars(Due(m) /\ (Begin(m) \/ \E ok \in BOOLEAN : Finish(m, ok)))
Spec == Init /\ [][Next]_healthVars /\ HealthFairness

(***************************************************************************)
(* Health, Live and Ready                                                  *)
(***************************************************************************)
IsLive(m) == since[m] <= StaleDeadline
IsReady(m) == IsLive(m) /\ status[m].succeeded /\ status[m].failures < ReadinessFailureThreshold
Live == \A m \in Modules : IsLive(m)
Ready == \A m \in Modules : IsReady(m)

\* The types of the variables.
TypeOK ==
  /\ \A m \in Modules : loop[m] \in {"waiting", "ticking", "hung"} /\ since[m] \in 0 .. StaleDeadline + 1
  /\ \A m \in Modules : status[m].failures \in 0 .. ReadinessFailureThreshold

\* As long as no tick hangs the process is reported alive, however long ticks take and whatever they return: a container
\* is not restarted for being slow (StaleDeadline of Health).
NoFalseAlarm == (\A m \in Modules : loop[m] # "hung") => Live

\* A tick that hangs is reported in the end (Live).
HangIsReported == (\E m \in Modules : loop[m] = "hung") ~> ~Live

\* When modules stop failing the process becomes ready (ConsecutiveFailures of recordOutcome).
ReadyAgain == timing.failing = 0 ~> (Ready \/ \E m \in Modules : loop[m] = "hung")
=============================================================================
