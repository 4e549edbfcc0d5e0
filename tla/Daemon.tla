-------------------------------- MODULE Daemon --------------------------------
(* The process from its start to its exit (cmd/slusk/main.go): the store,   *)
(* the HTTP server, the pipeline runner, the Soulseek client and the        *)
(* recorder of its throughput, and the order in which a stop, a restart or  *)
(* a failed server takes them down. Nobody who is asked to end has to:      *)
(* every wait is bounded, and the store stays open when one ran out.        *)
EXTENDS Integers, FiniteSets

CONSTANTS
  Handlers, Ticking, \* the HTTP requests and the pipeline modules
  DaemonScopes       \* bounds: whether there is a Soulseek client, requests, ticks, start-up failures

VARIABLES
  daemon,   \* the bounds of this behaviour
  main,     \* where main() stands
  stopAsked,\* restartCtx has ended: a signal or a saved configuration
  runtime,  \* runtimeCtx has ended
  database, \* the store: new, open, closed
  server,   \* http.Server: serving, failed or shut; and whether its outcome was taken
  handler,  \* handler -> idle or busy
  ticking,  \* module -> its loop
  runner,   \* Runner.Run: running, its result, or taken
  late,     \* shutdownCtx has expired
  soul,     \* the client's and the recorder's goroutines, and whether they were asked to end
  outcome,  \* runtimeOutcome: whether there is an error, and storeCloseSafe
  exit      \* the exit code, -1 before it

daemonVars == <<daemon, main, stopAsked, runtime, database, server, handler, ticking, runner, late, soul, outcome, exit>>

Init ==
  /\ daemon \in DaemonScopes
  /\ main = "config" /\ stopAsked = FALSE /\ runtime = "live" /\ database = "new"
  /\ server = [is |-> "new", taken |-> FALSE] /\ handler = [h \in Handlers |-> "idle"]
  /\ ticking = [m \in Ticking |-> "new"] /\ runner = "new" /\ late = FALSE
  /\ soul = [client |-> "none", recorder |-> "none", ends |-> FALSE, gaveUp |-> FALSE]
  /\ outcome = [failed |-> FALSE, safe |-> TRUE] /\ exit = -1

Running == exit = -1
Budget(what) == daemon[what] > 0 /\ daemon' = [daemon EXCEPT ![what] = @ - 1]
At(from, to) == Running /\ main = from /\ main' = to
SidesUnchanged == UNCHANGED <<server, handler, ticking, runner, soul>>
RestUnchanged == UNCHANGED <<stopAsked, runtime, database, late, outcome, exit>>

(***************************************************************************)
(* Start                                                                   *)
(***************************************************************************)
LoadConfig == At("config", "store") /\ UNCHANGED daemon /\ SidesUnchanged /\ RestUnchanged
\* Opening the store applies the pending migrations.
OpenStore ==
  /\ At("store", "listen") /\ database' = "open"
  /\ UNCHANGED <<daemon, stopAsked, runtime, late, outcome, exit>> /\ SidesUnchanged
FailStart ==
  /\ Running /\ Budget("startFaults")
  /\ \/ main \in {"config", "store"} /\ UNCHANGED database
     \/ main = "listen" /\ database' = "closed"
  /\ main' = "exited" /\ exit' = 1
  /\ UNCHANGED <<stopAsked, runtime, late, outcome>> /\ SidesUnchanged
\* A stop during the start ends startupCtx, and what waits for it fails.
StopStart ==
  /\ Running /\ stopAsked
  /\ \/ main = "store" /\ UNCHANGED database
     \/ main = "listen" /\ database' = "closed"
  /\ main' = "exited" /\ exit' = 1
  /\ UNCHANGED <<daemon, stopAsked, runtime, late, outcome>> /\ SidesUnchanged
Listen ==
  /\ At("listen", "running")
  /\ server' = [is |-> "serving", taken |-> FALSE]
  /\ ticking' = [m \in Ticking |-> "tick"] /\ runner' = "running"
  /\ soul' = IF daemon.soulseek THEN [soul EXCEPT !.client = "running", !.recorder = "running"] ELSE soul
  /\ UNCHANGED <<daemon, handler>> /\ RestUnchanged

(***************************************************************************)
(* What runs beside main                                                   *)
(***************************************************************************)
AskToStop ==
  /\ Running /\ ~stopAsked /\ main # "config"
  /\ stopAsked' = TRUE /\ runtime' = "ended"
  /\ UNCHANGED <<daemon, main, database, late, outcome, exit>> /\ SidesUnchanged
Request(h) ==
  /\ Running /\ server.is = "serving" /\ handler[h] = "idle" /\ Budget("requests")
  /\ handler' = [handler EXCEPT ![h] = "busy"]
  /\ UNCHANGED <<main, server, ticking, runner, soul>> /\ RestUnchanged
Respond(h) ==
  /\ Running /\ handler[h] = "busy"
  /\ handler' = [handler EXCEPT ![h] = "idle"]
  /\ UNCHANGED <<daemon, main, server, ticking, runner, soul>> /\ RestUnchanged
ServerFails ==
  /\ Running /\ server.is = "serving" /\ Budget("serverFaults")
  /\ server' = [server EXCEPT !.is = "failed"]
  /\ UNCHANGED <<main, handler, ticking, runner, soul>> /\ RestUnchanged

\* Runner.loop and Runner.Run; a tick that is due when the context ends may still begin.
TickAgain(m) ==
  /\ Running /\ ticking[m] = "wait" /\ Budget("ticks")
  /\ ticking' = [ticking EXCEPT ![m] = "tick"]
  /\ UNCHANGED <<main, server, handler, runner, soul>> /\ RestUnchanged
TickEnds(m) ==
  /\ Running /\ ticking[m] = "tick"
  /\ ticking' = [ticking EXCEPT ![m] = "wait"]
  /\ UNCHANGED <<daemon, main, server, handler, runner, soul>> /\ RestUnchanged
LoopEnds(m) ==
  /\ Running /\ ticking[m] = "wait" /\ runtime = "ended"
  /\ ticking' = [ticking EXCEPT ![m] = "ended"]
  /\ UNCHANGED <<daemon, main, server, handler, runner, soul>> /\ RestUnchanged
RunnerEnds ==
  /\ Running /\ runner = "running" /\ runtime = "ended"
  /\ runner' = IF \A m \in Ticking : ticking[m] = "ended" THEN "done" ELSE "timeout"
  /\ UNCHANGED <<daemon, main, server, handler, ticking, soul>> /\ RestUnchanged

\* The client ends when its context does, or for good on a refused login; the recorder writes the last minute as it ends.
ClientEnds ==
  /\ Running /\ soul.client = "running" /\ (soul.ends \/ stopAsked \/ daemon.refusal)
  /\ soul' = [soul EXCEPT !.client = "ended"]
  /\ UNCHANGED <<daemon, main, server, handler, ticking, runner>> /\ RestUnchanged
RecorderFlushes ==
  /\ Running /\ soul.recorder = "running" /\ (soul.ends \/ stopAsked)
  /\ soul' = [soul EXCEPT !.recorder = "flushing"]
  /\ UNCHANGED <<daemon, main, server, handler, ticking, runner>> /\ RestUnchanged
RecorderEnds ==
  /\ Running /\ soul.recorder = "flushing"
  /\ soul' = [soul EXCEPT !.recorder = "ended"]
  /\ UNCHANGED <<daemon, main, server, handler, ticking, runner>> /\ RestUnchanged

(***************************************************************************)
(* The end (runRuntime, shutdownSoulseek, closeStoreAfterRuntime)          *)
(***************************************************************************)
Failed(bad, unsafe) == outcome' = [failed |-> outcome.failed \/ bad, safe |-> outcome.safe /\ ~unsafe]
\* The select: of what is ready, any.
Wake ==
  /\ At("running", "shutdown")
  /\ \/ stopAsked /\ UNCHANGED <<server, runner, outcome>>
     \/ /\ server.is = "failed"
        /\ server' = [server EXCEPT !.taken = TRUE] /\ Failed(TRUE, FALSE) /\ UNCHANGED runner
     \/ /\ runner \in {"done", "timeout"}
        /\ runner' = "taken" /\ Failed(runner = "timeout" \/ ~stopAsked, runner = "timeout") /\ UNCHANGED server
  /\ runtime' = "ended"
  /\ UNCHANGED <<daemon, stopAsked, database, handler, ticking, late, soul, exit>>
\* No new request; those under way may end, until shutdownCtx does.
ShutServer ==
  /\ Running /\ main = "shutdown" /\ server.is \in {"serving", "failed"}
  /\ server' = [server EXCEPT !.is = IF @ = "failed" THEN "failed_shut" ELSE "shut"]
  /\ UNCHANGED <<daemon, main, handler, ticking, runner, soul>> /\ RestUnchanged
IsShut == server.is \in {"shut", "failed_shut"}
Expire ==
  /\ Running /\ main \in {"shutdown", "server", "runner"} /\ ~late
  /\ late' = TRUE
  /\ UNCHANGED <<daemon, main, stopAsked, runtime, database, outcome, exit>> /\ SidesUnchanged
\* Mutant: a drain that timed out passes for one that ended.
ShutdownIgnoringTimeout ==
  /\ At("shutdown", "server") /\ IsShut
  /\ \/ (\A h \in Handlers : handler[h] = "idle") /\ UNCHANGED outcome
     \/ late /\ Failed(TRUE, FALSE)
  /\ UNCHANGED <<daemon, stopAsked, runtime, database, late, exit>> /\ SidesUnchanged
\* Mutant: the drain has no time limit.
ShutdownPatiently ==
  /\ At("shutdown", "server") /\ IsShut
  /\ (\A h \in Handlers : handler[h] = "idle")
  /\ UNCHANGED <<daemon, stopAsked, runtime, database, late, outcome, exit>> /\ SidesUnchanged
Shutdown ==
  /\ At("shutdown", "server") /\ IsShut
  /\ \/ (\A h \in Handlers : handler[h] = "idle") /\ UNCHANGED outcome
     \/ late /\ Failed(TRUE, TRUE)
  /\ UNCHANGED <<daemon, stopAsked, runtime, database, late, exit>> /\ SidesUnchanged
TakeServer ==
  /\ At("server", "runner")
  /\ \/ server.taken /\ UNCHANGED outcome
     \/ ~server.taken /\ Failed(server.is = "failed_shut", FALSE)
     \/ ~server.taken /\ late /\ Failed(TRUE, TRUE)
  /\ server' = [server EXCEPT !.taken = TRUE]
  /\ UNCHANGED <<daemon, stopAsked, runtime, database, handler, ticking, runner, late, soul, exit>>
TakeRunner ==
  /\ At("runner", "soulseek")
  /\ \/ runner = "taken" /\ UNCHANGED <<runner, outcome>>
     \/ runner \in {"done", "timeout"} /\ runner' = "taken" /\ Failed(runner = "timeout", runner = "timeout")
     \/ runner # "taken" /\ late /\ Failed(TRUE, TRUE) /\ UNCHANGED runner
  /\ UNCHANGED <<daemon, stopAsked, runtime, database, server, handler, ticking, late, soul, exit>>
StopSoulseek ==
  /\ At("soulseek", "client") /\ soul' = [soul EXCEPT !.ends = TRUE]
  /\ UNCHANGED <<daemon, server, handler, ticking, runner>> /\ RestUnchanged
\* Each wait has a time limit of its own, and giving up is only logged.
JoinClient ==
  /\ At("client", "recorder")
  /\ soul' = [soul EXCEPT !.gaveUp = @ \/ soul.client = "running"]
  /\ UNCHANGED <<daemon, server, handler, ticking, runner>> /\ RestUnchanged
JoinRecorder ==
  /\ At("recorder", "close")
  /\ soul' = [soul EXCEPT !.gaveUp = @ \/ soul.recorder \in {"running", "flushing"}]
  /\ UNCHANGED <<daemon, server, handler, ticking, runner>> /\ RestUnchanged
CloseStore ==
  /\ At("close", "exited")
  /\ database' = IF outcome.safe THEN "closed" ELSE database
  /\ exit' = IF outcome.failed THEN 1 ELSE 0
  /\ UNCHANGED <<daemon, stopAsked, runtime, late, outcome>> /\ SidesUnchanged

Main ==
  \/ LoadConfig \/ OpenStore \/ StopStart \/ Listen \/ Wake \/ ShutServer \/ Shutdown \/ TakeServer \/ TakeRunner
  \/ StopSoulseek \/ JoinClient \/ JoinRecorder \/ CloseStore
Beside ==
  \/ AskToStop \/ ServerFails \/ FailStart \/ ClientEnds \/ RecorderFlushes \/ RecorderEnds
  \/ \E h \in Handlers : Request(h) \/ Respond(h)
  \/ \E m \in Ticking : TickAgain(m) \/ TickEnds(m) \/ LoopEnds(m)
Next == Main \/ Beside \/ Expire \/ RunnerEnds

\* main goes on, and time limits run out; nobody else has to end what it does.
DaemonFairness == WF_daemonVars(Main) /\ WF_daemonVars(Expire) /\ WF_daemonVars(RunnerEnds)
Spec == Init /\ [][Next]_daemonVars /\ DaemonFairness

(***************************************************************************)
(* Properties                                                              *)
(***************************************************************************)
\* The types of the variables.
TypeOK ==
  /\ main \in {"config", "store", "listen", "running", "shutdown", "server", "runner", "soulseek", "client", "recorder", "close", "exited"}
  /\ database \in {"new", "open", "closed"} /\ exit \in -1 .. 1 /\ (exit # -1) = (main = "exited")
  /\ \A h \in Handlers : handler[h] \in {"idle", "busy"}
  /\ \A m \in Ticking : ticking[m] \in {"new", "tick", "wait", "ended"}

\* main.go:1105 "closes the shared store only after all pipeline modules and HTTP handlers have relinquished ownership of
\* it", whatever of them hangs and whichever wait runs out first (closeStoreAfterRuntime).
StoreOutlivesItsUsers ==
  database = "closed" => (\A h \in Handlers : handler[h] = "idle") /\ (\A m \in Ticking : ticking[m] # "tick")

\* The recorder's last write meets an open store, unless the wait for it ran out (shutdownSoulseek, issue #157).
FlushMeetsStore == (database = "closed" /\ ~soul.gaveUp) => soul.recorder \in {"none", "ended"}

\* An exit without error had been asked for, and left nothing behind (the exit code of main).
CleanExitIsClean ==
  exit = 0 => stopAsked /\ database = "closed" /\ IsShut /\ \A m \in Ticking : ticking[m] = "ended"

\* A stop, a restart or a failed server ends the process, whoever hangs (the bounded waits of runRuntime).
ExitInTheEnd == (stopAsked \/ server.is = "failed") ~> (exit # -1)

\* The store is closed last, and an exit says what happened (runRuntime, closeStoreAfterRuntime).
ShutdownIsSound == TypeOK /\ StoreOutlivesItsUsers /\ FlushMeetsStore /\ CleanExitIsClean
=============================================================================
