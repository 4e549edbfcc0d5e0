----------------------------- MODULE MCServices -----------------------------
(* Small instances of Configuration, Daemon, RunnerHealth, Migrations,      *)
(* Library and Messages for TLC, next to each other: in a behaviour one of  *)
(* them moves.                                                              *)
EXTENDS Integers, Sequences, FiniteSets

CONSTANTS
  Posts, ConfigScopes, Handlers, Ticking, DaemonScopes, Modules, HealthScopes, Processes, SchemaScopes,
  Adds, LibraryScopes, Letters, Nameless, Drafts, MessageScopes
\* Versions are numbers, and a later release adds routine migrations above those of an earlier one.
ASSUME SchemaAssumption ==
  /\ Processes \subseteq Nat \ {0}
  /\ \A k \in SchemaScopes :
       /\ DOMAIN k = {"known", "destructive", "operator", "starts", "faults", "kills"} /\ DOMAIN k.known = Processes
       /\ \A p \in Processes : k.known[p] \subseteq Nat /\ IsFiniteSet(k.known[p])
       /\ \A p, q \in Processes : \A v \in k.known[p] \ k.destructive : \A w \in k.known[q] \ k.destructive : w < v => w \in k.known[p]
ASSUME ChatAssumption == MessageScopes \subseteq [failures : Nat, page : Nat]
\* A ticker has an interval, and a create whose answer is lost is looked for.
ASSUME HealthAssumption == HealthScopes \subseteq [interval : Nat \ {0}, limit : Nat, failing : Nat, hangs : Nat]
ASSUME LibraryAssumption == LibraryScopes \subseteq [attempts : Nat \ {0}, faults : Nat]

VARIABLES
  part,
  config, disk, durable, post, temps, flushed, process, acked,
  daemon, main, stopAsked, runtime, database, server, handler, ticking, runner, late, soul, outcome, exit,
  timing, loop, since, ticker, status,
  files, table, versions, schema, lock, opening,
  lidarr, artist, create, add,
  chat, kept, worker, draft, left, rows, nextId, thread

Config == INSTANCE Configuration
Main == INSTANCE Daemon
Health == INSTANCE RunnerHealth
Schema == INSTANCE Migrations
Artists == INSTANCE Library
Chat == INSTANCE Messages
\* A start has accepted the file, and the numbers of a form are no negative ones.
ASSUME ConfigAssumption ==
  /\ IsFiniteSet(Posts)
  /\ \A k \in ConfigScopes :
       /\ DOMAIN k = {"first", "edits", "byHand", "hands", "kills", "losses", "faults"}
       /\ k.first \in [Config!Keys -> -1 .. 2] /\ Config!Valid(k.first)
       /\ k.edits \subseteq Config!Owned \X (0 .. 2) /\ k.byHand \subseteq Config!Keys \X (-1 .. 2)
configVars == <<config, disk, durable, post, temps, flushed, process, acked>>
daemonVars == <<daemon, main, stopAsked, runtime, database, server, handler, ticking, runner, late, soul, outcome, exit>>
healthVars == <<timing, loop, since, ticker, status>>
schemaVars == <<files, table, versions, schema, lock, opening>>
libraryVars == <<lidarr, artist, create, add>>
messageVars == <<chat, kept, worker, draft, left, rows, nextId, thread>>
vars == <<part, configVars, daemonVars, healthVars, schemaVars, libraryVars, messageVars>>

\* A bare file and a full one; what the form changes, and what an operator does.
Doc(m, r, u, fo, a, i) ==
  [backend |-> 1, max_active |-> m, reliability |-> r, control_url |-> u, folders |-> fo, api_key |-> a, poll_interval |-> i]
Bare == Doc(-1, -1, -1, -1, -1, -1)
Full == Doc(2, 0, 1, 2, 1, 2)
C(d, e, h, n, k, l, f) == [first |-> d, edits |-> e, byHand |-> h, hands |-> n, kills |-> k, losses |-> l, faults |-> f]
SmallConfigs ==
  {C(Bare, {<<"reliability", 0>>, <<"control_url", 1>>, <<"backend", 0>>}, {<<"max_active", 2>>}, 1, 0, 1, 1),
   C(Full, {<<"control_url", 0>>, <<"api_key", 0>>, <<"api_key", 2>>, <<"folders", 0>>}, {}, 0, 1, 1, 0)}

\* A process with everything and one whose server fails.
D(s, r, t, b, f, x) == [soulseek |-> s, requests |-> r, ticks |-> t, startFaults |-> b, serverFaults |-> f, refusal |-> x]
SmallDaemons == {D(TRUE, 2, 1, 0, 0, TRUE), D(FALSE, 1, 1, 1, 1, FALSE)}

\* Ticks that take longer than the interval, ones that fail in a row, and a hanging one.
H(i, l, f, h) == [interval |-> i, limit |-> l, failing |-> f, hangs |-> h]
SmallHealth == {H(1, 4, 1, 1), H(3, 1, 3, 1), H(2, 3, 4, 0)}

\* Two releases, the later with a destructive migration and its operator; and two starts of one release each.
F(k, d, o, s, f, x) == [known |-> k, destructive |-> d, operator |-> o, starts |-> s, faults |-> f, kills |-> x]
SmallSchemas == {F(<<{1, 3}, {1, 2, 3, 4}>>, {2}, 2, 2, 1, 1), F(<<{1}, {1, 2}>>, {}, 0, 2, 2, 1)}

L(n, f) == [attempts |-> n, faults |-> f]
SmallLibraries == {L(2, 1), L(3, 2)}

G(f, p) == [failures |-> f, page |-> p]
SmallChats == {G(2, 1), G(1, 2)}

Small(S) == CHOOSE s \in S : TRUE
Still ==
  /\ part # "config" => config = Small(ConfigScopes)
  /\ part # "main" => daemon = Small(DaemonScopes)
  /\ part # "health" => timing = Small(HealthScopes)
  /\ part # "schema" => files = Small(SchemaScopes)
  /\ part # "artists" => lidarr = Small(LibraryScopes)
  /\ part # "chat" => chat = Small(MessageScopes)
Init ==
  /\ part \in {"config", "main", "health", "schema", "artists", "chat"}
  /\ Config!Init /\ Main!Init /\ Health!Init /\ Schema!Init /\ Artists!Init /\ Chat!Init
  /\ Still
Next ==
  \/ part = "config" /\ Config!Next /\ UNCHANGED <<part, daemonVars, healthVars, schemaVars, libraryVars, messageVars>>
  \/ part = "main" /\ Main!Next /\ UNCHANGED <<part, configVars, healthVars, schemaVars, libraryVars, messageVars>>
  \/ part = "health" /\ Health!Next /\ UNCHANGED <<part, configVars, daemonVars, schemaVars, libraryVars, messageVars>>
  \/ part = "schema" /\ Schema!Next /\ UNCHANGED <<part, configVars, daemonVars, healthVars, libraryVars, messageVars>>
  \/ part = "artists" /\ Artists!Next /\ UNCHANGED <<part, configVars, daemonVars, healthVars, schemaVars, messageVars>>
  \/ part = "chat" /\ Chat!Next /\ UNCHANGED <<part, configVars, daemonVars, healthVars, schemaVars, libraryVars>>

\* The fairness of each module, while it is the part that moves.
Fairness ==
  /\ WF_configVars(part = "config" /\ Config!Exit) /\ WF_configVars(part = "config" /\ Config!Start)
  /\ WF_daemonVars(part = "main" /\ Main!Main) /\ WF_daemonVars(part = "main" /\ Main!Expire)
  /\ WF_daemonVars(part = "main" /\ Main!RunnerEnds)
  /\ WF_healthVars(part = "health" /\ Health!Pass)
  /\ \A m \in Modules :
       WF_healthVars(part = "health" /\ Health!Due(m) /\ (Health!Begin(m) \/ \E ok \in BOOLEAN : Health!Finish(m, ok)))
  /\ WF_schemaVars(part = "schema" /\ Schema!SessionDies)
  /\ WF_schemaVars(part = "schema" /\ \E p \in Processes : Schema!ConnExpires(p))
  /\ \A p \in Processes : SF_schemaVars(part = "schema" /\ Schema!Goes(p))
  /\ \A a \in Adds : WF_libraryVars(part = "artists" /\ Artists!Steps(a))
  /\ WF_messageVars(part = "chat" /\ Chat!MessageWorker)
  /\ \A l \in Letters : SF_messageVars(part = "chat" /\ Chat!Deliver(l))
Spec == Init /\ [][Next]_vars /\ Fairness

\* The configuration file loads, says what was asked and keeps what was answered (Configuration).
FileIsSound == Config!FileIsSound
\* The store is closed last, and an exit says what happened (Daemon).
ShutdownIsSound == Main!ShutdownIsSound
\* A stop, a restart or a failed server ends the process (Daemon).
ExitInTheEnd == Main!ExitInTheEnd
\* A slow module is not taken for a dead one, a hanging one is reported, and one that recovers is ready again (RunnerHealth).
HealthIsTrue == [](Health!TypeOK /\ Health!NoFalseAlarm) /\ Health!HangIsReported /\ (part = "health" => Health!ReadyAgain)
\* Migrations are applied whole, once, in order and by one process (Migrations).
SchemaIsSound == Schema!SchemaIsSound
\* What a request for an artist is told is so, and it is told (Library).
AddsAreTruthful ==
  [](Artists!TypeOK /\ Artists!SuccessMeansThere) /\ Artists!LandedIsNotFailed /\ (part = "artists" => Artists!EveryAddIsAnswered)
\* Letters and drafts are stored once and before they are forgotten, and a thread shows them all (Messages).
MessagesAreSound == Chat!MessagesAreSound
\* What was begun comes through, though steps fail and processes die: a saved configuration is run with, a start gets its
\* turn to migrate, a letter is stored and forgotten (Configuration, Migrations, Messages).
WorkComesThrough ==
  /\ part = "config" => Config!SavesTakeEffect
  /\ part = "schema" => Schema!StartsEnd
  /\ part = "chat" => Chat!LettersArrive
=============================================================================
