------------------------------- MODULE Searches -------------------------------
(* A search of the network (runSearch and the registry of                   *)
(* soulseek/search.go) and the dashboard's search sessions, which run one   *)
(* each (app/search.go). A caller reserves a token, registers with the      *)
(* connection of the moment and takes results from a bounded buffer until   *)
(* its time is over, its context ends or the connection fails it; the       *)
(* responders' readers put results there without ever waiting. What a       *)
(* session's followers are told is in Streams.                              *)
(*                                                                          *)
(* Results are numbered as they are offered. A context is cancelled by the  *)
(* session's Stop, by its deadline or with the process.                     *)
EXTENDS Integers, Sequences, Functions, FiniteSets

CONSTANTS
  Callers, Tokens, Readers, None,
  SearchScopes \* bounds: kind of a caller, buffer, limit, max sessions, responses, drops, stops, faults, offered so far

VARIABLES
  searching, \* the bounds of this behaviour
  link,      \* the server session: its generation, and up, closing, cleared or down
  writer,    \* who holds serverWriteMu
  registry,  \* searchRegistry.active: token -> caller
  reserved,  \* the allocator's tokens
  known,     \* tokens that went out with a search: somebody may answer them
  run,       \* caller -> what its goroutine is doing, with which token and generation
  buffer,    \* caller -> searchSubscription: results, failed, dropped
  got,       \* caller -> results taken and not yet handed on, and those handed on
  given,     \* caller -> results offered while it was registered
  cancelled, \* the callers whose context has ended
  reader,    \* reader -> the subscription it found and what it still has to offer
  session    \* caller -> searchSession

searchVars == <<searching, link, writer, registry, reserved, known, run, buffer, got, given, cancelled, reader, session>>

Idle == [at |-> "new", token |-> None, gen |-> 0, ok |-> TRUE]
NoReader == [sub |-> None, left |-> 0]
NoSession == [is |-> "none", total |-> 0, truncated |-> FALSE]
Init ==
  /\ searching \in SearchScopes
  /\ link = [gen |-> 1, is |-> "up"] /\ writer = None
  /\ registry = [t \in Tokens |-> None] /\ reserved = {} /\ known = {}
  /\ run = [c \in Callers |-> Idle] /\ buffer = [c \in Callers |-> [results |-> <<>>, failed |-> FALSE, dropped |-> {}]]
  /\ got = [c \in Callers |-> [pending |-> <<>>, accepted |-> <<>>]] /\ given = [c \in Callers |-> {}]
  /\ cancelled = {} /\ reader = [r \in Readers |-> NoReader] /\ session = [c \in Callers |-> NoSession]

Kind(c) == searching.kind[c]
Goes(c, from, to) == run[c].at = from /\ run' = [run EXCEPT ![c].at = to]
Spend(what) == searching[what] > 0 /\ searching' = [searching EXCEPT ![what] = @ - 1]
LinkUnchanged == UNCHANGED <<link, writer>>
RegistryUnchanged == UNCHANGED <<registry, reserved, known>>
ResultsUnchanged == UNCHANGED <<buffer, got, given, reader>>
CallUnchanged == UNCHANGED <<cancelled, session>>

(***************************************************************************)
(* Sessions (Searches of app/search.go)                                    *)
(***************************************************************************)
LiveCount == Cardinality({c \in Callers : session[c].is = "live"})
Start(c) ==
  /\ Kind(c) = "session" /\ session[c].is = "none"
  /\ IF LiveCount >= searching.sessions THEN session' = [session EXCEPT ![c].is = "refused"] /\ Goes(c, "new", "over")
     ELSE session' = [session EXCEPT ![c].is = "live"] /\ Goes(c, "new", "called")
  /\ UNCHANGED <<searching, cancelled>> /\ LinkUnchanged /\ RegistryUnchanged /\ ResultsUnchanged
\* Search, as the pipeline calls it.
Search(c) ==
  /\ Kind(c) = "direct" /\ Goes(c, "new", "called")
  /\ UNCHANGED searching /\ CallUnchanged /\ LinkUnchanged /\ RegistryUnchanged /\ ResultsUnchanged
\* Stop, the deadline that ends a session by force, and the caller's own context.
Cancel(c) ==
  /\ run[c].at # "over" /\ c \notin cancelled /\ Spend("stops") /\ cancelled' = cancelled \cup {c}
  /\ UNCHANGED <<session, run>> /\ LinkUnchanged /\ RegistryUnchanged /\ ResultsUnchanged
\* evictLocked, once a session has been over for its time.
Evict(c) ==
  /\ session[c].is = "done" /\ session' = [session EXCEPT ![c].is = "gone"]
  /\ UNCHANGED <<searching, run, cancelled>> /\ LinkUnchanged /\ RegistryUnchanged /\ ResultsUnchanged

(***************************************************************************)
(* runSearch                                                               *)
(***************************************************************************)
\* A query with a phrase that the server excludes is refused (matchExcludedPhrase).
Reserve(c) ==
  /\ run[c].at = "called" /\ UNCHANGED <<registry, known>>
  /\ \/ c \in cancelled /\ run' = [run EXCEPT ![c].at = "flush", ![c].ok = FALSE] /\ UNCHANGED <<searching, reserved>>
     \/ c \notin cancelled /\ Spend("faults") /\ run' = [run EXCEPT ![c].at = "flush", ![c].ok = FALSE] /\ UNCHANGED reserved
     \/ /\ c \notin cancelled /\ UNCHANGED searching
        /\ \E t \in Tokens \ reserved : reserved' = reserved \cup {t} /\ run' = [run EXCEPT ![c].at = "reserved", ![c].token = t]
  /\ CallUnchanged /\ LinkUnchanged /\ ResultsUnchanged
NoConnection == link.is \notin {"up", "closing"}
\* Under serverWriteMu and mu: the search joins the connection that is there, and keeps the first lock for its write.
Register(c) ==
  /\ run[c].at = "reserved" /\ writer = None
  /\ IF NoConnection \/ c \in cancelled
     THEN run' = [run EXCEPT ![c].at = "release", ![c].ok = FALSE] /\ UNCHANGED <<registry, writer>>
     ELSE /\ run' = [run EXCEPT ![c].at = "write", ![c].gen = link.gen] /\ writer' = c
          /\ registry' = [registry EXCEPT ![run[c].token] = c]
  /\ UNCHANGED <<searching, link, reserved, known>> /\ CallUnchanged /\ ResultsUnchanged
\* The time is over before the search has left.
TooLate(c) ==
  /\ Goes(c, "reserved", "release") /\ writer = None
  /\ UNCHANGED searching /\ CallUnchanged /\ LinkUnchanged /\ RegistryUnchanged /\ ResultsUnchanged
\* The lock keeps the connection from being cleared meanwhile; a failed write ends the server session.
Write(c) ==
  /\ run[c].at = "write" /\ writer' = None /\ known' = known \cup {run[c].token}
  /\ \/ Goes(c, "write", "wait") /\ UNCHANGED <<searching, link>>
     \/ /\ run' = [run EXCEPT ![c].at = "finish", ![c].ok = FALSE] /\ link' = [link EXCEPT !.is = "closing"]
        /\ IF link.is = "closing" THEN UNCHANGED searching ELSE Spend("faults")
  /\ UNCHANGED <<registry, reserved>> /\ CallUnchanged /\ ResultsUnchanged

\* process: past its limit a direct search only counts.
Room(c) == IF Kind(c) = "session" THEN Len(buffer[c].results) ELSE searching.limit - Len(got[c].accepted)
Taken(c) == SubSeq(buffer[c].results, 1, IF Room(c) < Len(buffer[c].results) THEN Room(c) ELSE Len(buffer[c].results))
Empty(c) ==
  buffer' = [buffer EXCEPT ![c].results = <<>>, ![c].dropped = @ \cup (Range(buffer[c].results) \ Range(Taken(c)))]
\* A stream hands on what it has whenever the buffer is empty, a search keeps its results itself.
Process(c) ==
  IF Kind(c) = "session" THEN got' = [got EXCEPT ![c].pending = @ \o Taken(c)]
  ELSE got' = [got EXCEPT ![c].accepted = @ \o Taken(c)]
Take(c) ==
  /\ run[c].at = "wait" /\ buffer[c].results # <<>> /\ Process(c) /\ Empty(c)
  /\ IF Kind(c) = "session" THEN Goes(c, "wait", "drained") ELSE UNCHANGED run
  /\ UNCHANGED <<searching, given, reader>> /\ CallUnchanged /\ LinkUnchanged /\ RegistryUnchanged
\* accept: results past the session's limit are refused, which is noted.
Accept(c) ==
  LET room == searching.limit - session[c].total
      taken == SubSeq(got[c].pending, 1, IF Len(got[c].pending) < room THEN Len(got[c].pending) ELSE room)
  IN /\ got' = [got EXCEPT ![c] = [pending |-> <<>>, accepted |-> @.accepted \o taken]]
     /\ session' = [session EXCEPT ![c].total = @ + Len(taken), ![c].truncated = @ \/ Len(taken) < Len(got[c].pending)]
Emit(c) ==
  /\ Goes(c, "drained", "wait") /\ Accept(c)
  /\ UNCHANGED <<searching, cancelled, buffer, given, reader>> /\ LinkUnchanged /\ RegistryUnchanged
\* The four ways out of the loop; when several are open any of them may be taken.
Fail(c) ==
  /\ run[c].at = "wait" /\ (buffer[c].failed \/ c \in cancelled) /\ run' = [run EXCEPT ![c].at = "finish", ![c].ok = FALSE]
  /\ UNCHANGED searching /\ CallUnchanged /\ LinkUnchanged /\ RegistryUnchanged /\ ResultsUnchanged
TimeOut(c) ==
  /\ Goes(c, "wait", "finish")
  /\ UNCHANGED searching /\ CallUnchanged /\ LinkUnchanged /\ RegistryUnchanged /\ ResultsUnchanged
\* finish: nobody finds the subscription any more, then what it holds is taken.
RemoveIfSame(c) == [t \in Tokens |-> IF registry[t] = c THEN None ELSE registry[t]]
\* Mutant: the subscription stays in the registry.
RemoveLate(c) ==
  /\ Goes(c, "finish", "drain") /\ UNCHANGED searching /\ CallUnchanged /\ LinkUnchanged /\ RegistryUnchanged /\ ResultsUnchanged
Remove(c) ==
  /\ Goes(c, "finish", "drain") /\ registry' = RemoveIfSame(c)
  /\ UNCHANGED <<searching, reserved, known>> /\ CallUnchanged /\ LinkUnchanged /\ ResultsUnchanged
Drain(c) ==
  /\ Goes(c, "drain", "release") /\ Process(c) /\ Empty(c)
  /\ UNCHANGED <<searching, given, reader>> /\ CallUnchanged /\ LinkUnchanged /\ RegistryUnchanged
KeepToken(c) == reserved
ReleaseToken(c) == reserved \ {run[c].token}
Release(c) ==
  /\ Goes(c, "release", "flush") /\ registry' = RemoveIfSame(c) /\ reserved' = ReleaseToken(c)
  /\ UNCHANGED <<searching, known>> /\ CallUnchanged /\ LinkUnchanged /\ ResultsUnchanged
\* The last batch reaches the session, then it has finished.
Flush(c) ==
  /\ Goes(c, "flush", "return")
  /\ IF Kind(c) = "session" THEN Accept(c) ELSE UNCHANGED <<got, session>>
  /\ UNCHANGED <<searching, cancelled, buffer, given, reader>> /\ LinkUnchanged /\ RegistryUnchanged
Finish(c) ==
  /\ Goes(c, "return", "over")
  /\ session' = IF Kind(c) = "session" THEN [session EXCEPT ![c].is = "done"] ELSE session
  /\ UNCHANGED <<searching, cancelled>> /\ LinkUnchanged /\ RegistryUnchanged /\ ResultsUnchanged

(***************************************************************************)
(* A responder's reader (searchSessionHooks.frame)                         *)
(***************************************************************************)
Lookup(r, t) ==
  /\ reader[r] = NoReader /\ t \in known /\ Spend("responses") /\ registry[t] # None
  /\ \E n \in 1 .. 2 : reader' = [reader EXCEPT ![r] = [sub |-> registry[t], left |-> n]]
  /\ UNCHANGED <<run, buffer, got, given>> /\ CallUnchanged /\ LinkUnchanged /\ RegistryUnchanged
Registered(c) == \E t \in Tokens : registry[t] = c
\* Mutant: an offer to a full buffer waits for room.
OfferBlocking(c, n) ==
  /\ Len(buffer[c].results) < searching.buffer
  /\ buffer' = [buffer EXCEPT ![c].results = Append(@, n)]
\* offer: into the buffer, or dropped when that is full.
Offer(c, n) ==
  buffer' = IF Len(buffer[c].results) < searching.buffer THEN [buffer EXCEPT ![c].results = Append(@, n)]
            ELSE [buffer EXCEPT ![c].dropped = @ \cup {n}]
Offers(r) ==
  LET c == reader[r].sub  n == searching.offered + 1 IN
  /\ c # None /\ Offer(c, n) /\ searching' = [searching EXCEPT !.offered = n]
  /\ given' = IF Registered(c) THEN [given EXCEPT ![c] = @ \cup {n}] ELSE given
  /\ reader' = [reader EXCEPT ![r] = IF reader[r].left = 1 THEN NoReader ELSE [reader[r] EXCEPT !.left = @ - 1]]
  /\ UNCHANGED <<run, got>> /\ CallUnchanged /\ LinkUnchanged /\ RegistryUnchanged

(***************************************************************************)
(* The server session (serveConnected) and the end of the client           *)
(***************************************************************************)
LinkMoves == UNCHANGED <<writer, run, got, given, reader>> /\ UNCHANGED <<reserved, known>> /\ CallUnchanged
Drop ==
  /\ link.is = "up" /\ Spend("drops") /\ link' = [link EXCEPT !.is = "closing"] /\ LinkMoves /\ UNCHANGED <<registry, buffer>>
\* serverConn is cleared under serverWriteMu, and only then are the searches of the generation failed.
ClearConn ==
  /\ link.is = "closing" /\ writer = None /\ link' = [link EXCEPT !.is = "cleared"]
  /\ UNCHANGED searching /\ LinkMoves /\ UNCHANGED <<registry, buffer>>
Failing(cs) ==
  /\ registry' = [t \in Tokens |-> IF registry[t] \in cs THEN None ELSE registry[t]]
  /\ buffer' = [c \in Callers |-> IF c \in cs THEN [buffer[c] EXCEPT !.failed = TRUE] ELSE buffer[c]]
OfGeneration(g) == {registry[t] : t \in {u \in Tokens : registry[u] # None /\ run[registry[u]].gen = g}}
FailGeneration ==
  /\ link.is = "cleared" /\ link' = [link EXCEPT !.is = "down"] /\ Failing(OfGeneration(link.gen))
  /\ UNCHANGED searching /\ LinkMoves
Reconnect ==
  /\ link.is = "down" /\ link' = [gen |-> link.gen + 1, is |-> "up"] /\ UNCHANGED searching /\ LinkMoves /\ UNCHANGED <<registry, buffer>>
\* stopLifecycle: failAll, with the server session ending in its own time.
FailAll ==
  /\ link.is \in {"up", "closing"} /\ Spend("drops") /\ link' = [link EXCEPT !.is = "closing"]
  /\ Failing({registry[t] : t \in Tokens} \ {None}) /\ LinkMoves

Works(c) ==
  \/ Start(c) \/ Search(c) \/ Reserve(c) \/ Register(c) \/ Write(c) \/ Take(c) \/ Emit(c) \/ Fail(c)
  \/ Remove(c) \/ Drain(c) \/ Release(c) \/ Flush(c) \/ Finish(c)
Next ==
  \/ \E c \in Callers : Works(c) \/ TooLate(c) \/ TimeOut(c) \/ Cancel(c) \/ Evict(c)
  \/ \E r \in Readers : Offers(r) \/ \E t \in Tokens : Lookup(r, t)
  \/ Drop \/ ClearConn \/ FailGeneration \/ Reconnect \/ FailAll
\* Goroutines run on, a search's time passes, and readers offer what they have.
Spec ==
  /\ Init /\ [][Next]_searchVars
  /\ \A c \in Callers : WF_searchVars(Works(c)) /\ WF_searchVars(TimeOut(c))
  /\ \A r \in Readers : WF_searchVars(Offers(r))

(***************************************************************************)
(* Properties                                                              *)
(***************************************************************************)
\* Tokens are reserved for searches that run, one each; an entry of the registry is a search's own.
Active == {c \in Callers : run[c].at \notin {"new", "called", "flush", "return", "over"}}
TypeOK ==
  /\ reserved = {run[c].token : c \in Active}
  /\ \A c, d \in Active : run[c].token = run[d].token => c = d
  /\ \A t \in Tokens : registry[t] # None => registry[t] \in Active /\ run[registry[t]].token = t
  /\ (writer # None) => run[writer].at = "write"

\* Once a server session has been torn down no search of it is left waiting, though one may register while the connection
\* is being cleared (serveConnected).
NoneOutlivesLink == link.is = "down" => \A t \in Tokens : registry[t] # None => run[registry[t]].gen > link.gen

\* What was offered while a search could be found is among its results, in order, or was counted as dropped, or its session
\* says that it was cut off (finish, flush, accept).
Counted(c) == Range(got[c].accepted) \cup buffer[c].dropped
NothingIsLost ==
  \A c \in Callers : run[c].at = "over" =>
    /\ given[c] \subseteq Counted(c) \/ session[c].truncated
    /\ \A i \in 1 .. Len(got[c].accepted) - 1 : got[c].accepted[i] < got[c].accepted[i + 1]

\* The sessions that keep the network busy are never more than the limit, also after Stop has been asked for.
BusyWithinLimit ==
  Cardinality({c \in Callers : Kind(c) = "session" /\ run[c].at \notin {"new", "over"}}) <= searching.sessions

\* A session that says it is done does not change any more.
DoneIsFinal == [][\A c \in Callers : session[c].is = "done" => session'[c].total = session[c].total /\ session'[c].truncated = session[c].truncated]_searchVars

\* Every search ends, and no responder's reader waits for one that nobody reads (offer).
SearchesEnd == <>[](/\ \A c \in Callers : run[c].at \in {"new", "over"}
                    /\ \A r \in Readers : reader[r] = NoReader)

\* A search belongs to one server session, keeps what it is offered, and counts as long as it works (runSearch, Start).
SearchesAreSound == TypeOK /\ NoneOutlivesLink /\ NothingIsLost /\ BusyWithinLimit

\* A search ends, and when it says so that is final (finish).
SearchesEndWell == DoneIsFinal /\ SearchesEnd
=============================================================================
