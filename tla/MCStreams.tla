------------------------------- MODULE MCStreams -------------------------------
(* Small instances of Streams and of Searches for TLC, next to each other:  *)
(* in a behaviour one of them moves. The properties of Streams are checked  *)
(* as they are; what is shown of a page is so only while it is connected.   *)
EXTENDS Streams

CONSTANTS
  Callers, Tokens, Readers, None, SearchScopes

VARIABLES
  part,
  searching, link, writer, registry, reserved, known, run, buffer, got, given, cancelled, reader, searchSession

Network == INSTANCE Searches WITH session <- searchSession
searchVars == <<searching, link, writer, registry, reserved, known, run, buffer, got, given, cancelled, reader, searchSession>>
vars == <<part, streamVars, searchVars>>

\* Callers, and what they may meet.
ASSUME SearchesAssumption ==
  /\ IsFiniteSet(Callers) /\ None \notin Callers \cup Tokens
  /\ SearchScopes \subseteq [kind : [Callers -> {"session", "direct", "none"}], buffer : Nat, limit : Nat, sessions : Nat, responses : Nat,
                           drops : Nat, stops : Nat, faults : Nat, offered : {0}]

S(o, j, u, s, q, f) ==
  [rows |-> IF o = 1 /\ j > 1 THEN {1, 2} ELSE {1}, opens |-> o, jobs |-> j, uploads |-> u, samples |-> s, search |-> q, faults |-> f]
\* Jobs and uploads that change while a call fails; two connections; two jobs; samples; a search.
SmallStreams == {S(1, 1, 1, 0, 0, 1), S(2, 0, 1, 0, 0, 0), S(1, 2, 0, 0, 0, 0), S(1, 0, 0, 3, 0, 1), S(1, 0, 0, 0, 3, 0)}

Q(k, b, l, m, r, d, s, f) ==
  [kind |-> k, buffer |-> b, limit |-> l, sessions |-> m, responses |-> r, drops |-> d, stops |-> s, faults |-> f, offered |-> 0]
\* Two sessions of which one at a time may run; a failing server; two direct searches; a limit and a buffer that are reached.
SmallSearches ==
  {Q(<<"session", "session">>, 1, 1, 1, 1, 0, 1, 0), Q(<<"session", "none">>, 1, 2, 1, 1, 1, 0, 1),
   Q(<<"direct", "direct">>, 1, 1, 1, 0, 1, 0, 0), Q(<<"session", "none">>, 2, 2, 1, 2, 0, 0, 0),
   Q(<<"direct", "none">>, 2, 1, 1, 2, 0, 1, 0)}
Two == {1, 2}
TwoGroups == {"g", "h"}

Still ==
  /\ part # "feed" => streaming = CHOOSE s \in StreamScopes : TRUE
  /\ part # "network" => searching = CHOOSE s \in SearchScopes : TRUE
StreamsInit == part \in {"feed", "network"} /\ Init /\ Network!Init /\ Still
StreamsNext ==
  \/ part = "feed" /\ Next /\ UNCHANGED <<part, searchVars>>
  \/ part = "network" /\ Network!Next /\ UNCHANGED <<part, streamVars>>

\* The fairness of each module, while it is the part that moves.
Fairness ==
  /\ \A c \in Conns :
       /\ WF_streamVars(part = "feed" /\ Handler(c)) /\ WF_streamVars(part = "feed" /\ IntervalPasses(c))
       /\ SF_streamVars(part = "feed" /\ CorrelationReads(c)) /\ SF_streamVars(part = "feed" /\ TickReads(c))
       /\ WF_streamVars(part = "feed" /\ (CorrelationStores(c) \/ TickSends(c)))
       /\ WF_streamVars(part = "feed" /\ WritesLive(c)) /\ WF_streamVars(part = "feed" /\ WritesSamples(c))
       /\ WF_streamVars(part = "feed" /\ WritesSearch(c)) /\ WF_streamVars(part = "feed" /\ WritesInvalidate(c))
  /\ \A c \in Callers :
       /\ WF_searchVars(part = "network" /\ Network!Works(c)) /\ WF_searchVars(part = "network" /\ Network!TimeOut(c))
  /\ \A r \in Readers : WF_searchVars(part = "network" /\ Network!Offers(r))
StreamsSpec == StreamsInit /\ [][StreamsNext]_vars /\ Fairness

\* A search belongs to one server session, keeps what it is offered, and counts as long as it works (Searches).
SearchesAreSound == Network!SearchesAreSound
\* Searches end for good, and no reader of a peer waits for one (Searches).
SearchesEndWell == Network!SearchesEndWell
=============================================================================
