----------------------------- MODULE MCNetwork -----------------------------
(* Small instances of ServerLink, PeerSessions and DistributedTree for TLC, *)
(* next to each other: in a behaviour one of them moves.                    *)
EXTENDS ServerLink

CONSTANTS Attempts, Casts, Slots, Parents, Kids, None, Me, Far, MaxCapacity, Scopes, p, q, c, d

VARIABLES
  part,
  cast, job, sock, sess, doomed, sessions, closedGen, flights, asking, pending, result, failing, slots, gen, peerRun,
  scope, tree, cand, children, peerLife, hook, sgen, leaving, reader, workers, heard, link, out, told, raced, treeCounts

\* Attempts are goroutines, told from nobody (0) and from a refusal (-1).
ASSUME SessionsAssumption ==
  IsFiniteSet(Attempts) /\ Attempts \subseteq Nat \ {0} /\ Slots \in Nat /\ \A k \in Casts : k.gens \in Nat \ {0}
\* A user is a parent or a child here, and never the sign for no user.
ASSUME TreeAssumption ==
  /\ MaxCapacity \in Nat /\ None \notin Parents \cup Kids /\ Parents \cap Kids = {}
  /\ \A k \in Scopes : k.gens \in Nat /\ k.parents \subseteq Parents /\ k.kids \subseteq Kids

Sessions == INSTANCE PeerSessions WITH run <- peerRun
Tree == INSTANCE DistributedTree WITH life <- peerLife, counts <- treeCounts
sessionVars == <<cast, job, sock, sess, doomed, sessions, closedGen, flights, asking, pending, result, failing, slots, gen, peerRun>>
treeVars == <<tree, cand, children, peerLife, hook, sgen, leaving, reader, workers, heard, link, out, told, raced, treeCounts>>
peerVars == <<scope, sessionVars, treeVars>>

\* The port, the shares and the watched users by pairs; private messages.
TwoPorts == 1 .. 2
Works == {{"port", "shares"}, {"port", "presence"}, {"shares", "presence"}, {"mail"}}

Three == 1 .. 3
Cast(a, b, e, n) == [who |-> <<a, b, e>>, gens |-> n]
SmallCasts == {Cast("caller", "caller", "none", 1), Cast("caller", "inbound", "none", 1), Cast("parent", "mirror", "none", 2), Cast("parent", "inbound", "none", 2)}
Scope(P, K, g, o, e) == [parents |-> P, kids |-> K, gens |-> g, offers |-> o, events |-> e]
SmallScopes == {Scope({p, q}, {}, 1, 1, 0), Scope({p}, {}, 2, 2, 0), Scope({p}, {}, 1, 1, 2), Scope({p}, {c}, 1, 1, 1), Scope({}, {c, d}, 1, 0, 3)}

NetworkInit ==
  /\ Init /\ Sessions!Init /\ Tree!Init
  /\ part \in {"server", "sessions", "tree"}
  /\ part # "server" => focus = {"port", "shares"}
  /\ part # "sessions" => cast = Cast("parent", "inbound", "none", 2)
  /\ part # "tree" => scope = Scope({}, {c, d}, 1, 0, 3)
NetworkNext ==
  \/ part = "server" /\ Next /\ UNCHANGED <<part, peerVars>>
  \/ part = "sessions" /\ Sessions!Next /\ UNCHANGED <<part, vars, scope, treeVars>>
  \/ part = "tree" /\ Tree!Next /\ UNCHANGED <<part, vars, scope, sessionVars>>

\* The fairness of ServerLink and of PeerSessions, while it is the part that moves.
NetworkFairness ==
  /\ WF_vars(part = "server" /\ Run) /\ WF_vars(part = "server" /\ AnnounceShares)
  /\ WF_sessionVars(part = "sessions" /\ Sessions!Runs)
  /\ \A a \in Attempts :
       /\ WF_sessionVars(part = "sessions" /\ Sessions!Works(a))
       /\ WF_sessionVars(part = "sessions" /\ Sessions!Closes(a))
NetworkSpec == NetworkInit /\ [][NetworkNext]_<<part, vars, peerVars>> /\ NetworkFairness

\* One session of a kind per user, none of an ended server session, nothing leaks (PeerSessions).
SessionsAreSound == Sessions!SessionsAreSound
\* A stop ends (PeerSessions).
StopEnds == Sessions!StopEnds
\* The place in the tree is what members, children and server were told (DistributedTree).
TreeIsSound == Tree!TreeIsSound
=============================================================================
