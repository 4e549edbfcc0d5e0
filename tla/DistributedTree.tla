-------------------------- MODULE DistributedTree --------------------------
(***************************************************************************)
(* The native client's place in the distributed search tree: the parents  *)
(* the server offers and the workers that try them, the promotion of one, *)
(* the children it accepts and what it tells them, the server as parent,   *)
(* resets, and the messages that keep the server informed.                 *)
(*                                                                         *)
(* One action is one critical section of the tree's lock, one step of a    *)
(* session, or one message to the server: these are sent after the unlock, *)
(* by several goroutines.  Sessions are those of PeerSessions; a user's    *)
(* next session reuses the name once the goroutines of the last one are    *)
(* gone.  Levels are 0 or 1; what a search holds, and which frames the     *)
(* rate limit drops, is left open.  The BranchRoot and BranchLevel reports *)
(* to the server are left out.  A candidate's deadline does not pass       *)
(* before the dial it shares has returned.                                 *)
(* Bounds: the server sessions (gens), lists of parents (offers) and       *)
(* resets, embedded searches and capacity changes (events) of a scope.     *)
(***************************************************************************)
EXTENDS Integers, Sequences, FiniteSets

CONSTANTS
  Parents, Kids,   \* the users that may be parents, and children
  None, Me, Far,   \* no session, the client's own name, and some other root's
  MaxCapacity,     \* bound
  Scopes           \* what to explore: records parents, kids, gens, offers, events

VARIABLES
  scope,
  tree,     \* distributedTree: its fields but the maps below
  cand,     \* candidates: epoch, level, root, search
  children,
  life,     \* every user's D session: off, up, closing
  hook,     \* sessions whose established hook has not run
  sgen,     \* peerSession.generation
  leaving,   \* sessions a Close is on its way to
  reader,   \* every session's read loop: idle, a frame in its hands, or about to promote
  workers,  \* runCandidate goroutines
  heard,    \* the level and root last queued for a child
  link,     \* the server session: up, lost, down
  out,      \* what each goroutine has still to send to the server
  told,     \* what the server was told
  raced,    \* kinds of report two goroutines were about to send at once
  counts

vars == <<scope, tree, cand, children, life, hook, sgen, leaving, reader, workers, heard, link, out, told, raced, counts>>

Neighbours == Parents \cup Kids
NoCandidate == [epoch |-> 0, level |-> -1, root |-> None, search |-> FALSE]
NewCandidate == [NoCandidate EXCEPT !.epoch = tree.epoch]
Untold == [k \in {"noParent", "accept"} |-> FALSE]
Unheard == [level |-> 0, root |-> None]
NoParentMessages == << <<"noParent", TRUE>>, <<"accept", FALSE>> >>
Gone(s) == life[s] # "up"

(*************************************************************************)
(* Reports to the server.                                                *)
(*************************************************************************)
\* Goroutine t will send these messages after the unlock.
Reports(t, messages) ==
  /\ out' = [out EXCEPT ![t] = @ \o messages]
  /\ raced' = raced \cup {k \in {"noParent", "accept"} :
       /\ \E i \in DOMAIN messages : messages[i][1] = k
       /\ \E u \in DOMAIN out \ {t} : \E i \in DOMAIN out[u] : out[u][i][1] = k}
Silent == UNCHANGED <<out, raced>>

Send(t) ==
  /\ out[t] # <<>>
  /\ out' = [out EXCEPT ![t] = Tail(@)]
  /\ told' = IF link = "up" THEN [told EXCEPT ![Head(out[t])[1]] = Head(out[t])[2]] ELSE told
  /\ UNCHANGED <<tree, cand, children, life, hook, sgen, leaving, reader, workers, heard, link, raced, counts>>

\* acceptUpdateLocked: what is to be sent, and remembered as sent.
Accepts(tr, kids) == tr.active /\ (tr.parent # None \/ tr.serverParent) /\ tr.capacity > Cardinality(kids)
AcceptUpdate(tr, kids) == IF tr.accept = {Accepts(tr, kids)} THEN <<>> ELSE << <<"accept", Accepts(tr, kids)>> >>
Noted(tr, kids) == [tr EXCEPT !.accept = {Accepts(tr, kids)}]

(*************************************************************************)
(* Children's queues.  A full or closed queue costs the child its place. *)
(*************************************************************************)
Overflows(S) == {F \in SUBSET S : \A c \in S : Gone(c) => c \in F}
QueueMetadata(kids, F, level, root) ==
  heard' = [c \in Neighbours |-> IF c \in kids \ F THEN [level |-> level, root |-> root] ELSE heard[c]]
Leaves(S) == leaving' = leaving \cup {s \in S : life[s] = "up"}

(*************************************************************************)
(* The server's messages.  The read loop takes one after the other.      *)
(*************************************************************************)
ServerReads == link = "up" /\ out["server"] = <<>> /\ tree.active
Forgets(tr) ==
  [tr EXCEPT !.epoch = @ + 1, !.cancel = 0, !.users = {}, !.parent = None, !.level = 0, !.serverParent = FALSE, !.branch = [level |-> 0, root |-> Me]]
NoCandidates == cand' = [s \in Neighbours |-> NoCandidate]

Activate ==
  /\ link = "down" /\ tree.gen < scope.gens /\ out["server"] = <<>>
  /\ link' = "up" /\ told' = Untold
  /\ tree' = [Forgets(tree) EXCEPT !.active = TRUE, !.gen = @ + 1, !.capacity = 0, !.accept = {FALSE}]
  /\ NoCandidates /\ children' = {}
  /\ out' = [t \in DOMAIN out |-> IF t = "server" THEN NoParentMessages ELSE <<>>] \* the others' are stale
  /\ raced' = {}
  /\ UNCHANGED <<life, hook, sgen, leaving, reader, workers, heard, counts>>

Disconnect ==
  /\ link = "up" /\ out["server"] = <<>>
  /\ link' = "lost" /\ told' = Untold
  /\ UNCHANGED <<tree, cand, children, life, hook, sgen, leaving, reader, workers, heard, out, raced, counts>>

\* deactivate, with the CloseGeneration that follows it.
Deactivate ==
  /\ link = "lost"
  /\ link' = "down"
  /\ tree' = [tree EXCEPT !.active = FALSE, !.epoch = @ + 1, !.cancel = 0, !.users = {}, !.parent = None, !.serverParent = FALSE, !.accept = {}]
  /\ Leaves({s \in Neighbours : sgen[s] = tree.gen})
  /\ NoCandidates /\ children' = {}
  /\ Silent /\ UNCHANGED <<life, hook, sgen, reader, workers, heard, told, counts>>

\* ResetDistributed: the sessions are closed one by one after the unlock.
Reset ==
  /\ ServerReads /\ counts.events < scope.events
  /\ tree' = [Forgets(tree) EXCEPT !.accept = {FALSE}]
  /\ Leaves({s \in Neighbours : sgen[s] = tree.gen})
  /\ NoCandidates /\ children' = {}
  /\ Reports("server", NoParentMessages)
  /\ counts' = [counts EXCEPT !.events = @ + 1]
  /\ UNCHANGED <<life, hook, sgen, reader, workers, heard, link, told>>

\* PossibleParents: a new list replaces the one being tried.
OfferParents(S) ==
  /\ ServerReads /\ counts.offers < scope.offers
  /\ tree.parent = None /\ ~tree.serverParent
  /\ tree' = [tree EXCEPT !.epoch = @ + 1, !.cancel = tree.epoch + 1, !.users = S]
  /\ Leaves({s \in Neighbours : cand[s] # NoCandidate})
  /\ NoCandidates
  /\ workers' = workers \cup {[user |-> s, epoch |-> tree.epoch + 1, gen |-> tree.gen, at |-> "dial"] : s \in S}
  /\ counts' = [counts EXCEPT !.offers = @ + 1]
  /\ Silent /\ UNCHANGED <<children, life, hook, sgen, reader, heard, link, told>>

\* EmbeddedMessage: the server itself is the parent, the client a root.
HandleServerEmbedded ==
  /\ ServerReads /\ counts.events < scope.events /\ tree.parent = None
  /\ LET tr == [Forgets(tree) EXCEPT !.serverParent = TRUE] IN
     /\ tree' = Noted(tr, children)
     /\ Reports("server", AcceptUpdate(tr, children))
     /\ \E F \in Overflows(children) :
          /\ IF tree.serverParent THEN UNCHANGED heard ELSE QueueMetadata(children, F, 0, Me)
          /\ Leaves(F \cup {s \in Neighbours : cand[s] # NoCandidate})
  /\ NoCandidates
  /\ counts' = [counts EXCEPT !.events = @ + 1]
  /\ UNCHANGED <<children, life, hook, sgen, reader, workers, link, told>>

\* ParentMinSpeed, ParentSpeedRatio and the own upload speed make the
\* capacity.
UpdateCapacityInputs ==
  /\ ServerReads /\ counts.events < scope.events
  /\ \E n \in 0 .. MaxCapacity :
       LET tr == [tree EXCEPT !.capacity = n] IN
       /\ tree' = Noted(tr, children)
       /\ Reports("server", AcceptUpdate(tr, children))
  /\ counts' = [counts EXCEPT !.events = @ + 1]
  /\ UNCHANGED <<cand, children, life, hook, sgen, leaving, reader, workers, heard, link, told>>

(*************************************************************************)
(* Trying the offered parents (runCandidates, runCandidate).             *)
(*************************************************************************)
WorkerCurrent(w) == tree.active /\ tree.epoch = w.epoch /\ tree.parent = None /\ ~tree.serverParent
CtxDone(w) == tree.cancel # w.epoch
WorkerGoes(w, at) == workers' = (workers \ {w}) \cup {[w EXCEPT !.at = at]}
WorkerEnds(w) == workers' = workers \ {w}
WorkerUnchanged == UNCHANGED <<children, hook, sgen, reader, heard, link, told, counts>> /\ Silent

\* getOrEstablishSession: the session that is there, or the one dial of this
\* user, which a worker does not begin after its cancellation.
Dialing(u) == \E v \in workers : v.user = u /\ v.at = "dialing"
FindParent(w) ==
  /\ w.at = "dial" /\ ~Dialing(w.user)
  /\ IF life[w.user] = "up" THEN WorkerGoes(w, "claim")
     ELSE IF CtxDone(w) THEN WorkerEnds(w) ELSE WorkerGoes(w, "dialing")
  /\ WorkerUnchanged /\ UNCHANGED <<tree, life, cand, leaving>>

\* A dial may succeed although its worker was cancelled meanwhile.
DialParent(w) ==
  /\ w.at = "dialing"
  /\ \/ /\ w.gen = tree.gen /\ life[w.user] = "off" /\ w.user \notin hook /\ reader[w.user] = "idle" /\ link = "up" /\ out[w.user] = <<>>
        /\ ~\E v \in workers : v.user = w.user /\ v.at \in {"claim", "wait"}
        /\ life' = [life EXCEPT ![w.user] = "up"]
        /\ hook' = hook \cup {w.user}
        /\ sgen' = [sgen EXCEPT ![w.user] = tree.gen]
        /\ cand' = [cand EXCEPT ![w.user] = NoCandidate]
        /\ WorkerGoes(w, "claim")
     \/ WorkerEnds(w) /\ UNCHANGED <<life, hook, sgen, cand>>
  /\ Silent /\ UNCHANGED <<tree, children, leaving, reader, heard, link, told, counts>>

\* retireCandidate: only the epoch that owns the candidate closes it.
Retire(w) ==
  IF tree.parent # w.user /\ cand[w.user].epoch = w.epoch
  THEN cand' = [cand EXCEPT ![w.user] = NoCandidate] /\ Leaves({w.user})
  ELSE UNCHANGED <<cand, leaving>>

ClaimCandidate(w) ==
  /\ w.at = "claim" /\ w.user \notin hook
  /\ IF WorkerCurrent(w)
     THEN /\ cand' = [cand EXCEPT ![w.user] = IF @ = NoCandidate THEN NewCandidate ELSE @]
          /\ WorkerGoes(w, "wait") /\ UNCHANGED leaving
     ELSE Retire(w) /\ WorkerEnds(w)
  /\ WorkerUnchanged /\ UNCHANGED <<tree, life>>

\* The deadline or the cancellation retires the candidate; a promotion, an
\* end of its epoch or of its session just ends the worker.
AwaitPromotion(w) ==
  /\ w.at = "wait"
  /\ WorkerEnds(w)
  /\ \/ Retire(w)
     \/ (~WorkerCurrent(w) \/ life[w.user] = "off") /\ UNCHANGED <<cand, leaving>>
  /\ WorkerUnchanged /\ UNCHANGED <<tree, life>>

WorkersDone ==
  /\ tree.cancel # 0 /\ ~\E w \in workers : w.epoch = tree.cancel
  /\ tree' = [tree EXCEPT !.cancel = 0]
  /\ Silent /\ UNCHANGED <<cand, children, life, hook, sgen, leaving, reader, workers, heard, link, told, counts>>

(*************************************************************************)
(* Sessions (established, closed).                                       *)
(*************************************************************************)
\* A child's connection arrives and is registered.
ChildConnects(c) ==
  /\ life[c] = "off" /\ c \notin hook /\ link = "up" /\ reader[c] = "idle" /\ out[c] = <<>>
  /\ life' = [life EXCEPT ![c] = "up"]
  /\ hook' = hook \cup {c}
  /\ sgen' = [sgen EXCEPT ![c] = tree.gen]
  /\ Silent /\ UNCHANGED <<tree, cand, children, leaving, reader, workers, heard, link, told, counts>>

EstablishedParent(s) ==
  /\ s \in hook \cap Parents
  /\ hook' = hook \ {s}
  /\ IF tree.active /\ sgen[s] = tree.gen /\ tree.parent = None /\ ~tree.serverParent /\ s \in tree.users
     THEN cand' = [cand EXCEPT ![s] = IF @ = NoCandidate THEN NewCandidate ELSE @] /\ UNCHANGED leaving
     ELSE Leaves({s}) /\ UNCHANGED cand
  /\ Silent /\ UNCHANGED <<tree, children, life, sgen, reader, workers, heard, link, told, counts>>

\* A child needs a place, and room in its queue for the branch.
EstablishedChild(c) ==
  /\ c \in hook \cap Kids
  /\ hook' = hook \ {c}
  /\ IF tree.active
     THEN \E F \in Overflows({c}) :
            LET valid == sgen[c] = tree.gen /\ Accepts(tree, children)
                kids == IF valid /\ F = {} THEN children \cup {c} ELSE children
            IN /\ children' = kids
               /\ tree' = Noted(tree, kids)
               /\ Reports(c, IF valid /\ F = {} THEN AcceptUpdate(tree, kids) ELSE <<>>)
               /\ QueueMetadata({c} \cap kids, {}, tree.branch.level, tree.branch.root)
               /\ Leaves({c} \ kids)
     ELSE UNCHANGED <<children, tree, heard, leaving>> /\ Silent
  /\ UNCHANGED <<cand, life, sgen, reader, workers, link, told, counts>>

\* A read fails, or the peer breaks the protocol.
ReadLoopFails(s) ==
  /\ life[s] = "up" /\ s \notin leaving \cup hook /\ reader[s] = "idle"
  /\ Leaves({s})
  /\ Silent /\ UNCHANGED <<tree, cand, children, life, hook, sgen, reader, workers, heard, link, told, counts>>

Close(s) ==
  /\ s \in leaving
  /\ leaving' = leaving \ {s}
  /\ life' = [life EXCEPT ![s] = "closing"]
  /\ Silent /\ UNCHANGED <<tree, cand, children, hook, sgen, reader, workers, heard, link, told, counts>>

\* Mutant: the loss of the parent is not advertised.
ClosedUnadvertised(s) ==
  /\ life[s] = "closing"
  /\ life' = [life EXCEPT ![s] = "off"] /\ sgen' = [sgen EXCEPT ![s] = 0] /\ heard' = [heard EXCEPT ![s] = Unheard]
  /\ children' = children \ {s}
  /\ IF tree.parent = s
     THEN tree' = [Forgets(tree) EXCEPT !.cancel = tree.cancel, !.accept = {FALSE}] /\ NoCandidates /\ Silent
     ELSE /\ tree' = IF s \in children THEN Noted(tree, children \ {s}) ELSE tree
          /\ IF s \in children THEN Reports(s, AcceptUpdate(tree, children \ {s})) ELSE Silent
          /\ cand' = [cand EXCEPT ![s] = NoCandidate]
  /\ UNCHANGED <<hook, leaving, reader, workers, link, told, counts>>

\* The closed hook: a child, a candidate or the parent is gone.
Closed(s) ==
  /\ life[s] = "closing"
  /\ life' = [life EXCEPT ![s] = "off"] /\ sgen' = [sgen EXCEPT ![s] = 0] /\ heard' = [heard EXCEPT ![s] = Unheard]
  /\ IF s \in children
     THEN /\ children' = children \ {s}
          /\ tree' = Noted(tree, children \ {s})
          /\ Reports(s, AcceptUpdate(tree, children \ {s}))
          /\ UNCHANGED cand
     ELSE IF cand[s] # NoCandidate
     THEN cand' = [cand EXCEPT ![s] = NoCandidate] /\ Silent /\ UNCHANGED <<tree, children>>
     ELSE IF tree.parent = s
     THEN /\ tree' = [Forgets(tree) EXCEPT !.cancel = tree.cancel, !.accept = {FALSE}]
          /\ NoCandidates
          /\ Reports(s, NoParentMessages)
          /\ UNCHANGED children
     ELSE Silent /\ UNCHANGED <<tree, cand, children>>
  /\ UNCHANGED <<hook, leaving, reader, workers, link, told, counts>>

(*************************************************************************)
(* Frames (frame, admitInboundFrame, handleBranchLevel, handleBranchRoot,*)
(* handleSearch, tryPromote).                                            *)
(*************************************************************************)
FrameUnchanged == UNCHANGED <<life, hook, sgen, workers, link, told, counts>>

\* Who may send is decided when the frame is read, and again by its handler.
ReadFrame(s) ==
  /\ life[s] = "up" /\ s \notin hook /\ reader[s] = "idle" /\ out[s] = <<>>
  /\ IF tree.active /\ sgen[s] = tree.gen /\ (tree.parent = s \/ cand[s] # NoCandidate)
     THEN reader' = [reader EXCEPT ![s] = "frame"] /\ UNCHANGED leaving
     ELSE Leaves({s}) /\ UNCHANGED reader
  /\ Silent /\ UNCHANGED <<tree, cand, children, heard>> /\ FrameUnchanged

Handled(s) == reader' = [reader EXCEPT ![s] = "idle"]
ParentFrame(s) == reader[s] = "frame" /\ tree.parent = s /\ Handled(s) /\ Silent /\ UNCHANGED <<cand, children>> /\ FrameUnchanged

ParentLevel(s) ==
  /\ ParentFrame(s)
  /\ \E l \in 0 .. 1 : LET
         root == IF l = 0 THEN s ELSE tree.branch.root
     IN \E F \in Overflows(children) :
          /\ tree' = [tree EXCEPT !.level = l, !.branch = [level |-> l + 1, root |-> root]]
          /\ heard' = [c \in Neighbours |-> IF c \notin children \ F THEN heard[c]
                                       ELSE [level |-> l + 1, root |-> IF root = tree.branch.root THEN heard[c].root ELSE root]]
          /\ Leaves(F)

ParentRoot(s) ==
  /\ ParentFrame(s)
  /\ LET root == IF tree.level = 0 THEN s ELSE Far IN
     \E F \in Overflows(children) :
       /\ tree' = [tree EXCEPT !.branch.root = root]
       /\ heard' = [c \in Neighbours |-> IF c \in children \ F THEN [heard[c] EXCEPT !.root = root] ELSE heard[c]]
       /\ Leaves(F)

\* The parent's searches go to every child that has room for them.
ParentSearch(s) ==
  /\ ParentFrame(s)
  /\ \E F \in Overflows(children) : Leaves(F)
  /\ UNCHANGED <<tree, heard>>

\* A candidate's level, root and first search are kept; one that is no
\* candidate any more is rejected.
CandidateFrame(s) ==
  /\ reader[s] = "frame" /\ tree.parent # s
  /\ IF cand[s] = NoCandidate
     THEN Handled(s) /\ Leaves({s}) /\ UNCHANGED cand
     ELSE /\ \E known \in { [cand[s] EXCEPT !.level = 0, !.root = s], [cand[s] EXCEPT !.level = 1],
                             [cand[s] EXCEPT !.root = IF cand[s].level = 0 THEN s ELSE Far], [cand[s] EXCEPT !.search = TRUE] } :
               cand' = [cand EXCEPT ![s] = known]
          /\ reader' = [reader EXCEPT ![s] = "promote"] /\ UNCHANGED leaving
  /\ Silent /\ UNCHANGED <<tree, heard, children>> /\ FrameUnchanged

Promotable(s) ==
  /\ cand[s] # NoCandidate /\ cand[s].epoch = tree.epoch
  /\ cand[s].level # -1 /\ cand[s].search /\ cand[s].root # None
  /\ tree.active /\ tree.parent = None /\ ~tree.serverParent /\ sgen[s] = tree.gen

\* Level, root and a search make a candidate the parent: the others go,
\* the server and the children are told.
TryPromote(s) ==
  /\ reader[s] = "promote"
  /\ IF Promotable(s)
     THEN LET l == cand[s].level
              tr == [tree EXCEPT !.parent = s, !.level = l, !.branch = [level |-> l + 1, root |-> cand[s].root], !.cancel = 0, !.users = {}]
          IN /\ tree' = Noted(tr, children)
             /\ Reports(s, << <<"noParent", FALSE>> >> \o AcceptUpdate(tr, children))
             /\ \E F \in Overflows(children) :
                  QueueMetadata(children, F, l + 1, cand[s].root) /\ Leaves(F \cup {o \in Neighbours \ {s} : cand[o] # NoCandidate})
             /\ NoCandidates
     ELSE Silent /\ UNCHANGED <<tree, heard, cand, leaving>>
  /\ Handled(s) /\ UNCHANGED children /\ FrameUnchanged

(*************************************************************************)
(* The system.                                                           *)
(*************************************************************************)
Init ==
  /\ scope \in Scopes
  /\ tree = [active |-> FALSE, gen |-> 0, epoch |-> 0, cancel |-> 0, users |-> {}, parent |-> None, level |-> 0,
             serverParent |-> FALSE, branch |-> [level |-> 0, root |-> Me], capacity |-> 0, accept |-> {}]
  /\ cand = [s \in Neighbours |-> NoCandidate] /\ children = {}
  /\ life = [s \in Neighbours |-> "off"] /\ hook = {} /\ sgen = [s \in Neighbours |-> 0] /\ leaving = {}
  /\ reader = [s \in Neighbours |-> "idle"] /\ workers = {}
  /\ heard = [c \in Neighbours |-> Unheard]
  /\ link = "down" /\ told = Untold /\ raced = {}
  /\ out = [t \in Neighbours \cup {"server"} |-> <<>>]
  /\ counts = [offers |-> 0, events |-> 0]

ServerStep == Activate \/ Disconnect \/ Deactivate \/ Reset \/ HandleServerEmbedded \/ UpdateCapacityInputs \/ OfferParents(scope.parents)
WorkerStep == WorkersDone \/ \E w \in workers : FindParent(w) \/ DialParent(w) \/ ClaimCandidate(w) \/ AwaitPromotion(w)
SessionStep(s) ==
  \/ ChildConnects(s) /\ s \in scope.kids
  \/ EstablishedParent(s) \/ EstablishedChild(s) \/ ReadLoopFails(s) \/ Close(s) \/ Closed(s)
FrameStep(s) ==
  \/ ReadFrame(s) \/ ParentLevel(s) \/ ParentRoot(s) \/ ParentSearch(s) \/ CandidateFrame(s) \/ TryPromote(s)
Next ==
  \/ ServerStep \/ WorkerStep
  \/ \E s \in Neighbours : SessionStep(s) \/ FrameStep(s)
  \/ \E t \in DOMAIN out : Send(t)
Spec == Init /\ [][Next /\ UNCHANGED scope]_vars

(*************************************************************************)
(* Properties.                                                           *)
(*************************************************************************)
\* The types of the variables.
TypeOK ==
  /\ tree.active \in BOOLEAN /\ tree.gen \in 0 .. scope.gens /\ tree.parent \in Parents \cup {None}
  /\ tree.accept \subseteq BOOLEAN /\ tree.users \subseteq Parents /\ tree.capacity \in 0 .. MaxCapacity
  /\ children \subseteq Kids /\ hook \cup leaving \subseteq Neighbours
  /\ life \in [Neighbours -> {"off", "up", "closing"}] /\ sgen \in [Neighbours -> 0 .. scope.gens]
  /\ told \in [{"noParent", "accept"} -> BOOLEAN] /\ link \in {"up", "lost", "down"}

\* The parent and the children have a session, or one whose closed hook is
\* still to come: a session that closes while its frame or its registration
\* is under way is not kept for good.
MembersHaveSessions == \A s \in Neighbours : tree.parent = s \/ s \in children => life[s] # "off"

\* A child that stays connected was last told the branch it is in, however
\* level, root, parent and place in the tree change.
ChildrenKnowBranch ==
  tree.parent # None \/ tree.serverParent =>
    \A c \in children : life[c] = "up" /\ c \notin leaving => heard[c] = tree.branch

\* What acceptSent remembers is what parent, capacity and children call for.
AcceptIsCurrent == tree.active => tree.accept = {Accepts(tree, children)}

\* Once every report is sent, the server knows whether a parent is missing
\* and whether children are accepted, unless two goroutines were about to
\* report the same kind at once: their order is not kept.
ServerIsTold ==
  link = "up" /\ (\A t \in DOMAIN out : out[t] = <<>>) =>
    /\ "noParent" \notin raced => told.noParent = (tree.parent = None)
    /\ "accept" \notin raced => {told.accept} = tree.accept

\* A candidate of the current list is watched by a worker, which gives it
\* its deadline; with a parent there are no candidates.
CandidatesAreWatched ==
  \A s \in Parents : cand[s] # NoCandidate /\ life[s] = "up" /\ s \notin leaving =>
    /\ tree.parent = None
    /\ cand[s].epoch = tree.epoch => \E w \in workers : w.user = s

\* The client's place in the tree is what its members, the children and the
\* server were told, and every candidate is watched (tryPromote, closed).
TreeIsSound ==
  TypeOK /\ MembersHaveSessions /\ ChildrenKnowBranch /\ AcceptIsCurrent /\ ServerIsTold /\ CandidatesAreWatched
=============================================================================
