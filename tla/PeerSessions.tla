---------------------------- MODULE PeerSessions ----------------------------
(***************************************************************************)
(* The peer connections of the native client to one user: the callers that *)
(* want a P session and share one establishment, the dial through the      *)
(* server with its fallback to an indirect connection, the tree's dials of *)
(* a D session, the listener's inbound connections and their slots, the    *)
(* mirror dials the server asks for, the registry that keeps one session   *)
(* per kind, and the end of a server session and of the client.            *)
(*                                                                         *)
(* An attempt is one goroutine that may end up with a session; its socket, *)
(* its pending token and its session carry the attempt's number.  One      *)
(* action is one critical section, one network call or one channel         *)
(* operation.  Deadlines are choices that can always be taken.  F          *)
(* connections are in NativeDownloads, the hooks in DistributedTree.       *)
(* Bounds: the attempts and the server sessions of one cast.               *)
(***************************************************************************)
EXTENDS Integers, FiniteSets

CONSTANTS
  Attempts, \* the numbers 1 .. n of the goroutines
  Casts,    \* which goroutines run, and how many server sessions
  Slots     \* defaultInboundPeerLimit

VARIABLES
  cast,
  job,       \* every attempt: where it is and what it holds
  sock,      \* every attempt's own socket, with the inbound slot it holds
  sess,      \* every attempt's session: fresh, live, closing, or none
  doomed,    \* the sessions a Close is on its way to
  sessions,  \* sessionRegistry.sessions
  closedGen, \* sessionRegistry.closedGenerations["D"]
  flights,   \* establishes: who leads the establishment of a kind
  asking,    \* pendingAddrs: the waiters for the user's address
  pending,   \* tokens a PierceFirewall may complete
  result,    \* pendingAttempt.done, a channel of one: 0 is empty
  failing,   \* the attempts failAllPendingAttempts took out of the map
  slots,     \* free inboundSlots
  gen, run   \* the server generation, and where Run's goroutine is

vars == <<cast, job, sock, sess, doomed, sessions, closedGen, flights, asking, pending, result, failing, slots, gen, run>>

Types == {"P", "D"}
Nobody == 0
Refused == -1            \* an error in a channel
Idle == [at |-> "off", type |-> "P", gen |-> 0, conn |-> 0, lead |-> 0, answer |-> 0]
Ended == [Idle EXCEPT !.at = "ended"]

Serving == run.at = "serving"
Stopping == run.stopping
InProgress(a) == job[a].at \notin {"off", "ended"}

(*************************************************************************)
(* Pieces of steps.                                                      *)
(*************************************************************************)
Goto(a, at) == job' = [job EXCEPT ![a].at = at]
\* The attempt is over: its flight, if it leads one, ends in the same step.
Ends(a, answer) ==
  /\ job' = [job EXCEPT ![a] = [Ended EXCEPT !.answer = answer, !.type = job[a].type, !.gen = job[a].gen,
                                              !.conn = IF sess[a] \in {"live", "closing"} THEN job[a].conn ELSE 0]]
  /\ flights' = [t \in Types |-> IF flights[t] = a THEN Nobody ELSE flights[t]]
EndsEmpty(a) ==
  /\ job' = [job EXCEPT ![a] = Ended]
  /\ flights' = [t \in Types |-> IF flights[t] = a THEN Nobody ELSE flights[t]]

NetUnchanged == UNCHANGED <<cast, closedGen, failing, gen, run>>
SessUnchanged == UNCHANGED <<sess, doomed, sessions>>
SockUnchanged == UNCHANGED <<sock, slots>>
WaitUnchanged == UNCHANGED <<asking, pending, result>>

\* Close a socket and release the slot it holds, once.
Drops(S) ==
  /\ sock' = [s \in Attempts |-> IF s \in S THEN [open |-> FALSE, lease |-> FALSE] ELSE sock[s]]
  /\ slots' = slots + Cardinality({s \in S \cap Attempts : sock[s].lease})

Open(a) == sock' = [sock EXCEPT ![a].open = TRUE] /\ UNCHANGED slots

(*************************************************************************)
(* Sharing one establishment (coalesceEstablish, getOrConnectPeerSession *)
(* for P and getOrEstablishSession for D).                               *)
(*************************************************************************)
Caller(a) == cast.who[a] \in {"caller", "parent"}

StartCaller(a) ==
  /\ Caller(a) /\ job[a].at = "off" /\ ~Stopping
  /\ IF cast.who[a] = "caller" THEN job' = [job EXCEPT ![a] = [Idle EXCEPT !.at = "get"]]
     ELSE Serving /\ job' = [job EXCEPT ![a] = [Idle EXCEPT !.at = "get", !.type = "D", !.gen = gen]]
  /\ NetUnchanged /\ SessUnchanged /\ SockUnchanged /\ WaitUnchanged /\ UNCHANGED flights

Get(a) ==
  /\ job[a].at = "get"
  /\ LET s == sessions[job[a].type] IN
     \/ s # Nobody /\ Ends(a, s)
     \/ s = Nobody /\ Goto(a, "join") /\ UNCHANGED flights
  /\ NetUnchanged /\ SessUnchanged /\ SockUnchanged /\ WaitUnchanged

\* establishMu: wait for the one who leads, or lead.
Join(a) ==
  /\ job[a].at = "join"
  /\ LET t == job[a].type
         leader == flights[t]
     IN IF leader # Nobody
        THEN job' = [job EXCEPT ![a].at = "follow", ![a].lead = leader] /\ UNCHANGED flights
        ELSE /\ flights' = [flights EXCEPT ![t] = a]
             /\ Goto(a, IF t = "P" THEN "resolve" ELSE "recheck")
  /\ NetUnchanged /\ SessUnchanged /\ SockUnchanged /\ WaitUnchanged

\* The leader's answer, or the caller's own deadline.
Follow(a) ==
  /\ job[a].at = "follow"
  /\ \/ job[job[a].lead].at = "ended" /\ Ends(a, job[job[a].lead].answer)
     \/ EndsEmpty(a)
  /\ NetUnchanged /\ SessUnchanged /\ SockUnchanged /\ WaitUnchanged

\* establishSession looks again before it dials.
Recheck(a) ==
  /\ job[a].at = "recheck"
  /\ LET s == sessions["D"] IN
     \/ s # Nobody /\ Ends(a, s)
     \/ s = Nobody /\ Goto(a, "dial") /\ UNCHANGED flights
  /\ NetUnchanged /\ SessUnchanged /\ SockUnchanged /\ WaitUnchanged

(*************************************************************************)
(* The address (resolvePeerAddress) and the dial (dialPeer).             *)
(*************************************************************************)
\* The waiter is registered, then the server is asked.
AskAddress(a) ==
  /\ job[a].at = "resolve"
  /\ asking' = asking \cup {a}
  /\ Goto(a, "asking")
  /\ NetUnchanged /\ SessUnchanged /\ SockUnchanged /\ UNCHANGED <<pending, result, flights>>

\* The request could not be written, or the deadline passed: deregister.
GiveUpAddress(a) ==
  /\ job[a].at \in {"asking", "address"}
  /\ asking' = asking \ {a}
  /\ result' = [result EXCEPT ![a] = Nobody]
  /\ EndsEmpty(a)
  /\ NetUnchanged /\ SessUnchanged /\ SockUnchanged /\ UNCHANGED pending

AddressAsked(a) ==
  /\ job[a].at = "asking" /\ Serving
  /\ Goto(a, "address")
  /\ NetUnchanged /\ SessUnchanged /\ SockUnchanged /\ WaitUnchanged /\ UNCHANGED flights

\* deliverAddr answers every waiter; the ones without a request on the
\* wire yet read it after the write.
DeliverAddr ==
  /\ Serving /\ \E a \in asking : job[a].at = "address"
  /\ asking' = {}
  /\ result' = [a \in Attempts |-> IF a \in asking THEN a ELSE result[a]]
  /\ NetUnchanged /\ SessUnchanged /\ SockUnchanged /\ UNCHANGED <<pending, job, flights>>

\* The waiter's channel carries the attempt's own number for an address.
TakeAddress(a) ==
  /\ job[a].at = "address" /\ result[a] # Nobody
  /\ result' = [result EXCEPT ![a] = Nobody]
  /\ IF result[a] = Refused THEN EndsEmpty(a) ELSE Goto(a, "dial") /\ UNCHANGED flights
  /\ NetUnchanged /\ SessUnchanged /\ SockUnchanged /\ UNCHANGED <<asking, pending>>

\* A direct dial with its PeerInit; a P dial that fails goes on indirectly.
Dial(a) ==
  /\ Caller(a) /\ job[a].at = "dial"
  /\ \/ Open(a) /\ job' = [job EXCEPT ![a].at = "register", ![a].conn = a] /\ UNCHANGED flights
     \/ EndsEmpty(a) /\ SockUnchanged
     \/ job[a].type = "P" /\ Goto(a, "pend") /\ SockUnchanged /\ UNCHANGED flights
  /\ NetUnchanged /\ SessUnchanged /\ WaitUnchanged

RegisterPending(a) ==
  /\ job[a].at = "pend"
  /\ pending' = pending \cup {a}
  /\ Goto(a, "askIndirect")
  /\ NetUnchanged /\ SessUnchanged /\ SockUnchanged /\ UNCHANGED <<asking, result, flights>>

AskIndirect(a) ==
  /\ job[a].at = "askIndirect"
  /\ \/ Serving /\ Goto(a, "await")
     \/ Goto(a, "deregister")
  /\ NetUnchanged /\ SessUnchanged /\ SockUnchanged /\ WaitUnchanged /\ UNCHANGED flights

\* The answer, or the deadline even when the answer is there.
AwaitIndirect(a) ==
  /\ job[a].at = "await"
  /\ \/ /\ result[a] # Nobody
        /\ job' = [job EXCEPT ![a].at = "deregister", ![a].conn = IF result[a] = Refused THEN 0 ELSE result[a]]
        /\ result' = [result EXCEPT ![a] = Nobody]
     \/ Goto(a, "deregister") /\ UNCHANGED result
  /\ NetUnchanged /\ SessUnchanged /\ SockUnchanged /\ UNCHANGED <<asking, pending, flights>>

Deregister(a) ==
  /\ job[a].at = "deregister"
  /\ pending' = pending \ {a}
  /\ Goto(a, "drain")
  /\ NetUnchanged /\ SessUnchanged /\ SockUnchanged /\ UNCHANGED <<asking, result, flights>>

\* Mutant: what is in the channel stays there.
DrainNothing(a) ==
  /\ job[a].at = "drain"
  /\ IF job[a].conn = 0 THEN EndsEmpty(a) ELSE Goto(a, "register") /\ UNCHANGED flights
  /\ NetUnchanged /\ SessUnchanged /\ SockUnchanged /\ WaitUnchanged

Drain(a) ==
  /\ job[a].at = "drain"
  /\ Drops({result[a]})
  /\ result' = [result EXCEPT ![a] = Nobody]
  /\ IF job[a].conn = 0 THEN EndsEmpty(a) ELSE Goto(a, "register") /\ UNCHANGED flights
  /\ NetUnchanged /\ SessUnchanged /\ UNCHANGED <<asking, pending>>

\* The server relays that the peer cannot connect back.
CantConnectToPeer(a) ==
  /\ Serving /\ a \in pending /\ job[a].at = "await"
  /\ pending' = pending \ {a}
  /\ result' = [result EXCEPT ![a] = Refused]
  /\ NetUnchanged /\ SessUnchanged /\ SockUnchanged /\ UNCHANGED <<asking, job, flights>>

(*************************************************************************)
(* Inbound connections (acceptPeers, handlePeerConn) and mirror dials.   *)
(*************************************************************************)
Accept(a) ==
  /\ cast.who[a] = "inbound" /\ job[a].at = "off"
  /\ IF slots > 0 /\ ~Stopping
     THEN /\ slots' = slots - 1
          /\ sock' = [sock EXCEPT ![a] = [open |-> TRUE, lease |-> TRUE]]
          /\ job' = [job EXCEPT ![a] = [Idle EXCEPT !.at = "init", !.conn = a]]
          /\ UNCHANGED flights
     ELSE EndsEmpty(a) /\ SockUnchanged
  /\ NetUnchanged /\ SessUnchanged /\ WaitUnchanged

\* No init message, an unknown token, or a D connection without a server.
RefuseInit(a) ==
  /\ job[a].at = "init"
  /\ Drops({a}) /\ EndsEmpty(a)
  /\ NetUnchanged /\ SessUnchanged /\ WaitUnchanged

\* PierceFirewall: the token leaves the map and the socket enters the
\* channel under pendingMu.
CompletePendingDial(a) ==
  /\ job[a].at = "init" /\ sock[a].open
  /\ \E t \in pending :
       /\ job[t].at \in {"await", "deregister"}
       /\ pending' = pending \ {t}
       /\ result' = [result EXCEPT ![t] = a]
  /\ EndsEmpty(a)
  /\ NetUnchanged /\ SessUnchanged /\ SockUnchanged /\ UNCHANGED asking

PeerInit(a) ==
  /\ job[a].at = "init" /\ sock[a].open
  /\ \/ Goto(a, "register")
     \/ Serving /\ job' = [job EXCEPT ![a].at = "register", ![a].type = "D", ![a].gen = gen]
  /\ NetUnchanged /\ SessUnchanged /\ SockUnchanged /\ WaitUnchanged /\ UNCHANGED flights

\* The server asks for a connection back; its generation goes along.
HandleConnectToPeer(a) ==
  /\ cast.who[a] = "mirror" /\ job[a].at = "off" /\ Serving
  /\ \E t \in Types : job' = [job EXCEPT ![a] = [Idle EXCEPT !.at = "mirror", !.type = t, !.gen = gen]]
  /\ NetUnchanged /\ SessUnchanged /\ SockUnchanged /\ WaitUnchanged /\ UNCHANGED flights

\* The dial with its PierceFirewall; a failure is told to the server.
MirrorDial(a) ==
  /\ job[a].at = "mirror"
  /\ \/ EndsEmpty(a) /\ SockUnchanged
     \/ Open(a) /\ job' = [job EXCEPT ![a].at = "register", ![a].conn = a] /\ UNCHANGED flights
  /\ NetUnchanged /\ SessUnchanged /\ WaitUnchanged

(*************************************************************************)
(* Registering a session (newSession, Register, registerSession).        *)
(*************************************************************************)
Stale(a) == job[a].type = "D" /\ job[a].gen <= closedGen

Register(a) ==
  /\ job[a].at = "register"
  /\ LET s == sessions[job[a].type] IN
     IF Stale(a) \/ s # Nobody
     THEN /\ sess' = [sess EXCEPT ![a] = "fresh"]
          /\ job' = [job EXCEPT ![a].at = "lose", ![a].lead = IF Stale(a) THEN Nobody ELSE s]
          /\ UNCHANGED sessions
     ELSE /\ sess' = [sess EXCEPT ![a] = "live"]
          /\ sessions' = [sessions EXCEPT ![job[a].type] = a]
          /\ job' = [job EXCEPT ![a].at = "loops", ![a].lead = a]
  /\ NetUnchanged /\ SockUnchanged /\ WaitUnchanged /\ UNCHANGED <<doomed, flights>>

\* The loser is closed by the one who registered it; nobody else knows it.
CloseLoser(a) ==
  /\ job[a].at = "lose"
  /\ sess' = [sess EXCEPT ![a] = "none"]
  /\ Drops({job[a].conn})
  /\ job' = [job EXCEPT ![a].at = "check", ![a].conn = 0]
  /\ NetUnchanged /\ WaitUnchanged /\ UNCHANGED <<doomed, sessions, flights>>

\* hooks.established has run, which a Close of the listed session may
\* overtake; the session is read and written from here on, or closed.
StartLoops(a) ==
  /\ job[a].at = "loops"
  /\ doomed' = IF Stopping /\ sess[a] = "live" THEN doomed \cup {a} ELSE doomed
  /\ Goto(a, "check")
  /\ NetUnchanged /\ SockUnchanged /\ WaitUnchanged /\ UNCHANGED <<sess, sessions, flights>>

\* After the loops are started, or the session is closed for want of them.
\* After registering a D session: is its server session still the current?
Check(a) ==
  /\ job[a].at = "check" /\ ~(Stopping /\ job[a].lead = a /\ a \in doomed)
  /\ LET w == job[a].lead IN
     IF /\ cast.who[a] # "mirror" /\ job[a].type = "D" /\ w # Nobody
        /\ job[w].gen = job[a].gen /\ ~(Serving /\ gen = job[a].gen)
     THEN /\ doomed' = IF sess[w] = "live" THEN doomed \cup {w} ELSE doomed
          /\ Ends(a, Nobody)
     ELSE Ends(a, w) /\ UNCHANGED doomed
  /\ NetUnchanged /\ SockUnchanged /\ WaitUnchanged /\ UNCHANGED <<sess, sessions>>

(*************************************************************************)
(* The end of a session (peerSession.Close).                             *)
(*************************************************************************)
\* A read or a write fails: the peer went, or the session idled too long.
ReadLoopFails(s) ==
  /\ sess[s] = "live" /\ job[s].at # "loops" /\ s \notin doomed
  /\ doomed' = doomed \cup {s}
  /\ NetUnchanged /\ SockUnchanged /\ WaitUnchanged /\ UNCHANGED <<job, sess, sessions, flights>>

\* Writes are refused, the socket closed, the slot released.
Close(s) ==
  /\ s \in doomed /\ sess[s] = "live"
  /\ sess' = [sess EXCEPT ![s] = "closing"]
  /\ doomed' = doomed \ {s}
  /\ Drops({job[s].conn})
  /\ job' = [job EXCEPT ![s].conn = 0]
  /\ NetUnchanged /\ WaitUnchanged /\ UNCHANGED <<sessions, flights>>

RemoveIfSame(s) ==
  /\ sess[s] = "closing"
  /\ sess' = [sess EXCEPT ![s] = "none"]
  /\ sessions' = [t \in Types |-> IF sessions[t] = s THEN Nobody ELSE sessions[t]]
  /\ NetUnchanged /\ SockUnchanged /\ WaitUnchanged /\ UNCHANGED <<doomed, job, flights>>

(*************************************************************************)
(* Run: sessions with the server, and the end (serveConnected's cleanup, *)
(* stopLifecycle).                                                       *)
(*************************************************************************)
RunGoes(at) == run' = [run EXCEPT !.at = at]

\* The daemon's context ends: the session with the server is left, or none
\* is begun.
Cancel ==
  /\ run.at \in {"serving", "login"}
  /\ run' = [run EXCEPT !.at = IF Serving THEN "closeGeneration" ELSE "handshakes", !.cancelled = TRUE]
  /\ UNCHANGED <<cast, job, sock, sess, doomed, sessions, closedGen, flights, asking, pending, result, failing, slots, gen>>

LoseServer ==
  /\ Serving
  /\ RunGoes("closeGeneration")
  /\ UNCHANGED <<cast, job, sock, sess, doomed, sessions, closedGen, flights, asking, pending, result, failing, slots, gen>>

\* The generation is closed for good, its listed session taken and closed.
CloseGeneration ==
  /\ run.at = "closeGeneration"
  /\ closedGen' = gen
  /\ LET s == sessions["D"] IN
     IF s # Nobody /\ job[s].gen = gen
     THEN /\ sessions' = [sessions EXCEPT !["D"] = Nobody]
          /\ doomed' = IF sess[s] = "live" THEN doomed \cup {s} ELSE doomed
     ELSE UNCHANGED <<sessions, doomed>>
  /\ RunGoes("addresses")
  /\ UNCHANGED <<cast, job, sock, sess, flights, asking, pending, result, failing, slots, gen>>

\* failAllAddrWaiters, and the first half of failAllPendingAttempts.
FailAllWaiters ==
  /\ run.at = "addresses" /\ \A s \in doomed : ~Stale(s)
  /\ result' = [a \in Attempts |-> IF a \in asking THEN Refused ELSE result[a]]
  /\ asking' = {}
  /\ failing' = pending /\ pending' = {}
  /\ RunGoes("failing")
  /\ UNCHANGED <<cast, job, sock, sess, doomed, sessions, closedGen, flights, slots, gen>>

\* Nobody reads the channel of an attempt that has drained it.
FailAllPending ==
  /\ run.at = "failing"
  /\ result' = [a \in Attempts |->
                  IF a \in failing /\ result[a] = Nobody /\ job[a].at \in {"askIndirect", "await", "deregister", "drain"}
                  THEN Refused ELSE result[a]]
  /\ failing' = {}
  /\ RunGoes(IF Stopping THEN "wait" ELSE IF run.cancelled THEN "handshakes" ELSE "login")
  /\ UNCHANGED <<cast, job, sock, sess, doomed, sessions, closedGen, flights, asking, pending, slots, gen>>

Login ==
  /\ run.at = "login" /\ gen < cast.gens
  /\ gen' = gen + 1
  /\ RunGoes("serving")
  /\ UNCHANGED <<cast, job, sock, sess, doomed, sessions, closedGen, flights, asking, pending, result, failing, slots>>

\* lifeStopping, then closeHandshakes: the sockets not yet handed over.
CloseHandshakes ==
  /\ run.at = "handshakes"
  /\ run' = [run EXCEPT !.at = "closeAll", !.stopping = TRUE]
  /\ sock' = [a \in Attempts |-> IF cast.who[a] = "inbound" /\ InProgress(a) THEN [sock[a] EXCEPT !.open = FALSE] ELSE sock[a]]
  /\ UNCHANGED <<cast, job, sess, doomed, sessions, closedGen, flights, asking, pending, result, failing, slots, gen>>

\* Mutant: the sessions are left to their peers.
CloseNone ==
  /\ run.at = "closeAll"
  /\ RunGoes("addresses")
  /\ UNCHANGED <<cast, job, sock, sess, doomed, sessions, closedGen, flights, asking, pending, result, failing, slots, gen>>

CloseAll ==
  /\ run.at = "closeAll"
  /\ doomed' = doomed \cup {s \in Attempts : sess[s] = "live" /\ \E t \in Types : sessions[t] = s}
  /\ RunGoes("addresses")
  /\ UNCHANGED <<cast, job, sock, sess, sessions, closedGen, flights, asking, pending, result, failing, slots, gen>>

\* lifeWG.Wait: the goroutines that were started, not the callers outside.
Down ==
  /\ run.at = "wait"
  /\ \A a \in Attempts : cast.who[a] = "caller" \/ (~InProgress(a) /\ sess[a] = "none")
  /\ \A s \in Attempts : sess[s] = "live" => job[s].at = "loops" \/ (InProgress(s) /\ s \in doomed)
  /\ RunGoes("down")
  /\ UNCHANGED <<cast, job, sock, sess, doomed, sessions, closedGen, flights, asking, pending, result, failing, slots, gen>>

(*************************************************************************)
(* The system.                                                           *)
(*************************************************************************)
Init ==
  /\ cast \in Casts
  /\ job = [a \in Attempts |-> Idle]
  /\ sock = [a \in Attempts |-> [open |-> FALSE, lease |-> FALSE]]
  /\ sess = [a \in Attempts |-> "none"]
  /\ doomed = {} /\ asking = {} /\ pending = {} /\ failing = {}
  /\ sessions = [t \in Types |-> Nobody] /\ flights = [t \in Types |-> Nobody]
  /\ closedGen = 0 /\ slots = Slots
  /\ result = [a \in Attempts |-> Nobody]
  /\ gen = 1 /\ run = [at |-> "serving", cancelled |-> FALSE, stopping |-> FALSE]

Works(a) ==
  \/ Get(a) \/ Join(a) \/ Follow(a) \/ Recheck(a)
  \/ AskAddress(a) \/ AddressAsked(a) \/ GiveUpAddress(a) \/ TakeAddress(a) \/ Dial(a)
  \/ RegisterPending(a) \/ AskIndirect(a) \/ AwaitIndirect(a) \/ Deregister(a) \/ Drain(a)
  \/ RefuseInit(a) \/ CompletePendingDial(a) \/ PeerInit(a) \/ MirrorDial(a)
  \/ Register(a) \/ CloseLoser(a) \/ StartLoops(a) \/ Check(a)
Closes(s) == Close(s) \/ RemoveIfSame(s)
Runs ==
  \/ CloseGeneration \/ FailAllWaiters \/ FailAllPending \/ CloseHandshakes \/ CloseAll \/ Down
Others ==
  \/ DeliverAddr \/ Cancel \/ LoseServer \/ Login
  \/ \E a \in Attempts : StartCaller(a) \/ Accept(a) \/ HandleConnectToPeer(a) \/ CantConnectToPeer(a) \/ ReadLoopFails(a)
Next == Others \/ Runs \/ \E a \in Attempts : Works(a) \/ Closes(a)

\* Goroutines are scheduled and every wait has a deadline.
Fairness == WF_vars(Runs) /\ \A a \in Attempts : WF_vars(Works(a)) /\ WF_vars(Closes(a))
Spec == Init /\ [][Next]_vars /\ Fairness

(*************************************************************************)
(* Properties.                                                           *)
(*************************************************************************)
\* The types of the variables.
TypeOK ==
  /\ cast \in Casts
  /\ \A a \in Attempts :
       /\ job[a].type \in Types /\ job[a].gen \in 0 .. cast.gens
       /\ {job[a].conn, job[a].lead, job[a].answer} \subseteq Attempts \cup {Nobody}
       /\ sess[a] \in {"none", "fresh", "live", "closing"}
  /\ sock \in [Attempts -> [open : BOOLEAN, lease : BOOLEAN]]
  /\ doomed \cup asking \cup pending \cup failing \subseteq Attempts
  /\ sessions \in [Types -> Attempts \cup {Nobody}] /\ flights \in [Types -> Attempts \cup {Nobody}]
  /\ result \in [Attempts -> Attempts \cup {Nobody, Refused}]
  /\ closedGen \in 0 .. cast.gens /\ gen \in 1 .. cast.gens /\ slots \in 0 .. Slots
  /\ run.cancelled \in BOOLEAN /\ run.stopping \in BOOLEAN

\* A socket is somebody's to close, and so is its inbound slot: the
\* attempt that works on it, the pending attempt that will find it in its
\* channel, or the session that reads from it (PeerConn, pendingResult,
\* peerSession).
Owned(s) ==
  \/ \E a \in Attempts : InProgress(a) /\ (job[a].conn = s \/ result[a] = s)
  \/ \E a \in Attempts : sess[a] = "live" /\ job[a].conn = s
NothingLeaks == \A s \in Attempts : sock[s].open \/ sock[s].lease => Owned(s)

\* Two live sessions of a kind with the user never exist side by side, and
\* a live one that nobody is about to close is the registered one.
OneSessionPerPeer ==
  \A a \in Attempts : sess[a] = "live" /\ a \notin doomed => sessions[job[a].type] = a

\* Once CloseGeneration ran, no D session of that server session stays:
\* those it did not find are refused when they come to register.
NoSessionOutlivesServer ==
  \A a \in Attempts : sess[a] = "live" /\ job[a].type = "D" /\ job[a].gen <= closedGen => a \in doomed

\* A send into pendingAttempt.done never blocks under pendingMu: while the
\* token is in the map its channel is empty.
RoomForAnswer == \A a \in pending : result[a] = Nobody

\* After stopLifecycle nothing is open but what a caller outside the
\* lifecycle still works on, and every other inbound slot is free.
DownIsClean ==
  run.at = "down" =>
    \A s \in Attempts : sock[s].open \/ sock[s].lease => \E a \in Attempts : cast.who[a] = "caller" /\ InProgress(a)

\* The client's stop ends although no peer hangs up and callers come late.
StopEnds == run.cancelled ~> run.at = "down"

\* However callers, inbound connections, mirrored dials, server sessions and
\* a stop meet: one session of a kind, none of a server session that has
\* ended, and every socket and slot is somebody's (Register, CloseGeneration).
SessionsAreSound ==
  TypeOK /\ NothingLeaks /\ OneSessionPerPeer /\ NoSessionOutlivesServer /\ RoomForAnswer /\ DownIsClean
=============================================================================
