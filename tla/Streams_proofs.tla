----------------------------- MODULE Streams_proofs -----------------------------
(* What Searches and Streams guarantee for every number of callers, tokens   *)
(* and readers, of connections, rows and groups, and for every limit: what a *)
(* search has of its results, and a page of what it has been sent.           *)
EXTENDS MCStreams, SequenceTheorems, FiniteSetTheorems, WellFoundedInduction, TLAPS

(***************************************************************************)
(* Searches: the inductive invariant                                       *)
(***************************************************************************)
Outside == {"new", "called", "flush", "return", "over"}
Joined == {"write", "wait", "drained", "finish"}
Runs == [at : Outside \cup Joined \cup {"reserved", "drain", "release"}, token : Tokens \cup {None}, gen : Nat, ok : BOOLEAN]
Buffers == [results : Seq(Nat), failed : BOOLEAN, dropped : SUBSET Nat]
Gots == [pending : Seq(Nat), accepted : Seq(Nat)]
Bounds ==
  searching \in [kind : [Callers -> {"session", "direct", "none"}], buffer : Nat, limit : Nat, sessions : Nat, responses : Nat,
                 drops : Nat, stops : Nat, faults : Nat, offered : Nat]

\* A token is one search's; only a search that has joined the server session of the moment is found, and none when it is down.
RunTypes == link \in [gen : Nat, is : {"up", "closing", "cleared", "down"}] /\ run \in [Callers -> Runs]
TokensAreApart ==
  /\ reserved \subseteq Tokens
  /\ \A c \in Callers : run[c].at \notin Outside => run[c].token \in Tokens
  /\ reserved = {run[c].token : c \in Network!Active}
  /\ \A c, d \in Network!Active : run[c].token = run[d].token => c = d
RegistryIsTrue ==
  /\ registry \in [Tokens -> Callers \cup {None}]
  /\ \A t \in Tokens : registry[t] # None =>
       run[registry[t]].at \in Joined /\ run[registry[t]].token = t /\ run[registry[t]].gen = link.gen /\ link.is # "down"
WriterWrites == writer # None => writer \in Callers /\ run[writer].at = "write"
TokenInv == RunTypes /\ TokensAreApart /\ RegistryIsTrue /\ WriterWrites

\* A session is live from its start to its end, and those that are live are counted.
SessionTypes ==
  searchSession \in [Callers -> [is : {"none", "live", "refused", "done", "gone"}, total : Int, truncated : BOOLEAN]]
LiveWhileRunning ==
  \A c \in Callers :
    /\ (searchSession[c].is = "live") <=> (Network!Kind(c) = "session" /\ run[c].at \notin {"new", "over"})
    /\ Network!Kind(c) # "session" => searchSession[c].is = "none"
LiveWithinLimit == Cardinality({c \in Callers : searchSession[c].is = "live"}) <= searching.sessions
SessionInv == SessionTypes /\ LiveWhileRunning /\ LiveWithinLimit

\* What a search has is in the order of the offers, and what was offered while it could be found is there or was cut off.
ResultTypes ==
  /\ buffer \in [Callers -> Buffers] /\ got \in [Callers -> Gots] /\ given \in [Callers -> SUBSET Nat]
  /\ reader \in [Readers -> [sub : Callers \cup {None}, left : Int]]
Rises(s) == \A i, j \in DOMAIN s : i < j => s[i] < s[j]
Before(s, t) == \A i \in DOMAIN s, j \in DOMAIN t : s[i] < t[j]
Ordered(c) ==
  /\ Rises(got[c].accepted) /\ Rises(got[c].pending) /\ Rises(buffer[c].results)
  /\ Before(got[c].accepted, got[c].pending) /\ Before(got[c].accepted, buffer[c].results) /\ Before(got[c].pending, buffer[c].results)
AllOffered(c) ==
  \A n \in Range(got[c].accepted) \cup Range(got[c].pending) \cup Range(buffer[c].results) : n <= searching.offered
Handed(c) == Range(got[c].accepted) \cup Range(got[c].pending) \cup buffer[c].dropped
Beforehand == {"new", "called", "reserved"}
Afterwards == {"release", "flush", "return", "over"}
Pends == {"drained", "release", "flush"}
NoneMissing(c) ==
  /\ given[c] \subseteq Handed(c) \cup Range(buffer[c].results) \/ searchSession[c].truncated
  /\ run[c].at \in Beforehand => given[c] = {}
  /\ run[c].at \in Afterwards => given[c] \subseteq Handed(c) \/ searchSession[c].truncated
  /\ (run[c].at \notin Pends \/ Network!Kind(c) # "session") => got[c].pending = <<>>
ResultsFit(c) == Ordered(c) /\ AllOffered(c) /\ NoneMissing(c)
ResultInv == ResultTypes /\ \A c \in Callers : ResultsFit(c)

SearchInv == Bounds /\ TokenInv /\ SessionInv /\ ResultInv
(***************************************************************************)
(* Sequences that rise                                                     *)
(***************************************************************************)
LEMMA PrefixIs ==
  ASSUME NEW s \in Seq(Nat), NEW n \in Int, n <= Len(s)
  PROVE  /\ SubSeq(s, 1, n) \in Seq(Nat)
         /\ DOMAIN SubSeq(s, 1, n) \subseteq DOMAIN s
         /\ \A i \in DOMAIN SubSeq(s, 1, n) : SubSeq(s, 1, n)[i] = s[i]
         /\ Len(SubSeq(s, 1, n)) = IF 1 <= n THEN n ELSE 0
         /\ n = Len(s) => Range(SubSeq(s, 1, n)) = Range(s)
         /\ Range(SubSeq(s, 1, n)) \subseteq Range(s)
<1> DEFINE t == SubSeq(s, 1, n)
<1>1. Len(s) \in Nat /\ s \in [1 .. Len(s) -> Nat] /\ DOMAIN s = 1 .. Len(s) BY LenProperties
<1>2. \A i \in 1 .. n : s[i] \in Nat BY <1>1
<1>3. t \in Seq(Nat) /\ Len(t) = (IF 1 <= n THEN n - 1 + 1 ELSE 0) /\ \A i \in 1 .. n - 1 + 1 : t[i] = s[1 + i - 1]
BY <1>2, SubSeqProperties
<1>4. DOMAIN t = 1 .. Len(t) BY <1>3, LenProperties
<1>5. \A i \in DOMAIN t : i \in DOMAIN s /\ t[i] = s[i] BY <1>1, <1>3, <1>4
<1>6. n = Len(s) => DOMAIN t = DOMAIN s BY <1>1, <1>3, <1>4
<1>7. Range(t) \subseteq Range(s) /\ (n = Len(s) => Range(t) = Range(s)) BY <1>5, <1>6 DEF Range
<1>. QED BY <1>3, <1>5, <1>7
LEMMA PrefixRises ==
  ASSUME NEW s \in Seq(Nat), NEW n \in Int, n <= Len(s), Rises(s)
  PROVE  Rises(SubSeq(s, 1, n))
<1>. QED BY PrefixIs DEF Rises
LEMMA ConcatRises ==
  ASSUME NEW s \in Seq(Nat), NEW t \in Seq(Nat), Rises(s), Rises(t), Before(s, t)
  PROVE  Rises(s \o t)
<1> DEFINE u == s \o t
<1>1. Len(s) \in Nat /\ Len(t) \in Nat /\ DOMAIN s = 1 .. Len(s) /\ DOMAIN t = 1 .. Len(t) /\ DOMAIN u = 1 .. Len(s) + Len(t)
BY LenProperties, ConcatProperties
<1>2. \A i \in 1 .. Len(s) + Len(t) : u[i] = IF i <= Len(s) THEN s[i] ELSE t[i - Len(s)] BY ConcatProperties
<1>3. ASSUME NEW i \in DOMAIN u, NEW j \in DOMAIN u, i < j PROVE u[i] < u[j]
  <2>. HIDE DEF u
  <2>1. CASE j <= Len(s) BY <1>1, <1>2, <1>3, <2>1 DEF Rises
  <2>2. i \in 1 .. Len(s) + Len(t) /\ j \in 1 .. Len(s) + Len(t) BY <1>1, <1>3
  <2>3. CASE Len(s) < i
    <3>1. i - Len(s) \in DOMAIN t /\ j - Len(s) \in DOMAIN t /\ i - Len(s) < j - Len(s) BY <1>1, <1>3, <2>2, <2>3
    <3>2. t[i - Len(s)] < t[j - Len(s)] BY <3>1 DEF Rises
    <3>3. u[i] = t[i - Len(s)] /\ u[j] = t[j - Len(s)] BY <1>1, <1>2, <1>3, <2>2, <2>3
    <3>. QED BY <3>2, <3>3
  <2>4. CASE i <= Len(s) /\ Len(s) < j
    <3>1. i \in DOMAIN s /\ j - Len(s) \in DOMAIN t BY <1>1, <2>2, <2>4
    <3>2. s[i] < t[j - Len(s)] BY <3>1 DEF Before
    <3>3. u[i] = s[i] /\ u[j] = t[j - Len(s)] BY <1>1, <1>2, <2>2, <2>4
    <3>. QED BY <3>2, <3>3
  <2>. QED BY <1>1, <2>1, <2>2, <2>3, <2>4
<1>. QED BY <1>3 DEF Rises
LEMMA ConcatRange ==
  ASSUME NEW s \in Seq(Nat), NEW t \in Seq(Nat) PROVE s \o t \in Seq(Nat) /\ Range(s \o t) = Range(s) \cup Range(t)
BY RangeConcatenation, ConcatProperties
LEMMA BeforeIs ==
  ASSUME NEW s \in Seq(Nat), NEW t \in Seq(Nat)
  PROVE  Before(s, t) <=> \A x \in Range(s), y \in Range(t) : x < y
BY DEF Before, Range
LEMMA NothingRises ==
  /\ <<>> \in Seq(Nat) /\ Len(<<>>) = 0 /\ Range(<<>>) = {} /\ Rises(<<>>)
  /\ \A s : Before(s, <<>>) /\ Before(<<>>, s)
<1>1. <<>> \in Seq(Nat) /\ Len(<<>>) = 0 BY EmptySeq
<1>2. DOMAIN <<>> = {} BY <1>1, LenProperties
<1>. QED BY <1>1, <1>2 DEF Range, Rises, Before
LEMMA AppendRises ==
  ASSUME NEW s \in Seq(Nat), NEW n \in Nat, Rises(s), \A x \in Range(s) : x < n
  PROVE  Append(s, n) \in Seq(Nat) /\ Rises(Append(s, n)) /\ Range(Append(s, n)) = Range(s) \cup {n}
<1> DEFINE u == Append(s, n)
<1>1. Len(s) \in Nat /\ DOMAIN s = 1 .. Len(s) BY LenProperties
<1>2. u \in Seq(Nat) /\ Len(u) = Len(s) + 1 /\ (\A i \in 1 .. Len(s) : u[i] = s[i]) /\ u[Len(s) + 1] = n BY AppendProperties
<1>3. DOMAIN u = 1 .. Len(s) + 1 BY <1>2, LenProperties
<1>. HIDE DEF u
<1>4. \A i \in 1 .. Len(s) : s[i] < n BY <1>1 DEF Range
<1>5. ASSUME NEW i \in DOMAIN u, NEW j \in DOMAIN u, i < j PROVE u[i] < u[j]
  <2>1. i \in 1 .. Len(s) /\ u[i] = s[i] BY <1>1, <1>2, <1>3, <1>5
  <2>2. CASE j = Len(s) + 1 BY <1>2, <1>4, <2>1, <2>2
  <2>3. CASE j \in 1 .. Len(s)
    <3>1. s[i] < s[j] BY <1>1, <1>5, <2>1, <2>3 DEF Rises
    <3>. QED BY <1>2, <2>1, <2>3, <3>1
  <2>. QED BY <1>1, <1>3, <2>2, <2>3
<1>6. Range(u) = {u[i] : i \in 1 .. Len(s)} \cup {u[Len(s) + 1]} BY <1>1, <1>3 DEF Range
<1>7. {u[i] : i \in 1 .. Len(s)} = {s[i] : i \in 1 .. Len(s)} BY <1>2
<1>8. Range(u) = Range(s) \cup {n} BY <1>1, <1>2, <1>6, <1>7 DEF Range
<1>. QED BY <1>2, <1>5, <1>8 DEF u, Rises
(***************************************************************************)
(* What a step leaves alone                                                *)
(***************************************************************************)
BoundsKeep ==
  /\ Bounds' /\ searching'.kind = searching.kind /\ searching'.buffer = searching.buffer /\ searching'.limit = searching.limit
  /\ searching'.sessions = searching.sessions /\ searching'.offered = searching.offered
LEMMA BoundsStay ==
  ASSUME SearchInv, UNCHANGED searching \/ \E what \in {"responses", "drops", "stops", "faults"} : Network!Spend(what)
  PROVE  BoundsKeep
<1>1. Bounds BY DEF SearchInv
<1>2. CASE UNCHANGED searching BY <1>1, <1>2 DEF Bounds, BoundsKeep
<1>3. ASSUME NEW what \in {"responses", "drops", "stops", "faults"}, Network!Spend(what) PROVE BoundsKeep
  <2>1. searching' = [searching EXCEPT ![what] = @ - 1] /\ searching[what] > 0 BY <1>3 DEF Network!Spend
  <2>. QED BY <1>1, <2>1 DEF Bounds, BoundsKeep
<1>. QED BY <1>2, <1>3
LEMMA TokensStay == ASSUME SearchInv, UNCHANGED <<link, writer, registry, reserved, run>> PROVE TokenInv'
BY DEF SearchInv, TokenInv, RunTypes, TokensAreApart, RegistryIsTrue, WriterWrites, Network!Active
\* A search goes on and keeps its token, or has none before and after.
LEMMA TokensMove ==
  ASSUME SearchInv, NEW c \in Callers, NEW x \in Runs, run' = [run EXCEPT ![c] = x],
         x.token = run[c].token, x.gen = run[c].gen, run[c].at \in Outside <=> x.at \in Outside, reserved' = reserved,
         link' \in [gen : Nat, is : {"up", "closing", "cleared", "down"}], link'.gen = link.gen, link'.is = "down" => link.is = "down",
         (registry' = registry /\ (x.at \in Joined \/ run[c].at \notin Joined)) \/ registry' = Network!RemoveIfSame(c),
         (writer' = writer /\ run[c].at # "write") \/ writer' = None
  PROVE  TokenInv'
<1>1. RunTypes /\ TokensAreApart /\ RegistryIsTrue /\ WriterWrites BY DEF SearchInv, TokenInv
<1>2. run' \in [Callers -> Runs] /\ run'[c] = x /\ \A d \in Callers \ {c} : run'[d] = run[d] BY <1>1 DEF RunTypes
<1>3. \A d \in Callers : run'[d].token = run[d].token /\ run'[d].gen = run[d].gen /\ (run'[d].at \in Outside <=> run[d].at \in Outside)
BY <1>2
<1>4. Network!Active' = Network!Active BY <1>3 DEF Network!Active, Outside
<1>5. \A d \in Network!Active : d \in Callers BY DEF Network!Active
<1>6. {run[d].token : d \in Network!Active} = {run'[d].token : d \in Network!Active'} BY <1>3, <1>4, <1>5
<1>7. TokensAreApart' BY <1>1, <1>3, <1>4, <1>5, <1>6 DEF TokensAreApart
<1>8. registry' \in [Tokens -> Callers \cup {None}] /\ \A t \in Tokens : registry'[t] = registry[t] \/ registry'[t] = None
BY <1>1 DEF RegistryIsTrue, Network!RemoveIfSame
<1>9. ASSUME NEW t \in Tokens, registry'[t] # None
      PROVE  /\ run'[registry'[t]].at \in Joined /\ run'[registry'[t]].token = t /\ run'[registry'[t]].gen = link'.gen /\ link'.is # "down"
  <2>1. registry'[t] = registry[t] /\ registry[t] \in Callers BY <1>1, <1>8, <1>9 DEF RegistryIsTrue
  <2>2. run[registry[t]].at \in Joined /\ run[registry[t]].token = t /\ run[registry[t]].gen = link.gen /\ link.is # "down"
    BY <1>1, <1>9, <2>1 DEF RegistryIsTrue
  <2>3. run'[registry[t]].at \in Joined
    <3>1. CASE registry[t] # c BY <1>2, <2>1, <2>2, <3>1
    <3>2. CASE registry[t] = c /\ x.at \in Joined BY <1>2, <3>2
    <3>3. CASE registry' = Network!RemoveIfSame(c) BY <1>9, <2>1, <2>2, <3>1, <3>3 DEF Network!RemoveIfSame
    <3>. QED BY <2>2, <3>1, <3>2, <3>3
  <2>. QED BY <1>3, <2>1, <2>2, <2>3
<1>10. RegistryIsTrue' BY <1>8, <1>9 DEF RegistryIsTrue
<1>11. WriterWrites' BY <1>1, <1>2 DEF WriterWrites
<1>. QED BY <1>2, <1>7, <1>10, <1>11 DEF TokenInv, RunTypes
\* The server session moves, and fewer searches are found.
LEMMA TokensCut ==
  ASSUME SearchInv, UNCHANGED <<run, writer, reserved>>, link' \in [gen : Nat, is : {"up", "closing", "cleared", "down"}],
         registry' \in [Tokens -> Callers \cup {None}],
         \A t \in Tokens : registry'[t] # None => registry'[t] = registry[t] /\ link'.gen = link.gen /\ link'.is # "down"
  PROVE  TokenInv'
<1>1. RunTypes /\ TokensAreApart /\ RegistryIsTrue /\ WriterWrites BY DEF SearchInv, TokenInv
<1>2. TokensAreApart' BY <1>1 DEF TokensAreApart, Network!Active
<1>3. RegistryIsTrue' BY <1>1 DEF RegistryIsTrue
<1>. QED BY <1>1, <1>2, <1>3 DEF TokenInv, RunTypes, WriterWrites
\* No session begins or ends.
LEMMA SessionsStay ==
  ASSUME SearchInv, searching'.kind = searching.kind, searching'.sessions = searching.sessions, SessionTypes',
         \A d \in Callers : run'[d].at \in {"new", "over"} <=> run[d].at \in {"new", "over"},
         \A d \in Callers : /\ searchSession'[d].is = "live" <=> searchSession[d].is = "live"
                            /\ searchSession[d].is = "none" => searchSession'[d].is = "none"
  PROVE  SessionInv'
<1>1. SessionInv BY DEF SearchInv
<1>2. LiveWhileRunning' BY <1>1 DEF SessionInv, LiveWhileRunning, Network!Kind
<1>3. {d \in Callers : searchSession'[d].is = "live"} = {d \in Callers : searchSession[d].is = "live"} OBVIOUS
<1>4. LiveWithinLimit' BY <1>1, <1>3 DEF SessionInv, LiveWithinLimit
<1>. QED BY <1>2, <1>4 DEF SessionInv
\* The results of a search stay while it goes on.
LEMMA FitStays ==
  ASSUME SearchInv, NEW d \in Callers, searching'.kind = searching.kind, searching'.offered \in Nat, searching.offered <= searching'.offered,
         got'[d] = got[d], buffer'[d].results = buffer[d].results, buffer'[d].dropped = buffer[d].dropped, given'[d] = given[d],
         searchSession'[d].truncated = searchSession[d].truncated,
         run'[d].at \in Beforehand => run[d].at \in Beforehand,
         run'[d].at \in Afterwards => run[d].at \in Beforehand \cup Afterwards,
         run[d].at \in Pends => run'[d].at \in Pends \/ Network!Kind(d) # "session"
  PROVE  ResultsFit(d)'
<1>1. Ordered(d) /\ AllOffered(d) /\ NoneMissing(d) /\ ResultTypes /\ Bounds BY DEF SearchInv, ResultInv, ResultsFit
<1>2. Ordered(d)' BY <1>1 DEF Ordered, Rises, Before
<1>3. got[d] \in Gots /\ buffer[d] \in Buffers /\ searching.offered \in Nat BY <1>1 DEF ResultTypes, Bounds
<1>4. \A n \in Range(got[d].accepted) \cup Range(got[d].pending) \cup Range(buffer[d].results) : n \in Nat
BY <1>3, LenProperties DEF Range, Gots, Buffers
<1>5. AllOffered(d)'
  <2>1. \A n \in Range(got[d].accepted) \cup Range(got[d].pending) \cup Range(buffer[d].results) : n <= searching.offered
    BY <1>1 DEF AllOffered
  <2>2. \A n \in Range(got[d].accepted) \cup Range(got[d].pending) \cup Range(buffer[d].results) : n <= searching'.offered
    BY <1>3, <1>4, <2>1
  <2>. QED BY <2>2 DEF AllOffered
<1>6. Handed(d)' = Handed(d) /\ Range(buffer'[d].results) = Range(buffer[d].results) BY DEF Handed, Range
<1>7. Network!Kind(d)' = Network!Kind(d) BY DEF Network!Kind
<1>8. NoneMissing(d)' BY <1>1, <1>6, <1>7 DEF NoneMissing
<1>. QED BY <1>2, <1>5, <1>8 DEF ResultsFit
LEMMA ResultsStay ==
  ASSUME SearchInv, BoundsKeep, UNCHANGED <<got, given>>, buffer' \in [Callers -> Buffers],
         reader' \in [Readers -> [sub : Callers \cup {None}, left : Int]],
         \A d \in Callers :
           /\ buffer'[d].results = buffer[d].results /\ buffer'[d].dropped = buffer[d].dropped
           /\ searchSession'[d].truncated = searchSession[d].truncated
           /\ run'[d].at \in Beforehand => run[d].at \in Beforehand
           /\ run'[d].at \in Afterwards => run[d].at \in Beforehand \cup Afterwards
           /\ run[d].at \in Pends => run'[d].at \in Pends \/ Network!Kind(d) # "session"
  PROVE  ResultInv'
<1>1. searching'.kind = searching.kind /\ searching'.offered \in Nat /\ searching.offered <= searching'.offered
BY DEF BoundsKeep, SearchInv, Bounds
<1>2. \A d \in Callers : ResultsFit(d)' BY <1>1, FitStays
<1>3. ResultTypes' BY DEF SearchInv, ResultInv, ResultTypes
<1>. QED BY <1>2, <1>3 DEF ResultInv
(***************************************************************************)
(* What a search is given                                                  *)
(***************************************************************************)
LEMMA ResultsOfOne ==
  ASSUME SearchInv, NEW c \in Callers, searching'.kind = searching.kind, searching'.offered \in Nat, searching.offered <= searching'.offered,
         buffer' \in [Callers -> Buffers], got' \in [Callers -> Gots], given' \in [Callers -> SUBSET Nat],
         reader' \in [Readers -> [sub : Callers \cup {None}, left : Int]],
         \A d \in Callers \ {c} : /\ got'[d] = got[d] /\ buffer'[d] = buffer[d] /\ given'[d] = given[d] /\ run'[d] = run[d]
                                  /\ searchSession'[d] = searchSession[d],
         ResultsFit(c)'
  PROVE  ResultInv'
<1>1. ASSUME NEW d \in Callers \ {c} PROVE ResultsFit(d)' BY <1>1, FitStays
<1>. QED BY <1>1 DEF ResultInv, ResultTypes
\* process takes what the buffer has.
LEMMA ProcessKeeps ==
  ASSUME SearchInv, NEW c \in Callers, Network!Process(c), Network!Empty(c), UNCHANGED <<searching, given, reader, searchSession>>,
         run[c].at \in {"wait", "drain"}, \A d \in Callers \ {c} : run'[d] = run[d],
         run'[c].at \in {"wait", "drained", "release"}, (run'[c].at = "wait") => Network!Kind(c) # "session",
         run[c].at = "wait" => run'[c].at \in {"wait", "drained"}, run'[c].at = "drained" => Network!Kind(c) = "session"
  PROVE  ResultInv'
<1> DEFINE s == buffer[c].results
           n == IF Network!Room(c) < Len(s) THEN Network!Room(c) ELSE Len(s)
           t == SubSeq(s, 1, n)
<1>1. ResultTypes /\ Bounds /\ Ordered(c) /\ AllOffered(c) /\ NoneMissing(c) BY DEF SearchInv, ResultInv, ResultsFit
<1>2. buffer[c] \in Buffers /\ got[c] \in Gots /\ searching.limit \in Nat /\ searching.offered \in Nat BY <1>1 DEF ResultTypes, Bounds
<1>3. s \in Seq(Nat) /\ Len(s) \in Nat /\ Len(got[c].accepted) \in Nat BY <1>2, LenProperties DEF Buffers, Gots
<1>4. n \in Int /\ n <= Len(s) /\ (Network!Kind(c) = "session" => n = Len(s)) BY <1>2, <1>3 DEF Network!Room
<1>5. Network!Taken(c) = t BY DEF Network!Taken
<1>. HIDE DEF n
<1>6. /\ t \in Seq(Nat) /\ DOMAIN t \subseteq DOMAIN s /\ Range(t) \subseteq Range(s) /\ Rises(t)
      /\ \A i \in DOMAIN t : t[i] = s[i]
      /\ n = Len(s) => Range(t) = Range(s)
BY <1>1, <1>3, <1>4, PrefixIs, PrefixRises DEF Ordered
<1>7. Before(got[c].accepted, t) BY <1>1, <1>6 DEF Ordered, Before
<1>8. got[c].pending = <<>> BY <1>1 DEF NoneMissing, Pends
<1>9. buffer' = [buffer EXCEPT ![c].results = <<>>, ![c].dropped = @ \cup (Range(s) \ Range(t))]
BY <1>5 DEF Network!Empty, Network!Range, Range
<1>. HIDE DEF t
<1>10. /\ buffer'[c].results = <<>> /\ buffer'[c].dropped = buffer[c].dropped \cup (Range(s) \ Range(t))
       /\ \A d \in Callers \ {c} : buffer'[d] = buffer[d]
BY <1>1, <1>9 DEF ResultTypes, Buffers
<1>11. Range(s) \subseteq Nat BY <1>3, LenProperties DEF Range
<1>12. buffer' \in [Callers -> Buffers]
  <2>1. [buffer[c] EXCEPT !.results = <<>>, !.dropped = @ \cup (Range(s) \ Range(t))] \in Buffers
    BY <1>2, <1>11, NothingRises DEF Buffers
  <2>. QED BY <1>1, <1>9, <2>1 DEF ResultTypes
<1>13. ASSUME Network!Kind(c) = "session"
       PROVE  /\ got' \in [Callers -> Gots] /\ \A d \in Callers \ {c} : got'[d] = got[d]
              /\ got'[c].accepted = got[c].accepted /\ got'[c].pending = t
  <2>1. got' = [got EXCEPT ![c].pending = @ \o t] BY <1>5, <1>13 DEF Network!Process
  <2>2. <<>> \o t = t BY <1>6, ConcatEmptySeq
  <2>3. [got[c] EXCEPT !.pending = t] \in Gots BY <1>2, <1>6 DEF Gots
  <2>4. got' = [got EXCEPT ![c] = [got[c] EXCEPT !.pending = t]] BY <1>1, <1>8, <2>1, <2>2 DEF ResultTypes
  <2>. QED BY <1>1, <1>2, <2>3, <2>4 DEF ResultTypes, Gots
<1>14. ASSUME Network!Kind(c) # "session"
       PROVE  /\ got' \in [Callers -> Gots] /\ \A d \in Callers \ {c} : got'[d] = got[d]
              /\ got'[c].accepted = got[c].accepted \o t /\ got'[c].pending = <<>>
  <2>1. got' = [got EXCEPT ![c].accepted = @ \o t] BY <1>5, <1>14 DEF Network!Process
  <2>2. got[c].accepted \o t \in Seq(Nat) BY <1>2, <1>6, ConcatProperties DEF Gots
  <2>3. [got[c] EXCEPT !.accepted = @ \o t] \in Gots BY <1>2, <2>2 DEF Gots
  <2>. QED BY <1>1, <1>2, <1>8, <2>1, <2>3 DEF ResultTypes, Gots
<1>15. Network!Kind(c)' = Network!Kind(c) BY DEF Network!Kind
<1>16. Ordered(c)'
  <2>1. CASE Network!Kind(c) = "session" BY <1>1, <1>6, <1>7, <1>10, <1>13, <2>1, NothingRises DEF Ordered
  <2>2. CASE Network!Kind(c) # "session"
    <3>1. got[c].accepted \in Seq(Nat) BY <1>2 DEF Gots
    <3>2. Rises(got[c].accepted \o t) BY <1>1, <1>6, <1>7, <3>1, ConcatRises DEF Ordered
    <3>. QED BY <1>10, <1>14, <2>2, <3>2, NothingRises DEF Ordered
  <2>. QED BY <2>1, <2>2
<1>17. Range(got'[c].accepted) \cup Range(got'[c].pending) = Range(got[c].accepted) \cup Range(t)
  <2>1. CASE Network!Kind(c) = "session" BY <1>13, <2>1
  <2>2. CASE Network!Kind(c) # "session"
    <3>1. got[c].accepted \in Seq(Nat) BY <1>2 DEF Gots
    <3>. QED BY <1>6, <1>14, <2>2, <3>1, ConcatRange, NothingRises
  <2>. QED BY <2>1, <2>2
<1>18. AllOffered(c)' BY <1>1, <1>6, <1>10, <1>17, NothingRises DEF AllOffered
<1>19. Handed(c)' = Handed(c) \cup Range(s) BY <1>6, <1>8, <1>10, <1>17, NothingRises DEF Handed
<1>20. NoneMissing(c)'
  <2>1. given'[c] = given[c] /\ searchSession'[c].truncated = searchSession[c].truncated OBVIOUS
  <2>2. run'[c].at \notin Beforehand BY DEF Beforehand
  <2>3. (run'[c].at \notin Pends \/ Network!Kind(c) # "session") => got'[c].pending = <<>> BY <1>14 DEF Pends
  <2>. QED BY <1>1, <1>15, <1>19, <2>1, <2>2, <2>3 DEF NoneMissing
<1>. QED BY <1>1, <1>2, <1>10, <1>12, <1>13, <1>14, <1>16, <1>18, <1>20, ResultsOfOne DEF ResultsFit, ResultTypes
\* accept hands on what is pending, up to the session's limit, and notes what it refuses.
LEMMA AcceptKeeps ==
  ASSUME SearchInv, NEW c \in Callers, Network!Accept(c), UNCHANGED <<searching, given, reader, buffer>>,
         run[c].at \in {"drained", "flush"}, \A d \in Callers \ {c} : run'[d] = run[d],
         run'[c].at = IF run[c].at = "drained" THEN "wait" ELSE "return"
  PROVE  /\ ResultInv' /\ SessionTypes'
         /\ \A d \in Callers : searchSession'[d].is = searchSession[d].is
<1> DEFINE p == got[c].pending
           room == searching.limit - searchSession[c].total
           n == IF Len(p) < room THEN Len(p) ELSE room
           t == SubSeq(p, 1, n)
<1>1. ResultTypes /\ Bounds /\ SessionTypes /\ Ordered(c) /\ AllOffered(c) /\ NoneMissing(c)
BY DEF SearchInv, ResultInv, ResultsFit, SessionInv
<1>2. got[c] \in Gots /\ searching.limit \in Nat /\ searching.offered \in Nat /\ searchSession[c].total \in Int
BY <1>1 DEF ResultTypes, Bounds, SessionTypes
<1>3. p \in Seq(Nat) /\ Len(p) \in Nat BY <1>2, LenProperties DEF Gots
<1>4. n \in Int /\ n <= Len(p) BY <1>2, <1>3
<1>5. /\ got' = [got EXCEPT ![c] = [pending |-> <<>>, accepted |-> @.accepted \o t]]
      /\ searchSession' = [searchSession EXCEPT ![c].total = @ + Len(t), ![c].truncated = @ \/ Len(t) < Len(p)]
BY DEF Network!Accept
<1>. HIDE DEF n
<1>6. /\ t \in Seq(Nat) /\ DOMAIN t \subseteq DOMAIN p /\ Range(t) \subseteq Range(p) /\ Rises(t)
      /\ \A i \in DOMAIN t : t[i] = p[i]
      /\ Len(t) = IF 1 <= n THEN n ELSE 0
      /\ n = Len(p) => Range(t) = Range(p)
BY <1>1, <1>3, <1>4, PrefixIs, PrefixRises DEF Ordered
<1>. HIDE DEF t
<1>7. Before(got[c].accepted, t) /\ Before(t, buffer[c].results) BY <1>1, <1>6 DEF Ordered, Before
<1>8. Len(t) < Len(p) \/ Range(t) = Range(p)
  <2>1. CASE n = Len(p) BY <1>6, <2>1
  <2>2. CASE n # Len(p) /\ Len(p) > 0 BY <1>3, <1>4, <1>6, <2>2
  <2>3. CASE Len(p) = 0
    <3>1. DOMAIN p = {} BY <1>3, <2>3, LenProperties
    <3>2. Range(p) = {} BY <3>1 DEF Range
    <3>. QED BY <1>6, <3>2
  <2>. QED BY <1>3, <2>1, <2>2, <2>3
<1>9. Len(t) \in Nat BY <1>6, LenProperties
<1>10. got[c].accepted \in Seq(Nat) /\ got[c].accepted \o t \in Seq(Nat) BY <1>2, <1>6, ConcatProperties DEF Gots
<1>11. /\ got' \in [Callers -> Gots] /\ \A d \in Callers \ {c} : got'[d] = got[d]
       /\ got'[c].accepted = got[c].accepted \o t /\ got'[c].pending = <<>>
  <2>1. [pending |-> <<>>, accepted |-> got[c].accepted \o t] \in Gots BY <1>10, NothingRises DEF Gots
  <2>. QED BY <1>1, <1>5, <2>1 DEF ResultTypes
<1>12. /\ SessionTypes' /\ \A d \in Callers \ {c} : searchSession'[d] = searchSession[d]
       /\ searchSession'[c].is = searchSession[c].is
       /\ searchSession'[c].truncated = (searchSession[c].truncated \/ Len(t) < Len(p))
  <2>1. searchSession'[c] = [searchSession[c] EXCEPT !.total = @ + Len(t), !.truncated = @ \/ Len(t) < Len(p)] BY <1>1, <1>5 DEF SessionTypes
  <2>2. searchSession'[c].is = searchSession[c].is BY <1>1, <2>1 DEF SessionTypes
  <2>3. searchSession'[c].truncated = (searchSession[c].truncated \/ Len(t) < Len(p)) BY <1>1, <2>1 DEF SessionTypes
  <2>4. searchSession'[c] \in [is : {"none", "live", "refused", "done", "gone"}, total : Int, truncated : BOOLEAN]
    <3>1. searchSession[c].total + Len(t) \in Int /\ (searchSession[c].truncated \/ Len(t) < Len(p)) \in BOOLEAN BY <1>2, <1>9
    <3>. QED BY <1>1, <2>1, <3>1 DEF SessionTypes
  <2>. QED BY <1>1, <1>5, <2>2, <2>3, <2>4 DEF SessionTypes
<1>13. Network!Kind(c)' = Network!Kind(c) BY DEF Network!Kind
<1>14. Ordered(c)'
  <2>1. Rises(got[c].accepted \o t) BY <1>1, <1>6, <1>7, <1>10, ConcatRises DEF Ordered
  <2>2. Before(got[c].accepted \o t, buffer[c].results)
    <3>1. buffer[c].results \in Seq(Nat) BY <1>1 DEF ResultTypes, Buffers
    <3>2. Before(got[c].accepted, buffer[c].results) BY <1>1 DEF Ordered
    <3>3. Range(got[c].accepted \o t) = Range(got[c].accepted) \cup Range(t) BY <1>6, <1>10, ConcatRange
    <3>4. \A x \in Range(got[c].accepted) \cup Range(t), y \in Range(buffer[c].results) : x < y BY <1>6, <1>7, <1>10, <3>1, <3>2, BeforeIs
    <3>. QED BY <1>10, <3>1, <3>3, <3>4, BeforeIs
  <2>. QED BY <1>1, <1>11, <2>1, <2>2, NothingRises DEF Ordered
<1>15. Range(got'[c].accepted) = Range(got[c].accepted) \cup Range(t) /\ Range(got'[c].pending) = {} BY <1>6, <1>10, <1>11, ConcatRange, NothingRises
<1>16. AllOffered(c)' BY <1>1, <1>6, <1>15 DEF AllOffered
<1>17. Handed(c)' = Handed(c) \/ searchSession'[c].truncated BY <1>8, <1>12, <1>15 DEF Handed
<1>18. searchSession[c].truncated => searchSession'[c].truncated BY <1>12
<1>19. NoneMissing(c)'
  <2>1. given[c] \subseteq Handed(c) \cup Range(buffer[c].results) \/ searchSession[c].truncated BY <1>1 DEF NoneMissing
  <2>2. run[c].at = "flush" => given[c] \subseteq Handed(c) \/ searchSession[c].truncated BY <1>1 DEF NoneMissing, Afterwards
  <2>3. run'[c].at \notin Beforehand BY DEF Beforehand
  <2>4. run'[c].at \in Afterwards => run[c].at = "flush" BY DEF Afterwards
  <2>5. given'[c] = given[c] /\ buffer'[c] = buffer[c] OBVIOUS
  <2>. QED BY <1>11, <1>13, <1>17, <1>18, <2>1, <2>2, <2>3, <2>4, <2>5 DEF NoneMissing
<1>20. ResultInv' BY <1>1, <1>2, <1>11, <1>12, <1>14, <1>16, <1>19, ResultsOfOne DEF ResultsFit, ResultTypes
<1>. QED BY <1>12, <1>20
\* offer puts the newest result behind the others, or drops it.
LEMMA OfferKeeps ==
  ASSUME SearchInv, NEW r \in Readers, Network!Offers(r)
  PROVE  ResultInv' /\ Bounds' /\ searching'.kind = searching.kind /\ searching'.sessions = searching.sessions
<1>1. ResultTypes /\ Bounds BY DEF SearchInv, ResultInv
<1>2. PICK c \in Callers : c = reader[r].sub BY <1>1 DEF ResultTypes, Network!Offers
<1>0. PICK n, s : n = searching.offered + 1 /\ s = buffer[c].results OBVIOUS
<1>3. Ordered(c) /\ AllOffered(c) /\ NoneMissing(c) BY <1>2 DEF SearchInv, ResultInv, ResultsFit
<1>4. searching.offered \in Nat /\ n \in Nat /\ searching.offered < n BY <1>0, <1>1 DEF Bounds
<1>5. /\ searching' = [searching EXCEPT !.offered = n] /\ Network!Offer(c, n)
      /\ given' = (IF Network!Registered(c) THEN [given EXCEPT ![c] = @ \cup {n}] ELSE given)
      /\ reader' = [reader EXCEPT ![r] = IF reader[r].left = 1 THEN Network!NoReader ELSE [reader[r] EXCEPT !.left = @ - 1]]
      /\ UNCHANGED <<run, got, searchSession>>
BY <1>0, <1>2 DEF Network!Offers, Network!CallUnchanged
<1>6. Bounds' /\ searching'.kind = searching.kind /\ searching'.sessions = searching.sessions /\ searching'.offered = n
BY <1>1, <1>4, <1>5 DEF Bounds
<1>7. reader' \in [Readers -> [sub : Callers \cup {None}, left : Int]]
  <2>1. Network!NoReader \in [sub : Callers \cup {None}, left : Int] BY DEF Network!NoReader
  <2>2. [reader[r] EXCEPT !.left = @ - 1] \in [sub : Callers \cup {None}, left : Int] BY <1>1 DEF ResultTypes
  <2>. QED BY <1>1, <1>5, <2>1, <2>2 DEF ResultTypes
<1>8. s \in Seq(Nat) /\ got[c] \in Gots /\ buffer[c] \in Buffers /\ given[c] \subseteq Nat BY <1>0, <1>1 DEF ResultTypes, Buffers
<1>9. \A m \in Range(got[c].accepted) \cup Range(got[c].pending) \cup Range(s) : m < n
  <2>1. \A m \in Range(got[c].accepted) \cup Range(got[c].pending) \cup Range(s) : m \in Nat
    BY <1>0, <1>8, LenProperties DEF Range, Gots
  <2>. QED BY <1>0, <1>3, <1>4, <2>1 DEF AllOffered
<1>10. /\ Append(s, n) \in Seq(Nat) /\ Rises(Append(s, n)) /\ Range(Append(s, n)) = Range(s) \cup {n}
BY <1>0, <1>3, <1>4, <1>8, <1>9, AppendRises DEF Ordered
<1>11. /\ given' \in [Callers -> SUBSET Nat] /\ \A d \in Callers \ {c} : given'[d] = given[d]
       /\ given'[c] = (IF Network!Registered(c) THEN given[c] \cup {n} ELSE given[c])
BY <1>0, <1>1, <1>2, <1>4, <1>5 DEF ResultTypes
<1>12. /\ buffer' \in [Callers -> Buffers] /\ \A d \in Callers \ {c} : buffer'[d] = buffer[d]
       /\ \/ buffer'[c].results = Append(s, n) /\ buffer'[c].dropped = buffer[c].dropped
          \/ buffer'[c].results = s /\ buffer'[c].dropped = buffer[c].dropped \cup {n}
  <2>1. CASE buffer' = [buffer EXCEPT ![c].results = Append(@, n)] BY <1>0, <1>1, <1>2, <1>8, <1>10, <2>1 DEF ResultTypes, Buffers
  <2>2. CASE buffer' = [buffer EXCEPT ![c].dropped = @ \cup {n}] BY <1>0, <1>1, <1>2, <1>4, <1>8, <2>2 DEF ResultTypes, Buffers
  <2>. QED BY <1>0, <1>5, <2>1, <2>2 DEF Network!Offer
<1>13. Ordered(c)'
  <2>1. Before(got[c].accepted, Append(s, n)) /\ Before(got[c].pending, Append(s, n))
    <3>1. got[c].accepted \in Seq(Nat) /\ got[c].pending \in Seq(Nat) BY <1>0, <1>8 DEF Gots
    <3>2. Before(got[c].accepted, s) /\ Before(got[c].pending, s) BY <1>0, <1>3 DEF Ordered
    <3>3. s \in Seq(Nat) /\ Append(s, n) \in Seq(Nat) /\ Range(Append(s, n)) = Range(s) \cup {n} BY <1>8, <1>10
    <3>4. \A x \in Range(got[c].accepted) : (\A y \in Range(s) : x < y) /\ x < n BY <1>0, <1>9, <3>1, <3>2, <3>3, BeforeIs
    <3>5. \A x \in Range(got[c].pending) : (\A y \in Range(s) : x < y) /\ x < n BY <1>0, <1>9, <3>1, <3>2, <3>3, BeforeIs
    <3>. QED BY <3>1, <3>3, <3>4, <3>5, BeforeIs
  <2>. QED BY <1>0, <1>3, <1>5, <1>10, <1>12, <2>1 DEF Ordered
<1>14. AllOffered(c)'
  <2>1. \A m \in Range(got[c].accepted) \cup Range(got[c].pending) \cup Range(s) \cup {n} : m <= n
    <3>1. \A m \in Range(got[c].accepted) \cup Range(got[c].pending) \cup Range(s) : m \in Nat
      BY <1>0, <1>8, LenProperties DEF Range, Gots
    <3>. QED BY <1>0, <1>4, <1>9, <3>1
  <2>. QED BY <1>0, <1>5, <1>6, <1>10, <1>12, <2>1 DEF AllOffered
<1>15. Handed(c) \subseteq Handed(c)' /\ Handed(c)' \cup Range(buffer'[c].results) = Handed(c) \cup Range(s) \cup {n}
BY <1>0, <1>5, <1>10, <1>12 DEF Handed
<1>16. Network!Registered(c) => run[c].at \in Joined
  <2>1. c # None BY <1>0, <1>2, SearchesAssumption
  <2>. QED BY <2>1 DEF Network!Registered, SearchInv, TokenInv, RegistryIsTrue
<1>17. NoneMissing(c)'
  <2>1. Network!Kind(c)' = Network!Kind(c) BY <1>0, <1>6 DEF Network!Kind
  <2>2. given[c] \subseteq Handed(c) \cup Range(s) \/ searchSession[c].truncated BY <1>0, <1>3 DEF NoneMissing
  <2>3. Network!Registered(c) => run[c].at \notin Beforehand /\ run[c].at \notin Afterwards BY <1>0, <1>16 DEF Joined, Beforehand, Afterwards
  <2>. QED BY <1>0, <1>3, <1>5, <1>11, <1>15, <2>1, <2>2, <2>3 DEF NoneMissing
<1>18. got' \in [Callers -> Gots] BY <1>0, <1>1, <1>5 DEF ResultTypes
<1>19. ResultInv'
  <2>1. searching'.offered \in Nat /\ searching.offered <= searching'.offered BY <1>4, <1>6
  <2>2. \A d \in Callers \ {c} : /\ got'[d] = got[d] /\ buffer'[d] = buffer[d] /\ given'[d] = given[d] /\ run'[d] = run[d]
                                /\ searchSession'[d] = searchSession[d]
    BY <1>5, <1>11, <1>12
  <2>3. ResultsFit(c)' BY <1>13, <1>14, <1>17 DEF ResultsFit
  <2>. QED BY <1>2, <1>6, <1>7, <1>11, <1>12, <1>18, <2>1, <2>2, <2>3, ResultsOfOne
<1>. QED BY <1>6, <1>19
(***************************************************************************)
(* Every step keeps the invariant                                          *)
(***************************************************************************)
LinkType == [gen : Nat, is : {"up", "closing", "cleared", "down"}]
\* A search goes on: it keeps its token and its results, and is a session as before.
LEMMA StepKeeps ==
  ASSUME SearchInv, NEW c \in Callers, NEW x \in Runs, run' = [run EXCEPT ![c] = x], x.token = run[c].token, x.gen = run[c].gen,
         run[c].at \in Outside <=> x.at \in Outside, run[c].at \notin {"new", "over"}, x.at \notin {"new", "over"},
         UNCHANGED <<reserved, buffer, got, given, reader, searchSession>>, BoundsKeep,
         link' \in LinkType, link'.gen = link.gen, link'.is = "down" => link.is = "down",
         (registry' = registry /\ (x.at \in Joined \/ run[c].at \notin Joined)) \/ registry' = Network!RemoveIfSame(c),
         (writer' = writer /\ run[c].at # "write") \/ writer' = None,
         x.at \notin Beforehand, x.at \in Afterwards => run[c].at \in Beforehand \cup Afterwards, run[c].at \in Pends => x.at \in Pends
  PROVE  SearchInv'
<1>1. TokenInv' BY TokensMove DEF LinkType
<1>2. run \in [Callers -> Runs] /\ SessionTypes /\ ResultTypes BY DEF SearchInv, TokenInv, RunTypes, SessionInv, ResultInv
<1>3. run'[c] = x /\ \A d \in Callers \ {c} : run'[d] = run[d] BY <1>2
<1>4. SessionInv' BY <1>2, <1>3, SessionsStay DEF BoundsKeep, SessionTypes
<1>5. ResultInv' BY <1>2, <1>3, ResultsStay DEF ResultTypes
<1>. QED BY <1>1, <1>4, <1>5 DEF SearchInv, BoundsKeep
LEMMA GoesIs ==
  ASSUME SearchInv, NEW c \in Callers, NEW to \in Outside \cup Joined \cup {"reserved", "drain", "release"}
  PROVE  /\ [run[c] EXCEPT !.at = to] \in Runs /\ [run[c] EXCEPT !.at = to].at = to
         /\ [run[c] EXCEPT !.at = to].token = run[c].token /\ [run[c] EXCEPT !.at = to].gen = run[c].gen
         /\ [run[c] EXCEPT !.at = to, !.ok = FALSE] \in Runs /\ [run[c] EXCEPT !.at = to, !.ok = FALSE].at = to
         /\ [run[c] EXCEPT !.at = to, !.ok = FALSE].token = run[c].token /\ [run[c] EXCEPT !.at = to, !.ok = FALSE].gen = run[c].gen
         /\ [run EXCEPT ![c].at = to] = [run EXCEPT ![c] = [run[c] EXCEPT !.at = to]]
         /\ [run EXCEPT ![c].at = to, ![c].ok = FALSE] = [run EXCEPT ![c] = [run[c] EXCEPT !.at = to, !.ok = FALSE]]
         /\ link \in LinkType
<1>1. run \in [Callers -> Runs] /\ run[c] \in Runs /\ link \in LinkType BY DEF SearchInv, TokenInv, RunTypes, LinkType
<1>2. [run[c] EXCEPT !.at = to] \in Runs /\ [run[c] EXCEPT !.at = to, !.ok = FALSE] \in Runs BY <1>1 DEF Runs
<1>3. /\ [run[c] EXCEPT !.at = to].at = to /\ [run[c] EXCEPT !.at = to].token = run[c].token /\ [run[c] EXCEPT !.at = to].gen = run[c].gen
BY <1>1 DEF Runs
<1>4. /\ [run[c] EXCEPT !.at = to, !.ok = FALSE].at = to /\ [run[c] EXCEPT !.at = to, !.ok = FALSE].token = run[c].token
      /\ [run[c] EXCEPT !.at = to, !.ok = FALSE].gen = run[c].gen
BY <1>1 DEF Runs
<1>5. [run EXCEPT ![c].at = to] = [run EXCEPT ![c] = [run[c] EXCEPT !.at = to]] BY <1>1
<1>6. [run EXCEPT ![c].at = to, ![c].ok = FALSE] = [run EXCEPT ![c] = [run[c] EXCEPT !.at = to, !.ok = FALSE]] BY <1>1
<1>. QED BY <1>1, <1>2, <1>3, <1>4, <1>5, <1>6
LEMMA GoesTo ==
  ASSUME SearchInv, NEW c \in Callers, NEW to \in Outside \cup Joined \cup {"reserved", "drain", "release"},
         run' = [run EXCEPT ![c].at = to] \/ run' = [run EXCEPT ![c].at = to, ![c].ok = FALSE]
  PROVE  \E x \in Runs : x.at = to /\ x.token = run[c].token /\ x.gen = run[c].gen /\ run' = [run EXCEPT ![c] = x]
<1>1. CASE run' = [run EXCEPT ![c].at = to]
  <2>1. [run[c] EXCEPT !.at = to] \in Runs BY GoesIs
  <2>2. WITNESS [run[c] EXCEPT !.at = to] \in Runs
  <2>. QED BY ZenonT(60), <1>1, GoesIs
<1>2. CASE run' = [run EXCEPT ![c].at = to, ![c].ok = FALSE]
  <2>1. [run[c] EXCEPT !.at = to, !.ok = FALSE] \in Runs BY GoesIs
  <2>2. WITNESS [run[c] EXCEPT !.at = to, !.ok = FALSE] \in Runs
  <2>. QED BY ZenonT(60), <1>2, GoesIs
<1>. QED BY <1>1, <1>2
LEMMA SearchTypesAre ==
  ASSUME SearchInv
  PROVE  /\ RunTypes /\ TokensAreApart /\ RegistryIsTrue /\ WriterWrites /\ SessionTypes /\ LiveWhileRunning /\ LiveWithinLimit
         /\ ResultTypes /\ Bounds /\ link \in LinkType /\ run \in [Callers -> Runs]
BY DEF SearchInv, TokenInv, RunTypes, SessionInv, ResultInv, LinkType

LEMMA SearchesCount == ASSUME NEW C PROVE Network!Cardinality(C) = Cardinality(C)
BY DEF Network!Cardinality, Cardinality
LEMMA StartKeeps == ASSUME SearchInv, NEW c \in Callers, Network!Start(c) PROVE SearchInv'
<1>1. /\ Network!Kind(c) = "session" /\ searchSession[c].is = "none" /\ run[c].at = "new"
      /\ UNCHANGED <<searching, link, writer, registry, reserved, buffer, got, given, reader>>
BY DEF Network!Start, Network!Goes, Network!LinkUnchanged, Network!RegistryUnchanged, Network!ResultsUnchanged
<1>2. PICK is \in {"refused", "live"} :
        /\ searchSession' = [searchSession EXCEPT ![c].is = is]
        /\ run' = [run EXCEPT ![c].at = IF is = "live" THEN "called" ELSE "over"]
        /\ is = "live" => ~(Network!LiveCount >= searching.sessions)
BY DEF Network!Start, Network!Goes
<1>3. PICK x \in Runs : /\ x.at = (IF is = "live" THEN "called" ELSE "over") /\ x.token = run[c].token /\ x.gen = run[c].gen
                        /\ run' = [run EXCEPT ![c] = x]
BY <1>2, GoesTo DEF Outside
<1>4. BoundsKeep BY <1>1, BoundsStay
<1>5. TokenInv' BY <1>1, <1>3, TokensMove, SearchTypesAre DEF Outside, Joined, LinkType
<1>6. run'[c] = x /\ \A d \in Callers \ {c} : run'[d] = run[d] BY <1>3, SearchTypesAre
<1>7. /\ SessionTypes' /\ searchSession'[c].is = is /\ \A d \in Callers \ {c} : searchSession'[d] = searchSession[d]
      /\ \A d \in Callers : searchSession'[d].truncated = searchSession[d].truncated
BY <1>2, SearchTypesAre DEF SessionTypes
<1>8. LiveWhileRunning' BY <1>1, <1>3, <1>6, <1>7, SearchTypesAre DEF LiveWhileRunning, Network!Kind
<1>9. LiveWithinLimit'
  <2> DEFINE L == {d \in Callers : searchSession[d].is = "live"}
  <2>1. IsFiniteSet(L) /\ Cardinality(L) \in Nat BY SearchesAssumption, FS_Subset, FS_CardinalityType
  <2>2. CASE is = "refused"
    <3>1. {d \in Callers : searchSession'[d].is = "live"} = L BY <1>1, <1>7, <2>2
    <3>. QED BY <1>1, <3>1, SearchTypesAre DEF LiveWithinLimit
  <2>3. CASE is = "live"
    <3>1. {d \in Callers : searchSession'[d].is = "live"} = L \cup {c} BY <1>1, <1>7, <2>3
    <3>2. Cardinality(L \cup {c}) = Cardinality(L) + 1 BY <1>1, <2>1, FS_AddElement
    <3>3. searching.sessions \in Nat BY SearchTypesAre DEF Bounds
    <3>4. Cardinality(L) < searching.sessions
      <4>1. Network!LiveCount = Cardinality(L) BY SearchesCount DEF Network!LiveCount
      <4>2. ~(Cardinality(L) >= searching.sessions) BY <1>2, <2>3, <4>1
      <4>. HIDE DEF L
      <4>. QED BY <2>1, <3>3, <4>2
    <3>5. Cardinality(L) + 1 <= searching.sessions BY <2>1, <3>3, <3>4
    <3>. QED BY <1>1, <3>1, <3>2, <3>5 DEF LiveWithinLimit
  <2>. QED BY <2>2, <2>3
<1>10. ResultInv' BY <1>1, <1>3, <1>4, <1>6, <1>7, ResultsStay, SearchTypesAre DEF Beforehand, Afterwards, Pends, ResultTypes
<1>. QED BY <1>4, <1>5, <1>7, <1>8, <1>9, <1>10 DEF SearchInv, SessionInv, BoundsKeep
LEMMA SearchKeeps == ASSUME SearchInv, NEW c \in Callers, Network!Search(c) PROVE SearchInv'
<1>1. /\ Network!Kind(c) = "direct" /\ run[c].at = "new" /\ run' = [run EXCEPT ![c].at = "called"]
      /\ UNCHANGED <<searching, link, writer, registry, reserved, buffer, got, given, reader, searchSession>>
BY DEF Network!Search, Network!Goes, Network!LinkUnchanged, Network!RegistryUnchanged, Network!ResultsUnchanged, Network!CallUnchanged
<1>2. PICK x \in Runs : /\ x.at = "called" /\ x.token = run[c].token /\ x.gen = run[c].gen /\ run' = [run EXCEPT ![c] = x]
BY ZenonT(60), <1>1, GoesTo DEF Outside
<1>3. BoundsKeep BY <1>1, BoundsStay
<1>4. TokenInv' BY <1>1, <1>2, TokensMove, SearchTypesAre DEF Outside, Joined, LinkType
<1>5. run'[c] = x /\ \A d \in Callers \ {c} : run'[d] = run[d] BY <1>2, SearchTypesAre
<1>6. LiveWhileRunning' BY <1>1, <1>5, SearchTypesAre DEF LiveWhileRunning, Network!Kind
<1>7. SessionTypes' /\ LiveWithinLimit' BY <1>1, SearchTypesAre DEF SessionTypes, LiveWithinLimit
<1>8. ResultInv' BY <1>1, <1>2, <1>3, <1>5, ResultsStay, SearchTypesAre DEF Beforehand, Afterwards, Pends, ResultTypes
<1>. QED BY <1>3, <1>4, <1>6, <1>7, <1>8 DEF SearchInv, SessionInv, BoundsKeep
LEMMA FinishKeeps == ASSUME SearchInv, NEW c \in Callers, Network!Finish(c) PROVE SearchInv'
<1>1. /\ run[c].at = "return" /\ run' = [run EXCEPT ![c].at = "over"]
      /\ searchSession' = IF Network!Kind(c) = "session" THEN [searchSession EXCEPT ![c].is = "done"] ELSE searchSession
      /\ UNCHANGED <<searching, link, writer, registry, reserved, buffer, got, given, reader>>
BY DEF Network!Finish, Network!Goes, Network!LinkUnchanged, Network!RegistryUnchanged, Network!ResultsUnchanged
<1>2. PICK x \in Runs : /\ x.at = "over" /\ x.token = run[c].token /\ x.gen = run[c].gen /\ run' = [run EXCEPT ![c] = x]
BY <1>1, GoesTo DEF Outside
<1>3. BoundsKeep BY <1>1, BoundsStay
<1>4. TokenInv' BY <1>1, <1>2, TokensMove, SearchTypesAre DEF Outside, Joined, LinkType
<1>5. run'[c] = x /\ \A d \in Callers \ {c} : run'[d] = run[d] BY <1>2, SearchTypesAre
<1>6. /\ SessionTypes' /\ \A d \in Callers \ {c} : searchSession'[d] = searchSession[d]
      /\ Network!Kind(c) = "session" => searchSession'[c].is = "done"
      /\ Network!Kind(c) # "session" => searchSession'[c].is = searchSession[c].is
      /\ \A d \in Callers : searchSession'[d].truncated = searchSession[d].truncated
BY <1>1, SearchTypesAre DEF SessionTypes
<1>7. LiveWhileRunning' BY <1>1, <1>2, <1>5, <1>6, SearchTypesAre DEF LiveWhileRunning, Network!Kind
<1>8. LiveWithinLimit'
  <2> DEFINE L == {d \in Callers : searchSession[d].is = "live"}
             M == {d \in Callers : searchSession'[d].is = "live"}
  <2>1. M \subseteq L
    <3>1. searchSession'[c].is # "live" BY <1>6, SearchTypesAre DEF LiveWhileRunning
    <3>. QED BY <1>6, <3>1
  <2>2. IsFiniteSet(L) BY SearchesAssumption, FS_Subset
  <2>3. Cardinality(M) <= Cardinality(L) /\ Cardinality(M) \in Nat /\ Cardinality(L) \in Nat BY <2>1, <2>2, FS_Subset, FS_CardinalityType
  <2>4. searching.sessions \in Nat BY SearchTypesAre DEF Bounds
  <2>. QED BY <1>1, <2>3, <2>4, SearchTypesAre DEF LiveWithinLimit
<1>9. ResultInv' BY <1>1, <1>2, <1>3, <1>5, <1>6, ResultsStay, SearchTypesAre DEF Beforehand, Afterwards, Pends, ResultTypes
<1>. QED BY <1>3, <1>4, <1>6, <1>7, <1>8, <1>9 DEF SearchInv, SessionInv, BoundsKeep
LEMMA CancelKeeps == ASSUME SearchInv, NEW c \in Callers, Network!Cancel(c) PROVE SearchInv'
<1>1. /\ Network!Spend("stops")
      /\ UNCHANGED <<searchSession, run, link, writer, registry, reserved, buffer, got, given, reader>>
BY DEF Network!Cancel, Network!LinkUnchanged, Network!RegistryUnchanged, Network!ResultsUnchanged
<1>2. BoundsKeep BY <1>1, BoundsStay
<1>3. SessionInv' BY <1>1, <1>2, SessionsStay, SearchTypesAre DEF BoundsKeep, SessionTypes
<1>4. ResultInv' BY <1>1, <1>2, ResultsStay, SearchTypesAre DEF ResultTypes
<1>. QED BY <1>1, <1>2, <1>3, <1>4, TokensStay DEF SearchInv, BoundsKeep
LEMMA EvictKeeps == ASSUME SearchInv, NEW c \in Callers, Network!Evict(c) PROVE SearchInv'
<1>1. /\ searchSession[c].is = "done" /\ searchSession' = [searchSession EXCEPT ![c].is = "gone"]
      /\ UNCHANGED <<searching, run, link, writer, registry, reserved, buffer, got, given, reader>>
BY DEF Network!Evict, Network!LinkUnchanged, Network!RegistryUnchanged, Network!ResultsUnchanged
<1>2. BoundsKeep BY <1>1, BoundsStay
<1>3. /\ SessionTypes' /\ searchSession'[c].is = "gone" /\ \A d \in Callers \ {c} : searchSession'[d] = searchSession[d]
      /\ \A d \in Callers : searchSession'[d].truncated = searchSession[d].truncated
BY <1>1, SearchTypesAre DEF SessionTypes
<1>4. SessionInv' BY <1>1, <1>2, <1>3, SessionsStay DEF BoundsKeep
<1>5. ResultInv' BY <1>1, <1>2, <1>3, ResultsStay, SearchTypesAre DEF ResultTypes
<1>. QED BY <1>1, <1>2, <1>4, <1>5, TokensStay DEF SearchInv, BoundsKeep
LEMMA ReserveKeeps == ASSUME SearchInv, NEW c \in Callers, Network!Reserve(c) PROVE SearchInv'
<1>1. /\ run[c].at = "called" /\ UNCHANGED <<link, writer, registry, buffer, got, given, reader, searchSession>>
BY DEF Network!Reserve, Network!LinkUnchanged, Network!ResultsUnchanged, Network!CallUnchanged
<1>2. BoundsKeep
  <2>1. UNCHANGED searching \/ Network!Spend("faults") BY DEF Network!Reserve
  <2>. QED BY <2>1, BoundsStay
<1>3. CASE run' = [run EXCEPT ![c].at = "flush", ![c].ok = FALSE] /\ UNCHANGED reserved
  <2>1. PICK x \in Runs : /\ x.at = "flush" /\ x.token = run[c].token /\ x.gen = run[c].gen /\ run' = [run EXCEPT ![c] = x]
    BY <1>3, GoesTo DEF Outside
  <2>2. TokenInv' BY ZenonT(60), <1>1, <1>3, <2>1, TokensMove, SearchTypesAre DEF Outside, Joined, LinkType
  <2>3. run'[c] = x /\ \A d \in Callers \ {c} : run'[d] = run[d] BY <2>1, SearchTypesAre
  <2>4. SessionInv' BY <1>1, <1>2, <2>1, <2>3, SessionsStay, SearchTypesAre DEF BoundsKeep, SessionTypes
  <2>5. ResultInv' BY <1>1, <1>2, <2>1, <2>3, ResultsStay, SearchTypesAre DEF Beforehand, Afterwards, Pends, ResultTypes
  <2>. QED BY <1>2, <2>2, <2>4, <2>5 DEF SearchInv, BoundsKeep
<1>4. ASSUME NEW t \in Tokens \ reserved, reserved' = reserved \cup {t}, run' = [run EXCEPT ![c].at = "reserved", ![c].token = t]
      PROVE  SearchInv'
  <2>1. /\ run' \in [Callers -> Runs] /\ \A d \in Callers \ {c} : run'[d] = run[d]
        /\ run'[c].at = "reserved" /\ run'[c].token = t /\ run'[c].gen = run[c].gen
    BY <1>4, SearchTypesAre DEF Runs
  <2>2. Network!Active' = Network!Active \cup {c} /\ c \notin Network!Active BY <1>1, <2>1 DEF Network!Active
  <2>3. \A d \in Network!Active : d \in Callers \ {c} /\ run'[d] = run[d] BY <2>1, <2>2 DEF Network!Active
  <2>4. reserved = {run[d].token : d \in Network!Active} BY SearchTypesAre DEF TokensAreApart
  <2>5. reserved' = {run'[d].token : d \in Network!Active'} BY <1>4, <2>1, <2>2, <2>3, <2>4
  <2>6. \A d, e \in Network!Active' : run'[d].token = run'[e].token => d = e
    <3>0. \A d \in Network!Active : run[d].token \in reserved BY <2>4
    <3>1. \A d \in Network!Active : run'[d].token \in reserved /\ run'[d].token # t BY <1>4, <2>3, <3>0
    <3>2. \A d, e \in Network!Active : run'[d].token = run'[e].token => d = e BY <2>3, SearchTypesAre DEF TokensAreApart
    <3>. QED BY <2>1, <2>2, <3>1, <3>2
  <2>7. TokensAreApart'
    <3>1. reserved' \subseteq Tokens BY <1>4, SearchTypesAre DEF TokensAreApart
    <3>2. \A d \in Callers : run'[d].at \notin Outside => run'[d].token \in Tokens BY <1>4, <2>1, SearchTypesAre DEF TokensAreApart
    <3>. QED BY <2>5, <2>6, <3>1, <3>2 DEF TokensAreApart
  <2>8. RegistryIsTrue'
    <3>1. \A u \in Tokens : registry[u] # None => registry[u] \in Callers \ {c} BY <1>1, SearchTypesAre DEF RegistryIsTrue, Joined
    <3>. QED BY <1>1, <2>1, <3>1, SearchTypesAre DEF RegistryIsTrue
  <2>9. WriterWrites' BY <1>1, <2>1, SearchTypesAre DEF WriterWrites
  <2>10. SessionInv' BY <1>1, <1>2, <2>1, SessionsStay, SearchTypesAre DEF BoundsKeep, SessionTypes
  <2>11. ResultInv' BY <1>1, <1>2, <2>1, ResultsStay, SearchTypesAre DEF Beforehand, Afterwards, Pends, ResultTypes
  <2>12. RunTypes' BY <1>1, <2>1, SearchTypesAre DEF RunTypes
  <2>. QED BY <1>2, <2>7, <2>8, <2>9, <2>10, <2>11, <2>12 DEF SearchInv, TokenInv, BoundsKeep
<1>. QED BY <1>3, <1>4 DEF Network!Reserve
LEMMA RegisterKeeps == ASSUME SearchInv, NEW c \in Callers, Network!Register(c) PROVE SearchInv'
<1>1. /\ run[c].at = "reserved" /\ writer = None
      /\ UNCHANGED <<searching, link, reserved, buffer, got, given, reader, searchSession>>
BY DEF Network!Register, Network!ResultsUnchanged, Network!CallUnchanged
<1>2. BoundsKeep BY <1>1, BoundsStay
<1>3. CASE run' = [run EXCEPT ![c].at = "release", ![c].ok = FALSE] /\ UNCHANGED <<registry, writer>>
  <2>1. PICK x \in Runs : /\ x.at = "release" /\ x.token = run[c].token /\ x.gen = run[c].gen /\ run' = [run EXCEPT ![c] = x]
    BY <1>3, GoesTo
  <2>. QED BY <1>1, <1>2, <1>3, <2>1, StepKeeps, SearchTypesAre DEF Outside, Joined, Beforehand, Afterwards, Pends
<1>4. ASSUME ~Network!NoConnection, run' = [run EXCEPT ![c].at = "write", ![c].gen = link.gen], writer' = c,
             registry' = [registry EXCEPT ![run[c].token] = c]
      PROVE  SearchInv'
  <2>1. /\ run' \in [Callers -> Runs] /\ \A d \in Callers \ {c} : run'[d] = run[d]
        /\ run'[c].at = "write" /\ run'[c].token = run[c].token /\ run'[c].gen = link.gen
    <3>1. link.gen \in Nat BY SearchTypesAre DEF LinkType
    <3>. QED BY <1>4, <3>1, SearchTypesAre DEF Runs, Joined
  <2>2. Network!Active' = Network!Active BY <1>1, <2>1 DEF Network!Active
  <2>3. \A d \in Callers : run'[d].token = run[d].token BY <2>1
  <2>4. \A d \in Network!Active : d \in Callers BY DEF Network!Active
  <2>5. TokensAreApart'
    <3>1. {run'[d].token : d \in Network!Active'} = {run[d].token : d \in Network!Active} BY <2>2, <2>3, <2>4
    <3>2. \A d \in Callers : run'[d].at \notin Outside => run'[d].token \in Tokens BY <1>1, <2>1, SearchTypesAre DEF TokensAreApart, Outside
    <3>. QED BY <1>1, <2>2, <2>3, <2>4, <3>1, <3>2, SearchTypesAre DEF TokensAreApart
  <2>6. run[c].token \in Tokens BY <1>1, SearchTypesAre DEF TokensAreApart, Outside
  <2>7. RegistryIsTrue'
    <3>1. registry' \in [Tokens -> Callers \cup {None}] BY <1>4, SearchTypesAre DEF RegistryIsTrue
    <3>2. link.is # "down" BY <1>4 DEF Network!NoConnection
    <3>3. ASSUME NEW t \in Tokens, registry'[t] # None
          PROVE  run'[registry'[t]].at \in Joined /\ run'[registry'[t]].token = t /\ run'[registry'[t]].gen = link'.gen /\ link'.is # "down"
      <4>1. CASE t = run[c].token BY <1>1, <1>4, <2>1, <2>6, <3>2, <4>1, SearchTypesAre DEF RegistryIsTrue, Joined
      <4>2. CASE t # run[c].token
        <5>1. registry'[t] = registry[t] /\ registry[t] \in Callers \ {c} BY <1>1, <1>4, <3>3, <4>2, SearchTypesAre DEF RegistryIsTrue, Joined
        <5>. QED BY <1>1, <2>1, <3>2, <3>3, <5>1, SearchTypesAre DEF RegistryIsTrue
      <4>. QED BY <4>1, <4>2
    <3>. QED BY <3>1, <3>3 DEF RegistryIsTrue
  <2>8. WriterWrites' BY <1>4, <2>1 DEF WriterWrites
  <2>9. SessionInv' BY <1>1, <1>2, <2>1, SessionsStay, SearchTypesAre DEF BoundsKeep, SessionTypes
  <2>10. ResultInv' BY <1>1, <1>2, <2>1, ResultsStay, SearchTypesAre DEF Beforehand, Afterwards, Pends, ResultTypes
  <2>11. RunTypes' BY <1>1, <2>1, SearchTypesAre DEF RunTypes
  <2>. QED BY <1>2, <2>5, <2>7, <2>8, <2>9, <2>10, <2>11 DEF SearchInv, TokenInv, BoundsKeep
<1>. QED BY <1>3, <1>4 DEF Network!Register
LEMMA ReleaseKeeps == ASSUME SearchInv, NEW c \in Callers, Network!Release(c) PROVE SearchInv'
<1>1. /\ run[c].at = "release" /\ run' = [run EXCEPT ![c].at = "flush"]
      /\ registry' = Network!RemoveIfSame(c) /\ reserved' = reserved \ {run[c].token}
      /\ UNCHANGED <<searching, link, writer, buffer, got, given, reader, searchSession>>
BY DEF Network!Release, Network!Goes, Network!ReleaseToken, Network!LinkUnchanged, Network!ResultsUnchanged, Network!CallUnchanged
<1>2. BoundsKeep BY <1>1, BoundsStay
<1>3. PICK x \in Runs : /\ x.at = "flush" /\ x.token = run[c].token /\ x.gen = run[c].gen /\ run' = [run EXCEPT ![c] = x]
BY <1>1, GoesTo DEF Outside
<1>4. run' \in [Callers -> Runs] /\ run'[c] = x /\ \A d \in Callers \ {c} : run'[d] = run[d] BY <1>3, SearchTypesAre
<1>5. Network!Active' = Network!Active \ {c} /\ c \in Network!Active BY <1>1, <1>3, <1>4 DEF Network!Active
<1>6. \A d \in Network!Active' : d \in Callers /\ run'[d] = run[d] BY <1>4, <1>5 DEF Network!Active
<1>7. reserved = {run[d].token : d \in Network!Active} /\ \A d, e \in Network!Active : run[d].token = run[e].token => d = e
BY SearchTypesAre DEF TokensAreApart
<1>8. reserved' = {run'[d].token : d \in Network!Active'}
  <2>1. {run'[d].token : d \in Network!Active'} = {run[d].token : d \in Network!Active \ {c}} BY <1>5, <1>6
  <2>. QED BY <1>1, <1>5, <1>7, <2>1
<1>9. TokensAreApart'
  <2>1. \A d, e \in Network!Active' : run'[d].token = run'[e].token => d = e BY <1>5, <1>6, <1>7
  <2>2. reserved' \subseteq Tokens BY <1>1, SearchTypesAre DEF TokensAreApart
  <2>3. \A d \in Callers : run'[d].at \notin Outside => run'[d].token \in Tokens BY <1>3, <1>4, SearchTypesAre DEF TokensAreApart, Outside
  <2>. QED BY <1>8, <2>1, <2>2, <2>3 DEF TokensAreApart
<1>10. RegistryIsTrue'
  <2>1. registry' \in [Tokens -> Callers \cup {None}] BY <1>1, SearchTypesAre DEF RegistryIsTrue, Network!RemoveIfSame
  <2>2. \A t \in Tokens : registry'[t] # None => registry'[t] = registry[t] /\ registry[t] \in Callers \ {c}
    BY <1>1, SearchTypesAre DEF RegistryIsTrue, Network!RemoveIfSame
  <2>. QED BY <1>1, <1>4, <2>1, <2>2, SearchTypesAre DEF RegistryIsTrue
<1>11. WriterWrites' BY <1>1, <1>4, SearchTypesAre DEF WriterWrites
<1>12. SessionInv' BY <1>1, <1>2, <1>3, <1>4, SessionsStay, SearchTypesAre DEF BoundsKeep, SessionTypes
<1>13. ResultInv' BY <1>1, <1>2, <1>3, <1>4, ResultsStay, SearchTypesAre DEF Beforehand, Afterwards, Pends, ResultTypes
<1>14. RunTypes' BY <1>1, <1>4, SearchTypesAre DEF RunTypes
<1>. QED BY <1>2, <1>9, <1>10, <1>11, <1>12, <1>13, <1>14 DEF SearchInv, TokenInv, BoundsKeep
LEMMA TooLateKeeps == ASSUME SearchInv, NEW c \in Callers, Network!TooLate(c) PROVE SearchInv'
<1>1. /\ run[c].at = "reserved" /\ run' = [run EXCEPT ![c].at = "release"]
      /\ UNCHANGED <<searching, link, writer, registry, reserved, buffer, got, given, reader, searchSession>>
BY DEF Network!TooLate, Network!Goes, Network!LinkUnchanged, Network!RegistryUnchanged, Network!ResultsUnchanged, Network!CallUnchanged
<1>2. PICK x \in Runs : /\ x.at = "release" /\ x.token = run[c].token /\ x.gen = run[c].gen /\ run' = [run EXCEPT ![c] = x]
BY <1>1, GoesTo
<1>3. BoundsKeep BY <1>1, BoundsStay
<1>. QED BY <1>1, <1>2, <1>3, StepKeeps, SearchTypesAre DEF Outside, Joined, Beforehand, Afterwards, Pends
LEMMA WriteKeeps == ASSUME SearchInv, NEW c \in Callers, Network!Write(c) PROVE SearchInv'
<1>1. /\ run[c].at = "write" /\ writer' = None
      /\ UNCHANGED <<registry, reserved, buffer, got, given, reader, searchSession>>
BY DEF Network!Write, Network!ResultsUnchanged, Network!CallUnchanged
<1>2. BoundsKeep
  <2>1. UNCHANGED searching \/ Network!Spend("faults") BY DEF Network!Write
  <2>. QED BY <2>1, BoundsStay
<1>3. PICK at \in {"wait", "finish"} : run' = [run EXCEPT ![c].at = at] \/ run' = [run EXCEPT ![c].at = at, ![c].ok = FALSE]
BY DEF Network!Write, Network!Goes
<1>4. PICK x \in Runs : /\ x.at = at /\ x.token = run[c].token /\ x.gen = run[c].gen /\ run' = [run EXCEPT ![c] = x]
BY <1>3, GoesTo DEF Joined
<1>5. link' \in LinkType /\ link'.gen = link.gen /\ (link'.is = "down" => link.is = "down")
BY SearchTypesAre DEF Network!Write, LinkType
<1>. QED BY <1>1, <1>2, <1>4, <1>5, StepKeeps DEF Outside, Joined, Beforehand, Afterwards, Pends
LEMMA FailKeeps == ASSUME SearchInv, NEW c \in Callers, Network!Fail(c) \/ Network!TimeOut(c) PROVE SearchInv'
<1>1. /\ run[c].at = "wait" /\ (run' = [run EXCEPT ![c].at = "finish"] \/ run' = [run EXCEPT ![c].at = "finish", ![c].ok = FALSE])
      /\ UNCHANGED <<searching, link, writer, registry, reserved, buffer, got, given, reader, searchSession>>
BY DEF Network!Fail, Network!TimeOut, Network!Goes, Network!LinkUnchanged, Network!RegistryUnchanged, Network!ResultsUnchanged, Network!CallUnchanged
<1>2. PICK x \in Runs : /\ x.at = "finish" /\ x.token = run[c].token /\ x.gen = run[c].gen /\ run' = [run EXCEPT ![c] = x]
BY <1>1, GoesTo DEF Joined
<1>3. BoundsKeep BY <1>1, BoundsStay
<1>. QED BY <1>1, <1>2, <1>3, StepKeeps, SearchTypesAre DEF Outside, Joined, Beforehand, Afterwards, Pends
LEMMA RemoveKeeps == ASSUME SearchInv, NEW c \in Callers, Network!Remove(c) PROVE SearchInv'
<1>1. /\ run[c].at = "finish" /\ run' = [run EXCEPT ![c].at = "drain"] /\ registry' = Network!RemoveIfSame(c)
      /\ UNCHANGED <<searching, link, writer, reserved, buffer, got, given, reader, searchSession>>
BY DEF Network!Remove, Network!Goes, Network!LinkUnchanged, Network!ResultsUnchanged, Network!CallUnchanged
<1>2. PICK x \in Runs : /\ x.at = "drain" /\ x.token = run[c].token /\ x.gen = run[c].gen /\ run' = [run EXCEPT ![c] = x]
BY <1>1, GoesTo
<1>3. BoundsKeep BY <1>1, BoundsStay
<1>. QED BY <1>1, <1>2, <1>3, StepKeeps, SearchTypesAre DEF Outside, Joined, Beforehand, Afterwards, Pends
\* A search that takes what there is, or hands it on.
LEMMA TakesKeep ==
  ASSUME SearchInv, NEW c \in Callers, NEW to \in {"wait", "drained", "release", "return"}, run' = [run EXCEPT ![c].at = to],
         UNCHANGED <<searching, link, writer, registry, reserved>>,
         run[c].at \in {"wait", "drain", "drained", "flush"}, run[c].at = "flush" <=> to = "return", to = "release" => run[c].at = "drain",
         ResultInv', SessionTypes', \A d \in Callers : searchSession'[d].is = searchSession[d].is
  PROVE  SearchInv'
<1>1. PICK x \in Runs : /\ x.at = to /\ x.token = run[c].token /\ x.gen = run[c].gen /\ run' = [run EXCEPT ![c] = x]
  <2>1. to \in Outside \cup Joined \cup {"reserved", "drain", "release"} BY DEF Outside, Joined
  <2>. QED BY <2>1, GoesTo
<1>2. BoundsKeep BY BoundsStay
<1>3. TokenInv' BY ZenonT(60), <1>1, TokensMove, SearchTypesAre DEF Outside, Joined, LinkType
<1>4. run'[c] = x /\ \A d \in Callers \ {c} : run'[d] = run[d] BY <1>1, SearchTypesAre
<1>5. SessionInv' BY <1>1, <1>2, <1>4, SessionsStay DEF BoundsKeep
<1>. QED BY <1>2, <1>3, <1>5 DEF SearchInv, BoundsKeep
LEMMA TakeKeeps == ASSUME SearchInv, NEW c \in Callers, Network!Take(c) PROVE SearchInv'
<1>1. /\ run[c].at = "wait" /\ Network!Process(c) /\ Network!Empty(c)
      /\ UNCHANGED <<searching, given, reader, searchSession, link, writer, registry, reserved>>
BY DEF Network!Take, Network!CallUnchanged, Network!LinkUnchanged, Network!RegistryUnchanged
<1>2. PICK to \in {"wait", "drained"} : run' = [run EXCEPT ![c].at = to] /\ (to = "drained" <=> Network!Kind(c) = "session")
  <2>1. CASE Network!Kind(c) = "session" BY <2>1 DEF Network!Take, Network!Goes
  <2>2. CASE Network!Kind(c) # "session"
    <3>1. run' = run BY <2>2 DEF Network!Take
    <3>2. run = [run EXCEPT ![c].at = "wait"] BY <1>1, SearchTypesAre DEF Runs
    <3>. QED BY <2>2, <3>1, <3>2
  <2>. QED BY <2>1, <2>2
<1>3. run'[c].at = to /\ \A d \in Callers \ {c} : run'[d] = run[d] BY <1>2, SearchTypesAre DEF Runs
<1>4. ResultInv' BY <1>1, <1>2, <1>3, ProcessKeeps
<1>5. SessionTypes' BY <1>1, SearchTypesAre DEF SessionTypes
<1>. QED BY <1>1, <1>2, <1>4, <1>5, TakesKeep
LEMMA DrainKeeps == ASSUME SearchInv, NEW c \in Callers, Network!Drain(c) PROVE SearchInv'
<1>1. /\ run[c].at = "drain" /\ Network!Process(c) /\ Network!Empty(c) /\ run' = [run EXCEPT ![c].at = "release"]
      /\ UNCHANGED <<searching, given, reader, searchSession, link, writer, registry, reserved>>
BY DEF Network!Drain, Network!Goes, Network!CallUnchanged, Network!LinkUnchanged, Network!RegistryUnchanged
<1>2. run'[c].at = "release" /\ \A d \in Callers \ {c} : run'[d] = run[d] BY <1>1, SearchTypesAre DEF Runs
<1>3. ResultInv' BY <1>1, <1>2, ProcessKeeps
<1>4. SessionTypes' BY <1>1, SearchTypesAre DEF SessionTypes
<1>. QED BY <1>1, <1>3, <1>4, TakesKeep
LEMMA EmitKeeps == ASSUME SearchInv, NEW c \in Callers, Network!Emit(c) PROVE SearchInv'
<1>1. /\ run[c].at = "drained" /\ Network!Accept(c) /\ run' = [run EXCEPT ![c].at = "wait"]
      /\ UNCHANGED <<searching, buffer, given, reader, link, writer, registry, reserved>>
BY DEF Network!Emit, Network!Goes, Network!LinkUnchanged, Network!RegistryUnchanged
<1>2. run'[c].at = "wait" /\ \A d \in Callers \ {c} : run'[d] = run[d] BY <1>1, SearchTypesAre DEF Runs
<1>3. ResultInv' /\ SessionTypes' /\ \A d \in Callers : searchSession'[d].is = searchSession[d].is BY <1>1, <1>2, AcceptKeeps
<1>. QED BY <1>1, <1>3, TakesKeep
LEMMA FlushKeeps == ASSUME SearchInv, NEW c \in Callers, Network!Flush(c) PROVE SearchInv'
<1>1. /\ run[c].at = "flush" /\ run' = [run EXCEPT ![c].at = "return"]
      /\ UNCHANGED <<searching, buffer, given, reader, link, writer, registry, reserved>>
BY DEF Network!Flush, Network!Goes, Network!LinkUnchanged, Network!RegistryUnchanged
<1>2. run'[c].at = "return" /\ \A d \in Callers \ {c} : run'[d] = run[d] BY <1>1, SearchTypesAre DEF Runs
<1>3. CASE Network!Kind(c) = "session"
  <2>1. Network!Accept(c) BY <1>3 DEF Network!Flush
  <2>2. ResultInv' /\ SessionTypes' /\ \A d \in Callers : searchSession'[d].is = searchSession[d].is BY <1>1, <1>2, <2>1, AcceptKeeps
  <2>. QED BY <1>1, <2>2, TakesKeep
<1>4. CASE Network!Kind(c) # "session"
  <2>1. UNCHANGED <<got, searchSession>> BY <1>4 DEF Network!Flush
  <2>2. ResultInv' BY <1>1, <1>2, <1>4, <2>1, BoundsStay, ResultsStay, SearchTypesAre DEF Beforehand, Afterwards, Pends, ResultTypes
  <2>3. SessionTypes' BY <2>1, SearchTypesAre DEF SessionTypes
  <2>. QED BY <1>1, <2>1, <2>2, <2>3, TakesKeep
<1>. QED BY <1>3, <1>4
LEMMA LookupKeeps == ASSUME SearchInv, NEW r \in Readers, NEW t \in Tokens, Network!Lookup(r, t) PROVE SearchInv'
<1>1. /\ Network!Spend("responses") /\ registry[t] # None
      /\ \E n \in 1 .. 2 : reader' = [reader EXCEPT ![r] = [sub |-> registry[t], left |-> n]]
      /\ UNCHANGED <<run, buffer, got, given, searchSession, link, writer, registry, reserved>>
BY DEF Network!Lookup, Network!CallUnchanged, Network!LinkUnchanged, Network!RegistryUnchanged
<1>2. BoundsKeep BY <1>1, BoundsStay
<1>3. SessionInv' BY <1>1, <1>2, SessionsStay, SearchTypesAre DEF BoundsKeep, SessionTypes
<1>4. reader' \in [Readers -> [sub : Callers \cup {None}, left : Int]]
  <2>1. registry[t] \in Callers BY <1>1, SearchTypesAre DEF RegistryIsTrue
  <2>. QED BY <1>1, <2>1, SearchTypesAre DEF ResultTypes
<1>5. ResultInv' BY <1>1, <1>2, <1>4, ResultsStay, SearchTypesAre DEF ResultTypes
<1>. QED BY <1>1, <1>2, <1>3, <1>5, TokensStay DEF SearchInv, BoundsKeep
LEMMA OffersKeep == ASSUME SearchInv, NEW r \in Readers, Network!Offers(r) PROVE SearchInv'
<1>1. UNCHANGED <<run, searchSession, link, writer, registry, reserved>>
BY DEF Network!Offers, Network!CallUnchanged, Network!LinkUnchanged, Network!RegistryUnchanged
<1>2. ResultInv' /\ Bounds' /\ searching'.kind = searching.kind /\ searching'.sessions = searching.sessions BY OfferKeeps
<1>3. SessionInv' BY <1>1, <1>2, SessionsStay, SearchTypesAre DEF SessionTypes
<1>. QED BY <1>1, <1>2, <1>3, TokensStay DEF SearchInv
\* The server session moves: whoever it fails learns of it, and nothing else changes.
LEMMA LinkKeeps ==
  ASSUME SearchInv, Network!LinkMoves, BoundsKeep, link' \in LinkType, registry' \in [Tokens -> Callers \cup {None}],
         \A t \in Tokens : registry'[t] # None => registry'[t] = registry[t] /\ link'.gen = link.gen /\ link'.is # "down",
         buffer' \in [Callers -> Buffers],
         \A d \in Callers : buffer'[d].results = buffer[d].results /\ buffer'[d].dropped = buffer[d].dropped
  PROVE  SearchInv'
<1>1. UNCHANGED <<writer, run, got, given, reader, reserved, searchSession>> BY DEF Network!LinkMoves, Network!CallUnchanged
<1>2. TokenInv' BY <1>1, TokensCut DEF LinkType
<1>3. SessionInv' BY <1>1, SessionsStay, SearchTypesAre DEF BoundsKeep, SessionTypes
<1>4. ResultInv' BY <1>1, ResultsStay, SearchTypesAre DEF ResultTypes
<1>. QED BY <1>2, <1>3, <1>4 DEF SearchInv, BoundsKeep
LEMMA FailingIs ==
  ASSUME SearchInv, NEW cs, Network!Failing(cs)
  PROVE  /\ registry' \in [Tokens -> Callers \cup {None}] /\ \A t \in Tokens : registry'[t] = IF registry[t] \in cs THEN None ELSE registry[t]
         /\ buffer' \in [Callers -> Buffers]
         /\ \A d \in Callers : buffer'[d].results = buffer[d].results /\ buffer'[d].dropped = buffer[d].dropped
<1>1. registry \in [Tokens -> Callers \cup {None}] /\ buffer \in [Callers -> Buffers] BY SearchTypesAre DEF RegistryIsTrue, ResultTypes
<1>2. /\ registry' = [t \in Tokens |-> IF registry[t] \in cs THEN None ELSE registry[t]]
      /\ buffer' = [c \in Callers |-> IF c \in cs THEN [buffer[c] EXCEPT !.failed = TRUE] ELSE buffer[c]]
BY DEF Network!Failing
<1>3. registry' \in [Tokens -> Callers \cup {None}] /\ \A t \in Tokens : registry'[t] = IF registry[t] \in cs THEN None ELSE registry[t]
BY <1>1, <1>2
<1>4. ASSUME NEW c \in Callers
      PROVE  /\ [buffer[c] EXCEPT !.failed = TRUE] \in Buffers
             /\ [buffer[c] EXCEPT !.failed = TRUE].results = buffer[c].results /\ [buffer[c] EXCEPT !.failed = TRUE].dropped = buffer[c].dropped
BY <1>1 DEF Buffers
<1>5. buffer' \in [Callers -> Buffers] BY <1>1, <1>2, <1>4
<1>. QED BY <1>2, <1>3, <1>4, <1>5
LEMMA ServerKeeps ==
  ASSUME SearchInv, Network!Drop \/ Network!ClearConn \/ Network!FailGeneration \/ Network!Reconnect \/ Network!FailAll PROVE SearchInv'
<1>0. /\ registry \in [Tokens -> Callers \cup {None}] /\ buffer \in [Callers -> Buffers]
      /\ \A t \in Tokens : registry[t] # None => run[registry[t]].gen = link.gen /\ link.is # "down"
      /\ link \in LinkType
BY SearchTypesAre DEF RegistryIsTrue, ResultTypes
<1>1. Network!LinkMoves BY DEF Network!Drop, Network!ClearConn, Network!FailGeneration, Network!Reconnect, Network!FailAll
<1>2. BoundsKeep
  <2>1. UNCHANGED searching \/ Network!Spend("drops")
    BY DEF Network!Drop, Network!ClearConn, Network!FailGeneration, Network!Reconnect, Network!FailAll
  <2>. QED BY <2>1, BoundsStay
<1>3. CASE Network!Drop \/ Network!ClearConn
  <2>1. link' \in LinkType /\ link'.gen = link.gen /\ link'.is # "down" BY <1>0, <1>3 DEF Network!Drop, Network!ClearConn, LinkType
  <2>2. UNCHANGED <<registry, buffer>> BY <1>3 DEF Network!Drop, Network!ClearConn
  <2>. QED BY <1>0, <1>1, <1>2, <2>1, <2>2, LinkKeeps
<1>4. CASE Network!Reconnect
  <2>1. link' \in LinkType /\ link.is = "down" BY <1>0, <1>4 DEF Network!Reconnect, LinkType
  <2>2. UNCHANGED <<registry, buffer>> BY <1>4 DEF Network!Reconnect
  <2>. QED BY <1>0, <1>1, <1>2, <2>1, <2>2, LinkKeeps
<1>5. CASE Network!FailGeneration
  <2>1. link' \in LinkType /\ link'.gen = link.gen BY <1>0, <1>5 DEF Network!FailGeneration, LinkType
  <2>2. Network!Failing(Network!OfGeneration(link.gen)) BY <1>5 DEF Network!FailGeneration
  <2>3. \A t \in Tokens : registry'[t] = None
    <3>1. \A t \in Tokens : registry[t] # None => registry[t] \in Network!OfGeneration(link.gen) BY <1>0 DEF Network!OfGeneration
    <3>. QED BY <2>2, <3>1, FailingIs
  <2>. QED BY <1>1, <1>2, <2>1, <2>2, <2>3, LinkKeeps, FailingIs
<1>6. CASE Network!FailAll
  <2>1. link' \in LinkType BY <1>0, <1>6 DEF Network!FailAll, LinkType
  <2>2. Network!Failing({registry[t] : t \in Tokens} \ {None}) BY <1>6 DEF Network!FailAll
  <2>3. \A t \in Tokens : registry'[t] = None BY <2>2, FailingIs
  <2>. QED BY <1>1, <1>2, <2>1, <2>2, <2>3, LinkKeeps, FailingIs
<1>. QED BY <1>3, <1>4, <1>5, <1>6
(***************************************************************************)
(* The theorems                                                            *)
(***************************************************************************)
LEMMA SearchHolds == ASSUME SearchInv PROVE SearchesAreSound
<1>1. Network!TypeOK
  <2>1. \A d \in Callers : run[d].at \in Joined => d \in Network!Active BY DEF Joined, Network!Active
  <2>2. \A t \in Tokens : registry[t] # None => registry[t] \in Network!Active /\ run[registry[t]].token = t
    BY <2>1, SearchTypesAre DEF RegistryIsTrue
  <2>. QED BY <2>2, SearchTypesAre DEF Network!TypeOK, TokensAreApart, WriterWrites
<1>2. Network!NoneOutlivesLink BY SearchTypesAre DEF Network!NoneOutlivesLink, RegistryIsTrue
<1>3. Network!NothingIsLost
  <2>1. ASSUME NEW c \in Callers, run[c].at = "over"
        PROVE  /\ given[c] \subseteq Network!Counted(c) \/ searchSession[c].truncated
               /\ \A i \in 1 .. Len(got[c].accepted) - 1 : got[c].accepted[i] < got[c].accepted[i + 1]
    <3>1. Ordered(c) /\ NoneMissing(c) BY DEF SearchInv, ResultInv, ResultsFit
    <3>2. got[c].pending = <<>> BY <2>1, <3>1 DEF NoneMissing, Pends
    <3>3. Handed(c) = Range(got[c].accepted) \cup buffer[c].dropped BY <3>2, NothingRises DEF Handed
    <3>4. Network!Counted(c) = Handed(c) BY <3>3 DEF Network!Counted, Network!Range, Range
    <3>5. given[c] \subseteq Handed(c) \/ searchSession[c].truncated BY <2>1, <3>1 DEF NoneMissing, Afterwards
    <3>6. got[c].accepted \in Seq(Nat) BY SearchTypesAre DEF ResultTypes, Gots
    <3>7. Len(got[c].accepted) \in Nat /\ DOMAIN got[c].accepted = 1 .. Len(got[c].accepted) BY <3>6, LenProperties
    <3>8. ASSUME NEW i \in 1 .. Len(got[c].accepted) - 1 PROVE got[c].accepted[i] < got[c].accepted[i + 1]
      <4>1. i \in DOMAIN got[c].accepted /\ i + 1 \in DOMAIN got[c].accepted /\ i < i + 1 BY <3>7
      <4>. QED BY <3>1, <4>1 DEF Ordered, Rises
    <3>. QED BY <3>4, <3>5, <3>8
  <2>. QED BY <2>1 DEF Network!NothingIsLost
<1>4. Network!BusyWithinLimit
  <2>1. {c \in Callers : Network!Kind(c) = "session" /\ run[c].at \notin {"new", "over"}} = {c \in Callers : searchSession[c].is = "live"}
    BY SearchTypesAre DEF LiveWhileRunning
  <2>. QED BY <2>1, SearchesCount, SearchTypesAre DEF Network!BusyWithinLimit, LiveWithinLimit
<1>. QED BY <1>1, <1>2, <1>3, <1>4 DEF SearchesAreSound, Network!SearchesAreSound
LEMMA SearchInit == ASSUME Network!Init PROVE SearchInv
<1>1. /\ searching \in SearchScopes /\ link = [gen |-> 1, is |-> "up"] /\ writer = None
      /\ registry = [t \in Tokens |-> None] /\ reserved = {} /\ run = [c \in Callers |-> [at |-> "new", token |-> None, gen |-> 0, ok |-> TRUE]]
      /\ buffer = [c \in Callers |-> [results |-> <<>>, failed |-> FALSE, dropped |-> {}]]
      /\ got = [c \in Callers |-> [pending |-> <<>>, accepted |-> <<>>]] /\ given = [c \in Callers |-> {}]
      /\ reader = [r \in Readers |-> [sub |-> None, left |-> 0]]
      /\ searchSession = [c \in Callers |-> [is |-> "none", total |-> 0, truncated |-> FALSE]]
BY DEF Network!Init, Network!Idle, Network!NoReader, Network!NoSession
<1>2. Bounds
  <2>1. searching \in [kind : [Callers -> {"session", "direct", "none"}], buffer : Nat, limit : Nat, sessions : Nat, responses : Nat,
                      drops : Nat, stops : Nat, faults : Nat, offered : {0}]
    BY <1>1, SearchesAssumption
  <2>. QED BY <2>1 DEF Bounds
<1>3. TokenInv
  <2>1. RunTypes BY <1>1 DEF RunTypes, Runs, Outside
  <2>2. Network!Active = {} BY <1>1 DEF Network!Active
  <2>3. TokensAreApart BY <1>1, <2>2 DEF TokensAreApart, Outside
  <2>. QED BY <1>1, <2>1, <2>3 DEF TokenInv, RegistryIsTrue, WriterWrites
<1>4. SessionInv
  <2>1. {c \in Callers : searchSession[c].is = "live"} = {} BY <1>1
  <2>2. searching.sessions \in Nat BY <1>2 DEF Bounds
  <2>3. LiveWithinLimit BY SMTT(40), <2>1, <2>2, FS_EmptySet DEF LiveWithinLimit
  <2>. QED BY <1>1, <2>3 DEF SessionInv, SessionTypes, LiveWhileRunning
<1>5. ResultInv
  <2>1. ResultTypes BY <1>1, NothingRises DEF ResultTypes, Buffers, Gots
  <2>2. ASSUME NEW c \in Callers PROVE ResultsFit(c)
    <3>1. got[c].pending = <<>> /\ got[c].accepted = <<>> /\ buffer[c].results = <<>> /\ given[c] = {} BY <1>1
    <3>2. Ordered(c) /\ AllOffered(c) BY <3>1, NothingRises DEF Ordered, AllOffered
    <3>. QED BY <3>1, <3>2 DEF NoneMissing, ResultsFit
  <2>. QED BY <2>1, <2>2 DEF ResultInv
<1>. QED BY <1>2, <1>3, <1>4, <1>5 DEF SearchInv
LEMMA SearchStep == ASSUME SearchInv, Network!Next PROVE SearchInv'
<1>1. ASSUME NEW c \in Callers, Network!Works(c) PROVE SearchInv'
BY <1>1, StartKeeps, SearchKeeps, ReserveKeeps, RegisterKeeps, WriteKeeps, TakeKeeps, EmitKeeps, FailKeeps, RemoveKeeps, DrainKeeps,
   ReleaseKeeps, FlushKeeps, FinishKeeps DEF Network!Works
<1>2. ASSUME NEW c \in Callers, Network!TooLate(c) \/ Network!TimeOut(c) \/ Network!Cancel(c) \/ Network!Evict(c) PROVE SearchInv'
BY <1>2, TooLateKeeps, FailKeeps, CancelKeeps, EvictKeeps
<1>3. ASSUME NEW r \in Readers, Network!Offers(r) \/ \E t \in Tokens : Network!Lookup(r, t) PROVE SearchInv'
BY <1>3, OffersKeep, LookupKeeps
<1>. QED BY <1>1, <1>2, <1>3, ServerKeeps DEF Network!Next
LEMMA SearchStutters == ASSUME SearchInv, UNCHANGED searchVars PROVE SearchInv'
<1>1. UNCHANGED <<searching, link, writer, registry, reserved, run, buffer, got, given, reader, searchSession>> BY DEF searchVars
<1>2. BoundsKeep BY <1>1, BoundsStay
<1>3. SessionInv' BY <1>1, <1>2, SessionsStay, SearchTypesAre DEF BoundsKeep, SessionTypes
<1>4. ResultInv' BY <1>1, <1>2, ResultsStay, SearchTypesAre DEF ResultTypes
<1>. QED BY <1>1, <1>2, <1>3, <1>4, TokensStay DEF SearchInv, BoundsKeep
LEMMA SearchNext == ASSUME SearchInv, [StreamsNext]_vars PROVE SearchInv'
<1>1. CASE UNCHANGED searchVars BY <1>1, SearchStutters
<1>2. CASE Network!Next BY <1>2, SearchStep
<1>. QED BY <1>1, <1>2 DEF StreamsNext, vars
LEMMA SearchAlways == StreamsSpec => []SearchInv
<1>1. StreamsInit => SearchInv BY SearchInit DEF StreamsInit
<1>2. SearchInv /\ [StreamsNext]_vars => SearchInv' BY SearchNext
<1>. QED BY <1>1, <1>2, PTL DEF StreamsSpec

\* However many sessions and direct searches run, and whenever the server session is lost and found again: a token is one
\* search's, none is found once its server session is down, what was offered is kept or counted, and the limit holds.
THEOREM SearchesHold == StreamsSpec => []SearchesAreSound
<1>1. SearchInv => SearchesAreSound BY SearchHolds
<1>. QED BY <1>1, SearchAlways, PTL
\* Only a session at work takes results.
LEMMA OnlyLiveTake == ASSUME SearchInv, Network!Next, NEW c \in Callers, searchSession[c].is = "done"
  PROVE searchSession'[c].total = searchSession[c].total /\ searchSession'[c].truncated = searchSession[c].truncated
<1>1. searchSession[c].is = "done" => Network!Kind(c) = "session" /\ run[c].at \in {"new", "over"} BY SearchTypesAre DEF LiveWhileRunning
<1>2. searchSession \in [Callers -> [is : {"none", "live", "refused", "done", "gone"}, total : Int, truncated : BOOLEAN]]
BY SearchTypesAre DEF SessionTypes
<1>3. CASE UNCHANGED searchSession BY <1>3
<1>4. ASSUME NEW d \in Callers, NEW is \in {"refused", "live", "done", "gone"}, searchSession' = [searchSession EXCEPT ![d].is = is]
      PROVE  searchSession'[c].total = searchSession[c].total /\ searchSession'[c].truncated = searchSession[c].truncated
BY <1>2, <1>4
<1>5. ASSUME NEW d \in Callers, Network!Accept(d), run[d].at \in {"drained", "flush"}
      PROVE  searchSession'[c].total = searchSession[c].total /\ searchSession'[c].truncated = searchSession[c].truncated
  <2>1. c # d BY <1>1, <1>5
  <2>. QED BY <1>2, <1>5, <2>1 DEF Network!Accept
<1>6. ASSUME NEW d \in Callers, Network!Emit(d) \/ Network!Flush(d)
      PROVE  UNCHANGED searchSession \/ (Network!Accept(d) /\ run[d].at \in {"drained", "flush"})
BY <1>6 DEF Network!Emit, Network!Flush, Network!Goes
<1>7. ASSUME NEW d \in Callers, Network!Start(d) \/ Network!Finish(d) \/ Network!Evict(d)
      PROVE  UNCHANGED searchSession \/ \E is \in {"refused", "live", "done", "gone"} : searchSession' = [searchSession EXCEPT ![d].is = is]
BY <1>7 DEF Network!Start, Network!Finish, Network!Evict
<1>8. ASSUME NEW d \in Callers,
             \/ Network!Search(d) \/ Network!Reserve(d) \/ Network!Register(d) \/ Network!Write(d) \/ Network!Take(d) \/ Network!Fail(d)
             \/ Network!Remove(d) \/ Network!Drain(d) \/ Network!Release(d) \/ Network!TooLate(d) \/ Network!TimeOut(d) \/ Network!Cancel(d)
      PROVE  UNCHANGED searchSession
BY <1>8 DEF Network!Search, Network!Reserve, Network!Register, Network!Write, Network!Take, Network!Fail, Network!Remove, Network!Drain,
            Network!Release, Network!TooLate, Network!TimeOut, Network!Cancel, Network!CallUnchanged
<1>9. ASSUME \/ Network!Drop \/ Network!ClearConn \/ Network!FailGeneration \/ Network!Reconnect \/ Network!FailAll
             \/ \E r \in Readers : Network!Offers(r) \/ \E t \in Tokens : Network!Lookup(r, t)
      PROVE  UNCHANGED searchSession
BY <1>9 DEF Network!Drop, Network!ClearConn, Network!FailGeneration, Network!Reconnect, Network!FailAll, Network!Offers, Network!Lookup,
            Network!LinkMoves, Network!CallUnchanged
<1>10. ASSUME NEW d \in Callers, Network!Works(d) \/ Network!TooLate(d) \/ Network!TimeOut(d) \/ Network!Cancel(d) \/ Network!Evict(d)
       PROVE  searchSession'[c].total = searchSession[c].total /\ searchSession'[c].truncated = searchSession[c].truncated
  <2>1. CASE Network!Emit(d) \/ Network!Flush(d) BY <1>3, <1>5, <1>6, <2>1
  <2>2. CASE Network!Start(d) \/ Network!Finish(d) \/ Network!Evict(d) BY <1>3, <1>4, <1>7, <2>2
  <2>3. CASE ~(\/ Network!Emit(d) \/ Network!Flush(d) \/ Network!Start(d) \/ Network!Finish(d) \/ Network!Evict(d))
    <3>1. UNCHANGED searchSession BY <1>8, <1>10, <2>3 DEF Network!Works
    <3>. QED BY <1>3, <3>1
  <2>. QED BY <2>1, <2>2, <2>3
<1>. QED BY <1>3, <1>9, <1>10 DEF Network!Next
\* The count of a session that is done, and its note that it was cut off, are what its followers may rely on.
THEOREM DoneStaysDone == StreamsSpec => Network!DoneIsFinal
<1>1. SearchInv /\ [StreamsNext]_vars =>
        [\A c \in Callers : searchSession[c].is = "done" =>
           searchSession'[c].total = searchSession[c].total /\ searchSession'[c].truncated = searchSession[c].truncated]_(Network!searchVars)
  <2>1. SUFFICES ASSUME SearchInv, StreamsNext, ~UNCHANGED Network!searchVars, NEW c \in Callers, searchSession[c].is = "done"
                 PROVE searchSession'[c].total = searchSession[c].total /\ searchSession'[c].truncated = searchSession[c].truncated
    BY DEF vars, searchVars, Network!searchVars
  <2>2. Network!Next BY <2>1 DEF StreamsNext, searchVars, Network!searchVars
  <2>. QED BY <2>1, <2>2, OnlyLiveTake
<1>. QED BY <1>1, SearchAlways, PTL DEF StreamsSpec, Network!DoneIsFinal

(***************************************************************************)
(* The event stream: the inductive invariant                               *)
(***************************************************************************)
RowTypes == [Rows -> Nat]
Prints == [rows : RowTypes, uploads : Nat]
Payloads == [sent : BOOLEAN, groups : [Groups -> Nat], done : BOOLEAN, truncated : BOOLEAN, expired : BOOLEAN]
Reading(ats) == [at : ats, fp : Prints, covers : SUBSET Conns, jobsGen : Nat, uploadsGen : Nat, samples : Nat]
Running == Reading({"idle", "refresh", "tick"})
Handling == Reading({"idle", "closed", "opening", "stored", "kept", "snapshot", "insert", "open", "over"})
Subscribers ==
  [rows : RowTypes, jobsGen : Nat, uploadsGen : Nat, waited : BOOLEAN, sample : Nat, seq : Nat, done : BOOLEAN, truncated : BOOLEAN,
   expired : BOOLEAN]
Boxes == [live : RowTypes, flags : SUBSET {"jobs", "uploads"}, samples : Seq(Nat), search : Payloads]
SourceTypes ==
  /\ db \in [rows : RowTypes, uploads : Nat, samples : Nat]
  /\ session \in [seq : Nat, groups : [Groups -> Nat], done : BOOLEAN, truncated : BOOLEAN, gone : BOOLEAN]
HubTypes ==
  /\ hub \in [jobsGen : Nat, uploadsGen : Nat, known : BOOLEAN, fp : Prints, covers : SUBSET Conns]
  /\ ticker \in Conns \cup {0} /\ runs \in [Conns -> Running] /\ conn \in [Conns -> Handling] /\ subs \subseteq Conns
PageTypes ==
  /\ sub \in [Conns -> Subscribers] /\ box \in [Conns -> Boxes]
  /\ browser \in [conn : Conns \cup {0}, rows : RowTypes, samples : Seq(Nat), search : Payloads]
FeedTypes == SourceTypes /\ HubTypes /\ PageTypes

\* A group's number is one of its session's; who has subscribed is open and has a ticker; nobody knows what has not happened.
SessionIsWhole == (\A g \in Groups : session.groups[g] <= session.seq) /\ (session.gone => session.done)
SubsAreOpen == subs = {c \in Conns : conn[c].at = "open"} /\ (ticker = 0 <=> subs = {})
NothingAhead ==
  \A c \in Conns :
    /\ sub[c].jobsGen <= hub.jobsGen /\ sub[c].uploadsGen <= hub.uploadsGen /\ sub[c].sample <= db.samples /\ sub[c].seq <= session.seq
    /\ runs[c].jobsGen <= hub.jobsGen /\ runs[c].uploadsGen <= hub.uploadsGen /\ runs[c].samples <= db.samples
ExpiredIsGone ==
  /\ browser.search.expired => session.gone
  /\ \A c \in Conns : (box[c].search.expired => session.gone) /\ (~box[c].search.sent => box[c].search = NoPayload)
NothingBeforehand == browser.conn \notin subs => browser.search = NoPayload /\ browser.samples = <<>>

\* What the page has, with what is on its way, is all that its subscriber is taken to know.
Merged(c) == MergeSearchGroups(browser.search.groups, box[c].search.groups)
SearchFits(c) ==
  ~session.gone =>
    /\ sub[c].done => session.done /\ sub[c].seq = session.seq /\ sub[c].truncated = session.truncated
    /\ sub[c].truncated => session.truncated
    /\ sub[c].truncated <=> (browser.search.truncated \/ box[c].search.truncated)
    /\ \A g \in Groups : session.groups[g] <= sub[c].seq => Merged(c)[g] = session.groups[g]
    /\ browser.search.done \/ box[c].search.done => sub[c].done
    /\ browser.search.done => box[c].search.groups = NoGroups /\ ~box[c].search.truncated
SamplesFit(c) ==
  /\ Rises(browser.samples) /\ Rises(box[c].samples) /\ Before(browser.samples, box[c].samples)
  /\ \A n \in Range(browser.samples) \cup Range(box[c].samples) : n <= sub[c].sample
  /\ \A n \in 1 .. sub[c].sample : n > sub[c].sample - ThroughputCap => n \in Range(browser.samples) \cup Range(box[c].samples)
Following(c) == conn[c].at \in {"insert", "open"} /\ browser.conn = c
FramesFit == \A c \in Conns : Following(c) => SearchFits(c) /\ SamplesFit(c)

FeedInv ==
  FeedTypes /\ SessionIsWhole /\ SubsAreOpen /\ NothingAhead /\ ExpiredIsGone /\ NothingBeforehand /\ FramesFit
(***************************************************************************)
(* The event stream: what a step leaves alone                              *)
(***************************************************************************)
LEMMA FeedIs ==
  ASSUME FeedInv
  PROVE  /\ SourceTypes /\ HubTypes /\ PageTypes /\ SessionIsWhole /\ SubsAreOpen /\ NothingAhead /\ ExpiredIsGone /\ NothingBeforehand /\ FramesFit
         /\ db \in [rows : RowTypes, uploads : Nat, samples : Nat]
         /\ session \in [seq : Nat, groups : [Groups -> Nat], done : BOOLEAN, truncated : BOOLEAN, gone : BOOLEAN]
         /\ hub \in [jobsGen : Nat, uploadsGen : Nat, known : BOOLEAN, fp : Prints, covers : SUBSET Conns]
         /\ ticker \in Conns \cup {0} /\ runs \in [Conns -> Running] /\ conn \in [Conns -> Handling] /\ subs \subseteq Conns
         /\ sub \in [Conns -> Subscribers] /\ box \in [Conns -> Boxes]
         /\ browser \in [conn : Conns \cup {0}, rows : RowTypes, samples : Seq(Nat), search : Payloads]
BY DEF FeedInv, FeedTypes, SourceTypes, HubTypes, PageTypes
LEMMA ConstantsAre ==
  /\ Zero \in RowTypes /\ NoGroups \in [Groups -> Nat] /\ NoPayload \in Payloads /\ NewSub \in Subscribers
  /\ NoRead \in Running /\ NoRead \in Handling /\ EmptyBox \in Boxes
  /\ 0 \notin Conns /\ ThroughputCap \in Nat
<1>1. Zero \in RowTypes /\ NoGroups \in [Groups -> Nat] BY DEF Zero, NoGroups, RowTypes
<1>2. NoPayload \in Payloads BY <1>1 DEF NoPayload, Payloads
<1>3. NewSub \in Subscribers BY <1>1 DEF NewSub, Subscribers
<1>4. NoRead \in Running /\ NoRead \in Handling BY <1>1 DEF NoRead, Running, Handling, Reading, Prints
<1>5. EmptyBox \in Boxes BY <1>1, <1>2, NothingRises DEF EmptyBox, Boxes
<1>. QED BY <1>1, <1>2, <1>3, <1>4, <1>5, StreamAssumption
SameFrames(c) ==
  /\ sub'[c].sample = sub[c].sample /\ sub'[c].seq = sub[c].seq /\ sub'[c].done = sub[c].done /\ sub'[c].truncated = sub[c].truncated
  /\ box'[c].samples = box[c].samples /\ box'[c].search = box[c].search
LEMMA FramesStay ==
  ASSUME FeedInv, NEW c \in Conns, Following(c), SameFrames(c), session' = session,
         browser'.search = browser.search, browser'.samples = browser.samples
  PROVE  SearchFits(c)' /\ SamplesFit(c)'
<1>1. SearchFits(c) /\ SamplesFit(c) BY FeedIs DEF FramesFit
<1>2. SamplesFit(c)' BY <1>1 DEF SamplesFit, SameFrames, Rises, Before, Range
<1>3. Merged(c)' = Merged(c) BY DEF Merged, MergeSearchGroups, SameFrames
<1>4. SearchFits(c)' BY <1>1, <1>3 DEF SearchFits, SameFrames
<1>. QED BY <1>2, <1>4
\* Nothing moves but what frames are made of.
LEMMA QuietKeeps ==
  ASSUME FeedInv, FeedTypes', session' = session, db.samples <= db'.samples, hub.jobsGen <= hub'.jobsGen, hub.uploadsGen <= hub'.uploadsGen,
         subs' = subs, ticker' = ticker,
         \A c \in Conns :
           /\ SameFrames(c) /\ sub'[c].jobsGen = sub[c].jobsGen /\ sub'[c].uploadsGen = sub[c].uploadsGen
           /\ (conn'[c].at = "open" <=> conn[c].at = "open") /\ (conn'[c].at = "insert" <=> conn[c].at = "insert")
           /\ runs'[c].jobsGen <= hub'.jobsGen /\ runs'[c].uploadsGen <= hub'.uploadsGen /\ runs'[c].samples <= db'.samples,
         browser'.conn = browser.conn, browser'.search = browser.search, browser'.samples = browser.samples
  PROVE  FeedInv'
<1>1. SessionIsWhole' BY FeedIs DEF SessionIsWhole
<1>2. SubsAreOpen' BY FeedIs DEF SubsAreOpen
<1>3. NothingAhead'
  <2>1. ASSUME NEW c \in Conns PROVE sub'[c].jobsGen <= hub'.jobsGen /\ sub'[c].uploadsGen <= hub'.uploadsGen /\ sub'[c].sample <= db'.samples
    <3>1. sub[c].jobsGen \in Nat /\ sub[c].uploadsGen \in Nat /\ sub[c].sample \in Nat BY FeedIs DEF Subscribers
    <3>2. hub.jobsGen \in Nat /\ hub.uploadsGen \in Nat /\ db.samples \in Nat BY FeedIs
    <3>3. hub'.jobsGen \in Nat /\ hub'.uploadsGen \in Nat /\ db'.samples \in Nat BY DEF FeedTypes, HubTypes, SourceTypes
    <3>4. sub[c].jobsGen <= hub.jobsGen /\ sub[c].uploadsGen <= hub.uploadsGen /\ sub[c].sample <= db.samples BY FeedIs DEF NothingAhead
    <3>. QED BY <3>1, <3>2, <3>3, <3>4 DEF SameFrames
  <2>. QED BY <2>1, FeedIs DEF NothingAhead, SameFrames
<1>4. ExpiredIsGone' BY FeedIs DEF ExpiredIsGone, SameFrames
<1>5. NothingBeforehand' BY FeedIs DEF NothingBeforehand
<1>6. FramesFit' BY FramesStay DEF FramesFit, Following
<1>. QED BY <1>1, <1>2, <1>3, <1>4, <1>5, <1>6 DEF FeedInv
(***************************************************************************)
(* The sources, and the steps that send nothing                            *)
(***************************************************************************)
LEMMA PrintIs == ASSUME FeedInv PROVE Fingerprint \in Prints /\ WithoutMark \in Prints
BY FeedIs DEF Fingerprint, WithoutMark, Prints
LEMMA SourceKeeps ==
  ASSUME FeedInv, SourceMoves, db' \in [rows : RowTypes, uploads : Nat, samples : Nat], db.samples <= db'.samples, session' = session
  PROVE  FeedInv'
<1>1. UNCHANGED <<hub, subs, ticker, sub, box, browser, told, runs, conn>> BY DEF SourceMoves, HubUnchanged, SubsUnchanged, BrowserUnchanged
<1>2. FeedTypes' BY <1>1, FeedIs DEF FeedTypes, SourceTypes, HubTypes, PageTypes
<1>3. ASSUME NEW c \in Conns
      PROVE runs'[c].jobsGen <= hub'.jobsGen /\ runs'[c].uploadsGen <= hub'.uploadsGen /\ runs'[c].samples <= db'.samples
  <2>1. runs[c].samples \in Nat /\ db.samples \in Nat /\ db'.samples \in Nat BY FeedIs DEF Running, Reading
  <2>. QED BY <1>1, <2>1, FeedIs DEF NothingAhead
<1>4. hub.jobsGen \in Nat /\ hub.uploadsGen \in Nat BY FeedIs
<1>. QED BY <1>1, <1>2, <1>3, <1>4, QuietKeeps DEF SameFrames
LEMMA JobChangesKeeps == ASSUME FeedInv, NEW r \in Rows, JobChanges(r) PROVE FeedInv'
<1>1. SourceMoves /\ session' = session /\ db' = [db EXCEPT !.rows[r] = @ + 1] BY DEF JobChanges
<1>2. [db.rows EXCEPT ![r] = @ + 1] \in RowTypes BY FeedIs DEF RowTypes
<1>3. db' = [db EXCEPT !.rows = [db.rows EXCEPT ![r] = @ + 1]] BY <1>1, FeedIs
<1>4. db' \in [rows : RowTypes, uploads : Nat, samples : Nat] /\ db'.samples = db.samples /\ db.samples \in Nat BY <1>2, <1>3, FeedIs
<1>. QED BY <1>1, <1>4, SourceKeeps
LEMMA CountsKeep == ASSUME FeedInv, UploadRecorded \/ SampleTaken PROVE FeedInv'
<1>1. SourceMoves /\ session' = session /\ (db' = [db EXCEPT !.uploads = @ + 1] \/ db' = [db EXCEPT !.samples = @ + 1])
BY DEF UploadRecorded, SampleTaken
<1>2. db' \in [rows : RowTypes, uploads : Nat, samples : Nat] /\ db.samples <= db'.samples
  <2>1. db \in [rows : RowTypes, uploads : Nat, samples : Nat] /\ db.uploads \in Nat /\ db.samples \in Nat BY FeedIs
  <2>2. PICK u, n : u = db.uploads + 1 /\ n = db.samples + 1 /\ u \in Nat /\ n \in Nat /\ db.samples <= n BY <2>1
  <2>3. CASE db' = [db EXCEPT !.uploads = u] BY <2>1, <2>2, <2>3
  <2>4. CASE db' = [db EXCEPT !.samples = n] BY <2>1, <2>2, <2>4
  <2>. QED BY <1>1, <2>2, <2>3, <2>4
<1>. QED BY <1>1, <1>2, SourceKeeps
\* A reader of the database, a connection that is not open yet, or the page by itself.
LEMMA ReadersKeep ==
  ASSUME FeedInv, UNCHANGED <<db, session, subs, ticker, box>>, hub' \in [jobsGen : Nat, uploadsGen : Nat, known : BOOLEAN, fp : Prints, covers : SUBSET Conns],
         hub.jobsGen <= hub'.jobsGen, hub.uploadsGen <= hub'.uploadsGen,
         runs' \in [Conns -> Running], conn' \in [Conns -> Handling], sub' \in [Conns -> Subscribers],
         browser' \in [conn : Conns \cup {0}, rows : RowTypes, samples : Seq(Nat), search : Payloads],
         browser'.conn = browser.conn, browser'.search = browser.search, browser'.samples = browser.samples,
         \A c \in Conns : /\ runs'[c].jobsGen = runs[c].jobsGen \/ runs'[c].jobsGen <= hub.jobsGen
                          /\ runs'[c].uploadsGen = runs[c].uploadsGen \/ runs'[c].uploadsGen <= hub.uploadsGen
                          /\ runs'[c].samples = runs[c].samples \/ runs'[c].samples <= db.samples,
         \A c \in Conns : \/ conn'[c] = conn[c]
                          \/ conn[c].at \notin {"insert", "open"} /\ conn'[c].at \notin {"insert", "open"},
         \A c \in Conns : \/ sub'[c] = sub[c]
                          \/ \E w \in BOOLEAN : sub'[c] = [sub[c] EXCEPT !.waited = w]
  PROVE  FeedInv'
<1>1. FeedTypes' BY FeedIs DEF FeedTypes, SourceTypes, HubTypes, PageTypes
<1>2. ASSUME NEW c \in Conns
      PROVE runs'[c].jobsGen <= hub'.jobsGen /\ runs'[c].uploadsGen <= hub'.uploadsGen /\ runs'[c].samples <= db'.samples
  <2>1. runs'[c].jobsGen \in Nat /\ runs'[c].uploadsGen \in Nat /\ runs'[c].samples \in Nat BY DEF Running, Reading
  <2>2. hub.jobsGen \in Nat /\ hub.uploadsGen \in Nat /\ db.samples \in Nat BY FeedIs
  <2>3. runs'[c].jobsGen <= hub.jobsGen /\ runs'[c].uploadsGen <= hub.uploadsGen /\ runs'[c].samples <= db.samples BY FeedIs DEF NothingAhead
  <2>. QED BY <2>1, <2>2, <2>3
<1>3. db.samples <= db'.samples BY FeedIs
<1>4. ASSUME NEW c \in Conns
      PROVE  /\ sub'[c].sample = sub[c].sample /\ sub'[c].seq = sub[c].seq /\ sub'[c].done = sub[c].done /\ sub'[c].truncated = sub[c].truncated
             /\ sub'[c].jobsGen = sub[c].jobsGen /\ sub'[c].uploadsGen = sub[c].uploadsGen
  <2>1. sub[c] \in Subscribers BY FeedIs
  <2>2. ASSUME NEW w \in BOOLEAN, sub'[c] = [sub[c] EXCEPT !.waited = w]
        PROVE  /\ sub'[c].sample = sub[c].sample /\ sub'[c].seq = sub[c].seq /\ sub'[c].done = sub[c].done /\ sub'[c].truncated = sub[c].truncated
               /\ sub'[c].jobsGen = sub[c].jobsGen /\ sub'[c].uploadsGen = sub[c].uploadsGen
    BY <2>1, <2>2 DEF Subscribers
  <2>3. CASE sub'[c] = sub[c] BY <2>3
  <2>. QED BY <2>2, <2>3
<1>5. \A c \in Conns : SameFrames(c) BY <1>4 DEF SameFrames
<1>6. \A c \in Conns : (conn'[c].at = "open" <=> conn[c].at = "open") /\ (conn'[c].at = "insert" <=> conn[c].at = "insert") OBVIOUS
<1>. QED BY <1>1, <1>2, <1>3, <1>4, <1>5, <1>6, QuietKeeps
LEMMA ReadIs ==
  ASSUME FeedInv, NEW r \in Handling \cup Running, NEW at \in {"stored", "refresh"}, NEW covers \in SUBSET Conns, NEW read \in Read(r, at, covers)
  PROVE  /\ at = "stored" /\ r \in Handling => read.is \in Handling
         /\ at = "refresh" /\ r \in Running => read.is \in Running
         /\ read.is.at = at /\ read.is.jobsGen = r.jobsGen /\ read.is.uploadsGen = r.uploadsGen /\ read.is.samples = r.samples
<1>1. PICK fp \in Prints : read.is = [r EXCEPT !.at = at, !.fp = fp, !.covers = covers]
  <2>1. Fingerprint \in Prints /\ WithoutMark \in Prints BY PrintIs
  <2>2. \/ read = [fault |-> FALSE, is |-> [r EXCEPT !.at = at, !.fp = Fingerprint, !.covers = covers]]
        \/ read = [fault |-> TRUE, is |-> [r EXCEPT !.at = at, !.fp = WithoutMark, !.covers = covers]]
    BY DEF Read
  <2>3. \/ read.is = [r EXCEPT !.at = at, !.fp = Fingerprint, !.covers = covers]
        \/ read.is = [r EXCEPT !.at = at, !.fp = WithoutMark, !.covers = covers]
    BY <2>2
  <2>. QED BY <2>1, <2>3
<1>2. /\ r \in Handling => [r EXCEPT !.at = "stored", !.fp = fp, !.covers = covers] \in Handling
      /\ r \in Running => [r EXCEPT !.at = "refresh", !.fp = fp, !.covers = covers] \in Running
BY DEF Handling, Running, Reading
<1>3. /\ read.is.at = at /\ read.is.jobsGen = r.jobsGen /\ read.is.uploadsGen = r.uploadsGen /\ read.is.samples = r.samples
BY <1>1 DEF Handling, Running, Reading
<1>. QED BY <1>1, <1>2, <1>3
LEMMA SubscribeReadsKeeps == ASSUME FeedInv, NEW c \in Conns, SubscribeReads(c) PROVE FeedInv'
<1>1. /\ conn[c].at = "opening" /\ UNCHANGED <<db, session, hub, subs, ticker, box, sub, runs, browser>>
BY DEF SubscribeReads, SourcesUnchanged, HubUnchanged, SubsUnchanged, BrowserUnchanged
<1>2. conn[c] \in Handling /\ subs \cup {c} \subseteq Conns /\ hub.jobsGen \in Nat /\ hub.uploadsGen \in Nat BY FeedIs
<1>3. PICK x \in Handling : conn' = [conn EXCEPT ![c] = x] /\ x.at \in {"stored", "kept"}
  <2>1. PICK read \in Read(conn[c], "stored", subs \cup {c}) \cup {[fault |-> TRUE, is |-> [conn[c] EXCEPT !.at = "kept"]]} :
          conn' = [conn EXCEPT ![c] = read.is]
    BY DEF SubscribeReads, ScopedJobIDs
  <2>2. CASE read \in Read(conn[c], "stored", subs \cup {c})
    <3>1. read.is \in Handling /\ read.is.at = "stored" BY <1>2, <2>2, ReadIs
    <3>. QED BY <2>1, <3>1
  <2>3. CASE read = [fault |-> TRUE, is |-> [conn[c] EXCEPT !.at = "kept"]]
    <3>1. [conn[c] EXCEPT !.at = "kept"] \in Handling /\ [conn[c] EXCEPT !.at = "kept"].at = "kept" BY <1>2 DEF Handling, Reading
    <3>. QED BY <2>1, <2>3, <3>1
  <2>. QED BY <2>1, <2>2, <2>3
<1>4. conn' \in [Conns -> Handling] /\ conn'[c].at \notin {"insert", "open"} /\ \A d \in Conns \ {c} : conn'[d] = conn[d] BY <1>3, FeedIs
<1>. QED BY <1>1, <1>2, <1>4, ReadersKeep, FeedIs
LEMMA StoredIs ==
  ASSUME FeedInv, NEW r \in Handling \cup Running, hub' = Stored(r.fp, r.covers)
  PROVE  /\ hub' \in [jobsGen : Nat, uploadsGen : Nat, known : BOOLEAN, fp : Prints, covers : SUBSET Conns]
         /\ hub.jobsGen <= hub'.jobsGen /\ hub.uploadsGen <= hub'.uploadsGen
<1>1. r.fp \in Prints /\ r.covers \subseteq Conns BY DEF Handling, Running, Reading
<1>2. hub.jobsGen \in Nat /\ hub.uploadsGen \in Nat BY FeedIs
<1>3. PICK j, u : /\ j = (IF hub.known /\ r.fp.rows # hub.fp.rows THEN hub.jobsGen + 1 ELSE hub.jobsGen)
                  /\ u = (IF hub.known /\ r.fp.uploads # hub.fp.uploads THEN hub.uploadsGen + 1 ELSE hub.uploadsGen)
OBVIOUS
<1>4. hub' = [known |-> TRUE, fp |-> r.fp, covers |-> r.covers, jobsGen |-> j, uploadsGen |-> u] BY <1>3 DEF Stored
<1>5. j \in Nat /\ u \in Nat /\ hub.jobsGen <= j /\ hub.uploadsGen <= u BY <1>2, <1>3
<1>. QED BY <1>1, <1>4, <1>5
LEMMA SubscribeStoresKeeps == ASSUME FeedInv, NEW c \in Conns, SubscribeStores(c) PROVE FeedInv'
<1>1. /\ conn[c].at \in {"stored", "kept"} /\ conn' = [conn EXCEPT ![c] = [NoRead EXCEPT !.at = "snapshot"]]
      /\ UNCHANGED <<db, session, subs, ticker, box, sub, runs, browser>>
      /\ hub' = hub \/ hub' = Stored(conn[c].fp, conn[c].covers)
BY DEF SubscribeStores, SourcesUnchanged, SubsUnchanged, Store
<1>2. conn[c] \in Handling /\ hub.jobsGen \in Nat /\ hub.uploadsGen \in Nat BY FeedIs
<1>3. /\ hub' \in [jobsGen : Nat, uploadsGen : Nat, known : BOOLEAN, fp : Prints, covers : SUBSET Conns]
      /\ hub.jobsGen <= hub'.jobsGen /\ hub.uploadsGen <= hub'.uploadsGen
BY <1>1, <1>2, StoredIs, FeedIs
<1>4. [NoRead EXCEPT !.at = "snapshot"] \in Handling /\ [NoRead EXCEPT !.at = "snapshot"].at = "snapshot"
BY ConstantsAre DEF Handling, Reading
<1>5. conn' \in [Conns -> Handling] /\ conn'[c].at \notin {"insert", "open"} /\ \A d \in Conns \ {c} : conn'[d] = conn[d]
BY <1>1, <1>4, FeedIs
<1>. QED BY <1>1, <1>3, <1>5, ReadersKeep, FeedIs
LEMMA CorrelationReadsKeeps == ASSUME FeedInv, NEW k \in Conns, CorrelationReads(k) PROVE FeedInv'
<1>1. UNCHANGED <<db, session, hub, subs, ticker, box, sub, conn, browser>>
BY DEF CorrelationReads, SourcesUnchanged, HubUnchanged, SubsUnchanged, BrowserUnchanged
<1>2. NoRead \in Running /\ NoRead.jobsGen = 0 /\ NoRead.uploadsGen = 0 /\ NoRead.samples = 0 BY ConstantsAre DEF NoRead
<1>3. hub.jobsGen \in Nat /\ hub.uploadsGen \in Nat /\ db.samples \in Nat /\ subs \subseteq Conns BY FeedIs
<1>4. PICK read \in Read(NoRead, "refresh", subs \cup {}) : runs' = [runs EXCEPT ![k] = read.is] BY DEF CorrelationReads, ScopedJobIDs
<1>5. read.is \in Running /\ read.is.jobsGen = 0 /\ read.is.uploadsGen = 0 /\ read.is.samples = 0 BY <1>2, <1>3, <1>4, ReadIs
<1>6. runs' \in [Conns -> Running] /\ runs'[k] = read.is /\ \A c \in Conns \ {k} : runs'[c] = runs[c] BY <1>4, <1>5, FeedIs
<1>7. ASSUME NEW c \in Conns
      PROVE  /\ runs'[c].jobsGen = runs[c].jobsGen \/ runs'[c].jobsGen <= hub.jobsGen
             /\ runs'[c].uploadsGen = runs[c].uploadsGen \/ runs'[c].uploadsGen <= hub.uploadsGen
             /\ runs'[c].samples = runs[c].samples \/ runs'[c].samples <= db.samples
BY <1>3, <1>5, <1>6
<1>8. hub.jobsGen <= hub'.jobsGen /\ hub.uploadsGen <= hub'.uploadsGen BY <1>1, <1>3
<1>. QED BY <1>1, <1>6, <1>7, <1>8, ReadersKeep, FeedIs
LEMMA CorrelationStoresKeeps == ASSUME FeedInv, NEW k \in Conns, CorrelationStores(k) PROVE FeedInv'
<1>1. /\ runs' = [runs EXCEPT ![k] = NoRead] /\ UNCHANGED <<db, session, subs, ticker, box, sub, conn, browser>>
      /\ hub' = hub \/ hub' = Stored(runs[k].fp, runs[k].covers)
BY DEF CorrelationStores, SourcesUnchanged, SubsUnchanged, Store
<1>2. NoRead \in Running /\ NoRead.jobsGen = 0 /\ NoRead.uploadsGen = 0 /\ NoRead.samples = 0 BY ConstantsAre DEF NoRead
<1>3. hub.jobsGen \in Nat /\ hub.uploadsGen \in Nat /\ db.samples \in Nat /\ runs[k] \in Running BY FeedIs
<1>4. /\ hub' \in [jobsGen : Nat, uploadsGen : Nat, known : BOOLEAN, fp : Prints, covers : SUBSET Conns]
      /\ hub.jobsGen <= hub'.jobsGen /\ hub.uploadsGen <= hub'.uploadsGen
BY <1>1, <1>3, StoredIs, FeedIs
<1>5. runs' \in [Conns -> Running] /\ runs'[k] = NoRead /\ \A c \in Conns \ {k} : runs'[c] = runs[c] BY <1>1, <1>2, FeedIs
<1>6. ASSUME NEW c \in Conns
      PROVE  /\ runs'[c].jobsGen = runs[c].jobsGen \/ runs'[c].jobsGen <= hub.jobsGen
             /\ runs'[c].uploadsGen = runs[c].uploadsGen \/ runs'[c].uploadsGen <= hub.uploadsGen
             /\ runs'[c].samples = runs[c].samples \/ runs'[c].samples <= db.samples
BY <1>2, <1>3, <1>5
<1>. QED BY <1>1, <1>4, <1>5, <1>6, ReadersKeep, FeedIs
LEMMA TickReadsKeeps == ASSUME FeedInv, NEW k \in Conns, TickReads(k) PROVE FeedInv'
<1>1. UNCHANGED <<db, session, hub, subs, ticker, box, sub, conn, browser>>
BY DEF TickReads, SourcesUnchanged, HubUnchanged, SubsUnchanged, BrowserUnchanged
<1>2. hub.jobsGen \in Nat /\ hub.uploadsGen \in Nat /\ db.samples \in Nat /\ hub.fp \in Prints /\ hub.covers \subseteq Conns BY FeedIs
<1>3. PICK n \in {db.samples, 0} :
        runs' = [runs EXCEPT ![k] = [at |-> "tick", fp |-> hub.fp, covers |-> hub.covers, jobsGen |-> hub.jobsGen, uploadsGen |-> hub.uploadsGen, samples |-> n]]
BY DEF TickReads
<1>4. PICK x : x = [at |-> "tick", fp |-> hub.fp, covers |-> hub.covers, jobsGen |-> hub.jobsGen, uploadsGen |-> hub.uploadsGen, samples |-> n] OBVIOUS
<1>5. x \in Running /\ x.jobsGen = hub.jobsGen /\ x.uploadsGen = hub.uploadsGen /\ x.samples <= db.samples BY <1>2, <1>3, <1>4 DEF Running, Reading
<1>6. runs' \in [Conns -> Running] /\ runs'[k] = x /\ \A c \in Conns \ {k} : runs'[c] = runs[c] BY <1>3, <1>4, <1>5, FeedIs
<1>7. ASSUME NEW c \in Conns
      PROVE  /\ runs'[c].jobsGen = runs[c].jobsGen \/ runs'[c].jobsGen <= hub.jobsGen
             /\ runs'[c].uploadsGen = runs[c].uploadsGen \/ runs'[c].uploadsGen <= hub.uploadsGen
             /\ runs'[c].samples = runs[c].samples \/ runs'[c].samples <= db.samples
BY <1>2, <1>5, <1>6
<1>8. hub.jobsGen <= hub'.jobsGen /\ hub.uploadsGen <= hub'.uploadsGen BY <1>1, <1>2
<1>. QED BY <1>1, <1>6, <1>7, <1>8, ReadersKeep, FeedIs
LEMMA IntervalKeeps == ASSUME FeedInv, NEW c \in Conns, IntervalPasses(c) PROVE FeedInv'
<1>1. /\ sub' = [sub EXCEPT ![c].waited = TRUE]
      /\ UNCHANGED <<db, session, hub, subs, ticker, box, runs, conn, browser>>
BY DEF IntervalPasses, SourcesUnchanged, HubUnchanged, BrowserUnchanged
<1>2. [sub[c] EXCEPT !.waited = TRUE] \in Subscribers BY ZenonT(60), FeedIs DEF Subscribers
<1>3. sub' \in [Conns -> Subscribers] /\ sub'[c] = [sub[c] EXCEPT !.waited = TRUE] /\ \A d \in Conns \ {c} : sub'[d] = sub[d] BY <1>1, <1>2, FeedIs
<1>4. hub.jobsGen \in Nat /\ hub.uploadsGen \in Nat /\ db.samples \in Nat BY FeedIs
<1>5. hub.jobsGen <= hub'.jobsGen /\ hub.uploadsGen <= hub'.uploadsGen BY <1>1, <1>4
<1>. QED BY <1>1, <1>3, <1>5, ReadersKeep, FeedIs
(***************************************************************************)
(* The search session, and connections that come and go                    *)
(***************************************************************************)
\* A session moves on: what it had stays, and what is new is newer than whatever was sent.
LEMMA SessionKeeps ==
  ASSUME FeedInv, SourceMoves, db' = db,
         session' \in [seq : Nat, groups : [Groups -> Nat], done : BOOLEAN, truncated : BOOLEAN, gone : BOOLEAN],
         SessionIsWhole', session.seq <= session'.seq, session.gone => session'.gone, session.truncated => session'.truncated,
         session.done => session'.done /\ session'.seq = session.seq /\ session'.truncated = session.truncated,
         \A g \in Groups : session'.groups[g] = session.groups[g] \/ session.seq < session'.groups[g]
  PROVE  FeedInv'
<1>1. UNCHANGED <<hub, subs, ticker, sub, box, browser, told, runs, conn>> BY DEF SourceMoves, HubUnchanged, SubsUnchanged, BrowserUnchanged
<1>2. FeedTypes' BY <1>1, FeedIs DEF FeedTypes, SourceTypes, HubTypes, PageTypes
<1>3. SubsAreOpen' /\ NothingBeforehand' BY <1>1, FeedIs DEF SubsAreOpen, NothingBeforehand
<1>4. \A c \in Conns : sub[c].seq \in Nat /\ session.seq \in Nat /\ session'.seq \in Nat /\ sub[c].seq <= session.seq
BY FeedIs DEF NothingAhead, Subscribers
<1>5. \A c \in Conns : sub[c].seq <= session'.seq BY <1>4
<1>6. NothingAhead' BY <1>1, <1>5, FeedIs DEF NothingAhead
<1>7. ExpiredIsGone' BY <1>1, FeedIs DEF ExpiredIsGone
<1>8. ASSUME NEW c \in Conns, Following(c) PROVE SearchFits(c)' /\ SamplesFit(c)'
  <2>1. SearchFits(c) /\ SamplesFit(c) BY <1>8, FeedIs DEF FramesFit
  <2>2. SamplesFit(c)' BY <1>1, <2>1 DEF SamplesFit
  <2>3. Merged(c)' = Merged(c) BY <1>1 DEF Merged, MergeSearchGroups
  <2>4. \A g \in Groups : session.groups[g] \in Nat /\ session'.groups[g] \in Nat BY FeedIs
  <2>5. \A g \in Groups : session'.groups[g] <= sub[c].seq => session'.groups[g] = session.groups[g] BY <1>4, <2>4
  <2>6. SearchFits(c)' BY <1>1, <2>1, <2>3, <2>5 DEF SearchFits
  <2>. QED BY <2>2, <2>6
<1>9. FramesFit' BY <1>1, <1>8 DEF FramesFit, Following
<1>. QED BY <1>2, <1>3, <1>6, <1>7, <1>9 DEF FeedInv
LEMMA SessionAcceptsKeeps == ASSUME FeedInv, NEW gs \in SUBSET Groups, SessionAccepts(gs) PROVE FeedInv'
<1>1. ~session.done /\ db' = db /\ SourceMoves BY DEF SessionAccepts
<1>2. session \in [seq : Nat, groups : [Groups -> Nat], done : BOOLEAN, truncated : BOOLEAN, gone : BOOLEAN] /\ SessionIsWhole BY FeedIs
<1>3. CASE session' = [session EXCEPT !.truncated = TRUE]
  <2>1. /\ session' \in [seq : Nat, groups : [Groups -> Nat], done : BOOLEAN, truncated : BOOLEAN, gone : BOOLEAN]
        /\ session'.seq = session.seq /\ session'.groups = session.groups /\ session'.gone = session.gone /\ session'.done = session.done
        /\ session'.truncated
    BY <1>2, <1>3
  <2>2. SessionIsWhole' BY <1>2, <2>1 DEF SessionIsWhole
  <2>3. session.seq <= session'.seq BY <1>2, <2>1
  <2>. QED BY <1>1, <2>1, <2>2, <2>3, SessionKeeps
<1>4. CASE session' = [session EXCEPT !.seq = @ + 1, !.groups = [g \in Groups |-> IF g \in gs THEN session.seq + 1 ELSE @[g]]]
  <2>1. PICK n : n = [g \in Groups |-> IF g \in gs THEN session.seq + 1 ELSE session.groups[g]] OBVIOUS
  <2>2. n \in [Groups -> Nat] BY <1>2, <2>1
  <2>3. session' = [session EXCEPT !.seq = @ + 1, !.groups = n] BY <1>4, <2>1
  <2>4. /\ session' \in [seq : Nat, groups : [Groups -> Nat], done : BOOLEAN, truncated : BOOLEAN, gone : BOOLEAN]
        /\ session'.seq = session.seq + 1 /\ session'.groups = n /\ session'.gone = session.gone /\ session'.done = session.done
        /\ session'.truncated = session.truncated
    <3>1. [session EXCEPT !.seq = @ + 1, !.groups = n] = [[session EXCEPT !.seq = @ + 1] EXCEPT !.groups = n] BY <1>2
    <3>2. [session EXCEPT !.seq = @ + 1] \in [seq : Nat, groups : [Groups -> Nat], done : BOOLEAN, truncated : BOOLEAN, gone : BOOLEAN]
      BY <1>2
    <3>. QED BY <1>2, <2>2, <2>3, <3>1, <3>2
  <2>5. \A g \in Groups : n[g] <= session.seq + 1 /\ (n[g] = session.groups[g] \/ session.seq < n[g])
    <3>1. \A g \in Groups : session.groups[g] <= session.seq /\ session.groups[g] \in Nat /\ session.seq \in Nat BY <1>2 DEF SessionIsWhole
    <3>. QED BY <2>1, <3>1
  <2>6. SessionIsWhole' BY <1>2, <2>4, <2>5 DEF SessionIsWhole
  <2>7. session.seq <= session'.seq BY <1>2, <2>4
  <2>. QED BY <1>1, <2>4, <2>5, <2>6, <2>7, SessionKeeps
<1>. QED BY <1>3, <1>4 DEF SessionAccepts
LEMMA SessionEndsKeep == ASSUME FeedInv, SessionFinishes \/ SessionExpires PROVE FeedInv'
<1>1. db' = db /\ SourceMoves BY DEF SessionFinishes, SessionExpires
<1>2. session \in [seq : Nat, groups : [Groups -> Nat], done : BOOLEAN, truncated : BOOLEAN, gone : BOOLEAN] /\ SessionIsWhole BY FeedIs
<1>3. /\ session' \in [seq : Nat, groups : [Groups -> Nat], done : BOOLEAN, truncated : BOOLEAN, gone : BOOLEAN]
      /\ session'.seq = session.seq /\ session'.groups = session.groups /\ session'.truncated = session.truncated
      /\ (session.gone => session'.gone) /\ (session.done => session'.done) /\ (session'.gone => session'.done)
  <2>1. CASE SessionFinishes BY <1>2, <2>1 DEF SessionFinishes
  <2>2. CASE SessionExpires BY <1>2, <2>2 DEF SessionExpires
  <2>. QED BY <2>1, <2>2
<1>4. SessionIsWhole' BY <1>2, <1>3 DEF SessionIsWhole
<1>5. session.seq <= session'.seq BY <1>2, <1>3
<1>. QED BY <1>1, <1>3, <1>4, <1>5, SessionKeeps
LEMMA OpenKeeps == ASSUME FeedInv, NEW c \in Conns, Open(c) PROVE FeedInv'
<1>1. /\ conn[c].at = "closed" /\ conn' = [conn EXCEPT ![c].at = "opening"]
      /\ browser' = [browser EXCEPT !.conn = c, !.rows = Zero, !.samples = <<>>, !.search = NoPayload]
      /\ UNCHANGED <<db, session, hub, subs, ticker, sub, box, runs>>
BY DEF Open, SourcesUnchanged, HubUnchanged, SubsUnchanged
<1>2. /\ browser' \in [conn : Conns \cup {0}, rows : RowTypes, samples : Seq(Nat), search : Payloads]
      /\ browser'.conn = c /\ browser'.search = NoPayload /\ browser'.samples = <<>>
BY <1>1, ConstantsAre, NothingRises, FeedIs
<1>3. [conn[c] EXCEPT !.at = "opening"] \in Handling /\ [conn[c] EXCEPT !.at = "opening"].at = "opening"
  <2>1. conn[c] \in Handling BY FeedIs
  <2>. QED BY <2>1 DEF Handling, Reading
<1>4. conn' \in [Conns -> Handling] /\ conn'[c].at = "opening" /\ \A d \in Conns \ {c} : conn'[d] = conn[d] BY <1>1, <1>3, FeedIs
<1>5. FeedTypes' BY <1>1, <1>2, <1>4, FeedIs DEF FeedTypes, SourceTypes, HubTypes, PageTypes
<1>6. SessionIsWhole' /\ NothingAhead' BY <1>1, FeedIs DEF SessionIsWhole, NothingAhead
<1>7. SubsAreOpen' BY <1>1, <1>4, FeedIs DEF SubsAreOpen
<1>8. ExpiredIsGone' BY <1>1, <1>2, FeedIs DEF ExpiredIsGone, NoPayload
<1>9. NothingBeforehand' BY <1>2 DEF NothingBeforehand
<1>10. FramesFit' BY <1>2, <1>4 DEF FramesFit, Following
<1>. QED BY <1>5, <1>6, <1>7, <1>8, <1>9, <1>10 DEF FeedInv
LEMMA PayloadIs ==
  ASSUME FeedInv, NEW since \in Nat
  PROVE  /\ SearchPayload(since) \in Payloads /\ SearchPayload(since).sent /\ (SearchPayload(since).expired <=> session.gone)
         /\ ~session.gone => /\ SearchPayload(since).done = session.done /\ SearchPayload(since).truncated = session.truncated
                             /\ SearchPayload(since).groups = Delta(since)
         /\ Delta(since) \in [Groups -> Nat]
<1>1. session \in [seq : Nat, groups : [Groups -> Nat], done : BOOLEAN, truncated : BOOLEAN, gone : BOOLEAN] BY FeedIs
<1>2. Delta(since) \in [Groups -> Nat] BY <1>1 DEF Delta
<1>3. CASE session.gone
  <2>1. SearchPayload(since) = [NoPayload EXCEPT !.sent = TRUE, !.expired = TRUE] BY <1>3 DEF SearchPayload
  <2>. QED BY <1>2, <1>3, <2>1, ConstantsAre DEF Payloads, NoPayload
<1>4. CASE ~session.gone
  <2>1. SearchPayload(since) = [sent |-> TRUE, groups |-> Delta(since), done |-> session.done, truncated |-> session.truncated, expired |-> FALSE]
    BY <1>4 DEF SearchPayload
  <2>. QED BY <1>1, <1>2, <1>4, <2>1 DEF Payloads
<1>. QED BY <1>3, <1>4
LEMMA FirstSamples ==
  ASSUME NEW n \in Nat
  PROVE  /\ [i \in 1 .. n |-> i] \in Seq(Nat) /\ Rises([i \in 1 .. n |-> i]) /\ Range([i \in 1 .. n |-> i]) = 1 .. n
<1>1. [i \in 1 .. n |-> i] \in Seq(Nat) BY IsASeq
<1>. QED BY <1>1 DEF Rises, Range
LEMMA SubscribeSnapshotsKeeps == ASSUME FeedInv, NEW c \in Conns, SubscribeSnapshots(c) PROVE FeedInv'
<1>1. PICK rows : rows = IF c \in hub.covers THEN hub.fp.rows ELSE Zero OBVIOUS
<1>2. PICK x, y :
        /\ x = [rows |-> rows, jobsGen |-> hub.jobsGen, uploadsGen |-> hub.uploadsGen, waited |-> FALSE, sample |-> db.samples,
                seq |-> session.seq, done |-> session.done, truncated |-> session.truncated, expired |-> session.gone]
        /\ y = [live |-> rows, flags |-> {}, samples |-> [i \in 1 .. db.samples |-> i], search |-> SearchPayload(0)]
OBVIOUS
<1>3. /\ conn[c].at = "snapshot" /\ conn' = [conn EXCEPT ![c].at = "insert"] /\ sub' = [sub EXCEPT ![c] = x] /\ box' = [box EXCEPT ![c] = y]
      /\ UNCHANGED <<db, session, hub, subs, ticker, runs, browser>>
BY <1>1, <1>2 DEF SubscribeSnapshots, SourcesUnchanged, HubUnchanged
<1>4. rows \in RowTypes BY <1>1, ConstantsAre, FeedIs DEF Prints
<1>5. /\ db \in [rows : RowTypes, uploads : Nat, samples : Nat] /\ SessionIsWhole
      /\ session \in [seq : Nat, groups : [Groups -> Nat], done : BOOLEAN, truncated : BOOLEAN, gone : BOOLEAN]
      /\ hub.jobsGen \in Nat /\ hub.uploadsGen \in Nat
BY FeedIs
<1>6. x \in Subscribers BY <1>2, <1>4, <1>5 DEF Subscribers
<1>7. y \in Boxes BY <1>2, <1>4, <1>5, PayloadIs, FirstSamples DEF Boxes
<1>8. sub' \in [Conns -> Subscribers] /\ sub'[c] = x /\ \A d \in Conns \ {c} : sub'[d] = sub[d] BY <1>3, <1>6, FeedIs
<1>9. box' \in [Conns -> Boxes] /\ box'[c] = y /\ \A d \in Conns \ {c} : box'[d] = box[d] BY <1>3, <1>7, FeedIs
<1>10. [conn[c] EXCEPT !.at = "insert"] \in Handling /\ [conn[c] EXCEPT !.at = "insert"].at = "insert"
  <2>1. conn[c] \in Handling BY FeedIs
  <2>. QED BY <2>1 DEF Handling, Reading
<1>11. conn' \in [Conns -> Handling] /\ conn'[c].at = "insert" /\ \A d \in Conns \ {c} : conn'[d] = conn[d] BY <1>3, <1>10, FeedIs
<1>12. FeedTypes' BY <1>3, <1>8, <1>9, <1>11, FeedIs DEF FeedTypes, SourceTypes, HubTypes, PageTypes
<1>13. SessionIsWhole' BY <1>3, FeedIs DEF SessionIsWhole
<1>14. SubsAreOpen' BY <1>3, <1>11, FeedIs DEF SubsAreOpen
<1>15. NothingAhead'
  <2>1. x.jobsGen <= hub.jobsGen /\ x.uploadsGen <= hub.uploadsGen /\ x.sample <= db.samples /\ x.seq <= session.seq BY <1>2, <1>5
  <2>. QED BY <1>3, <1>8, <2>1, FeedIs DEF NothingAhead
<1>16. ExpiredIsGone'
  <2>1. y.search.sent /\ (y.search.expired => session.gone) BY <1>2, PayloadIs
  <2>. QED BY <1>3, <1>9, <2>1, FeedIs DEF ExpiredIsGone
<1>17. NothingBeforehand' BY <1>3, FeedIs DEF NothingBeforehand
<1>18. ASSUME browser.conn = c PROVE SearchFits(c)' /\ SamplesFit(c)'
  <2>1. browser.search = NoPayload /\ browser.samples = <<>> BY <1>3, <1>18, FeedIs DEF SubsAreOpen, NothingBeforehand
  <2>2. SamplesFit(c)'
    <3>1. box'[c].samples = [i \in 1 .. db.samples |-> i] /\ sub'[c].sample = db.samples /\ browser'.samples = <<>>
      BY <1>2, <1>3, <1>8, <1>9, <2>1
    <3>2. Range(box'[c].samples) = 1 .. db.samples /\ Rises(box'[c].samples) BY <1>5, <3>1, FirstSamples
    <3>3. \A n \in {} \cup (1 .. db.samples) : n <= db.samples BY <1>5
    <3>4. \A n \in 1 .. db.samples : n \in {} \cup (1 .. db.samples) OBVIOUS
    <3>5. Range(browser'.samples) = {} /\ Rises(browser'.samples) /\ Before(browser'.samples, box'[c].samples) BY <3>1, NothingRises
    <3>. QED BY <3>1, <3>2, <3>3, <3>4, <3>5 DEF SamplesFit
  <2>3. ASSUME ~session.gone PROVE SearchFits(c)'
    <3>1. /\ sub'[c].seq = session.seq /\ sub'[c].done = session.done /\ sub'[c].truncated = session.truncated
          /\ box'[c].search = SearchPayload(0)
      BY <1>2, <1>8, <1>9
    <3>2. box'[c].search.done = session.done /\ box'[c].search.truncated = session.truncated /\ box'[c].search.groups = Delta(0)
      BY <2>3, <3>1, PayloadIs
    <3>3. browser.search.groups = NoGroups /\ browser.search.done = FALSE /\ browser.search.truncated = FALSE BY <2>1 DEF NoPayload
    <3>4. \A g \in Groups : Delta(0)[g] = session.groups[g] BY <1>5 DEF Delta
    <3>5. \A g \in Groups : Merged(c)'[g] = session.groups[g] BY <1>3, <3>2, <3>3, <3>4 DEF Merged, MergeSearchGroups, NoGroups
    <3>. QED BY <1>3, <3>1, <3>2, <3>3, <3>5 DEF SearchFits
  <2>4. ASSUME session.gone PROVE SearchFits(c)' BY <1>3, <2>4 DEF SearchFits
  <2>. QED BY <2>2, <2>3, <2>4
<1>19. FramesFit'
  <2>1. ASSUME NEW d \in Conns \ {c}, Following(d)' PROVE SearchFits(d)' /\ SamplesFit(d)'
    BY <1>3, <1>8, <1>9, <1>11, <2>1, FramesStay DEF Following, SameFrames
  <2>. QED BY <1>3, <1>18, <2>1 DEF FramesFit, Following
<1>. QED BY <1>12, <1>13, <1>14, <1>15, <1>16, <1>17, <1>19 DEF FeedInv
LEMMA SubscribeInsertsKeeps == ASSUME FeedInv, NEW c \in Conns, SubscribeInserts(c) PROVE FeedInv'
<1>1. /\ conn[c].at = "insert" /\ conn' = [conn EXCEPT ![c].at = "open"] /\ subs' = subs \cup {c}
      /\ ticker' = (IF ticker = 0 THEN c ELSE ticker) /\ (runs' = runs \/ runs' = [runs EXCEPT ![c] = NoRead])
      /\ browser' = FirstFrames(c) /\ box' = [box EXCEPT ![c] = EmptyBox] /\ UNCHANGED <<db, session, hub, sub>>
BY DEF SubscribeInserts, SourcesUnchanged
<1>2. box[c] \in Boxes /\ conn[c] \in Handling /\ NoRead \in Running /\ EmptyBox \in Boxes /\ c # 0 BY FeedIs, ConstantsAre
<1>3. [conn[c] EXCEPT !.at = "open"] \in Handling /\ [conn[c] EXCEPT !.at = "open"].at = "open" BY <1>2 DEF Handling, Reading
<1>4. conn' \in [Conns -> Handling] /\ conn'[c].at = "open" /\ \A d \in Conns \ {c} : conn'[d] = conn[d] BY <1>1, <1>3, FeedIs
<1>5. box' \in [Conns -> Boxes] /\ box'[c] = EmptyBox /\ \A d \in Conns \ {c} : box'[d] = box[d] BY <1>1, <1>2, FeedIs
<1>6. runs' \in [Conns -> Running] /\ \A d \in Conns : runs'[d] = runs[d] \/ runs'[d] = NoRead
  <2>1. runs \in [Conns -> Running] BY FeedIs
  <2>2. CASE runs' = runs BY <2>1, <2>2
  <2>3. CASE runs' = [runs EXCEPT ![c] = NoRead] BY <1>2, <2>1, <2>3
  <2>. QED BY <1>1, <2>2, <2>3
<1>7. /\ browser' \in [conn : Conns \cup {0}, rows : RowTypes, samples : Seq(Nat), search : Payloads]
      /\ browser'.conn = browser.conn
      /\ browser.conn # c => browser'.search = browser.search /\ browser'.samples = browser.samples
      /\ browser.conn = c => browser'.search = box[c].search /\ browser'.samples = box[c].samples
  <2>1. CASE browser.conn # c BY <1>1, <2>1, FeedIs DEF FirstFrames
  <2>2. CASE browser.conn = c
    <3>1. browser' = [browser EXCEPT !.rows = box[c].live, !.samples = box[c].samples, !.search = box[c].search] BY <1>1, <2>2 DEF FirstFrames
    <3>2. box[c].live \in RowTypes /\ box[c].samples \in Seq(Nat) /\ box[c].search \in Payloads BY <1>2 DEF Boxes
    <3>. QED BY <2>2, <3>1, <3>2, FeedIs
  <2>. QED BY <2>1, <2>2
<1>8. subs' \subseteq Conns /\ ticker' \in Conns \cup {0} BY <1>1, FeedIs
<1>9. FeedTypes' BY <1>1, <1>4, <1>5, <1>6, <1>7, <1>8, FeedIs DEF FeedTypes, SourceTypes, HubTypes, PageTypes
<1>10. SessionIsWhole' BY <1>1, FeedIs DEF SessionIsWhole
<1>11. SubsAreOpen'
  <2>1. subs' = {d \in Conns : conn'[d].at = "open"} BY <1>1, <1>4, FeedIs DEF SubsAreOpen
  <2>2. ticker' # 0 /\ subs' # {} BY <1>1, <1>2
  <2>. QED BY <2>1, <2>2 DEF SubsAreOpen
<1>12. NothingAhead'
  <2>1. NoRead.jobsGen = 0 /\ NoRead.uploadsGen = 0 /\ NoRead.samples = 0 BY DEF NoRead
  <2>2. hub.jobsGen \in Nat /\ hub.uploadsGen \in Nat /\ db.samples \in Nat BY FeedIs
  <2>3. ASSUME NEW d \in Conns PROVE runs'[d].jobsGen <= hub.jobsGen /\ runs'[d].uploadsGen <= hub.uploadsGen /\ runs'[d].samples <= db.samples
    <3>1. CASE runs'[d] = runs[d] BY <3>1, FeedIs DEF NothingAhead
    <3>2. CASE runs'[d] = NoRead BY <2>1, <2>2, <3>2
    <3>. QED BY <1>6, <3>1, <3>2
  <2>. QED BY <1>1, <2>3, FeedIs DEF NothingAhead
<1>13. ExpiredIsGone'
  <2>1. EmptyBox.search = NoPayload /\ ~NoPayload.expired BY DEF EmptyBox, NoPayload
  <2>. QED BY <1>1, <1>5, <1>7, <2>1, FeedIs DEF ExpiredIsGone
<1>14. NothingBeforehand' BY <1>1, <1>7, FeedIs DEF NothingBeforehand
<1>15. ASSUME browser.conn = c PROVE SearchFits(c)' /\ SamplesFit(c)'
  <2>1. browser.search = NoPayload /\ browser.samples = <<>> BY <1>1, <1>15, FeedIs DEF SubsAreOpen, NothingBeforehand
  <2>2. SearchFits(c) /\ SamplesFit(c) BY <1>1, <1>15, FeedIs DEF FramesFit, Following
  <2>3. box'[c].samples = <<>> /\ box'[c].search = NoPayload BY <1>5 DEF EmptyBox
  <2>4. SamplesFit(c)'
    <3>1. Range(<<>>) = {} BY NothingRises
    <3>2. \A n \in Range(box[c].samples) : n <= sub[c].sample BY <2>1, <2>2, <3>1 DEF SamplesFit
    <3>3. \A n \in 1 .. sub[c].sample : n > sub[c].sample - ThroughputCap => n \in Range(box[c].samples) BY <2>1, <2>2, <3>1 DEF SamplesFit
    <3>4. Rises(box[c].samples) BY <2>2 DEF SamplesFit
    <3>5. browser'.samples = box[c].samples /\ sub'[c] = sub[c] BY <1>1, <1>7, <1>15
    <3>. QED BY <2>3, <3>1, <3>2, <3>3, <3>4, <3>5, NothingRises DEF SamplesFit
  <2>5. \A g \in Groups : Merged(c)'[g] = Merged(c)[g] BY <1>7, <1>15, <2>1, <2>3 DEF Merged, MergeSearchGroups, NoPayload, NoGroups
  <2>6. browser'.search = box[c].search BY <1>7, <1>15
  <2>7. box'[c].search.groups = NoGroups /\ ~box'[c].search.truncated /\ ~box'[c].search.done BY <2>3 DEF NoPayload
  <2>8. ~browser.search.truncated /\ ~browser.search.done BY <2>1 DEF NoPayload
  <2>9. SearchFits(c)' BY <1>1, <2>2, <2>5, <2>6, <2>7, <2>8 DEF SearchFits
  <2>. QED BY <2>4, <2>9
<1>16. FramesFit'
  <2>1. ASSUME NEW d \in Conns \ {c}, Following(d)' PROVE SearchFits(d)' /\ SamplesFit(d)'
    <3>1. Following(d) /\ browser.conn # c BY <1>4, <1>7, <2>1 DEF Following
    <3>. QED BY <1>1, <1>5, <1>7, <3>1, FramesStay DEF SameFrames
  <2>. QED BY <1>7, <1>15, <2>1 DEF FramesFit, Following
<1>. QED BY <1>9, <1>10, <1>11, <1>12, <1>13, <1>14, <1>16 DEF FeedInv
LEMMA UnsubscribeKeeps == ASSUME FeedInv, NEW c \in Conns, Unsubscribe(c) PROVE FeedInv'
<1>1. /\ conn[c].at = "open" /\ browser.conn # c /\ conn' = [conn EXCEPT ![c].at = "over"]
      /\ subs' = subs \ {c} /\ ticker' = (IF subs \ {c} = {} THEN 0 ELSE ticker)
      /\ sub' = [sub EXCEPT ![c] = NewSub] /\ box' = [box EXCEPT ![c] = EmptyBox] /\ UNCHANGED <<db, session, hub, browser, runs>>
BY DEF Unsubscribe, SourcesUnchanged, BrowserUnchanged, Cancel
<1>2. conn[c] \in Handling /\ NewSub \in Subscribers /\ EmptyBox \in Boxes BY FeedIs, ConstantsAre
<1>3. [conn[c] EXCEPT !.at = "over"] \in Handling /\ [conn[c] EXCEPT !.at = "over"].at = "over" BY <1>2 DEF Handling, Reading
<1>4. conn' \in [Conns -> Handling] /\ conn'[c].at = "over" /\ \A d \in Conns \ {c} : conn'[d] = conn[d] BY <1>1, <1>3, FeedIs
<1>5. box' \in [Conns -> Boxes] /\ box'[c] = EmptyBox /\ \A d \in Conns \ {c} : box'[d] = box[d] BY <1>1, <1>2, FeedIs
<1>6. sub' \in [Conns -> Subscribers] /\ sub'[c] = NewSub /\ \A d \in Conns \ {c} : sub'[d] = sub[d] BY <1>1, <1>2, FeedIs
<1>7. subs' \subseteq Conns /\ ticker' \in Conns \cup {0} BY <1>1, FeedIs
<1>8. FeedTypes' BY <1>1, <1>4, <1>5, <1>6, <1>7, FeedIs DEF FeedTypes, SourceTypes, HubTypes, PageTypes
<1>9. SessionIsWhole' BY <1>1, FeedIs DEF SessionIsWhole
<1>10. SubsAreOpen'
  <2>1. subs' = {d \in Conns : conn'[d].at = "open"} BY <1>1, <1>4, FeedIs DEF SubsAreOpen
  <2>2. ticker' = 0 <=> subs' = {} BY <1>1, FeedIs DEF SubsAreOpen
  <2>. QED BY <2>1, <2>2 DEF SubsAreOpen
<1>11. NothingAhead'
  <2>1. NewSub.jobsGen = 0 /\ NewSub.uploadsGen = 0 /\ NewSub.sample = 0 /\ NewSub.seq = 0 BY DEF NewSub
  <2>2. hub.jobsGen \in Nat /\ hub.uploadsGen \in Nat /\ db.samples \in Nat /\ session.seq \in Nat BY FeedIs
  <2>. QED BY <1>1, <1>6, <2>1, <2>2, FeedIs DEF NothingAhead
<1>12. ExpiredIsGone'
  <2>1. EmptyBox.search = NoPayload /\ ~NoPayload.expired BY DEF EmptyBox, NoPayload
  <2>. QED BY <1>1, <1>5, <2>1, FeedIs DEF ExpiredIsGone
<1>13. NothingBeforehand' BY <1>1, FeedIs DEF NothingBeforehand
<1>14. FramesFit'
  <2>1. ASSUME NEW d \in Conns, Following(d)' PROVE SearchFits(d)' /\ SamplesFit(d)'
    <3>1. d # c /\ Following(d) BY <1>1, <1>4, <2>1 DEF Following
    <3>. QED BY <1>1, <1>5, <1>6, <3>1, FramesStay DEF SameFrames
  <2>. QED BY <2>1 DEF FramesFit
<1>. QED BY <1>8, <1>9, <1>10, <1>11, <1>12, <1>13, <1>14 DEF FeedInv

(***************************************************************************)
(* What the handler writes                                                 *)
(***************************************************************************)
LEMMA WrittenKeeps ==
  ASSUME FeedInv, NEW c \in Conns, Watching(c), NEW y \in Boxes, box' = [box EXCEPT ![c] = y],
         UNCHANGED <<db, session, hub, subs, ticker, runs, conn, sub>>,
         browser' \in [conn : Conns \cup {0}, rows : RowTypes, samples : Seq(Nat), search : Payloads],
         browser'.conn = c, (browser'.search.expired => session.gone),
         (y.search.expired => session.gone) /\ (~y.search.sent => y.search = NoPayload),
         SearchFits(c)', SamplesFit(c)'
  PROVE  FeedInv'
<1>1. box' \in [Conns -> Boxes] /\ box'[c] = y /\ \A d \in Conns \ {c} : box'[d] = box[d] BY FeedIs
<1>2. FeedTypes' BY <1>1, FeedIs DEF FeedTypes, SourceTypes, HubTypes, PageTypes
<1>3. SessionIsWhole' /\ SubsAreOpen' /\ NothingAhead' BY FeedIs DEF SessionIsWhole, SubsAreOpen, NothingAhead
<1>4. ExpiredIsGone' BY <1>1, FeedIs DEF ExpiredIsGone
<1>5. NothingBeforehand' BY FeedIs DEF NothingBeforehand, SubsAreOpen, Watching
<1>6. FramesFit' BY DEF FramesFit, Following
<1>. QED BY <1>2, <1>3, <1>4, <1>5, <1>6 DEF FeedInv
LEMMA WritesAre ==
  ASSUME FeedInv, NEW c \in Conns, NEW what \in {"live", "flags", "samples", "search"}, NEW empty, Writes(c, what, empty)
  PROVE  /\ Watching(c) /\ box' = [box EXCEPT ![c] = [box[c] EXCEPT ![what] = empty]] /\ box[c] \in Boxes
         /\ UNCHANGED <<db, session, hub, subs, ticker, runs, conn, sub>>
         /\ Following(c) /\ SearchFits(c) /\ SamplesFit(c)
<1>1. /\ Watching(c) /\ box' = [box EXCEPT ![c][what] = empty] /\ UNCHANGED <<db, session, hub, subs, ticker, runs, conn, sub>>
BY DEF Writes, SourcesUnchanged, HubUnchanged
<1>2. Following(c) BY <1>1 DEF Watching, Following
<1>3. box \in [Conns -> Boxes] BY FeedIs
<1>4. [box EXCEPT ![c][what] = empty] = [box EXCEPT ![c] = [box[c] EXCEPT ![what] = empty]] BY <1>3
<1>. QED BY <1>1, <1>2, <1>3, <1>4, FeedIs DEF FramesFit
LEMMA WritesOthersKeep == ASSUME FeedInv, NEW c \in Conns, WritesLive(c) \/ WritesInvalidate(c) PROVE FeedInv'
<1>1. PICK what \in {"live", "flags"}, empty \in {Zero, {}} :
        /\ Writes(c, what, empty)
        /\ what = "live" => empty = Zero
        /\ what = "flags" => empty = {}
        /\ browser' \in {browser, [browser EXCEPT !.rows = MergeJobsDelta(@, box[c].live)]}
BY DEF WritesLive, WritesInvalidate, BrowserUnchanged
<1>2. /\ Watching(c) /\ box' = [box EXCEPT ![c] = [box[c] EXCEPT ![what] = empty]] /\ box[c] \in Boxes
      /\ UNCHANGED <<db, session, hub, subs, ticker, runs, conn, sub>> /\ Following(c)
BY <1>1, WritesAre
<1>3. PICK y : y = [box[c] EXCEPT ![what] = empty] OBVIOUS
<1>4. y \in Boxes /\ y.samples = box[c].samples /\ y.search = box[c].search
  <2>1. CASE what = "live"
    <3>1. y = [box[c] EXCEPT !.live = Zero] BY <1>1, <1>3, <2>1
    <3>. QED BY <1>2, <3>1, ConstantsAre DEF Boxes
  <2>2. CASE what = "flags"
    <3>1. y = [box[c] EXCEPT !.flags = {}] BY <1>1, <1>3, <2>2
    <3>. QED BY <1>2, <3>1 DEF Boxes
  <2>. QED BY <2>1, <2>2
<1>5. /\ browser' \in [conn : Conns \cup {0}, rows : RowTypes, samples : Seq(Nat), search : Payloads]
      /\ browser'.conn = browser.conn /\ browser'.search = browser.search /\ browser'.samples = browser.samples
  <2>1. CASE browser' = [browser EXCEPT !.rows = MergeJobsDelta(@, box[c].live)]
    <3>1. MergeJobsDelta(browser.rows, box[c].live) \in RowTypes BY <1>2, FeedIs DEF MergeJobsDelta, RowTypes, Boxes
    <3>. QED BY <2>1, <3>1, FeedIs
  <2>2. CASE browser' = browser BY <2>2, FeedIs
  <2>. QED BY <1>1, <2>1, <2>2
<1>6. SameFrames(c) BY <1>2, <1>3, <1>4, FeedIs DEF SameFrames
<1>7. SearchFits(c)' /\ SamplesFit(c)' BY <1>2, <1>5, <1>6, FramesStay
<1>8. browser'.conn = c BY <1>2, <1>5 DEF Watching
<1>. QED BY <1>2, <1>3, <1>4, <1>5, <1>7, <1>8, WrittenKeeps, FeedIs DEF ExpiredIsGone
LEMMA WritesSamplesKeeps == ASSUME FeedInv, NEW c \in Conns, WritesSamples(c) PROVE FeedInv'
<1>1. Writes(c, "samples", <<>>) /\ browser' = [browser EXCEPT !.samples = @ \o box[c].samples] BY DEF WritesSamples
<1>2. /\ Watching(c) /\ box' = [box EXCEPT ![c] = [box[c] EXCEPT !.samples = <<>>]] /\ box[c] \in Boxes
      /\ UNCHANGED <<db, session, hub, subs, ticker, runs, conn, sub>> /\ Following(c) /\ SearchFits(c) /\ SamplesFit(c)
BY <1>1, WritesAre
<1>3. PICK y : y = [box[c] EXCEPT !.samples = <<>>] OBVIOUS
<1>4. y \in Boxes /\ y.samples = <<>> /\ y.search = box[c].search BY <1>2, <1>3, NothingRises DEF Boxes
<1>5. browser.samples \in Seq(Nat) /\ box[c].samples \in Seq(Nat) BY <1>2, FeedIs DEF Boxes
<1>6. /\ browser.samples \o box[c].samples \in Seq(Nat) /\ Rises(browser.samples \o box[c].samples)
      /\ Range(browser.samples \o box[c].samples) = Range(browser.samples) \cup Range(box[c].samples)
BY <1>2, <1>5, ConcatRises, ConcatRange DEF SamplesFit
<1>7. /\ browser' \in [conn : Conns \cup {0}, rows : RowTypes, samples : Seq(Nat), search : Payloads]
      /\ browser'.conn = c /\ browser'.search = browser.search /\ browser'.samples = browser.samples \o box[c].samples
BY <1>1, <1>2, <1>6, FeedIs DEF Watching
<1>8. box'[c] = y BY <1>2, <1>3, FeedIs
<1>9. SamplesFit(c)'
  <2>1. Range(browser'.samples) \cup Range(box'[c].samples) = Range(browser.samples) \cup Range(box[c].samples)
    BY <1>4, <1>6, <1>7, <1>8, NothingRises
  <2>2. sub'[c] = sub[c] BY <1>2
  <2>3. \A n \in Range(browser.samples) \cup Range(box[c].samples) : n <= sub[c].sample BY <1>2 DEF SamplesFit
  <2>4. \A n \in 1 .. sub[c].sample : n > sub[c].sample - ThroughputCap => n \in Range(browser.samples) \cup Range(box[c].samples)
    BY <1>2 DEF SamplesFit
  <2>5. Rises(browser'.samples) /\ Rises(box'[c].samples) /\ Before(browser'.samples, box'[c].samples) BY <1>4, <1>6, <1>7, <1>8, NothingRises
  <2>. QED BY <2>1, <2>2, <2>3, <2>4, <2>5 DEF SamplesFit
<1>10. Merged(c)' = Merged(c) BY <1>4, <1>7, <1>8 DEF Merged, MergeSearchGroups
<1>11. SearchFits(c)' BY <1>2, <1>4, <1>7, <1>8, <1>10 DEF SearchFits
<1>12. (browser'.search.expired => session.gone) /\ (y.search.expired => session.gone) /\ (~y.search.sent => y.search = NoPayload)
BY <1>4, <1>7, FeedIs DEF ExpiredIsGone
<1>. QED BY <1>2, <1>3, <1>4, <1>7, <1>9, <1>11, <1>12, WrittenKeeps
LEMMA WritesSearchKeeps == ASSUME FeedInv, NEW c \in Conns, WritesSearch(c) PROVE FeedInv'
<1>1. Writes(c, "search", NoPayload) /\ browser' = [browser EXCEPT !.search = MergeSearch(@, box[c].search)] BY DEF WritesSearch
<1>2. /\ Watching(c) /\ box' = [box EXCEPT ![c] = [box[c] EXCEPT !.search = NoPayload]] /\ box[c] \in Boxes
      /\ UNCHANGED <<db, session, hub, subs, ticker, runs, conn, sub>> /\ Following(c) /\ SearchFits(c) /\ SamplesFit(c)
BY <1>1, WritesAre
<1>3. PICK y : y = [box[c] EXCEPT !.search = NoPayload] OBVIOUS
<1>4. y \in Boxes /\ y.samples = box[c].samples /\ y.search = NoPayload BY <1>2, <1>3, ConstantsAre DEF Boxes
<1>5. browser.search \in Payloads /\ box[c].search \in Payloads BY <1>2, FeedIs DEF Boxes
<1>6. PICK m : m = MergeSearch(browser.search, box[c].search) OBVIOUS
<1>7. /\ m \in Payloads /\ m.groups = Merged(c) /\ m.done = (box[c].search.done \/ browser.search.done)
      /\ m.truncated = (box[c].search.truncated \/ browser.search.truncated)
      /\ m.expired = (box[c].search.expired \/ browser.search.expired)
  <2>1. /\ browser.search.groups \in [Groups -> Nat] /\ box[c].search.groups \in [Groups -> Nat]
        /\ (box[c].search.done \/ browser.search.done) \in BOOLEAN /\ (box[c].search.truncated \/ browser.search.truncated) \in BOOLEAN
        /\ (box[c].search.expired \/ browser.search.expired) \in BOOLEAN
    BY <1>5 DEF Payloads
  <2>2. Merged(c) \in [Groups -> Nat] BY <2>1 DEF Merged, MergeSearchGroups
  <2>3. m = [sent |-> TRUE, groups |-> Merged(c), done |-> box[c].search.done \/ browser.search.done,
             truncated |-> box[c].search.truncated \/ browser.search.truncated, expired |-> box[c].search.expired \/ browser.search.expired]
    BY <1>6 DEF MergeSearch, Merged
  <2>. QED BY <2>1, <2>2, <2>3 DEF Payloads
<1>8. /\ browser' \in [conn : Conns \cup {0}, rows : RowTypes, samples : Seq(Nat), search : Payloads]
      /\ browser'.conn = c /\ browser'.search = m /\ browser'.samples = browser.samples
BY <1>1, <1>2, <1>6, <1>7, FeedIs DEF Watching
<1>9. box'[c] = y BY <1>2, <1>3, FeedIs
<1>10. SamplesFit(c)' BY <1>2, <1>4, <1>8, <1>9 DEF SamplesFit
<1>11. \A g \in Groups : Merged(c)'[g] = Merged(c)[g] BY <1>4, <1>7, <1>8, <1>9 DEF Merged, MergeSearchGroups, NoPayload, NoGroups
<1>12. box'[c].search.groups = NoGroups /\ ~box'[c].search.truncated /\ ~box'[c].search.done /\ ~box'[c].search.expired BY <1>4, <1>9 DEF NoPayload
<1>13. SearchFits(c)' BY ZenonT(60), <1>2, <1>7, <1>8, <1>11, <1>12 DEF SearchFits
<1>14. (browser'.search.expired => session.gone) /\ (y.search.expired => session.gone) /\ (~y.search.sent => y.search = NoPayload)
BY <1>4, <1>7, <1>8, <1>9, <1>12, FeedIs DEF ExpiredIsGone
<1>. QED BY <1>2, <1>3, <1>4, <1>8, <1>10, <1>13, <1>14, WrittenKeeps
(***************************************************************************)
(* The newest samples                                                      *)
(***************************************************************************)
LEMMA LeastNumber == ASSUME NEW T \in SUBSET Nat, T # {} PROVE \E x \in T : \A y \in T : x <= y
<1>. DEFINE R == OpToRel(<, Nat)
<1>1. IsWellFoundedOn(R, Nat) BY NatLessThanWellFounded
<1>. HIDE DEF R
<1>2. \E x \in T : \A y \in T : ~ (<<y, x>> \in R) BY <1>1, WFMin
<1>3. ASSUME NEW x \in Nat, NEW y \in Nat, <<y, x>> \notin R PROVE x <= y BY <1>3 DEF R, OpToRel
<1>. QED BY <1>2, <1>3
\* What rises rises by one at least.
LEMMA RisesByOne ==
  ASSUME NEW s \in Seq(Nat), Rises(s), NEW i \in DOMAIN s, NEW j \in DOMAIN s, i <= j
  PROVE  s[i] + (j - i) <= s[j]
<1>. DEFINE Bad == {d \in Nat : \E k \in DOMAIN s : k + d \in DOMAIN s /\ s[k + d] < s[k] + d}
<1>1. DOMAIN s = 1 .. Len(s) /\ Len(s) \in Nat /\ \A k \in DOMAIN s : s[k] \in Nat BY LenProperties
<1>2. ASSUME NEW d \in Nat, d \in Bad PROVE \E e \in Bad : e < d
  <2>1. PICK k \in DOMAIN s : k + d \in DOMAIN s /\ s[k + d] < s[k] + d BY <1>2
  <2>2. d # 0 /\ k \in Nat /\ k + d <= Len(s) /\ 1 <= k BY SMTT(40), <1>1, <2>1
  <2>3. d - 1 \in Nat /\ k + (d - 1) \in 1 .. Len(s) /\ k + (d - 1) < k + d BY SMTT(40), <1>1, <2>2
  <2>4. s[k + (d - 1)] < s[k + d] BY <1>1, <2>1, <2>3 DEF Rises
  <2>5. s[k] \in Nat /\ s[k + d] \in Nat /\ s[k + (d - 1)] \in Nat BY <1>1, <2>1, <2>3
  <2>6. \A x, y, z \in Nat : x < y /\ y < z + d => x < z + (d - 1) BY <1>2
  <2>7. s[k + (d - 1)] < s[k] + (d - 1) BY <2>1, <2>4, <2>5, <2>6
  <2>. QED BY <1>1, <2>2, <2>3, <2>7
<1>3. Bad = {}
  <2>1. SUFFICES ASSUME Bad # {} PROVE FALSE OBVIOUS
  <2>2. PICK d \in Bad : \A e \in Bad : d <= e
    <3>1. Bad \in SUBSET Nat OBVIOUS
    <3>. HIDE DEF Bad
    <3>. QED BY <2>1, <3>1, LeastNumber
  <2>3. d \in Nat OBVIOUS
  <2>4. PICK e \in Bad : e < d BY <1>2, <2>3
  <2>5. e \in Nat /\ d <= e BY <2>2
  <2>. QED BY <2>3, <2>4, <2>5
<1>4. j - i \in Nat /\ i + (j - i) = j BY <1>1
<1>5. ~(s[i + (j - i)] < s[i] + (j - i)) BY <1>3, <1>4
<1>6. s[i] \in Nat /\ s[j] \in Nat BY <1>1
<1>. QED BY <1>4, <1>5, <1>6
LEMMA SuffixIs ==
  ASSUME NEW s \in Seq(Nat), NEW n \in Nat, n < Len(s)
  PROVE  /\ SubSeq(s, n + 1, Len(s)) \in Seq(Nat) /\ DOMAIN SubSeq(s, n + 1, Len(s)) = 1 .. Len(s) - n
         /\ \A i \in 1 .. Len(s) - n : n + i \in DOMAIN s /\ SubSeq(s, n + 1, Len(s))[i] = s[n + i]
<1> DEFINE t == SubSeq(s, n + 1, Len(s))
<1>1. Len(s) \in Nat /\ DOMAIN s = 1 .. Len(s) /\ \A k \in DOMAIN s : s[k] \in Nat BY LenProperties
<1>2. n + 1 \in Int /\ \A i \in n + 1 .. Len(s) : s[i] \in Nat BY <1>1
<1>3. t \in Seq(Nat) /\ Len(t) = (IF n + 1 <= Len(s) THEN Len(s) - (n + 1) + 1 ELSE 0) /\ \A i \in 1 .. Len(s) - (n + 1) + 1 : t[i] = s[n + 1 + i - 1]
BY <1>1, <1>2, SubSeqProperties
<1>4. DOMAIN t = 1 .. Len(t) BY <1>3, LenProperties
<1>. HIDE DEF t
<1>5. Len(s) - (n + 1) + 1 = Len(s) - n /\ n + 1 <= Len(s) BY <1>1
<1>6. \A i \in 1 .. Len(s) - n : n + i \in DOMAIN s /\ n + 1 + i - 1 = n + i BY <1>1
<1>7. t \in Seq(Nat) /\ DOMAIN t = 1 .. Len(s) - n /\ \A i \in 1 .. Len(s) - n : n + i \in DOMAIN s /\ t[i] = s[n + i] BY <1>3, <1>4, <1>5, <1>6
<1>. QED BY <1>7 DEF t
\* Of samples that rise the newest ones are kept, and none of those that count is lost.
LEMMA NewestStay ==
  ASSUME NEW s \in Seq(Nat), Rises(s), NEW m \in Nat, \A x \in Range(s) : x <= m
  PROVE  /\ CapThroughputSamples(s) \in Seq(Nat) /\ Rises(CapThroughputSamples(s)) /\ Range(CapThroughputSamples(s)) \subseteq Range(s)
         /\ \A x \in Range(s) : x > m - ThroughputCap => x \in Range(CapThroughputSamples(s))
<1>1. Len(s) \in Nat /\ DOMAIN s = 1 .. Len(s) /\ ThroughputCap \in Nat /\ \A k \in DOMAIN s : s[k] \in Nat BY LenProperties, StreamAssumption
<1>2. CASE Len(s) <= ThroughputCap BY <1>2 DEF CapThroughputSamples
<1>3. CASE ~(Len(s) <= ThroughputCap)
  <2>0. Len(s) - ThroughputCap \in Nat /\ Len(s) - ThroughputCap <= Len(s) BY <1>1, <1>3
  <2>1. PICK n \in Nat : n = Len(s) - ThroughputCap /\ n <= Len(s) BY <2>0
  <2>2. PICK t : t = CapThroughputSamples(s) OBVIOUS
  <2>3. t = SubSeq(s, n + 1, Len(s)) BY <1>3, <2>1, <2>2 DEF CapThroughputSamples
  <2>4. CASE n < Len(s)
    <3>1. t \in Seq(Nat) /\ DOMAIN t = 1 .. Len(s) - n /\ \A i \in 1 .. Len(s) - n : n + i \in DOMAIN s /\ t[i] = s[n + i] BY <2>3, <2>4, SuffixIs
    <3>2. Rises(t)
      <4>1. ASSUME NEW i \in DOMAIN t, NEW j \in DOMAIN t, i < j PROVE t[i] < t[j]
        <5>1. i \in 1 .. Len(s) - n /\ j \in 1 .. Len(s) - n BY <3>1, <4>1
        <5>2. n + i \in DOMAIN s /\ n + j \in DOMAIN s BY <3>1, <5>1
        <5>3. n + i < n + j BY <1>1, <2>1, <4>1, <5>1
        <5>. QED BY <3>1, <5>1, <5>2, <5>3 DEF Rises
      <4>. QED BY <4>1 DEF Rises
    <3>3. Range(t) \subseteq Range(s) BY <3>1 DEF Range
    <3>4. ASSUME NEW x \in Range(s), x > m - ThroughputCap PROVE x \in Range(t)
      <4>1. PICK i \in DOMAIN s : x = s[i] BY DEF Range
      <4>2. Len(s) \in DOMAIN s /\ s[Len(s)] \in Nat /\ s[Len(s)] <= m /\ s[i] \in Nat BY SMTT(40), <1>1, <2>1, <2>4 DEF Range
      <4>3. s[i] + (Len(s) - i) <= s[Len(s)]
        <5>1. i <= Len(s) BY <1>1
        <5>. QED BY <4>2, <5>1, RisesByOne
      <4>4. i - n \in 1 .. Len(s) - n /\ n + (i - n) = i BY SMTT(40), <1>1, <2>1, <3>4, <4>1, <4>2, <4>3
      <4>5. t[i - n] = s[i] BY <3>1, <4>4
      <4>. QED BY <3>1, <4>1, <4>4, <4>5 DEF Range
    <3>. QED BY <2>2, <3>1, <3>2, <3>3, <3>4
  <2>5. CASE n = Len(s)
    <3>1. ThroughputCap = 0 BY <1>1, <2>1, <2>5
    <3>2. t = <<>> BY <1>1, <2>3, <2>5, SubSeqEmpty
    <3>3. \A x \in Range(s) : ~(x > m - ThroughputCap)
      <4>1. \A x \in Range(s) : x \in Nat BY <1>1 DEF Range
      <4>. QED BY <3>1, <4>1
    <3>. QED BY <2>2, <3>2, <3>3, NothingRises
  <2>6. n < Len(s) \/ n = Len(s)
    <3>1. \A x, y \in Nat : x <= y => (x < y \/ x = y) OBVIOUS
    <3>. QED BY <1>1, <2>1, <3>1
  <2>. QED BY <2>4, <2>5, <2>6
<1>. QED BY <1>2, <1>3
LEMMA MergedSamples ==
  ASSUME NEW s \in Seq(Nat), NEW t \in Seq(Nat), Rises(s), Rises(t), Before(s, t), NEW m \in Nat, \A x \in Range(s) \cup Range(t) : x <= m
  PROVE  /\ MergeThroughput(s, t) \in Seq(Nat) /\ Rises(MergeThroughput(s, t)) /\ Range(MergeThroughput(s, t)) \subseteq Range(s) \cup Range(t)
         /\ \A x \in Range(s) \cup Range(t) : x > m - ThroughputCap => x \in Range(MergeThroughput(s, t))
<1>1. CASE s = <<>>
  <2>1. MergeThroughput(s, t) = t /\ Range(s) = {} BY <1>1, NothingRises DEF MergeThroughput
  <2>. QED BY <2>1
<1>2. CASE s # <<>> /\ t = <<>>
  <2>1. MergeThroughput(s, t) = s /\ Range(t) = {} BY <1>2, NothingRises DEF MergeThroughput
  <2>. QED BY <2>1
<1>3. CASE s # <<>> /\ t # <<>>
  <2>1. PICK u : u = s \o t OBVIOUS
  <2>2. u \in Seq(Nat) /\ Rises(u) /\ Range(u) = Range(s) \cup Range(t) BY <2>1, ConcatRises, ConcatRange
  <2>3. MergeThroughput(s, t) = CapThroughputSamples(u) BY <1>3, <2>1 DEF MergeThroughput
  <2>4. \A x \in Range(u) : x <= m BY <2>2
  <2>5. /\ CapThroughputSamples(u) \in Seq(Nat) /\ Rises(CapThroughputSamples(u)) /\ Range(CapThroughputSamples(u)) \subseteq Range(u)
        /\ \A x \in Range(u) : x > m - ThroughputCap => x \in Range(CapThroughputSamples(u))
    BY <2>2, <2>4, NewestStay
  <2>. QED BY <2>2, <2>3, <2>5
<1>. QED BY <1>1, <1>2, <1>3
(***************************************************************************)
(* What a tick sends                                                       *)
(***************************************************************************)
LEMMA MergedIs == ASSUME NEW s \in Seq(Nat), NEW t \in Seq(Nat) PROVE MergeThroughput(s, t) \in Seq(Nat)
<1>1. ASSUME NEW u \in Seq(Nat) PROVE CapThroughputSamples(u) \in Seq(Nat)
  <2>1. Len(u) \in Nat /\ ThroughputCap \in Nat BY LenProperties, StreamAssumption
  <2>2. CASE Len(u) <= ThroughputCap BY <2>2 DEF CapThroughputSamples
  <2>3. CASE ~(Len(u) <= ThroughputCap)
    <3>1. CapThroughputSamples(u) = SubSeq(u, Len(u) - ThroughputCap + 1, Len(u)) BY <2>3 DEF CapThroughputSamples
    <3>2. Len(u) - ThroughputCap + 1 \in Int /\ Len(u) - ThroughputCap + 1 > 0 BY <2>1, <2>3
    <3>3. DOMAIN u = 1 .. Len(u) /\ \A i \in DOMAIN u : u[i] \in Nat BY LenProperties
    <3>4. \A i \in Len(u) - ThroughputCap + 1 .. Len(u) : u[i] \in Nat BY <2>1, <3>2, <3>3
    <3>. QED BY <2>1, <3>1, <3>2, <3>4, SubSeqProperties
  <2>. QED BY <2>2, <2>3
<1>2. s \o t \in Seq(Nat) BY ConcatProperties
<1>. QED BY <1>1, <1>2 DEF MergeThroughput
LEMMA FreshIs ==
  ASSUME FeedInv, NEW c \in Conns, NEW t \in Running
  PROVE  /\ Fresh(c, t) \in Seq(Nat) /\ Rises(Fresh(c, t)) /\ Knows(c, t).sample \in Nat /\ sub[c].sample <= Knows(c, t).sample
         /\ \A n \in Nat : n \in Range(Fresh(c, t)) <=> (sub[c].sample < n /\ n <= Knows(c, t).sample)
<1>1. sub[c].sample \in Nat /\ t.samples \in Nat BY FeedIs DEF Subscribers, Running, Reading
<1>2. PICK s, m : s = sub[c].sample /\ m = Knows(c, t).sample OBVIOUS
<1>3. m = IF t.samples > s THEN t.samples ELSE s BY <1>2 DEF Knows
<1>4. s \in Nat /\ m \in Nat /\ s <= m /\ m - s \in Nat BY <1>1, <1>2, <1>3
<1>5. PICK f : f = Fresh(c, t) OBVIOUS
<1>6. m - s = IF t.samples > s THEN t.samples - s ELSE 0 BY <1>1, <1>3, <1>4
<1>7. f = [i \in 1 .. m - s |-> s + i] BY <1>2, <1>5, <1>6 DEF Fresh
<1>8. \A i \in 1 .. m - s : s + i \in Nat BY <1>4
<1>9. f \in Seq(Nat) BY <1>4, <1>7, <1>8, IsASeq
<1>10. DOMAIN f = 1 .. m - s /\ \A i \in 1 .. m - s : f[i] = s + i BY <1>7
<1>11. \A i, j \in 1 .. m - s : i < j => s + i < s + j BY <1>4
<1>12. Rises(f) BY <1>10, <1>11 DEF Rises
<1>13. ASSUME NEW n \in Nat PROVE n \in Range(f) <=> (s < n /\ n <= m)
  <2>1. ASSUME n \in Range(f) PROVE s < n /\ n <= m
    <3>1. PICK i \in 1 .. m - s : n = s + i BY <1>10, <2>1 DEF Range
    <3>. QED BY <1>4, <3>1
  <2>2. ASSUME s < n, n <= m PROVE n \in Range(f)
    <3>1. n - s \in 1 .. m - s /\ s + (n - s) = n BY <1>4, <2>2
    <3>2. f[n - s] = n BY <1>10, <3>1
    <3>. QED BY <1>10, <3>1, <3>2 DEF Range
  <2>. QED BY <2>1, <2>2
<1>. QED BY <1>2, <1>4, <1>5, <1>9, <1>12, <1>13
LEMMA MergeSearchIs ==
  ASSUME NEW p \in Payloads, NEW q \in Payloads
  PROVE  /\ MergeSearch(p, q) \in Payloads /\ MergeSearch(p, q).sent /\ MergeSearch(p, q).groups = MergeSearchGroups(p.groups, q.groups)
         /\ MergeSearch(p, q).done <=> (p.done \/ q.done)
         /\ MergeSearch(p, q).truncated <=> (p.truncated \/ q.truncated)
         /\ MergeSearch(p, q).expired <=> (p.expired \/ q.expired)
<1>1. /\ p.groups \in [Groups -> Nat] /\ q.groups \in [Groups -> Nat] /\ (q.done \/ p.done) \in BOOLEAN
      /\ (q.truncated \/ p.truncated) \in BOOLEAN /\ (q.expired \/ p.expired) \in BOOLEAN
BY DEF Payloads
<1>2. MergeSearchGroups(p.groups, q.groups) \in [Groups -> Nat] BY <1>1 DEF MergeSearchGroups
<1>3. PICK m : m = MergeSearch(p, q) OBVIOUS
<1>4. m = [sent |-> TRUE, groups |-> MergeSearchGroups(p.groups, q.groups), done |-> q.done \/ p.done,
           truncated |-> q.truncated \/ p.truncated, expired |-> q.expired \/ p.expired]
BY <1>3 DEF MergeSearch
<1>5. m \in Payloads BY <1>1, <1>2, <1>4 DEF Payloads
<1>6. /\ m.sent = TRUE /\ m.groups = MergeSearchGroups(p.groups, q.groups) /\ m.done = (q.done \/ p.done)
      /\ m.truncated = (q.truncated \/ p.truncated) /\ m.expired = (q.expired \/ p.expired)
BY <1>4
<1>. QED BY <1>3, <1>5, <1>6
\* What the channel of the search holds after a delta has been sent, whether or not one was waiting there.
LEMMA SearchSentIs ==
  ASSUME FeedInv, NEW c \in Conns, NEW t, SearchSends(c)
  PROVE  /\ Sent(c, t).search \in Payloads /\ Sent(c, t).search.sent /\ (Sent(c, t).search.expired => session.gone)
         /\ ~session.gone =>
              /\ Sent(c, t).search.done <=> (box[c].search.done \/ session.done)
              /\ Sent(c, t).search.truncated <=> (box[c].search.truncated \/ session.truncated)
              /\ \A g \in Groups : Sent(c, t).search.groups[g] = IF Delta(sub[c].seq)[g] # 0 THEN Delta(sub[c].seq)[g] ELSE box[c].search.groups[g]
<1>1. PICK b, p, q : b = box[c].search /\ p = SearchPayload(sub[c].seq) /\ q = Sent(c, t).search OBVIOUS
<1>2. q = IF b.sent THEN MergeSearch(b, p) ELSE p BY <1>1 DEF Sent
<1>3. sub[c].seq \in Nat /\ b \in Payloads BY <1>1, FeedIs DEF Subscribers, Boxes
<1>4. /\ p \in Payloads /\ p.sent /\ (p.expired <=> session.gone) /\ Delta(sub[c].seq) \in [Groups -> Nat]
      /\ ~session.gone => p.done = session.done /\ p.truncated = session.truncated /\ p.groups = Delta(sub[c].seq)
BY <1>1, <1>3, PayloadIs
<1>5. (b.expired => session.gone) /\ (~b.sent => b = NoPayload) BY <1>1, FeedIs DEF ExpiredIsGone
<1>6. CASE b.sent
  <2>1. q = MergeSearch(b, p) BY <1>2, <1>6
  <2>2. /\ q \in Payloads /\ q.sent /\ q.groups = MergeSearchGroups(b.groups, p.groups) /\ (q.done <=> (b.done \/ p.done))
        /\ (q.truncated <=> (b.truncated \/ p.truncated)) /\ (q.expired <=> (b.expired \/ p.expired))
    BY <1>3, <1>4, <2>1, MergeSearchIs
  <2>3. ~session.gone => \A g \in Groups : q.groups[g] = IF Delta(sub[c].seq)[g] # 0 THEN Delta(sub[c].seq)[g] ELSE b.groups[g]
    BY <1>4, <2>2 DEF MergeSearchGroups
  <2>. QED BY <1>1, <1>4, <1>5, <2>2, <2>3
<1>7. CASE ~b.sent
  <2>1. q = p BY <1>2, <1>7
  <2>2. b.done = FALSE /\ b.truncated = FALSE /\ \A g \in Groups : b.groups[g] = 0 BY <1>5, <1>7 DEF NoPayload, NoGroups
  <2>3. ~session.gone => \A g \in Groups : q.groups[g] = IF Delta(sub[c].seq)[g] # 0 THEN Delta(sub[c].seq)[g] ELSE b.groups[g]
    BY <1>4, <2>1, <2>2
  <2>. QED BY <1>1, <1>4, <2>1, <2>2, <2>3
<1>. QED BY <1>6, <1>7
LEMMA SentIs ==
  ASSUME FeedInv, NEW c \in Conns, NEW t \in Running
  PROVE  /\ Sent(c, t) \in Boxes /\ Sent(c, t).samples = MergeThroughput(box[c].samples, Fresh(c, t))
         /\ ~SearchSends(c) => Sent(c, t).search = box[c].search
         /\ Sent(c, t).search.expired => session.gone
         /\ ~Sent(c, t).search.sent => Sent(c, t).search = NoPayload
<1>1. box[c] \in Boxes /\ sub[c] \in Subscribers BY FeedIs
<1>2. PICK l, f, s, q :
        /\ l = MergeJobsDelta(box[c].live, JobsDelta(c, t))
        /\ f = (IF Invalidates(c, t) THEN SendLatestInvalidate(box[c].flags, Changed(c, t)) ELSE box[c].flags)
        /\ s = MergeThroughput(box[c].samples, Fresh(c, t))
        /\ q = (IF ~SearchSends(c) THEN box[c].search
                ELSE IF box[c].search.sent THEN MergeSearch(box[c].search, SearchPayload(sub[c].seq)) ELSE SearchPayload(sub[c].seq))
OBVIOUS
<1>3. Sent(c, t) = [live |-> l, flags |-> f, samples |-> s, search |-> q] BY <1>2 DEF Sent
<1>4. l \in RowTypes
  <2>1. RowsOf(c, t) \in RowTypes BY ConstantsAre DEF RowsOf, Running, Reading, Prints
  <2>2. JobsDelta(c, t) \in RowTypes BY <2>1 DEF JobsDelta, RowTypes
  <2>. QED BY <1>1, <1>2, <2>2 DEF MergeJobsDelta, RowTypes, Boxes
<1>5. f \in SUBSET {"jobs", "uploads"} BY <1>1, <1>2 DEF SendLatestInvalidate, Changed, Boxes
<1>6. s \in Seq(Nat) BY <1>1, <1>2, MergedIs, FreshIs DEF Boxes
<1>7. q \in Payloads /\ (q.expired => session.gone) /\ (~q.sent => q = NoPayload)
  <2>1. CASE SearchSends(c)
    <3>1. Sent(c, t).search = q BY <1>3
    <3>. QED BY <2>1, <3>1, SearchSentIs
  <2>2. CASE ~SearchSends(c) BY <1>1, <1>2, <2>2, FeedIs DEF ExpiredIsGone, Boxes
  <2>. QED BY <2>1, <2>2
<1>8. Sent(c, t) \in Boxes BY <1>3, <1>4, <1>5, <1>6, <1>7 DEF Boxes
<1>9. Sent(c, t).samples = s /\ Sent(c, t).search = q BY <1>3
<1>. QED BY <1>2, <1>7, <1>8, <1>9
LEMMA KnowsIs ==
  ASSUME FeedInv, NEW c \in Conns, NEW t \in Running, t.jobsGen <= hub.jobsGen, t.uploadsGen <= hub.uploadsGen, t.samples <= db.samples
  PROVE  /\ Knows(c, t) \in Subscribers /\ Knows(c, t).jobsGen <= hub.jobsGen /\ Knows(c, t).uploadsGen <= hub.uploadsGen
         /\ Knows(c, t).sample <= db.samples /\ Knows(c, t).seq <= session.seq
         /\ SearchSends(c) /\ ~session.gone =>
              Knows(c, t).seq = session.seq /\ Knows(c, t).done = session.done /\ Knows(c, t).truncated = session.truncated
         /\ ~SearchSends(c) =>
              Knows(c, t).seq = sub[c].seq /\ Knows(c, t).done = sub[c].done /\ Knows(c, t).truncated = sub[c].truncated
<1>1. sub[c] \in Subscribers /\ hub.jobsGen \in Nat /\ hub.uploadsGen \in Nat /\ db.samples \in Nat BY FeedIs
<1>2. session \in [seq : Nat, groups : [Groups -> Nat], done : BOOLEAN, truncated : BOOLEAN, gone : BOOLEAN] BY FeedIs
<1>3. t.jobsGen \in Nat /\ t.uploadsGen \in Nat /\ t.samples \in Nat BY DEF Running, Reading
<1>4. RowsOf(c, t) \in RowTypes BY ConstantsAre DEF RowsOf, Running, Reading, Prints
<1>5. PICK s \in BOOLEAN : s <=> (SearchSends(c) /\ ~session.gone) OBVIOUS
<1>6. PICK i \in BOOLEAN : i <=> Invalidates(c, t) OBVIOUS
<1>7. PICK r, j, u, w, m, q, d, x, e :
        /\ r = RowsOf(c, t) /\ j = (IF i THEN t.jobsGen ELSE sub[c].jobsGen) /\ u = (IF i THEN t.uploadsGen ELSE sub[c].uploadsGen)
        /\ w = (sub[c].waited /\ ~i) /\ m = (IF t.samples > sub[c].sample THEN t.samples ELSE sub[c].sample)
        /\ q = (IF s THEN session.seq ELSE sub[c].seq) /\ d = (IF s THEN session.done ELSE sub[c].done)
        /\ x = (IF s THEN session.truncated ELSE sub[c].truncated) /\ e = (sub[c].expired \/ session.gone)
OBVIOUS
<1>8. Knows(c, t) = [rows |-> r, jobsGen |-> j, uploadsGen |-> u, waited |-> w, sample |-> m, seq |-> q, done |-> d, truncated |-> x, expired |-> e]
BY <1>5, <1>6, <1>7 DEF Knows
<1>9. /\ r \in RowTypes /\ j \in Nat /\ u \in Nat /\ w \in BOOLEAN /\ m \in Nat /\ q \in Nat /\ d \in BOOLEAN /\ x \in BOOLEAN /\ e \in BOOLEAN
BY <1>1, <1>2, <1>3, <1>4, <1>7 DEF Subscribers
<1>10. Knows(c, t) \in Subscribers BY <1>8, <1>9 DEF Subscribers
<1>11. sub[c].jobsGen <= hub.jobsGen /\ sub[c].uploadsGen <= hub.uploadsGen /\ sub[c].sample <= db.samples /\ sub[c].seq <= session.seq
BY FeedIs DEF NothingAhead
<1>12. session.seq <= session.seq BY <1>2
<1>13. j <= hub.jobsGen /\ u <= hub.uploadsGen /\ m <= db.samples /\ q <= session.seq BY <1>7, <1>11, <1>12
<1>. QED BY <1>5, <1>7, <1>8, <1>10, <1>13
\* Nothing is left to be sent of a search whose end is known.
LEMMA EndIsSentOnce ==
  ASSUME FeedInv, NEW c \in Conns, Following(c), ~session.gone, browser.search.done
  PROVE  ~SearchSends(c)
<1>1. SearchFits(c) BY FeedIs DEF FramesFit
<1>2. session.done /\ sub[c].done /\ sub[c].seq = session.seq /\ sub[c].truncated = session.truncated BY <1>1 DEF SearchFits
<1>3. sub[c] \in Subscribers /\ session.done \in BOOLEAN BY FeedIs
<1>4. session.done = sub[c].done BY <1>2, <1>3 DEF Subscribers
<1>5. \A g \in Groups : session.groups[g] \in Nat /\ session.seq \in Nat /\ session.groups[g] <= session.seq BY FeedIs DEF SessionIsWhole
<1>6. \A g \in Groups : ~(session.groups[g] > session.seq) BY <1>5
<1>7. Delta(sub[c].seq) = NoGroups BY <1>2, <1>6 DEF Delta, NoGroups
<1>. QED BY <1>2, <1>4, <1>7 DEF SearchSends
LEMMA SearchFitsAgain ==
  ASSUME FeedInv, NEW c \in Conns, Following(c), NEW t \in Running, t.jobsGen <= hub.jobsGen, t.uploadsGen <= hub.uploadsGen, t.samples <= db.samples,
         box'[c] = Sent(c, t), sub'[c] = Knows(c, t), browser' = browser, session' = session
  PROVE  SearchFits(c)'
<1>1. SUFFICES ASSUME ~session.gone PROVE SearchFits(c)' BY DEF SearchFits
<1>2. SearchFits(c) BY FeedIs DEF FramesFit
<1>3. CASE ~SearchSends(c)
  <2>1. sub'[c].seq = sub[c].seq /\ sub'[c].done = sub[c].done /\ sub'[c].truncated = sub[c].truncated BY <1>3, KnowsIs
  <2>2. box'[c].search = box[c].search BY <1>3, SentIs
  <2>3. Merged(c)' = Merged(c) BY <2>2 DEF Merged, MergeSearchGroups
  <2>. QED BY <1>2, <2>1, <2>2, <2>3 DEF SearchFits
<1>4. CASE SearchSends(c)
  <2>1. sub'[c].seq = session.seq /\ sub'[c].done = session.done /\ sub'[c].truncated = session.truncated BY <1>1, <1>4, KnowsIs
  <2>2. /\ box'[c].search.done <=> (box[c].search.done \/ session.done)
        /\ box'[c].search.truncated <=> (box[c].search.truncated \/ session.truncated)
        /\ \A g \in Groups : box'[c].search.groups[g] = IF Delta(sub[c].seq)[g] # 0 THEN Delta(sub[c].seq)[g] ELSE box[c].search.groups[g]
    BY <1>1, <1>4, SearchSentIs
  <2>3. ~browser.search.done BY <1>1, <1>4, EndIsSentOnce
  <2>4. ASSUME NEW g \in Groups PROVE Merged(c)'[g] = session.groups[g]
    <3>1. Merged(c)'[g] = IF box'[c].search.groups[g] # 0 THEN box'[c].search.groups[g] ELSE browser.search.groups[g]
      BY DEF Merged, MergeSearchGroups
    <3>2. Merged(c)[g] = IF box[c].search.groups[g] # 0 THEN box[c].search.groups[g] ELSE browser.search.groups[g]
      BY DEF Merged, MergeSearchGroups
    <3>3. session.groups[g] \in Nat /\ sub[c].seq \in Nat BY FeedIs DEF Subscribers
    <3>4. Delta(sub[c].seq)[g] = IF session.groups[g] > sub[c].seq THEN session.groups[g] ELSE 0 BY DEF Delta
    <3>5. CASE session.groups[g] > sub[c].seq
      <4>1. Delta(sub[c].seq)[g] = session.groups[g] /\ session.groups[g] # 0 BY <3>3, <3>4, <3>5
      <4>. QED BY <2>2, <3>1, <4>1
    <3>6. CASE session.groups[g] <= sub[c].seq
      <4>1. Delta(sub[c].seq)[g] = 0 BY <3>3, <3>4, <3>6
      <4>2. Merged(c)[g] = session.groups[g] BY <1>1, <1>2, <3>6 DEF SearchFits
      <4>. QED BY <2>2, <3>1, <3>2, <4>1, <4>2
    <3>. QED BY <3>3, <3>5, <3>6
  <2>5. (sub[c].done => session.done) /\ (sub[c].truncated => session.truncated) /\ (browser.search.done \/ box[c].search.done => sub[c].done)
        /\ (sub[c].truncated <=> (browser.search.truncated \/ box[c].search.truncated))
    BY <1>1, <1>2 DEF SearchFits
  <2>. QED BY <2>1, <2>2, <2>3, <2>4, <2>5 DEF SearchFits
<1>. QED BY <1>3, <1>4
LEMMA SamplesFitAgain ==
  ASSUME FeedInv, NEW c \in Conns, Following(c), NEW t \in Running,
         box'[c] = Sent(c, t), sub'[c] = Knows(c, t), browser' = browser
  PROVE  SamplesFit(c)'
<1>1. SamplesFit(c) BY FeedIs DEF FramesFit
<1>2. PICK p, b, f, s, m : /\ p = browser.samples /\ b = box[c].samples /\ f = Fresh(c, t) /\ s = sub[c].sample /\ m = Knows(c, t).sample
OBVIOUS
<1>3. p \in Seq(Nat) /\ b \in Seq(Nat) /\ s \in Nat BY <1>2, FeedIs DEF Boxes, Subscribers
<1>4. /\ f \in Seq(Nat) /\ Rises(f) /\ m \in Nat /\ s <= m /\ \A n \in Nat : n \in Range(f) <=> (s < n /\ n <= m)
BY <1>2, FreshIs
<1>5. Rises(p) /\ Rises(b) /\ Before(p, b) /\ \A n \in Range(p) \cup Range(b) : n <= s BY <1>1, <1>2 DEF SamplesFit
<1>6. \A n \in 1 .. s : n > s - ThroughputCap => n \in Range(p) \cup Range(b) BY <1>1, <1>2 DEF SamplesFit
<1>7. Range(p) \subseteq Nat /\ Range(b) \subseteq Nat /\ Range(f) \subseteq Nat
  <2>1. ASSUME NEW z \in Seq(Nat) PROVE Range(z) \subseteq Nat
    <3>1. \A i \in DOMAIN z : z[i] \in Nat BY LenProperties
    <3>. QED BY <3>1 DEF Range
  <2>. QED BY <1>3, <1>4, <2>1
<1>8. \A x \in Range(b), y \in Range(f) : x < y
  <2>1. ASSUME NEW x \in Range(b), NEW y \in Range(f) PROVE x < y
    <3>1. x \in Nat /\ y \in Nat /\ x <= s /\ s < y BY <1>4, <1>5, <1>7
    <3>. QED BY <1>3, <3>1
  <2>. QED BY <2>1
<1>9. Before(b, f) BY <1>3, <1>4, <1>8, BeforeIs
<1>10. \A x \in Range(p) \cup Range(b) : x <= m
  <2>1. ASSUME NEW x \in Range(p) \cup Range(b) PROVE x <= m
    <3>1. x \in Nat /\ x <= s BY <1>5, <1>7
    <3>. QED BY <1>3, <1>4, <3>1
  <2>. QED BY <2>1
<1>11. \A x \in Range(f) : x <= m BY <1>4, <1>7
<1>12. PICK u : u = MergeThroughput(b, f) OBVIOUS
<1>13. /\ u \in Seq(Nat) /\ Rises(u) /\ Range(u) \subseteq Range(b) \cup Range(f)
       /\ \A x \in Range(b) \cup Range(f) : x > m - ThroughputCap => x \in Range(u)
  <2>1. \A x \in Range(b) \cup Range(f) : x <= m BY <1>10, <1>11
  <2>. QED BY <1>3, <1>4, <1>5, <1>9, <1>12, <2>1, MergedSamples
<1>14. Before(p, u)
  <2>1. ASSUME NEW x \in Range(p), NEW y \in Range(u) PROVE x < y
    <3>1. CASE y \in Range(b) BY <1>3, <1>5, <3>1, BeforeIs
    <3>2. CASE y \in Range(f)
      <4>1. x \in Nat /\ y \in Nat /\ x <= s /\ s < y BY <1>4, <1>5, <1>7, <3>2
      <4>. QED BY <1>3, <4>1
    <3>. QED BY <1>13, <3>1, <3>2
  <2>. QED BY <1>3, <1>13, <2>1, BeforeIs
<1>15. ASSUME NEW n \in 1 .. m, n > m - ThroughputCap PROVE n \in Range(p) \cup Range(u)
  <2>0. n \in Nat /\ ThroughputCap \in Nat /\ 1 <= n /\ n <= m BY <1>4, StreamAssumption
  <2>1. CASE n <= s
    <3>1. n \in 1 .. s /\ n > s - ThroughputCap BY <1>3, <1>4, <1>15, <2>0, <2>1
    <3>2. n \in Range(p) \cup Range(b) BY <1>6, <3>1
    <3>. QED BY <1>13, <1>15, <3>2
  <2>2. CASE s < n
    <3>1. n \in Range(f) BY <1>4, <2>0, <2>2
    <3>. QED BY <1>13, <1>15, <3>1
  <2>3. n <= s \/ s < n BY <1>3, <2>0
  <2>. QED BY <2>1, <2>2, <2>3
<1>16. browser'.samples = p /\ box'[c].samples = u /\ sub'[c].sample = m BY <1>2, <1>12, SentIs
<1>17. \A n \in Range(p) \cup Range(u) : n <= m BY <1>10, <1>11, <1>13
<1>. QED BY <1>5, <1>13, <1>14, <1>15, <1>16, <1>17 DEF SamplesFit
LEMMA TickSendsKeeps == ASSUME FeedInv, NEW k \in Conns, TickSends(k) PROVE FeedInv'
<1>1. PICK t : t = runs[k] OBVIOUS
<1>2. /\ runs' = [runs EXCEPT ![k] = NoRead] /\ UNCHANGED <<db, session, hub, subs, ticker, conn, browser>>
      /\ IF ticker # k THEN box' = box /\ sub' = sub
         ELSE /\ box' = [c \in Conns |-> IF c \in subs THEN Sent(c, t) ELSE box[c]]
              /\ sub' = [c \in Conns |-> IF c \in subs THEN Knows(c, t) ELSE sub[c]]
BY <1>1 DEF TickSends, SubsUnchanged, SourcesUnchanged, HubUnchanged
<1>3. t \in Running /\ t.jobsGen <= hub.jobsGen /\ t.uploadsGen <= hub.uploadsGen /\ t.samples <= db.samples BY <1>1, FeedIs DEF NothingAhead
<1>4. NoRead \in Running /\ NoRead.jobsGen = 0 /\ NoRead.uploadsGen = 0 /\ NoRead.samples = 0 BY ConstantsAre DEF NoRead
<1>5. hub.jobsGen \in Nat /\ hub.uploadsGen \in Nat /\ db.samples \in Nat BY FeedIs
<1>6. runs' \in [Conns -> Running] /\ runs'[k] = NoRead /\ \A c \in Conns \ {k} : runs'[c] = runs[c] BY <1>2, <1>4, FeedIs
<1>7. \A c \in Conns : \/ box'[c] = box[c] /\ sub'[c] = sub[c]
                       \/ box'[c] = Sent(c, t) /\ sub'[c] = Knows(c, t)
  <2>1. CASE ticker # k BY <1>2, <2>1
  <2>2. CASE ticker = k BY <1>2, <2>2
  <2>. QED BY <2>1, <2>2
<1>8. \A c \in Conns : Sent(c, t) \in Boxes /\ Knows(c, t) \in Subscribers BY <1>3, SentIs, KnowsIs
<1>9. box' \in [Conns -> Boxes] /\ sub' \in [Conns -> Subscribers]
  <2>1. CASE ticker # k BY <1>2, <2>1, FeedIs
  <2>2. CASE ticker = k
    <3>1. box' = [c \in Conns |-> IF c \in subs THEN Sent(c, t) ELSE box[c]] /\ sub' = [c \in Conns |-> IF c \in subs THEN Knows(c, t) ELSE sub[c]]
      BY <1>2, <2>2
    <3>2. \A c \in Conns : (IF c \in subs THEN Sent(c, t) ELSE box[c]) \in Boxes BY <1>8, FeedIs
    <3>3. \A c \in Conns : (IF c \in subs THEN Knows(c, t) ELSE sub[c]) \in Subscribers BY <1>8, FeedIs
    <3>. QED BY <3>1, <3>2, <3>3
  <2>. QED BY <2>1, <2>2
<1>10. FeedTypes' BY <1>2, <1>6, <1>9, FeedIs DEF FeedTypes, SourceTypes, HubTypes, PageTypes
<1>11. SessionIsWhole' /\ SubsAreOpen' /\ NothingBeforehand' BY <1>2, FeedIs DEF SessionIsWhole, SubsAreOpen, NothingBeforehand
<1>12. ASSUME NEW c \in Conns
       PROVE  /\ sub'[c].jobsGen <= hub.jobsGen /\ sub'[c].uploadsGen <= hub.uploadsGen /\ sub'[c].sample <= db.samples /\ sub'[c].seq <= session.seq
              /\ runs'[c].jobsGen <= hub.jobsGen /\ runs'[c].uploadsGen <= hub.uploadsGen /\ runs'[c].samples <= db.samples
  <2>1. sub'[c].jobsGen <= hub.jobsGen /\ sub'[c].uploadsGen <= hub.uploadsGen /\ sub'[c].sample <= db.samples /\ sub'[c].seq <= session.seq
    <3>1. CASE sub'[c] = sub[c] BY <3>1, FeedIs DEF NothingAhead
    <3>2. CASE sub'[c] = Knows(c, t) BY <1>3, <3>2, KnowsIs
    <3>. QED BY <1>7, <3>1, <3>2
  <2>2. runs'[c].jobsGen <= hub.jobsGen /\ runs'[c].uploadsGen <= hub.uploadsGen /\ runs'[c].samples <= db.samples
    <3>1. CASE c = k BY <1>4, <1>5, <1>6, <3>1
    <3>2. CASE c # k BY <1>6, <3>2, FeedIs DEF NothingAhead
    <3>. QED BY <3>1, <3>2
  <2>. QED BY <2>1, <2>2
<1>13. NothingAhead' BY <1>2, <1>12 DEF NothingAhead
<1>14. ExpiredIsGone'
  <2>1. ASSUME NEW c \in Conns PROVE (box'[c].search.expired => session.gone) /\ (~box'[c].search.sent => box'[c].search = NoPayload)
    <3>1. CASE box'[c] = box[c] BY <3>1, FeedIs DEF ExpiredIsGone
    <3>2. CASE box'[c] = Sent(c, t) BY <1>3, <3>2, SentIs
    <3>. QED BY <1>7, <3>1, <3>2
  <2>. QED BY <1>2, <2>1, FeedIs DEF ExpiredIsGone
<1>15. ASSUME NEW c \in Conns, Following(c) PROVE SearchFits(c)' /\ SamplesFit(c)'
  <2>1. CASE box'[c] = box[c] /\ sub'[c] = sub[c] BY <1>2, <1>15, <2>1, FramesStay DEF SameFrames
  <2>2. CASE box'[c] = Sent(c, t) /\ sub'[c] = Knows(c, t) BY <1>2, <1>3, <1>15, <2>2, SearchFitsAgain, SamplesFitAgain
  <2>. QED BY <1>7, <2>1, <2>2
<1>16. FramesFit' BY <1>2, <1>15 DEF FramesFit, Following
<1>. QED BY <1>10, <1>11, <1>13, <1>14, <1>16 DEF FeedInv
(***************************************************************************)
(* The event stream: the theorem                                           *)
(***************************************************************************)
LEMMA FeedInit == Init => FeedInv
<1>. SUFFICES ASSUME Init PROVE FeedInv OBVIOUS
<1>1. [NoRead EXCEPT !.at = "closed"] \in Handling /\ [NoRead EXCEPT !.at = "closed"].at = "closed" BY ConstantsAre DEF Handling, Reading
<1>2. /\ db.rows = [r \in Rows |-> 1] /\ db = [rows |-> [r \in Rows |-> 1], uploads |-> 1, samples |-> 0] /\ [r \in Rows |-> 1] \in RowTypes
BY DEF Init, RowTypes
<1>3. SourceTypes BY <1>2, ConstantsAre DEF Init, SourceTypes
<1>4. conn = [c \in Conns |-> [NoRead EXCEPT !.at = "closed"]] BY DEF Init
<1>5. conn \in [Conns -> Handling] /\ \A c \in Conns : conn[c].at = "closed" BY <1>1, <1>4
<1>6. hub \in [jobsGen : Nat, uploadsGen : Nat, known : BOOLEAN, fp : Prints, covers : SUBSET Conns] BY ConstantsAre DEF Init, Prints
<1>7. ticker \in Conns \cup {0} /\ runs \in [Conns -> Running] /\ subs \subseteq Conns BY ConstantsAre DEF Init
<1>8. PageTypes BY ConstantsAre, NothingRises DEF Init, PageTypes
<1>9. FeedTypes BY <1>3, <1>5, <1>6, <1>7, <1>8 DEF FeedTypes, HubTypes
<1>10. SessionIsWhole BY DEF Init, SessionIsWhole, NoGroups
<1>11. SubsAreOpen BY <1>5 DEF Init, SubsAreOpen
<1>12. NothingAhead BY DEF Init, NothingAhead, NewSub, NoRead
<1>13. ExpiredIsGone BY DEF Init, ExpiredIsGone, EmptyBox, NoPayload
<1>14. NothingBeforehand BY DEF Init, NothingBeforehand
<1>15. FramesFit BY <1>5 DEF FramesFit, Following
<1>. QED BY <1>9, <1>10, <1>11, <1>12, <1>13, <1>14, <1>15 DEF FeedInv
LEMMA FeedStep == ASSUME FeedInv, Next PROVE FeedInv'
<1>1. ASSUME NEW r \in Rows, JobChanges(r) PROVE FeedInv' BY <1>1, JobChangesKeeps
<1>2. CASE UploadRecorded \/ SampleTaken BY <1>2, CountsKeep
<1>3. CASE SessionFinishes \/ SessionExpires BY <1>3, SessionEndsKeep
<1>4. ASSUME NEW gs \in SUBSET Groups, SessionAccepts(gs) PROVE FeedInv' BY <1>4, SessionAcceptsKeeps
<1>6. ASSUME NEW c \in Conns, Open(c) \/ Handler(c) \/ IntervalPasses(c) PROVE FeedInv'
BY <1>6, OpenKeeps, SubscribeReadsKeeps, SubscribeStoresKeeps, SubscribeSnapshotsKeeps, SubscribeInsertsKeeps, UnsubscribeKeeps, IntervalKeeps DEF Handler
<1>7. ASSUME NEW k \in Conns, CorrelationReads(k) \/ CorrelationStores(k) \/ TickReads(k) \/ TickSends(k) PROVE FeedInv'
BY <1>7, CorrelationReadsKeeps, CorrelationStoresKeeps, TickReadsKeeps, TickSendsKeeps
<1>8. ASSUME NEW c \in Conns, WritesLive(c) \/ WritesSamples(c) \/ WritesSearch(c) \/ WritesInvalidate(c) PROVE FeedInv'
BY <1>8, WritesOthersKeep, WritesSamplesKeeps, WritesSearchKeeps
<1>. QED BY <1>1, <1>2, <1>3, <1>4, <1>6, <1>7, <1>8 DEF Next
LEMMA FeedStutters == ASSUME FeedInv, UNCHANGED streamVars PROVE FeedInv'
<1>1. UNCHANGED <<db, session, hub, subs, ticker, runs, conn, sub, box, browser>> BY DEF streamVars
<1>2. SourceTypes' /\ HubTypes' /\ PageTypes' BY <1>1, FeedIs DEF SourceTypes, HubTypes, PageTypes
<1>3. SessionIsWhole' /\ SubsAreOpen' /\ NothingAhead' /\ ExpiredIsGone' /\ NothingBeforehand'
BY <1>1, FeedIs DEF SessionIsWhole, SubsAreOpen, NothingAhead, ExpiredIsGone, NothingBeforehand
<1>4. FramesFit' BY <1>1, FramesStay DEF FramesFit, Following, SameFrames
<1>. QED BY <1>2, <1>3, <1>4 DEF FeedInv, FeedTypes
\* The frames on their way and those that were read make one whole.
LEMMA FeedHolds == ASSUME FeedInv PROVE StreamIsSound
<1>1. StreamTypeOK BY FeedIs DEF StreamTypeOK, SubsAreOpen, NothingAhead, ExpiredIsGone
<1>2. EndedMeansAll
  <2>1. SUFFICES ASSUME browser.search.done, ~session.gone
                 PROVE browser.search.groups = session.groups /\ browser.search.truncated = session.truncated
    BY DEF EndedMeansAll
  <2>2. PICK c : c = browser.conn OBVIOUS
  <2>3. c \in Conns /\ Following(c)
    <3>1. c \in subs BY <2>1, <2>2, FeedIs DEF NothingBeforehand, NoPayload
    <3>. QED BY <2>2, <3>1, FeedIs DEF SubsAreOpen, Following
  <2>4. SearchFits(c) BY <2>3, FeedIs DEF FramesFit
  <2>5. /\ sub[c].seq = session.seq /\ sub[c].truncated = session.truncated /\ box[c].search.groups = NoGroups /\ ~box[c].search.truncated
        /\ (sub[c].truncated <=> browser.search.truncated)
    BY <2>1, <2>4 DEF SearchFits
  <2>6. browser.search \in Payloads /\ session.groups \in [Groups -> Nat] /\ session.truncated \in BOOLEAN /\ session.seq \in Nat BY FeedIs
  <2>7. ASSUME NEW g \in Groups PROVE browser.search.groups[g] = session.groups[g]
    <3>1. session.groups[g] <= sub[c].seq BY <2>5, FeedIs DEF SessionIsWhole
    <3>2. Merged(c)[g] = session.groups[g] BY <2>1, <2>4, <3>1 DEF SearchFits
    <3>3. Merged(c)[g] = browser.search.groups[g] BY <2>5 DEF Merged, MergeSearchGroups, NoGroups
    <3>. QED BY <3>2, <3>3
  <2>8. browser.search.groups = session.groups BY <2>6, <2>7 DEF Payloads
  <2>9. browser.search.truncated = session.truncated BY <2>5, <2>6 DEF Payloads
  <2>. QED BY <2>8, <2>9
<1>3. SamplesInOrder
  <2>0. SUFFICES ASSUME NEW c \in subs, browser.conn = c
                 PROVE  /\ \A i \in 1 .. Len(browser.samples \o box[c].samples) - 1 :
                             (browser.samples \o box[c].samples)[i] < (browser.samples \o box[c].samples)[i + 1]
                        /\ \A n \in 1 .. sub[c].sample : n > sub[c].sample - ThroughputCap =>
                             \E i \in DOMAIN (browser.samples \o box[c].samples) : (browser.samples \o box[c].samples)[i] = n
    BY DEF SamplesInOrder
  <2>1. PICK s : s = browser.samples \o box[c].samples OBVIOUS
  <2>2. c \in Conns /\ Following(c) BY <2>0, FeedIs DEF SubsAreOpen, Following
  <2>3. SamplesFit(c) BY <2>2, FeedIs DEF FramesFit
  <2>4. browser.samples \in Seq(Nat) /\ box[c].samples \in Seq(Nat) BY <2>2, FeedIs DEF Boxes
  <2>5. s \in Seq(Nat) /\ Rises(s) /\ Range(s) = Range(browser.samples) \cup Range(box[c].samples)
    BY <2>1, <2>3, <2>4, ConcatRises, ConcatRange DEF SamplesFit
  <2>6. Len(s) \in Nat /\ DOMAIN s = 1 .. Len(s) BY <2>5, LenProperties
  <2>7. ASSUME NEW i \in 1 .. Len(s) - 1 PROVE s[i] < s[i + 1]
    <3>1. i \in DOMAIN s /\ i + 1 \in DOMAIN s /\ i < i + 1 BY <2>6
    <3>. QED BY <2>5, <3>1 DEF Rises
  <2>8. ASSUME NEW n \in 1 .. sub[c].sample, n > sub[c].sample - ThroughputCap PROVE \E i \in DOMAIN s : s[i] = n
    <3>1. n \in Range(s) BY <2>3, <2>5, <2>8 DEF SamplesFit
    <3>. QED BY <3>1 DEF Range
  <2>. QED BY <2>1, <2>7, <2>8
<1>. QED BY <1>1, <1>2, <1>3 DEF StreamIsSound
LEMMA FeedAlways == StreamsSpec => []FeedInv
<1>1. StreamsInit => FeedInv BY FeedInit DEF StreamsInit
<1>2. FeedInv /\ [StreamsNext]_vars => FeedInv'
  <2>1. SUFFICES ASSUME FeedInv, [StreamsNext]_vars PROVE FeedInv' OBVIOUS
  <2>2. CASE Next BY <2>1, <2>2, FeedStep
  <2>3. CASE UNCHANGED streamVars BY <2>1, <2>3, FeedStutters
  <2>4. Next \/ UNCHANGED streamVars BY <2>1 DEF StreamsNext, vars
  <2>. QED BY <2>2, <2>3, <2>4
<1>. QED BY <1>1, <1>2, PTL DEF StreamsSpec
\* A page that is told a search has ended has all its groups, and its samples come in order with none of the newest ones missing,
\* whatever was merged in a channel and whoever connected or left meanwhile; there is a ticker while somebody has subscribed.
THEOREM StreamHolds == StreamsSpec => []StreamIsSound
<1>1. FeedInv => StreamIsSound BY FeedHolds
<1>. QED BY <1>1, FeedAlways, PTL
=============================================================================
