------------------------------ MODULE Tree_proofs ------------------------------
(* What DistributedTree guarantees for every set of users, every scope and   *)
(* every capacity: what members, children and the server were told.          *)
EXTENDS MCNetwork, SequenceTheorems, FiniteSetTheorems, TLAPS

Folk == Parents \cup Kids
Places == [level : 0 .. 2, root : Folk \cup {None, Me, Far}]
Trees == [active : BOOLEAN, gen : 0 .. scope.gens, epoch : Nat, cancel : Nat, users : SUBSET Parents, parent : Parents \cup {None},
          level : 0 .. 1, serverParent : BOOLEAN, branch : Places, capacity : 0 .. MaxCapacity, accept : SUBSET BOOLEAN]
Candidates == [epoch : Nat, level : {-1, 0, 1}, root : Folk \cup {None, Me, Far}, search : BOOLEAN]
Tries == [user : Parents, epoch : Nat \ {0}, gen : Nat, at : {"dial", "dialing", "claim", "wait"}]
Kinds == {"noParent", "accept"}
NoCand == [epoch |-> 0, level |-> -1, root |-> None, search |-> FALSE]

\* What the variables can hold.
PlaceTypes == scope \in Scopes /\ tree \in Trees /\ children \in SUBSET Kids
CandTypes == cand \in [Folk -> Candidates]
LifeTypes == peerLife \in [Folk -> {"off", "up", "closing"}] /\ hook \in SUBSET Folk /\ leaving \in SUBSET Folk /\ sgen \in [Folk -> 0 .. scope.gens]
ReadTypes == reader \in [Folk -> {"idle", "frame", "promote"}]
TryTypes == workers \in SUBSET Tries
HeardTypes == heard \in [Folk -> Places]
OutTypes == out \in [Folk \cup {"server"} -> Seq(Kinds \X BOOLEAN)] /\ told \in [Kinds -> BOOLEAN] /\ link \in {"up", "lost", "down"} /\ raced \in SUBSET Kinds
PlacesAreTyped == PlaceTypes /\ CandTypes /\ LifeTypes /\ ReadTypes /\ TryTypes /\ HeardTypes /\ OutTypes

\* The tree lives as long as the server session; only an active tree without a parent has candidates, and only parents are tried.
ActiveWhile == (tree.active <=> link # "down") /\ (tree.active => tree.gen > 0)
NoRivals == \A s \in Folk : cand[s] # NoCand => s \in Parents /\ tree.active /\ tree.parent = None /\ ~tree.serverParent
OwnBranch == tree.serverParent => tree.parent = None /\ tree.branch = [level |-> 0, root |-> Me]
OffHasNoGen == \A s \in Folk : peerLife[s] = "off" => sgen[s] = 0

\* The list being tried, and its workers: one per user and list, of which one dials.
OneList == /\ tree.cancel \in {0, tree.epoch}
           /\ tree.parent # None => tree.cancel = 0 /\ tree.users = {}
           /\ tree.users # {} => tree.cancel = tree.epoch \/ \A w \in workers : w.epoch # tree.epoch
OneTry == \A w \in workers : w.epoch <= tree.epoch /\ \A v \in workers : v.user = w.user /\ v.epoch = w.epoch => v = w
OneDial == \A v \in workers : v.at = "dialing" =>
  /\ peerLife[v.user] # "up"
  /\ \A w \in workers : w.user = v.user /\ (w.at = "dialing" \/ (w.epoch = tree.epoch /\ w.at # "dial")) => w = v
WaitsAfterHook == \A w \in workers : w.at = "wait" => w.user \notin hook
Tried(s) == \E w \in workers : w.user = s /\ w.epoch = tree.epoch
UsersTried == \A s \in tree.users :
  Tried(s) \/ ((s \notin hook \/ peerLife[s] # "up") /\ \A v \in workers : v.user = s => v.at # "dialing")
CandidatesTried == \A s \in Folk : cand[s] # NoCand /\ cand[s].epoch = tree.epoch /\ peerLife[s] = "up" /\ s \notin leaving => Tried(s)

MembersStay == Tree!MembersHaveSessions
BranchHeard == Tree!ChildrenKnowBranch
AcceptKept == Tree!AcceptIsCurrent

\* Of a kind of report that was not raced one goroutine has some to send, and the last of them is the present state of the tree.
Has(t, k) == \E i \in DOMAIN out[t] : out[t][i][1] = k
Last(t, k, i) == i \in DOMAIN out[t] /\ out[t][i][1] = k /\ \A n \in DOMAIN out[t] : n > i => out[t][n][1] # k
UptoDate(o, ts, k, v) ==
  LET has(t) == \E i \in DOMAIN o[t] : o[t][i][1] = k
  IN /\ \A t, u \in DOMAIN o : has(t) /\ has(u) => t = u
     /\ (\A t \in DOMAIN o : ~has(t)) => ts[k] = v
     /\ \A t \in DOMAIN o : \A i \in DOMAIN o[t] : o[t][i][1] = k /\ (\A n \in DOMAIN o[t] : n > i => o[t][n][1] # k) => o[t][i][2] = v
Upto(k, v) == UptoDate(out, told, k, v)
Wanted(k) == IF k = "noParent" THEN tree.parent = None ELSE tree.accept = {TRUE}
ReportsFollow == link = "up" => \A k \in Kinds \ raced : Upto(k, Wanted(k))

TreeInv == /\ PlacesAreTyped /\ ActiveWhile /\ NoRivals /\ OwnBranch /\ OffHasNoGen /\ OneList /\ OneTry /\ OneDial /\ WaitsAfterHook
           /\ UsersTried /\ CandidatesTried /\ MembersStay /\ BranchHeard /\ AcceptKept /\ ReportsFollow

LEMMA TreeSets ==
  ASSUME NEW t \in Trees
  PROVE  /\ \A x \in BOOLEAN : [t EXCEPT !.active = x] \in Trees
         /\ \A x \in 0 .. scope.gens : [t EXCEPT !.gen = x] \in Trees
         /\ \A x \in Nat : [t EXCEPT !.epoch = x] \in Trees
         /\ \A x \in Nat : [t EXCEPT !.cancel = x] \in Trees
         /\ \A x \in SUBSET Parents : [t EXCEPT !.users = x] \in Trees
         /\ \A x \in Parents \cup {None} : [t EXCEPT !.parent = x] \in Trees
         /\ \A x \in 0 .. 1 : [t EXCEPT !.level = x] \in Trees
         /\ \A x \in BOOLEAN : [t EXCEPT !.serverParent = x] \in Trees
         /\ \A x \in Places : [t EXCEPT !.branch = x] \in Trees
         /\ \A x \in 0 .. MaxCapacity : [t EXCEPT !.capacity = x] \in Trees
         /\ \A x \in SUBSET BOOLEAN : [t EXCEPT !.accept = x] \in Trees
<1>. USE DEF Trees
<1>1. \A x \in BOOLEAN : [t EXCEPT !.active = x] \in Trees OBVIOUS
<1>2. \A x \in 0 .. scope.gens : [t EXCEPT !.gen = x] \in Trees OBVIOUS
<1>3. \A x \in Nat : [t EXCEPT !.epoch = x] \in Trees OBVIOUS
<1>4. \A x \in Nat : [t EXCEPT !.cancel = x] \in Trees OBVIOUS
<1>5. \A x \in SUBSET Parents : [t EXCEPT !.users = x] \in Trees OBVIOUS
<1>6. \A x \in Parents \cup {None} : [t EXCEPT !.parent = x] \in Trees OBVIOUS
<1>7. \A x \in 0 .. 1 : [t EXCEPT !.level = x] \in Trees OBVIOUS
<1>8. \A x \in BOOLEAN : [t EXCEPT !.serverParent = x] \in Trees OBVIOUS
<1>9. \A x \in Places : [t EXCEPT !.branch = x] \in Trees OBVIOUS
<1>10. \A x \in 0 .. MaxCapacity : [t EXCEPT !.capacity = x] \in Trees OBVIOUS
<1>11. \A x \in SUBSET BOOLEAN : [t EXCEPT !.accept = x] \in Trees OBVIOUS
<1>. QED BY <1>1, <1>2, <1>3, <1>4, <1>5, <1>6, <1>7, <1>8, <1>9, <1>10, <1>11
LEMMA ForgetsIs ==
  ASSUME NEW t \in Trees
  PROVE  LET f == Tree!Forgets(t)
         IN /\ f \in Trees /\ f.active = t.active /\ f.gen = t.gen /\ f.epoch = t.epoch + 1 /\ f.cancel = 0 /\ f.users = {} /\ f.parent = None
            /\ f.level = 0 /\ f.serverParent = FALSE /\ f.branch = [level |-> 0, root |-> Me] /\ f.capacity = t.capacity /\ f.accept = t.accept
<1>. DEFINE e == t.epoch + 1  b == [level |-> 0, root |-> Me]
            f == [t EXCEPT !.epoch = e, !.cancel = 0, !.users = {}, !.parent = None, !.level = 0, !.serverParent = FALSE, !.branch = b]
<1>1. e \in Nat /\ b \in Places BY DEF Trees, Places
<1>2. Tree!Forgets(t) = f BY DEF Tree!Forgets
<1>. HIDE DEF e, b
<1>3. f \in Trees
  <2>. DEFINE f1 == [t EXCEPT !.epoch = e]  f2 == [f1 EXCEPT !.cancel = 0]  f3 == [f2 EXCEPT !.users = {}]  f4 == [f3 EXCEPT !.parent = None]
              f5 == [f4 EXCEPT !.level = 0]  f6 == [f5 EXCEPT !.serverParent = FALSE]  f7 == [f6 EXCEPT !.branch = b]
  <2>1. f = f7 OBVIOUS
  <2>2. f1 \in Trees BY <1>1, TreeSets
  <2>. HIDE DEF f1
  <2>3. f2 \in Trees BY <2>2, TreeSets
  <2>. HIDE DEF f2
  <2>4. f3 \in Trees BY <2>3, TreeSets
  <2>. HIDE DEF f3
  <2>5. f4 \in Trees BY <2>4, TreeSets
  <2>. HIDE DEF f4
  <2>6. f5 \in Trees BY <2>5 DEF Trees
  <2>. HIDE DEF f5
  <2>7. f6 \in Trees BY <2>6, TreeSets
  <2>. HIDE DEF f6
  <2>8. f7 \in Trees BY <1>1, <2>7, TreeSets
  <2>. QED BY <2>1, <2>8
<1>4. f.active = t.active /\ f.gen = t.gen /\ f.epoch = e /\ f.cancel = 0 /\ f.users = {} /\ f.parent = None
      /\ f.level = 0 /\ f.serverParent = FALSE /\ f.branch = b /\ f.capacity = t.capacity /\ f.accept = t.accept
BY DEF Trees
<1>. HIDE DEF f
<1>. QED BY <1>2, <1>3, <1>4 DEF e, b
LEMMA NotedIs ==
  ASSUME NEW t \in Trees, NEW kids
  PROVE  LET f == Tree!Noted(t, kids)
         IN /\ f \in Trees /\ f.active = t.active /\ f.gen = t.gen /\ f.epoch = t.epoch /\ f.cancel = t.cancel /\ f.users = t.users
            /\ f.parent = t.parent /\ f.level = t.level /\ f.serverParent = t.serverParent /\ f.branch = t.branch /\ f.capacity = t.capacity
            /\ f.accept = {Tree!Accepts(t, kids)} /\ Tree!Accepts(t, kids) \in BOOLEAN
<1>1. Tree!Accepts(t, kids) \in BOOLEAN BY DEF Tree!Accepts
<1>. QED BY <1>1 DEF Tree!Noted, Trees
LEMMA UntoldIs == Tree!Untold \in [Kinds -> BOOLEAN] /\ \A k \in Kinds : Tree!Untold[k] = FALSE
<1>1. Tree!Untold = [k \in Kinds |-> FALSE] BY DEF Tree!Untold, Kinds
<1>2. [k \in Kinds |-> FALSE] \in [Kinds -> BOOLEAN] OBVIOUS
<1>3. \A k \in Kinds : [x \in Kinds |-> FALSE][k] = FALSE OBVIOUS
<1>. QED BY <1>1, <1>2, <1>3
LEMMA ReportsTypes ==
  ASSUME OutTypes, NEW t \in DOMAIN out, NEW ms \in Seq(Kinds \X BOOLEAN), Tree!Reports(t, ms)
  PROVE  /\ out' \in [Folk \cup {"server"} -> Seq(Kinds \X BOOLEAN)] /\ raced' \in SUBSET Kinds
         /\ out'[t] = out[t] \o ms /\ \A u \in DOMAIN out : u # t => out'[u] = out[u]
<1>1. t \in Folk \cup {"server"} /\ out[t] \in Seq(Kinds \X BOOLEAN) BY DEF OutTypes
<1>2. out[t] \o ms \in Seq(Kinds \X BOOLEAN) BY <1>1
<1>3. out' = [out EXCEPT ![t] = out[t] \o ms] BY DEF Tree!Reports
<1>4. raced' \in SUBSET Kinds BY DEF Tree!Reports, OutTypes, Kinds
<1>. HIDE DEF Kinds
<1>. QED BY <1>1, <1>2, <1>3, <1>4 DEF OutTypes
LEMMA ReportsKeep ==
  ASSUME OutTypes, NEW t \in DOMAIN out, NEW ms \in Seq(Kinds \X BOOLEAN), Tree!Reports(t, ms), told' = told,
         NEW k \in Kinds, k \notin raced', NEW v, NEW w, k \notin raced => Upto(k, v),
         (\A i \in DOMAIN ms : ms[i][1] # k) => w = v,
         \A i \in DOMAIN ms : ms[i][1] = k /\ (\A n \in DOMAIN ms : n > i => ms[n][1] # k) => ms[i][2] = w
  PROVE  UptoDate(out', told', k, w)
<1>1. /\ out' \in [Folk \cup {"server"} -> Seq(Kinds \X BOOLEAN)]
      /\ out'[t] = out[t] \o ms /\ \A u \in DOMAIN out : u # t => out'[u] = out[u]
BY ReportsTypes
<1>. USE DEF Last
<1>2. /\ k \notin raced
      /\ (\E i \in DOMAIN ms : ms[i][1] = k) => \A u \in DOMAIN out : u # t => ~Has(u, k)
BY DEF Tree!Reports, Has, Kinds
<1>3. Upto(k, v) BY <1>2
<1>4. DOMAIN out' = DOMAIN out /\ out[t] \in Seq(Kinds \X BOOLEAN) /\ ms \in Seq(Kinds \X BOOLEAN) BY <1>1 DEF OutTypes
<1>5. /\ DOMAIN out'[t] = 1 .. Len(out[t]) + Len(ms) /\ DOMAIN out[t] = 1 .. Len(out[t]) /\ DOMAIN ms = 1 .. Len(ms)
      /\ Len(out[t]) \in Nat /\ Len(ms) \in Nat
      /\ \A i \in 1 .. Len(out[t]) : out'[t][i] = out[t][i]
      /\ \A i \in 1 .. Len(ms) : out'[t][Len(out[t]) + i] = ms[i]
      /\ \A i \in 1 .. Len(out[t]) + Len(ms) : i \notin 1 .. Len(out[t]) => i - Len(out[t]) \in 1 .. Len(ms) /\ out'[t][i] = ms[i - Len(out[t])]
BY <1>1, <1>4
<1>6. Has(t, k)' => Has(t, k) \/ \E i \in DOMAIN ms : ms[i][1] = k BY <1>5 DEF Has
<1>7. \A u \in DOMAIN out : u # t => (Has(u, k)' <=> Has(u, k)) BY <1>1 DEF Has
<1>8. \A u1, u2 \in DOMAIN out : Has(u1, k)' /\ Has(u2, k)' => u1 = u2 BY <1>2, <1>3, <1>6, <1>7 DEF Upto, UptoDate, Has
<1>9. (\A u \in DOMAIN out : ~Has(u, k)') => told[k] = w
  <2>1. SUFFICES ASSUME \A u \in DOMAIN out : ~Has(u, k)' PROVE told[k] = w OBVIOUS
  <2>2. \A i \in DOMAIN ms : ms[i][1] # k
    <3>1. SUFFICES ASSUME NEW i \in 1 .. Len(ms), ms[i][1] = k PROVE FALSE BY <1>5
    <3>2. Len(out[t]) + i \in DOMAIN out'[t] /\ out'[t][Len(out[t]) + i][1] = k BY <1>5, <3>1
    <3>. QED BY <2>1, <3>2 DEF Has
  <2>3. ~Has(t, k) BY <2>1, <1>5 DEF Has
  <2>. QED BY <1>3, <1>7, <2>1, <2>2, <2>3 DEF Upto, UptoDate, Has
<1>10. ASSUME NEW u \in DOMAIN out, NEW i \in DOMAIN out'[u], Last(u, k, i)' PROVE out'[u][i][2] = w
  <2>1. CASE u # t
    <3>1. Last(u, k, i) /\ out'[u] = out[u] /\ Has(u, k) BY <1>1, <1>10, <2>1 DEF Has
    <3>2. \A x \in DOMAIN ms : ms[x][1] # k BY <1>2, <2>1, <3>1
    <3>. QED BY <1>3, <3>1, <3>2 DEF Upto, UptoDate, Has
  <2>2. CASE u = t /\ i \in 1 .. Len(out[t])
    <3>1. \A x \in 1 .. Len(ms) : ms[x][1] # k
      <4>1. SUFFICES ASSUME NEW x \in 1 .. Len(ms) PROVE ms[x][1] # k OBVIOUS
      <4>2. Len(out[t]) + x \in DOMAIN out'[t] /\ Len(out[t]) + x > i /\ out'[t][Len(out[t]) + x] = ms[x] BY <1>5, <2>2
      <4>. QED BY <1>10, <2>2, <4>2
    <3>4. i \in DOMAIN out[t] /\ out'[t][i] = out[t][i] /\ out'[t][i][1] = k BY <1>5, <1>10, <2>2
    <3>5. \A n \in DOMAIN out[t] : n \in DOMAIN out'[t] /\ out'[t][n] = out[t][n] BY <1>5
    <3>6. \A n \in DOMAIN out[t] : n > i => out[t][n][1] # k BY <1>10, <2>2, <3>5
    <3>2. Last(t, k, i) BY <3>4, <3>6
    <3>3. w = v BY <1>5, <3>1
    <3>7. out[t][i][2] = v BY <1>3, <3>2 DEF Upto, UptoDate
    <3>. QED BY <2>2, <3>3, <3>4, <3>7
  <2>3. CASE u = t /\ i \notin 1 .. Len(out[t])
    <3>. DEFINE x == i - Len(out[t])
    <3>1. x \in 1 .. Len(ms) /\ out'[t][i] = ms[x] /\ i \in Nat /\ i = x + Len(out[t]) BY <1>5, <1>10, <2>3
    <3>. HIDE DEF x
    <3>2. ms[x][1] = k BY <1>10, <2>3, <3>1
    <3>3. \A n \in 1 .. Len(ms) : n > x => ms[n][1] # k
      <4>1. SUFFICES ASSUME NEW n \in 1 .. Len(ms), n > x PROVE ms[n][1] # k OBVIOUS
      <4>2. Len(out[t]) + n \in DOMAIN out'[t] /\ Len(out[t]) + n > i /\ out'[t][Len(out[t]) + n] = ms[n] BY <1>5, <3>1, <4>1
      <4>. QED BY <1>10, <2>3, <4>2
    <3>4. DOMAIN ms = 1 .. Len(ms) BY <1>5
    <3>5. ms[x][2] = w BY <3>1, <3>2, <3>3, <3>4
    <3>. QED BY <2>3, <3>1, <3>5
  <2>. QED BY <2>1, <2>2, <2>3
<1>. QED BY <1>4, <1>8, <1>9, <1>10 DEF Upto, UptoDate, Has

LEMMA SendKeeps ==
  ASSUME OutTypes, NEW t \in DOMAIN out, out[t] # <<>>, out' = [out EXCEPT ![t] = Tail(@)],
         told' = [told EXCEPT ![Head(out[t])[1]] = Head(out[t])[2]], NEW k \in Kinds, NEW v, Upto(k, v)
  PROVE  UptoDate(out', told', k, v)
<1>. USE DEF Has
<1>1. out[t] \in Seq(Kinds \X BOOLEAN) /\ DOMAIN out' = DOMAIN out /\ t \in Folk \cup {"server"} BY DEF OutTypes
<1>2. out'[t] = Tail(out[t]) /\ \A u \in DOMAIN out : u # t => out'[u] = out[u] BY <1>1 DEF OutTypes
<1>3. /\ DOMAIN out[t] = 1 .. Len(out[t]) /\ Len(out[t]) \in Nat \ {0} /\ DOMAIN out'[t] = 1 .. Len(out[t]) - 1
      /\ \A i \in 1 .. Len(out[t]) - 1 : out'[t][i] = out[t][i + 1]
      /\ Head(out[t]) = out[t][1] /\ out[t][1] \in Kinds \X BOOLEAN
BY <1>1, <1>2
<1>4. \A u \in DOMAIN out : u # t => (Has(u, k)' <=> Has(u, k)) BY <1>2
<1>5. Has(t, k) => Has(t, k)' \/ out[t][1][1] = k
  <2>1. SUFFICES ASSUME NEW i \in 1 .. Len(out[t]), out[t][i][1] = k, i # 1 PROVE Has(t, k)' BY <1>3
  <2>2. i - 1 \in 1 .. Len(out[t]) - 1 /\ out'[t][i - 1] = out[t][(i - 1) + 1] BY <1>3, <2>1
  <2>3. (i - 1) + 1 = i BY <2>1
  <2>. QED BY <1>3, <2>1, <2>2, <2>3
<1>6. Has(t, k)' => Has(t, k)
  <2>1. SUFFICES ASSUME NEW i \in 1 .. Len(out[t]) - 1, out'[t][i][1] = k PROVE Has(t, k) BY <1>3
  <2>2. i + 1 \in 1 .. Len(out[t]) /\ out[t][i + 1][1] = k BY <1>3, <2>1
  <2>. QED BY <1>3, <2>2
<1>7. \A x, y \in DOMAIN out : Has(x, k)' /\ Has(y, k)' => x = y BY <1>4, <1>6 DEF Upto, UptoDate, Last
<1>8. (\A u \in DOMAIN out : ~Has(u, k)') => told'[k] = v
  <2>1. SUFFICES ASSUME \A u \in DOMAIN out : ~Has(u, k)' PROVE told'[k] = v OBVIOUS
  <2>2. told \in [Kinds -> BOOLEAN] /\ out[t][1][1] \in Kinds BY <1>3 DEF OutTypes
  <2>3. CASE out[t][1][1] = k
    <3>1. \A n \in DOMAIN out[t] : n > 1 => out[t][n][1] # k
      <4>1. SUFFICES ASSUME NEW n \in 1 .. Len(out[t]), n > 1, out[t][n][1] = k PROVE FALSE BY <1>3
      <4>2. n - 1 \in 1 .. Len(out[t]) - 1 /\ out'[t][n - 1] = out[t][(n - 1) + 1] BY <1>3, <4>1
      <4>3. (n - 1) + 1 = n BY <4>1
      <4>. QED BY <1>3, <2>1, <4>1, <4>2, <4>3
    <3>2. Last(t, k, 1) /\ 1 \in DOMAIN out[t] BY <1>3, <2>3, <3>1 DEF Last
    <3>3. out[t][1][2] = v BY <3>2 DEF Upto, UptoDate, Last
    <3>. QED BY <1>3, <2>2, <2>3, <3>3
  <2>4. CASE out[t][1][1] # k
    <3>1. told'[k] = told[k] BY <1>3, <2>2, <2>4
    <3>2. \A u \in DOMAIN out : ~Has(u, k) BY <1>4, <1>5, <2>1, <2>4
    <3>. QED BY <3>1, <3>2 DEF Upto, UptoDate, Last
  <2>. QED BY <2>3, <2>4
<1>9. ASSUME NEW u \in DOMAIN out, NEW i \in DOMAIN out'[u], Last(u, k, i)' PROVE out'[u][i][2] = v
  <2>. USE DEF Last
  <2>1. CASE u # t
    <3>1. Last(u, k, i) /\ out'[u] = out[u] BY <1>2, <1>9, <2>1
    <3>. QED BY <1>9, <3>1 DEF Upto, UptoDate
  <2>2. CASE u = t
    <3>1. i \in 1 .. Len(out[t]) - 1 /\ i + 1 \in DOMAIN out[t] /\ out'[t][i] = out[t][i + 1] BY <1>3, <1>9, <2>2
    <3>2. out[t][i + 1][1] = k BY <1>9, <2>2, <3>1
    <3>3. \A n \in DOMAIN out[t] : n > i + 1 => out[t][n][1] # k
      <4>1. SUFFICES ASSUME NEW n \in 1 .. Len(out[t]), n > i + 1 PROVE out[t][n][1] # k BY <1>3
      <4>2. n - 1 \in 1 .. Len(out[t]) - 1 /\ n - 1 > i /\ out'[t][n - 1] = out[t][(n - 1) + 1] BY <1>3, <3>1, <4>1
      <4>3. (n - 1) + 1 = n BY <4>1
      <4>4. out'[t][n - 1][1] # k BY <1>3, <1>9, <2>2, <4>2
      <4>. QED BY <4>2, <4>3, <4>4
    <3>4. Last(t, k, i + 1) BY <3>1, <3>2, <3>3
    <3>5. out[t][i + 1][2] = v BY <3>1, <3>4 DEF Upto, UptoDate
    <3>. QED BY <2>2, <3>1, <3>5
  <2>. QED BY <2>1, <2>2
<1>. QED BY <1>1, <1>7, <1>8, <1>9 DEF Upto, UptoDate, Last

\* What the tree becomes.
Now(active, gen1, epoch, cancel, users, parent, level, server, branch, capacity, accept) ==
  /\ tree' \in Trees
  /\ tree'.active = active /\ tree'.gen = gen1 /\ tree'.epoch = epoch /\ tree'.cancel = cancel /\ tree'.users = users /\
    tree'.parent = parent
  /\ tree'.level = level /\ tree'.serverParent = server /\ tree'.branch = branch /\ tree'.capacity = capacity /\ tree'.accept
    = accept
LEMMA ActivateTree ==
  ASSUME PlacesAreTyped, Tree!Activate
  PROVE  Now(TRUE, tree.gen + 1, tree.epoch + 1, 0, {}, None, 0, FALSE, [level |-> 0, root |-> Me], 0, {FALSE})
<1>1. tree \in Trees /\ scope \in Scopes /\ scope.gens \in Nat BY TreeAssumption DEF PlacesAreTyped, PlaceTypes
<1>. DEFINE b0 == Tree!Forgets(tree)
            x1 == TRUE
            x2 == tree.gen + 1
            x3 == 0
            x4 == {FALSE}
            f0 == [b0 EXCEPT !.active = x1, !.gen = x2, !.capacity = x3, !.accept = x4]
<1>2. b0 \in Trees /\ b0.epoch = tree.epoch + 1 /\ b0.cancel = 0 /\ b0.users = {} /\ b0.parent = None /\ b0.level = 0 /\
      b0.serverParent = FALSE /\ b0.branch = [level |-> 0, root |-> Me] BY <1>1, ForgetsIs
<1>3. x1 \in BOOLEAN BY <1>1
<1>4. x2 \in 0 .. scope.gens BY <1>1 DEF Tree!Activate, Trees
<1>5. x3 \in 0 .. MaxCapacity BY <1>1, TreeAssumption
<1>6. x4 \in SUBSET BOOLEAN BY <1>1
<1>7. tree' = f0 BY ForgetsIs, <1>1 DEF Tree!Activate
<1>. HIDE DEF b0, x1, x2, x3, x4
<1>8. f0 \in Trees /\ f0.active = x1 /\ f0.gen = x2 /\ f0.epoch = b0.epoch /\ f0.cancel = b0.cancel /\ f0.users = b0.users /\
      f0.parent = b0.parent /\ f0.level = b0.level /\ f0.serverParent = b0.serverParent /\ f0.branch = b0.branch /\
      f0.capacity = x3 /\ f0.accept = x4
  <2>. DEFINE g1 == [b0 EXCEPT !.active = x1]
              g2 == [g1 EXCEPT !.gen = x2]
              g3 == [g2 EXCEPT !.capacity = x3]
              g4 == [g3 EXCEPT !.accept = x4]
  <2>1. f0 = g4 OBVIOUS
  <2>2. g1 \in Trees BY <1>2, <1>3, TreeSets
  <2>. HIDE DEF g1
  <2>3. g2 \in Trees BY <2>2, <1>4, TreeSets
  <2>. HIDE DEF g2
  <2>4. g3 \in Trees BY <2>3, <1>5, TreeSets
  <2>. HIDE DEF g3
  <2>5. g4 \in Trees BY <2>4, <1>6, TreeSets
  <2>6. f0.active = x1 /\ f0.gen = x2 /\ f0.epoch = b0.epoch /\ f0.cancel = b0.cancel /\ f0.users = b0.users /\ f0.parent =
        b0.parent /\ f0.level = b0.level /\ f0.serverParent = b0.serverParent /\ f0.branch = b0.branch /\ f0.capacity = x3 /\
        f0.accept = x4 BY <1>2 DEF Trees
  <2>. QED BY <2>1, <2>5, <2>6
<1>. HIDE DEF f0
<1>. QED BY <1>2, <1>7, <1>8 DEF Now, x1, x2, x3, x4
LEMMA DeactivateTree ==
  ASSUME PlacesAreTyped, Tree!Deactivate
  PROVE  Now(FALSE, tree.gen, tree.epoch + 1, 0, {}, None, tree.level, FALSE, tree.branch, tree.capacity, {})
<1>1. tree \in Trees /\ scope \in Scopes /\ scope.gens \in Nat BY TreeAssumption DEF PlacesAreTyped, PlaceTypes
<1>. DEFINE b0 == tree
            x1 == FALSE
            x2 == tree.epoch + 1
            x3 == 0
            x4 == {}
            x5 == None
            x6 == FALSE
            x7 == {}
            f0 == [b0 EXCEPT !.active = x1, !.epoch = x2, !.cancel = x3, !.users = x4, !.parent = x5, !.serverParent = x6,
              !.accept = x7]
<1>2. b0 \in Trees /\ b0.gen = tree.gen /\ b0.level = tree.level /\ b0.branch = tree.branch /\ b0.capacity = tree.capacity BY
      <1>1
<1>3. x1 \in BOOLEAN BY <1>1
<1>4. x2 \in Nat BY <1>1 DEF Trees
<1>5. x3 \in Nat BY <1>1
<1>6. x4 \in SUBSET Parents BY <1>1
<1>7. x5 \in Parents \cup {None} BY <1>1
<1>8. x6 \in BOOLEAN BY <1>1
<1>9. x7 \in SUBSET BOOLEAN BY <1>1
<1>10. tree' = f0 BY DEF Tree!Deactivate
<1>. HIDE DEF b0, x1, x2, x3, x4, x5, x6, x7
<1>11. f0 \in Trees /\ f0.active = x1 /\ f0.gen = b0.gen /\ f0.epoch = x2 /\ f0.cancel = x3 /\ f0.users = x4 /\ f0.parent =
       x5 /\ f0.level = b0.level /\ f0.serverParent = x6 /\ f0.branch = b0.branch /\ f0.capacity = b0.capacity /\ f0.accept =
       x7
  <2>. DEFINE g1 == [b0 EXCEPT !.active = x1]
              g2 == [g1 EXCEPT !.epoch = x2]
              g3 == [g2 EXCEPT !.cancel = x3]
              g4 == [g3 EXCEPT !.users = x4]
              g5 == [g4 EXCEPT !.parent = x5]
              g6 == [g5 EXCEPT !.serverParent = x6]
              g7 == [g6 EXCEPT !.accept = x7]
  <2>1. f0 = g7 OBVIOUS
  <2>2. g1 \in Trees BY <1>2, <1>3, TreeSets
  <2>. HIDE DEF g1
  <2>3. g2 \in Trees BY <2>2, <1>4, TreeSets
  <2>. HIDE DEF g2
  <2>4. g3 \in Trees BY <2>3, <1>5, TreeSets
  <2>. HIDE DEF g3
  <2>5. g4 \in Trees BY <2>4, <1>6, TreeSets
  <2>. HIDE DEF g4
  <2>6. g5 \in Trees BY <2>5, <1>7, TreeSets
  <2>. HIDE DEF g5
  <2>7. g6 \in Trees BY <2>6, <1>8, TreeSets
  <2>. HIDE DEF g6
  <2>8. g7 \in Trees BY <2>7, <1>9, TreeSets
  <2>9. f0.active = x1 /\ f0.gen = b0.gen /\ f0.epoch = x2 /\ f0.cancel = x3 /\ f0.users = x4 /\ f0.parent = x5 /\ f0.level =
        b0.level /\ f0.serverParent = x6 /\ f0.branch = b0.branch /\ f0.capacity = b0.capacity /\ f0.accept = x7 BY <1>2 DEF
        Trees
  <2>. QED BY <2>1, <2>8, <2>9
<1>. HIDE DEF f0
<1>. QED BY <1>2, <1>10, <1>11 DEF Now, x1, x2, x3, x4, x5, x6, x7
LEMMA ResetTree ==
  ASSUME PlacesAreTyped, Tree!Reset
  PROVE  Now(tree.active, tree.gen, tree.epoch + 1, 0, {}, None, 0, FALSE, [level |-> 0, root |-> Me], tree.capacity,
         {FALSE})
<1>1. tree \in Trees /\ scope \in Scopes /\ scope.gens \in Nat BY TreeAssumption DEF PlacesAreTyped, PlaceTypes
<1>. DEFINE b0 == Tree!Forgets(tree)
            x1 == {FALSE}
            f0 == [b0 EXCEPT !.accept = x1]
<1>2. b0 \in Trees /\ b0.active = tree.active /\ b0.gen = tree.gen /\ b0.epoch = tree.epoch + 1 /\ b0.cancel = 0 /\ b0.users
      = {} /\ b0.parent = None /\ b0.level = 0 /\ b0.serverParent = FALSE /\ b0.branch = [level |-> 0, root |-> Me] /\
      b0.capacity = tree.capacity BY <1>1, ForgetsIs
<1>3. x1 \in SUBSET BOOLEAN BY <1>1
<1>4. tree' = f0 BY DEF Tree!Reset
<1>. HIDE DEF b0, x1
<1>5. f0 \in Trees /\ f0.active = b0.active /\ f0.gen = b0.gen /\ f0.epoch = b0.epoch /\ f0.cancel = b0.cancel /\ f0.users =
      b0.users /\ f0.parent = b0.parent /\ f0.level = b0.level /\ f0.serverParent = b0.serverParent /\ f0.branch = b0.branch
      /\ f0.capacity = b0.capacity /\ f0.accept = x1
  <2>. DEFINE g1 == [b0 EXCEPT !.accept = x1]
  <2>1. f0 = g1 OBVIOUS
  <2>2. g1 \in Trees BY <1>2, <1>3, TreeSets
  <2>3. f0.active = b0.active /\ f0.gen = b0.gen /\ f0.epoch = b0.epoch /\ f0.cancel = b0.cancel /\ f0.users = b0.users /\
        f0.parent = b0.parent /\ f0.level = b0.level /\ f0.serverParent = b0.serverParent /\ f0.branch = b0.branch /\
        f0.capacity = b0.capacity /\ f0.accept = x1 BY <1>2 DEF Trees
  <2>. QED BY <2>1, <2>2, <2>3
<1>. HIDE DEF f0
<1>. QED BY <1>2, <1>4, <1>5 DEF Now, x1
LEMMA OfferParentsTree ==
  ASSUME PlacesAreTyped, Tree!OfferParents(scope.parents)
  PROVE  Now(tree.active, tree.gen, tree.epoch + 1, tree.epoch + 1, scope.parents, tree.parent, tree.level,
         tree.serverParent, tree.branch, tree.capacity, tree.accept)
<1>1. tree \in Trees /\ scope \in Scopes /\ scope.gens \in Nat BY TreeAssumption DEF PlacesAreTyped, PlaceTypes
<1>. DEFINE b0 == tree
            x1 == tree.epoch + 1
            x2 == tree.epoch + 1
            x3 == scope.parents
            f0 == [b0 EXCEPT !.epoch = x1, !.cancel = x2, !.users = x3]
<1>2. b0 \in Trees /\ b0.active = tree.active /\ b0.gen = tree.gen /\ b0.parent = tree.parent /\ b0.level = tree.level /\
      b0.serverParent = tree.serverParent /\ b0.branch = tree.branch /\ b0.capacity = tree.capacity /\ b0.accept =
      tree.accept BY <1>1
<1>3. x1 \in Nat BY <1>1 DEF Trees
<1>4. x2 \in Nat BY <1>1 DEF Trees
<1>5. x3 \in SUBSET Parents BY <1>1, TreeAssumption
<1>6. tree' = f0 BY DEF Tree!OfferParents
<1>. HIDE DEF b0, x1, x2, x3
<1>7. f0 \in Trees /\ f0.active = b0.active /\ f0.gen = b0.gen /\ f0.epoch = x1 /\ f0.cancel = x2 /\ f0.users = x3 /\
      f0.parent = b0.parent /\ f0.level = b0.level /\ f0.serverParent = b0.serverParent /\ f0.branch = b0.branch /\
      f0.capacity = b0.capacity /\ f0.accept = b0.accept
  <2>. DEFINE g1 == [b0 EXCEPT !.epoch = x1]
              g2 == [g1 EXCEPT !.cancel = x2]
              g3 == [g2 EXCEPT !.users = x3]
  <2>1. f0 = g3 OBVIOUS
  <2>2. g1 \in Trees BY <1>2, <1>3, TreeSets
  <2>. HIDE DEF g1
  <2>3. g2 \in Trees BY <2>2, <1>4, TreeSets
  <2>. HIDE DEF g2
  <2>4. g3 \in Trees BY <2>3, <1>5, TreeSets
  <2>5. f0.active = b0.active /\ f0.gen = b0.gen /\ f0.epoch = x1 /\ f0.cancel = x2 /\ f0.users = x3 /\ f0.parent = b0.parent
        /\ f0.level = b0.level /\ f0.serverParent = b0.serverParent /\ f0.branch = b0.branch /\ f0.capacity = b0.capacity /\
        f0.accept = b0.accept BY <1>2 DEF Trees
  <2>. QED BY <2>1, <2>4, <2>5
<1>. HIDE DEF f0
<1>. QED BY <1>2, <1>6, <1>7 DEF Now, x1, x2, x3
LEMMA EmbeddedTree ==
  ASSUME PlacesAreTyped, Tree!HandleServerEmbedded
  PROVE  Now(tree.active, tree.gen, tree.epoch + 1, 0, {}, None, 0, TRUE, [level |-> 0, root |-> Me], tree.capacity,
         {Tree!Accepts(tree', children)})
<1>1. tree \in Trees /\ scope \in Scopes /\ scope.gens \in Nat BY TreeAssumption DEF PlacesAreTyped, PlaceTypes
<1>. DEFINE b0 == Tree!Forgets(tree)
            x1 == TRUE
            f0 == [b0 EXCEPT !.serverParent = x1]
<1>2. b0 \in Trees /\ b0.active = tree.active /\ b0.gen = tree.gen /\ b0.epoch = tree.epoch + 1 /\ b0.cancel = 0 /\ b0.users
      = {} /\ b0.parent = None /\ b0.level = 0 /\ b0.branch = [level |-> 0, root |-> Me] /\ b0.capacity = tree.capacity /\
      b0.accept = tree.accept BY <1>1, ForgetsIs
<1>3. x1 \in BOOLEAN BY <1>1
<1>4. tree' = Tree!Noted(f0, children) BY DEF Tree!HandleServerEmbedded
<1>. HIDE DEF b0, x1
<1>5. f0 \in Trees /\ f0.active = b0.active /\ f0.gen = b0.gen /\ f0.epoch = b0.epoch /\ f0.cancel = b0.cancel /\ f0.users =
      b0.users /\ f0.parent = b0.parent /\ f0.level = b0.level /\ f0.serverParent = x1 /\ f0.branch = b0.branch /\
      f0.capacity = b0.capacity /\ f0.accept = b0.accept
  <2>. DEFINE g1 == [b0 EXCEPT !.serverParent = x1]
  <2>1. f0 = g1 OBVIOUS
  <2>2. g1 \in Trees BY <1>2, <1>3, TreeSets
  <2>3. f0.active = b0.active /\ f0.gen = b0.gen /\ f0.epoch = b0.epoch /\ f0.cancel = b0.cancel /\ f0.users = b0.users /\
        f0.parent = b0.parent /\ f0.level = b0.level /\ f0.serverParent = x1 /\ f0.branch = b0.branch /\ f0.capacity =
        b0.capacity /\ f0.accept = b0.accept BY <1>2 DEF Trees
  <2>. QED BY <2>1, <2>2, <2>3
<1>. HIDE DEF f0
<1>6. tree' \in Trees /\ tree'.active = f0.active /\ tree'.gen = f0.gen /\ tree'.epoch = f0.epoch /\ tree'.cancel = f0.cancel
      /\ tree'.users = f0.users /\ tree'.parent = f0.parent /\ tree'.level = f0.level /\ tree'.serverParent = f0.serverParent
      /\ tree'.branch = f0.branch /\ tree'.capacity = f0.capacity /\ tree'.accept = {Tree!Accepts(f0, children)}
  <2>1. f0 \in Trees BY <1>5
  <2>. QED BY <1>4, <2>1, NotedIs
<1>7. Tree!Accepts(tree', children) = Tree!Accepts(f0, children) BY <1>6 DEF Tree!Accepts
<1>. QED BY <1>2, <1>5, <1>6, <1>7 DEF Now, x1
LEMMA WorkersDoneTree ==
  ASSUME PlacesAreTyped, Tree!WorkersDone
  PROVE  Now(tree.active, tree.gen, tree.epoch, 0, tree.users, tree.parent, tree.level, tree.serverParent, tree.branch,
         tree.capacity, tree.accept)
<1>1. tree \in Trees /\ scope \in Scopes /\ scope.gens \in Nat BY TreeAssumption DEF PlacesAreTyped, PlaceTypes
<1>. DEFINE b0 == tree
            x1 == 0
            f0 == [b0 EXCEPT !.cancel = x1]
<1>2. b0 \in Trees /\ b0.active = tree.active /\ b0.gen = tree.gen /\ b0.epoch = tree.epoch /\ b0.users = tree.users /\
      b0.parent = tree.parent /\ b0.level = tree.level /\ b0.serverParent = tree.serverParent /\ b0.branch = tree.branch /\
      b0.capacity = tree.capacity /\ b0.accept = tree.accept BY <1>1
<1>3. x1 \in Nat BY <1>1
<1>4. tree' = f0 BY DEF Tree!WorkersDone
<1>. HIDE DEF b0, x1
<1>5. f0 \in Trees /\ f0.active = b0.active /\ f0.gen = b0.gen /\ f0.epoch = b0.epoch /\ f0.cancel = x1 /\ f0.users =
      b0.users /\ f0.parent = b0.parent /\ f0.level = b0.level /\ f0.serverParent = b0.serverParent /\ f0.branch = b0.branch
      /\ f0.capacity = b0.capacity /\ f0.accept = b0.accept
  <2>. DEFINE g1 == [b0 EXCEPT !.cancel = x1]
  <2>1. f0 = g1 OBVIOUS
  <2>2. g1 \in Trees BY <1>2, <1>3, TreeSets
  <2>3. f0.active = b0.active /\ f0.gen = b0.gen /\ f0.epoch = b0.epoch /\ f0.cancel = x1 /\ f0.users = b0.users /\ f0.parent
        = b0.parent /\ f0.level = b0.level /\ f0.serverParent = b0.serverParent /\ f0.branch = b0.branch /\ f0.capacity =
        b0.capacity /\ f0.accept = b0.accept BY <1>2 DEF Trees
  <2>. QED BY <2>1, <2>2, <2>3
<1>. HIDE DEF f0
<1>. QED BY <1>2, <1>4, <1>5 DEF Now, x1
LEMMA ParentGoneTree ==
  ASSUME PlacesAreTyped, tree' = [Tree!Forgets(tree) EXCEPT !.cancel = tree.cancel, !.accept = {FALSE}]
  PROVE  Now(tree.active, tree.gen, tree.epoch + 1, tree.cancel, {}, None, 0, FALSE, [level |-> 0, root |-> Me],
         tree.capacity, {FALSE})
<1>1. tree \in Trees /\ scope \in Scopes /\ scope.gens \in Nat BY TreeAssumption DEF PlacesAreTyped, PlaceTypes
<1>. DEFINE b0 == Tree!Forgets(tree)
            x1 == tree.cancel
            x2 == {FALSE}
            f0 == [b0 EXCEPT !.cancel = x1, !.accept = x2]
<1>2. b0 \in Trees /\ b0.active = tree.active /\ b0.gen = tree.gen /\ b0.epoch = tree.epoch + 1 /\ b0.users = {} /\ b0.parent
      = None /\ b0.level = 0 /\ b0.serverParent = FALSE /\ b0.branch = [level |-> 0, root |-> Me] /\ b0.capacity =
      tree.capacity BY <1>1, ForgetsIs
<1>3. x1 \in Nat BY <1>1 DEF Trees
<1>4. x2 \in SUBSET BOOLEAN BY <1>1
<1>5. tree' = f0 OBVIOUS
<1>. HIDE DEF b0, x1, x2
<1>6. f0 \in Trees /\ f0.active = b0.active /\ f0.gen = b0.gen /\ f0.epoch = b0.epoch /\ f0.cancel = x1 /\ f0.users =
      b0.users /\ f0.parent = b0.parent /\ f0.level = b0.level /\ f0.serverParent = b0.serverParent /\ f0.branch = b0.branch
      /\ f0.capacity = b0.capacity /\ f0.accept = x2
  <2>. DEFINE g1 == [b0 EXCEPT !.cancel = x1]
              g2 == [g1 EXCEPT !.accept = x2]
  <2>1. f0 = g2 OBVIOUS
  <2>2. g1 \in Trees BY <1>2, <1>3, TreeSets
  <2>. HIDE DEF g1
  <2>3. g2 \in Trees BY <2>2, <1>4, TreeSets
  <2>4. f0.active = b0.active /\ f0.gen = b0.gen /\ f0.epoch = b0.epoch /\ f0.cancel = x1 /\ f0.users = b0.users /\ f0.parent
        = b0.parent /\ f0.level = b0.level /\ f0.serverParent = b0.serverParent /\ f0.branch = b0.branch /\ f0.capacity =
        b0.capacity /\ f0.accept = x2 BY <1>2 DEF Trees
  <2>. QED BY <2>1, <2>3, <2>4
<1>. HIDE DEF f0
<1>. QED BY <1>2, <1>5, <1>6 DEF Now, x1, x2
LEMMA CapacityTree ==
  ASSUME PlacesAreTyped, Tree!UpdateCapacityInputs
  PROVE  \E n \in 0 .. MaxCapacity : Now(tree.active, tree.gen, tree.epoch, tree.cancel, tree.users, tree.parent, tree.level,
         tree.serverParent, tree.branch, n, {Tree!Accepts(tree', children)})
<1>1. tree \in Trees /\ scope \in Scopes /\ scope.gens \in Nat BY TreeAssumption DEF PlacesAreTyped, PlaceTypes
<1>0. PICK n \in 0 .. MaxCapacity : tree' = Tree!Noted([tree EXCEPT !.capacity = n], children) BY DEF
      Tree!UpdateCapacityInputs
<1>. DEFINE b0 == tree
            x1 == n
            f0 == [b0 EXCEPT !.capacity = x1]
<1>2. b0 \in Trees /\ b0.active = tree.active /\ b0.gen = tree.gen /\ b0.epoch = tree.epoch /\ b0.cancel = tree.cancel /\
      b0.users = tree.users /\ b0.parent = tree.parent /\ b0.level = tree.level /\ b0.serverParent = tree.serverParent /\
      b0.branch = tree.branch /\ b0.accept = tree.accept BY <1>1
<1>3. x1 \in 0 .. MaxCapacity BY <1>1, <1>0
<1>4. tree' = Tree!Noted(f0, children) BY <1>0
<1>. HIDE DEF b0, x1
<1>5. f0 \in Trees /\ f0.active = b0.active /\ f0.gen = b0.gen /\ f0.epoch = b0.epoch /\ f0.cancel = b0.cancel /\ f0.users =
      b0.users /\ f0.parent = b0.parent /\ f0.level = b0.level /\ f0.serverParent = b0.serverParent /\ f0.branch = b0.branch
      /\ f0.capacity = x1 /\ f0.accept = b0.accept
  <2>. DEFINE g1 == [b0 EXCEPT !.capacity = x1]
  <2>1. f0 = g1 OBVIOUS
  <2>2. g1 \in Trees BY <1>2, <1>3, TreeSets
  <2>3. f0.active = b0.active /\ f0.gen = b0.gen /\ f0.epoch = b0.epoch /\ f0.cancel = b0.cancel /\ f0.users = b0.users /\
        f0.parent = b0.parent /\ f0.level = b0.level /\ f0.serverParent = b0.serverParent /\ f0.branch = b0.branch /\
        f0.capacity = x1 /\ f0.accept = b0.accept BY <1>2 DEF Trees
  <2>. QED BY <2>1, <2>2, <2>3
<1>. HIDE DEF f0
<1>6. tree' \in Trees /\ tree'.active = f0.active /\ tree'.gen = f0.gen /\ tree'.epoch = f0.epoch /\ tree'.cancel = f0.cancel
      /\ tree'.users = f0.users /\ tree'.parent = f0.parent /\ tree'.level = f0.level /\ tree'.serverParent = f0.serverParent
      /\ tree'.branch = f0.branch /\ tree'.capacity = f0.capacity /\ tree'.accept = {Tree!Accepts(f0, children)}
  <2>1. f0 \in Trees BY <1>5
  <2>. QED BY <1>4, <2>1, NotedIs
<1>7. Tree!Accepts(tree', children) = Tree!Accepts(f0, children) BY <1>6 DEF Tree!Accepts
<1>. QED BY <1>2, <1>5, <1>6, <1>7 DEF Now, x1
LEMMA PromoteTree ==
  ASSUME PlacesAreTyped, NEW s \in Folk, Tree!TryPromote(s), Tree!Promotable(s), s \in Parents, cand[s].level \in 0 .. 1,
    cand[s].root \in Folk \cup {None, Me, Far}
  PROVE  Now(tree.active, tree.gen, tree.epoch, 0, {}, s, cand[s].level, tree.serverParent, [level |-> cand[s].level + 1,
         root |-> cand[s].root], tree.capacity, {Tree!Accepts(tree', children)})
<1>1. tree \in Trees /\ scope \in Scopes /\ scope.gens \in Nat BY TreeAssumption DEF PlacesAreTyped, PlaceTypes
<1>. DEFINE b0 == tree
            x1 == s
            x2 == cand[s].level
            x3 == [level |-> cand[s].level + 1, root |-> cand[s].root]
            x4 == 0
            x5 == {}
            f0 == [b0 EXCEPT !.parent = x1, !.level = x2, !.branch = x3, !.cancel = x4, !.users = x5]
<1>2. b0 \in Trees /\ b0.active = tree.active /\ b0.gen = tree.gen /\ b0.epoch = tree.epoch /\ b0.serverParent =
      tree.serverParent /\ b0.capacity = tree.capacity /\ b0.accept = tree.accept BY <1>1
<1>3. x1 \in Parents \cup {None} BY <1>1
<1>4. x2 \in 0 .. 1 BY <1>1
<1>5. x3 \in Places BY <1>1 DEF Places
<1>6. x4 \in Nat BY <1>1
<1>7. x5 \in SUBSET Parents BY <1>1
<1>8. tree' = Tree!Noted(f0, children) BY DEF Tree!TryPromote
<1>. HIDE DEF b0, x1, x2, x3, x4, x5
<1>9. f0 \in Trees /\ f0.active = b0.active /\ f0.gen = b0.gen /\ f0.epoch = b0.epoch /\ f0.cancel = x4 /\ f0.users = x5 /\
      f0.parent = x1 /\ f0.level = x2 /\ f0.serverParent = b0.serverParent /\ f0.branch = x3 /\ f0.capacity = b0.capacity /\
      f0.accept = b0.accept
  <2>. DEFINE g1 == [b0 EXCEPT !.parent = x1]
              g2 == [g1 EXCEPT !.level = x2]
              g3 == [g2 EXCEPT !.branch = x3]
              g4 == [g3 EXCEPT !.cancel = x4]
              g5 == [g4 EXCEPT !.users = x5]
  <2>1. f0 = g5 OBVIOUS
  <2>2. g1 \in Trees BY <1>2, <1>3, TreeSets
  <2>. HIDE DEF g1
  <2>3. g2 \in Trees BY <2>2, <1>4, TreeSets
  <2>. HIDE DEF g2
  <2>4. g3 \in Trees BY <2>3, <1>5, TreeSets
  <2>. HIDE DEF g3
  <2>5. g4 \in Trees BY <2>4, <1>6, TreeSets
  <2>. HIDE DEF g4
  <2>6. g5 \in Trees BY <2>5, <1>7, TreeSets
  <2>7. f0.active = b0.active /\ f0.gen = b0.gen /\ f0.epoch = b0.epoch /\ f0.cancel = x4 /\ f0.users = x5 /\ f0.parent = x1
        /\ f0.level = x2 /\ f0.serverParent = b0.serverParent /\ f0.branch = x3 /\ f0.capacity = b0.capacity /\ f0.accept =
        b0.accept BY <1>2 DEF Trees
  <2>. QED BY <2>1, <2>6, <2>7
<1>. HIDE DEF f0
<1>10. tree' \in Trees /\ tree'.active = f0.active /\ tree'.gen = f0.gen /\ tree'.epoch = f0.epoch /\ tree'.cancel =
       f0.cancel /\ tree'.users = f0.users /\ tree'.parent = f0.parent /\ tree'.level = f0.level /\ tree'.serverParent =
       f0.serverParent /\ tree'.branch = f0.branch /\ tree'.capacity = f0.capacity /\ tree'.accept = {Tree!Accepts(f0,
       children)}
  <2>1. f0 \in Trees BY <1>9
  <2>. QED BY <1>8, <2>1, NotedIs
<1>11. Tree!Accepts(tree', children) = Tree!Accepts(f0, children) BY <1>10 DEF Tree!Accepts
<1>. QED BY <1>2, <1>9, <1>10, <1>11 DEF Now, x1, x2, x3, x4, x5
LEMMA LevelTree ==
  ASSUME PlacesAreTyped, NEW l \in 0 .. 1, NEW r \in Folk \cup {None, Me, Far}, tree' = [tree EXCEPT !.level = l, !.branch =
    [level |-> l + 1, root |-> r]]
  PROVE  Now(tree.active, tree.gen, tree.epoch, tree.cancel, tree.users, tree.parent, l, tree.serverParent, [level |-> l + 1,
         root |-> r], tree.capacity, tree.accept)
<1>1. tree \in Trees /\ scope \in Scopes /\ scope.gens \in Nat BY TreeAssumption DEF PlacesAreTyped, PlaceTypes
<1>. DEFINE b0 == tree
            x1 == l
            x2 == [level |-> l + 1, root |-> r]
            f0 == [b0 EXCEPT !.level = x1, !.branch = x2]
<1>2. b0 \in Trees /\ b0.active = tree.active /\ b0.gen = tree.gen /\ b0.epoch = tree.epoch /\ b0.cancel = tree.cancel /\
      b0.users = tree.users /\ b0.parent = tree.parent /\ b0.serverParent = tree.serverParent /\ b0.capacity = tree.capacity
      /\ b0.accept = tree.accept BY <1>1
<1>3. x1 \in 0 .. 1 BY <1>1
<1>4. x2 \in Places BY <1>1 DEF Places
<1>5. tree' = f0 OBVIOUS
<1>. HIDE DEF b0, x1, x2
<1>6. f0 \in Trees /\ f0.active = b0.active /\ f0.gen = b0.gen /\ f0.epoch = b0.epoch /\ f0.cancel = b0.cancel /\ f0.users =
      b0.users /\ f0.parent = b0.parent /\ f0.level = x1 /\ f0.serverParent = b0.serverParent /\ f0.branch = x2 /\
      f0.capacity = b0.capacity /\ f0.accept = b0.accept
  <2>. DEFINE g1 == [b0 EXCEPT !.level = x1]
              g2 == [g1 EXCEPT !.branch = x2]
  <2>1. f0 = g2 OBVIOUS
  <2>2. g1 \in Trees BY <1>2, <1>3, TreeSets
  <2>. HIDE DEF g1
  <2>3. g2 \in Trees BY <2>2, <1>4, TreeSets
  <2>4. f0.active = b0.active /\ f0.gen = b0.gen /\ f0.epoch = b0.epoch /\ f0.cancel = b0.cancel /\ f0.users = b0.users /\
        f0.parent = b0.parent /\ f0.level = x1 /\ f0.serverParent = b0.serverParent /\ f0.branch = x2 /\ f0.capacity =
        b0.capacity /\ f0.accept = b0.accept BY <1>2 DEF Trees
  <2>. QED BY <2>1, <2>3, <2>4
<1>. HIDE DEF f0
<1>. QED BY <1>2, <1>5, <1>6 DEF Now, x1, x2
LEMMA RootTree ==
  ASSUME PlacesAreTyped, NEW r \in Folk \cup {None, Me, Far}, tree' = [tree EXCEPT !.branch.root = r]
  PROVE  Now(tree.active, tree.gen, tree.epoch, tree.cancel, tree.users, tree.parent, tree.level, tree.serverParent,
         [tree.branch EXCEPT !.root = r], tree.capacity, tree.accept)
<1>1. tree \in Trees /\ scope \in Scopes /\ scope.gens \in Nat BY TreeAssumption DEF PlacesAreTyped, PlaceTypes
<1>. DEFINE b0 == tree
            x1 == [tree.branch EXCEPT !.root = r]
            f0 == [b0 EXCEPT !.branch = x1]
<1>2. b0 \in Trees /\ b0.active = tree.active /\ b0.gen = tree.gen /\ b0.epoch = tree.epoch /\ b0.cancel = tree.cancel /\
      b0.users = tree.users /\ b0.parent = tree.parent /\ b0.level = tree.level /\ b0.serverParent = tree.serverParent /\
      b0.capacity = tree.capacity /\ b0.accept = tree.accept BY <1>1
<1>3. x1 \in Places BY <1>1 DEF Places, Trees
<1>4. tree' = f0 OBVIOUS
<1>. HIDE DEF b0, x1
<1>5. f0 \in Trees /\ f0.active = b0.active /\ f0.gen = b0.gen /\ f0.epoch = b0.epoch /\ f0.cancel = b0.cancel /\ f0.users =
      b0.users /\ f0.parent = b0.parent /\ f0.level = b0.level /\ f0.serverParent = b0.serverParent /\ f0.branch = x1 /\
      f0.capacity = b0.capacity /\ f0.accept = b0.accept
  <2>. DEFINE g1 == [b0 EXCEPT !.branch = x1]
  <2>1. f0 = g1 OBVIOUS
  <2>2. g1 \in Trees BY <1>2, <1>3, TreeSets
  <2>3. f0.active = b0.active /\ f0.gen = b0.gen /\ f0.epoch = b0.epoch /\ f0.cancel = b0.cancel /\ f0.users = b0.users /\
        f0.parent = b0.parent /\ f0.level = b0.level /\ f0.serverParent = b0.serverParent /\ f0.branch = x1 /\ f0.capacity =
        b0.capacity /\ f0.accept = b0.accept BY <1>2 DEF Trees
  <2>. QED BY <2>1, <2>2, <2>3
<1>. HIDE DEF f0
<1>. QED BY <1>2, <1>4, <1>5 DEF Now, x1
LEMMA ChildTree ==
  ASSUME PlacesAreTyped, NEW s, Tree!EstablishedChild(s)
  PROVE  \/ tree' = tree /\ children' = children
         \/ /\ tree.active /\ children \subseteq children' /\ children' \subseteq children \cup {s}
            /\ Now(tree.active, tree.gen, tree.epoch, tree.cancel, tree.users, tree.parent, tree.level,
                   tree.serverParent, tree.branch, tree.capacity, {Tree!Accepts(tree', children')})
<1>1. tree \in Trees BY DEF PlacesAreTyped, PlaceTypes
<1>2. CASE ~tree.active BY <1>2 DEF Tree!EstablishedChild
<1>3. CASE tree.active
  <2>1. tree' = Tree!Noted(tree, children') /\ children \subseteq children' /\ children' \subseteq children \cup {s}
    BY <1>3 DEF Tree!EstablishedChild
  <2>2. Now(tree.active, tree.gen, tree.epoch, tree.cancel, tree.users, tree.parent, tree.level,
            tree.serverParent, tree.branch, tree.capacity, {Tree!Accepts(tree, children')})
    BY <1>1, <2>1, NotedIs DEF Now
  <2>3. Tree!Accepts(tree', children') = Tree!Accepts(tree, children') BY <2>2 DEF Now, Tree!Accepts
  <2>. QED BY <1>3, <2>1, <2>2, <2>3
<1>. QED BY <1>2, <1>3
LEMMA ClosedTree ==
  ASSUME PlacesAreTyped, NEW s, Tree!Closed(s)
  PROVE  \/ tree' = tree /\ children' = children /\ s \notin children /\ (cand[s] = NoCand => tree.parent # s)
         \/ /\ s \in children /\ children' = children \ {s}
            /\ Now(tree.active, tree.gen, tree.epoch, tree.cancel, tree.users, tree.parent, tree.level,
                   tree.serverParent, tree.branch, tree.capacity, {Tree!Accepts(tree', children')})
         \/ /\ tree.parent = s /\ children' = children /\ cand[s] = NoCand
            /\ Now(tree.active, tree.gen, tree.epoch + 1, tree.cancel, {}, None, 0, FALSE, [level |-> 0, root |-> Me], tree.capacity, {FALSE})
<1>. USE DEF Tree!Closed, NoCand, Tree!NoCandidate
<1>1. tree \in Trees BY DEF PlacesAreTyped, PlaceTypes
<1>2. ASSUME tree' = Tree!Noted(tree, children')
      PROVE  Now(tree.active, tree.gen, tree.epoch, tree.cancel, tree.users, tree.parent, tree.level,
                 tree.serverParent, tree.branch, tree.capacity, {Tree!Accepts(tree', children')})
  <2>1. Now(tree.active, tree.gen, tree.epoch, tree.cancel, tree.users, tree.parent, tree.level,
            tree.serverParent, tree.branch, tree.capacity, {Tree!Accepts(tree, children')})
    BY <1>1, <1>2, NotedIs DEF Now
  <2>2. Tree!Accepts(tree', children') = Tree!Accepts(tree, children') BY <2>1 DEF Now, Tree!Accepts
  <2>. QED BY <2>1, <2>2
<1>3. CASE s \in children BY <1>2, <1>3
<1>4. CASE s \notin children /\ cand[s] # NoCand BY <1>4
<1>5. CASE s \notin children /\ cand[s] = NoCand /\ tree.parent = s
  <2>1. tree' = [Tree!Forgets(tree) EXCEPT !.cancel = tree.cancel, !.accept = {FALSE}] /\ children' = children BY <1>5
  <2>. QED BY <1>5, <2>1, ParentGoneTree
<1>6. CASE s \notin children /\ cand[s] = NoCand /\ tree.parent # s BY <1>6
<1>. QED BY <1>3, <1>4, <1>5, <1>6
LEMMA LevelStep ==
  ASSUME PlacesAreTyped, NEW s \in Folk, Tree!ParentLevel(s)
  PROVE  \E l \in 0 .. 1, r \in Folk \cup {None, Me, Far} :
           Now(tree.active, tree.gen, tree.epoch, tree.cancel, tree.users, tree.parent, l,
               tree.serverParent, [level |-> l + 1, root |-> r], tree.capacity, tree.accept)
<1>1. tree.branch.root \in Folk \cup {None, Me, Far} BY DEF PlacesAreTyped, PlaceTypes, Trees, Places
<1>2. PICK l \in 0 .. 1 : tree' = [tree EXCEPT !.level = l, !.branch = [level |-> l + 1, root |-> IF l = 0 THEN s ELSE tree.branch.root]]
BY DEF Tree!ParentLevel
<1>. DEFINE r == IF l = 0 THEN s ELSE tree.branch.root
<1>3. r \in Folk \cup {None, Me, Far} BY <1>1
<1>. HIDE DEF r
<1>4. tree' = [tree EXCEPT !.level = l, !.branch = [level |-> l + 1, root |-> r]] BY <1>2 DEF r
<1>. QED BY <1>3, <1>4, LevelTree
LEMMA RootStep ==
  ASSUME PlacesAreTyped, NEW s \in Folk, Tree!ParentRoot(s)
  PROVE  \E r \in Folk \cup {None, Me, Far} :
           Now(tree.active, tree.gen, tree.epoch, tree.cancel, tree.users, tree.parent, tree.level,
               tree.serverParent, [tree.branch EXCEPT !.root = r], tree.capacity, tree.accept)
<1>. DEFINE r == IF tree.level = 0 THEN s ELSE Far
<1>1. r \in Folk \cup {None, Me, Far} OBVIOUS
<1>2. tree' = [tree EXCEPT !.branch.root = r] BY DEF Tree!ParentRoot
<1>. HIDE DEF r
<1>. QED BY <1>1, <1>2, RootTree
LEMMA CandForms == Tree!NoCandidate = NoCand /\ NoCand \in Candidates
BY DEF Tree!NoCandidate, NoCand, Candidates
LEMMA NewCand ==
  ASSUME PlacesAreTyped
  PROVE  Tree!NewCandidate \in Candidates /\ Tree!NewCandidate.epoch = tree.epoch
<1>1. tree.epoch \in Nat BY DEF PlacesAreTyped, PlaceTypes, Trees
<1>2. Tree!NewCandidate = [NoCand EXCEPT !.epoch = tree.epoch] BY CandForms DEF Tree!NewCandidate
<1>3. NoCand \in Candidates BY CandForms
<1>4. [NoCand EXCEPT !.epoch = tree.epoch] \in Candidates /\ [NoCand EXCEPT !.epoch = tree.epoch].epoch = tree.epoch
  <2>. HIDE DEF NoCand
  <2>. QED BY <1>1, <1>3 DEF Candidates
<1>. QED BY <1>2, <1>4
LEMMA CandSets ==
  ASSUME CandTypes, NEW s \in Folk, NEW x \in Candidates, cand' = [cand EXCEPT ![s] = x]
  PROVE  cand' \in [Folk -> Candidates] /\ cand'[s] = x /\ \A o \in Folk : o # s => cand'[o] = cand[o]
BY DEF CandTypes
LEMMA CandsGone ==
  ASSUME Tree!NoCandidates
  PROVE  cand' \in [Folk -> Candidates] /\ \A s \in Folk : cand'[s] = NoCand
<1>1. cand' = [s \in Folk |-> NoCand] BY CandForms DEF Tree!NoCandidates, Tree!Neighbours, Folk
<1>2. NoCand \in Candidates BY CandForms
<1>. HIDE DEF NoCand
<1>. QED BY <1>1, <1>2
LEMMA LeavesIs ==
  ASSUME LifeTypes, NEW S, S \subseteq Folk, Tree!Leaves(S)
  PROVE  leaving' \in SUBSET Folk /\ leaving \subseteq leaving' /\ \A s \in S : peerLife[s] = "up" => s \in leaving'
BY DEF LifeTypes, Tree!Leaves
LEMMA NewEpoch ==
  ASSUME TreeInv, tree'.epoch = tree.epoch + 1, UNCHANGED workers, \A s \in Folk : peerLife'[s] = "up" => peerLife[s] = "up"
  PROVE  OneTry' /\ OneDial'
<1>. USE DEF TreeInv
<1>1. tree.epoch \in Nat /\ workers \subseteq Tries /\ \A w \in workers : w.epoch \in Nat
BY DEF PlacesAreTyped, PlaceTypes, TryTypes, Trees, Tries
<1>2. \A w \in workers : w.epoch <= tree'.epoch /\ w.epoch # tree'.epoch BY <1>1 DEF OneTry
<1>3. OneTry' BY <1>2 DEF OneTry
<1>5. \A w \in workers : w.user \in Folk BY DEF PlacesAreTyped, TryTypes, Tries, Folk
<1>4. OneDial' BY <1>2, <1>5 DEF OneDial
<1>. QED BY <1>3, <1>4
LEMMA SameEpoch ==
  ASSUME TreeInv, tree'.epoch = tree.epoch, UNCHANGED workers, \A s \in Folk : peerLife'[s] = "up" => peerLife[s] = "up"
  PROVE  OneTry' /\ OneDial'
<1>1. \A w \in workers : w.user \in Folk BY DEF TreeInv, PlacesAreTyped, TryTypes, Tries, Folk
<1>2. OneTry' BY DEF TreeInv, OneTry
<1>3. OneDial' BY <1>1 DEF TreeInv, OneDial
<1>. QED BY <1>2, <1>3
LEMMA UsersStay ==
  ASSUME TreeInv, tree'.epoch = tree.epoch, tree'.users \subseteq tree.users, UNCHANGED workers, hook' \subseteq hook,
         \A s \in Folk : peerLife'[s] = "up" => peerLife[s] = "up"
  PROVE  UsersTried'
<1>1. tree.users \subseteq Folk BY DEF TreeInv, PlacesAreTyped, PlaceTypes, Trees, Folk
<1>2. SUFFICES ASSUME NEW s \in tree.users, ~Tried(s)' PROVE (s \notin hook' \/ peerLife'[s] # "up") /\ \A v \in workers' : v.user = s => v.at # "dialing"
BY DEF UsersTried
<1>3. ~Tried(s) BY <1>2 DEF Tried
<1>4. (s \notin hook \/ peerLife[s] # "up") /\ \A v \in workers : v.user = s => v.at # "dialing" BY <1>3 DEF TreeInv, UsersTried
<1>. QED BY <1>1, <1>4
LEMMA CandidatesStay ==
  ASSUME TreeInv, tree'.epoch = tree.epoch, workers' = workers,
         \A s \in Folk : cand'[s] # NoCand /\ cand'[s].epoch = tree.epoch => cand[s] # NoCand /\ cand[s].epoch = tree.epoch,
         \A s \in Folk : peerLife'[s] = "up" /\ s \notin leaving' => peerLife[s] = "up" /\ s \notin leaving
  PROVE  CandidatesTried'
<1>1. SUFFICES ASSUME NEW s \in Folk, cand'[s] # NoCand, cand'[s].epoch = tree.epoch, peerLife'[s] = "up", s \notin leaving' PROVE Tried(s)'
BY DEF CandidatesTried
<1>2. Tried(s) BY <1>1 DEF TreeInv, CandidatesTried
<1>. QED BY <1>2 DEF Tried
LEMMA GoesIs ==
  ASSUME TryTypes, NEW w \in workers, NEW at \in {"dial", "dialing", "claim", "wait"}, Tree!WorkerGoes(w, at)
  PROVE  /\ workers' \in SUBSET Tries
         /\ \A s : Tried(s) => \E x \in workers' : x.user = s /\ x.epoch = tree.epoch
         /\ \A x \in workers' : x \in workers \/ (x.user = w.user /\ x.epoch = w.epoch /\ x.gen = w.gen /\ x.at = at)
         /\ \E x \in workers' : x.user = w.user /\ x.epoch = w.epoch /\ x.at = at
<1>. DEFINE g == [w EXCEPT !.at = at]
<1>1. w \in Tries BY DEF TryTypes
<1>2. g \in Tries /\ g.user = w.user /\ g.epoch = w.epoch /\ g.gen = w.gen /\ g.at = at BY <1>1 DEF Tries
<1>3. workers' = (workers \ {w}) \cup {g} BY DEF Tree!WorkerGoes
<1>. HIDE DEF g
<1>. QED BY <1>2, <1>3 DEF TryTypes, Tried
LEMMA CurrentWorker ==
  ASSUME TreeInv, NEW w \in workers, tree.cancel = w.epoch
  PROVE  w.epoch = tree.epoch
<1>1. w.epoch \in Nat \ {0} BY DEF TreeInv, PlacesAreTyped, TryTypes, Tries
<1>. QED BY <1>1 DEF TreeInv, OneList
LEMMA Typed ==
  ASSUME TreeInv
  PROVE  /\ PlacesAreTyped /\ CandTypes /\ LifeTypes /\ TryTypes /\ tree \in Trees /\ tree.gen \in 0 .. scope.gens /\ tree.users \subseteq Parents
         /\ scope.gens \in Nat /\ \A w \in workers : w.user \in Parents /\ w.user \in Folk /\ w.epoch \in Nat \ {0}
BY TreeAssumption DEF TreeInv, PlacesAreTyped, PlaceTypes, CandTypes, LifeTypes, TryTypes, Trees, Tries, Folk
LEMMA ActivateKeeps ==
  ASSUME TreeInv, UNCHANGED scope, Tree!Activate
  PROVE  ActiveWhile' /\ OneTry' /\ OneDial' /\ MembersStay'
<1>1. /\ tree'.active = TRUE /\ tree'.gen = tree.gen + 1 /\ tree'.epoch = tree.epoch + 1 /\ tree'.parent = None
BY Typed, ActivateTree DEF Now
<1>5. tree.gen \in Nat BY Typed
<1>2. link' = "up" /\ children' = {} /\ UNCHANGED <<workers, peerLife>> BY DEF Tree!Activate
<1>3. ActiveWhile' BY <1>1, <1>2, <1>5 DEF ActiveWhile
<1>4. MembersStay' BY <1>1, <1>2, TreeAssumption DEF MembersStay, Tree!MembersHaveSessions, Tree!Neighbours
<1>. QED BY <1>1, <1>2, <1>3, <1>4, NewEpoch
LEMMA ResetKeeps ==
  ASSUME TreeInv, UNCHANGED scope, Tree!Reset
  PROVE  OneTry' /\ OneDial' /\ MembersStay'
<1>1. tree'.epoch = tree.epoch + 1 /\ tree'.parent = None BY Typed, ResetTree DEF Now
<1>2. children' = {} /\ UNCHANGED <<workers, peerLife>> BY DEF Tree!Reset
<1>3. MembersStay' BY <1>1, <1>2, TreeAssumption DEF MembersStay, Tree!MembersHaveSessions, Tree!Neighbours
<1>. QED BY <1>1, <1>2, <1>3, NewEpoch
LEMMA EmbeddedKeeps ==
  ASSUME TreeInv, UNCHANGED scope, Tree!HandleServerEmbedded
  PROVE  OneTry' /\ OneDial' /\ MembersStay' /\ BranchHeard'
<1>1. /\ tree'.epoch = tree.epoch + 1 /\ tree'.parent = None /\ tree'.branch = [level |-> 0, root |-> Me]
BY Typed, EmbeddedTree DEF Now
<1>2. UNCHANGED <<children, workers, peerLife>> BY DEF Tree!HandleServerEmbedded
<1>3. MembersStay' BY <1>1, <1>2, TreeAssumption DEF TreeInv, MembersStay, Tree!MembersHaveSessions, Tree!Neighbours
<1>4. children \subseteq Folk BY DEF TreeInv, PlacesAreTyped, PlaceTypes, Folk
<1>5. PICK F \in Tree!Overflows(children) :
        /\ IF tree.serverParent THEN UNCHANGED heard ELSE Tree!QueueMetadata(children, F, 0, Me)
        /\ Tree!Leaves(F \cup {s \in Folk : cand[s] # Tree!NoCandidate})
BY DEF Tree!HandleServerEmbedded, Tree!Neighbours, Folk
<1>6. F \subseteq children BY DEF Tree!Overflows
<1>7. leaving \subseteq leaving' /\ \A s \in F : peerLife[s] = "up" => s \in leaving' BY <1>4, <1>5, <1>6, Typed, LeavesIs
<1>8. ASSUME NEW x \in children, peerLife[x] = "up", x \notin leaving' PROVE heard'[x] = [level |-> 0, root |-> Me]
  <2>1. x \notin F /\ x \notin leaving BY <1>7, <1>8
  <2>2. CASE tree.serverParent
    <3>1. heard[x] = tree.branch BY <1>8, <2>1, <2>2 DEF TreeInv, BranchHeard, Tree!ChildrenKnowBranch
    <3>. QED BY <1>5, <2>2, <3>1 DEF TreeInv, OwnBranch
  <2>3. CASE ~tree.serverParent BY <1>4, <1>5, <1>8, <2>1, <2>3 DEF Tree!QueueMetadata, Tree!Neighbours, Folk
  <2>. QED BY <2>2, <2>3
<1>9. BranchHeard' BY <1>1, <1>2, <1>8 DEF BranchHeard, Tree!ChildrenKnowBranch
<1>. QED BY <1>1, <1>2, <1>3, <1>9, NewEpoch
LEMMA CapacityKeeps ==
  ASSUME TreeInv, UNCHANGED scope, Tree!UpdateCapacityInputs
  PROVE  OneDial' /\ UsersTried' /\ CandidatesTried'
<1>1. tree'.epoch = tree.epoch /\ tree'.users = tree.users BY Typed, CapacityTree DEF Now
<1>2. UNCHANGED <<cand, hook, leaving, workers, peerLife>> BY DEF Tree!UpdateCapacityInputs
<1>. QED BY <1>1, <1>2, SameEpoch, UsersStay, CandidatesStay
LEMMA OfferKeeps ==
  ASSUME TreeInv, UNCHANGED scope, Tree!OfferParents(scope.parents)
  PROVE  UsersTried'
<1>1. tree'.epoch = tree.epoch + 1 /\ tree'.users = scope.parents BY Typed, OfferParentsTree DEF Now
<1>. DEFINE x(s) == [user |-> s, epoch |-> tree.epoch + 1, gen |-> tree.gen, at |-> "dial"]
<1>2. \A s \in scope.parents : x(s) \in workers' BY DEF Tree!OfferParents
<1>3. \A s : x(s).user = s /\ x(s).epoch = tree.epoch + 1 OBVIOUS
<1>. HIDE DEF x
<1>. QED BY <1>1, <1>2, <1>3 DEF UsersTried, Tried
LEMMA FindParentKeeps ==
  ASSUME TreeInv, UNCHANGED scope, NEW w \in workers, Tree!FindParent(w)
  PROVE  UsersTried' /\ CandidatesTried'
<1>. USE DEF TreeInv
<1>1. UNCHANGED <<tree, cand, peerLife, leaving, hook>> BY DEF Tree!FindParent, Tree!WorkerUnchanged
<1>2. w.at = "dial" /\ \A v \in workers : v.user = w.user => v.at # "dialing" BY DEF Tree!FindParent, Tree!Dialing
<1>3. \/ peerLife[w.user] = "up" /\ Tree!WorkerGoes(w, "claim")
      \/ peerLife[w.user] # "up" /\ tree.cancel = w.epoch /\ Tree!WorkerGoes(w, "dialing")
      \/ peerLife[w.user] # "up" /\ tree.cancel # w.epoch /\ workers' = workers \ {w}
BY DEF Tree!FindParent, Tree!CtxDone, Tree!WorkerEnds
<1>4. \A s : Tried(s)' <=> \E x \in workers' : x.user = s /\ x.epoch = tree.epoch BY <1>1 DEF Tried
<1>5. CASE peerLife[w.user] = "up" /\ Tree!WorkerGoes(w, "claim")
  <2>1. (\A s : Tried(s) => Tried(s)') /\ \A x \in workers' : x \in workers \/ x.at = "claim" BY <1>4, <1>5, Typed, GoesIs
  <2>2. UsersTried' BY <1>1, <2>1 DEF UsersTried
  <2>3. CandidatesTried' BY <1>1, <2>1 DEF CandidatesTried
  <2>. QED BY <2>2, <2>3
<1>6. CASE peerLife[w.user] # "up" /\ tree.cancel = w.epoch /\ Tree!WorkerGoes(w, "dialing")
  <2>1. /\ \A s : Tried(s) => Tried(s)'
        /\ \A x \in workers' : x \in workers \/ (x.user = w.user /\ x.at = "dialing")
        /\ \E x \in workers' : x.user = w.user /\ x.epoch = w.epoch
    BY <1>4, <1>6, Typed, GoesIs
  <2>2. Tried(w.user)' BY <1>4, <1>6, <2>1, CurrentWorker
  <2>3. UsersTried' BY <1>1, <2>1, <2>2 DEF UsersTried
  <2>4. CandidatesTried' BY <1>1, <2>1 DEF CandidatesTried
  <2>. QED BY <2>3, <2>4
<1>7. CASE peerLife[w.user] # "up" /\ tree.cancel # w.epoch /\ workers' = workers \ {w}
  <2>1. \A s : Tried(s) => Tried(s)' \/ (s = w.user /\ w.epoch = tree.epoch) BY <1>4, <1>7 DEF Tried
  <2>2. tree.users # {} => w.epoch # tree.epoch BY <1>7 DEF OneList
  <2>3. UsersTried' BY <1>1, <1>7, <2>1, <2>2 DEF UsersTried
  <2>4. CandidatesTried' BY <1>1, <1>7, <2>1 DEF CandidatesTried
  <2>. QED BY <2>3, <2>4
<1>. QED BY <1>3, <1>5, <1>6, <1>7
LEMMA DialParentKeeps ==
  ASSUME TreeInv, UNCHANGED scope, NEW w \in workers, Tree!DialParent(w)
  PROVE  CandTypes' /\ LifeTypes' /\ UsersTried' /\ CandidatesTried'
<1>1. tree' = tree /\ leaving' = leaving /\ w.at = "dialing" /\ w.user \in Folk BY Typed DEF Tree!DialParent
<1>2. \A s : Tried(s)' <=> \E x \in workers' : x.user = s /\ x.epoch = tree.epoch BY <1>1 DEF Tried
<1>3. \A v \in workers : v.user = w.user /\ v.at = "dialing" => v = w BY <1>1 DEF TreeInv, OneDial
<1>4. peerLife[w.user] # "up" BY <1>1 DEF TreeInv, OneDial
<1>5. ASSUME peerLife' = [peerLife EXCEPT ![w.user] = "up"], hook' = hook \cup {w.user}, sgen' = [sgen EXCEPT ![w.user] = tree.gen],
             cand' = [cand EXCEPT ![w.user] = NoCand], Tree!WorkerGoes(w, "claim")
      PROVE  CandTypes' /\ LifeTypes' /\ UsersTried' /\ CandidatesTried'
  <2>1. cand' \in [Folk -> Candidates] /\ cand'[w.user] = NoCand /\ \A o \in Folk : o # w.user => cand'[o] = cand[o]
    BY <1>1, <1>5, Typed, CandForms, CandSets
  <2>2. LifeTypes' BY <1>1, <1>5, Typed DEF LifeTypes
  <2>3. peerLife \in [Folk -> {"off", "up", "closing"}] /\ tree.users \subseteq Folk BY Typed DEF LifeTypes, Folk
  <2>4. \A o \in Folk : o # w.user => peerLife'[o] = peerLife[o] BY <1>5, <2>3
  <2>5. (\A s : Tried(s) => Tried(s)') /\ \A x \in workers' : x \in workers \/ x.at = "claim" BY <1>2, <1>5, Typed, GoesIs
  <2>6. UsersTried'
    <3>1. SUFFICES ASSUME NEW s \in tree.users, ~Tried(s)' PROVE (s \notin hook' \/ peerLife'[s] # "up") /\ \A v \in workers' : v.user = s => v.at # "dialing"
      BY <1>1 DEF UsersTried
    <3>2. (s \notin hook \/ peerLife[s] # "up") /\ \A v \in workers : v.user = s => v.at # "dialing"
      BY <2>5, <3>1 DEF TreeInv, UsersTried
    <3>3. s # w.user BY <1>1, <3>2
    <3>. QED BY <1>5, <2>3, <2>4, <2>5, <3>2, <3>3
  <2>7. CandidatesTried' BY <1>1, <2>1, <2>4, <2>5 DEF TreeInv, CandidatesTried
  <2>. QED BY <2>1, <2>2, <2>6, <2>7 DEF CandTypes
<1>6. ASSUME workers' = workers \ {w}, UNCHANGED <<peerLife, hook, sgen, cand>>
      PROVE  CandTypes' /\ LifeTypes' /\ UsersTried' /\ CandidatesTried'
  <2>1. \A s : Tried(s) => Tried(s)' \/ s = w.user BY <1>2, <1>6 DEF Tried
  <2>2. UsersTried' BY <1>1, <1>3, <1>4, <1>6, <2>1 DEF TreeInv, UsersTried
  <2>3. CandidatesTried' BY <1>1, <1>4, <1>6, <2>1 DEF TreeInv, CandidatesTried
  <2>4. CandTypes' /\ LifeTypes' BY <1>1, <1>6, Typed DEF CandTypes, LifeTypes
  <2>. QED BY <2>2, <2>3, <2>4
<1>. QED BY <1>5, <1>6, CandForms DEF Tree!DialParent, Tree!WorkerEnds
LEMMA RetireIs ==
  ASSUME TreeInv, NEW w \in workers, Tree!Retire(w)
  PROVE  /\ cand' \in [Folk -> Candidates] /\ leaving' \in SUBSET Folk /\ leaving \subseteq leaving'
         /\ \A s \in Folk : cand'[s] # NoCand => cand'[s] = cand[s]
         /\ cand'[w.user] # NoCand => cand'[w.user].epoch # w.epoch
<1>1. w.user \in Folk /\ w.user \in Parents /\ w.user # None BY Typed, TreeAssumption
<1>2. CASE tree.parent # w.user /\ cand[w.user].epoch = w.epoch
  <2>1. cand' = [cand EXCEPT ![w.user] = NoCand] /\ Tree!Leaves({w.user}) BY <1>2, CandForms DEF Tree!Retire
  <2>2. cand' \in [Folk -> Candidates] /\ cand'[w.user] = NoCand /\ \A o \in Folk : o # w.user => cand'[o] = cand[o]
    BY <1>1, <2>1, Typed, CandForms, CandSets
  <2>3. leaving' \in SUBSET Folk /\ leaving \subseteq leaving' BY <1>1, <2>1, Typed, LeavesIs
  <2>. QED BY <2>2, <2>3
<1>3. CASE ~(tree.parent # w.user /\ cand[w.user].epoch = w.epoch)
  <2>1. cand' = cand /\ leaving' = leaving BY <1>3 DEF Tree!Retire
  <2>2. cand \in [Folk -> Candidates] /\ leaving \in SUBSET Folk BY Typed DEF CandTypes, LifeTypes
  <2>3. cand[w.user] # NoCand => tree.parent # w.user BY <1>1 DEF TreeInv, NoRivals
  <2>. QED BY <1>3, <2>1, <2>2, <2>3
<1>. QED BY <1>2, <1>3
LEMMA EndsKeeps ==
  ASSUME TreeInv, NEW w \in workers, workers' = workers \ {w}, UNCHANGED <<tree, hook, sgen, peerLife>>,
         cand' \in [Folk -> Candidates], leaving' \in SUBSET Folk, leaving \subseteq leaving',
         \A s \in Folk : cand'[s] # NoCand => cand'[s] = cand[s],
         cand'[w.user] # NoCand /\ cand'[w.user].epoch = tree.epoch /\ peerLife[w.user] = "up" => w.epoch # tree.epoch,
         UNCHANGED scope
  PROVE  CandTypes' /\ LifeTypes' /\ CandidatesTried'
<1>1. CandTypes' BY DEF CandTypes
<1>2. LifeTypes' BY Typed DEF LifeTypes
<1>3. ASSUME NEW s \in Folk, cand'[s] # NoCand, cand'[s].epoch = tree.epoch, peerLife[s] = "up", s \notin leaving'
      PROVE  \E x \in workers' : x.user = s /\ x.epoch = tree.epoch
  <2>1. \E x \in workers : x.user = s /\ x.epoch = tree.epoch BY <1>3 DEF TreeInv, CandidatesTried, Tried
  <2>. QED BY <1>3, <2>1
<1>4. CandidatesTried' BY <1>3 DEF CandidatesTried, Tried
<1>. QED BY <1>1, <1>2, <1>4
LEMMA ClaimCandidateKeeps ==
  ASSUME TreeInv, UNCHANGED scope, NEW w \in workers, Tree!ClaimCandidate(w)
  PROVE  CandTypes' /\ LifeTypes' /\ CandidatesTried'
<1>1. UNCHANGED <<tree, hook, sgen, peerLife>> /\ w.user \in Folk BY Typed DEF Tree!ClaimCandidate, Tree!WorkerUnchanged
<1>2. CASE Tree!WorkerCurrent(w)
  <2>1. /\ cand' = [cand EXCEPT ![w.user] = IF @ = NoCand THEN Tree!NewCandidate ELSE @]
        /\ Tree!WorkerGoes(w, "wait") /\ leaving' = leaving
    BY <1>2, CandForms DEF Tree!ClaimCandidate
  <2>2. w.epoch = tree.epoch BY <1>2 DEF Tree!WorkerCurrent
  <2>. DEFINE x == IF cand[w.user] = NoCand THEN Tree!NewCandidate ELSE cand[w.user]
  <2>3. x \in Candidates BY <1>1, Typed, NewCand DEF CandTypes
  <2>4. cand' = [cand EXCEPT ![w.user] = x] BY <2>1
  <2>. HIDE DEF x
  <2>5. cand' \in [Folk -> Candidates] /\ \A o \in Folk : o # w.user => cand'[o] = cand[o] BY <1>1, <2>3, <2>4, Typed, CandSets
  <2>6. (\A s : Tried(s) => Tried(s)') /\ Tried(w.user)' BY <1>1, <2>1, <2>2, Typed, GoesIs DEF Tried
  <2>7. CandidatesTried' BY <1>1, <2>1, <2>5, <2>6 DEF TreeInv, CandidatesTried
  <2>. QED BY <1>1, <2>1, <2>5, <2>7, Typed DEF CandTypes, LifeTypes
<1>3. CASE ~Tree!WorkerCurrent(w)
  <2>1. Tree!Retire(w) /\ workers' = workers \ {w} BY <1>3 DEF Tree!ClaimCandidate, Tree!WorkerEnds
  <2>. QED BY <1>1, <2>1, RetireIs, EndsKeeps
<1>. QED BY <1>2, <1>3
LEMMA AwaitPromotionKeeps ==
  ASSUME TreeInv, UNCHANGED scope, NEW w \in workers, Tree!AwaitPromotion(w)
  PROVE  CandTypes' /\ LifeTypes' /\ CandidatesTried'
<1>1. UNCHANGED <<tree, hook, sgen, peerLife>> /\ workers' = workers \ {w} /\ w.user \in Folk
BY Typed DEF Tree!AwaitPromotion, Tree!WorkerUnchanged, Tree!WorkerEnds
<1>2. CASE Tree!Retire(w) BY <1>1, <1>2, RetireIs, EndsKeeps
<1>3. CASE (~Tree!WorkerCurrent(w) \/ peerLife[w.user] = "off") /\ UNCHANGED <<cand, leaving>>
  <2>1. cand \in [Folk -> Candidates] /\ leaving \in SUBSET Folk BY Typed DEF CandTypes, LifeTypes
  <2>2. cand[w.user] # NoCand /\ peerLife[w.user] = "up" => w.epoch # tree.epoch
    BY <1>1, <1>3 DEF TreeInv, NoRivals, Tree!WorkerCurrent
  <2>. QED BY <1>1, <1>3, <2>1, <2>2, EndsKeeps
<1>. QED BY <1>2, <1>3 DEF Tree!AwaitPromotion
LEMMA ChildConnectsKeeps ==
  ASSUME TreeInv, UNCHANGED scope, NEW s \in Folk, s \in scope.kids, Tree!ChildConnects(s)
  PROVE  WaitsAfterHook'
<1>1. s \in Kids /\ \A w \in workers : w.user \in Parents BY Typed, TreeAssumption DEF PlacesAreTyped, PlaceTypes
<1>2. s \notin Parents BY <1>1, TreeAssumption
<1>3. hook' = hook \cup {s} /\ workers' = workers BY DEF Tree!ChildConnects
<1>. QED BY <1>1, <1>2, <1>3 DEF TreeInv, WaitsAfterHook
LEMMA EstablishedParentKeeps ==
  ASSUME TreeInv, UNCHANGED scope, NEW s \in Folk, Tree!EstablishedParent(s)
  PROVE  CandTypes' /\ CandidatesTried'
<1>1. UNCHANGED <<tree, peerLife, workers>> /\ s \in hook BY DEF Tree!EstablishedParent
<1>2. \A o : Tried(o)' <=> Tried(o) BY <1>1 DEF Tried
<1>3. CASE s \in tree.users /\ cand' = [cand EXCEPT ![s] = IF @ = Tree!NoCandidate THEN Tree!NewCandidate ELSE @] /\ UNCHANGED leaving
  <2>. DEFINE x == IF cand[s] = NoCand THEN Tree!NewCandidate ELSE cand[s]
  <2>3. x \in Candidates BY Typed, NewCand DEF CandTypes
  <2>4. cand' = [cand EXCEPT ![s] = x] BY <1>3, CandForms
  <2>. HIDE DEF x
  <2>5. cand' \in [Folk -> Candidates] /\ \A o \in Folk : o # s => cand'[o] = cand[o] BY <2>3, <2>4, Typed, CandSets
  <2>6. Tried(s) \/ peerLife[s] # "up" BY <1>1, <1>3 DEF TreeInv, UsersTried
  <2>7. CandidatesTried' BY <1>1, <1>2, <1>3, <2>5, <2>6 DEF TreeInv, CandidatesTried
  <2>. QED BY <2>5, <2>7 DEF CandTypes
<1>4. CASE Tree!Leaves({s}) /\ UNCHANGED cand
  <2>1. leaving \subseteq leaving' BY <1>4, Typed, LeavesIs
  <2>2. CandidatesTried' BY <1>1, <1>4, <2>1, CandidatesStay
  <2>. QED BY <1>4, <2>2, Typed DEF CandTypes
<1>. QED BY <1>3, <1>4 DEF Tree!EstablishedParent
LEMMA ReadLoopFailsKeeps ==
  ASSUME TreeInv, UNCHANGED scope, NEW s \in Folk, Tree!ReadLoopFails(s)
  PROVE  CandidatesTried'
<1>1. UNCHANGED <<tree, cand, peerLife, workers>> BY DEF Tree!ReadLoopFails
<1>2. leaving \subseteq leaving' BY Typed, LeavesIs DEF Tree!ReadLoopFails
<1>. QED BY <1>1, <1>2, CandidatesStay
LEMMA CloseKeeps ==
  ASSUME TreeInv, UNCHANGED scope, NEW s \in Folk, Tree!Close(s)
  PROVE  CandidatesTried'
<1>1. UNCHANGED <<tree, cand, workers>> /\ leaving' = leaving \ {s} /\ peerLife' = [peerLife EXCEPT ![s] = "closing"]
BY DEF Tree!Close
<1>2. \A o \in Folk : peerLife'[o] = "up" => peerLife[o] = "up" /\ o # s BY <1>1, Typed DEF LifeTypes
<1>. QED BY <1>1, <1>2, CandidatesStay
LEMMA ReadFrameKeeps ==
  ASSUME TreeInv, UNCHANGED scope, NEW s \in Folk, Tree!ReadFrame(s)
  PROVE  CandidatesTried'
<1>1. UNCHANGED <<tree, cand, peerLife, workers>> BY DEF Tree!ReadFrame, Tree!FrameUnchanged
<1>2. leaving \subseteq leaving' BY Typed, LeavesIs DEF Tree!ReadFrame
<1>. QED BY <1>1, <1>2, CandidatesStay
LEMMA CandidateFrameKeeps ==
  ASSUME TreeInv, UNCHANGED scope, NEW s \in Folk, Tree!CandidateFrame(s)
  PROVE  CandTypes' /\ CandidatesTried'
<1>. USE DEF Tree!CandidateFrame
<1>1. UNCHANGED <<tree, peerLife, workers>> BY DEF Tree!FrameUnchanged
<1>2. CASE cand[s] = NoCand
  <2>1. Tree!Leaves({s}) /\ UNCHANGED cand BY <1>2, CandForms
  <2>2. leaving \subseteq leaving' BY <2>1, Typed, LeavesIs
  <2>3. CandidatesTried' BY <1>1, <2>1, <2>2, CandidatesStay
  <2>. QED BY <2>1, <2>3, Typed DEF CandTypes
<1>3. CASE cand[s] # NoCand
  <2>1. leaving' = leaving BY <1>3, CandForms
  <2>2. cand[s] \in Candidates BY Typed DEF CandTypes
  <2>3. PICK x \in { [cand[s] EXCEPT !.level = 0, !.root = s], [cand[s] EXCEPT !.level = 1],
                     [cand[s] EXCEPT !.root = IF cand[s].level = 0 THEN s ELSE Far], [cand[s] EXCEPT !.search = TRUE] } :
           cand' = [cand EXCEPT ![s] = x]
    BY <1>3, CandForms
  <2>4. x \in Candidates /\ x.epoch = cand[s].epoch BY <2>2 DEF Candidates
  <2>5. cand' \in [Folk -> Candidates] /\ cand'[s] = x /\ \A o \in Folk : o # s => cand'[o] = cand[o] BY <2>3, <2>4, Typed, CandSets
  <2>6. CandidatesTried' BY <1>1, <1>3, <2>1, <2>4, <2>5, CandidatesStay
  <2>. QED BY <2>5, <2>6 DEF CandTypes
<1>. QED BY <1>2, <1>3
LEMMA SameTrees == ASSUME UNCHANGED scope PROVE Trees' = Trees BY DEF Trees
LEMMA EstablishedChildKeeps ==
  ASSUME TreeInv, UNCHANGED scope, NEW s \in Folk, Tree!EstablishedChild(s)
  PROVE  PlaceTypes' /\ LifeTypes' /\ HeardTypes' /\ OneList' /\ OneDial' /\ UsersTried' /\ CandidatesTried' /\ MembersStay' /\ BranchHeard'
<1>1. /\ tree' \in Trees /\ tree'.epoch = tree.epoch /\ tree'.users = tree.users /\ tree'.cancel = tree.cancel /\ tree'.parent = tree.parent
      /\ tree'.serverParent = tree.serverParent /\ tree'.branch = tree.branch
BY Typed, ChildTree DEF Now
<1>2. UNCHANGED <<cand, peerLife, sgen, workers>> /\ hook' = hook \ {s} /\ s \in Kids BY DEF Tree!EstablishedChild
<1>3. children \in SUBSET Kids /\ tree.branch \in Places /\ leaving \in SUBSET Folk /\ heard \in [Folk -> Places]
BY DEF TreeInv, PlacesAreTyped, PlaceTypes, Trees, LifeTypes, HeardTypes
<1>4. /\ children' \subseteq children \cup {s}
      /\ s \in children' /\ s \notin children => peerLife[s] = "up"
      /\ leaving' \in SUBSET Folk /\ leaving \subseteq leaving'
      /\ \/ heard' = heard /\ children' = children
         \/ heard' = [x \in Folk |-> IF x \in {s} \cap children' THEN [level |-> tree.branch.level, root |-> tree.branch.root] ELSE heard[x]]
  <2>1. CASE ~tree.active BY <1>3, <2>1 DEF Tree!EstablishedChild
  <2>2. CASE tree.active
    <3>1. PICK F \in Tree!Overflows({s}) :
            /\ children' = IF sgen[s] = tree.gen /\ Tree!Accepts(tree, children) /\ F = {} THEN children \cup {s} ELSE children
            /\ Tree!QueueMetadata({s} \cap children', {}, tree.branch.level, tree.branch.root)
            /\ Tree!Leaves({s} \ children')
      BY <2>2 DEF Tree!EstablishedChild
    <3>2. F = {} => peerLife[s] = "up" BY DEF Tree!Overflows, Tree!Gone
    <3>3. leaving' \in SUBSET Folk /\ leaving \subseteq leaving' BY <3>1, Typed, LeavesIs
    <3>4. heard' = [x \in Folk |-> IF x \in {s} \cap children' THEN [level |-> tree.branch.level, root |-> tree.branch.root] ELSE heard[x]]
      BY <3>1 DEF Tree!QueueMetadata, Tree!Neighbours, Folk
    <3>. QED BY <3>1, <3>2, <3>3, <3>4
  <2>. QED BY <2>1, <2>2
<1>5. [level |-> tree.branch.level, root |-> tree.branch.root] = tree.branch BY <1>3 DEF Places
<1>6. PlaceTypes' BY <1>1, <1>2, <1>3, <1>4, SameTrees DEF TreeInv, PlacesAreTyped, PlaceTypes
<1>7. LifeTypes' BY <1>2, <1>4, Typed DEF LifeTypes
<1>8. HeardTypes' BY <1>3, <1>4, <1>5 DEF HeardTypes
<1>9. OneList' BY <1>1, <1>2 DEF TreeInv, OneList
<1>10. OneDial' BY <1>1, <1>2, SameEpoch
<1>11. UsersTried' BY <1>1, <1>2, UsersStay
<1>12. CandidatesTried' BY <1>1, <1>2, <1>4, CandidatesStay
<1>13. MembersStay' BY <1>1, <1>2, <1>4 DEF TreeInv, MembersStay, Tree!MembersHaveSessions
<1>14. BranchHeard'
  <2>1. \A x \in children : x \in Folk BY <1>3 DEF Folk
  <2>. QED BY <1>1, <1>2, <1>4, <1>5, <2>1 DEF TreeInv, BranchHeard, Tree!ChildrenKnowBranch
<1>. QED BY <1>6, <1>7, <1>8, <1>9, <1>10, <1>11, <1>12, <1>13, <1>14
LEMMA ClosedKeeps ==
  ASSUME TreeInv, UNCHANGED scope, NEW s \in Folk, Tree!Closed(s)
  PROVE  PlaceTypes' /\ CandTypes' /\ NoRivals' /\ OneList' /\ OneTry' /\ OneDial' /\ UsersTried' /\ CandidatesTried' /\ MembersStay' /\ BranchHeard'
<1>. DEFINE Kept == tree' = tree /\ children' = children /\ s \notin children /\ tree.parent # s
            Child == s \in children /\ children' = children \ {s} /\ tree' \in Trees /\ tree'.active = tree.active
                     /\ tree'.epoch = tree.epoch /\ tree'.users = tree.users /\ tree'.cancel = tree.cancel
                     /\ tree'.parent = tree.parent /\ tree'.serverParent = tree.serverParent /\ tree'.branch = tree.branch
            Parent == tree.parent = s /\ children' = children /\ tree' \in Trees /\ tree'.epoch = tree.epoch + 1 /\ tree'.users = {}
                      /\ tree'.cancel = tree.cancel /\ tree'.parent = None /\ tree'.serverParent = FALSE /\ \A o \in Folk : cand'[o] = NoCand
<1>1. UNCHANGED <<hook, leaving, workers>> /\ peerLife' = [peerLife EXCEPT ![s] = "off"] /\ heard' = [heard EXCEPT ![s] = Tree!Unheard]
BY DEF Tree!Closed
<1>2. /\ children \in SUBSET Kids /\ children \subseteq Folk /\ tree \in Trees /\ tree.parent \in Parents \cup {None} /\ cand \in [Folk -> Candidates]
      /\ Parents \cap Kids = {} /\ None \notin Folk
BY TreeAssumption DEF TreeInv, PlacesAreTyped, PlaceTypes, Trees, CandTypes, Folk
<1>3. cand' \in [Folk -> Candidates] /\ \A o \in Folk : cand'[o] # NoCand => cand'[o] = cand[o]
  <2>1. \/ cand' = cand \/ cand' = [cand EXCEPT ![s] = NoCand] \/ Tree!NoCandidates BY CandForms DEF Tree!Closed
  <2>2. CASE cand' = cand BY <1>2, <2>2
  <2>3. CASE cand' = [cand EXCEPT ![s] = NoCand] BY <2>3, Typed, CandForms, CandSets
  <2>4. CASE Tree!NoCandidates BY <2>4, CandsGone
  <2>. QED BY <2>1, <2>2, <2>3, <2>4
<1>4. Kept \/ Child \/ Parent
  <2>1. CASE tree' = tree /\ children' = children /\ s \notin children /\ (cand[s] = NoCand => tree.parent # s)
    <3>1. cand[s] # NoCand => tree.parent # s BY <1>2 DEF TreeInv, NoRivals
    <3>. QED BY <2>1, <3>1
  <2>2. CASE /\ s \in children /\ children' = children \ {s}
             /\ Now(tree.active, tree.gen, tree.epoch, tree.cancel, tree.users, tree.parent, tree.level,
                    tree.serverParent, tree.branch, tree.capacity, {Tree!Accepts(tree', children')})
    BY <2>2 DEF Now
  <2>3. CASE /\ tree.parent = s /\ children' = children /\ cand[s] = NoCand
             /\ Now(tree.active, tree.gen, tree.epoch + 1, tree.cancel, {}, None, 0, FALSE, [level |-> 0, root |-> Me], tree.capacity, {FALSE})
    <3>1. \A o \in Folk : cand[o] = NoCand BY <1>2, <2>3 DEF TreeInv, NoRivals
    <3>2. \A o \in Folk : cand'[o] = NoCand BY <1>3, <3>1
    <3>. QED BY <2>3, <3>2 DEF Now
  <2>. QED BY <2>1, <2>2, <2>3, Typed, ClosedTree
<1>. HIDE DEF Kept, Child, Parent
<1>5. \A o \in Folk : (o # s => peerLife'[o] = peerLife[o] /\ heard'[o] = heard[o]) /\ (peerLife'[o] = "up" => peerLife[o] = "up" /\ o # s)
BY <1>1, Typed DEF TreeInv, PlacesAreTyped, LifeTypes, HeardTypes
<1>6. PlaceTypes' BY <1>2, <1>4, SameTrees DEF Kept, Child, Parent, TreeInv, PlacesAreTyped, PlaceTypes
<1>7. CandTypes' BY <1>3 DEF CandTypes
<1>8. NoRivals' BY <1>3, <1>4 DEF Kept, Child, Parent, TreeInv, NoRivals
<1>9. OneList' BY <1>1, <1>2, <1>4 DEF Kept, Child, Parent, TreeInv, OneList
<1>10. OneTry' /\ OneDial'
  <2>1. CASE tree'.epoch = tree.epoch BY <1>1, <1>5, <2>1, SameEpoch
  <2>2. CASE tree'.epoch = tree.epoch + 1 BY <1>1, <1>5, <2>2, NewEpoch
  <2>. QED BY <1>4, <2>1, <2>2 DEF Kept, Child, Parent
<1>11. UsersTried'
  <2>1. CASE Parent BY <2>1 DEF Parent, UsersTried
  <2>2. CASE Kept \/ Child BY <1>1, <1>5, <2>2, UsersStay DEF Kept, Child
  <2>. QED BY <1>4, <2>1, <2>2
<1>12. CandidatesTried'
  <2>1. CASE Parent BY <2>1 DEF Parent, CandidatesTried
  <2>2. CASE Kept \/ Child BY <1>1, <1>3, <1>5, <2>2, CandidatesStay DEF Kept, Child
  <2>. QED BY <1>4, <2>1, <2>2
<1>13. MembersStay'
  <2>1. \A o \in Folk : (tree'.parent = o => tree.parent = o) /\ (o \in children' => o \in children)
    BY <1>2, <1>4 DEF Kept, Child, Parent
  <2>2. tree'.parent # s /\ s \notin children' BY <1>2, <1>4 DEF Kept, Child, Parent
  <2>. QED BY <1>5, <2>1, <2>2 DEF TreeInv, MembersStay, Tree!MembersHaveSessions, Tree!Neighbours, Folk
<1>14. BranchHeard' BY <1>1, <1>2, <1>4, <1>5 DEF Kept, Child, Parent, TreeInv, BranchHeard, Tree!ChildrenKnowBranch
<1>. QED BY <1>6, <1>7, <1>8, <1>9, <1>10, <1>11, <1>12, <1>13, <1>14
LEMMA ParentLevelKeeps ==
  ASSUME TreeInv, UNCHANGED scope, NEW s \in Folk, Tree!ParentLevel(s)
  PROVE  PlaceTypes' /\ HeardTypes' /\ OneDial' /\ CandidatesTried' /\ BranchHeard'
<1>1. UNCHANGED <<cand, children, peerLife, workers>> /\ tree.parent = s
BY DEF Tree!ParentLevel, Tree!ParentFrame, Tree!FrameUnchanged
<1>2. children \in SUBSET Kids /\ children \subseteq Folk /\ tree.branch \in Places /\ heard \in [Folk -> Places]
BY DEF TreeInv, PlacesAreTyped, PlaceTypes, Trees, HeardTypes, Folk
<1>3. PICK l \in 0 .. 1, F \in Tree!Overflows(children) :
        /\ tree' = [tree EXCEPT !.level = l, !.branch = [level |-> l + 1, root |-> IF l = 0 THEN s ELSE tree.branch.root]]
        /\ heard' = [c0 \in Folk |-> IF c0 \notin children \ F THEN heard[c0]
                     ELSE [level |-> l + 1, root |-> IF (IF l = 0 THEN s ELSE tree.branch.root) = tree.branch.root THEN heard[c0].root ELSE (IF l = 0 THEN s ELSE tree.branch.root)]]
        /\ Tree!Leaves(F)
BY DEF Tree!ParentLevel, Tree!Neighbours, Folk
<1>. DEFINE r == IF l = 0 THEN s ELSE tree.branch.root
            h(x) == IF r = tree.branch.root THEN heard[x].root ELSE r
<1>4. r \in Folk \cup {None, Me, Far} BY <1>2 DEF Places
<1>5. \A x \in Folk : h(x) \in Folk \cup {None, Me, Far} BY <1>2, <1>4 DEF Places
<1>6. tree' = [tree EXCEPT !.level = l, !.branch = [level |-> l + 1, root |-> r]] BY <1>3
<1>7. heard' = [x \in Folk |-> IF x \notin children \ F THEN heard[x] ELSE [level |-> l + 1, root |-> h(x)]] BY <1>3
<1>8. \A x \in Folk : heard[x].root = tree.branch.root => h(x) = r BY <1>4
<1>. HIDE DEF r, h
<1>9. Now(tree.active, tree.gen, tree.epoch, tree.cancel, tree.users, tree.parent, l, tree.serverParent, [level |-> l + 1, root |-> r], tree.capacity, tree.accept)
BY <1>4, <1>6, Typed, LevelTree
<1>10. tree' \in Trees /\ tree'.epoch = tree.epoch /\ tree'.branch = [level |-> l + 1, root |-> r] BY <1>9 DEF Now
<1>11. PlaceTypes' BY <1>1, <1>10, SameTrees DEF TreeInv, PlacesAreTyped, PlaceTypes
<1>12. HeardTypes'
  <2>1. \A x \in Folk : [level |-> l + 1, root |-> h(x)] \in Places BY <1>5 DEF Places
  <2>. HIDE DEF Places
  <2>. QED BY <1>2, <1>7, <2>1 DEF HeardTypes
<1>13. F \subseteq Folk /\ leaving \subseteq leaving' /\ \A x \in F : peerLife[x] = "up" => x \in leaving'
  <2>1. F \subseteq Folk BY <1>2 DEF Tree!Overflows
  <2>. QED BY <1>3, <2>1, Typed, LeavesIs
<1>14. OneDial' BY <1>1, <1>10, SameEpoch
<1>15. CandidatesTried' BY <1>1, <1>10, <1>13, CandidatesStay
<1>16. tree.parent # None BY <1>1, TreeAssumption DEF Folk
<1>17. ASSUME NEW x \in children, peerLife[x] = "up", x \notin leaving' PROVE heard'[x] = [level |-> l + 1, root |-> r]
  <2>1. heard[x] = tree.branch /\ x \notin F BY <1>13, <1>16, <1>17 DEF TreeInv, BranchHeard, Tree!ChildrenKnowBranch
  <2>2. h(x) = r BY <1>2, <1>8, <2>1
  <2>. QED BY <1>2, <1>7, <2>1, <2>2
<1>18. BranchHeard' BY <1>1, <1>10, <1>17 DEF BranchHeard, Tree!ChildrenKnowBranch
<1>. QED BY <1>11, <1>12, <1>14, <1>15, <1>18
LEMMA TryPromoteKeeps ==
  ASSUME TreeInv, UNCHANGED scope, NEW s \in Folk, Tree!TryPromote(s)
  PROVE  /\ PlaceTypes' /\ CandTypes' /\ LifeTypes' /\ HeardTypes' /\ ActiveWhile' /\ NoRivals' /\ OwnBranch' /\ OneList' /\ OneTry' /\ OneDial'
         /\ UsersTried' /\ CandidatesTried' /\ MembersStay' /\ BranchHeard' /\ AcceptKept'
<1>1. UNCHANGED <<children, peerLife, hook, sgen, workers, link>> BY DEF Tree!TryPromote, Tree!FrameUnchanged
<1>2. /\ children \in SUBSET Kids /\ children \subseteq Folk /\ heard \in [Folk -> Places] /\ cand \in [Folk -> Candidates]
BY DEF TreeInv, PlacesAreTyped, PlaceTypes, HeardTypes, CandTypes, Folk
<1>3. CASE ~Tree!Promotable(s)
  <2>. USE DEF PlacesAreTyped, TreeInv
  <2>1. UNCHANGED <<tree, heard, cand, leaving>> BY <1>3 DEF Tree!TryPromote
  <2>2. PlaceTypes' BY <1>1, <2>1, SameTrees DEF PlaceTypes
  <2>3. CandTypes' /\ HeardTypes' BY <2>1 DEF CandTypes, HeardTypes
  <2>4. LifeTypes' BY <1>1, <2>1 DEF LifeTypes
  <2>5. ActiveWhile' /\ NoRivals' /\ OwnBranch' /\ OneList' /\ OneTry' /\ OneDial'
    BY <1>1, <2>1 DEF ActiveWhile, NoRivals, OwnBranch, OneList, OneTry, OneDial
  <2>6. UsersTried' /\ CandidatesTried' BY <1>1, <2>1 DEF UsersTried, CandidatesTried, Tried
  <2>7. MembersStay' /\ BranchHeard' /\ AcceptKept'
    BY <1>1, <2>1 DEF MembersStay, BranchHeard, AcceptKept, Tree!MembersHaveSessions, Tree!ChildrenKnowBranch,
       Tree!AcceptIsCurrent, Tree!Accepts
  <2>. QED BY <2>2, <2>3, <2>4, <2>5, <2>6, <2>7
<1>4. CASE Tree!Promotable(s)
  <2>1. /\ cand[s] # NoCand /\ cand[s].level # -1 /\ tree.active /\ tree.parent = None /\ ~tree.serverParent /\ sgen[s] = tree.gen
    BY <1>4, CandForms DEF Tree!Promotable
  <2>2. s \in Parents /\ cand[s].level \in 0 .. 1 /\ cand[s].root \in Folk \cup {None, Me, Far}
    <3>1. cand[s] \in Candidates BY <1>2
    <3>. HIDE DEF Candidates
    <3>2. cand[s].level \in {-1, 0, 1} /\ cand[s].root \in Folk \cup {None, Me, Far} BY <3>1 DEF Candidates
    <3>3. s \in Parents BY <2>1 DEF TreeInv, NoRivals
    <3>. QED BY <2>1, <3>2, <3>3
  <2>. DEFINE l == cand[s].level  r == cand[s].root
  <2>3. PICK F \in Tree!Overflows(children) :
           Tree!QueueMetadata(children, F, l + 1, r) /\ Tree!Leaves(F \cup {o \in Folk \ {s} : cand[o] # NoCand})
    BY <1>4, CandForms DEF Tree!TryPromote, Tree!Neighbours, Folk
  <2>4. Tree!NoCandidates BY <1>4 DEF Tree!TryPromote
  <2>5. \A o \in Folk : cand'[o] = NoCand
    <3>. QED BY <2>4, CandsGone
  <2>6. CandTypes'
    <3>. QED BY <2>4, CandsGone DEF CandTypes
  <2>7. Now(tree.active, tree.gen, tree.epoch, 0, {}, s, l, tree.serverParent, [level |-> l + 1, root |-> r], tree.capacity, {Tree!Accepts(tree', children')})
    BY <1>1, <1>4, <2>2, Typed, PromoteTree
  <2>. HIDE DEF l, r
  <2>8. /\ tree' \in Trees /\ tree'.active = tree.active /\ tree'.gen = tree.gen /\ tree'.epoch = tree.epoch /\ tree'.cancel = 0 /\ tree'.users = {}
        /\ tree'.parent = s /\ tree'.serverParent = tree.serverParent /\ tree'.branch = [level |-> l + 1, root |-> r]
        /\ tree'.accept = {Tree!Accepts(tree', children')}
    BY <2>7 DEF Now
  <2>9. F \subseteq Folk BY <1>2 DEF Tree!Overflows
  <2>10. leaving' \in SUBSET Folk /\ leaving \subseteq leaving' /\ \A x \in F : peerLife[x] = "up" => x \in leaving'
    BY <2>3, <2>9, Typed, LeavesIs
  <2>11. [level |-> l + 1, root |-> r] \in Places BY <2>2 DEF Places, l, r
  <2>12. heard' = [x \in Folk |-> IF x \in children \ F THEN [level |-> l + 1, root |-> r] ELSE heard[x]]
    BY <2>3 DEF Tree!QueueMetadata, Tree!Neighbours, Folk
  <2>13. PlaceTypes' BY <1>1, <2>8, SameTrees DEF TreeInv, PlacesAreTyped, PlaceTypes
  <2>14. LifeTypes' BY <1>1, <2>10, Typed DEF LifeTypes
  <2>15. HeardTypes'
    <3>. HIDE DEF Places
    <3>. QED BY <1>2, <2>11, <2>12 DEF HeardTypes
  <2>16. ActiveWhile' BY <1>1, <2>8 DEF TreeInv, ActiveWhile
  <2>17. NoRivals' BY <2>5 DEF NoRivals
  <2>18. OwnBranch' BY <2>1, <2>8 DEF OwnBranch
  <2>19. OneList' BY <2>8 DEF OneList
  <2>20. OneTry' /\ OneDial' BY <1>1, <2>8, SameEpoch
  <2>21. UsersTried' BY <2>8 DEF UsersTried
  <2>22. CandidatesTried' BY <2>5 DEF CandidatesTried
  <2>23. MembersStay'
    <3>1. peerLife[s] # "off"
      <4>1. tree.gen > 0 BY <2>1 DEF TreeInv, ActiveWhile
      <4>. QED BY <2>1, <4>1 DEF TreeInv, OffHasNoGen
    <3>. QED BY <1>1, <2>8, <3>1 DEF TreeInv, MembersStay, Tree!MembersHaveSessions
  <2>24. BranchHeard'
    <3>1. ASSUME NEW x \in children, peerLife[x] = "up", x \notin leaving' PROVE heard'[x] = [level |-> l + 1, root |-> r]
      <4>1. x \notin F BY <2>10, <3>1
      <4>. QED BY <1>2, <2>12, <3>1, <4>1
    <3>. QED BY <1>1, <2>8, <3>1 DEF BranchHeard, Tree!ChildrenKnowBranch
  <2>25. AcceptKept' BY <2>8 DEF AcceptKept, Tree!AcceptIsCurrent, Tree!Accepts
  <2>. QED BY <2>6, <2>13, <2>14, <2>15, <2>16, <2>17, <2>18, <2>19, <2>20, <2>21, <2>22, <2>23, <2>24, <2>25
<1>. QED BY <1>3, <1>4
LEMMA ReportsHold ==
  ASSUME TreeInv, NEW t \in DOMAIN out, NEW ms \in Seq(Kinds \X BOOLEAN), Tree!Reports(t, ms), UNCHANGED <<told, link>>,
         \A k \in Kinds : (\A i \in DOMAIN ms : ms[i][1] # k) => (Wanted(k)' <=> Wanted(k)),
         \A k \in Kinds : \A i \in DOMAIN ms : ms[i][1] = k => (ms[i][2] = Wanted(k)')
  PROVE  OutTypes' /\ ReportsFollow'
<1>1. OutTypes BY DEF TreeInv, PlacesAreTyped
<1>2. OutTypes' BY <1>1, ReportsTypes DEF OutTypes
<1>3. ASSUME link = "up", NEW k \in Kinds, k \notin raced' PROVE Upto(k, Wanted(k))'
  <2>. DEFINE v == Wanted(k)  w == Wanted(k)'
  <2>1. k \notin raced => Upto(k, v) BY <1>3 DEF TreeInv, ReportsFollow
  <2>2. (\A i \in DOMAIN ms : ms[i][1] # k) => w = v BY DEF Wanted
  <2>3. \A i \in DOMAIN ms : ms[i][1] = k /\ (\A n \in DOMAIN ms : n > i => ms[n][1] # k) => ms[i][2] = w OBVIOUS
  <2>4. told' = told OBVIOUS
  <2>. HIDE DEF v, w
  <2>5. ASSUME NEW x, NEW y, x = w, y = v PROVE UptoDate(out', told', k, x)
    <3>1. k \notin raced => Upto(k, y) BY <2>1, <2>5 DEF Upto
    <3>2. (\A i \in DOMAIN ms : ms[i][1] # k) => x = y BY <2>2, <2>5
    <3>3. \A i \in DOMAIN ms : ms[i][1] = k /\ (\A n \in DOMAIN ms : n > i => ms[n][1] # k) => ms[i][2] = x BY <2>3, <2>5
    <3>. QED BY <1>1, <1>3, <2>4, <3>1, <3>2, <3>3, ReportsKeep
  <2>. QED BY <2>5 DEF Upto, w
<1>. QED BY <1>2, <1>3 DEF ReportsFollow
LEMMA SilentHolds ==
  ASSUME TreeInv, UNCHANGED <<out, raced, told, link>>, \A k \in Kinds : (Wanted(k)' <=> Wanted(k))
  PROVE  OutTypes' /\ ReportsFollow'
<1>1. OutTypes' BY DEF TreeInv, PlacesAreTyped, OutTypes
<1>2. ASSUME link = "up", NEW k \in Kinds, k \notin raced PROVE Upto(k, Wanted(k))'
  <2>1. Upto(k, Wanted(k)) BY <1>2 DEF TreeInv, ReportsFollow
  <2>2. Wanted(k)' = Wanted(k) BY DEF Wanted
  <2>. QED BY <2>1, <2>2 DEF Upto, Has, Last
<1>. QED BY <1>1, <1>2 DEF ReportsFollow
LEMMA NoParentIs ==
  LET ms == Tree!NoParentMessages
  IN /\ ms \in Seq(Kinds \X BOOLEAN) /\ DOMAIN ms = {1, 2} /\ ms[1] = <<"noParent", TRUE>> /\ ms[2] = <<"accept", FALSE>>
<1>1. <<"noParent", TRUE>> \in Kinds \X BOOLEAN /\ <<"accept", FALSE>> \in Kinds \X BOOLEAN BY DEF Kinds
<1>. DEFINE x == <<"noParent", TRUE>>  y == <<"accept", FALSE>>
<1>2. Tree!NoParentMessages = <<x, y>> BY DEF Tree!NoParentMessages
<1>. HIDE DEF x, y
<1>3. \A S : x \in S /\ y \in S => <<x, y>> \in Seq(S) OBVIOUS
<1>4. <<x, y>> \in Seq(Kinds \X BOOLEAN) BY <1>1, <1>3 DEF x, y
<1>5. DOMAIN <<x, y>> = {1, 2} /\ <<x, y>>[1] = x /\ <<x, y>>[2] = y OBVIOUS
<1>. QED BY <1>2, <1>4, <1>5 DEF x, y
LEMMA UpdateIs ==
  ASSUME NEW tr, NEW kids
  PROVE  LET ms == Tree!AcceptUpdate(tr, kids)
         IN /\ ms \in Seq(Kinds \X BOOLEAN) /\ \A i \in DOMAIN ms : ms[i] = <<"accept", Tree!Accepts(tr, kids)>>
            /\ Tree!Accepts(tr, kids) \in BOOLEAN /\ (tr.accept = {Tree!Accepts(tr, kids)} \/ 1 \in DOMAIN ms)
            /\ (ms = <<>> \/ ms = << <<"accept", Tree!Accepts(tr, kids)>> >>)
<1>1. Tree!Accepts(tr, kids) \in BOOLEAN BY DEF Tree!Accepts
<1>. QED BY <1>1 DEF Tree!AcceptUpdate, Kinds
LEMMA AcceptReported ==
  ASSUME TreeInv, NEW t \in DOMAIN out, NEW tr, NEW kids, Tree!Reports(t, Tree!AcceptUpdate(tr, kids)), UNCHANGED <<told, link>>,
         tr.accept = tree.accept, tree'.accept = {Tree!Accepts(tr, kids)}, (tree'.parent = None) <=> (tree.parent = None)
  PROVE  OutTypes' /\ ReportsFollow'
<1>. DEFINE ms == Tree!AcceptUpdate(tr, kids)
<1>1. /\ ms \in Seq(Kinds \X BOOLEAN) /\ \A i \in DOMAIN ms : ms[i] = <<"accept", Tree!Accepts(tr, kids)>>
      /\ Tree!Accepts(tr, kids) \in BOOLEAN /\ (tree.accept = {Tree!Accepts(tr, kids)} \/ 1 \in DOMAIN ms)
BY UpdateIs
<1>. HIDE DEF ms
<1>2. \A i \in DOMAIN ms : ms[i][1] = "accept" /\ ms[i][2] = Tree!Accepts(tr, kids) BY <1>1
<1>3. ASSUME NEW k \in Kinds, \A i \in DOMAIN ms : ms[i][1] # k PROVE Wanted(k)' <=> Wanted(k) BY <1>1, <1>2, <1>3 DEF Wanted, Kinds
<1>4. Wanted("accept")' = Tree!Accepts(tr, kids) BY <1>1 DEF Wanted
<1>5. \A k \in Kinds : \A i \in DOMAIN ms : ms[i][1] = k => (ms[i][2] = Wanted(k)')
  <2>1. ASSUME NEW k \in Kinds, NEW i \in DOMAIN ms, ms[i][1] = k PROVE ms[i][2] = Wanted(k)'
    <3>1. k = "accept" BY <1>2, <2>1
    <3>. QED BY <1>2, <1>4, <2>1, <3>1 DEF Wanted
  <2>. QED BY <2>1
<1>6. Tree!Reports(t, ms) BY DEF ms
<1>. QED BY <1>1, <1>3, <1>5, <1>6, ReportsHold
LEMMA LossReported ==
  ASSUME TreeInv, NEW t \in DOMAIN out, Tree!Reports(t, Tree!NoParentMessages), UNCHANGED <<told, link>>, tree'.accept = {FALSE}, tree'.parent = None
  PROVE  OutTypes' /\ ReportsFollow'
<1>. DEFINE ms == Tree!NoParentMessages
<1>1. /\ ms \in Seq(Kinds \X BOOLEAN) /\ DOMAIN ms = {1, 2} /\ ms[1] = <<"noParent", TRUE>> /\ ms[2] = <<"accept", FALSE>> /\ Tree!Reports(t, ms)
BY NoParentIs
<1>. HIDE DEF ms
<1>2. \A k \in Kinds : ~\A i \in DOMAIN ms : ms[i][1] # k BY <1>1 DEF Kinds
<1>3. ms[1][1] = "noParent" /\ ms[1][2] = TRUE /\ ms[2][1] = "accept" /\ ms[2][2] = FALSE BY <1>1
<1>4. Wanted("noParent")' = TRUE /\ Wanted("accept")' = FALSE BY DEF Wanted
<1>5. \A k \in Kinds : \A i \in DOMAIN ms : ms[i][1] = k => (ms[i][2] = Wanted(k)')
  <2>1. ASSUME NEW k \in Kinds, NEW i \in {1, 2}, ms[i][1] = k PROVE ms[i][2] = Wanted(k)'
    <3>1. CASE i = 1 BY <1>3, <1>4, <2>1, <3>1 DEF Wanted
    <3>2. CASE i = 2 BY <1>3, <1>4, <2>1, <3>2 DEF Wanted
    <3>. QED BY <3>1, <3>2
  <2>. QED BY <1>1, <2>1
<1>. QED BY SMTT(40), <1>1, <1>2, <1>5, ReportsHold
LEMMA ShortLists ==
  ASSUME NEW x, NEW y
  PROVE  /\ <<x>> \o <<>> = <<x>> /\ <<x>> \o <<y>> = <<x, y>>
         /\ \A S : x \in S => <<x>> \in Seq(S) /\ (y \in S => <<x, y>> \in Seq(S))
         /\ DOMAIN <<x>> = {1} /\ <<x>>[1] = x /\ DOMAIN <<x, y>> = {1, 2} /\ <<x, y>>[1] = x /\ <<x, y>>[2] = y
<1>1. <<x>> \o <<>> = <<x>> OBVIOUS
<1>2. <<x>> \o <<y>> = <<x, y>>
  <2>. DEFINE S == {x, y}  s == <<x>>  t == <<y>>  u == <<x, y>>
  <2>1. s \in Seq(S) /\ t \in Seq(S) /\ u \in Seq(S) /\ Len(s) = 1 /\ Len(t) = 1 /\ Len(u) = 2 /\ s[1] = x /\ t[1] = y /\ u[1] = x /\ u[2] = y OBVIOUS
  <2>. HIDE DEF S, s, t, u
  <2>2. s \o t \in Seq(S) /\ Len(s \o t) = 2 /\ (s \o t)[1] = x /\ (s \o t)[2] = y BY <2>1, ConcatProperties
  <2>3. s \o t = u BY <2>1, <2>2, SeqEqual
  <2>. QED BY <2>3 DEF s, t, u
<1>3. \A S : x \in S => <<x>> \in Seq(S) /\ (y \in S => <<x, y>> \in Seq(S)) OBVIOUS
<1>4. DOMAIN <<x>> = {1} /\ <<x>>[1] = x /\ DOMAIN <<x, y>> = {1, 2} /\ <<x, y>>[1] = x /\ <<x, y>>[2] = y OBVIOUS
<1>. QED BY <1>1, <1>2, <1>3, <1>4
LEMMA ServerReports ==
  ASSUME TreeInv, UNCHANGED scope, Tree!ServerStep
  PROVE  OutTypes' /\ ReportsFollow'
<1>1. OutTypes /\ DOMAIN out = Folk \cup {"server"} BY DEF TreeInv, PlacesAreTyped, OutTypes
<1>2. CASE Tree!Activate
  <2>1. out' = [t \in DOMAIN out |-> IF t = "server" THEN Tree!NoParentMessages ELSE <<>>] /\ raced' = {} /\ told' = Tree!Untold /\ link' = "up"
    BY <1>2 DEF Tree!Activate
  <2>. DEFINE ms == Tree!NoParentMessages
  <2>2. /\ ms \in Seq(Kinds \X BOOLEAN) /\ DOMAIN ms = {1, 2} /\ ms[1] = <<"noParent", TRUE>> /\ ms[2] = <<"accept", FALSE>>
    BY NoParentIs
  <2>. HIDE DEF ms
  <2>3. DOMAIN out' = Folk \cup {"server"} /\ out'["server"] = ms /\ \A t \in DOMAIN out' : t # "server" => out'[t] = <<>>
    BY <1>1, <2>1 DEF ms
  <2>4. OutTypes'
    <3>1. <<>> \in Seq(Kinds \X BOOLEAN) OBVIOUS
    <3>. QED BY <1>1, <2>1, <2>2, <3>1, UntoldIs DEF OutTypes, ms
  <2>5. tree'.parent = None /\ tree'.accept = {FALSE} BY <1>2, Typed, ActivateTree DEF Now
  <2>6. ms[1][1] = "noParent" /\ ms[1][2] = TRUE /\ ms[2][1] = "accept" /\ ms[2][2] = FALSE BY <2>2
  <2>7. \A t \in DOMAIN out' : t # "server" => DOMAIN out'[t] = {} BY <2>3
  <2>8. Wanted("noParent")' = TRUE /\ Wanted("accept")' = FALSE BY <2>5 DEF Wanted
  <2>9. Upto("noParent", Wanted("noParent"))' BY ZenonT(150), <2>2, <2>3, <2>6, <2>7, <2>8 DEF Upto, UptoDate
  <2>10. Upto("accept", Wanted("accept"))' BY ZenonT(150), <2>2, <2>3, <2>6, <2>7, <2>8 DEF Upto, UptoDate
  <2>. QED BY <2>4, <2>9, <2>10 DEF ReportsFollow, Kinds, Wanted, Upto
<1>3. CASE Tree!Disconnect
  <2>1. UNCHANGED <<out, raced>> /\ told' = Tree!Untold /\ link' = "lost" BY <1>3 DEF Tree!Disconnect
  <2>. QED BY <1>1, <2>1, UntoldIs DEF OutTypes, ReportsFollow
<1>4. CASE Tree!Deactivate
  <2>1. UNCHANGED <<out, raced, told>> /\ link' = "down" BY <1>4 DEF Tree!Deactivate, Tree!Silent
  <2>. QED BY <1>1, <2>1 DEF OutTypes, ReportsFollow
<1>5. CASE Tree!Reset
  <2>1. Tree!Reports("server", Tree!NoParentMessages) /\ UNCHANGED <<told, link>> BY <1>5 DEF Tree!Reset
  <2>2. tree'.parent = None /\ tree'.accept = {FALSE} BY <1>5, Typed, ResetTree DEF Now
  <2>. QED BY <1>1, <2>1, <2>2, LossReported
<1>6. CASE Tree!HandleServerEmbedded
  <2>. DEFINE tr == [Tree!Forgets(tree) EXCEPT !.serverParent = TRUE]
  <2>1. tree' = Tree!Noted(tr, children) /\ Tree!Reports("server", Tree!AcceptUpdate(tr, children)) /\ UNCHANGED <<told, link>> /\ tree.parent = None
    BY <1>6 DEF Tree!HandleServerEmbedded
  <2>2. tr \in Trees /\ tr.accept = tree.accept /\ tr.parent = None
    <3>1. Tree!Forgets(tree) \in Trees /\ Tree!Forgets(tree).accept = tree.accept /\ Tree!Forgets(tree).parent = None
      BY Typed, ForgetsIs
    <3>. QED BY <3>1 DEF Trees
  <2>. HIDE DEF tr
  <2>3. tree'.accept = {Tree!Accepts(tr, children)} /\ tree'.parent = None BY <2>1, <2>2, NotedIs
  <2>. QED BY <1>1, <2>1, <2>2, <2>3, AcceptReported
<1>7. CASE Tree!UpdateCapacityInputs
  <2>1. PICK n \in 0 .. MaxCapacity :
           /\ tree' = Tree!Noted([tree EXCEPT !.capacity = n], children)
           /\ Tree!Reports("server", Tree!AcceptUpdate([tree EXCEPT !.capacity = n], children))
    BY <1>7 DEF Tree!UpdateCapacityInputs
  <2>. DEFINE tr == [tree EXCEPT !.capacity = n]
  <2>2. tr \in Trees /\ tr.accept = tree.accept /\ tr.parent = tree.parent BY Typed DEF Trees
  <2>3. tree' = Tree!Noted(tr, children) /\ Tree!Reports("server", Tree!AcceptUpdate(tr, children)) /\ UNCHANGED <<told, link>>
    BY <1>7, <2>1 DEF Tree!UpdateCapacityInputs
  <2>. HIDE DEF tr
  <2>4. tree'.accept = {Tree!Accepts(tr, children)} /\ tree'.parent = tree.parent BY <2>2, <2>3, NotedIs
  <2>. QED BY <1>1, <2>2, <2>3, <2>4, AcceptReported
<1>8. CASE Tree!OfferParents(scope.parents)
  <2>1. UNCHANGED <<out, raced, told, link>> BY <1>8 DEF Tree!OfferParents, Tree!Silent
  <2>2. tree'.accept = tree.accept /\ tree'.parent = tree.parent BY <1>8, Typed, OfferParentsTree DEF Now
  <2>. QED BY <2>1, <2>2, SilentHolds DEF Wanted
<1>. QED BY <1>2, <1>3, <1>4, <1>5, <1>6, <1>7, <1>8 DEF Tree!ServerStep
LEMMA WorkerReports ==
  ASSUME TreeInv, UNCHANGED scope, Tree!WorkerStep
  PROVE  OutTypes' /\ ReportsFollow'
<1>1. UNCHANGED <<out, raced, told, link>> /\ (tree' = tree \/ Tree!WorkersDone)
BY DEF Tree!WorkerStep, Tree!WorkersDone, Tree!FindParent, Tree!DialParent, Tree!ClaimCandidate, Tree!AwaitPromotion, Tree!WorkerUnchanged, Tree!Silent
<1>2. tree'.accept = tree.accept /\ tree'.parent = tree.parent BY <1>1, Typed, WorkersDoneTree DEF Now
<1>. QED BY <1>1, <1>2, SilentHolds DEF Wanted
LEMMA SessionReports ==
  ASSUME TreeInv, UNCHANGED scope, NEW s \in Folk, Tree!SessionStep(s)
  PROVE  OutTypes' /\ ReportsFollow'
<1>1. s \in DOMAIN out BY DEF TreeInv, PlacesAreTyped, OutTypes
<1>2. CASE Tree!EstablishedChild(s)
  <2>. USE DEF Tree!EstablishedChild
  <2>1. CASE ~tree.active
    <3>1. UNCHANGED <<out, raced, told, link, tree>> BY <1>2, <2>1 DEF Tree!Silent
    <3>. QED BY <3>1, SilentHolds DEF Wanted
  <2>2. CASE tree.active
    <3>1. UNCHANGED <<told, link>> BY <1>2
    <3>2. tree' = Tree!Noted(tree, children') BY <1>2, <2>2
    <3>3. \/ Tree!Reports(s, Tree!AcceptUpdate(tree, children'))
          \/ Tree!Reports(s, <<>>) /\ children' = children
      BY <1>2, <2>2
    <3>4. tree'.accept = {Tree!Accepts(tree, children')} /\ tree'.parent = tree.parent BY <3>2, Typed, NotedIs
    <3>5. CASE Tree!Reports(s, Tree!AcceptUpdate(tree, children'))
      <4>1. ASSUME NEW kids, kids = children' PROVE OutTypes' /\ ReportsFollow' BY <1>1, <3>1, <3>4, <3>5, <4>1, AcceptReported
      <4>. QED BY <4>1
    <3>6. CASE Tree!Reports(s, <<>>) /\ children' = children
      <4>1. tree'.accept = tree.accept BY <2>2, <3>4, <3>6 DEF TreeInv, AcceptKept, Tree!AcceptIsCurrent
      <4>2. <<>> \in Seq(Kinds \X BOOLEAN) /\ DOMAIN <<>> = {} OBVIOUS
      <4>3. \A k \in Kinds : Wanted(k)' <=> Wanted(k) BY <3>4, <4>1 DEF Wanted
      <4>. QED BY <1>1, <3>1, <3>6, <4>2, <4>3, ReportsHold
    <3>. QED BY <3>3, <3>5, <3>6
  <2>. QED BY <2>1, <2>2
<1>3. CASE Tree!Closed(s)
  <2>. USE DEF Tree!Closed
  <2>1. UNCHANGED <<told, link>> BY <1>3
  <2>2. CASE s \in children
    <3>1. tree' = Tree!Noted(tree, children \ {s}) /\ Tree!Reports(s, Tree!AcceptUpdate(tree, children \ {s})) BY <1>3, <2>2
    <3>2. tree'.accept = {Tree!Accepts(tree, children \ {s})} /\ tree'.parent = tree.parent BY <3>1, Typed, NotedIs
    <3>. QED BY <1>1, <2>1, <3>1, <3>2, AcceptReported
  <2>3. CASE s \notin children /\ cand[s] = NoCand /\ tree.parent = s
    <3>1. Tree!Reports(s, Tree!NoParentMessages) /\ tree' = [Tree!Forgets(tree) EXCEPT !.cancel = tree.cancel, !.accept = {FALSE}]
      BY <1>3, <2>3, CandForms
    <3>2. tree'.accept = {FALSE} /\ tree'.parent = None BY <3>1, Typed, ParentGoneTree DEF Now
    <3>. QED BY <1>1, <2>1, <3>1, <3>2, LossReported
  <2>4. CASE s \notin children /\ ~(cand[s] = NoCand /\ tree.parent = s)
    <3>1. UNCHANGED <<out, raced, tree>> BY <1>3, <2>4, CandForms DEF Tree!Silent
    <3>. QED BY <2>1, <3>1, SilentHolds DEF Wanted
  <2>. QED BY <2>2, <2>3, <2>4
<1>4. CASE Tree!ChildConnects(s) \/ Tree!EstablishedParent(s) \/ Tree!ReadLoopFails(s) \/ Tree!Close(s)
  <2>1. UNCHANGED <<out, raced, told, link, tree>>
    BY <1>4 DEF Tree!ChildConnects, Tree!EstablishedParent, Tree!ReadLoopFails, Tree!Close, Tree!Silent
  <2>. QED BY <2>1, SilentHolds DEF Wanted
<1>. QED BY <1>2, <1>3, <1>4 DEF Tree!SessionStep
LEMMA FrameReports ==
  ASSUME TreeInv, UNCHANGED scope, NEW s \in Folk, Tree!FrameStep(s)
  PROVE  OutTypes' /\ ReportsFollow'
<1>1. s \in DOMAIN out BY DEF TreeInv, PlacesAreTyped, OutTypes
<1>2. UNCHANGED <<told, link>>
BY DEF Tree!FrameStep, Tree!ReadFrame, Tree!ParentLevel, Tree!ParentRoot, Tree!ParentSearch, Tree!CandidateFrame, Tree!TryPromote, Tree!ParentFrame, Tree!FrameUnchanged
<1>3. CASE Tree!TryPromote(s) /\ Tree!Promotable(s)
  <2>1. /\ cand[s] # NoCand /\ cand[s].level # -1 /\ tree.active BY <1>3, CandForms DEF Tree!Promotable
  <2>2. s \in Parents /\ cand[s].level \in 0 .. 1 /\ cand[s].root \in Folk \cup {None, Me, Far}
    <3>1. cand[s] \in Candidates BY Typed DEF CandTypes
    <3>2. cand[s].level \in {-1, 0, 1} /\ cand[s].root \in Folk \cup {None, Me, Far} BY <3>1 DEF Candidates
    <3>3. s \in Parents BY <2>1 DEF TreeInv, NoRivals
    <3>. QED BY <2>1, <3>2, <3>3
  <2>. DEFINE tr == [tree EXCEPT !.parent = s, !.level = cand[s].level, !.branch = [level |-> cand[s].level + 1, root |-> cand[s].root], !.cancel = 0, !.users = {}]
              as == Tree!AcceptUpdate(tr, children)
              ms == << <<"noParent", FALSE>> >> \o as
              b == Tree!Accepts(tr, children)
  <2>3. tree' = Tree!Noted(tr, children) /\ Tree!Reports(s, ms) BY <1>3 DEF Tree!TryPromote
  <2>4. tr.accept = tree.accept BY Typed DEF Trees
  <2>5. /\ as \in Seq(Kinds \X BOOLEAN) /\ b \in BOOLEAN /\ (tree.accept = {b} \/ 1 \in DOMAIN as)
        /\ (as = <<>> \/ as = << <<"accept", b>> >>)
    BY <2>4, UpdateIs
  <2>6. tree'.accept = {b} BY <1>3, <2>2, <2>3, <2>4, Typed DEF Tree!Noted, Trees
  <2>7. tree'.parent = s BY <1>3, <2>2, Typed, PromoteTree DEF Now
  <2>. HIDE DEF tr, as, b
  <2>8. s # None BY TreeAssumption DEF Folk
  <2>9. Wanted("noParent")' = FALSE /\ Wanted("accept")' = b BY <2>5, <2>6, <2>7, <2>8 DEF Wanted
  <2>. DEFINE x == <<"noParent", FALSE>>  y == <<"accept", b>>
  <2>12. x \in Kinds \X BOOLEAN /\ y \in Kinds \X BOOLEAN /\ x[1] = "noParent" /\ x[2] = FALSE /\ y[1] = "accept" /\ y[2] = b
    BY <2>5 DEF Kinds
  <2>13. ms = <<x>> \o as /\ (as = <<>> \/ as = <<y>>) BY <2>5
  <2>. HIDE DEF x, y, ms
  <2>10. CASE as = <<>>
    <3>1. ms = <<x>> /\ tree.accept = {b} BY <2>5, <2>10, <2>13, ShortLists
    <3>2. ms \in Seq(Kinds \X BOOLEAN) BY <2>12, <3>1, ShortLists
    <3>3. DOMAIN ms = {1} /\ ms[1][1] = "noParent" /\ ms[1][2] = FALSE BY <2>12, <3>1, ShortLists
    <3>4. \A k \in Kinds : (\A i \in DOMAIN ms : ms[i][1] # k) => (Wanted(k)' <=> Wanted(k)) BY <2>6, <3>1, <3>3 DEF Wanted, Kinds
    <3>5. \A k \in Kinds : \A i \in DOMAIN ms : ms[i][1] = k => (ms[i][2] = Wanted(k)') BY <2>9, <3>3 DEF Wanted
    <3>. QED BY <1>1, <1>2, <2>3, <3>2, <3>4, <3>5, ReportsHold
  <2>11. CASE as = <<y>>
    <3>1. ms = <<x, y>> BY <2>11, <2>13, ShortLists
    <3>2. ms \in Seq(Kinds \X BOOLEAN) BY <2>12, <3>1, ShortLists
    <3>3. DOMAIN ms = {1, 2} /\ ms[1][1] = "noParent" /\ ms[1][2] = FALSE /\ ms[2][1] = "accept" /\ ms[2][2] = b
      BY <2>12, <3>1, ShortLists
    <3>4. \A k \in Kinds : (\A i \in DOMAIN ms : ms[i][1] # k) => (Wanted(k)' <=> Wanted(k)) BY <3>3 DEF Kinds
    <3>5. \A k \in Kinds : \A i \in DOMAIN ms : ms[i][1] = k => (ms[i][2] = Wanted(k)') BY <2>9, <3>3 DEF Wanted
    <3>. QED BY <1>1, <1>2, <2>3, <3>2, <3>4, <3>5, ReportsHold
  <2>. QED BY <2>13, <2>10, <2>11
<1>4. CASE ~(Tree!TryPromote(s) /\ Tree!Promotable(s))
  <2>1. UNCHANGED <<out, raced>>
    BY <1>4 DEF Tree!FrameStep, Tree!ReadFrame, Tree!ParentLevel, Tree!ParentRoot, Tree!ParentSearch, Tree!CandidateFrame, Tree!TryPromote, Tree!ParentFrame, Tree!Silent
  <2>2. tree' = tree \/ Tree!ParentLevel(s) \/ Tree!ParentRoot(s)
    BY <1>4 DEF Tree!FrameStep, Tree!ReadFrame, Tree!ParentSearch, Tree!CandidateFrame, Tree!TryPromote
  <2>3. tree'.accept = tree.accept /\ tree'.parent = tree.parent BY <2>2, Typed, LevelStep, RootStep DEF Now
  <2>. QED BY <1>2, <2>1, <2>3, SilentHolds DEF Wanted
<1>. QED BY <1>3, <1>4
LEMMA SendReports ==
  ASSUME TreeInv, UNCHANGED scope, NEW t \in DOMAIN out, Tree!Send(t)
  PROVE  OutTypes' /\ ReportsFollow'
<1>1. OutTypes /\ t \in Folk \cup {"server"} BY DEF TreeInv, PlacesAreTyped, OutTypes
<1>2. out[t] # <<>> /\ out' = [out EXCEPT ![t] = Tail(@)] /\ UNCHANGED <<tree, link, raced>> BY DEF Tree!Send
<1>3. out[t] \in Seq(Kinds \X BOOLEAN) BY <1>1 DEF OutTypes
<1>4. Tail(out[t]) \in Seq(Kinds \X BOOLEAN) /\ Head(out[t]) \in Kinds \X BOOLEAN BY <1>2, <1>3
<1>5. Head(out[t])[1] \in Kinds /\ Head(out[t])[2] \in BOOLEAN BY <1>4
<1>6. told' \in [Kinds -> BOOLEAN] BY <1>1, <1>5 DEF OutTypes, Tree!Send
<1>7. OutTypes' BY <1>1, <1>2, <1>4, <1>6 DEF OutTypes
<1>8. ASSUME link = "up", NEW k \in Kinds, k \notin raced PROVE Upto(k, Wanted(k))'
  <2>1. told' = [told EXCEPT ![Head(out[t])[1]] = Head(out[t])[2]] BY <1>8 DEF Tree!Send
  <2>2. Upto(k, Wanted(k)) BY <1>8 DEF TreeInv, ReportsFollow
  <2>3. ASSUME NEW v, v = Wanted(k) PROVE UptoDate(out', told', k, v)
    <3>1. Upto(k, v) BY <2>2, <2>3 DEF Upto
    <3>. QED BY <1>1, <1>2, <2>1, <3>1, SendKeeps
  <2>4. Wanted(k)' = Wanted(k) BY <1>2 DEF Wanted
  <2>. QED BY <2>3, <2>4 DEF Upto
<1>. QED BY <1>2, <1>7, <1>8 DEF ReportsFollow
\* The parts of the invariant that say nothing of the reports.
TreeParts == /\ PlaceTypes /\ CandTypes /\ LifeTypes /\ ReadTypes /\ TryTypes /\ HeardTypes /\ ActiveWhile /\ NoRivals /\ OwnBranch /\ OffHasNoGen
             /\ OneList /\ OneTry /\ OneDial /\ WaitsAfterHook /\ UsersTried /\ CandidatesTried /\ MembersStay /\ BranchHeard /\ AcceptKept
\* Every action keeps them: a step for each, and one below it for each part it can disturb.
LEMMA TreeMoves == ASSUME TreeInv, UNCHANGED scope, Tree!Next PROVE TreeParts'
<1>. USE TreeAssumption DEF Now, PlaceTypes, PlacesAreTyped, TreeInv, Folk, Tree!Neighbours, Places, Trees, TryTypes,
     Tree!Silent, Tree!Leaves
<1>1. ASSUME TreeInv, UNCHANGED scope, Tree!Activate PROVE TreeParts'
  <2>1. ActiveWhile' BY <1>1, ActivateKeeps
  <2>2. OneTry' BY <1>1, ActivateKeeps
  <2>3. OneDial' BY <1>1, ActivateKeeps
  <2>4. MembersStay' BY <1>1, ActivateKeeps
  <2>. USE DEF Tree!Activate, Tree!NoCandidate, Tree!Untold, Tree!NoCandidates, Tree!NoParentMessages
  <2>5. PlaceTypes'
    <3>1. tree' \in Trees BY <1>1, Typed, ActivateTree
    <3>. QED BY <1>1, <3>1, SameTrees
  <2>6. CandTypes' BY <1>1, ActivateTree DEF CandTypes, Candidates
  <2>7. NoRivals' BY <1>1, ActivateTree DEF NoRivals, CandTypes, OneList, NoCand, Candidates, Tries
  <2>8. OwnBranch' BY <1>1, ActivateTree DEF OwnBranch
  <2>9. OneList' BY <1>1, ActivateTree DEF OneList, Tries
  <2>10. UsersTried' BY <1>1, ActivateTree DEF UsersTried, OneTry, OneList, OneDial, LifeTypes, WaitsAfterHook, Tried, Tries
  <2>11. CandidatesTried'
    BY <1>1, ActivateTree DEF CandidatesTried, CandTypes, UsersTried, NoRivals, OneTry, OneList, OneDial, LifeTypes,
       WaitsAfterHook, NoCand, Tried, Candidates, Tries
  <2>12. BranchHeard'
    BY <1>1, ActivateTree DEF BranchHeard, LifeTypes, HeardTypes, MembersStay, OwnBranch, NoRivals, Tree!ChildrenKnowBranch,
       Tree!MembersHaveSessions, NoCand
  <2>13. AcceptKept' BY <1>1, ActivateTree DEF AcceptKept, ActiveWhile, Tree!AcceptIsCurrent, Tree!Accepts
  <2>14. LifeTypes' /\ ReadTypes' /\ TryTypes' /\ HeardTypes' /\ OffHasNoGen' /\ WaitsAfterHook'
    <3>1. UNCHANGED <<scope, peerLife, hook, sgen, leaving, reader, workers, heard>> BY <1>1
    <3>. QED BY <1>1, <3>1 DEF LifeTypes, ReadTypes, HeardTypes, OffHasNoGen, WaitsAfterHook
  <2>. QED BY <2>5, <2>6, <2>1, <2>7, <2>8, <2>9, <2>2, <2>3, <2>10, <2>11, <2>4, <2>12, <2>13, <2>14 DEF TreeParts
<1>2. ASSUME TreeInv, UNCHANGED scope, Tree!Disconnect PROVE TreeParts'
  <2>1. ActiveWhile' BY <1>2 DEF Tree!Disconnect, Tree!Untold, ActiveWhile
  <2>2. PlaceTypes' /\ CandTypes' /\ LifeTypes' /\ ReadTypes' /\ TryTypes' /\ HeardTypes' /\ NoRivals' /\ OwnBranch' /\
        OffHasNoGen' /\ OneList' /\ OneTry' /\ OneDial' /\ WaitsAfterHook' /\ UsersTried' /\ CandidatesTried' /\
        MembersStay' /\ BranchHeard' /\ AcceptKept'
    <3>1. UNCHANGED <<scope, tree, cand, children, peerLife, hook, sgen, leaving, reader, workers, heard>> BY <1>2 DEF
         Tree!Disconnect
    <3>. QED BY <1>2, <3>1 DEF CandTypes, LifeTypes, ReadTypes, HeardTypes, NoRivals, OwnBranch, OffHasNoGen, OneList, OneTry,
         OneDial, WaitsAfterHook, UsersTried, Tried, CandidatesTried, MembersStay, Tree!MembersHaveSessions, BranchHeard,
         Tree!ChildrenKnowBranch, AcceptKept, Tree!AcceptIsCurrent
  <2>. QED BY <2>1, <2>2 DEF TreeParts
<1>3. ASSUME TreeInv, UNCHANGED scope, Tree!Deactivate PROVE TreeParts'
  <2>. USE DEF Tree!Deactivate, Tree!NoCandidate, Tree!NoCandidates, LifeTypes, Tries
  <2>1. PlaceTypes'
    <3>1. tree' \in Trees BY <1>3, Typed, DeactivateTree
    <3>. QED BY <1>3, <3>1, SameTrees
  <2>2. CandTypes' BY <1>3, DeactivateTree DEF CandTypes, Candidates
  <2>3. LifeTypes' BY <1>3, DeactivateTree
  <2>4. ActiveWhile' BY <1>3, DeactivateTree DEF ActiveWhile
  <2>5. NoRivals' BY <1>3, DeactivateTree DEF NoRivals, CandTypes, OneList, NoCand, Candidates
  <2>6. OwnBranch' BY <1>3, DeactivateTree DEF OwnBranch
  <2>7. OneList' BY <1>3, DeactivateTree DEF OneList
  <2>8. OneTry' BY <1>3, DeactivateTree DEF OneTry
  <2>9. OneDial' BY <1>3, DeactivateTree DEF OneDial, OneTry, OneList
  <2>10. UsersTried' BY <1>3, DeactivateTree DEF UsersTried, OneTry, OneList, OneDial, WaitsAfterHook, Tried
  <2>11. CandidatesTried'
    BY <1>3, DeactivateTree DEF CandidatesTried, CandTypes, UsersTried, NoRivals, OneTry, OneList, OneDial, WaitsAfterHook,
       NoCand, Tried, Candidates
  <2>12. MembersStay'
    BY <1>3, DeactivateTree DEF MembersStay, NoRivals, CandTypes, OffHasNoGen, ActiveWhile, Tree!MembersHaveSessions, NoCand,
       Candidates
  <2>13. BranchHeard'
    BY <1>3, DeactivateTree DEF BranchHeard, HeardTypes, MembersStay, OwnBranch, NoRivals, Tree!ChildrenKnowBranch,
       Tree!MembersHaveSessions, NoCand
  <2>14. AcceptKept' BY <1>3, DeactivateTree DEF AcceptKept, ActiveWhile, Tree!AcceptIsCurrent, Tree!Accepts
  <2>15. ReadTypes' /\ TryTypes' /\ HeardTypes' /\ OffHasNoGen' /\ WaitsAfterHook'
    <3>1. UNCHANGED <<peerLife, hook, sgen, reader, workers, heard>> BY <1>3
    <3>. QED BY <1>3, <3>1 DEF ReadTypes, HeardTypes, OffHasNoGen, WaitsAfterHook
  <2>. QED BY <2>1, <2>2, <2>3, <2>4, <2>5, <2>6, <2>7, <2>8, <2>9, <2>10, <2>11, <2>12, <2>13, <2>14, <2>15 DEF TreeParts
<1>4. ASSUME TreeInv, UNCHANGED scope, Tree!Reset PROVE TreeParts'
  <2>1. OneTry' BY <1>4, ResetKeeps
  <2>2. OneDial' BY <1>4, ResetKeeps
  <2>3. MembersStay' BY <1>4, ResetKeeps
  <2>. USE DEF Tree!Reset, Tree!NoCandidate, Tree!NoParentMessages, Tree!ServerReads, Tree!NoCandidates, Tree!Reports
  <2>4. PlaceTypes'
    <3>1. tree' \in Trees BY <1>4, Typed, ResetTree
    <3>. QED BY <1>4, <3>1, SameTrees
  <2>5. CandTypes' BY <1>4, ResetTree DEF CandTypes, Candidates
  <2>6. LifeTypes' BY <1>4, ResetTree DEF LifeTypes
  <2>7. ActiveWhile' BY <1>4, ResetTree DEF ActiveWhile
  <2>8. NoRivals' BY <1>4, ResetTree DEF NoRivals, CandTypes, OneList, NoCand, Candidates, Tries
  <2>9. OwnBranch' BY <1>4, ResetTree DEF OwnBranch
  <2>10. OneList' BY <1>4, ResetTree DEF OneList, Tries
  <2>11. UsersTried' BY <1>4, ResetTree DEF UsersTried, OneTry, OneList, OneDial, LifeTypes, WaitsAfterHook, Tried, Tries
  <2>12. CandidatesTried'
    BY <1>4, ResetTree DEF CandidatesTried, CandTypes, UsersTried, NoRivals, OneTry, OneList, OneDial, LifeTypes, WaitsAfterHook,
       NoCand, Tried, Candidates, Tries
  <2>13. BranchHeard'
    BY <1>4, ResetTree DEF BranchHeard, LifeTypes, HeardTypes, MembersStay, OwnBranch, NoRivals, Tree!ChildrenKnowBranch,
       Tree!MembersHaveSessions, NoCand
  <2>14. AcceptKept' BY <1>4, ResetTree DEF AcceptKept, ActiveWhile, Tree!AcceptIsCurrent, Tree!Accepts
  <2>15. ReadTypes' /\ TryTypes' /\ HeardTypes' /\ OffHasNoGen' /\ WaitsAfterHook'
    <3>1. UNCHANGED <<peerLife, hook, sgen, reader, workers, heard>> BY <1>4
    <3>. QED BY <1>4, <3>1 DEF ReadTypes, HeardTypes, OffHasNoGen, WaitsAfterHook
  <2>. QED BY <2>4, <2>5, <2>6, <2>7, <2>8, <2>9, <2>10, <2>1, <2>2, <2>11, <2>12, <2>3, <2>13, <2>14, <2>15 DEF TreeParts
<1>5. ASSUME TreeInv, UNCHANGED scope, Tree!HandleServerEmbedded PROVE TreeParts'
  <2>1. OneTry' BY <1>5, EmbeddedKeeps
  <2>2. OneDial' BY <1>5, EmbeddedKeeps
  <2>3. MembersStay' BY <1>5, EmbeddedKeeps
  <2>4. BranchHeard' BY <1>5, EmbeddedKeeps
  <2>. USE DEF Tree!HandleServerEmbedded, Tree!NoCandidate, Tree!Gone, Tree!ServerReads, Tree!NoCandidates, Tree!Overflows,
       Tree!Reports, Tree!QueueMetadata
  <2>5. PlaceTypes'
    <3>1. tree' \in Trees BY <1>5, Typed, EmbeddedTree
    <3>. QED BY <1>5, <3>1, SameTrees
  <2>6. CandTypes' BY <1>5, EmbeddedTree DEF CandTypes, Candidates
  <2>7. LifeTypes' BY <1>5, EmbeddedTree DEF LifeTypes
  <2>8. HeardTypes' BY <1>5, EmbeddedTree DEF HeardTypes, LifeTypes
  <2>9. ActiveWhile' BY <1>5, EmbeddedTree DEF ActiveWhile
  <2>10. NoRivals' BY <1>5, EmbeddedTree DEF NoRivals, CandTypes, OneList, NoCand, Candidates, Tries
  <2>11. OwnBranch' BY <1>5, EmbeddedTree DEF OwnBranch
  <2>12. OneList' BY <1>5, EmbeddedTree DEF OneList, Tries
  <2>13. UsersTried' BY <1>5, EmbeddedTree DEF UsersTried, OneTry, OneList, OneDial, LifeTypes, WaitsAfterHook, Tried, Tries
  <2>14. CandidatesTried'
    BY <1>5, EmbeddedTree DEF CandidatesTried, CandTypes, UsersTried, NoRivals, OneTry, OneList, OneDial, LifeTypes,
       WaitsAfterHook, NoCand, Tried, Candidates, Tries
  <2>15. AcceptKept' BY <1>5, EmbeddedTree DEF AcceptKept, ActiveWhile, Tree!AcceptIsCurrent, Tree!Accepts
  <2>16. ReadTypes' /\ TryTypes' /\ OffHasNoGen' /\ WaitsAfterHook'
    <3>1. UNCHANGED <<peerLife, hook, sgen, reader, workers>> BY <1>5
    <3>. QED BY <1>5, <3>1 DEF ReadTypes, OffHasNoGen, WaitsAfterHook
  <2>. QED BY <2>5, <2>6, <2>7, <2>8, <2>9, <2>10, <2>11, <2>12, <2>1, <2>2, <2>13, <2>14, <2>3, <2>4, <2>15, <2>16 DEF TreeParts
<1>6. ASSUME TreeInv, UNCHANGED scope, Tree!UpdateCapacityInputs PROVE TreeParts'
  <2>1. OneDial' BY <1>6, CapacityKeeps
  <2>2. UsersTried' BY <1>6, CapacityKeeps
  <2>3. CandidatesTried' BY <1>6, CapacityKeeps
  <2>. USE DEF Tree!UpdateCapacityInputs, Tree!Reports, Tree!ServerReads
  <2>4. PlaceTypes'
    <3>1. tree' \in Trees BY <1>6, Typed, CapacityTree
    <3>. QED BY <1>6, <3>1, SameTrees
  <2>5. ActiveWhile' BY <1>6, CapacityTree DEF ActiveWhile
  <2>6. NoRivals' BY <1>6, CapacityTree DEF NoRivals, CandTypes, OneList, NoCand, Candidates, Tries
  <2>7. OwnBranch' BY <1>6, CapacityTree DEF OwnBranch
  <2>8. OneList' BY <1>6, CapacityTree DEF OneList, Tries
  <2>9. OneTry' BY <1>6, CapacityTree DEF OneTry, Tries
  <2>10. MembersStay'
    BY ZenonT(150), <1>6, CapacityTree DEF MembersStay, LifeTypes, NoRivals, CandTypes, OffHasNoGen, ActiveWhile,
       Tree!MembersHaveSessions, NoCand, Candidates
  <2>11. BranchHeard'
    BY <1>6, CapacityTree DEF BranchHeard, LifeTypes, HeardTypes, MembersStay, OwnBranch, NoRivals, Tree!ChildrenKnowBranch,
       Tree!MembersHaveSessions, NoCand
  <2>12. AcceptKept' BY <1>6, CapacityTree DEF AcceptKept, ActiveWhile, Tree!AcceptIsCurrent, Tree!Accepts
  <2>13. CandTypes' /\ LifeTypes' /\ ReadTypes' /\ TryTypes' /\ HeardTypes' /\ OffHasNoGen' /\ WaitsAfterHook'
    <3>1. UNCHANGED <<scope, cand, peerLife, hook, sgen, leaving, reader, workers, heard>> BY <1>6
    <3>. QED BY <1>6, <3>1 DEF CandTypes, LifeTypes, ReadTypes, HeardTypes, OffHasNoGen, WaitsAfterHook
  <2>. QED BY <2>4, <2>5, <2>6, <2>7, <2>8, <2>9, <2>1, <2>2, <2>3, <2>10, <2>11, <2>12, <2>13 DEF TreeParts
<1>7. ASSUME TreeInv, UNCHANGED scope, Tree!OfferParents(scope.parents) PROVE TreeParts'
  <2>1. UsersTried' BY <1>7, OfferKeeps
  <2>. USE DEF Tree!OfferParents, Tree!NoCandidate, Tree!ServerReads, Tree!NoCandidates, LifeTypes, Tries
  <2>2. PlaceTypes'
    <3>1. tree' \in Trees BY <1>7, Typed, OfferParentsTree
    <3>. QED BY <1>7, <3>1, SameTrees
  <2>3. CandTypes' BY <1>7, OfferParentsTree DEF CandTypes, Candidates
  <2>4. LifeTypes' BY <1>7, OfferParentsTree
  <2>5. TryTypes' BY <1>7, OfferParentsTree
  <2>6. ActiveWhile' BY <1>7, OfferParentsTree DEF ActiveWhile
  <2>7. NoRivals' BY <1>7, OfferParentsTree DEF NoRivals, CandTypes, OneList, NoCand, Candidates
  <2>8. OwnBranch' BY <1>7, OfferParentsTree DEF OwnBranch
  <2>9. OneList' BY <1>7, OfferParentsTree DEF OneList
  <2>10. OneTry' BY <1>7, OfferParentsTree DEF OneTry
  <2>11. OneDial' BY <1>7, OfferParentsTree DEF OneDial, OneTry, OneList
  <2>12. WaitsAfterHook' BY <1>7, OfferParentsTree DEF WaitsAfterHook
  <2>13. CandidatesTried'
    BY <1>7, OfferParentsTree DEF CandidatesTried, CandTypes, UsersTried, NoRivals, OneTry, OneList, OneDial, WaitsAfterHook,
       NoCand, Tried, Candidates
  <2>14. MembersStay'
    BY <1>7, OfferParentsTree DEF MembersStay, NoRivals, CandTypes, OffHasNoGen, ActiveWhile, Tree!MembersHaveSessions, NoCand,
       Candidates
  <2>15. BranchHeard'
    BY <1>7, OfferParentsTree DEF BranchHeard, HeardTypes, MembersStay, OwnBranch, NoRivals, Tree!ChildrenKnowBranch,
       Tree!MembersHaveSessions, NoCand
  <2>16. AcceptKept' BY <1>7, OfferParentsTree DEF AcceptKept, ActiveWhile, Tree!AcceptIsCurrent, Tree!Accepts
  <2>17. ReadTypes' /\ HeardTypes' /\ OffHasNoGen'
    <3>1. UNCHANGED <<peerLife, sgen, reader, heard>> BY <1>7
    <3>. QED BY <1>7, <3>1 DEF ReadTypes, HeardTypes, OffHasNoGen
  <2>. QED BY <2>2, <2>3, <2>4, <2>5, <2>6, <2>7, <2>8, <2>9, <2>10, <2>11, <2>12, <2>1, <2>13, <2>14, <2>15, <2>16, <2>17
       DEF TreeParts
<1>8. ASSUME TreeInv, UNCHANGED scope, Tree!WorkersDone PROVE TreeParts'
  <2>. USE DEF Tree!WorkersDone, OneList, Tries, LifeTypes
  <2>1. PlaceTypes'
    <3>1. tree' \in Trees BY <1>8, Typed, WorkersDoneTree
    <3>. QED BY <1>8, <3>1, SameTrees
  <2>2. ActiveWhile' BY <1>8, WorkersDoneTree DEF ActiveWhile
  <2>3. NoRivals' BY <1>8, WorkersDoneTree DEF NoRivals, CandTypes, NoCand, Candidates
  <2>4. OwnBranch' BY <1>8, WorkersDoneTree DEF OwnBranch
  <2>5. OneList' BY <1>8, WorkersDoneTree
  <2>6. OneTry' BY <1>8, WorkersDoneTree DEF OneTry
  <2>7. OneDial' BY <1>8, WorkersDoneTree DEF OneDial, OneTry
  <2>8. UsersTried' BY <1>8, WorkersDoneTree DEF UsersTried, OneTry, OneDial, WaitsAfterHook, Tried
  <2>9. CandidatesTried'
    BY <1>8, WorkersDoneTree DEF CandidatesTried, CandTypes, UsersTried, NoRivals, OneTry, OneDial, WaitsAfterHook, NoCand,
       Tried, Candidates
  <2>10. MembersStay'
    BY <1>8, WorkersDoneTree DEF MembersStay, NoRivals, CandTypes, OffHasNoGen, ActiveWhile, Tree!MembersHaveSessions, NoCand,
       Candidates
  <2>11. BranchHeard'
    BY <1>8, WorkersDoneTree DEF BranchHeard, HeardTypes, MembersStay, OwnBranch, NoRivals, Tree!ChildrenKnowBranch,
       Tree!MembersHaveSessions, NoCand
  <2>12. AcceptKept' BY <1>8, WorkersDoneTree DEF AcceptKept, ActiveWhile, Tree!AcceptIsCurrent, Tree!Accepts
  <2>13. CandTypes' /\ LifeTypes' /\ ReadTypes' /\ TryTypes' /\ HeardTypes' /\ OffHasNoGen' /\ WaitsAfterHook'
    <3>1. UNCHANGED <<scope, cand, peerLife, hook, sgen, leaving, reader, workers, heard>> BY <1>8
    <3>. QED BY <1>8, <3>1 DEF CandTypes, ReadTypes, HeardTypes, OffHasNoGen, WaitsAfterHook
  <2>. QED BY <2>1, <2>2, <2>3, <2>4, <2>5, <2>6, <2>7, <2>8, <2>9, <2>10, <2>11, <2>12, <2>13 DEF TreeParts
<1>9. ASSUME TreeInv, UNCHANGED scope, NEW w \in workers, Tree!FindParent(w) PROVE TreeParts'
  <2>1. UsersTried' BY <1>9, FindParentKeeps
  <2>2. CandidatesTried' BY <1>9, FindParentKeeps
  <2>. USE DEF Tree!Dialing, Tree!FindParent, Tree!WorkerEnds, Tries, Tree!WorkerGoes, Tree!WorkerUnchanged, Tree!CtxDone,
       LifeTypes
  <2>3. TryTypes' BY <1>9
  <2>4. OneList' BY <1>9 DEF OneList
  <2>5. OneTry' BY <1>9 DEF OneTry
  <2>6. OneDial' BY <1>9 DEF OneDial, OneTry, OneList
  <2>7. WaitsAfterHook' BY <1>9 DEF WaitsAfterHook
  <2>8. PlaceTypes' /\ CandTypes' /\ LifeTypes' /\ ReadTypes' /\ HeardTypes' /\ ActiveWhile' /\ NoRivals' /\ OwnBranch'
        /\ OffHasNoGen' /\ MembersStay' /\ BranchHeard' /\ AcceptKept'
    <3>1. UNCHANGED <<scope, tree, cand, children, peerLife, hook, sgen, leaving, reader, heard, link>> BY <1>9
    <3>. QED BY <1>9, <3>1 DEF CandTypes, ReadTypes, HeardTypes, ActiveWhile, NoRivals, OwnBranch, OffHasNoGen, MembersStay,
         Tree!MembersHaveSessions, BranchHeard, Tree!ChildrenKnowBranch, AcceptKept, Tree!AcceptIsCurrent
  <2>. QED BY <2>3, <2>4, <2>5, <2>6, <2>7, <2>1, <2>2, <2>8 DEF TreeParts
<1>10. ASSUME TreeInv, UNCHANGED scope, NEW w \in workers, Tree!DialParent(w) PROVE TreeParts'
  <2>1. CandTypes' BY <1>10, DialParentKeeps
  <2>2. LifeTypes' BY <1>10, DialParentKeeps
  <2>3. UsersTried' BY <1>10, DialParentKeeps
  <2>4. CandidatesTried' BY <1>10, DialParentKeeps
  <2>5. TryTypes'
    BY <1>10, TreeAssumption DEF Tree!DialParent, Tree!NoCandidate, Tree!WorkerGoes, Tree!WorkerEnds, Tree!Silent,
       TryTypes, PlaceTypes, Tries, Trees, Places, Folk, TreeInv, PlacesAreTyped
  <2>. USE DEF Tree!NoCandidate, Tree!WorkerEnds, Tries, Tree!WorkerGoes, Tree!DialParent, LifeTypes
  <2>6. NoRivals' BY <1>10 DEF NoRivals, CandTypes, OneList, NoCand, Candidates
  <2>7. OffHasNoGen' BY <1>10 DEF OffHasNoGen
  <2>8. OneList' BY <1>10 DEF OneList
  <2>9. OneTry' BY <1>10 DEF OneTry
  <2>10. OneDial' BY SMTT(40), <1>10 DEF OneDial, OneTry, OneList
  <2>11. WaitsAfterHook' BY <1>10 DEF WaitsAfterHook
  <2>12. MembersStay'
    BY <1>10 DEF MembersStay, NoRivals, CandTypes, OffHasNoGen, ActiveWhile, Tree!MembersHaveSessions, NoCand, Candidates
  <2>13. BranchHeard'
    BY <1>10 DEF BranchHeard, HeardTypes, MembersStay, OwnBranch, NoRivals, Tree!ChildrenKnowBranch, Tree!MembersHaveSessions,
       NoCand
  <2>14. PlaceTypes' /\ ReadTypes' /\ HeardTypes' /\ ActiveWhile' /\ OwnBranch' /\ AcceptKept'
    <3>1. UNCHANGED <<scope, tree, children, reader, heard, link>> BY <1>10
    <3>. QED BY <1>10, <3>1 DEF ReadTypes, HeardTypes, ActiveWhile, OwnBranch, AcceptKept, Tree!AcceptIsCurrent
  <2>. QED BY <2>1, <2>2, <2>5, <2>6, <2>7, <2>8, <2>9, <2>10, <2>11, <2>3, <2>4, <2>12, <2>13, <2>14 DEF TreeParts
<1>11. ASSUME TreeInv, UNCHANGED scope, NEW w \in workers, Tree!ClaimCandidate(w) PROVE TreeParts'
  <2>1. CandTypes' BY <1>11, ClaimCandidateKeeps
  <2>2. LifeTypes' BY <1>11, ClaimCandidateKeeps
  <2>3. CandidatesTried' BY <1>11, ClaimCandidateKeeps
  <2>. USE DEF Tree!NoCandidate, Tree!ClaimCandidate, Tree!WorkerEnds, Tries, Tree!NewCandidate, Tree!WorkerGoes,
       Tree!Retire, Tree!WorkerUnchanged, Tree!WorkerCurrent
  <2>4. TryTypes' BY <1>11
  <2>5. NoRivals' BY <1>11 DEF NoRivals, CandTypes, OneList, NoCand, Candidates
  <2>6. OneList' BY <1>11 DEF OneList
  <2>7. OneTry' BY <1>11 DEF OneTry
  <2>8. OneDial' BY <1>11 DEF OneDial, OneTry, OneList, LifeTypes
  <2>9. WaitsAfterHook' BY <1>11 DEF WaitsAfterHook, LifeTypes
  <2>10. UsersTried' BY <1>11 DEF UsersTried, OneTry, OneList, OneDial, LifeTypes, WaitsAfterHook, Tried
  <2>11. BranchHeard'
    BY <1>11 DEF BranchHeard, LifeTypes, HeardTypes, MembersStay, OwnBranch, NoRivals, Tree!ChildrenKnowBranch,
       Tree!MembersHaveSessions, NoCand
  <2>12. PlaceTypes' /\ ReadTypes' /\ HeardTypes' /\ ActiveWhile' /\ OwnBranch' /\ OffHasNoGen' /\ MembersStay' /\
        AcceptKept'
    <3>1. UNCHANGED <<scope, tree, children, peerLife, sgen, reader, heard, link>> BY <1>11
    <3>. QED BY <1>11, <3>1 DEF ReadTypes, HeardTypes, ActiveWhile, OwnBranch, OffHasNoGen, MembersStay,
         Tree!MembersHaveSessions, AcceptKept, Tree!AcceptIsCurrent
  <2>. QED BY <2>1, <2>2, <2>4, <2>5, <2>6, <2>7, <2>8, <2>9, <2>10, <2>3, <2>11, <2>12 DEF TreeParts
<1>12. ASSUME TreeInv, UNCHANGED scope, NEW w \in workers, Tree!AwaitPromotion(w) PROVE TreeParts'
  <2>1. CandTypes' BY <1>12, AwaitPromotionKeeps
  <2>2. LifeTypes' BY <1>12, AwaitPromotionKeeps
  <2>. USE DEF Tree!NoCandidate, Tree!WorkerEnds, Tree!AwaitPromotion, Tries, Tree!Retire, Tree!WorkerUnchanged,
       Tree!WorkerCurrent, OneList, LifeTypes
  <2>3. TryTypes' BY <1>12
  <2>4. NoRivals' BY <1>12 DEF NoRivals, CandTypes, NoCand, Candidates
  <2>5. OneList' BY <1>12
  <2>6. OneTry' BY <1>12 DEF OneTry
  <2>7. OneDial' BY <1>12 DEF OneDial, OneTry
  <2>8. WaitsAfterHook' BY <1>12 DEF WaitsAfterHook
  <2>9. UsersTried' BY <1>12 DEF UsersTried, OneTry, OneDial, WaitsAfterHook, Tried
  <2>10. CandidatesTried'
    BY <1>12 DEF CandidatesTried, CandTypes, UsersTried, NoRivals, OneTry, OneDial, WaitsAfterHook, NoCand, Tried, Candidates
  <2>11. BranchHeard'
    BY <1>12 DEF BranchHeard, HeardTypes, MembersStay, OwnBranch, NoRivals, Tree!ChildrenKnowBranch, Tree!MembersHaveSessions,
       NoCand
  <2>12. PlaceTypes' /\ ReadTypes' /\ HeardTypes' /\ ActiveWhile' /\ OwnBranch' /\ OffHasNoGen' /\ MembersStay' /\
        AcceptKept'
    <3>1. UNCHANGED <<scope, tree, children, peerLife, sgen, reader, heard, link>> BY <1>12
    <3>. QED BY <1>12, <3>1 DEF ReadTypes, HeardTypes, ActiveWhile, OwnBranch, OffHasNoGen, MembersStay,
         Tree!MembersHaveSessions, AcceptKept, Tree!AcceptIsCurrent
  <2>. QED BY <2>1, <2>2, <2>3, <2>4, <2>5, <2>6, <2>7, <2>8, <2>9, <2>10, <2>11, <2>12 DEF TreeParts
<1>13. ASSUME TreeInv, UNCHANGED scope, NEW s \in Folk, s \in scope.kids, Tree!ChildConnects(s) PROVE TreeParts'
  <2>1. WaitsAfterHook' BY <1>13, ChildConnectsKeeps
  <2>. USE DEF Tree!ChildConnects, LifeTypes, OneList, OneTry, NoRivals
  <2>2. LifeTypes' BY <1>13
  <2>3. OffHasNoGen' BY <1>13 DEF OffHasNoGen
  <2>4. OneDial' BY <1>13 DEF OneDial, Tries
  <2>5. UsersTried' BY SMTT(40), <1>13 DEF UsersTried, OneDial, WaitsAfterHook, Tried, Tries
  <2>6. CandidatesTried'
    BY <1>13 DEF CandidatesTried, CandTypes, UsersTried, OneDial, WaitsAfterHook, NoCand, Tried, Candidates, Tries
  <2>7. MembersStay'
    BY <1>13 DEF MembersStay, CandTypes, OffHasNoGen, ActiveWhile, Tree!MembersHaveSessions, NoCand, Candidates
  <2>8. BranchHeard'
    BY <1>13 DEF BranchHeard, HeardTypes, MembersStay, OwnBranch, Tree!ChildrenKnowBranch, Tree!MembersHaveSessions, NoCand
  <2>9. PlaceTypes' /\ CandTypes' /\ ReadTypes' /\ TryTypes' /\ HeardTypes' /\ ActiveWhile' /\ NoRivals' /\ OwnBranch'
        /\ OneList' /\ OneTry' /\ AcceptKept'
    <3>1. UNCHANGED <<scope, tree, cand, children, reader, workers, heard, link>> BY <1>13
    <3>. QED BY <1>13, <3>1 DEF CandTypes, ReadTypes, HeardTypes, ActiveWhile, OwnBranch, AcceptKept, Tree!AcceptIsCurrent
  <2>. QED BY <2>2, <2>3, <2>4, <2>1, <2>5, <2>6, <2>7, <2>8, <2>9 DEF TreeParts
<1>14. ASSUME TreeInv, UNCHANGED scope, NEW s \in Folk, Tree!EstablishedParent(s) PROVE TreeParts'
  <2>1. CandTypes' BY <1>14, EstablishedParentKeeps
  <2>2. CandidatesTried' BY <1>14, EstablishedParentKeeps
  <2>. USE DEF Tree!NewCandidate, Tree!EstablishedParent, Tree!NoCandidate, LifeTypes, OneList, Tries
  <2>3. LifeTypes' BY <1>14
  <2>4. NoRivals' BY <1>14 DEF NoRivals, CandTypes, NoCand, Candidates
  <2>5. WaitsAfterHook' BY <1>14 DEF WaitsAfterHook
  <2>6. UsersTried' BY <1>14 DEF UsersTried, OneTry, OneDial, WaitsAfterHook, Tried
  <2>7. BranchHeard'
    BY <1>14 DEF BranchHeard, HeardTypes, MembersStay, OwnBranch, NoRivals, Tree!ChildrenKnowBranch, Tree!MembersHaveSessions,
       NoCand
  <2>8. PlaceTypes' /\ ReadTypes' /\ TryTypes' /\ HeardTypes' /\ ActiveWhile' /\ OwnBranch' /\ OffHasNoGen' /\ OneList'
        /\ OneTry' /\ OneDial' /\ MembersStay' /\ AcceptKept'
    <3>1. UNCHANGED <<scope, tree, children, peerLife, sgen, reader, workers, heard, link>> BY <1>14
    <3>. QED BY <1>14, <3>1 DEF ReadTypes, HeardTypes, ActiveWhile, OwnBranch, OffHasNoGen, OneTry, OneDial, MembersStay,
         Tree!MembersHaveSessions, AcceptKept, Tree!AcceptIsCurrent
  <2>. QED BY <2>1, <2>3, <2>4, <2>5, <2>6, <2>2, <2>7, <2>8 DEF TreeParts
<1>15. ASSUME TreeInv, UNCHANGED scope, NEW s \in Folk, Tree!EstablishedChild(s) PROVE TreeParts'
  <2>1. PlaceTypes' BY <1>15, EstablishedChildKeeps
  <2>2. LifeTypes' BY <1>15, EstablishedChildKeeps
  <2>3. HeardTypes' BY <1>15, EstablishedChildKeeps
  <2>4. OneList' BY <1>15, EstablishedChildKeeps
  <2>5. OneDial' BY <1>15, EstablishedChildKeeps
  <2>6. UsersTried' BY <1>15, EstablishedChildKeeps
  <2>7. CandidatesTried' BY <1>15, EstablishedChildKeeps
  <2>8. MembersStay' BY <1>15, EstablishedChildKeeps
  <2>9. BranchHeard' BY <1>15, EstablishedChildKeeps
  <2>. USE DEF Tree!Gone, Tree!Accepts, Tree!EstablishedChild, Tree!Overflows, Tree!Reports, Tree!QueueMetadata
  <2>10. ActiveWhile' BY <1>15, ChildTree DEF ActiveWhile
  <2>11. NoRivals' BY <1>15, ChildTree DEF NoRivals, CandTypes, OneList, NoCand, Candidates, Tries
  <2>12. OwnBranch' BY <1>15, ChildTree DEF OwnBranch
  <2>13. OneTry' BY <1>15, ChildTree DEF OneTry, Tries
  <2>14. WaitsAfterHook' BY <1>15, ChildTree DEF WaitsAfterHook, LifeTypes, Tries
  <2>15. AcceptKept' BY <1>15, ChildTree DEF AcceptKept, ActiveWhile, Tree!AcceptIsCurrent
  <2>16. CandTypes' /\ ReadTypes' /\ TryTypes' /\ OffHasNoGen'
    <3>1. UNCHANGED <<cand, peerLife, sgen, reader, workers>> BY <1>15
    <3>. QED BY <1>15, <3>1 DEF CandTypes, ReadTypes, OffHasNoGen
  <2>. QED BY <2>1, <2>2, <2>3, <2>10, <2>11, <2>12, <2>4, <2>13, <2>5, <2>14, <2>6, <2>7, <2>8, <2>9, <2>15, <2>16 DEF TreeParts
<1>16. ASSUME TreeInv, UNCHANGED scope, NEW s \in Folk, Tree!ReadLoopFails(s) PROVE TreeParts'
  <2>1. CandidatesTried' BY <1>16, ReadLoopFailsKeeps
  <2>. USE DEF Tree!ReadLoopFails
  <2>2. LifeTypes' BY <1>16 DEF LifeTypes
  <2>3. BranchHeard'
    BY <1>16 DEF BranchHeard, LifeTypes, HeardTypes, MembersStay, OwnBranch, NoRivals, Tree!ChildrenKnowBranch,
       Tree!MembersHaveSessions, NoCand
  <2>4. PlaceTypes' /\ CandTypes' /\ ReadTypes' /\ TryTypes' /\ HeardTypes' /\ ActiveWhile' /\ NoRivals' /\ OwnBranch'
        /\ OffHasNoGen' /\ OneList' /\ OneTry' /\ OneDial' /\ WaitsAfterHook' /\ UsersTried' /\ MembersStay' /\
        AcceptKept'
    <3>1. UNCHANGED <<scope, tree, cand, children, peerLife, hook, sgen, reader, workers, heard, link>> BY <1>16
    <3>. QED BY <1>16, <3>1 DEF CandTypes, ReadTypes, HeardTypes, ActiveWhile, NoRivals, OwnBranch, OffHasNoGen, OneList, OneTry,
         OneDial, WaitsAfterHook, UsersTried, Tried, MembersStay, Tree!MembersHaveSessions, AcceptKept, Tree!AcceptIsCurrent
  <2>. QED BY <2>2, <2>1, <2>3, <2>4 DEF TreeParts
<1>17. ASSUME TreeInv, UNCHANGED scope, NEW s \in Folk, Tree!Close(s) PROVE TreeParts'
  <2>1. CandidatesTried' BY <1>17, CloseKeeps
  <2>. USE DEF Tree!Close, LifeTypes, OneList, OneTry, NoRivals
  <2>2. LifeTypes' BY <1>17
  <2>3. OffHasNoGen' BY <1>17 DEF OffHasNoGen
  <2>4. OneDial' BY <1>17 DEF OneDial, Tries
  <2>5. UsersTried' BY <1>17 DEF UsersTried, OneDial, WaitsAfterHook, Tried, Tries
  <2>6. MembersStay'
    BY <1>17 DEF MembersStay, CandTypes, OffHasNoGen, ActiveWhile, Tree!MembersHaveSessions, NoCand, Candidates
  <2>7. BranchHeard'
    BY <1>17 DEF BranchHeard, HeardTypes, MembersStay, OwnBranch, Tree!ChildrenKnowBranch, Tree!MembersHaveSessions, NoCand
  <2>8. PlaceTypes' /\ CandTypes' /\ ReadTypes' /\ TryTypes' /\ HeardTypes' /\ ActiveWhile' /\ NoRivals' /\ OwnBranch'
        /\ OneList' /\ OneTry' /\ WaitsAfterHook' /\ AcceptKept'
    <3>1. UNCHANGED <<scope, tree, cand, children, hook, reader, workers, heard, link>> BY <1>17
    <3>. QED BY <1>17, <3>1 DEF CandTypes, ReadTypes, HeardTypes, ActiveWhile, OwnBranch, WaitsAfterHook, AcceptKept,
         Tree!AcceptIsCurrent
  <2>. QED BY <2>2, <2>3, <2>4, <2>5, <2>1, <2>6, <2>7, <2>8 DEF TreeParts
<1>18. ASSUME TreeInv, UNCHANGED scope, NEW s \in Folk, Tree!Closed(s) PROVE TreeParts'
  <2>1. PlaceTypes' BY <1>18, ClosedKeeps
  <2>2. CandTypes' BY <1>18, ClosedKeeps
  <2>3. NoRivals' BY <1>18, ClosedKeeps
  <2>4. OneList' BY <1>18, ClosedKeeps
  <2>5. OneTry' BY <1>18, ClosedKeeps
  <2>6. OneDial' BY <1>18, ClosedKeeps
  <2>7. UsersTried' BY <1>18, ClosedKeeps
  <2>8. CandidatesTried' BY <1>18, ClosedKeeps
  <2>9. MembersStay' BY <1>18, ClosedKeeps
  <2>10. BranchHeard' BY SMTT(40), <1>18, ClosedKeeps
  <2>. USE DEF Tree!NoCandidate, Tree!Unheard, Tree!NoCandidates, Tree!NoParentMessages, Tree!Closed, Tree!Reports
  <2>11. LifeTypes' BY <1>18, ClosedTree DEF LifeTypes
  <2>12. HeardTypes' BY <1>18, ClosedTree DEF HeardTypes, LifeTypes
  <2>13. ActiveWhile' BY <1>18, ClosedTree DEF ActiveWhile
  <2>14. OwnBranch' BY ZenonT(150), <1>18, ClosedTree DEF OwnBranch
  <2>15. OffHasNoGen' BY <1>18, ClosedTree DEF OffHasNoGen, LifeTypes
  <2>16. AcceptKept' BY <1>18, ClosedTree DEF AcceptKept, ActiveWhile, Tree!AcceptIsCurrent, Tree!Accepts
  <2>17. ReadTypes' /\ TryTypes' /\ WaitsAfterHook'
    <3>1. UNCHANGED <<hook, reader, workers>> BY <1>18
    <3>. QED BY <1>18, <3>1 DEF ReadTypes, WaitsAfterHook
  <2>. QED BY <2>1, <2>2, <2>11, <2>12, <2>13, <2>3, <2>14, <2>15, <2>4, <2>5, <2>6, <2>7, <2>8, <2>9, <2>10, <2>16, <2>17
       DEF TreeParts
<1>19. ASSUME TreeInv, UNCHANGED scope, NEW s \in Folk, Tree!ReadFrame(s) PROVE TreeParts'
  <2>1. CandidatesTried' BY <1>19, ReadFrameKeeps
  <2>. USE DEF Tree!NoCandidate, Tree!FrameUnchanged, Tree!ReadFrame
  <2>2. LifeTypes' BY <1>19 DEF LifeTypes
  <2>3. ReadTypes' BY <1>19 DEF ReadTypes
  <2>4. BranchHeard'
    BY <1>19 DEF BranchHeard, LifeTypes, HeardTypes, MembersStay, OwnBranch, NoRivals, Tree!ChildrenKnowBranch,
       Tree!MembersHaveSessions, NoCand
  <2>5. PlaceTypes' /\ CandTypes' /\ TryTypes' /\ HeardTypes' /\ ActiveWhile' /\ NoRivals' /\ OwnBranch' /\ OffHasNoGen'
        /\ OneList' /\ OneTry' /\ OneDial' /\ WaitsAfterHook' /\ UsersTried' /\ MembersStay' /\ AcceptKept'
    <3>1. UNCHANGED <<scope, tree, cand, children, peerLife, hook, sgen, workers, heard, link>> BY <1>19
    <3>. QED BY <1>19, <3>1 DEF CandTypes, HeardTypes, ActiveWhile, NoRivals, OwnBranch, OffHasNoGen, OneList, OneTry, OneDial,
         WaitsAfterHook, UsersTried, Tried, MembersStay, Tree!MembersHaveSessions, AcceptKept, Tree!AcceptIsCurrent
  <2>. QED BY <2>2, <2>3, <2>1, <2>4, <2>5 DEF TreeParts
<1>20. ASSUME TreeInv, UNCHANGED scope, NEW s \in Folk, Tree!ParentLevel(s) PROVE TreeParts'
  <2>1. PlaceTypes' BY SMTT(40), <1>20, ParentLevelKeeps
  <2>2. HeardTypes' BY <1>20, ParentLevelKeeps
  <2>3. OneDial' BY <1>20, ParentLevelKeeps
  <2>4. CandidatesTried' BY SMTT(40), <1>20, ParentLevelKeeps
  <2>5. BranchHeard' BY <1>20, ParentLevelKeeps
  <2>6. UNCHANGED <<cand, peerLife, hook, sgen, workers>>
    BY <1>20 DEF Tree!ParentLevel, Tree!ParentFrame, Tree!Overflows, Tree!Handled, Tree!FrameUnchanged, Tree!Gone
  <2>7. tree'.users = tree.users /\ tree'.epoch = tree.epoch /\ tree'.cancel = tree.cancel /\ tree'.parent = tree.parent
    BY <1>20, LevelStep
  <2>8. OneList' BY <1>20, <2>6, <2>7 DEF OneList
  <2>9. OneTry' BY <1>20, <2>6, <2>7 DEF OneTry
  <2>10. UsersTried' BY <1>20, <2>6, <2>7 DEF UsersTried, Tried
  <2>11. CandTypes' /\ TryTypes' /\ OffHasNoGen' /\ WaitsAfterHook' BY <1>20, <2>6 DEF CandTypes, OffHasNoGen, WaitsAfterHook
  <2>. USE DEF Tree!ParentFrame, Tree!Gone, Tree!ParentLevel, Tree!FrameUnchanged, Tree!Overflows, Tree!Handled
  <2>12. LifeTypes' BY ZenonT(150), <1>20, LevelStep DEF LifeTypes
  <2>13. ReadTypes' BY ZenonT(150), <1>20, LevelStep DEF ReadTypes
  <2>14. ActiveWhile' BY ZenonT(150), <1>20, LevelStep DEF ActiveWhile
  <2>15. NoRivals' BY ZenonT(150), <1>20, LevelStep DEF NoRivals, CandTypes, OneList, NoCand, Candidates, Tries
  <2>16. OwnBranch' BY ZenonT(150), <1>20, LevelStep DEF OwnBranch
  <2>17. MembersStay'
    BY ZenonT(150), <1>20, LevelStep DEF MembersStay, LifeTypes, NoRivals, CandTypes, OffHasNoGen, ActiveWhile,
       Tree!MembersHaveSessions, NoCand, Candidates
  <2>18. AcceptKept' BY ZenonT(150), <1>20, LevelStep DEF AcceptKept, ActiveWhile, Tree!AcceptIsCurrent, Tree!Accepts
  <2>. QED BY <2>1, <2>2, <2>3, <2>4, <2>5, <2>8, <2>9, <2>10, <2>11, <2>12, <2>13, <2>14, <2>15, <2>16, <2>17, <2>18 DEF TreeParts
<1>21. ASSUME TreeInv, UNCHANGED scope, NEW s \in Folk, Tree!ParentRoot(s) PROVE TreeParts'
  <2>. USE DEF Tree!ParentRoot, Tree!ParentFrame, Tree!Gone, Tree!FrameUnchanged, Tree!Overflows, Tree!Handled, LifeTypes,
       Tries
  <2>1. PlaceTypes'
    <3>1. tree' \in Trees BY <1>21, Typed, RootStep
    <3>. QED BY <1>21, <3>1, SameTrees
  <2>2. LifeTypes' BY <1>21, RootStep
  <2>3. ReadTypes' BY <1>21, RootStep DEF ReadTypes
  <2>4. HeardTypes' BY <1>21, RootStep DEF HeardTypes
  <2>5. ActiveWhile' BY <1>21, RootStep DEF ActiveWhile
  <2>6. NoRivals' BY <1>21, RootStep DEF NoRivals, CandTypes, OneList, NoCand, Candidates
  <2>7. OwnBranch' BY <1>21, RootStep DEF OwnBranch
  <2>8. OneList' BY <1>21, RootStep DEF OneList
  <2>9. OneTry' BY <1>21, RootStep DEF OneTry
  <2>10. OneDial' BY <1>21, RootStep DEF OneDial, OneTry, OneList
  <2>11. UsersTried' BY <1>21, RootStep DEF UsersTried, OneTry, OneList, OneDial, WaitsAfterHook, Tried
  <2>12. CandidatesTried'
    BY <1>21, RootStep DEF CandidatesTried, CandTypes, UsersTried, NoRivals, OneTry, OneList, OneDial, WaitsAfterHook, NoCand,
       Tried, Candidates
  <2>13. MembersStay'
    BY <1>21, RootStep DEF MembersStay, NoRivals, CandTypes, OffHasNoGen, ActiveWhile, Tree!MembersHaveSessions, NoCand,
       Candidates
  <2>14. BranchHeard'
    BY <1>21, RootStep DEF BranchHeard, HeardTypes, MembersStay, OwnBranch, NoRivals, Tree!ChildrenKnowBranch,
       Tree!MembersHaveSessions, NoCand
  <2>15. AcceptKept' BY <1>21, RootStep DEF AcceptKept, ActiveWhile, Tree!AcceptIsCurrent, Tree!Accepts
  <2>16. CandTypes' /\ TryTypes' /\ OffHasNoGen' /\ WaitsAfterHook'
    <3>1. UNCHANGED <<cand, peerLife, hook, sgen, workers>> BY <1>21
    <3>. QED BY <1>21, <3>1 DEF CandTypes, OffHasNoGen, WaitsAfterHook
  <2>. QED BY <2>1, <2>2, <2>3, <2>4, <2>5, <2>6, <2>7, <2>8, <2>9, <2>10, <2>11, <2>12, <2>13, <2>14, <2>15, <2>16 DEF TreeParts
<1>22. ASSUME TreeInv, UNCHANGED scope, NEW s \in Folk, Tree!ParentSearch(s) PROVE TreeParts'
  <2>. USE DEF Tree!ParentFrame, Tree!Gone, Tree!FrameUnchanged, Tree!Overflows, Tree!ParentSearch, Tree!Handled, LifeTypes,
       NoRivals
  <2>1. LifeTypes' BY <1>22
  <2>2. ReadTypes' BY <1>22 DEF ReadTypes
  <2>3. CandidatesTried'
    BY <1>22 DEF CandidatesTried, CandTypes, UsersTried, OneTry, OneList, OneDial, WaitsAfterHook, NoCand, Tried, Candidates,
       Tries
  <2>4. BranchHeard'
    BY <1>22 DEF BranchHeard, HeardTypes, MembersStay, OwnBranch, Tree!ChildrenKnowBranch, Tree!MembersHaveSessions, NoCand
  <2>5. PlaceTypes' /\ CandTypes' /\ TryTypes' /\ HeardTypes' /\ ActiveWhile' /\ NoRivals' /\ OwnBranch' /\ OffHasNoGen'
        /\ OneList' /\ OneTry' /\ OneDial' /\ WaitsAfterHook' /\ UsersTried' /\ MembersStay' /\ AcceptKept'
    <3>1. UNCHANGED <<scope, tree, cand, children, peerLife, hook, sgen, workers, heard, link>> BY <1>22
    <3>. QED BY <1>22, <3>1 DEF CandTypes, HeardTypes, ActiveWhile, OwnBranch, OffHasNoGen, OneList, OneTry, OneDial,
         WaitsAfterHook, UsersTried, Tried, MembersStay, Tree!MembersHaveSessions, AcceptKept, Tree!AcceptIsCurrent
  <2>. QED BY <2>1, <2>2, <2>3, <2>4, <2>5 DEF TreeParts
<1>23. ASSUME TreeInv, UNCHANGED scope, NEW s \in Folk, Tree!CandidateFrame(s) PROVE TreeParts'
  <2>1. CandTypes' BY <1>23, CandidateFrameKeeps
  <2>2. CandidatesTried' BY <1>23, CandidateFrameKeeps
  <2>. USE DEF Tree!NoCandidate, Tree!FrameUnchanged, Tree!CandidateFrame, Tree!Handled
  <2>3. LifeTypes' BY <1>23 DEF LifeTypes
  <2>4. ReadTypes' BY <1>23 DEF ReadTypes
  <2>5. NoRivals' BY <1>23 DEF NoRivals, CandTypes, OneList, NoCand, Candidates, Tries
  <2>6. BranchHeard'
    BY <1>23 DEF BranchHeard, LifeTypes, HeardTypes, MembersStay, OwnBranch, NoRivals, Tree!ChildrenKnowBranch,
       Tree!MembersHaveSessions, NoCand
  <2>7. PlaceTypes' /\ TryTypes' /\ HeardTypes' /\ ActiveWhile' /\ OwnBranch' /\ OffHasNoGen' /\ OneList' /\ OneTry' /\
        OneDial' /\ WaitsAfterHook' /\ UsersTried' /\ MembersStay' /\ AcceptKept'
    <3>1. UNCHANGED <<scope, tree, children, peerLife, hook, sgen, workers, heard, link>> BY <1>23
    <3>. QED BY <1>23, <3>1 DEF HeardTypes, ActiveWhile, OwnBranch, OffHasNoGen, OneList, OneTry, OneDial, WaitsAfterHook,
         UsersTried, Tried, MembersStay, Tree!MembersHaveSessions, AcceptKept, Tree!AcceptIsCurrent
  <2>. QED BY <2>1, <2>3, <2>4, <2>5, <2>2, <2>6, <2>7 DEF TreeParts
<1>24. ASSUME TreeInv, UNCHANGED scope, NEW s \in Folk, Tree!TryPromote(s) PROVE TreeParts'
  <2>1. PlaceTypes' BY <1>24, TryPromoteKeeps
  <2>2. CandTypes' BY <1>24, TryPromoteKeeps
  <2>3. LifeTypes' BY SMTT(40), <1>24, TryPromoteKeeps
  <2>4. ReadTypes'
    BY <1>24, PromoteTree DEF Tree!TryPromote, Tree!Promotable, Tree!Reports, Tree!Overflows, Tree!QueueMetadata,
       Tree!NoCandidate, Tree!NoCandidates, Tree!Handled, Tree!FrameUnchanged, Tree!Gone, ReadTypes
  <2>5. HeardTypes' BY <1>24, TryPromoteKeeps
  <2>6. ActiveWhile' BY <1>24, TryPromoteKeeps
  <2>7. NoRivals' BY <1>24, TryPromoteKeeps
  <2>8. OwnBranch' BY <1>24, TryPromoteKeeps
  <2>9. OneList' BY <1>24, TryPromoteKeeps
  <2>10. OneTry' BY <1>24, TryPromoteKeeps
  <2>11. OneDial' BY <1>24, TryPromoteKeeps
  <2>12. UsersTried' BY <1>24, TryPromoteKeeps
  <2>13. CandidatesTried' BY <1>24, TryPromoteKeeps
  <2>14. MembersStay' BY <1>24, TryPromoteKeeps
  <2>15. BranchHeard' BY <1>24, TryPromoteKeeps
  <2>16. AcceptKept' BY <1>24, TryPromoteKeeps
  <2>17. TryTypes' /\ OffHasNoGen' /\ WaitsAfterHook'
    <3>1. UNCHANGED <<peerLife, hook, sgen, workers>>
      BY <1>24 DEF Tree!TryPromote, Tree!Promotable, Tree!Reports, Tree!Overflows, Tree!QueueMetadata, Tree!NoCandidates,
         Tree!Handled, Tree!FrameUnchanged, Tree!Gone
    <3>. QED BY <1>24, <3>1 DEF OffHasNoGen, WaitsAfterHook
  <2>. QED BY <2>1, <2>2, <2>3, <2>4, <2>5, <2>6, <2>7, <2>8, <2>9, <2>10, <2>11, <2>12, <2>13, <2>14, <2>15, <2>16, <2>17
       DEF TreeParts
<1>25. ASSUME TreeInv, UNCHANGED scope, NEW t \in DOMAIN out, Tree!Send(t) PROVE TreeParts'
  <2>1. PlaceTypes' /\ CandTypes' /\ LifeTypes' /\ ReadTypes' /\ TryTypes' /\ HeardTypes' /\ ActiveWhile' /\ NoRivals'
        /\ OwnBranch' /\ OffHasNoGen' /\ OneList' /\ OneTry' /\ OneDial' /\ WaitsAfterHook' /\ UsersTried' /\
        CandidatesTried' /\ MembersStay' /\ BranchHeard' /\ AcceptKept'
    <3>1. UNCHANGED <<scope, tree, cand, children, peerLife, hook, sgen, leaving, reader, workers, heard, link>> BY
         <1>25 DEF Tree!Send
    <3>. QED BY <1>25, <3>1 DEF CandTypes, LifeTypes, ReadTypes, HeardTypes, ActiveWhile, NoRivals, OwnBranch, OffHasNoGen,
         OneList, OneTry, OneDial, WaitsAfterHook, UsersTried, Tried, CandidatesTried, MembersStay, Tree!MembersHaveSessions,
         BranchHeard, Tree!ChildrenKnowBranch, AcceptKept, Tree!AcceptIsCurrent
  <2>. QED BY <2>1 DEF TreeParts
<1>26. \A s : s \in Tree!Neighbours <=> s \in Folk OBVIOUS
<1>. QED BY <1>1, <1>2, <1>3, <1>4, <1>5, <1>6, <1>7, <1>8, <1>9, <1>10, <1>11, <1>12, <1>13, <1>14, <1>15, <1>16, <1>17,
     <1>18, <1>19, <1>20, <1>21, <1>22, <1>23, <1>24, <1>25, <1>26 DEF Tree!Next, Tree!ServerStep, Tree!WorkerStep,
     Tree!SessionStep, Tree!FrameStep
LEMMA ReportsStep == ASSUME TreeInv, UNCHANGED scope, Tree!Next PROVE OutTypes' /\ ReportsFollow'
<1>1. Tree!Neighbours = Folk BY DEF Tree!Neighbours, Folk
<1>. QED BY <1>1, ServerReports, WorkerReports, SessionReports, FrameReports, SendReports DEF Tree!Next
LEMMA TreeStep == ASSUME TreeInv, UNCHANGED scope, Tree!Next PROVE TreeInv'
BY TreeMoves, ReportsStep DEF TreeParts, TreeInv, PlacesAreTyped
LEMMA TreeStarts == Tree!Init => TreeInv
<1>. SUFFICES ASSUME Tree!Init PROVE TreeInv OBVIOUS
<1>1. scope \in Scopes /\ scope.gens \in Nat /\ MaxCapacity \in Nat /\ Tree!Neighbours = Folk
BY TreeAssumption DEF Tree!Init, Tree!Neighbours, Folk
<1>2. /\ tree = [active |-> FALSE, gen |-> 0, epoch |-> 0, cancel |-> 0, users |-> {}, parent |-> None, level |-> 0,
                 serverParent |-> FALSE, branch |-> [level |-> 0, root |-> Me], capacity |-> 0, accept |-> {}]
      /\ cand = [s \in Folk |-> NoCand] /\ children = {} /\ peerLife = [s \in Folk |-> "off"] /\ hook = {} /\ sgen = [s \in Folk |-> 0]
      /\ leaving = {} /\ reader = [s \in Folk |-> "idle"] /\ workers = {} /\ heard = [s \in Folk |-> Tree!Unheard]
      /\ link = "down" /\ told = Tree!Untold /\ raced = {} /\ out = [t \in Folk \cup {"server"} |-> <<>>]
BY <1>1, CandForms DEF Tree!Init
<1>3. tree \in Trees BY <1>1, <1>2 DEF Trees, Places
<1>4. PlaceTypes BY <1>1, <1>2, <1>3 DEF PlaceTypes
<1>5. CandTypes
  <2>1. NoCand \in Candidates BY CandForms
  <2>. HIDE DEF NoCand
  <2>. QED BY <1>2, <2>1 DEF CandTypes
<1>6. LifeTypes /\ ReadTypes /\ TryTypes BY <1>1, <1>2 DEF LifeTypes, ReadTypes, TryTypes
<1>7. HeardTypes
  <2>1. Tree!Unheard \in Places BY DEF Tree!Unheard, Places
  <2>. QED BY <1>2, <2>1 DEF HeardTypes
<1>8. OutTypes BY <1>2, UntoldIs DEF OutTypes
<1>9. tree.active = FALSE /\ tree.parent = None /\ tree.serverParent = FALSE /\ tree.cancel = 0 /\ tree.users = {} BY <1>2
<1>10. ActiveWhile /\ OwnBranch /\ OneList /\ OneTry /\ OneDial /\ WaitsAfterHook /\ UsersTried /\ ReportsFollow
BY <1>2, <1>9 DEF ActiveWhile, OwnBranch, OneList, OneTry, OneDial, WaitsAfterHook, UsersTried, ReportsFollow
<1>11. \A s \in Folk : cand[s] = NoCand /\ sgen[s] = 0 BY <1>2
<1>12. NoRivals /\ OffHasNoGen /\ CandidatesTried BY <1>11 DEF NoRivals, OffHasNoGen, CandidatesTried
<1>13. MembersStay BY <1>1, <1>2, <1>9, TreeAssumption DEF MembersStay, Tree!MembersHaveSessions, Folk
<1>14. BranchHeard /\ AcceptKept BY <1>9 DEF BranchHeard, AcceptKept, Tree!ChildrenKnowBranch, Tree!AcceptIsCurrent
<1>. QED BY <1>4, <1>5, <1>6, <1>7, <1>8, <1>10, <1>12, <1>13, <1>14 DEF TreeInv, PlacesAreTyped
LEMMA TreeStutters == ASSUME TreeInv, UNCHANGED Tree!vars PROVE TreeInv'
<1>. USE DEF TreeInv
<1>1. /\ UNCHANGED <<scope, tree, cand, children, peerLife, hook, sgen, leaving, reader, workers, heard, link, out, told, raced>>
BY DEF Tree!vars
<1>2. PlacesAreTyped'
BY <1>1 DEF PlacesAreTyped, PlaceTypes, CandTypes, LifeTypes, ReadTypes, TryTypes, HeardTypes, OutTypes, Trees
<1>3. ActiveWhile' /\ NoRivals' /\ OwnBranch' /\ OffHasNoGen' /\ OneList' /\ OneTry' /\ OneDial' /\ WaitsAfterHook'
BY <1>1 DEF ActiveWhile, NoRivals, OwnBranch, OffHasNoGen, OneList, OneTry, OneDial, WaitsAfterHook
<1>4. UsersTried' /\ CandidatesTried' BY <1>1 DEF UsersTried, CandidatesTried, Tried
<1>5. MembersStay' /\ BranchHeard' /\ AcceptKept'
BY <1>1 DEF MembersStay, BranchHeard, AcceptKept, Tree!MembersHaveSessions, Tree!ChildrenKnowBranch, Tree!AcceptIsCurrent,
   Tree!Accepts
<1>6. ReportsFollow' BY <1>1 DEF ReportsFollow, Upto, Wanted
<1>. QED BY <1>2, <1>3, <1>4, <1>5, <1>6
LEMMA TreeSound == ASSUME TreeInv PROVE TreeIsSound
<1>. USE DEF TreeInv
<1>1. Tree!TypeOK
  <2>1. tree.active \in BOOLEAN /\ tree.gen \in 0 .. scope.gens /\ tree.parent \in Parents \cup {None} BY Typed DEF Trees
  <2>2. tree.accept \subseteq BOOLEAN /\ tree.users \subseteq Parents /\ tree.capacity \in 0 .. MaxCapacity BY Typed DEF Trees
  <2>. QED BY <2>1, <2>2 DEF PlacesAreTyped, PlaceTypes, LifeTypes, OutTypes, Kinds, Folk, Tree!TypeOK, Tree!Neighbours
<1>2. Tree!ServerIsTold
  <2>1. SUFFICES ASSUME link = "up", \A t \in DOMAIN out : out[t] = <<>>
                 PROVE  /\ "noParent" \notin raced => told.noParent = (tree.parent = None)
                        /\ "accept" \notin raced => {told.accept} = tree.accept
    BY DEF Tree!ServerIsTold
  <2>2. \A t \in DOMAIN out : DOMAIN out[t] = {} BY <2>1
  <2>3. \A k \in Kinds \ raced : told[k] = Wanted(k) BY <2>1, <2>2 DEF ReportsFollow, Upto, UptoDate
  <2>4. tree.accept = {Tree!Accepts(tree, children)} BY <2>1 DEF ActiveWhile, AcceptKept, Tree!AcceptIsCurrent
  <2>5. Tree!Accepts(tree, children) \in BOOLEAN BY DEF Tree!Accepts
  <2>6. (tree.accept = {TRUE}) = Tree!Accepts(tree, children) BY <2>4, <2>5
  <2>7. told.noParent = told["noParent"] /\ told.accept = told["accept"] OBVIOUS
  <2>8. "noParent" \notin raced => told.noParent = (tree.parent = None) BY <2>3, <2>7 DEF Wanted, Kinds
  <2>9. "accept" \notin raced => told.accept = (tree.accept = {TRUE}) BY <2>3, <2>7 DEF Wanted, Kinds
  <2>. QED BY <2>4, <2>6, <2>8, <2>9
<1>3. Tree!CandidatesAreWatched
  <2>1. Parents \subseteq Folk BY DEF Folk
  <2>. QED BY <2>1, CandForms DEF NoRivals, CandidatesTried, Tried, Tree!CandidatesAreWatched
<1>. QED BY <1>1, <1>2, <1>3 DEF MembersStay, BranchHeard, AcceptKept, TreeIsSound, Tree!TreeIsSound
\* The client's place in the tree is what members, children and the server were told, and every candidate is watched
\* (tryPromote, closed, acceptUpdateLocked).
THEOREM TreeHolds == Tree!Spec => []TreeIsSound
<1>1. TreeInv /\ [Tree!Next /\ UNCHANGED scope]_(Tree!vars) => TreeInv' BY TreeStep, TreeStutters
<1>2. TreeInv => TreeIsSound BY TreeSound
<1>. QED BY <1>1, <1>2, TreeStarts, PTL DEF Tree!Spec
=============================================================================
