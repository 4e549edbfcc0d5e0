--------------------------- MODULE Downloads_proofs ---------------------------
(* What NativeDownloads guarantees for every number of files, transfers and  *)
(* connections and every size of a file, and below what Imports guarantees   *)
(* for every number of jobs and directories, whatever fails and whatever     *)
(* names the peers give their directories.                                   *)
EXTENDS MCFiles, SequenceTheorems, FiniteSetTheorems, TLAPS

\* The pipeline registers a folder before it enqueues into it, and removes
\* what it has removed before it registers it again.
OrderlyCallers == \A s \in Scopes : s.orderly

(***************************************************************************)
(* The inductive invariant                                                 *)
(***************************************************************************)
Streaming == InStream \cup {"complete"}
Negotiating == {"send", "negotiate", "took", "give_up"}
Places == {"off", "made", "connect", "queued", "accept", "start"} \cup Negotiating \cup Streaming
Transfer ==
  [key : SUBSET Keys, state : {"QUEUED", "IN_PROGRESS", "COMPLETED", "ERRORED", "CANCELLED"}, at : Places, ctx : BOOLEAN,
   token : Tokens \cup {0}, req : Tokens \cup {0}, waits : BOOLEAN, reason : {"none", "errored", "interrupted"},
   off : 0 .. Size, fd : 0 .. MaxTransfers]
Attached == {"claimed", "waiting", "held", "cut"}
Connection ==
  [at : {"none", "opened", "closed"} \cup Attached, token : Tokens \cup {0}, tr : 0 .. MaxTransfers]

FileTypes ==
  /\ life \in {"up", "again", "stopping"} /\ scope \in Scopes /\ made \in 0 .. MaxTransfers
  /\ tr \in [Ids -> Transfer] /\ conns \in [Conns -> Connection]
  /\ byKey \in [Keys -> 0 .. MaxTransfers] /\ byToken \in [Tokens -> 0 .. made]
  /\ hook \in [Keys -> [tr : 0 .. made, token : Tokens \cup {0}]]
  /\ offered \in [Keys -> [tokens : SUBSET Tokens, sent : Nat]]
  /\ removal \in [Keys -> [at : {"idle", "forget", "drain", "unlink"}, tr : 0 .. MaxTransfers, late : BOOLEAN, clean : BOOLEAN]]
  /\ disk \in [part : [Keys -> 0 .. MaxTransfers], data : [Ids -> Seq(Nat)], whole : [Keys -> 0 .. MaxTransfers]]

\* Whom a key belongs to: its transfer, which is the one being removed until
\* its partial file is gone; anyone else who still runs is beyond its Remove.
Mine(i, k) == tr[i].key = {k}
Owner(k) == IF removal[k].at = "idle" THEN byKey[k] ELSE removal[k].tr
Beyond(i, k) == i # Owner(k) \/ removal[k].at = "unlink"
\* It was cancelled, and its stream has lost its connection.
Cut(i) == tr[i].state = "CANCELLED" /\ (tr[i].at \in InStream => Source(i) = {})

KeysKnown ==
  /\ \A i \in Ids : i > made => tr[i].key = {} /\ ~Running(i)
  /\ \A i \in Ids : i <= made => \E k \in Keys : Mine(i, k)
  /\ \A k \in Keys : byKey[k] # 0 => Mine(byKey[k], k)
  /\ \A k \in Keys : removal[k].at # "idle" =>
       /\ removal[k].tr # 0 /\ Mine(removal[k].tr, k) /\ byKey[k] \in {0, removal[k].tr}
       /\ removal[k].at # "forget" => byKey[k] = 0
       /\ Running(removal[k].tr) => tr[removal[k].tr].state = "CANCELLED"

\* A transfer and where its goroutine is.
Fits(b) ==
  /\ b.at = "off" => ~b.waits /\ b.fd = 0
  /\ b.waits => b.at \in Negotiating
  /\ b.at \in Streaming => b.state \in {"IN_PROGRESS", "CANCELLED"}
  /\ b.at \notin Streaming \cup {"off"} => b.state \in {"QUEUED", "CANCELLED"} /\ b.fd = 0
  /\ b.at \in {"stat", "open"} => b.fd = 0
  /\ b.at \in {"read", "write", "sync"} => b.fd # 0
  /\ b.at = "sync" => b.off = Size
StepsFit == \A i \in Ids : Fits(tr[i])

\* A connection and the goroutine it is for.
Suits(r, b) ==
  /\ r.at = "waiting" => b.waits
  /\ r.at = "held" => b.at \in {"took", "start"} \cup Streaming
  /\ r.at = "cut" => b.at \in Streaming
ConnsFit ==
  /\ \A c \in Conns : conns[c].at = "opened" => conns[c].token \in Tokens
  /\ \A c \in Conns : conns[c].at \in Attached => conns[c].tr \in 1 .. made /\ Suits(conns[c], tr[conns[c].tr])
  /\ \A c, d \in Conns : conns[c].at = "waiting" /\ conns[d].at = "waiting" /\ conns[c].tr = conns[d].tr => c = d

\* Who runs beyond its Remove is cut off, and the Remove was late.
Ownership ==
  /\ \A k \in Keys : \A i \in Ids : Mine(i, k) /\ Running(i) /\ Beyond(i, k) => removal[k].late /\ Cut(i)
  /\ \A k \in Keys : removal[k].clean => disk.part[k] = 0 /\ byKey[k] = 0 /\ ~removal[k].late /\ removal[k].at = "idle"

\* An inode belongs to the key of the transfer it is named after, and one
\* goroutine at most has it open.
Refers(x, key) == x # 0 => x \in Ids /\ tr[x].key = key
Fresh(x) == x > made \/ (Running(x) /\ tr[x].fd # x)
Unused(x) == disk.data[x] = <<>> /\ (\A k \in Keys : disk.part[k] # x /\ disk.whole[k] # x) /\ \A i \in Ids : tr[i].fd # x
Inodes ==
  /\ \A k \in Keys : Refers(disk.part[k], {k}) /\ Refers(disk.whole[k], {k})
  /\ \A i \in Ids : Refers(tr[i].fd, tr[i].key)
  /\ \A x \in Ids : Fresh(x) => Unused(x)
  /\ \A i, j \in Ids : tr[i].fd = tr[j].fd /\ tr[i].fd # 0 => i = j
  /\ \A x \in Ids : Len(disk.data[x]) <= Size

\* How far a goroutine is in its file.
InPlace(b, data) ==
  /\ b.at \in {"read", "sync"} => b.off = Len(data[b.fd])
  /\ b.at = "write" => b.off = Len(data[b.fd]) + 1
Writers ==
  /\ \A i \in Ids : InPlace(tr[i], disk.data)
  /\ \A k \in Keys : \A i \in Ids : Mine(i, k) /\ tr[i].at = "open" /\ ~Beyond(i, k) => tr[i].off = PartSize(k)

\* A partial file is its owner's, who has none besides it.
Parts ==
  /\ \A k \in Keys : \A i \in Ids : disk.part[k] # 0 /\ tr[i].fd = disk.part[k] => i = Owner(k)
  /\ \A k \in Keys : \A i \in Ids : disk.part[k] # 0 /\ Mine(i, k) /\ Running(i) /\ i # Owner(k) =>
       Owner(k) # 0 /\ (~Running(Owner(k)) \/ tr[Owner(k)].fd = disk.part[k])
  /\ \A k \in Keys : Owner(k) # 0 /\ tr[Owner(k)].fd # 0 => disk.part[k] \in {0, tr[Owner(k)].fd}
  /\ \A k \in Keys : byKey[k] # 0 /\ (tr[byKey[k]].state = "COMPLETED" \/ tr[byKey[k]].at = "complete") =>
       disk.part[k] = 0 /\ disk.whole[k] # 0 /\ Len(disk.data[disk.whole[k]]) = Size

FilesInv == FileTypes /\ KeysKnown /\ StepsFit /\ ConnsFit /\ Ownership /\ Inodes /\ Writers /\ Parts
(***************************************************************************)
(* What the steps are made of                                              *)
(***************************************************************************)
LEMMA Numbers ==
  /\ Size \in Nat /\ MaxTransfers \in Nat /\ MaxConns \in Nat /\ 0 \notin Tokens /\ Ids = 1 .. MaxTransfers
  /\ \A s \in Scopes : s.transfers \in 0 .. MaxTransfers /\ s.tokens \subseteq Tokens
BY DownloadsAssumption DEF Ids

LEMMA KeyIs == ASSUME NEW i, NEW k \in Keys, Mine(i, k) PROVE KeyOf(i) = k
BY DEF Mine, KeyOf

\* A key in the registry is its owner; a transfer has one key.
LEMMA OwnerIs ==
  ASSUME FilesInv, NEW k \in Keys
  PROVE /\ byKey[k] # 0 => Owner(k) = byKey[k]
        /\ Owner(k) # 0 => Owner(k) \in Ids /\ Mine(Owner(k), k) /\ Owner(k) <= made
        /\ \A i, l : Mine(i, k) /\ Mine(i, l) => k = l
<1>1. byKey[k] \in 0 .. MaxTransfers /\ removal[k].tr \in 0 .. MaxTransfers BY DEF FilesInv, FileTypes
<1>2. made \in 0 .. MaxTransfers BY DEF FilesInv, FileTypes
<1>3. Owner(k) # 0 => Owner(k) \in Ids /\ Mine(Owner(k), k) BY <1>1, Numbers DEF FilesInv, KeysKnown, Owner
<1>4. \A i \in Ids : Mine(i, k) => i <= made BY SMTT(40), <1>2, Numbers DEF FilesInv, KeysKnown, Mine
<1>5. byKey[k] # 0 => Owner(k) = byKey[k] BY DEF FilesInv, KeysKnown, Owner
<1>. QED BY <1>3, <1>4, <1>5 DEF Mine

\* A goroutine that has an open connection in its stream is not beyond a Remove.
LEMMA SourcedOwns ==
  ASSUME FilesInv, NEW i \in Ids, NEW k \in Keys, Mine(i, k), tr[i].at \in InStream, Source(i) # {}
  PROVE i = Owner(k) /\ ~Beyond(i, k)
<1>1. Running(i) BY DEF Running, InStream
<1>. QED BY <1>1 DEF FilesInv, Ownership, Cut, Beyond

\* One transfer becomes b, while the files stay: what may become of it, and of the connections.
ConnsMove(i, b) ==
  /\ conns' \in [Conns -> Connection]
  /\ \A c \in Conns :
       \/ conns'[c] = conns[c] /\ (conns[c].at \in Attached /\ conns[c].tr = i => Suits(conns[c], b))
       \/ conns'[c].at = "closed"
       \/ /\ conns[c].at = "waiting" /\ conns[c].tr = i /\ b.at = "took"
          /\ conns'[c].at = "held" /\ conns'[c].tr = i
Becomes(i, b) ==
  /\ b \in Transfer /\ Fits(b) /\ b.key = tr[i].key
  /\ b.at # "off" => Running(i) /\ b.fd = tr[i].fd /\ (tr[i].state = "CANCELLED" => b.state = "CANCELLED")
  /\ b.at \in InStream => tr[i].at \in InStream \/ tr[i].state # "CANCELLED"
  /\ b.state = "COMPLETED" => tr[i].state = "COMPLETED" \/ tr[i].at = "complete"
  /\ b.at = "complete" => tr[i].at = "complete"
  /\ b.at \in {"read", "sync"} => b.at = tr[i].at /\ b.off = tr[i].off
  /\ b.at = "write" => (b.at = tr[i].at /\ b.off = tr[i].off) \/ (tr[i].at = "read" /\ b.off = tr[i].off + 1)
  /\ b.at = "open" =>
       \/ tr[i].at = "open" /\ b.off = tr[i].off
       \/ \A k \in Keys : Mine(i, k) => b.off = PartSize(k)
SameOwners ==
  \A k \in Keys :
    /\ Owner(k)' = Owner(k) /\ (removal'[k].at = "unlink" <=> removal[k].at = "unlink")
    /\ removal'[k].late = removal[k].late /\ (removal'[k].clean => removal[k].clean /\ removal'[k].at = "idle")
Moves(i, b) ==
  /\ tr' = [tr EXCEPT ![i] = b] /\ Becomes(i, b) /\ ConnsMove(i, b)
  /\ life' = life /\ scope' = scope /\ made' = made /\ byKey' = byKey /\ disk' = disk
  /\ byToken' \in [Tokens -> 0 .. made]
  /\ hook' \in [Keys -> [tr : 0 .. made, token : Tokens \cup {0}]]
  /\ offered' \in [Keys -> [tokens : SUBSET Tokens, sent : Nat]]

LEMMA MovesKeep ==
  ASSUME FilesInv, NEW i \in Ids, NEW b, Moves(i, b), SameOwners, KeysKnown',
         removal' \in [Keys -> [at : {"idle", "forget", "drain", "unlink"}, tr : 0 .. MaxTransfers, late : BOOLEAN, clean : BOOLEAN]]
  PROVE FilesInv'
<1>0. FileTypes /\ KeysKnown /\ StepsFit /\ ConnsFit /\ Ownership /\ Inodes /\ Writers /\ Parts BY DEF FilesInv
<1>1. /\ Becomes(i, b) /\ ConnsMove(i, b) /\ made' = made /\ byKey' = byKey /\ disk' = disk
      /\ tr' = [tr EXCEPT ![i] = b] /\ b \in Transfer
BY DEF Moves, Becomes
<1>2. tr \in [Ids -> Transfer] BY <1>0 DEF FileTypes
<1>3. tr'[i] = b /\ \A j \in Ids : j # i => tr'[j] = tr[j] BY <1>1, <1>2
<1>4. \A j \in Ids : tr'[j].key = tr[j].key BY <1>1, <1>3 DEF Becomes
<1>5. \A j \in Ids : Running(j)' => Running(j) /\ tr'[j].fd = tr[j].fd BY <1>1, <1>3 DEF Becomes, Running
<1>6. \A j \in Ids : tr'[j].fd \in {0, tr[j].fd}
  <2>1. b.at = "off" => b.fd = 0 BY <1>1 DEF Becomes, Fits
  <2>. QED BY <1>1, <1>3, <2>1 DEF Becomes
<1>7. \A j \in Ids, k \in Keys : (Mine(j, k)' <=> Mine(j, k)) /\ (Beyond(j, k)' <=> Beyond(j, k))
BY <1>4 DEF Mine, Beyond, SameOwners
<1>8. \A k \in Keys : Owner(k)' = Owner(k) BY DEF SameOwners
<1>9. \A k \in Keys : PartSize(k)' = PartSize(k) BY <1>1 DEF PartSize
<1>10. FileTypes'
  <2>1. tr' \in [Ids -> Transfer] BY <1>1, <1>2
  <2>2. conns' \in [Conns -> Connection] BY <1>1 DEF ConnsMove
  <2>. QED BY <1>0, <1>1, <2>1, <2>2 DEF FileTypes, Moves
<1>11. StepsFit' BY <1>0, <1>1, <1>3 DEF StepsFit, Becomes
<1>12. ConnsFit'
  <2>1. conns \in [Conns -> Connection] BY <1>0 DEF FileTypes
  <2>2. ASSUME NEW c \in Conns PROVE
          /\ conns'[c].at = "opened" => conns'[c].token \in Tokens
          /\ conns'[c].at \in Attached => conns'[c].tr \in 1 .. made /\ Suits(conns'[c], tr'[conns'[c].tr])
          /\ conns'[c].at = "waiting" => conns[c].at = "waiting" /\ conns'[c].tr = conns[c].tr
    <3>1. CASE conns'[c] = conns[c] /\ (conns[c].at \in Attached /\ conns[c].tr = i => Suits(conns[c], b))
      <4>1. made \in 0 .. MaxTransfers BY <1>0 DEF FileTypes
      <4>2. 1 .. made \subseteq Ids BY <4>1, Numbers
      <4>. QED BY <1>0, <1>3, <3>1, <4>2 DEF ConnsFit
    <3>2. CASE conns'[c].at = "closed" BY <3>2 DEF Attached
    <3>3. CASE conns[c].at = "waiting" /\ conns[c].tr = i /\ b.at = "took" /\ conns'[c].at = "held" /\ conns'[c].tr = i
      BY <1>0, <1>3, <3>3 DEF ConnsFit, Attached, Suits
    <3>. QED BY <1>1, <3>1, <3>2, <3>3 DEF ConnsMove
  <2>3. \A c, d \in Conns : conns'[c].at = "waiting" /\ conns'[d].at = "waiting" /\ conns'[c].tr = conns'[d].tr => c = d
    BY <1>0, <2>2 DEF ConnsFit
  <2>. QED BY <1>1, <2>2, <2>3 DEF ConnsFit
<1>13. Ownership'
  <2>1. \A j \in Ids : tr'[j].at \in InStream => Source(j)' \subseteq Source(j)
    <3>1. SUFFICES ASSUME NEW j \in Ids, tr'[j].at \in InStream, NEW c \in Conns, conns'[c].at = "held", conns'[c].tr = j
                   PROVE conns[c].at = "held" /\ conns[c].tr = j
      BY DEF Source
    <3>2. b.at = "took" => b.at \notin InStream BY DEF InStream
    <3>. QED BY <1>1, <1>3, <3>1, <3>2 DEF ConnsMove
  <2>2. ASSUME NEW k \in Keys, NEW j \in Ids, Mine(j, k)', Running(j)', Beyond(j, k)' PROVE removal'[k].late /\ Cut(j)'
    <3>1. removal[k].late /\ Cut(j) BY <1>0, <1>5, <1>7, <2>2 DEF Ownership
    <3>2. tr[j].state = "CANCELLED" /\ (tr[j].at \in InStream => Source(j) = {}) BY <3>1 DEF Cut
    <3>3. tr'[j].state = "CANCELLED" BY <1>1, <1>3, <2>2, <3>2 DEF Becomes, Running
    <3>4. tr'[j].at \in InStream => tr[j].at \in InStream BY <1>1, <1>3, <3>2 DEF Becomes
    <3>. QED BY <2>1, <3>1, <3>2, <3>3, <3>4 DEF Cut, SameOwners
  <2>. QED BY <1>0, <1>1, <2>2 DEF Ownership, SameOwners
<1>14. Inodes'
  <2>1. \A x, l : Refers(x, l)' <=> Refers(x, l) BY <1>4 DEF Refers
  <2>2. \A j \in Ids : Refers(tr'[j].fd, tr'[j].key) BY <1>0, <1>4, <1>6 DEF Inodes, Refers
  <2>3. \A x \in Ids : Fresh(x)' => Fresh(x) BY <1>1, <1>5 DEF Fresh
  <2>4. \A x \in Ids : Unused(x) => Unused(x)'
    <3>1. \A x \in Ids : x # 0 BY Numbers
    <3>. QED BY <1>1, <1>6, <3>1 DEF Unused
  <2>5. \A j, l \in Ids : tr'[j].fd = tr'[l].fd /\ tr'[j].fd # 0 => j = l BY <1>0, <1>6 DEF Inodes
  <2>. QED BY <1>0, <1>1, <2>1, <2>2, <2>3, <2>4, <2>5 DEF Inodes
<1>15. Writers'
  <2>1. InPlace(b, disk.data)
    <3>1. InPlace(tr[i], disk.data) BY <1>0 DEF Writers
    <3>2. b.at # "off" => b.fd = tr[i].fd BY <1>1 DEF Becomes
    <3>3. CASE b.at \in {"read", "sync"} BY <1>1, <3>1, <3>2, <3>3 DEF Becomes, InPlace
    <3>4. CASE b.at = "write" BY <1>1, <3>1, <3>2, <3>4 DEF Becomes, InPlace
    <3>. QED BY <3>3, <3>4 DEF InPlace
  <2>2. \A j \in Ids : InPlace(tr'[j], disk'.data) BY ZenonT(60), <1>0, <1>1, <1>3, <2>1 DEF Writers, InPlace
  <2>3. ASSUME NEW k \in Keys, NEW j \in Ids, Mine(j, k)', tr'[j].at = "open", ~Beyond(j, k)' PROVE tr'[j].off = PartSize(k)'
    <3>1. Mine(j, k) /\ ~Beyond(j, k) BY <1>7, <2>3
    <3>2. tr[j].at = "open" => tr[j].off = PartSize(k) BY <1>0, <3>1 DEF Writers
    <3>. QED BY <1>1, <1>3, <1>9, <2>3, <3>1, <3>2 DEF Becomes
  <2>. QED BY <2>2, <2>3 DEF Writers
<1>16. Parts'
  <2>1. \A k \in Keys : Owner(k) # 0 => Owner(k) \in Ids BY OwnerIs
  <2>2. \A k \in Keys : \A j \in Ids : disk.part[k] # 0 /\ tr'[j].fd = disk.part[k] => j = Owner(k) BY <1>0, <1>6 DEF Parts
  <2>3. ASSUME NEW k \in Keys, NEW j \in Ids, disk.part[k] # 0, Mine(j, k), Running(j)', j # Owner(k)
        PROVE Owner(k) # 0 /\ (~Running(Owner(k))' \/ tr'[Owner(k)].fd = disk.part[k])
    <3>1. Owner(k) # 0 /\ (~Running(Owner(k)) \/ tr[Owner(k)].fd = disk.part[k]) BY <1>0, <1>5, <2>3 DEF Parts
    <3>. QED BY <1>5, <1>8, <2>1, <3>1
  <2>4. \A k \in Keys : Owner(k) # 0 /\ tr'[Owner(k)].fd # 0 => disk.part[k] \in {0, tr'[Owner(k)].fd}
    BY <1>0, <1>6, <2>1 DEF Parts
  <2>5. \A k \in Keys : byKey[k] # 0 /\ (tr'[byKey[k]].state = "COMPLETED" \/ tr'[byKey[k]].at = "complete") =>
          disk.part[k] = 0 /\ disk.whole[k] # 0 /\ Len(disk.data[disk.whole[k]]) = Size
    <3>1. \A k \in Keys : byKey[k] # 0 => byKey[k] \in Ids BY <2>1, OwnerIs
    <3>. QED BY <1>0, <1>1, <1>3, <3>1 DEF Parts, Becomes
  <2>. QED BY <1>1, <1>7, <1>8, <2>2, <2>3, <2>4, <2>5 DEF Parts
<1>. QED BY <1>10, <1>11, <1>12, <1>13, <1>14, <1>15, <1>16 DEF FilesInv

\* A step of runDownload that leaves the registries and the files alone.
LEMMA MovesHold ==
  ASSUME FilesInv, NEW i \in Ids, NEW b \in Transfer, Becomes(i, b), ConnsMove(i, b), tr' = [tr EXCEPT ![i] = b],
         RunUnchanged, disk' = disk
  PROVE FilesInv'
<1>0. FileTypes /\ KeysKnown BY DEF FilesInv
<1>1. removal' = removal /\ byKey' = byKey /\ made' = made BY DEF RunUnchanged
<1>2. tr \in [Ids -> Transfer] BY <1>0 DEF FileTypes
<1>3. tr'[i] = b /\ \A j \in Ids : j # i => tr'[j] = tr[j] BY <1>2
<1>4. \A j \in Ids : /\ tr'[j].key = tr[j].key /\ (Running(j)' => Running(j))
                     /\ Running(j)' /\ tr[j].state = "CANCELLED" => tr'[j].state = "CANCELLED"
BY <1>3 DEF Becomes, Running
<1>5. \A k \in Keys : removal[k].at # "idle" => removal[k].tr \in Ids BY SMTT(40), <1>0, Numbers DEF FileTypes, KeysKnown
<1>6. \A k \in Keys : byKey[k] # 0 => byKey[k] \in Ids BY <1>0, Numbers DEF FileTypes
<1>7. KeysKnown'
  <2>1. \A j \in Ids, k \in Keys : Mine(j, k)' <=> Mine(j, k) BY <1>4 DEF Mine
  <2>2. \A k \in Keys : removal[k].at # "idle" =>
          Mine(removal[k].tr, k)' /\ (Running(removal[k].tr)' => tr'[removal[k].tr].state = "CANCELLED")
    BY <1>0, <1>1, <1>4, <1>5, <2>1 DEF KeysKnown
  <2>3. \A k \in Keys : byKey[k] # 0 => Mine(byKey[k], k)' BY <1>0, <1>1, <1>6, <2>1 DEF KeysKnown
  <2>4. \A j \in Ids : /\ j > made => tr'[j].key = {} /\ ~Running(j)'
                       /\ j <= made => \E k \in Keys : Mine(j, k)'
    BY <1>0, <1>4, <2>1 DEF KeysKnown
  <2>. QED BY <1>0, <1>1, <2>2, <2>3, <2>4 DEF KeysKnown
<1>8. Moves(i, b) BY <1>0 DEF Moves, RunUnchanged, FileTypes
<1>9. SameOwners BY <1>1 DEF SameOwners, Owner, FilesInv, Ownership
<1>10. removal' \in [Keys -> [at : {"idle", "forget", "drain", "unlink"}, tr : 0 .. MaxTransfers, late : BOOLEAN, clean : BOOLEAN]]
BY <1>0, <1>1 DEF FileTypes
<1>. QED BY <1>7, <1>8, <1>9, <1>10, MovesKeep

\* A goroutine ends, and takes its connections with it.
Closes(i) ==
  \A c \in Conns : \/ conns'[c] = Closed
                   \/ conns'[c] = conns[c] /\ ~(conns[c].at \in {"waiting", "held", "cut"} /\ conns[c].tr = i)
LEMMA EndedFits ==
  ASSUME FilesInv, NEW i \in Ids, NEW s \in {"COMPLETED", "ERRORED", "CANCELLED"},
         s = "COMPLETED" => tr[i].at = "complete"
  PROVE Ended(i, s) \in Transfer /\ Becomes(i, Ended(i, s))
<1>1. tr[i] \in Transfer BY DEF FilesInv, FileTypes
<1>3. Ended(i, s) \in Transfer BY <1>1, Numbers DEF Transfer, Places, Ended
<1>4. /\ Ended(i, s).at = "off" /\ ~Ended(i, s).waits /\ Ended(i, s).fd = 0 /\ Ended(i, s).state = s
      /\ Ended(i, s).key = tr[i].key
BY DEF Ended
<1>5. Fits(Ended(i, s)) BY <1>4 DEF Fits, Streaming, InStream, Negotiating
<1>. QED BY <1>3, <1>4, <1>5 DEF Becomes, InStream

LEMMA EndsHold ==
  ASSUME FilesInv, NEW i \in Ids, NEW s \in {"COMPLETED", "ERRORED", "CANCELLED"},
         s = "COMPLETED" => tr[i].at = "complete",
         tr' = [tr EXCEPT ![i] = Ended(i, s)], DOMAIN conns' = Conns, conns' = [c \in Conns |-> conns'[c]], Closes(i), RunUnchanged, disk' = disk
  PROVE FilesInv'
<1>1. Ended(i, s) \in Transfer /\ Becomes(i, Ended(i, s)) BY EndedFits
<1>2. conns \in [Conns -> Connection] BY DEF FilesInv, FileTypes
<1>3. Closed \in Connection /\ Closed.at = "closed" BY Numbers DEF Closed, Connection
<1>4. conns' \in [Conns -> Connection] BY <1>2, <1>3 DEF Closes
<1>5. ConnsMove(i, Ended(i, s)) BY <1>3, <1>4 DEF ConnsMove, Closes, Suits
<1>. QED BY <1>1, <1>5, MovesHold

(***************************************************************************)
(* The goroutine of a transfer                                             *)
(***************************************************************************)
\* It goes on to another place, with the connections it has.
LEMMA GoesOn ==
  ASSUME FilesInv, NEW i \in Ids, NEW b \in Transfer, Becomes(i, b), tr' = [tr EXCEPT ![i] = b],
         \A r \in Connection : Suits(r, tr[i]) => Suits(r, b),
         conns' = conns, RunUnchanged, disk' = disk
  PROVE FilesInv'
<1>1. conns \in [Conns -> Connection] BY DEF FilesInv, FileTypes
<1>2. \A c \in Conns : conns[c].at \in Attached /\ conns[c].tr = i => Suits(conns[c], b) BY <1>1 DEF FilesInv, ConnsFit
<1>3. ConnsMove(i, b) BY <1>1, <1>2 DEF ConnsMove
<1>. QED BY <1>3, MovesHold

LEMMA QueueSteps ==
  ASSUME FilesInv, NEW i \in Ids, ConnectPeer(i) \/ WaitInQueue(i) \/ AwaitFileConn(i) \/ SendTransferAccept(i)
  PROVE FilesInv'
<1>0. tr \in [Ids -> Transfer] /\ tr[i] \in Transfer /\ conns \in [Conns -> Connection] BY DEF FilesInv, FileTypes
<1>1. Fits(tr[i]) BY DEF FilesInv, StepsFit
<1>2. ASSUME Errored(i) \/ Interrupted(i), tr[i].at \in {"connect", "queued", "accept"}, RunUnchanged, disk' = disk PROVE FilesInv'
  <2>1. PICK s \in {"ERRORED", "CANCELLED"} : Exit(i, s) BY <1>2 DEF Errored, Interrupted
  <2>2. ~tr[i].waits /\ tr[i].at \notin {"took", "start"} \cup Streaming
    BY <1>1, <1>2 DEF Fits, Negotiating, Streaming, InStream
  <2>3. Closes(i)
    <3>1. \A c \in Conns : conns[c].at \in {"waiting", "held", "cut"} /\ conns[c].tr = i => Suits(conns[c], tr[i])
      BY DEF FilesInv, ConnsFit, Attached
    <3>. QED BY <2>1, <2>2, <3>1 DEF Exit, Closes, Suits
  <2>4. tr' = [tr EXCEPT ![i] = Ended(i, s)] /\ conns' = [c \in Conns |-> conns'[c]] BY <2>1 DEF Exit
  <2>. QED BY <1>2, <2>3, <2>4, EndsHold
<1>3. ASSUME NEW b \in Transfer, b.at # tr[i].at, b.at \in {"queued", "accept", "send", "negotiate", "give_up"},
             tr[i].at \in {"connect", "queued", "accept", "send"},
             b.waits = tr[i].waits \/ b.at = "send", b.key = tr[i].key, b.state = tr[i].state, b.fd = tr[i].fd, b.off = tr[i].off,
             tr[i].waits => b.at \in Negotiating,
             tr' = [tr EXCEPT ![i] = b], conns' = conns, RunUnchanged, disk' = disk
      PROVE FilesInv'
  <2>1. Fits(b) BY <1>1, <1>3 DEF Fits, Streaming, InStream, Negotiating
  <2>2. Becomes(i, b) BY <1>3, <2>1 DEF Becomes, Running, InStream
  <2>3. \A r \in Connection : Suits(r, tr[i]) => Suits(r, b) BY <1>1, <1>3 DEF Suits, Fits, Streaming, InStream, Negotiating
  <2>. QED BY <1>3, <2>2, <2>3, GoesOn
<1>4. CASE ConnectPeer(i)
  <2>1. CASE Errored(i) BY <1>2, <1>4, <2>1 DEF ConnectPeer
  <2>2. CASE Goto(i, "queued") /\ conns' = conns
    <3>1. PICK b : b = [tr[i] EXCEPT !.at = "queued"] OBVIOUS
    <3>2. b \in Transfer BY <1>0, <3>1 DEF Transfer, Places
    <3>3. tr' = [tr EXCEPT ![i] = b] BY <1>0, <2>2, <3>1 DEF Goto
    <3>. QED BY <1>0, <1>1, <1>3, <1>4, <2>2, <3>1, <3>2, <3>3 DEF ConnectPeer, Fits, Negotiating, Transfer
  <2>. QED BY <1>4, <2>1, <2>2 DEF ConnectPeer
<1>5. CASE WaitInQueue(i)
  <2>1. CASE Errored(i) \/ Interrupted(i) BY <1>2, <1>5, <2>1 DEF WaitInQueue
  <2>2. CASE tr' = [tr EXCEPT ![i].at = "accept", ![i].req = 0] /\ conns' = conns
    <3>1. PICK b : b = [tr[i] EXCEPT !.at = "accept", !.req = 0] OBVIOUS
    <3>2. b \in Transfer BY <1>0, <3>1 DEF Transfer, Places
    <3>3. tr' = [tr EXCEPT ![i] = b] BY <1>0, <2>2, <3>1
    <3>. QED BY <1>0, <1>1, <1>3, <1>5, <2>2, <3>1, <3>2, <3>3 DEF WaitInQueue, Fits, Negotiating, Transfer
  <2>. QED BY <1>5, <2>1, <2>2 DEF WaitInQueue
<1>6. CASE AwaitFileConn(i)
  <2>1. CASE Errored(i) BY <1>2, <1>6, <2>1 DEF AwaitFileConn
  <2>2. CASE tr' = [tr EXCEPT ![i].at = "send", ![i].waits = TRUE] /\ conns' = conns
    <3>1. PICK b : b = [tr[i] EXCEPT !.at = "send", !.waits = TRUE] OBVIOUS
    <3>2. b \in Transfer BY <1>0, <3>1 DEF Transfer, Places, Negotiating
    <3>3. tr' = [tr EXCEPT ![i] = b] BY <1>0, <2>2, <3>1
    <3>. QED BY <1>0, <1>1, <1>3, <1>6, <2>2, <3>1, <3>2, <3>3 DEF AwaitFileConn, Fits, Negotiating, Transfer
  <2>. QED BY <1>6, <2>1, <2>2 DEF AwaitFileConn
<1>7. CASE SendTransferAccept(i)
  <2>1. PICK b : /\ b = [tr[i] EXCEPT !.at = "negotiate"] \/ b = [tr[i] EXCEPT !.at = "give_up", !.reason = "errored"]
                 /\ tr' = [tr EXCEPT ![i] = b]
    BY <1>0, <1>7 DEF SendTransferAccept, Goto, GivesUp
  <2>2. b \in Transfer BY ZenonT(60), <1>0, <2>1 DEF Transfer, Places, Negotiating
  <2>. QED BY ZenonT(60), <1>0, <1>1, <1>3, <1>7, <2>1, <2>2 DEF SendTransferAccept, GivesUp, Fits, Negotiating, Transfer
<1>. QED BY <1>4, <1>5, <1>6, <1>7

LEMMA NegotiateHolds == ASSUME FilesInv, NEW i \in Ids, Negotiate(i) PROVE FilesInv'
<1>0. tr \in [Ids -> Transfer] /\ tr[i] \in Transfer /\ conns \in [Conns -> Connection] BY DEF FilesInv, FileTypes
<1>1. Fits(tr[i]) /\ tr[i].at = "negotiate" /\ RunUnchanged /\ disk' = disk BY DEF FilesInv, StepsFit, Negotiate
<1>2. CASE \E reason \in {"errored", "interrupted"} : GivesUp(i, reason)
  <2>1. PICK reason \in {"errored", "interrupted"} : GivesUp(i, reason) BY <1>2
  <2>2. PICK b : b = [tr[i] EXCEPT !.at = "give_up", !.reason = reason] OBVIOUS
  <2>3. b \in Transfer BY <1>0, <2>2 DEF Transfer, Places, Negotiating
  <2>4. tr' = [tr EXCEPT ![i] = b] /\ conns' = conns BY <1>0, <2>1, <2>2 DEF GivesUp
  <2>5. b.at = "give_up" /\ b.waits = tr[i].waits /\ b.key = tr[i].key /\ b.state = tr[i].state /\ b.fd = tr[i].fd
    BY <1>0, <2>2 DEF Transfer
  <2>6. Fits(b) BY <1>1, <2>5 DEF Fits, Streaming, InStream, Negotiating
  <2>7. Becomes(i, b) BY <1>1, <2>3, <2>5, <2>6 DEF Becomes, Running, InStream
  <2>8. \A r \in Connection : Suits(r, tr[i]) => Suits(r, b) BY <1>1, <2>5 DEF Suits, Streaming, InStream
  <2>. QED BY <1>1, <2>3, <2>4, <2>7, <2>8, GoesOn
<1>3. CASE \E c \in Conns : /\ conns[c].at = "waiting" /\ conns[c].tr = i
                            /\ conns' = [conns EXCEPT ![c].at = "held"]
                            /\ Goto(i, "took")
  <2>1. PICK c \in Conns : /\ conns[c].at = "waiting" /\ conns[c].tr = i
                           /\ conns' = [conns EXCEPT ![c].at = "held"] /\ Goto(i, "took")
    BY <1>3
  <2>2. PICK b : b = [tr[i] EXCEPT !.at = "took"] OBVIOUS
  <2>3. b \in Transfer BY <1>0, <2>2 DEF Transfer, Places, Negotiating
  <2>4. tr' = [tr EXCEPT ![i] = b] BY <1>0, <2>1, <2>2 DEF Goto
  <2>5. b.at = "took" /\ b.waits = tr[i].waits /\ b.key = tr[i].key /\ b.state = tr[i].state /\ b.fd = tr[i].fd
    BY <1>0, <2>2 DEF Transfer
  <2>6. Fits(b) BY <1>1, <2>5 DEF Fits, Streaming, InStream, Negotiating
  <2>7. Becomes(i, b) BY <1>1, <2>3, <2>5, <2>6 DEF Becomes, Running, InStream
  <2>8. conns' \in [Conns -> Connection] BY <1>0, <2>1 DEF Connection, Attached
  <2>9. conns'[c].at = "held" /\ conns'[c].tr = i /\ \A d \in Conns : d # c => conns'[d] = conns[d]
    BY <1>0, <2>1 DEF Connection
  <2>10. \A d \in Conns : conns[d].at \in Attached /\ conns[d].tr = i => Suits(conns[d], b)
    BY <1>1, <2>5 DEF FilesInv, ConnsFit, Suits, Streaming, InStream
  <2>11. ConnsMove(i, b) BY <2>1, <2>5, <2>8, <2>9, <2>10 DEF ConnsMove
  <2>. QED BY <1>1, <2>3, <2>4, <2>7, <2>11, MovesHold
<1>. QED BY <1>2, <1>3 DEF Negotiate

LEMMA GiveUpHolds == ASSUME FilesInv, NEW i \in Ids, GiveUp(i) PROVE FilesInv'
<1>1. PICK s \in {"ERRORED", "CANCELLED"} : tr' = [tr EXCEPT ![i] = Ended(i, s)] BY DEF GiveUp
<1>2. tr[i].at = "give_up" /\ conns' = Leftover(i) /\ RunUnchanged /\ disk' = disk BY DEF GiveUp
<1>3. \A c \in Conns : conns[c].at \in {"waiting", "held", "cut"} /\ conns[c].tr = i => Suits(conns[c], tr[i])
BY DEF FilesInv, ConnsFit, Attached
<1>4. Closes(i) BY <1>2, <1>3 DEF Closes, Leftover, Suits, Streaming, InStream
<1>5. DOMAIN conns' = Conns /\ conns' = [c \in Conns |-> conns'[c]] BY <1>2 DEF Leftover
<1>. QED BY <1>1, <1>2, <1>4, <1>5, EndsHold

LEMMA StopAwaitingHolds == ASSUME FilesInv, NEW i \in Ids, StopAwaiting(i) PROVE FilesInv'
<1>0. tr \in [Ids -> Transfer] /\ tr[i] \in Transfer /\ conns \in [Conns -> Connection] BY DEF FilesInv, FileTypes
<1>1. Fits(tr[i]) /\ tr[i].at = "took" /\ RunUnchanged /\ disk' = disk BY DEF FilesInv, StepsFit, StopAwaiting
<1>2. PICK b : b = [tr[i] EXCEPT !.at = "start", !.waits = FALSE, !.req = 0] OBVIOUS
<1>3. b \in Transfer BY <1>0, <1>2 DEF Transfer, Places
<1>4. tr' = [tr EXCEPT ![i] = b] BY <1>0, <1>2 DEF StopAwaiting
<1>5. b.at = "start" /\ ~b.waits /\ b.key = tr[i].key /\ b.state = tr[i].state /\ b.fd = tr[i].fd BY <1>0, <1>2 DEF Transfer
<1>6. Fits(b) BY <1>1, <1>5 DEF Fits, Streaming, InStream, Negotiating
<1>7. Becomes(i, b) BY <1>1, <1>3, <1>5, <1>6 DEF Becomes, Running, InStream
<1>8. \A c \in Conns : conns'[c] = IF conns[c].at = "waiting" /\ conns[c].tr = i THEN Closed ELSE conns[c] BY DEF StopAwaiting
<1>9. Closed \in Connection /\ Closed.at = "closed" BY Numbers DEF Closed, Connection
<1>10. conns' \in [Conns -> Connection] BY <1>0, <1>9 DEF StopAwaiting
<1>11. \A c \in Conns : conns[c].at \in Attached /\ conns[c].at # "waiting" /\ conns[c].tr = i => Suits(conns[c], b)
BY <1>1, <1>5 DEF FilesInv, ConnsFit, Suits, Streaming, InStream
<1>12. ConnsMove(i, b) BY <1>8, <1>9, <1>10, <1>11 DEF ConnsMove
<1>. QED BY <1>1, <1>3, <1>4, <1>7, <1>12, MovesHold

LEMMA StartStreamHolds == ASSUME FilesInv, NEW i \in Ids, StartStream(i) PROVE FilesInv'
<1>0. tr \in [Ids -> Transfer] /\ tr[i] \in Transfer /\ conns \in [Conns -> Connection] BY DEF FilesInv, FileTypes
<1>1. Fits(tr[i]) /\ tr[i].at = "start" /\ RunUnchanged /\ disk' = disk BY DEF FilesInv, StepsFit, StartStream
<1>2. CASE tr[i].state = "CANCELLED"
  <2>1. Exit(i, "CANCELLED") BY <1>2 DEF StartStream
  <2>2. tr' = [tr EXCEPT ![i] = Ended(i, "CANCELLED")] /\ DOMAIN conns' = Conns /\ conns' = [c \in Conns |-> conns'[c]]
    BY <2>1 DEF Exit
  <2>3. \A c \in Conns : conns[c].at \in {"waiting", "held", "cut"} /\ conns[c].tr = i => Suits(conns[c], tr[i])
    BY DEF FilesInv, ConnsFit, Attached
  <2>4. Closes(i) BY <1>1, <2>1, <2>3 DEF Closes, Exit, Suits, Fits, Streaming, InStream, Negotiating
  <2>. QED BY <1>1, <2>2, <2>4, EndsHold
<1>3. CASE tr[i].state # "CANCELLED"
  <2>1. tr' = [tr EXCEPT ![i].at = "stat", ![i].state = "IN_PROGRESS"] /\ conns' = conns BY <1>3 DEF StartStream
  <2>2. PICK b : b = [tr[i] EXCEPT !.at = "stat", !.state = "IN_PROGRESS"] OBVIOUS
  <2>3. b \in Transfer BY <1>0, <2>2 DEF Transfer, Places, Streaming, InStream
  <2>4. tr' = [tr EXCEPT ![i] = b] BY <1>0, <2>1, <2>2
  <2>5. b.at = "stat" /\ b.waits = tr[i].waits /\ b.key = tr[i].key /\ b.state = "IN_PROGRESS" /\ b.fd = tr[i].fd
    BY <1>0, <2>2 DEF Transfer
  <2>6. Fits(b) BY <1>1, <2>5 DEF Fits, Streaming, InStream, Negotiating
  <2>7. Becomes(i, b) BY <1>1, <1>3, <2>3, <2>5, <2>6 DEF Becomes, Running, InStream
  <2>8. \A r \in Connection : Suits(r, tr[i]) => Suits(r, b) BY <1>1, <2>5 DEF Suits, Fits, Streaming, InStream, Negotiating
  <2>. QED BY <1>1, <2>1, <2>3, <2>4, <2>7, <2>8, GoesOn
<1>. QED BY <1>2, <1>3

(***************************************************************************)
(* The stream                                                              *)
(***************************************************************************)
LEMMA FailsHolds == ASSUME FilesInv, NEW i \in Ids, tr[i].at \in InStream, Fails(i), RunUnchanged, disk' = disk PROVE FilesInv'
<1>1. PICK s \in {"ERRORED", "CANCELLED"} : tr' = [tr EXCEPT ![i] = Ended(i, s)] BY DEF Fails
<1>2. conns' = Release(i) BY DEF Fails
<1>3. \A c \in Conns : conns[c].at \in {"waiting", "held", "cut"} /\ conns[c].tr = i => Suits(conns[c], tr[i])
BY DEF FilesInv, ConnsFit, Attached
<1>4. Fits(tr[i]) BY DEF FilesInv, StepsFit
<1>5. Closes(i) BY <1>2, <1>3, <1>4 DEF Closes, Release, Suits, Fits, Negotiating, InStream
<1>6. DOMAIN conns' = Conns /\ conns' = [c \in Conns |-> conns'[c]] BY <1>2 DEF Release
<1>. QED BY <1>1, <1>5, <1>6, EndsHold

LEMMA CompleteHolds == ASSUME FilesInv, NEW i \in Ids, Complete(i) PROVE FilesInv'
<1>0. tr[i].at = "complete" /\ RunUnchanged /\ disk' = disk BY DEF Complete
<1>1. PICK s \in {"COMPLETED", "CANCELLED"} : tr' = [tr EXCEPT ![i] = Ended(i, s)] BY DEF Complete
<1>2. conns' = Release(i) BY DEF Complete
<1>3. \A c \in Conns : conns[c].at \in {"waiting", "held", "cut"} /\ conns[c].tr = i => Suits(conns[c], tr[i])
BY DEF FilesInv, ConnsFit, Attached
<1>4. Fits(tr[i]) BY DEF FilesInv, StepsFit
<1>5. Closes(i) BY <1>0, <1>2, <1>3, <1>4 DEF Closes, Release, Suits, Fits, Negotiating
<1>6. DOMAIN conns' = Conns /\ conns' = [c \in Conns |-> conns'[c]] BY <1>2 DEF Release
<1>. QED BY <1>0, <1>1, <1>5, <1>6, EndsHold

LEMMA ReadHolds == ASSUME FilesInv, NEW i \in Ids, ReadBlock(i) PROVE FilesInv'
<1>0. tr \in [Ids -> Transfer] /\ tr[i] \in Transfer BY DEF FilesInv, FileTypes
<1>1. Fits(tr[i]) /\ tr[i].at = "read" /\ tr[i].off < Size /\ RunUnchanged /\ disk' = disk BY DEF FilesInv, StepsFit, ReadBlock
<1>2. CASE Fails(i) BY <1>1, <1>2, FailsHolds DEF InStream
<1>3. CASE tr' = [tr EXCEPT ![i].at = "write", ![i].off = tr[i].off + 1] /\ conns' = conns
  <2>1. PICK n \in 0 .. Size : n = tr[i].off + 1
    <3>1. tr[i].off \in 0 .. Size BY <1>0 DEF Transfer
    <3>. QED BY <1>1, <3>1, Numbers
  <2>2. PICK b : b = [tr[i] EXCEPT !.at = "write", !.off = n] OBVIOUS
  <2>3. b \in Transfer BY <1>0, <2>2 DEF Transfer, Places, Streaming, InStream
  <2>4. tr' = [tr EXCEPT ![i] = b] BY <1>0, <1>3, <2>1, <2>2
  <2>5. /\ b.at = "write" /\ b.waits = tr[i].waits /\ b.key = tr[i].key /\ b.state = tr[i].state /\ b.fd = tr[i].fd
        /\ b.off = tr[i].off + 1
    BY <1>0, <2>1, <2>2 DEF Transfer
  <2>6. Fits(b) BY <1>1, <2>5 DEF Fits, Streaming, InStream, Negotiating
  <2>7. Becomes(i, b) BY <1>1, <2>3, <2>5, <2>6 DEF Becomes, Running, InStream
  <2>8. \A r \in Connection : Suits(r, tr[i]) => Suits(r, b) BY <1>1, <2>5 DEF Suits, Streaming, InStream
  <2>. QED BY <1>1, <1>3, <2>3, <2>4, <2>7, <2>8, GoesOn
<1>. QED BY <1>2, <1>3 DEF ReadBlock

\* Inodes are no longer than the file, so nothing is ever discarded.
LEMMA SizeIs == ASSUME FilesInv, NEW k \in Keys PROVE PartSize(k) \in 0 .. Size
<1>1. disk.part[k] # 0 => disk.part[k] \in Ids /\ Len(disk.data[disk.part[k]]) <= Size BY DEF FilesInv, Inodes, Refers
<1>2. disk.part[k] # 0 => Len(disk.data[disk.part[k]]) \in Nat BY <1>1, LenProperties DEF FilesInv, FileTypes
<1>. QED BY <1>1, <1>2, Numbers DEF PartSize

\* One transfer becomes b and a goroutine has written: what holds whatever it did to the files.
Writes(i, b) ==
  /\ tr' = [tr EXCEPT ![i] = b] /\ b \in Transfer /\ Fits(b) /\ tr[i].at \in InStream /\ b.at \in Streaming
  /\ b.key = tr[i].key /\ b.state = tr[i].state /\ b.waits = tr[i].waits
  /\ RunUnchanged /\ conns' = conns

LEMMA WritesKeep ==
  ASSUME FilesInv, NEW i \in Ids, NEW b, Writes(i, b),
         disk' \in [part : [Keys -> 0 .. MaxTransfers], data : [Ids -> Seq(Nat)], whole : [Keys -> 0 .. MaxTransfers]],
         \A k \in Keys : removal[k].clean => disk'.part[k] = disk.part[k],
         Inodes', Writers', Parts'
  PROVE FilesInv'
<1>0. FileTypes /\ KeysKnown /\ StepsFit /\ ConnsFit /\ Ownership BY DEF FilesInv
<1>1. tr \in [Ids -> Transfer] /\ conns \in [Conns -> Connection] /\ made \in 0 .. MaxTransfers BY <1>0 DEF FileTypes
<1>2. tr'[i] = b /\ \A j \in Ids : j # i => tr'[j] = tr[j] BY <1>1 DEF Writes
<1>3. /\ removal' = removal /\ byKey' = byKey /\ made' = made /\ conns' = conns /\ byToken' = byToken
      /\ life' = life /\ scope' = scope /\ hook' = hook /\ offered' = offered
BY DEF Writes, RunUnchanged
<1>4. \A j \in Ids : /\ tr'[j].key = tr[j].key /\ tr'[j].state = tr[j].state /\ tr'[j].waits = tr[j].waits
                     /\ (Running(j)' <=> Running(j)) /\ (tr'[j].at \in Streaming <=> tr[j].at \in Streaming)
                     /\ (tr'[j].at \in InStream => tr[j].at \in InStream)
                     /\ (tr'[j].at \in {"took", "start"} <=> tr[j].at \in {"took", "start"})
BY <1>2 DEF Writes, Running, Streaming, InStream
<1>5. FileTypes'
  <2>1. tr' \in [Ids -> Transfer] BY <1>1 DEF Writes
  <2>. QED BY <1>0, <1>3, <2>1 DEF FileTypes
<1>6. KeysKnown'
  <2>1. \A k \in Keys : removal[k].at # "idle" => removal[k].tr \in Ids BY SMTT(40), <1>0, Numbers DEF FileTypes, KeysKnown
  <2>2. \A k \in Keys : byKey[k] # 0 => byKey[k] \in Ids BY <1>0, Numbers DEF FileTypes
  <2>3. \A j \in Ids, k \in Keys : Mine(j, k)' <=> Mine(j, k) BY <1>4 DEF Mine
  <2>4. \A k \in Keys : removal[k].at # "idle" =>
          Mine(removal[k].tr, k)' /\ (Running(removal[k].tr)' => tr'[removal[k].tr].state = "CANCELLED")
    BY ZenonT(60), <1>0, <1>3, <1>4, <2>1, <2>3 DEF KeysKnown
  <2>5. \A k \in Keys : byKey[k] # 0 => Mine(byKey[k], k)' BY <1>0, <1>3, <2>2, <2>3 DEF KeysKnown
  <2>6. \A j \in Ids : /\ j > made => tr'[j].key = {} /\ ~Running(j)'
                       /\ j <= made => \E k \in Keys : Mine(j, k)'
    BY ZenonT(60), <1>0, <1>4, <2>3 DEF KeysKnown
  <2>. QED BY <1>0, <1>3, <2>4, <2>5, <2>6 DEF KeysKnown
<1>7. StepsFit' BY <1>0, <1>2 DEF StepsFit, Writes
<1>8. ConnsFit'
  <2>1. 1 .. made \subseteq Ids BY <1>1, Numbers
  <2>2. \A c \in Conns : conns[c].at \in Attached => conns[c].tr \in 1 .. made /\ Suits(conns[c], tr'[conns[c].tr])
    BY <1>0, <1>4, <2>1 DEF ConnsFit, Suits
  <2>. QED BY <1>0, <1>3, <2>2 DEF ConnsFit
<1>9. Ownership'
  <2>1. ASSUME NEW k \in Keys, NEW j \in Ids, Mine(j, k)', Running(j)', Beyond(j, k)' PROVE removal'[k].late /\ Cut(j)'
    <3>1. Mine(j, k) /\ Running(j) /\ Beyond(j, k) BY <1>3, <1>4, <2>1 DEF Mine, Beyond, Owner
    <3>2. removal[k].late /\ Cut(j) BY <1>0, <3>1 DEF Ownership
    <3>. QED BY <1>3, <1>4, <3>2 DEF Cut, Source
  <2>. QED BY <1>0, <1>3, <2>1 DEF Ownership
<1>. QED BY <1>5, <1>6, <1>7, <1>8, <1>9 DEF FilesInv

\* Whom a step of a stream concerns.
LEMMA StreamIs ==
  ASSUME FilesInv, NEW i \in Ids, Running(i)
  PROVE /\ i <= made /\ KeyOf(i) \in Keys /\ Mine(i, KeyOf(i)) /\ tr[i] \in Transfer /\ Fits(tr[i])
        /\ tr \in [Ids -> Transfer] /\ i # 0
<1>1. tr[i] \in Transfer /\ tr \in [Ids -> Transfer] /\ made \in 0 .. MaxTransfers BY DEF FilesInv, FileTypes
<1>2. i <= made BY <1>1, Numbers DEF FilesInv, KeysKnown
<1>3. PICK k \in Keys : Mine(i, k) BY <1>2 DEF FilesInv, KeysKnown
<1>. QED BY <1>1, <1>2, <1>3, KeyIs, Numbers DEF FilesInv, StepsFit

LEMMA PutHolds ==
  ASSUME FilesInv, NEW i \in Ids, NEW k \in Keys, Mine(i, k), tr[i].at \in {"stat", "sync"}, disk.part[k] # 0,
         tr[i].at = "stat" => PartSize(k) = Size,
         Goto(i, "complete"), disk' = Put(k), conns' = conns, RunUnchanged
  PROVE FilesInv'
<1>0. FileTypes /\ KeysKnown /\ Inodes /\ Writers /\ Parts BY DEF FilesInv
<1>1. Running(i) BY DEF Running
<1>2. tr[i] \in Transfer /\ Fits(tr[i]) /\ tr \in [Ids -> Transfer] BY <1>1, StreamIs
<1>3. PICK b : b = [tr[i] EXCEPT !.at = "complete"] OBVIOUS
<1>4. b \in Transfer /\ tr' = [tr EXCEPT ![i] = b] BY <1>2, <1>3 DEF Transfer, Places, Streaming, Goto
<1>5. /\ b.at = "complete" /\ b.key = tr[i].key /\ b.state = tr[i].state /\ b.waits = tr[i].waits /\ b.fd = tr[i].fd
BY <1>2, <1>3 DEF Transfer
<1>6. Fits(b) BY <1>2, <1>5 DEF Fits, Streaming, InStream, Negotiating
<1>7. Writes(i, b) BY <1>4, <1>5, <1>6 DEF Writes, Streaming, InStream
<1>8. tr'[i] = b /\ \A j \in Ids : j # i => tr'[j] = tr[j] BY <1>2, <1>4
<1>9. disk.part \in [Keys -> 0 .. MaxTransfers] /\ disk.whole \in [Keys -> 0 .. MaxTransfers] /\ disk.data \in [Ids -> Seq(Nat)]
BY <1>0 DEF FileTypes
<1>10. /\ disk' \in [part : [Keys -> 0 .. MaxTransfers], data : [Ids -> Seq(Nat)], whole : [Keys -> 0 .. MaxTransfers]]
       /\ disk'.part[k] = 0 /\ disk'.whole[k] = disk.part[k] /\ disk'.data = disk.data
       /\ \A l \in Keys : l # k => disk'.part[l] = disk.part[l] /\ disk'.whole[l] = disk.whole[l]
  <2>1. disk \in [part : [Keys -> 0 .. MaxTransfers], data : [Ids -> Seq(Nat)], whole : [Keys -> 0 .. MaxTransfers]]
    BY <1>0 DEF FileTypes
  <2>2. /\ disk'.part = [disk.part EXCEPT ![k] = 0] /\ disk'.whole = [disk.whole EXCEPT ![k] = disk.part[k]]
        /\ disk'.data = disk.data
    BY <2>1 DEF Put
  <2>3. disk' = [part |-> disk'.part, data |-> disk'.data, whole |-> disk'.whole] BY <2>1 DEF Put
  <2>4. /\ disk'.part \in [Keys -> 0 .. MaxTransfers] /\ disk'.part[k] = 0
        /\ \A l \in Keys : l # k => disk'.part[l] = disk.part[l]
    BY <1>9, <2>2, Numbers
  <2>5. /\ disk'.whole \in [Keys -> 0 .. MaxTransfers] /\ disk'.whole[k] = disk.part[k]
        /\ \A l \in Keys : l # k => disk'.whole[l] = disk.whole[l]
    BY <1>9, <2>2, Numbers
  <2>6. disk' \in [part : [Keys -> 0 .. MaxTransfers], data : [Ids -> Seq(Nat)], whole : [Keys -> 0 .. MaxTransfers]]
    BY <1>9, <2>2, <2>3, <2>4, <2>5
  <2>. QED BY <2>2, <2>4, <2>5, <2>6
<1>11. \A j \in Ids : tr'[j].key = tr[j].key /\ tr'[j].fd = tr[j].fd /\ (Running(j)' <=> Running(j))
BY <1>1, <1>5, <1>8 DEF Running
<1>12. removal' = removal /\ byKey' = byKey /\ made' = made BY DEF RunUnchanged
<1>13. \A j \in Ids, l \in Keys : (Mine(j, l)' <=> Mine(j, l)) /\ (Beyond(j, l)' <=> Beyond(j, l)) /\ Owner(l)' = Owner(l)
BY <1>11, <1>12 DEF Mine, Beyond, Owner
<1>14. \A l \in Keys : Owner(l) # 0 => Owner(l) \in Ids /\ Mine(Owner(l), l) BY OwnerIs
<1>15. Inodes'
  <2>1. ASSUME NEW l \in Keys
        PROVE /\ disk'.part[l] # 0 => disk'.part[l] \in Ids /\ tr'[disk'.part[l]].key = {l}
              /\ disk'.whole[l] # 0 => disk'.whole[l] \in Ids /\ tr'[disk'.whole[l]].key = {l}
    <3>1. /\ disk.part[l] # 0 => disk.part[l] \in Ids /\ tr[disk.part[l]].key = {l}
          /\ disk.whole[l] # 0 => disk.whole[l] \in Ids /\ tr[disk.whole[l]].key = {l}
      BY <1>0 DEF Inodes, Refers
    <3>2. CASE l = k BY <1>10, <1>11, <3>1, <3>2
    <3>3. CASE l # k BY ZenonT(60), <1>10, <1>11, <3>1, <3>3
    <3>. QED BY <3>2, <3>3
  <2>2. \A j \in Ids : tr'[j].fd # 0 => tr'[j].fd \in Ids /\ tr'[tr'[j].fd].key = tr'[j].key
    BY <1>0, <1>11 DEF Inodes, Refers
  <2>3. \A x \in Ids : Fresh(x)' => Fresh(x) BY <1>11, <1>12 DEF Fresh
  <2>4. \A x \in Ids : Unused(x) => Unused(x)'
    <3>1. \A x \in Ids : x # 0 BY Numbers
    <3>. QED BY ZenonT(60), <1>10, <1>11, <3>1 DEF Unused
  <2>5. \A x \in Ids : Fresh(x)' => Unused(x)' BY <1>0, <2>3, <2>4 DEF Inodes
  <2>6. \A j, l \in Ids : tr'[j].fd = tr'[l].fd /\ tr'[j].fd # 0 => j = l BY <1>0, <1>11 DEF Inodes
  <2>7. \A x \in Ids : Len(disk'.data[x]) <= Size BY <1>0, <1>10 DEF Inodes
  <2>. QED BY <2>1, <2>2, <2>5, <2>6, <2>7 DEF Inodes, Refers
<1>16. Writers'
  <2>1. \A j \in Ids : InPlace(tr'[j], disk'.data) BY ZenonT(60), <1>0, <1>5, <1>8, <1>10 DEF Writers, InPlace
  <2>2. ASSUME NEW l \in Keys, NEW j \in Ids, Mine(j, l)', tr'[j].at = "open", ~Beyond(j, l)' PROVE tr'[j].off = PartSize(l)'
    <3>1. j # i /\ Mine(j, l) /\ ~Beyond(j, l) /\ tr[j].at = "open" /\ j = Owner(l) BY <1>5, <1>8, <1>13, <2>2 DEF Beyond
    <3>2. l # k
      <4>1. SUFFICES ASSUME l = k PROVE FALSE OBVIOUS
      <4>2. tr[j].fd = 0 /\ Running(j) BY <1>0, <3>1 DEF FilesInv, StepsFit, Fits, Running
      <4>3. ~Running(j) \/ tr[j].fd = disk.part[k] BY <1>0, <1>1, <3>1, <4>1 DEF Parts
      <4>. QED BY <4>2, <4>3
    <3>3. PartSize(l)' = PartSize(l) BY <1>10, <3>2 DEF PartSize
    <3>4. tr[j].off = PartSize(l) BY <1>0, <3>1 DEF Writers
    <3>. QED BY <1>8, <3>1, <3>3, <3>4
  <2>. QED BY <2>1, <2>2 DEF Writers
<1>17. Parts'
  <2>1. ASSUME NEW l \in Keys, NEW j \in Ids, disk'.part[l] # 0, tr'[j].fd = disk'.part[l] PROVE j = Owner(l)
    <3>1. disk'.part[l] = disk.part[l] /\ tr'[j].fd = tr[j].fd BY <1>10, <1>11, <2>1
    <3>. QED BY <1>0, <2>1, <3>1 DEF Parts
  <2>2. \A l \in Keys : \A j \in Ids : disk'.part[l] # 0 /\ Mine(j, l) /\ Running(j) /\ j # Owner(l) =>
          Owner(l) # 0 /\ (~Running(Owner(l)) \/ tr[Owner(l)].fd = disk'.part[l])
    BY <1>0, <1>10 DEF Parts
  <2>3. \A l \in Keys : \A j \in Ids : disk'.part[l] # 0 /\ Mine(j, l) /\ Running(j) /\ j # Owner(l) =>
          Owner(l) # 0 /\ (~Running(Owner(l))' \/ tr'[Owner(l)].fd = disk'.part[l])
    BY <1>11, <1>13, <1>14, <2>2
  <2>4. \A l \in Keys : Owner(l) # 0 /\ tr'[Owner(l)].fd # 0 => disk'.part[l] \in {0, tr'[Owner(l)].fd}
    BY <1>0, <1>10, <1>11, <1>14 DEF Parts
  <2>5. ASSUME NEW l \in Keys, byKey[l] # 0, tr'[byKey[l]].state = "COMPLETED" \/ tr'[byKey[l]].at = "complete"
        PROVE disk'.part[l] = 0 /\ disk'.whole[l] # 0 /\ Len(disk'.data[disk'.whole[l]]) = Size
    <3>1. Owner(l) = byKey[l] /\ byKey[l] \in Ids /\ Mine(byKey[l], l) BY <2>5, <1>14, OwnerIs
    <3>2. CASE byKey[l] = i
      <4>1. l = k BY <3>1, <3>2 DEF Mine
      <4>2. CASE tr[i].at = "stat" BY <1>10, <4>1, <4>2 DEF PartSize
      <4>3. CASE tr[i].at = "sync"
        <5>1. tr[i].fd # 0 /\ tr[i].off = Size BY <1>2, <4>3 DEF Fits
        <5>2. Owner(k) = i /\ i # 0 BY <1>1, <3>1, <3>2, <4>1, StreamIs
        <5>4. disk.part[k] = tr[i].fd BY <1>0, <5>1, <5>2 DEF Parts
        <5>3. tr[i].off = Len(disk.data[tr[i].fd]) BY <1>0, <4>3 DEF Writers, InPlace
        <5>. QED BY <1>10, <4>1, <5>1, <5>3, <5>4
      <4>. QED BY <4>2, <4>3
    <3>3. CASE byKey[l] # i
      <4>1. tr'[byKey[l]] = tr[byKey[l]] BY <1>8, <3>1, <3>3
      <4>2. disk.part[l] = 0 /\ disk.whole[l] # 0 /\ Len(disk.data[disk.whole[l]]) = Size BY <1>0, <2>5, <4>1 DEF Parts
      <4>. QED BY <1>10, <4>2
    <3>. QED BY <3>2, <3>3
  <2>. QED BY <1>12, <1>13, <2>1, <2>3, <2>4, <2>5, <1>11 DEF Parts
<1>18. \A l \in Keys : removal[l].clean => disk'.part[l] = disk.part[l] BY <1>10 DEF FilesInv, Ownership
<1>. QED BY <1>7, <1>10, <1>15, <1>16, <1>17, <1>18, WritesKeep

LEMMA ResumeHolds == ASSUME FilesInv, NEW i \in Ids, ResumeOffset(i) PROVE FilesInv'
<1>0. tr[i].at = "stat" /\ RunUnchanged /\ Running(i) BY DEF ResumeOffset, Running
<1>1. PICK k \in Keys : k = KeyOf(i) /\ Mine(i, k) BY <1>0, StreamIs
<1>2. tr \in [Ids -> Transfer] /\ tr[i] \in Transfer /\ Fits(tr[i]) BY <1>0, StreamIs
<1>3. PartSize(k) \in 0 .. Size BY SizeIs
<1>4. CASE Fails(i) /\ disk' = disk BY <1>0, <1>4, FailsHolds DEF InStream
<1>5. CASE IsFull(k) /\ Goto(i, "complete") /\ disk' = Put(k) /\ conns' = conns BY <1>0, <1>1, <1>5, PutHolds DEF IsFull
<1>6. CASE /\ tr' = [tr EXCEPT ![i].at = "open", ![i].off = IF PartSize(k) > Size THEN 0 ELSE PartSize(k)]
           /\ disk' = IF PartSize(k) > Size THEN [disk EXCEPT !.part[k] = 0] ELSE disk
           /\ conns' = conns
  <2>1. ~(PartSize(k) > Size) BY <1>3, Numbers
  <2>2. PICK n \in 0 .. Size : n = PartSize(k) BY <1>3
  <2>3. PICK b : b = [tr[i] EXCEPT !.at = "open", !.off = n] OBVIOUS
  <2>4. b \in Transfer BY <1>2, <2>3 DEF Transfer, Places, Streaming, InStream
  <2>5. tr' = [tr EXCEPT ![i] = b] /\ disk' = disk BY <1>2, <1>6, <2>1, <2>2, <2>3
  <2>6. /\ b.at = "open" /\ b.waits = tr[i].waits /\ b.key = tr[i].key /\ b.state = tr[i].state /\ b.fd = tr[i].fd
        /\ b.off = PartSize(k)
    BY <1>2, <2>2, <2>3 DEF Transfer
  <2>7. Fits(b) BY <1>0, <1>2, <2>6 DEF Fits, Streaming, InStream, Negotiating
  <2>8. \A l \in Keys : Mine(i, l) => l = k BY <1>1 DEF Mine
  <2>9. Becomes(i, b) BY <1>0, <2>4, <2>6, <2>7, <2>8 DEF Becomes, Running, InStream
  <2>10. \A r \in Connection : Suits(r, tr[i]) => Suits(r, b) BY <1>0, <2>6 DEF Suits, Streaming, InStream
  <2>. QED BY <1>0, <1>6, <2>4, <2>5, <2>9, <2>10, GoesOn
<1>7. \E l \in {k} :
        \/ /\ tr' = [tr EXCEPT ![i].at = "open", ![i].off = IF PartSize(l) > Size THEN 0 ELSE PartSize(l)]
           /\ disk' = IF PartSize(l) > Size THEN [disk EXCEPT !.part[l] = 0] ELSE disk
           /\ conns' = conns
        \/ IsFull(l) /\ Goto(i, "complete") /\ disk' = Put(l) /\ conns' = conns
        \/ Fails(i) /\ disk' = disk
BY <1>1 DEF ResumeOffset
<1>. QED BY <1>4, <1>5, <1>6, <1>7

LEMMA RenameHolds == ASSUME FilesInv, NEW i \in Ids, RenamePart(i) PROVE FilesInv'
<1>0. tr[i].at = "sync" /\ RunUnchanged /\ Running(i) BY DEF RenamePart, Running
<1>1. PICK k \in Keys : k = KeyOf(i) /\ Mine(i, k) BY <1>0, StreamIs
<1>2. CASE Fails(i) /\ disk' = disk BY <1>0, <1>2, FailsHolds DEF InStream
<1>3. CASE disk.part[k] # 0 /\ disk' = Put(k) /\ Goto(i, "complete") /\ conns' = conns BY <1>0, <1>1, <1>3, PutHolds
<1>. QED BY <1>1, <1>2, <1>3 DEF RenamePart

LEMMA OpenHolds == ASSUME FilesInv, NEW i \in Ids, OpenPart(i) PROVE FilesInv'
<1>0. tr[i].at = "open" /\ RunUnchanged /\ Running(i) BY DEF OpenPart, Running
<1>1. PICK k \in Keys : k = KeyOf(i) /\ Mine(i, k) BY <1>0, StreamIs
<1>2. tr \in [Ids -> Transfer] /\ tr[i] \in Transfer /\ Fits(tr[i]) /\ i # 0 /\ i <= made BY <1>0, StreamIs
<1>3. FileTypes /\ KeysKnown /\ Ownership /\ Inodes /\ Writers /\ Parts BY DEF FilesInv
<1>4. CASE Fails(i) /\ disk' = disk BY <1>0, <1>4, FailsHolds DEF InStream
<1>5. CASE /\ Source(i) # {}
           /\ tr' = [tr EXCEPT ![i].at = IF tr[i].off = Size THEN "sync" ELSE "read",
                               ![i].fd = IF disk.part[k] = 0 THEN i ELSE disk.part[k]]
           /\ disk' = [disk EXCEPT !.part[k] = IF @ = 0 THEN i ELSE @]
           /\ conns' = conns
  <2>1. i = Owner(k) /\ ~Beyond(i, k) BY <1>0, <1>1, <1>5, SourcedOwns DEF InStream
  <2>2. tr[i].off = PartSize(k) /\ tr[i].fd = 0 BY <1>0, <1>1, <1>2, <1>3, <2>1 DEF Writers, Fits
  <2>3. disk.part[k] # 0 => disk.part[k] \in Ids /\ tr[disk.part[k]].key = {k} BY <1>3 DEF Inodes, Refers
  <2>4. PICK y \in Ids : y = IF disk.part[k] = 0 THEN i ELSE disk.part[k] BY <2>3
  <2>5. y # 0 /\ y \in 0 .. MaxTransfers /\ tr[y].key = {k} BY <1>1, <2>3, <2>4, Numbers DEF Mine
  <2>6. PICK b : b = [tr[i] EXCEPT !.at = IF tr[i].off = Size THEN "sync" ELSE "read", !.fd = y] OBVIOUS
  <2>7. b \in Transfer BY <1>2, <2>5, <2>6 DEF Transfer, Places, Streaming, InStream
  <2>8. tr' = [tr EXCEPT ![i] = b] BY <1>2, <1>5, <2>4, <2>6
  <2>9. /\ b.at \in {"read", "sync"} /\ b.waits = tr[i].waits /\ b.key = tr[i].key /\ b.state = tr[i].state /\ b.fd = y
        /\ b.off = tr[i].off /\ (b.at = "sync" => b.off = Size)
    BY <1>2, <2>6 DEF Transfer
  <2>10. Fits(b) BY <1>0, <1>2, <2>5, <2>9 DEF Fits, Streaming, InStream, Negotiating
  <2>11. Writes(i, b) BY <1>0, <1>5, <2>7, <2>8, <2>9, <2>10 DEF Writes, Streaming, InStream
  <2>12. tr'[i] = b /\ \A j \in Ids : j # i => tr'[j] = tr[j] BY <1>2, <2>8
  <2>13. removal' = removal /\ byKey' = byKey /\ made' = made BY <1>0 DEF RunUnchanged
  <2>14. \A j \in Ids : tr'[j].key = tr[j].key /\ tr'[j].state = tr[j].state /\ (Running(j)' <=> Running(j))
    BY <1>0, <2>9, <2>12 DEF Running
  <2>15. \A j \in Ids, l \in Keys : (Mine(j, l)' <=> Mine(j, l)) /\ (Beyond(j, l)' <=> Beyond(j, l)) /\ Owner(l)' = Owner(l)
    BY <2>13, <2>14 DEF Mine, Beyond, Owner
  <2>16. \A l \in Keys : Owner(l) # 0 => Owner(l) \in Ids /\ Mine(Owner(l), l) BY OwnerIs
  <2>17. /\ disk' \in [part : [Keys -> 0 .. MaxTransfers], data : [Ids -> Seq(Nat)], whole : [Keys -> 0 .. MaxTransfers]]
         /\ disk'.part[k] = y /\ disk'.whole = disk.whole /\ disk'.data = disk.data
         /\ \A l \in Keys : l # k => disk'.part[l] = disk.part[l]
    <3>1. disk \in [part : [Keys -> 0 .. MaxTransfers], data : [Ids -> Seq(Nat)], whole : [Keys -> 0 .. MaxTransfers]]
      BY <1>3 DEF FileTypes
    <3>2. disk'.part = [disk.part EXCEPT ![k] = y] /\ disk'.whole = disk.whole /\ disk'.data = disk.data BY <1>5, <2>4, <3>1
    <3>3. disk' = [part |-> disk'.part, data |-> disk'.data, whole |-> disk'.whole] BY <1>5, <3>1
    <3>4. /\ disk'.part \in [Keys -> 0 .. MaxTransfers] /\ disk'.part[k] = y
          /\ \A l \in Keys : l # k => disk'.part[l] = disk.part[l]
      BY <2>5, <3>1, <3>2
    <3>. QED BY <3>1, <3>2, <3>3, <3>4
  \* Nobody else has y open.
  <2>18. \A j \in Ids : tr[j].fd # y
    <3>1. CASE disk.part[k] = 0
      <4>1. y = i /\ Fresh(i) BY <1>0, <2>2, <2>4, <2>5, <3>1 DEF Fresh
      <4>. QED BY <1>3, <4>1 DEF Inodes, Unused
    <3>2. CASE disk.part[k] # 0 BY <1>3, <2>1, <2>2, <2>4, <2>5, <3>2 DEF Parts
    <3>. QED BY <3>1, <3>2
  <2>19. \A j \in Ids : tr'[j].fd = IF j = i THEN y ELSE tr[j].fd BY <2>9, <2>12
  <2>20. \A l \in Keys : l # k => disk.part[l] # y
    <3>1. ASSUME NEW l \in Keys, l # k, disk.part[l] = y PROVE FALSE BY <1>3, <2>5, <3>1 DEF Inodes, Refers
    <3>. QED BY <3>1
  <2>21. PartSize(k) = Len(disk.data[y])
    <3>1. CASE disk.part[k] = 0
      <4>1. y = i /\ Fresh(i) BY <1>0, <2>2, <2>4, <2>5, <3>1 DEF Fresh
      <4>2. disk.data[y] = <<>> BY <1>3, <4>1 DEF Inodes, Unused
      <4>. QED BY <3>1, <4>2 DEF PartSize
    <3>2. CASE disk.part[k] # 0 BY <2>4, <3>2 DEF PartSize
    <3>. QED BY <3>1, <3>2
  <2>22. Inodes'
    <3>1. ASSUME NEW l \in Keys
          PROVE /\ disk'.part[l] # 0 => disk'.part[l] \in Ids /\ tr'[disk'.part[l]].key = {l}
                /\ disk'.whole[l] # 0 => disk'.whole[l] \in Ids /\ tr'[disk'.whole[l]].key = {l}
      <4>1. /\ disk.part[l] # 0 => disk.part[l] \in Ids /\ tr[disk.part[l]].key = {l}
            /\ disk.whole[l] # 0 => disk.whole[l] \in Ids /\ tr[disk.whole[l]].key = {l}
        BY <1>3 DEF Inodes, Refers
      <4>2. CASE l = k BY <2>5, <2>14, <2>17, <4>1, <4>2
      <4>3. CASE l # k BY ZenonT(60), <2>14, <2>17, <4>1, <4>3
      <4>. QED BY <4>2, <4>3
    <3>2. ASSUME NEW j \in Ids, tr'[j].fd # 0 PROVE tr'[j].fd \in Ids /\ tr'[tr'[j].fd].key = tr'[j].key
      <4>1. CASE j = i BY <1>1, <2>5, <2>14, <2>19, <4>1 DEF Mine
      <4>2. CASE j # i
        <5>1. tr[j].fd \in Ids /\ tr[tr[j].fd].key = tr[j].key BY <1>3, <2>19, <3>2, <4>2 DEF Inodes, Refers
        <5>. QED BY <2>14, <2>19, <4>2, <5>1
      <4>. QED BY <4>1, <4>2
    <3>3. ASSUME NEW x \in Ids, Fresh(x)' PROVE Unused(x)'
      <4>1. x # y
        <5>1. CASE x = i
          <6>1. ~(i > made) BY <1>2, <1>3, Numbers DEF FileTypes
          <6>. QED BY <2>13, <2>19, <3>3, <5>1, <6>1 DEF Fresh
        <5>2. CASE x # i /\ disk.part[k] # 0
          <6>1. SUFFICES ASSUME x = y PROVE FALSE OBVIOUS
          <6>2. Fresh(x) BY <2>13, <2>14, <2>19, <3>3, <5>2 DEF Fresh
          <6>. QED BY <1>3, <2>4, <5>2, <6>1, <6>2 DEF Inodes, Unused
        <5>3. CASE x # i /\ disk.part[k] = 0 BY <2>4, <5>3
        <5>. QED BY <5>1, <5>2, <5>3
      <4>2. Fresh(x)
        <5>1. CASE x = i BY <1>0, <2>2, <2>5, <5>1, Numbers DEF Fresh
        <5>2. CASE x # i BY <2>13, <2>14, <2>19, <3>3, <5>2 DEF Fresh
        <5>. QED BY <5>1, <5>2
      <4>3. Unused(x) BY <1>3, <4>2 DEF Inodes
      <4>4. \A l \in Keys : disk'.part[l] # x /\ disk'.whole[l] # x BY <2>17, <4>1, <4>3 DEF Unused
      <4>5. \A j \in Ids : tr'[j].fd # x BY <2>19, <4>1, <4>3 DEF Unused
      <4>. QED BY <2>17, <4>3, <4>4, <4>5 DEF Unused
    <3>4. \A j, l \in Ids : tr'[j].fd = tr'[l].fd /\ tr'[j].fd # 0 => j = l BY <1>3, <2>18, <2>19 DEF Inodes
    <3>5. \A x \in Ids : Len(disk'.data[x]) <= Size BY <1>3, <2>17 DEF Inodes
    <3>. QED BY <3>1, <3>2, <3>3, <3>4, <3>5 DEF Inodes, Refers
  <2>23. Writers'
    <3>1. InPlace(b, disk.data) BY <2>2, <2>9, <2>21 DEF InPlace
    <3>2. \A j \in Ids : InPlace(tr'[j], disk'.data) BY <1>3, <2>12, <2>17, <3>1 DEF Writers
    <3>3. ASSUME NEW l \in Keys, NEW j \in Ids, Mine(j, l)', tr'[j].at = "open", ~Beyond(j, l)' PROVE tr'[j].off = PartSize(l)'
      <4>1. j # i /\ Mine(j, l) /\ ~Beyond(j, l) /\ tr[j].at = "open" /\ j = Owner(l) BY <2>9, <2>12, <2>15, <3>3 DEF Beyond
      <4>2. l # k BY <2>1, <4>1
      <4>3. PartSize(l)' = PartSize(l) BY <2>17, <4>2 DEF PartSize
      <4>4. tr[j].off = PartSize(l) BY <1>3, <4>1 DEF Writers
      <4>. QED BY <2>12, <4>1, <4>3, <4>4
    <3>. QED BY <3>2, <3>3 DEF Writers
  <2>24. Parts'
    <3>1. ASSUME NEW l \in Keys, NEW j \in Ids, disk'.part[l] # 0, tr'[j].fd = disk'.part[l] PROVE j = Owner(l)
      <4>1. CASE l = k BY <2>1, <2>17, <2>18, <2>19, <3>1, <4>1
      <4>2. CASE l # k BY ZenonT(60), <1>3, <2>17, <2>19, <2>20, <3>1, <4>2 DEF Parts
      <4>. QED BY <4>1, <4>2
    <3>2. ASSUME NEW l \in Keys, NEW j \in Ids, disk'.part[l] # 0, Mine(j, l), Running(j), j # Owner(l)
          PROVE Owner(l) # 0 /\ (~Running(Owner(l))' \/ tr'[Owner(l)].fd = disk'.part[l])
      <4>1. CASE l = k BY <1>2, <2>1, <2>15, <2>17, <2>19, <4>1
      <4>2. CASE l # k
        <5>1. Owner(l) # 0 /\ (~Running(Owner(l)) \/ tr[Owner(l)].fd = disk.part[l]) BY <1>3, <2>17, <3>2, <4>2 DEF Parts
        <5>2. Owner(l) # i BY <1>1, <2>16, <4>2, <5>1 DEF Mine
        <5>. QED BY <2>14, <2>15, <2>16, <2>17, <2>19, <4>2, <5>1, <5>2
      <4>. QED BY <4>1, <4>2
    <3>3. ASSUME NEW l \in Keys, Owner(l) # 0, tr'[Owner(l)].fd # 0 PROVE disk'.part[l] \in {0, tr'[Owner(l)].fd}
      <4>1. CASE l = k BY <2>1, <2>17, <2>19, <4>1
      <4>2. CASE l # k
        <5>1. Owner(l) # i /\ Owner(l) \in Ids BY <1>1, <2>16, <3>3, <4>2 DEF Mine
        <5>. QED BY <1>3, <2>17, <2>19, <3>3, <4>2, <5>1 DEF Parts
      <4>. QED BY <4>1, <4>2
    <3>4. ASSUME NEW l \in Keys, byKey[l] # 0, tr'[byKey[l]].state = "COMPLETED" \/ tr'[byKey[l]].at = "complete"
          PROVE disk'.part[l] = 0 /\ disk'.whole[l] # 0 /\ Len(disk'.data[disk'.whole[l]]) = Size
      <4>1. Owner(l) = byKey[l] /\ byKey[l] \in Ids /\ Mine(byKey[l], l) BY <3>4, <2>16, OwnerIs
      <4>2. byKey[l] # i BY <1>0, <1>2, <2>9, <2>12, <3>4 DEF Fits, Streaming, InStream
      <4>3. l # k BY <2>1, <4>1, <4>2
      <4>. QED BY <1>3, <2>12, <2>17, <3>4, <4>1, <4>2, <4>3 DEF Parts
    <3>. QED BY <2>13, <2>14, <2>15, <3>1, <3>2, <3>3, <3>4 DEF Parts
  <2>25. \A l \in Keys : removal[l].clean => disk'.part[l] = disk.part[l]
    <3>1. removal[k].clean => byKey[k] = 0 /\ removal[k].at = "idle" BY <1>3 DEF Ownership
    <3>2. ~removal[k].clean BY SMTT(40), <1>2, <2>1, <3>1 DEF Owner
    <3>. QED BY <2>17, <3>2
  <2>. QED BY <2>11, <2>17, <2>22, <2>23, <2>24, <2>25, WritesKeep
<1>. QED BY <1>1, <1>4, <1>5 DEF OpenPart

LEMMA WriteHolds == ASSUME FilesInv, NEW i \in Ids, WriteBlock(i) PROVE FilesInv'
<1>0. tr[i].at = "write" /\ RunUnchanged /\ Running(i) BY DEF WriteBlock, Running
<1>1. PICK k \in Keys : Mine(i, k) BY <1>0, StreamIs
<1>2. tr \in [Ids -> Transfer] /\ tr[i] \in Transfer /\ Fits(tr[i]) /\ i # 0 /\ i <= made BY <1>0, StreamIs
<1>3. FileTypes /\ KeysKnown /\ Ownership /\ Inodes /\ Writers /\ Parts BY DEF FilesInv
<1>4. CASE Fails(i) /\ disk' = disk BY <1>0, <1>4, FailsHolds DEF InStream
<1>5. CASE /\ disk' = [disk EXCEPT !.data[tr[i].fd] = Append(@, tr[i].off)]
           /\ Goto(i, IF tr[i].off = Size THEN "sync" ELSE "read") /\ conns' = conns
  <2>2. PICK x \in Ids : x = tr[i].fd /\ x # 0 BY <1>0, <1>2, <1>3 DEF Inodes, Refers, Fits
  <2>3. PICK e \in Nat : e = tr[i].off BY <1>2, Numbers DEF Transfer
  <2>4. disk.data[x] \in Seq(Nat) /\ disk.data \in [Ids -> Seq(Nat)] BY <1>3 DEF FileTypes
  <2>5. PICK q \in Seq(Nat) : q = Append(disk.data[x], e) /\ Len(q) = Len(disk.data[x]) + 1 BY ZenonT(60), <2>4, AppendProperties
  <2>6. Len(q) = tr[i].off /\ Len(q) <= Size
    <3>1. tr[i].off = Len(disk.data[x]) + 1 BY <1>0, <1>3, <2>2 DEF Writers, InPlace
    <3>2. tr[i].off \in 0 .. Size BY <1>2 DEF Transfer
    <3>. QED BY <2>5, <3>1, <3>2, Numbers
  <2>7. disk' = [disk EXCEPT !.data = [disk.data EXCEPT ![x] = q]] BY <1>5, <2>2, <2>3, <2>5
  <2>8. PICK b : b = [tr[i] EXCEPT !.at = IF tr[i].off = Size THEN "sync" ELSE "read"] OBVIOUS
  <2>9. b \in Transfer /\ tr' = [tr EXCEPT ![i] = b] BY <1>2, <1>5, <2>8 DEF Transfer, Places, Streaming, InStream, Goto
  <2>10. /\ b.at \in {"read", "sync"} /\ b.waits = tr[i].waits /\ b.key = tr[i].key /\ b.state = tr[i].state /\ b.fd = x
         /\ b.off = tr[i].off /\ (b.at = "sync" => b.off = Size)
    BY <1>2, <2>2, <2>8 DEF Transfer
  <2>11. Fits(b) BY <1>0, <1>2, <2>2, <2>10 DEF Fits, Streaming, InStream, Negotiating
  <2>12. Writes(i, b) BY <1>0, <1>5, <2>9, <2>10, <2>11 DEF Writes, Streaming, InStream
  <2>13. tr'[i] = b /\ \A j \in Ids : j # i => tr'[j] = tr[j] BY <1>2, <2>9
  <2>14. removal' = removal /\ byKey' = byKey /\ made' = made BY <1>0 DEF RunUnchanged
  <2>15. \A j \in Ids : /\ tr'[j].key = tr[j].key /\ tr'[j].state = tr[j].state /\ tr'[j].fd = tr[j].fd
                        /\ (Running(j)' <=> Running(j)) /\ (tr'[j].at = "complete" <=> tr[j].at = "complete")
                        /\ (tr'[j].at = "open" => tr[j].at = "open" /\ tr'[j].off = tr[j].off)
    BY <1>0, <2>2, <2>10, <2>13 DEF Running
  <2>16. \A j \in Ids, l \in Keys : (Mine(j, l)' <=> Mine(j, l)) /\ (Beyond(j, l)' <=> Beyond(j, l)) /\ Owner(l)' = Owner(l)
    BY <2>14, <2>15 DEF Mine, Beyond, Owner
  <2>17. \A l \in Keys : Owner(l) # 0 => Owner(l) \in Ids /\ Mine(Owner(l), l) BY OwnerIs
  <2>18. /\ disk' \in [part : [Keys -> 0 .. MaxTransfers], data : [Ids -> Seq(Nat)], whole : [Keys -> 0 .. MaxTransfers]]
         /\ disk'.part = disk.part /\ disk'.whole = disk.whole /\ disk'.data[x] = q
         /\ \A z \in Ids : z # x => disk'.data[z] = disk.data[z]
    <3>1. disk \in [part : [Keys -> 0 .. MaxTransfers], data : [Ids -> Seq(Nat)], whole : [Keys -> 0 .. MaxTransfers]]
      BY <1>3 DEF FileTypes
    <3>2. disk'.data = [disk.data EXCEPT ![x] = q] /\ disk'.part = disk.part /\ disk'.whole = disk.whole BY <2>7, <3>1
    <3>3. disk' = [part |-> disk'.part, data |-> disk'.data, whole |-> disk'.whole] BY <2>7, <3>1
    <3>4. /\ disk'.data \in [Ids -> Seq(Nat)] /\ disk'.data[x] = q
          /\ \A z \in Ids : z # x => disk'.data[z] = disk.data[z]
      BY <2>4, <3>2
    <3>. QED BY <3>1, <3>2, <3>3, <3>4
  \* Nobody else has x open, and as a partial file it is its owner's.
  <2>19. \A j \in Ids : tr[j].fd = x => j = i BY <1>3, <2>2 DEF Inodes
  <2>20. ASSUME NEW l \in Keys, disk.part[l] = x PROVE l = k /\ i = Owner(k)
    <3>1. tr[x].key = {l} /\ tr[x].key = {k} BY <1>1, <1>3, <2>2, <2>20 DEF Inodes, Refers, Mine
    <3>2. i = Owner(l) BY <1>3, <2>2, <2>20 DEF Parts
    <3>3. l = k BY <3>1
    <3>. QED BY <3>2, <3>3
  <2>21. Inodes'
    <3>1. ASSUME NEW l \in Keys
          PROVE /\ disk'.part[l] # 0 => disk'.part[l] \in Ids /\ tr'[disk'.part[l]].key = {l}
                /\ disk'.whole[l] # 0 => disk'.whole[l] \in Ids /\ tr'[disk'.whole[l]].key = {l}
      <4>1. /\ disk.part[l] # 0 => disk.part[l] \in Ids /\ tr[disk.part[l]].key = {l}
            /\ disk.whole[l] # 0 => disk.whole[l] \in Ids /\ tr[disk.whole[l]].key = {l}
        BY <1>3 DEF Inodes, Refers
      <4>2. \A j \in Ids : tr'[j].key = tr[j].key BY <2>15
      <4>3. disk'.part[l] = disk.part[l] /\ disk'.whole[l] = disk.whole[l] BY <2>18
      <4>. QED BY <4>1, <4>2, <4>3
    <3>2. \A j \in Ids : tr'[j].fd # 0 => tr'[j].fd \in Ids /\ tr'[tr'[j].fd].key = tr'[j].key
      BY <1>3, <2>15 DEF Inodes, Refers
    <3>3. ASSUME NEW z \in Ids, Fresh(z)' PROVE Unused(z)'
      <4>1. Unused(z) BY <1>3, <2>14, <2>15, <3>3 DEF Fresh, Inodes
      <4>2. z # x BY <2>2, <4>1 DEF Unused
      <4>. QED BY <2>15, <2>18, <4>1, <4>2 DEF Unused
    <3>4. \A j, l \in Ids : tr'[j].fd = tr'[l].fd /\ tr'[j].fd # 0 => j = l BY <1>3, <2>15 DEF Inodes
    <3>5. \A z \in Ids : Len(disk'.data[z]) <= Size BY <1>3, <2>6, <2>18 DEF Inodes
    <3>. QED BY <3>1, <3>2, <3>3, <3>4, <3>5 DEF Inodes, Refers
  <2>22. Writers'
    <3>1. InPlace(b, disk'.data) BY <2>6, <2>10, <2>18 DEF InPlace
    <3>2. ASSUME NEW j \in Ids, j # i PROVE InPlace(tr'[j], disk'.data)
      <4>1. InPlace(tr[j], disk.data) /\ Fits(tr[j]) BY <1>3 DEF Writers, FilesInv, StepsFit
      <4>2. tr[j].at \in {"read", "sync", "write"} => tr[j].fd \in Ids /\ tr[j].fd # x
        BY <1>3, <2>19, <3>2, <4>1 DEF Fits, Inodes, Refers
      <4>. QED BY <2>13, <2>18, <3>2, <4>1, <4>2 DEF InPlace
    <3>3. ASSUME NEW l \in Keys, NEW j \in Ids, Mine(j, l)', tr'[j].at = "open", ~Beyond(j, l)' PROVE tr'[j].off = PartSize(l)'
      <4>1. Mine(j, l) /\ ~Beyond(j, l) /\ tr[j].at = "open" /\ j = Owner(l) /\ tr'[j].off = tr[j].off
        BY <2>15, <2>16, <3>3 DEF Beyond
      <4>2. disk.part[l] # x BY <1>0, <2>20, <4>1
      <4>3. disk.part[l] # 0 => disk.part[l] \in Ids BY <1>3 DEF Inodes, Refers
      <4>4. PartSize(l)' = PartSize(l) BY <2>18, <4>2, <4>3 DEF PartSize
      <4>5. tr[j].off = PartSize(l) BY <1>3, <4>1 DEF Writers
      <4>. QED BY <4>1, <4>4, <4>5
    <3>. QED BY <2>13, <3>1, <3>2, <3>3 DEF Writers
  <2>23. Parts'
    <3>1. \A l \in Keys : \A j \in Ids : disk'.part[l] # 0 /\ tr'[j].fd = disk'.part[l] => j = Owner(l)
      BY <1>3, <2>15, <2>18 DEF Parts
    <3>2. \A l \in Keys : \A j \in Ids : disk'.part[l] # 0 /\ Mine(j, l) /\ Running(j) /\ j # Owner(l) =>
            Owner(l) # 0 /\ (~Running(Owner(l)) \/ tr[Owner(l)].fd = disk'.part[l])
      BY <1>3, <2>18 DEF Parts
    <3>3. \A l \in Keys : \A j \in Ids : disk'.part[l] # 0 /\ Mine(j, l) /\ Running(j) /\ j # Owner(l) =>
            Owner(l) # 0 /\ (~Running(Owner(l))' \/ tr'[Owner(l)].fd = disk'.part[l])
      BY <2>15, <2>16, <2>17, <3>2
    <3>4. \A l \in Keys : Owner(l) # 0 /\ tr'[Owner(l)].fd # 0 => disk'.part[l] \in {0, tr'[Owner(l)].fd}
      BY <1>3, <2>15, <2>17, <2>18 DEF Parts
    <3>5. ASSUME NEW l \in Keys, byKey[l] # 0, tr'[byKey[l]].state = "COMPLETED" \/ tr'[byKey[l]].at = "complete"
          PROVE disk'.part[l] = 0 /\ disk'.whole[l] # 0 /\ Len(disk'.data[disk'.whole[l]]) = Size
      <4>1. Owner(l) = byKey[l] /\ byKey[l] \in Ids /\ Mine(byKey[l], l) BY <2>17, <3>5, OwnerIs
      <4>2. disk.part[l] = 0 /\ disk.whole[l] # 0 /\ Len(disk.data[disk.whole[l]]) = Size
        BY <1>3, <2>15, <3>5, <4>1 DEF Parts
      \* The whole file is longer than what the writer had.
      <4>3. disk.whole[l] # x
        <5>1. Len(disk.data[x]) + 1 <= Size /\ Len(disk.data[x]) \in Nat BY <2>4, <2>5, <2>6, LenProperties
        <5>2. Len(disk.data[x]) # Size BY <5>1, Numbers
        <5>. QED BY <4>2, <5>2
      <4>4. disk.whole[l] \in Ids BY <1>3, <4>2 DEF Inodes, Refers
      <4>. QED BY <2>18, <4>2, <4>3, <4>4
    <3>. QED BY <2>14, <2>15, <2>16, <3>1, <3>3, <3>4, <3>5 DEF Parts
  <2>. QED BY <2>12, <2>18, <2>21, <2>22, <2>23, WritesKeep
<1>. QED BY ZenonT(60), <1>4, <1>5 DEF WriteBlock

LEMMA StreamHolds == ASSUME FilesInv, NEW i \in Ids, StreamFile(i) PROVE FilesInv'
BY ResumeHolds, OpenHolds, ReadHolds, WriteHolds, RenameHolds, CompleteHolds DEF StreamFile

LEMMA RunHolds == ASSUME FilesInv, NEW i \in Ids, RunDownload(i) PROVE FilesInv'
BY QueueSteps, NegotiateHolds, GiveUpHolds, StopAwaitingHolds, StartStreamHolds, StreamHolds DEF RunDownload

(***************************************************************************)
(* Connections and frames                                                  *)
(***************************************************************************)
\* A step that has to do with connections alone, and opens none.
LEMMA ConnsHold ==
  ASSUME FilesInv, UNCHANGED <<life, scope, made, tr, byKey, removal, disk>>,
         conns' \in [Conns -> Connection], byToken' \in [Tokens -> 0 .. made],
         hook' \in [Keys -> [tr : 0 .. made, token : Tokens \cup {0}]],
         offered' \in [Keys -> [tokens : SUBSET Tokens, sent : Nat]],
         \A c \in Conns : conns'[c].at = "held" => conns[c].at = "held" /\ conns'[c].tr = conns[c].tr,
         ConnsFit'
  PROVE FilesInv'
<1>0. FileTypes /\ KeysKnown /\ StepsFit /\ Ownership /\ Inodes /\ Writers /\ Parts BY DEF FilesInv
<1>1. FileTypes' BY <1>0 DEF FileTypes
<1>2. KeysKnown' BY <1>0 DEF KeysKnown, Mine, Running
<1>3. StepsFit' BY <1>0 DEF StepsFit
<1>4. Ownership'
  <2>1. \A i \in Ids : Source(i)' \subseteq Source(i) BY DEF Source
  <2>2. \A i \in Ids : Cut(i) => Cut(i)' BY <2>1 DEF Cut
  <2>3. \A i \in Ids, k \in Keys : Beyond(i, k)' <=> Beyond(i, k) BY DEF Beyond, Owner
  <2>. QED BY <1>0, <2>2, <2>3 DEF Ownership, Mine, Running
<1>5. Inodes' BY <1>0 DEF Inodes, Refers, Fresh, Unused, Running
<1>6. Writers'
  <2>1. \A i \in Ids, k \in Keys : Beyond(i, k)' <=> Beyond(i, k) BY DEF Beyond, Owner
  <2>. QED BY <1>0, <2>1 DEF Writers, InPlace, Mine, PartSize
<1>7. Parts' BY ZenonT(60), <1>0 DEF Parts, Owner, Mine, Running
<1>. QED BY <1>1, <1>2, <1>3, <1>4, <1>5, <1>6, <1>7 DEF FilesInv

\* One connection becomes r.
LEMMA ConnHolds ==
  ASSUME FilesInv, NEW c \in Conns, NEW r \in Connection, conns' = [conns EXCEPT ![c] = r],
         UNCHANGED <<life, scope, made, tr, byKey, removal, disk, hook, offered>>, byToken' \in [Tokens -> 0 .. made],
         r.at = "opened" => r.token \in Tokens,
         r.at \in Attached => r.tr \in 1 .. made /\ Suits(r, tr[r.tr]),
         r.at # "held",
         r.at = "waiting" => \A d \in Conns : conns[d].at = "waiting" => conns[d].tr # r.tr
  PROVE FilesInv'
<1>0. FileTypes /\ ConnsFit BY DEF FilesInv
<1>1. conns \in [Conns -> Connection] BY <1>0 DEF FileTypes
<1>2. conns' \in [Conns -> Connection] BY <1>1
<1>3. conns'[c] = r /\ \A d \in Conns : d # c => conns'[d] = conns[d] BY <1>1
<1>4. ConnsFit'
  <2>1. \A d \in Conns : conns'[d].at = "opened" => conns'[d].token \in Tokens BY <1>0, <1>3 DEF ConnsFit
  <2>2. \A d \in Conns : conns'[d].at \in Attached => conns'[d].tr \in 1 .. made /\ Suits(conns'[d], tr[conns'[d].tr])
    BY <1>0, <1>3 DEF ConnsFit
  <2>3. \A d, e \in Conns : conns'[d].at = "waiting" /\ conns'[e].at = "waiting" /\ conns'[d].tr = conns'[e].tr => d = e
    BY <1>0, <1>3 DEF ConnsFit
  <2>. QED BY <2>1, <2>2, <2>3 DEF ConnsFit
<1>5. \A d \in Conns : conns'[d].at = "held" => conns[d].at = "held" /\ conns'[d].tr = conns[d].tr BY <1>3
<1>6. hook' \in [Keys -> [tr : 0 .. made, token : Tokens \cup {0}]] /\ offered' \in [Keys -> [tokens : SUBSET Tokens, sent : Nat]]
BY <1>0 DEF FileTypes
<1>. QED BY <1>2, <1>4, <1>5, <1>6, ConnsHold

LEMMA FileConnsHold ==
  ASSUME FilesInv, NEW c \in Conns, (\E k \in Keys : OpenFileConn(k, c)) \/ FileConn(c) \/ CloseOnCancel(c)
  PROVE FilesInv'
<1>0. FileTypes /\ ConnsFit /\ StepsFit BY DEF FilesInv
<1>1. /\ conns \in [Conns -> Connection] /\ conns[c] \in Connection /\ byToken \in [Tokens -> 0 .. made]
      /\ tr \in [Ids -> Transfer] /\ made \in 0 .. MaxTransfers
BY <1>0 DEF FileTypes
<1>2. Closed \in Connection /\ Closed.at = "closed" BY Numbers DEF Closed, Connection
<1>3. ASSUME NEW k \in Keys, OpenFileConn(k, c) PROVE FilesInv'
  <2>1. PICK t \in offered[k].tokens : conns' = [conns EXCEPT ![c] = [at |-> "opened", token |-> t, tr |-> 0]]
    BY <1>3 DEF OpenFileConn
  <2>2. t \in Tokens BY <1>0, <2>1 DEF FileTypes
  <2>3. PICK r : r = [at |-> "opened", token |-> t, tr |-> 0] OBVIOUS
  <2>4. r \in Connection /\ r.at = "opened" /\ r.token = t BY <2>2, <2>3, Numbers DEF Connection
  <2>5. conns' = [conns EXCEPT ![c] = r] BY <2>1, <2>3
  <2>6. UNCHANGED <<life, scope, made, tr, byKey, byToken, removal, disk, hook, offered>> BY <1>3 DEF OpenFileConn, ConnUnchanged
  <2>. QED BY <1>1, <2>2, <2>4, <2>5, <2>6, ConnHolds DEF Attached
<1>4. CASE ClaimByToken(c)
  <2>1. conns[c].token \in Tokens BY <1>0, <1>4 DEF ClaimByToken, ConnsFit
  <2>2. PICK j \in 0 .. made : j = byToken[conns[c].token] BY <1>1, <2>1
  <2>3. conns' = [conns EXCEPT ![c] = IF j = 0 THEN Closed ELSE [at |-> "claimed", token |-> 0, tr |-> j]]
    BY <1>1, <1>4, <2>2 DEF ClaimByToken
  <2>4. PICK r : r = IF j = 0 THEN Closed ELSE [at |-> "claimed", token |-> 0, tr |-> j] OBVIOUS
  <2>5. j \in 0 .. MaxTransfers /\ (j # 0 => j \in 1 .. made) BY <1>1, <2>2, Numbers
  <2>7. r \in Connection /\ r.at \in {"closed", "claimed"} /\ (r.at = "claimed" => r.tr \in 1 .. made)
    BY <1>2, <2>4, <2>5, Numbers DEF Connection, Attached
  <2>8. conns' = [conns EXCEPT ![c] = r] BY <2>3, <2>4
  <2>9. UNCHANGED <<life, scope, made, tr, byKey, removal, disk, hook, offered>> BY <1>4 DEF ClaimByToken, ConnUnchanged
  <2>10. byToken' \in [Tokens -> 0 .. made]
    <3>1. byToken' = [byToken EXCEPT ![conns[c].token] = 0] /\ 0 \in 0 .. made BY <1>1, <1>4, Numbers DEF ClaimByToken
    <3>. QED BY <1>1, <3>1
  <2>. QED BY <2>7, <2>8, <2>9, <2>10, ConnHolds DEF Attached, Suits
<1>5. CASE AttachFileConn(c)
  <2>1. UNCHANGED <<life, scope, made, tr, byKey, byToken, removal, disk, hook, offered>> /\ conns[c].at = "claimed"
    BY <1>5 DEF AttachFileConn, ConnUnchanged
  <2>2. CASE tr[conns[c].tr].waits /\ (\A d \in Conns : conns[d].at = "waiting" => conns[d].tr # conns[c].tr)
    <3>1. conns' = [conns EXCEPT ![c].at = "waiting"] BY <1>5, <2>2 DEF AttachFileConn
    <3>2. PICK r : r = [conns[c] EXCEPT !.at = "waiting"] OBVIOUS
    <3>3. r \in Connection BY <1>1, <3>2 DEF Connection, Attached
    <3>4. r.at = "waiting" /\ r.tr = conns[c].tr BY <1>1, <3>2 DEF Connection
    <3>5. conns' = [conns EXCEPT ![c] = r] BY <1>1, <3>1, <3>2
    <3>6. r.tr \in 1 .. made BY <1>0, <2>1, <3>4 DEF ConnsFit, Attached
    <3>7. Suits(r, tr[r.tr]) BY <2>2, <3>4 DEF Suits
    <3>. QED BY <1>1, <2>1, <2>2, <3>3, <3>4, <3>5, <3>6, <3>7, ConnHolds
  <2>3. CASE conns' = [conns EXCEPT ![c] = Closed] BY <1>1, <1>2, <2>1, <2>3, ConnHolds DEF Attached
  <2>. QED BY <1>5, <2>2, <2>3 DEF AttachFileConn
<1>6. CASE CloseOnCancel(c)
  <2>1. /\ conns[c].at = "held" /\ tr[conns[c].tr].at \in InStream /\ conns' = [conns EXCEPT ![c].at = "cut"]
        /\ UNCHANGED <<life, scope, made, tr, byKey, byToken, removal, disk, hook, offered>>
    BY <1>6 DEF CloseOnCancel
  <2>2. PICK r : r = [conns[c] EXCEPT !.at = "cut"] OBVIOUS
  <2>3. r \in Connection BY <1>1, <2>2 DEF Connection, Attached
  <2>4. r.at = "cut" /\ r.tr = conns[c].tr BY <1>1, <2>2 DEF Connection
  <2>5. conns' = [conns EXCEPT ![c] = r] BY <1>1, <2>1, <2>2
  <2>6. r.tr \in 1 .. made BY <1>0, <2>1, <2>4 DEF ConnsFit, Attached
  <2>7. Suits(r, tr[r.tr]) BY <2>1, <2>4 DEF Suits, Streaming
  <2>. QED BY <1>1, <2>1, <2>3, <2>4, <2>5, <2>6, <2>7, ConnHolds
<1>. QED BY <1>3, <1>4, <1>5, <1>6 DEF FileConn

LEMMA RequestHolds == ASSUME FilesInv, NEW k \in Keys, TransferRequest(k) PROVE FilesInv'
<1>0. FileTypes /\ KeysKnown /\ ConnsFit BY DEF FilesInv
<1>1. UNCHANGED <<life, scope, made, tr, byKey, byToken, conns, removal, disk>> /\ byKey[k] # 0
BY DEF TransferRequest, FrameUnchanged
<1>2. PICK t \in scope.tokens : /\ hook' = [hook EXCEPT ![k] = [tr |-> byKey[k], token |-> t]]
                                /\ offered' = [offered EXCEPT ![k].tokens = @ \cup {t}, ![k].sent = @ + 1]
BY DEF TransferRequest
<1>3. t \in Tokens BY <1>0, Numbers DEF FileTypes
<1>4. byKey[k] \in 0 .. made BY <1>0, <1>1, OwnerIs, Numbers DEF FileTypes
<1>5. hook' \in [Keys -> [tr : 0 .. made, token : Tokens \cup {0}]] BY <1>0, <1>2, <1>3, <1>4 DEF FileTypes
<1>6. offered' \in [Keys -> [tokens : SUBSET Tokens, sent : Nat]]
  <2>1. offered \in [Keys -> [tokens : SUBSET Tokens, sent : Nat]] BY <1>0 DEF FileTypes
  <2>2. PICK o : o = [tokens |-> offered[k].tokens \cup {t}, sent |-> offered[k].sent + 1] OBVIOUS
  <2>3. o \in [tokens : SUBSET Tokens, sent : Nat] BY <1>3, <2>1, <2>2
  <2>4. offered' = [offered EXCEPT ![k] = o] BY <1>2, <2>1, <2>2
  <2>. QED BY <2>1, <2>3, <2>4
<1>7. ConnsFit' BY <1>0, <1>1 DEF ConnsFit, Suits
<1>. QED BY <1>0, <1>1, <1>5, <1>6, <1>7, ConnsHold DEF FileTypes

LEMMA RegisterHolds == ASSUME FilesInv, NEW k \in Keys, RegisterToken(k) PROVE FilesInv'
<1>0. FileTypes /\ KeysKnown /\ StepsFit /\ ConnsFit /\ Ownership BY DEF FilesInv
<1>1. /\ tr \in [Ids -> Transfer] /\ conns \in [Conns -> Connection] /\ made \in 0 .. MaxTransfers
      /\ byToken \in [Tokens -> 0 .. made] /\ hook \in [Keys -> [tr : 0 .. made, token : Tokens \cup {0}]]
      /\ offered \in [Keys -> [tokens : SUBSET Tokens, sent : Nat]]
BY <1>0 DEF FileTypes
<1>2. PICK i \in Ids, t \in Tokens \cup {0} :
        /\ i = hook[k].tr /\ i \in 0 .. made
        /\ byToken' = [u \in Tokens |-> IF u = t THEN i ELSE IF u = tr[i].token /\ byToken[u] = i THEN 0 ELSE byToken[u]]
        /\ tr' = [tr EXCEPT ![i].token = t, ![i].req = IF Running(i) /\ @ = 0 THEN t ELSE @]
  <2>1. hook[k].tr \in 0 .. made /\ hook[k].token \in Tokens \cup {0} BY <1>1
  <2>2. hook[k].tr \in Ids BY <1>1, <2>1, Numbers DEF RegisterToken
  <2>. QED BY ZenonT(60), <2>1, <2>2 DEF RegisterToken
<1>3. PICK b : b = [tr[i] EXCEPT !.token = t, !.req = IF Running(i) /\ tr[i].req = 0 THEN t ELSE tr[i].req] OBVIOUS
<1>4. tr[i] \in Transfer BY <1>1
<1>5. b \in Transfer /\ tr' = [tr EXCEPT ![i] = b] BY <1>1, <1>2, <1>3, <1>4 DEF Transfer
<1>6. /\ b.at = tr[i].at /\ b.waits = tr[i].waits /\ b.key = tr[i].key /\ b.state = tr[i].state /\ b.fd = tr[i].fd /\ b.off = tr[i].off
BY <1>3, <1>4 DEF Transfer
<1>7. Fits(b) BY <1>0, <1>6 DEF StepsFit, Fits
<1>8. Becomes(i, b) BY <1>5, <1>6, <1>7 DEF Becomes, Running, InStream
<1>9. UNCHANGED <<life, scope, made, byKey, conns, removal, disk, offered>> /\ hook' = [hook EXCEPT ![k] = NoFrame]
BY DEF RegisterToken, FrameUnchanged
<1>10. ConnsMove(i, b) BY <1>0, <1>1, <1>6, <1>9 DEF ConnsMove, ConnsFit, Suits
<1>11. byToken' \in [Tokens -> 0 .. made] BY <1>1, <1>2, Numbers
<1>12. hook' \in [Keys -> [tr : 0 .. made, token : Tokens \cup {0}]] BY <1>1, <1>9, Numbers DEF NoFrame
<1>13. Moves(i, b) BY <1>1, <1>5, <1>8, <1>9, <1>10, <1>11, <1>12 DEF Moves
<1>14. \A j \in Ids : tr'[j].key = tr[j].key /\ tr'[j].state = tr[j].state /\ tr'[j].at = tr[j].at BY <1>1, <1>5, <1>6
<1>15. KeysKnown'
  <2>1. \A l \in Keys : byKey[l] # 0 => byKey[l] \in Ids BY SMTT(40), <1>0, Numbers DEF FileTypes
  <2>2. \A l \in Keys : removal[l].at # "idle" => removal[l].tr \in Ids BY SMTT(40), <1>0, Numbers DEF FileTypes, KeysKnown
  <2>3. \A j \in Ids, l \in Keys : (Mine(j, l)' <=> Mine(j, l)) /\ (Running(j)' <=> Running(j)) BY <1>14 DEF Mine, Running
  <2>4. \A l \in Keys : removal[l].at # "idle" =>
          Mine(removal[l].tr, l)' /\ (Running(removal[l].tr)' => tr'[removal[l].tr].state = "CANCELLED")
    BY <1>0, <1>9, <1>14, <2>2, <2>3 DEF KeysKnown
  <2>5. \A l \in Keys : byKey[l] # 0 => Mine(byKey[l], l)' BY <1>0, <1>9, <2>1, <2>3 DEF KeysKnown
  <2>6. \A j \in Ids : /\ j > made => tr'[j].key = {} /\ ~Running(j)'
                       /\ j <= made => \E l \in Keys : Mine(j, l)'
    BY <1>0, <1>14, <2>3 DEF KeysKnown
  <2>. QED BY <1>0, <1>9, <2>4, <2>5, <2>6 DEF KeysKnown
<1>16. SameOwners BY <1>0, <1>9 DEF SameOwners, Owner, Ownership
<1>. QED BY <1>0, <1>9, <1>13, <1>15, <1>16, MovesKeep DEF FileTypes

(***************************************************************************)
(* The callers                                                             *)
(***************************************************************************)
LEMMA MarkHolds ==
  ASSUME FilesInv, NEW i \in Ids, MarkCancelled(i),
         UNCHANGED <<life, scope, made, byKey, byToken, hook, offered, conns, disk>>,
         removal' \in [Keys -> [at : {"idle", "forget", "drain", "unlink"}, tr : 0 .. MaxTransfers, late : BOOLEAN, clean : BOOLEAN]],
         SameOwners,
         \A k \in Keys : removal'[k] = removal[k] \/ (removal'[k].at = "forget" /\ removal'[k].tr = i /\ byKey[k] = i)
  PROVE FilesInv'
<1>0. FileTypes /\ KeysKnown /\ StepsFit /\ ConnsFit BY DEF FilesInv
<1>1. tr \in [Ids -> Transfer] /\ tr[i] \in Transfer /\ conns \in [Conns -> Connection] BY <1>0 DEF FileTypes
<1>2. PICK b : b = [tr[i] EXCEPT !.state = IF tr[i].state = "COMPLETED" THEN "COMPLETED" ELSE "CANCELLED", !.ctx = TRUE] OBVIOUS
<1>3. b \in Transfer BY <1>1, <1>2 DEF Transfer
<1>4. tr' = [tr EXCEPT ![i] = b] BY <1>1, <1>2 DEF MarkCancelled
<1>5. /\ b.at = tr[i].at /\ b.waits = tr[i].waits /\ b.key = tr[i].key /\ b.fd = tr[i].fd /\ b.off = tr[i].off
      /\ b.state = IF tr[i].state = "COMPLETED" THEN "COMPLETED" ELSE "CANCELLED"
BY <1>1, <1>2 DEF Transfer
<1>6. Fits(tr[i]) BY <1>0 DEF StepsFit
<1>7. Fits(b) BY <1>5, <1>6 DEF Fits
<1>8. Becomes(i, b) BY <1>3, <1>5, <1>7 DEF Becomes, Running, InStream
<1>9. ConnsMove(i, b) BY <1>0, <1>1, <1>5 DEF ConnsMove, ConnsFit, Suits
<1>10. Moves(i, b) BY <1>0, <1>4, <1>8, <1>9 DEF Moves, FileTypes
<1>11. \A j \in Ids : /\ tr'[j].key = tr[j].key /\ (Running(j)' <=> Running(j))
                      /\ (tr[j].state = "CANCELLED" => tr'[j].state = "CANCELLED")
BY <1>1, <1>4, <1>5 DEF Running
<1>12. Running(i) => tr'[i].state = "CANCELLED" BY <1>1, <1>4, <1>5, <1>6 DEF Fits, Running
<1>13. KeysKnown'
  <2>1. \A l \in Keys : byKey[l] # 0 => byKey[l] \in Ids BY <1>0, Numbers DEF FileTypes
  <2>2. \A l \in Keys : removal[l].at # "idle" => removal[l].tr \in Ids BY <1>0, Numbers DEF FileTypes, KeysKnown
  <2>3. \A j \in Ids, l \in Keys : Mine(j, l)' <=> Mine(j, l) BY <1>11 DEF Mine
  <2>4. ASSUME NEW l \in Keys, removal'[l].at # "idle"
        PROVE /\ removal'[l].tr # 0 /\ byKey[l] \in {0, removal'[l].tr} /\ (removal'[l].at # "forget" => byKey[l] = 0)
              /\ tr'[removal'[l].tr].key = {l}
              /\ tr'[removal'[l].tr].at # "off" => tr'[removal'[l].tr].state = "CANCELLED"
    <3>1. CASE removal'[l] = removal[l]
      <4>1. removal[l].at # "idle" /\ removal[l].tr \in Ids BY <2>2, <2>4, <3>1
      <4>2. /\ removal[l].tr # 0 /\ byKey[l] \in {0, removal[l].tr} /\ (removal[l].at # "forget" => byKey[l] = 0)
            /\ tr[removal[l].tr].key = {l} /\ (tr[removal[l].tr].at # "off" => tr[removal[l].tr].state = "CANCELLED")
        BY <1>0, <4>1 DEF KeysKnown, Mine, Running
      <4>3. /\ tr'[removal[l].tr].key = {l}
            /\ tr'[removal[l].tr].at # "off" => tr'[removal[l].tr].state = "CANCELLED"
        BY <1>11, <4>1, <4>2 DEF Running
      <4>. QED BY <3>1, <4>2, <4>3
    <3>2. CASE removal'[l].at = "forget" /\ removal'[l].tr = i /\ byKey[l] = i
      <4>1. i # 0 BY Numbers
      <4>2. tr[i].key = {l} BY <1>0, <3>2, <4>1 DEF KeysKnown, Mine
      <4>. QED BY <1>11, <1>12, <3>2, <4>1, <4>2 DEF Running
    <3>. QED BY <3>1, <3>2
  <2>5. \A l \in Keys : byKey[l] # 0 => Mine(byKey[l], l)' BY <1>0, <2>1, <2>3 DEF KeysKnown
  <2>6. \A j \in Ids : /\ j > made => tr'[j].key = {} /\ ~Running(j)'
                       /\ j <= made => \E l \in Keys : Mine(j, l)'
    BY <1>0, <1>11, <2>3 DEF KeysKnown
  <2>. QED BY <2>4, <2>5, <2>6 DEF KeysKnown, Mine, Running
<1>. QED BY <1>10, <1>13, MovesKeep

LEMMA CancelHolds == ASSUME FilesInv, NEW k \in Keys, Cancel(k) PROVE FilesInv'
<1>0. FileTypes /\ Ownership BY DEF FilesInv
<1>1. byKey[k] # 0 /\ MarkCancelled(byKey[k]) /\ UNCHANGED <<life, scope, made, byKey, byToken, hook, offered, conns, removal, disk>>
BY DEF Cancel, CallUnchanged
<1>2. byKey[k] \in Ids BY <1>0, <1>1, Numbers DEF FileTypes
<1>3. SameOwners BY <1>0, <1>1 DEF SameOwners, Owner, Ownership
<1>. QED BY <1>0, <1>1, <1>2, <1>3, MarkHolds DEF FileTypes

LEMMA BeginsHolds == ASSUME FilesInv, NEW k \in Keys, RemoveBegins(k) PROVE FilesInv'
<1>0. FileTypes /\ Ownership BY DEF FilesInv
<1>1. /\ byKey[k] # 0 /\ removal[k].at = "idle" /\ MarkCancelled(byKey[k])
      /\ UNCHANGED <<life, scope, made, byKey, byToken, hook, offered, conns, disk>>
BY DEF RemoveBegins, CallUnchanged
<1>2. byKey[k] \in Ids /\ byKey[k] \in 0 .. MaxTransfers BY <1>0, <1>1, Numbers DEF FileTypes
<1>3. removal \in [Keys -> [at : {"idle", "forget", "drain", "unlink"}, tr : 0 .. MaxTransfers, late : BOOLEAN, clean : BOOLEAN]]
BY <1>0 DEF FileTypes
<1>4. PICK r : r = [removal[k] EXCEPT !.at = "forget", !.tr = byKey[k]] OBVIOUS
<1>5. /\ r \in [at : {"idle", "forget", "drain", "unlink"}, tr : 0 .. MaxTransfers, late : BOOLEAN, clean : BOOLEAN]
      /\ r.at = "forget" /\ r.tr = byKey[k] /\ r.late = removal[k].late /\ r.clean = removal[k].clean
BY <1>2, <1>3, <1>4
<1>6. removal' = [removal EXCEPT ![k] = r] BY <1>3, <1>4 DEF RemoveBegins
<1>7. removal' \in [Keys -> [at : {"idle", "forget", "drain", "unlink"}, tr : 0 .. MaxTransfers, late : BOOLEAN, clean : BOOLEAN]]
BY <1>3, <1>5, <1>6
<1>8. removal'[k] = r /\ \A l \in Keys : l # k => removal'[l] = removal[l] BY <1>3, <1>6
<1>9. SameOwners
  <2>1. ~removal[k].clean BY <1>0, <1>1 DEF Ownership
  <2>2. \A l \in Keys : removal[l].clean => removal[l].at = "idle" BY <1>0 DEF Ownership
  <2>3. \A l \in Keys : Owner(l)' = Owner(l) BY <1>1, <1>5, <1>8 DEF Owner
  <2>. QED BY <1>1, <1>5, <1>8, <2>1, <2>2, <2>3 DEF SameOwners
<1>. QED BY <1>1, <1>2, <1>5, <1>7, <1>8, <1>9, MarkHolds

\* Remove goes on: the registry forgets, more goroutines may be beyond it.
LEMMA RemovalHolds ==
  ASSUME FilesInv, UNCHANGED <<life, scope, made, tr, hook, offered, conns, disk>>,
         FileTypes', KeysKnown', Ownership',
         \A k \in Keys : /\ byKey'[k] \in {0, byKey[k]} /\ Owner(k)' = Owner(k)
                         /\ (removal[k].at = "unlink" => removal'[k].at = "unlink")
  PROVE FilesInv'
<1>0. FileTypes /\ StepsFit /\ ConnsFit /\ Inodes /\ Writers /\ Parts BY DEF FilesInv
<1>1. StepsFit' BY <1>0 DEF StepsFit
<1>2. ConnsFit' BY <1>0 DEF ConnsFit
<1>3. Inodes' BY <1>0 DEF Inodes, Refers, Fresh, Unused, Running
<1>4. Writers'
  <2>1. \A i \in Ids, k \in Keys : Beyond(i, k) => Beyond(i, k)' BY DEF Beyond
  <2>. QED BY <1>0, <2>1 DEF Writers, InPlace, Mine, PartSize
<1>5. Parts'
  <2>1. \A k \in Keys : \A i \in Ids : disk.part[k] # 0 /\ Mine(i, k) /\ Running(i) /\ i # Owner(k) =>
          Owner(k) # 0 /\ (~Running(Owner(k)) \/ tr[Owner(k)].fd = disk.part[k])
    BY <1>0 DEF Parts
  <2>2. \A k \in Keys : \A i \in Ids : disk.part[k] # 0 /\ Mine(i, k) /\ Running(i) /\ i # Owner(k) =>
          Owner(k) # 0 /\ (~Running(Owner(k))' \/ tr'[Owner(k)].fd = disk.part[k])
    BY <2>1 DEF Running
  <2>3. \A k \in Keys : /\ \A i \in Ids : disk.part[k] # 0 /\ tr[i].fd = disk.part[k] => i = Owner(k)
                        /\ Owner(k) # 0 /\ tr[Owner(k)].fd # 0 => disk.part[k] \in {0, tr[Owner(k)].fd}
    BY <1>0 DEF Parts
  <2>4. \A k \in Keys : byKey'[k] # 0 /\ (tr[byKey'[k]].state = "COMPLETED" \/ tr[byKey'[k]].at = "complete") =>
          disk.part[k] = 0 /\ disk.whole[k] # 0 /\ Len(disk.data[disk.whole[k]]) = Size
    BY <1>0 DEF Parts
  <2>. QED BY <2>2, <2>3, <2>4 DEF Parts, Mine, Running
<1>. QED BY <1>1, <1>2, <1>3, <1>4, <1>5 DEF FilesInv

LEMMA ForgetsHolds == ASSUME FilesInv, NEW k \in Keys, RemoveForgets(k) PROVE FilesInv'
<1>0. FileTypes /\ KeysKnown /\ Ownership BY DEF FilesInv
<1>1. /\ removal[k].at = "forget" /\ removal' = [removal EXCEPT ![k].at = "drain"] /\ byKey' = [byKey EXCEPT ![k] = 0]
      /\ UNCHANGED <<life, scope, made, tr, hook, offered, conns, disk>>
BY DEF RemoveForgets
<1>2. /\ removal \in [Keys -> [at : {"idle", "forget", "drain", "unlink"}, tr : 0 .. MaxTransfers, late : BOOLEAN, clean : BOOLEAN]]
      /\ byKey \in [Keys -> 0 .. MaxTransfers] /\ byToken \in [Tokens -> 0 .. made]
BY <1>0 DEF FileTypes
<1>3. PICK r : r = [removal[k] EXCEPT !.at = "drain"] OBVIOUS
<1>4. /\ r \in [at : {"idle", "forget", "drain", "unlink"}, tr : 0 .. MaxTransfers, late : BOOLEAN, clean : BOOLEAN]
      /\ r.at = "drain" /\ r.tr = removal[k].tr /\ r.late = removal[k].late /\ r.clean = removal[k].clean
BY <1>2, <1>3
<1>5. removal' = [removal EXCEPT ![k] = r] BY <1>1, <1>2, <1>3
<1>6. removal'[k] = r /\ \A l \in Keys : l # k => removal'[l] = removal[l] BY <1>2, <1>5
<1>7. byKey'[k] = 0 /\ \A l \in Keys : l # k => byKey'[l] = byKey[l] BY <1>1, <1>2
<1>8. FileTypes'
  <2>1. byToken' \in [Tokens -> 0 .. made]
    <3>1. 0 \in 0 .. made BY <1>0, Numbers DEF FileTypes
    <3>. QED BY <1>2, <3>1 DEF RemoveForgets
  <2>2. byKey' \in [Keys -> 0 .. MaxTransfers] BY <1>1, <1>2, Numbers
  <2>3. removal' \in [Keys -> [at : {"idle", "forget", "drain", "unlink"}, tr : 0 .. MaxTransfers, late : BOOLEAN, clean : BOOLEAN]]
    BY <1>2, <1>4, <1>5
  <2>. QED BY <1>0, <1>1, <2>1, <2>2, <2>3 DEF FileTypes
<1>9. \A l \in Keys : Owner(l)' = Owner(l) BY <1>1, <1>4, <1>6, <1>7 DEF Owner
<1>10. KeysKnown'
  <2>1. \A l \in Keys : removal[l].at # "idle" =>
          /\ removal[l].tr # 0 /\ tr[removal[l].tr].key = {l} /\ byKey[l] \in {0, removal[l].tr}
          /\ removal[l].at # "forget" => byKey[l] = 0
          /\ tr[removal[l].tr].at # "off" => tr[removal[l].tr].state = "CANCELLED"
    BY <1>0 DEF KeysKnown, Mine, Running
  <2>2. \A l \in Keys : removal'[l].at # "idle" =>
          /\ removal'[l].tr # 0 /\ tr[removal'[l].tr].key = {l} /\ byKey'[l] \in {0, removal'[l].tr}
          /\ removal'[l].at # "forget" => byKey'[l] = 0
          /\ tr[removal'[l].tr].at # "off" => tr[removal'[l].tr].state = "CANCELLED"
    BY <1>1, <1>4, <1>6, <1>7, <2>1
  <2>3. \A l \in Keys : byKey'[l] # 0 => tr[byKey'[l]].key = {l} BY <1>0, <1>7 DEF KeysKnown, Mine
  <2>4. \A j \in Ids : /\ j > made => tr[j].key = {} /\ ~Running(j)
                       /\ j <= made => \E l \in Keys : Mine(j, l)
    BY <1>0 DEF KeysKnown
  <2>. QED BY <1>1, <2>2, <2>3, <2>4 DEF KeysKnown, Mine, Running
<1>11. Ownership'
  <2>1. \A i \in Ids, l \in Keys : Beyond(i, l)' => Beyond(i, l) BY <1>1, <1>4, <1>6, <1>9 DEF Beyond
  <2>2. \A l \in Keys : removal'[l].late = removal[l].late /\ removal'[l].clean = removal[l].clean BY <1>4, <1>6
  <2>3. ~removal[k].clean BY <1>0, <1>1 DEF Ownership
  <2>. QED BY <1>0, <1>1, <1>6, <1>7, <2>1, <2>2, <2>3 DEF Ownership, Mine, Running, Cut, Source
<1>12. \A l \in Keys : byKey'[l] \in {0, byKey[l]} /\ (removal[l].at = "unlink" => removal'[l].at = "unlink")
BY <1>1, <1>6, <1>7
<1>. QED BY <1>1, <1>8, <1>9, <1>10, <1>11, <1>12, RemovalHolds

LEMMA DrainsHolds == ASSUME FilesInv, NEW k \in Keys, RemoveDrains(k) PROVE FilesInv'
<1>0. FileTypes /\ KeysKnown /\ Ownership BY DEF FilesInv
<1>1. /\ removal[k].at = "drain"
      /\ removal' = [removal EXCEPT ![k].at = "unlink", ![k].late = @ \/ Running(removal[k].tr)]
      /\ UNCHANGED <<life, scope, made, tr, byKey, byToken, hook, offered, conns, disk>>
BY DEF RemoveDrains, CallUnchanged
<1>2. removal \in [Keys -> [at : {"idle", "forget", "drain", "unlink"}, tr : 0 .. MaxTransfers, late : BOOLEAN, clean : BOOLEAN]]
BY <1>0 DEF FileTypes
<1>6. removal'[k].at = "unlink" /\ removal'[k].tr = removal[k].tr /\ removal'[k].clean = removal[k].clean BY <1>1, <1>2
<1>7. removal'[k].late <=> (removal[k].late \/ Running(removal[k].tr)) BY <1>1, <1>2
<1>8. \A l \in Keys : l # k => removal'[l] = removal[l] BY <1>1, <1>2
<1>9. removal' \in [Keys -> [at : {"idle", "forget", "drain", "unlink"}, tr : 0 .. MaxTransfers, late : BOOLEAN, clean : BOOLEAN]]
  <2>1. (removal[k].late \/ Running(removal[k].tr)) \in BOOLEAN OBVIOUS
  <2>. QED BY ZenonT(60), <1>1, <1>2, <2>1
<1>10. FileTypes' BY <1>0, <1>1, <1>9 DEF FileTypes
<1>11. ASSUME NEW l \in Keys PROVE Owner(l)' = Owner(l)
  <2>1. CASE l = k BY <1>1, <1>6, <2>1 DEF Owner
  <2>2. CASE l # k
    <3>1. removal'[l] = removal[l] BY <1>8, <2>2
    <3>2. byKey' = byKey BY <1>1
    <3>. QED BY <3>1, <3>2 DEF Owner
  <2>. QED BY <2>1, <2>2
<1>12. KeysKnown'
  <2>1. \A l \in Keys : removal[l].at # "idle" =>
          /\ removal[l].tr # 0 /\ tr[removal[l].tr].key = {l} /\ byKey[l] \in {0, removal[l].tr}
          /\ removal[l].at # "forget" => byKey[l] = 0
          /\ tr[removal[l].tr].at # "off" => tr[removal[l].tr].state = "CANCELLED"
    BY <1>0 DEF KeysKnown, Mine, Running
  <2>2. \A l \in Keys : removal'[l].at # "idle" =>
          /\ removal'[l].tr # 0 /\ tr[removal'[l].tr].key = {l} /\ byKey[l] \in {0, removal'[l].tr}
          /\ removal'[l].at # "forget" => byKey[l] = 0
          /\ tr[removal'[l].tr].at # "off" => tr[removal'[l].tr].state = "CANCELLED"
    <3>1. ASSUME NEW l \in Keys PROVE removal'[l].tr = removal[l].tr /\ (removal'[l].at = "idle" <=> removal[l].at = "idle")
                                     /\ (removal'[l].at = "forget" <=> removal[l].at = "forget")
      <4>1. CASE l = k BY <1>1, <1>6, <4>1
      <4>2. CASE l # k BY <1>8, <4>2
      <4>. QED BY <4>1, <4>2
    <3>. QED BY <2>1, <3>1
  <2>. QED BY ZenonT(60), <1>0, <1>1, <2>2 DEF KeysKnown, Mine, Running
<1>13. Ownership'
  <2>1. ASSUME NEW l \in Keys, NEW i \in Ids, Mine(i, l), Running(i), Beyond(i, l)' PROVE removal'[l].late /\ Cut(i)
    <3>1. CASE Beyond(i, l)
      <4>1. removal[l].late /\ Cut(i) BY <1>0, <2>1, <3>1 DEF Ownership
      <4>. QED BY <1>7, <1>8, <4>1
    <3>2. CASE ~Beyond(i, l)
      <4>1. l = k /\ i = Owner(k) BY <1>8, <1>11, <2>1, <3>2 DEF Beyond
      <4>2. i = removal[k].tr BY <1>1, <4>1 DEF Owner
      <4>3. tr[i].state = "CANCELLED" BY <1>0, <1>1, <2>1, <4>2 DEF KeysKnown
      <4>4. tr[i].at \in InStream => Source(i) = {} BY <4>2 DEF RemoveDrains, Source
      <4>. QED BY <1>7, <2>1, <4>1, <4>2, <4>3, <4>4 DEF Cut
    <3>. QED BY <3>1, <3>2
  <2>2. \A i \in Ids : Cut(i)' <=> Cut(i) BY <1>1 DEF Cut, Source
  <2>3. \A i \in Ids, l \in Keys : (Mine(i, l)' <=> Mine(i, l)) /\ (Running(i)' <=> Running(i)) BY <1>1 DEF Mine, Running
  <2>4. ~removal[k].clean BY <1>0, <1>1 DEF Ownership
  <2>5. \A l \in Keys : removal'[l].clean => disk.part[l] = 0 /\ byKey[l] = 0 /\ ~removal'[l].late /\ removal'[l].at = "idle"
    BY <1>0, <1>6, <1>8, <2>4 DEF Ownership
  <2>. QED BY <1>1, <2>1, <2>2, <2>3, <2>5 DEF Ownership
<1>14. \A l \in Keys : byKey'[l] \in {0, byKey[l]} /\ (removal[l].at = "unlink" => removal'[l].at = "unlink")
BY <1>1, <1>6, <1>8
<1>. QED BY <1>1, <1>10, <1>11, <1>12, <1>13, <1>14, RemovalHolds

LEMMA UnlinksHold == ASSUME FilesInv, NEW k \in Keys, RemoveUnlinks(k) PROVE FilesInv'
<1>0. FileTypes /\ KeysKnown /\ StepsFit /\ ConnsFit /\ Ownership /\ Inodes /\ Writers /\ Parts BY DEF FilesInv
<1>1. /\ removal[k].at = "unlink" /\ disk' = [disk EXCEPT !.part[k] = 0]
      /\ UNCHANGED <<life, scope, made, tr, byKey, byToken, hook, offered, conns>>
BY DEF RemoveUnlinks, CallUnchanged
<1>2. /\ removal \in [Keys -> [at : {"idle", "forget", "drain", "unlink"}, tr : 0 .. MaxTransfers, late : BOOLEAN, clean : BOOLEAN]]
      /\ disk \in [part : [Keys -> 0 .. MaxTransfers], data : [Ids -> Seq(Nat)], whole : [Keys -> 0 .. MaxTransfers]]
BY <1>0 DEF FileTypes
<1>3. byKey[k] = 0 /\ removal[k].tr # 0 /\ removal[k].tr = Owner(k) BY <1>0, <1>1 DEF KeysKnown, Owner
<1>4. removal' = [removal EXCEPT ![k] = [at |-> "idle", tr |-> 0, late |-> removal[k].late, clean |-> ~removal[k].late]]
  <2>1. (byKey[k] = 0 /\ ~removal[k].late) = ~removal[k].late BY <1>3
  <2>. QED BY <1>2, <2>1 DEF RemoveUnlinks
<1>5. removal' \in [Keys -> [at : {"idle", "forget", "drain", "unlink"}, tr : 0 .. MaxTransfers, late : BOOLEAN, clean : BOOLEAN]]
  <2>1. removal[k] \in [at : {"idle", "forget", "drain", "unlink"}, tr : 0 .. MaxTransfers, late : BOOLEAN, clean : BOOLEAN] BY <1>2
  <2>2. removal[k].late \in BOOLEAN BY <2>1, Zenon
  <2>3. (~removal[k].late) \in BOOLEAN OBVIOUS
  <2>4. 0 \in 0 .. MaxTransfers BY Numbers
  <2>. QED BY <1>2, <1>4, <2>2, <2>3, <2>4
<1>6. /\ removal'[k].at = "idle" /\ removal'[k].late = removal[k].late /\ (removal'[k].clean => ~removal[k].late)
      /\ \A l \in Keys : l # k => removal'[l] = removal[l]
BY <1>2, <1>4
<1>7. /\ disk' \in [part : [Keys -> 0 .. MaxTransfers], data : [Ids -> Seq(Nat)], whole : [Keys -> 0 .. MaxTransfers]]
      /\ disk'.part[k] = 0 /\ disk'.whole = disk.whole /\ disk'.data = disk.data
      /\ \A l \in Keys : l # k => disk'.part[l] = disk.part[l]
  <2>1. disk'.part = [disk.part EXCEPT ![k] = 0] /\ disk'.whole = disk.whole /\ disk'.data = disk.data BY <1>1, <1>2
  <2>2. disk' = [part |-> disk'.part, data |-> disk'.data, whole |-> disk'.whole] BY <1>1, <1>2
  <2>3. disk'.part \in [Keys -> 0 .. MaxTransfers] /\ disk'.part[k] = 0 /\ \A l \in Keys : l # k => disk'.part[l] = disk.part[l]
    BY <1>2, <2>1, Numbers
  <2>. QED BY <1>2, <2>1, <2>2, <2>3
<1>8. FileTypes' BY <1>0, <1>1, <1>5, <1>7 DEF FileTypes
<1>9. KeysKnown'
  <2>1. \A l \in Keys : removal'[l].at # "idle" => l # k BY <1>6
  <2>. QED BY <1>0, <1>1, <1>6, <2>1 DEF KeysKnown, Mine, Running
<1>10. StepsFit' BY <1>0, <1>1 DEF StepsFit
<1>11. ConnsFit' BY <1>0, <1>1 DEF ConnsFit
<1>12. Owner(k)' = 0 BY <1>1, <1>3, <1>6 DEF Owner
<1>13. ASSUME NEW l \in Keys, l # k PROVE Owner(l)' = Owner(l) /\ \A i \in Ids : Beyond(i, l)' <=> Beyond(i, l)
  <2>1. removal'[l] = removal[l] BY <1>6, <1>13
  <2>2. byKey' = byKey BY <1>1
  <2>3. Owner(l)' = Owner(l) BY <2>1, <2>2 DEF Owner
  <2>. QED BY <2>1, <2>3 DEF Beyond
<1>14. \A i \in Ids : Beyond(i, k) /\ Beyond(i, k)'
  <2>1. \A i \in Ids : i # 0 BY Numbers
  <2>. QED BY <1>1, <1>12, <2>1 DEF Beyond
<1>15. Ownership'
  <2>1. ASSUME NEW l \in Keys, NEW i \in Ids, Mine(i, l), Running(i), Beyond(i, l)' PROVE removal'[l].late /\ Cut(i)
    <3>1. removal[l].late /\ Cut(i) BY <1>0, <1>13, <1>14, <2>1 DEF Ownership
    <3>. QED BY <1>6, <3>1
  <2>2. \A i \in Ids : Cut(i)' <=> Cut(i) BY <1>1 DEF Cut, Source
  <2>3. \A i \in Ids, l \in Keys : (Mine(i, l)' <=> Mine(i, l)) /\ (Running(i)' <=> Running(i)) BY <1>1 DEF Mine, Running
  <2>4. \A l \in Keys : removal'[l].clean => disk'.part[l] = 0 /\ byKey[l] = 0 /\ ~removal'[l].late /\ removal'[l].at = "idle"
    BY SMTT(40), <1>0, <1>3, <1>6, <1>7 DEF Ownership
  <2>. QED BY <1>1, <2>1, <2>2, <2>3, <2>4 DEF Ownership
<1>16. Inodes'
  <2>1. \A l \in Keys : Refers(disk'.part[l], {l}) /\ Refers(disk'.whole[l], {l}) BY ZenonT(60), <1>0, <1>7 DEF Inodes, Refers
  <2>2. \A x \in Ids : Unused(x) => /\ disk'.data[x] = <<>> /\ (\A i \in Ids : tr[i].fd # x)
                                    /\ \A l \in Keys : disk'.part[l] # x /\ disk'.whole[l] # x
    <3>1. \A x \in Ids : x # 0 BY Numbers
    <3>. QED BY <1>7, <3>1 DEF Unused
  <2>3. \A x \in Ids : Fresh(x)' => Fresh(x) BY <1>1 DEF Fresh, Running
  <2>4. \A x \in Ids : Fresh(x)' => Unused(x)' BY <1>0, <1>1, <2>2, <2>3 DEF Inodes, Unused
  <2>5. \A i \in Ids : Refers(tr[i].fd, tr[i].key) BY <1>0 DEF Inodes
  <2>6. \A i, j \in Ids : tr[i].fd = tr[j].fd /\ tr[i].fd # 0 => i = j BY <1>0 DEF Inodes
  <2>7. \A x \in Ids : Len(disk'.data[x]) <= Size BY <1>0, <1>7 DEF Inodes
  <2>8. tr' = tr BY <1>1
  <2>. QED BY <2>1, <2>4, <2>5, <2>6, <2>7, <2>8 DEF Inodes, Refers
<1>17. Writers'
  <2>1. \A i \in Ids : InPlace(tr'[i], disk'.data) BY <1>0, <1>1, <1>7 DEF Writers
  <2>2. ASSUME NEW l \in Keys, NEW i \in Ids, Mine(i, l), tr[i].at = "open", ~Beyond(i, l)' PROVE tr[i].off = PartSize(l)'
    <3>1. l # k BY <1>14, <2>2
    <3>2. tr[i].off = PartSize(l) BY <1>0, <1>13, <2>2, <3>1 DEF Writers
    <3>3. PartSize(l)' = PartSize(l) BY <1>7, <3>1 DEF PartSize
    <3>. QED BY <3>2, <3>3
  <2>. QED BY <1>1, <2>1, <2>2 DEF Writers, Mine
<1>18. Parts'
  <2>1. ASSUME NEW l \in Keys, l # k
        PROVE /\ \A i \in Ids : disk'.part[l] # 0 /\ tr[i].fd = disk'.part[l] => i = Owner(l)
              /\ \A i \in Ids : disk'.part[l] # 0 /\ Mine(i, l) /\ Running(i) /\ i # Owner(l) =>
                   Owner(l) # 0 /\ (tr[Owner(l)].at = "off" \/ tr[Owner(l)].fd = disk'.part[l])
              /\ Owner(l) # 0 /\ tr[Owner(l)].fd # 0 => disk'.part[l] \in {0, tr[Owner(l)].fd}
    BY <1>0, <1>7, <2>1 DEF Parts, Running
  <2>2. \A l \in Keys : byKey[l] # 0 /\ (tr[byKey[l]].state = "COMPLETED" \/ tr[byKey[l]].at = "complete") =>
          disk'.part[l] = 0 /\ disk'.whole[l] # 0 /\ Len(disk'.data[disk'.whole[l]]) = Size
    BY <1>0, <1>3, <1>7 DEF Parts
  <2>3. ASSUME NEW l \in Keys
        PROVE /\ \A i \in Ids : disk'.part[l] # 0 /\ tr'[i].fd = disk'.part[l] => i = Owner(l)'
              /\ \A i \in Ids : disk'.part[l] # 0 /\ Mine(i, l)' /\ Running(i)' /\ i # Owner(l)' =>
                   Owner(l)' # 0 /\ (tr'[Owner(l)'].at = "off" \/ tr'[Owner(l)'].fd = disk'.part[l])
              /\ Owner(l)' # 0 /\ tr'[Owner(l)'].fd # 0 => disk'.part[l] \in {0, tr'[Owner(l)'].fd}
    <3>1. CASE l = k BY <1>7, <1>12, <3>1
    <3>2. CASE l # k
      <4>1. Owner(l)' = Owner(l) BY <1>13, <3>2
      <4>2. tr' = tr BY <1>1
      <4>. QED BY <2>1, <3>2, <4>1, <4>2 DEF Mine, Running
    <3>. QED BY <3>1, <3>2
  <2>. QED BY <1>1, <2>2, <2>3 DEF Parts, Running
<1>. QED BY <1>8, <1>9, <1>10, <1>11, <1>15, <1>16, <1>17, <1>18 DEF FilesInv

\* The client is told to stop.
LEMMA StopHolds == ASSUME FilesInv, StopLifecycle PROVE FilesInv'
<1>0. FileTypes /\ KeysKnown /\ StepsFit /\ ConnsFit /\ Ownership /\ Inodes /\ Writers /\ Parts BY DEF FilesInv
<1>1. /\ life' = "stopping" /\ UNCHANGED <<scope, made, byKey, byToken, hook, offered, conns, removal, disk>>
      /\ tr' = [i \in Ids |-> IF Running(i) THEN [tr[i] EXCEPT !.ctx = TRUE] ELSE tr[i]]
BY DEF StopLifecycle
<1>2. tr \in [Ids -> Transfer] BY <1>0 DEF FileTypes
<1>3. ASSUME NEW i \in Ids
      PROVE /\ tr'[i] \in Transfer /\ tr'[i].key = tr[i].key /\ tr'[i].state = tr[i].state /\ tr'[i].at = tr[i].at
            /\ tr'[i].waits = tr[i].waits /\ tr'[i].off = tr[i].off /\ tr'[i].fd = tr[i].fd
  <2>1. tr[i] \in Transfer BY <1>2
  <2>2. tr'[i] = [tr[i] EXCEPT !.ctx = TRUE] \/ tr'[i] = tr[i] BY <1>1
  <2>. QED BY <2>1, <2>2 DEF Transfer
<1>4. FileTypes'
  <2>1. tr' \in [Ids -> Transfer] BY <1>1, <1>3
  <2>. QED BY <1>0, <1>1, <2>1 DEF FileTypes
<1>5. \A l \in Keys : byKey[l] # 0 => byKey[l] \in Ids BY <1>0, Numbers DEF FileTypes
<1>6. \A l \in Keys : removal[l].at # "idle" => removal[l].tr \in Ids BY <1>0, Numbers DEF FileTypes, KeysKnown
<1>7. \A i \in Ids : (Running(i)' <=> Running(i)) /\ \A k \in Keys : Mine(i, k)' <=> Mine(i, k) BY <1>3 DEF Mine, Running
<1>8. \A k \in Keys : Owner(k)' = Owner(k) BY <1>1 DEF Owner
<1>9. \A i \in Ids, k \in Keys : Beyond(i, k)' <=> Beyond(i, k) BY <1>1, <1>8 DEF Beyond
<1>10. \A l \in Keys : Owner(l) # 0 => Owner(l) \in Ids BY OwnerIs
<1>11. KeysKnown'
  <2>1. \A l \in Keys : removal[l].at # "idle" =>
          Mine(removal[l].tr, l)' /\ (Running(removal[l].tr)' => tr'[removal[l].tr].state = "CANCELLED")
    BY <1>0, <1>1, <1>3, <1>6, <1>7 DEF KeysKnown
  <2>2. \A l \in Keys : byKey[l] # 0 => Mine(byKey[l], l)' BY <1>0, <1>1, <1>5, <1>7 DEF KeysKnown
  <2>3. \A j \in Ids : /\ j > made => tr'[j].key = {} /\ ~Running(j)'
                       /\ j <= made => \E l \in Keys : Mine(j, l)'
    <3>1. \A j \in Ids : tr'[j].key = tr[j].key BY <1>3
    <3>. QED BY <1>0, <1>7, <3>1 DEF KeysKnown
  <2>. QED BY <1>0, <1>1, <2>1, <2>2, <2>3 DEF KeysKnown
<1>12. StepsFit' BY <1>0, <1>3 DEF StepsFit, Fits
<1>13. ConnsFit'
  <2>1. 1 .. made \subseteq Ids BY <1>0, Numbers DEF FileTypes
  <2>. QED BY <1>0, <1>1, <1>3, <2>1 DEF ConnsFit, Suits
<1>14. Ownership'
  <2>1. \A i \in Ids : Cut(i)' <=> Cut(i) BY <1>1, <1>3 DEF Cut, Source
  <2>. QED BY <1>0, <1>1, <1>7, <1>9, <2>1 DEF Ownership
<1>15. Inodes'
  <2>1. \A j \in Ids : tr'[j].key = tr[j].key /\ tr'[j].fd = tr[j].fd BY <1>3
  <2>2. \A x, l : Refers(x, l)' <=> Refers(x, l) BY <2>1 DEF Refers
  <2>3. made' = made /\ disk' = disk BY <1>1
  <2>5. \A x \in Ids : Fresh(x)' => Fresh(x) BY <1>7, <2>1, <2>3 DEF Fresh
  <2>6. \A x \in Ids : Unused(x) => Unused(x)' BY <2>1, <2>3 DEF Unused
  <2>4. \A i \in Ids : Refers(tr'[i].fd, tr'[i].key) BY <1>0, <2>1 DEF Inodes
  <2>. QED BY ZenonT(60), <1>0, <2>1, <2>2, <2>3, <2>4, <2>5, <2>6 DEF Inodes
<1>16. Writers' BY <1>0, <1>1, <1>3, <1>7, <1>9 DEF Writers, InPlace, PartSize
<1>17. Parts'
  <2>1. \A k \in Keys : \A i \in Ids : disk.part[k] # 0 /\ Mine(i, k) /\ Running(i) /\ i # Owner(k) =>
          Owner(k) # 0 /\ (~Running(Owner(k))' \/ tr'[Owner(k)].fd = disk.part[k])
    BY <1>0, <1>3, <1>7, <1>8, <1>10 DEF Parts
  <2>2. \A k \in Keys : Owner(k) # 0 /\ tr'[Owner(k)].fd # 0 => disk.part[k] \in {0, tr'[Owner(k)].fd}
    BY <1>0, <1>3, <1>10 DEF Parts
  <2>3. \A k \in Keys : \A i \in Ids : disk.part[k] # 0 /\ tr'[i].fd = disk.part[k] => i = Owner(k) BY <1>0, <1>3 DEF Parts
  <2>4. \A l \in Keys : byKey[l] # 0 /\ (tr'[byKey[l]].state = "COMPLETED" \/ tr'[byKey[l]].at = "complete") =>
          disk.part[l] = 0 /\ disk.whole[l] # 0 /\ Len(disk.data[disk.whole[l]]) = Size
    BY <1>0, <1>3, <1>5 DEF Parts
  <2>. QED BY SMTT(40), <1>1, <1>7, <1>8, <2>1, <2>2, <2>3, <2>4 DEF Parts
<1>. QED BY <1>4, <1>11, <1>12, <1>13, <1>14, <1>15, <1>16, <1>17 DEF FilesInv

\* Another process: nothing runs, no key has an owner.
LEMMA RestartHolds == ASSUME FilesInv, Restart PROVE FilesInv'
<1>0. FileTypes /\ KeysKnown /\ Inodes BY DEF FilesInv
<1>1. /\ life' = "again" /\ scope' = scope /\ made' = made /\ disk' = disk
      /\ tr' = [i \in Ids |-> [New EXCEPT !.key = tr[i].key]]
      /\ byKey' = [k \in Keys |-> 0] /\ byToken' = [t \in Tokens |-> 0]
      /\ hook' = [k \in Keys |-> NoFrame] /\ offered' = [k \in Keys |-> [offered[k] EXCEPT !.tokens = {}]]
      /\ conns' = [c \in Conns |-> IF conns[c].at = "none" THEN conns[c] ELSE Closed]
      /\ removal' = [k \in Keys |-> NoRemoval]
BY DEF Restart
<1>2. tr \in [Ids -> Transfer] /\ conns \in [Conns -> Connection] /\ made \in 0 .. MaxTransfers BY <1>0 DEF FileTypes
<1>3. ASSUME NEW i \in Ids
      PROVE /\ tr'[i] \in Transfer /\ tr'[i].key = tr[i].key /\ tr'[i].state = "QUEUED" /\ tr'[i].at = "off"
            /\ ~tr'[i].waits /\ tr'[i].fd = 0
  <2>1. tr[i].key \in SUBSET Keys BY <1>2 DEF Transfer
  <2>2. New \in Transfer /\ New.state = "QUEUED" /\ New.at = "off" /\ ~New.waits /\ New.fd = 0
    BY Numbers DEF New, Transfer, Places
  <2>3. tr'[i] = [New EXCEPT !.key = tr[i].key] BY <1>1
  <2>. QED BY <2>1, <2>2, <2>3 DEF Transfer
<1>4. /\ NoRemoval \in [at : {"idle", "forget", "drain", "unlink"}, tr : 0 .. MaxTransfers, late : BOOLEAN, clean : BOOLEAN]
      /\ NoRemoval.at = "idle" /\ NoRemoval.clean = FALSE /\ NoFrame \in [tr : 0 .. made, token : Tokens \cup {0}]
BY <1>2, Numbers DEF NoRemoval, NoFrame
<1>5. Closed \in Connection /\ Closed.at = "closed" BY Numbers DEF Closed, Connection
<1>6. FileTypes'
  <2>1. tr' \in [Ids -> Transfer] BY <1>1, <1>3
  <2>2. conns' \in [Conns -> Connection] BY <1>1, <1>2, <1>5
  <2>3. byKey' \in [Keys -> 0 .. MaxTransfers] /\ byToken' \in [Tokens -> 0 .. made] BY <1>1, <1>2, Numbers
  <2>4. offered' \in [Keys -> [tokens : SUBSET Tokens, sent : Nat]]
    <3>1. offered \in [Keys -> [tokens : SUBSET Tokens, sent : Nat]] BY <1>0 DEF FileTypes
    <3>2. \A k \in Keys : [offered[k] EXCEPT !.tokens = {}] \in [tokens : SUBSET Tokens, sent : Nat] BY <3>1
    <3>. QED BY <1>1, <3>2
  <2>5. /\ removal' \in [Keys -> [at : {"idle", "forget", "drain", "unlink"}, tr : 0 .. MaxTransfers, late : BOOLEAN, clean : BOOLEAN]]
        /\ hook' \in [Keys -> [tr : 0 .. made, token : Tokens \cup {0}]]
    BY <1>1, <1>4
  <2>. QED BY <1>0, <1>1, <2>1, <2>2, <2>3, <2>4, <2>5 DEF FileTypes
<1>7. \A k \in Keys : byKey'[k] = 0 /\ removal'[k].at = "idle" /\ ~removal'[k].clean BY <1>1, <1>4
<1>8. \A k \in Keys : Owner(k)' = 0 BY <1>7 DEF Owner
<1>9. \A i \in Ids : ~Running(i)' BY <1>3 DEF Running
<1>10. KeysKnown' BY <1>0, <1>1, <1>3, <1>7, <1>9 DEF KeysKnown, Mine
<1>11. StepsFit' BY <1>3 DEF StepsFit, Fits, Streaming, InStream, Negotiating
<1>12. ConnsFit'
  <2>1. \A c \in Conns : conns'[c].at \in {"none", "closed"} BY <1>1, <1>5
  <2>. QED BY <2>1 DEF ConnsFit, Attached
<1>13. Ownership' BY <1>7, <1>9 DEF Ownership
<1>14. Inodes'
  <2>1. \A k \in Keys : Refers(disk.part[k], {k})' /\ Refers(disk.whole[k], {k})'
    <3>1. \A j \in Ids : tr'[j].key = tr[j].key BY <1>3
    <3>2. \A x, l : Refers(x, l) => Refers(x, l)' BY <3>1 DEF Refers
    <3>. QED BY <1>0, <1>1, <3>2 DEF Inodes
  <2>2. \A x \in Ids : Fresh(x)' => Fresh(x) BY <1>1, <1>9 DEF Fresh
  <2>3. \A x \in Ids : Unused(x) => Unused(x)'
    <3>1. \A x \in Ids : x # 0 BY Numbers
    <3>. QED BY <1>1, <1>3, <3>1 DEF Unused
  <2>4. \A i \in Ids : tr'[i].fd = 0 BY <1>3
  <2>. QED BY <1>0, <1>1, <2>1, <2>2, <2>3, <2>4 DEF Inodes, Refers
<1>15. Writers' BY <1>3 DEF Writers, InPlace
<1>16. Parts' BY <1>3, <1>7, <1>8, <1>9 DEF Parts
<1>. QED BY <1>6, <1>10, <1>11, <1>12, <1>13, <1>14, <1>15, <1>16 DEF FilesInv

LEMMA StartHolds == ASSUME FilesInv, NEW i \in Ids, StartDownload(i) PROVE FilesInv'
<1>0. FileTypes /\ KeysKnown /\ StepsFit /\ ConnsFit /\ Ownership /\ Inodes /\ Writers /\ Parts BY DEF FilesInv
<1>1. tr[i].at = "made" /\ Fits(tr[i]) /\ UNCHANGED <<life, scope, made, hook, offered, removal, disk>>
BY <1>0 DEF StartDownload, StepsFit
<1>2. tr \in [Ids -> Transfer] /\ tr[i] \in Transfer /\ conns \in [Conns -> Connection] /\ made \in 0 .. MaxTransfers BY <1>0 DEF FileTypes
<1>3. tr[i].fd = 0 /\ ~tr[i].waits BY <1>1 DEF Fits, Negotiating, Streaming, InStream
<1>4. CASE Goto(i, "connect") /\ UNCHANGED <<byKey, byToken, conns>>
  <2>1. PICK b : b = [tr[i] EXCEPT !.at = "connect"] OBVIOUS
  <2>2. b \in Transfer /\ tr' = [tr EXCEPT ![i] = b] BY <1>2, <1>4, <2>1 DEF Transfer, Places, Goto
  <2>3. /\ b.at = "connect" /\ b.waits = tr[i].waits /\ b.key = tr[i].key /\ b.state = tr[i].state /\ b.fd = tr[i].fd
        /\ b.off = tr[i].off
    BY <1>2, <2>1 DEF Transfer
  <2>4. Fits(b) BY <1>1, <2>3 DEF Fits, Negotiating, Streaming, InStream
  <2>5. Becomes(i, b) BY <1>1, <2>2, <2>3, <2>4 DEF Becomes, Running, InStream
  <2>6. \A r \in Connection : Suits(r, tr[i]) => Suits(r, b) BY <1>1, <2>3 DEF Suits, Negotiating, Streaming, InStream
  <2>. QED BY <1>1, <1>4, <2>2, <2>5, <2>6, GoesOn DEF RunUnchanged
<1>5. CASE /\ Errored(i)
           /\ byKey' = [k \in Keys |-> IF byKey[k] = i THEN 0 ELSE byKey[k]]
           /\ byToken' = [t \in Tokens |-> IF byToken[t] = i THEN 0 ELSE byToken[t]]
  <2>1. PICK b : b = Ended(i, "ERRORED") OBVIOUS
  <2>2. b \in Transfer /\ b.at = "off" /\ b.key = tr[i].key /\ b.state = "ERRORED" /\ ~b.waits /\ b.fd = 0 /\ Fits(b)
    <3>1. Ended(i, "ERRORED") \in Transfer /\ Becomes(i, Ended(i, "ERRORED")) BY EndedFits
    <3>. QED BY <2>1, <3>1 DEF Ended, Becomes
  <2>3. tr' = [tr EXCEPT ![i] = b] BY <1>5, <2>1 DEF Errored, Exit
  <2>4. tr'[i] = b /\ \A j \in Ids : j # i => tr'[j] = tr[j] BY <1>2, <2>3
  <2>5. Closed \in Connection /\ Closed.at = "closed" BY Numbers DEF Closed, Connection
  <2>6. conns' \in [Conns -> Connection] /\ \A c \in Conns : conns'[c] = conns[c] \/ conns'[c] = Closed
    BY <1>2, <1>5, <2>5 DEF Errored, Exit
  <2>7. \A j \in Ids : tr'[j].key = tr[j].key BY <2>2, <2>4
  <2>8. \A j \in Ids, k \in Keys : Mine(j, k)' <=> Mine(j, k) BY <2>7 DEF Mine
  <2>9. \A j \in Ids : Running(j)' <=> Running(j) /\ j # i BY <2>2, <2>4 DEF Running
  <2>10. \A j \in Ids : tr'[j].fd = tr[j].fd BY <1>3, <2>2, <2>4
  <2>11. \A k \in Keys : byKey'[k] \in {0, byKey[k]} /\ byKey'[k] # i
    <3>1. i # 0 BY Numbers
    <3>. QED BY <1>5, <3>1
  <2>12. \A k \in Keys : Owner(k)' = Owner(k) \/ (Owner(k) = i /\ Owner(k)' = 0)
    <3>1. \A k \in Keys : byKey'[k] = byKey[k] \/ (byKey[k] = i /\ byKey'[k] = 0) BY <1>5
    <3>2. removal' = removal BY <1>1
    <3>. QED BY <3>1, <3>2 DEF Owner
  <2>13. \A k \in Keys : Owner(k) # 0 => Owner(k) \in Ids BY OwnerIs
  <2>14. \A k \in Keys : removal[k].at # "idle" => removal[k].tr \in Ids BY <1>0, Numbers DEF FileTypes, KeysKnown
  <2>15. \A k \in Keys : byKey[k] # 0 => byKey[k] \in Ids BY <1>0, Numbers DEF FileTypes
  <2>16. FileTypes'
    <3>1. tr' \in [Ids -> Transfer] BY <1>2, <2>2, <2>3
    <3>2. byKey' \in [Keys -> 0 .. MaxTransfers]
      <4>1. byKey \in [Keys -> 0 .. MaxTransfers] BY <1>0 DEF FileTypes
      <4>. QED BY <1>5, <4>1, Numbers
    <3>3. byToken' \in [Tokens -> 0 .. made]
      <4>1. byToken \in [Tokens -> 0 .. made] BY <1>0 DEF FileTypes
      <4>. QED BY <1>2, <1>5, <4>1, Numbers
    <3>. QED BY <1>0, <1>1, <2>6, <3>1, <3>2, <3>3 DEF FileTypes
  <2>17. KeysKnown'
    <3>1. ASSUME NEW k \in Keys, removal[k].at # "idle"
          PROVE /\ removal[k].tr # 0 /\ byKey'[k] \in {0, removal[k].tr} /\ (removal[k].at # "forget" => byKey'[k] = 0)
                /\ Mine(removal[k].tr, k)'
                /\ Running(removal[k].tr)' => tr'[removal[k].tr].state = "CANCELLED"
      <4>1. /\ removal[k].tr # 0 /\ byKey[k] \in {0, removal[k].tr} /\ (removal[k].at # "forget" => byKey[k] = 0)
            /\ Mine(removal[k].tr, k) /\ (Running(removal[k].tr) => tr[removal[k].tr].state = "CANCELLED")
        BY <1>0, <3>1 DEF KeysKnown
      <4>2. byKey'[k] \in {0, removal[k].tr} /\ (removal[k].at # "forget" => byKey'[k] = 0) BY <2>11, <4>1
      <4>3. removal' = removal BY <1>1
      <4>. QED BY <2>4, <2>8, <2>9, <2>14, <3>1, <4>1, <4>2, <4>3
    <3>2. \A k \in Keys : byKey'[k] # 0 => tr'[byKey'[k]].key = {k} BY <1>0, <2>7, <2>11, <2>15 DEF KeysKnown, Mine
    <3>3. \A j \in Ids : /\ j > made => tr'[j].key = {} /\ ~Running(j)'
                         /\ j <= made => \E k \in Keys : Mine(j, k)'
      BY <1>0, <2>7, <2>8, <2>9 DEF KeysKnown
    <3>. QED BY <1>1, <3>1, <3>2, <3>3 DEF KeysKnown, Mine, Running
  <2>18. StepsFit' BY <1>0, <2>2, <2>4 DEF StepsFit
  <2>19. ConnsFit'
    <3>1. 1 .. made \subseteq Ids BY <1>2, Numbers
    <3>2. ASSUME NEW c \in Conns, conns'[c].at \in Attached
          PROVE conns'[c].tr \in 1 .. made /\ Suits(conns'[c], tr'[conns'[c].tr])
      <4>1. conns'[c] = conns[c] BY <2>5, <2>6, <3>2 DEF Attached
      <4>2. conns[c].tr \in 1 .. made /\ Suits(conns[c], tr[conns[c].tr]) BY <1>0, <3>2, <4>1 DEF ConnsFit
      <4>3. CASE conns[c].tr = i
        <5>1. conns[c].at \notin {"waiting", "held", "cut"} BY <1>1, <1>3, <4>2, <4>3 DEF Suits, Streaming, InStream
        <5>2. Suits(conns[c], tr'[i]) BY <5>1 DEF Suits
        <5>. QED BY <4>1, <4>2, <4>3, <5>2
      <4>4. CASE conns[c].tr # i BY <2>4, <3>1, <4>1, <4>2, <4>4
      <4>. QED BY <4>3, <4>4
    <3>3. \A c \in Conns : conns'[c].at \in {"opened", "waiting"} => conns'[c] = conns[c] BY <2>5, <2>6
    <3>4. /\ \A c \in Conns : conns'[c].at = "opened" => conns'[c].token \in Tokens
          /\ \A c, d \in Conns : conns'[c].at = "waiting" /\ conns'[d].at = "waiting" /\ conns'[c].tr = conns'[d].tr => c = d
      BY <1>0, <3>3 DEF ConnsFit
    <3>. QED BY <1>1, <3>2, <3>4 DEF ConnsFit
  <2>20. Ownership'
    <3>1. ASSUME NEW k \in Keys, NEW j \in Ids, Mine(j, k)', Running(j)', Beyond(j, k)' PROVE removal'[k].late /\ Cut(j)'
      <4>1. Mine(j, k) /\ Running(j) /\ j # i BY <2>8, <2>9, <3>1
      <4>2. Beyond(j, k) BY <1>1, <2>12, <3>1, <4>1 DEF Beyond
      <4>3. removal[k].late /\ Cut(j) BY <1>0, <4>1, <4>2 DEF Ownership
      <4>4. Source(j)' \subseteq Source(j) BY <2>5, <2>6 DEF Source
      <4>5. Cut(j)' BY <2>4, <4>1, <4>3, <4>4 DEF Cut
      <4>. QED BY <1>1, <4>3, <4>5
    <3>. QED BY <1>0, <1>1, <2>11, <3>1 DEF Ownership
  <2>21. Inodes'
    <3>1. disk' = disk /\ made' = made BY <1>1
    <3>2. \A x, l : Refers(x, l)' <=> Refers(x, l) BY <2>7 DEF Refers
    <3>3. \A x \in Ids : Fresh(x)' => Fresh(x) BY <2>9, <2>10, <3>1 DEF Fresh
    <3>4. \A x \in Ids : Unused(x) => Unused(x)' BY <2>10, <3>1 DEF Unused
    <3>5. \A j \in Ids : Refers(tr'[j].fd, tr'[j].key) BY <1>0, <2>7, <2>10 DEF Inodes
    <3>6. \A j, l \in Ids : tr'[j].fd = tr'[l].fd /\ tr'[j].fd # 0 => j = l BY <1>0, <2>10 DEF Inodes
    <3>. QED BY <1>0, <3>1, <3>2, <3>3, <3>4, <3>5, <3>6 DEF Inodes
  <2>22. Writers'
    <3>1. disk' = disk BY <1>1
    <3>2. \A j \in Ids : InPlace(tr'[j], disk'.data) BY <1>0, <2>2, <2>4, <3>1 DEF Writers, InPlace
    <3>3. ASSUME NEW k \in Keys, NEW j \in Ids, Mine(j, k)', tr'[j].at = "open", ~Beyond(j, k)' PROVE tr'[j].off = PartSize(k)'
      <4>1. Mine(j, k) /\ tr'[j] = tr[j] BY <2>2, <2>4, <2>8, <3>3
      <4>2. j # 0 BY Numbers
      <4>3. ~Beyond(j, k) BY <1>1, <2>12, <3>3, <4>2 DEF Beyond
      <4>. QED BY <1>0, <3>1, <3>3, <4>1, <4>3 DEF Writers, PartSize
    <3>. QED BY <3>2, <3>3 DEF Writers
  <2>23. Parts'
    <3>1. disk' = disk BY <1>1
    <3>2. ASSUME NEW k \in Keys, NEW j \in Ids, disk.part[k] # 0, tr[j].fd = disk.part[k] PROVE j = Owner(k)'
      <4>1. j = Owner(k) /\ j # i BY <1>0, <1>3, <3>2 DEF Parts
      <4>. QED BY <2>12, <4>1
    <3>3. ASSUME NEW k \in Keys, NEW j \in Ids, disk.part[k] # 0, Mine(j, k), Running(j), j # i, j # Owner(k)'
          PROVE Owner(k)' # 0 /\ (tr'[Owner(k)'].at = "off" \/ tr'[Owner(k)'].fd = disk.part[k])
      <4>1. j # Owner(k) BY <2>12, <3>3
      <4>2. Owner(k) # 0 /\ (tr[Owner(k)].at = "off" \/ tr[Owner(k)].fd = disk.part[k]) BY <1>0, <3>3, <4>1 DEF Parts, Running
      <4>3. Owner(k) # i BY <1>1, <1>3, <3>3, <4>2
      <4>4. Owner(k)' = Owner(k) /\ tr'[Owner(k)] = tr[Owner(k)] BY <2>4, <2>12, <2>13, <4>2, <4>3
      <4>. QED BY <4>2, <4>4
    <3>4. ASSUME NEW k \in Keys, Owner(k)' # 0, tr'[Owner(k)'].fd # 0 PROVE disk.part[k] \in {0, tr'[Owner(k)'].fd}
      <4>1. Owner(k)' = Owner(k) /\ Owner(k) \in Ids BY <2>12, <2>13, <3>4
      <4>. QED BY <1>0, <2>10, <3>4, <4>1 DEF Parts
    <3>5. ASSUME NEW k \in Keys, byKey'[k] # 0, tr'[byKey'[k]].state = "COMPLETED" \/ tr'[byKey'[k]].at = "complete"
          PROVE disk.part[k] = 0 /\ disk.whole[k] # 0 /\ Len(disk.data[disk.whole[k]]) = Size
      <4>1. byKey'[k] = byKey[k] /\ byKey[k] \in Ids /\ byKey[k] # i BY <2>11, <2>15, <3>5
      <4>. QED BY <1>0, <2>4, <3>5, <4>1 DEF Parts
    <3>. QED BY <2>8, <2>9, <2>10, <3>1, <3>2, <3>3, <3>4, <3>5 DEF Parts, Running
  <2>. QED BY <2>16, <2>17, <2>18, <2>19, <2>20, <2>21, <2>22, <2>23 DEF FilesInv
<1>. QED BY <1>4, <1>5 DEF StartDownload

\* Callers are orderly: no Remove of the key is under way.
LEMMA EnqueueHolds == ASSUME FilesInv, OrderlyCallers, NEW k \in Keys, Enqueue(k) PROVE FilesInv'
<1>0. FileTypes /\ KeysKnown /\ StepsFit /\ ConnsFit /\ Ownership /\ Inodes /\ Writers /\ Parts BY DEF FilesInv
<1>1. /\ tr \in [Ids -> Transfer] /\ made \in 0 .. MaxTransfers /\ scope \in Scopes
      /\ removal \in [Keys -> [at : {"idle", "forget", "drain", "unlink"}, tr : 0 .. MaxTransfers, late : BOOLEAN, clean : BOOLEAN]]
      /\ byKey \in [Keys -> 0 .. MaxTransfers]
BY <1>0 DEF FileTypes
<1>2. /\ byKey[k] = 0 /\ removal[k].at = "idle" /\ UNCHANGED <<life, scope, hook, offered, conns, byToken, disk>>
      /\ made' = made + 1 /\ byKey' = [byKey EXCEPT ![k] = made + 1] /\ removal' = [removal EXCEPT ![k].clean = FALSE]
BY <1>1 DEF Enqueue, CallUnchanged, OrderlyCallers
<1>3. PICK m \in Ids : m = made + 1
  <2>1. scope.transfers \in 0 .. MaxTransfers BY <1>1, Numbers
  <2>2. made < scope.transfers BY DEF Enqueue
  <2>. QED BY <1>1, <2>1, <2>2, Numbers
<1>4. m # 0 /\ m > made /\ made' = m /\ m \in 0 .. MaxTransfers BY <1>1, <1>2, <1>3, Numbers
<1>5. Unused(m) /\ tr[m].key = {} /\ ~Running(m) /\ \A j \in Ids : tr[j].fd # m /\ (j <= made' <=> j <= made \/ j = m)
  <2>1. Fresh(m) BY <1>4 DEF Fresh
  <2>2. Unused(m) /\ tr[m].key = {} /\ ~Running(m) BY <1>0, <1>4, <2>1 DEF Inodes, KeysKnown
  <2>. QED BY <1>1, <1>3, <1>4, <2>2, Numbers DEF Unused
<1>6. PICK b : b = [New EXCEPT !.key = {k}, !.at = "made", !.ctx = life = "stopping"] OBVIOUS
<1>7. b \in Transfer /\ b.key = {k} /\ b.state = "QUEUED" /\ b.at = "made" /\ ~b.waits /\ b.fd = 0
  <2>1. New \in Transfer /\ New.state = "QUEUED" /\ ~New.waits /\ New.fd = 0 BY Numbers DEF New, Transfer, Places
  <2>2. (life = "stopping") \in BOOLEAN OBVIOUS
  <2>. QED BY ZenonT(60), <1>6, <2>1, <2>2 DEF Transfer, Places
<1>8. tr' = [tr EXCEPT ![m] = b] BY <1>3, <1>6 DEF Enqueue
<1>9. tr'[m] = b /\ \A j \in Ids : j # m => tr'[j] = tr[j] BY <1>1, <1>8
<1>10. Fits(b) BY <1>7 DEF Fits, Negotiating, Streaming, InStream
<1>11. byKey'[k] = m /\ \A l \in Keys : l # k => byKey'[l] = byKey[l] BY <1>1, <1>2, <1>3
<1>12. /\ removal'[k].at = "idle" /\ removal'[k].late = removal[k].late /\ removal'[k].clean = FALSE
       /\ \A l \in Keys : l # k => removal'[l] = removal[l]
BY <1>1, <1>2
<1>13. Owner(k)' = m /\ Owner(k) = 0 BY <1>2, <1>11, <1>12 DEF Owner
<1>14. ASSUME NEW l \in Keys, l # k PROVE Owner(l)' = Owner(l) /\ Owner(l) # m
  <2>1. Owner(l)' = Owner(l)
    <3>1. removal'[l] = removal[l] /\ byKey'[l] = byKey[l] BY <1>11, <1>12, <1>14
    <3>. QED BY <3>1 DEF Owner
  <2>2. Owner(l) # 0 => tr[Owner(l)].key = {l} BY OwnerIs DEF Mine
  <2>. QED BY <1>4, <1>5, <2>1, <2>2
<1>15. \A l \in Keys : Owner(l) # 0 => Owner(l) \in Ids BY OwnerIs
<1>16. \A j \in Ids, l \in Keys : j # m => (Mine(j, l)' <=> Mine(j, l)) BY <1>9 DEF Mine
<1>17. \A j \in Ids : j # m => (Running(j)' <=> Running(j)) BY <1>9 DEF Running
<1>18. \A l \in Keys : Mine(m, l)' <=> l = k BY <1>7, <1>9 DEF Mine
<1>19. \A j \in Ids : tr'[j].fd = tr[j].fd \/ (j = m /\ tr'[j].fd = 0) BY <1>7, <1>9
\* Nothing of the key is open, or runs while it has a partial file.
<1>20. \A j \in Ids : disk.part[k] # 0 => tr[j].fd # disk.part[k] /\ ~(Mine(j, k) /\ Running(j))
  <2>1. \A j \in Ids : j # 0 BY Numbers
  <2>. QED BY <1>0, <1>13, <2>1 DEF Parts
<1>21. FileTypes'
  <2>1. tr' \in [Ids -> Transfer] BY <1>1, <1>7, <1>8
  <2>2. byKey' \in [Keys -> 0 .. MaxTransfers] BY <1>1, <1>2, <1>3, <1>4
  <2>3. removal' \in [Keys -> [at : {"idle", "forget", "drain", "unlink"}, tr : 0 .. MaxTransfers, late : BOOLEAN, clean : BOOLEAN]]
    BY ZenonT(60), <1>1, <1>2
  <2>4. 0 .. made \subseteq 0 .. made' BY <1>1, <1>2, Numbers
  <2>5. byToken' \in [Tokens -> 0 .. made'] BY <1>0, <1>2, <2>4 DEF FileTypes
  <2>6. hook' \in [Keys -> [tr : 0 .. made', token : Tokens \cup {0}]] BY <1>0, <1>2, <2>4 DEF FileTypes
  <2>. QED BY <1>0, <1>2, <1>4, <2>1, <2>2, <2>3, <2>5, <2>6 DEF FileTypes
<1>22. KeysKnown'
  <2>1. ASSUME NEW j \in Ids
        PROVE /\ j > made' => tr'[j].key = {} /\ ~Running(j)'
              /\ j <= made' => \E l \in Keys : Mine(j, l)'
    <3>1. CASE j = m BY <1>1, <1>4, <1>18, <3>1, Numbers
    <3>2. CASE j # m
      <4>1. j > made' => j > made BY <1>1, <1>3, <1>4, Numbers
      <4>. QED BY <1>0, <1>5, <1>9, <1>16, <1>17, <3>2, <4>1 DEF KeysKnown
    <3>. QED BY <3>1, <3>2
  <2>2. ASSUME NEW l \in Keys, byKey'[l] # 0 PROVE tr'[byKey'[l]].key = {l}
    <3>1. CASE l = k BY <1>7, <1>9, <1>11, <3>1
    <3>2. CASE l # k
      <4>1. byKey[l] # 0 /\ Owner(l) = byKey[l] /\ byKey[l] \in Ids /\ tr[byKey[l]].key = {l}
        BY <1>11, <1>15, <2>2, <3>2, OwnerIs DEF Mine
      <4>. QED BY <1>9, <1>11, <1>14, <3>2, <4>1
    <3>. QED BY <3>1, <3>2
  <2>3. ASSUME NEW l \in Keys, removal'[l].at # "idle"
        PROVE /\ removal'[l].tr # 0 /\ tr'[removal'[l].tr].key = {l} /\ byKey'[l] \in {0, removal'[l].tr}
              /\ removal'[l].at # "forget" => byKey'[l] = 0
              /\ tr'[removal'[l].tr].at # "off" => tr'[removal'[l].tr].state = "CANCELLED"
    <3>1. l # k /\ removal'[l] = removal[l] /\ byKey'[l] = byKey[l] BY <1>11, <1>12, <2>3
    <3>2. Owner(l) = removal[l].tr BY <2>3, <3>1 DEF Owner
    <3>3. /\ removal[l].tr # 0 /\ tr[removal[l].tr].key = {l} /\ byKey[l] \in {0, removal[l].tr}
          /\ removal[l].at # "forget" => byKey[l] = 0
          /\ tr[removal[l].tr].at # "off" => tr[removal[l].tr].state = "CANCELLED"
      BY <1>0, <2>3, <3>1 DEF KeysKnown, Mine, Running
    <3>4. tr'[removal[l].tr] = tr[removal[l].tr] BY <1>9, <1>14, <1>15, <3>1, <3>2, <3>3
    <3>. QED BY <3>1, <3>3, <3>4
  <2>. QED BY <2>1, <2>2, <2>3 DEF KeysKnown, Mine, Running
<1>23. StepsFit' BY <1>0, <1>9, <1>10 DEF StepsFit
<1>24. ConnsFit'
  <2>1. ASSUME NEW c \in Conns, conns[c].at \in Attached PROVE conns[c].tr \in 1 .. made' /\ Suits(conns[c], tr'[conns[c].tr])
    <3>1. conns[c].tr \in 1 .. made /\ Suits(conns[c], tr[conns[c].tr]) BY <1>0, <2>1 DEF ConnsFit
    <3>2. conns[c].tr \in Ids /\ conns[c].tr # m /\ conns[c].tr \in 1 .. made' BY <1>1, <1>3, <1>4, <3>1, Numbers
    <3>. QED BY <1>9, <3>1, <3>2
  <2>. QED BY <1>0, <1>2, <2>1 DEF ConnsFit
<1>25. Ownership'
  <2>1. ASSUME NEW l \in Keys, NEW j \in Ids, Mine(j, l)', Running(j)', Beyond(j, l)' PROVE removal'[l].late /\ Cut(j)'
    <3>1. j # m BY <1>12, <1>13, <1>18, <2>1 DEF Beyond
    <3>2. Mine(j, l) /\ Running(j) BY <1>16, <1>17, <2>1, <3>1
    <3>3. Beyond(j, l)
      <4>1. CASE l = k
        <5>1. j # 0 BY Numbers
        <5>. QED BY <1>13, <4>1, <5>1 DEF Beyond
      <4>2. CASE l # k BY <1>12, <1>14, <2>1, <4>2 DEF Beyond
      <4>. QED BY <4>1, <4>2
    <3>4. removal[l].late /\ Cut(j) BY <1>0, <3>2, <3>3 DEF Ownership
    <3>5. Cut(j)'
      <4>1. conns' = conns BY <1>2
      <4>. QED BY <1>9, <3>1, <3>4, <4>1 DEF Cut, Source
    <3>. QED BY <1>12, <3>4, <3>5
  <2>2. \A l \in Keys : removal'[l].clean => disk.part[l] = 0 /\ byKey'[l] = 0 /\ ~removal'[l].late /\ removal'[l].at = "idle"
    BY <1>0, <1>11, <1>12 DEF Ownership
  <2>. QED BY <1>2, <2>1, <2>2 DEF Ownership
<1>26. Inodes'
  <2>1. disk' = disk BY <1>2
  <2>2. ASSUME NEW x, NEW l \in SUBSET Keys, Refers(x, l), x # m PROVE Refers(x, l)' BY <1>9, <2>2 DEF Refers
  <2>3. \A l \in Keys : Refers(disk.part[l], {l})' /\ Refers(disk.whole[l], {l})'
    <3>1. \A l \in Keys : disk.part[l] # m /\ disk.whole[l] # m BY <1>5 DEF Unused
    <3>. QED BY <1>0, <2>1, <2>2, <3>1 DEF Inodes
  <2>4. ASSUME NEW j \in Ids, tr'[j].fd # 0 PROVE tr'[j].fd \in Ids /\ tr'[tr'[j].fd].key = tr'[j].key
    <3>1. j # m BY <1>7, <1>9, <2>4
    <3>2. tr'[j] = tr[j] /\ tr[j].fd # m BY <1>5, <1>9, <3>1
    <3>3. tr[j].fd \in Ids /\ tr[tr[j].fd].key = tr[j].key BY <1>0, <2>4, <3>2 DEF Inodes, Refers
    <3>. QED BY <1>9, <3>2, <3>3
  <2>5. ASSUME NEW x \in Ids, Fresh(x)' PROVE Unused(x)'
    <3>1. Fresh(x)
      <4>1. CASE x = m BY <1>4, <4>1 DEF Fresh
      <4>2. CASE x # m
        <5>1. x > made' => x > made BY <1>1, <1>3, <1>4, Numbers
        <5>. QED BY <1>9, <1>17, <2>5, <4>2, <5>1 DEF Fresh
      <4>. QED BY <4>1, <4>2
    <3>2. Unused(x) /\ x # 0 BY <1>0, <3>1, Numbers DEF Inodes
    <3>. QED BY <1>19, <2>1, <3>2 DEF Unused
  <2>6. \A j, l \in Ids : tr'[j].fd = tr'[l].fd /\ tr'[j].fd # 0 => j = l BY <1>0, <1>19 DEF Inodes
  <2>7. \A x \in Ids : Len(disk'.data[x]) <= Size BY <1>0, <2>1 DEF Inodes
  <2>8. \A j \in Ids : Refers(tr[j].fd, tr[j].key)' BY <2>4 DEF Refers
  <2>. QED BY <2>3, <2>5, <2>6, <2>7, <2>8 DEF Inodes
<1>27. Writers'
  <2>1. disk' = disk BY <1>2
  <2>2. \A j \in Ids : InPlace(tr'[j], disk'.data) BY <1>0, <1>7, <1>9, <2>1 DEF Writers, InPlace
  <2>3. ASSUME NEW l \in Keys, NEW j \in Ids, Mine(j, l)', tr'[j].at = "open", ~Beyond(j, l)' PROVE tr'[j].off = PartSize(l)'
    <3>1. j # m BY <1>7, <1>9, <2>3
    <3>2. l # k BY <1>13, <2>3, <3>1 DEF Beyond
    <3>3. Mine(j, l) /\ ~Beyond(j, l) /\ tr'[j] = tr[j] BY <1>9, <1>12, <1>14, <1>16, <2>3, <3>1, <3>2 DEF Beyond
    <3>. QED BY <1>0, <2>1, <2>3, <3>3 DEF Writers, PartSize
  <2>. QED BY <2>2, <2>3 DEF Writers
<1>28. Parts'
  <2>1. disk' = disk BY <1>2
  <2>2. ASSUME NEW l \in Keys, NEW j \in Ids, disk.part[l] # 0, tr'[j].fd = disk.part[l] PROVE j = Owner(l)'
    <3>1. tr[j].fd = disk.part[l] BY <1>19, <2>2
    <3>2. l # k /\ j = Owner(l) BY <1>0, <1>20, <2>2, <3>1 DEF Parts
    <3>. QED BY <1>14, <3>2
  <2>3. ASSUME NEW l \in Keys, NEW j \in Ids, disk.part[l] # 0, Mine(j, l)', Running(j)', j # Owner(l)'
        PROVE Owner(l)' # 0 /\ (tr'[Owner(l)'].at = "off" \/ tr'[Owner(l)'].fd = disk.part[l])
    <3>1. j # m BY <1>13, <1>18, <2>3
    <3>2. Mine(j, l) /\ Running(j) BY <1>16, <1>17, <2>3, <3>1
    <3>3. l # k BY <1>20, <2>3, <3>2
    <3>4. Owner(l)' = Owner(l) /\ Owner(l) # m BY <1>14, <3>3
    <3>5. Owner(l) # 0 /\ (tr[Owner(l)].at = "off" \/ tr[Owner(l)].fd = disk.part[l])
      BY <1>0, <2>3, <3>2, <3>4 DEF Parts, Running
    <3>6. tr'[Owner(l)] = tr[Owner(l)] BY <1>9, <1>15, <3>4, <3>5
    <3>. QED BY <3>4, <3>5, <3>6
  <2>4. ASSUME NEW l \in Keys, Owner(l)' # 0, tr'[Owner(l)'].fd # 0 PROVE disk.part[l] \in {0, tr'[Owner(l)'].fd}
    <3>1. l # k BY <1>7, <1>9, <1>13, <2>4
    <3>2. Owner(l)' = Owner(l) /\ Owner(l) # m BY <1>14, <3>1
    <3>3. tr'[Owner(l)] = tr[Owner(l)] BY <1>9, <1>15, <2>4, <3>2
    <3>. QED BY <1>0, <2>4, <3>2, <3>3 DEF Parts
  <2>5. ASSUME NEW l \in Keys, byKey'[l] # 0, tr'[byKey'[l]].state = "COMPLETED" \/ tr'[byKey'[l]].at = "complete"
        PROVE disk.part[l] = 0 /\ disk.whole[l] # 0 /\ Len(disk.data[disk.whole[l]]) = Size
    <3>1. l # k BY <1>7, <1>9, <1>11, <2>5
    <3>2. byKey'[l] = byKey[l] /\ Owner(l) = byKey[l] BY <1>11, <2>5, <3>1, OwnerIs
    <3>3. tr'[byKey[l]] = tr[byKey[l]] BY <1>9, <1>14, <1>15, <2>5, <3>1, <3>2
    <3>. QED BY <1>0, <2>5, <3>2, <3>3 DEF Parts
  <2>. QED BY <2>1, <2>2, <2>3, <2>4, <2>5 DEF Parts, Running
<1>. QED BY <1>21, <1>22, <1>23, <1>24, <1>25, <1>26, <1>27, <1>28 DEF FilesInv

LEMMA FilesStart == Init => FilesInv
<1>. SUFFICES ASSUME Init PROVE FilesInv OBVIOUS
<1>1. \A i \in Ids : tr[i] = New BY DEF Init
<1>2. New \in Transfer /\ New.key = {} /\ New.at = "off" /\ New.state = "QUEUED" /\ ~New.waits /\ New.fd = 0
BY Numbers DEF New, Transfer, Places
<1>3. /\ \A k \in Keys : removal[k].at = "idle" /\ ~removal[k].clean /\ byKey[k] = 0
      /\ \A k \in Keys : disk.part[k] = 0 /\ disk.whole[k] = 0
      /\ \A i \in Ids : disk.data[i] = <<>>
BY DEF Init, NoRemoval
<1>4. FileTypes
  <2>1. \A c \in Conns : conns[c] \in Connection BY Numbers DEF Init, Connection
  <2>2. conns \in [Conns -> Connection] BY <2>1 DEF Init
  <2>3. tr \in [Ids -> Transfer] BY <1>2 DEF Init
  <2>4. disk \in [part : [Keys -> 0 .. MaxTransfers], data : [Ids -> Seq(Nat)], whole : [Keys -> 0 .. MaxTransfers]]
    BY Numbers DEF Init
  <2>5. made = 0 /\ 0 \in 0 .. MaxTransfers /\ 0 \in 0 .. made BY Numbers DEF Init
  <2>6. removal \in [Keys -> [at : {"idle", "forget", "drain", "unlink"}, tr : 0 .. MaxTransfers, late : BOOLEAN, clean : BOOLEAN]]
    BY <2>5 DEF Init, NoRemoval
  <2>7. hook \in [Keys -> [tr : 0 .. made, token : Tokens \cup {0}]] BY <2>5 DEF Init, NoFrame
  <2>8. byKey \in [Keys -> 0 .. MaxTransfers] /\ byToken \in [Tokens -> 0 .. made] BY <2>5 DEF Init
  <2>9. offered \in [Keys -> [tokens : SUBSET Tokens, sent : Nat]] BY DEF Init
  <2>10. life = "up" /\ scope \in Scopes BY DEF Init
  <2>. QED BY <2>2, <2>3, <2>4, <2>5, <2>6, <2>7, <2>8, <2>9, <2>10 DEF FileTypes
<1>5. made = 0 /\ \A i \in Ids : ~(i <= made) /\ i # 0 BY Numbers DEF Init
<1>6. \A i \in Ids : ~Running(i) BY <1>1, <1>2 DEF Running
<1>7. KeysKnown BY <1>1, <1>2, <1>3, <1>5, <1>6 DEF KeysKnown
<1>8. StepsFit BY <1>1, <1>2 DEF StepsFit, Fits, Streaming, InStream, Negotiating
<1>9. ConnsFit
  <2>1. \A c \in Conns : conns[c].at = "none" BY DEF Init
  <2>. QED BY <2>1 DEF ConnsFit, Attached
<1>10. Ownership BY <1>3, <1>6 DEF Ownership
<1>11. Inodes
  <2>1. \A x \in Ids : Len(disk.data[x]) <= Size BY <1>3, Numbers
  <2>2. \A x \in Ids : Unused(x) BY <1>1, <1>2, <1>3, <1>5 DEF Unused
  <2>3. \A i \in Ids : tr[i].fd = 0 BY <1>1, <1>2
  <2>. QED BY <1>3, <2>1, <2>2, <2>3 DEF Inodes, Refers
<1>12. Writers BY <1>1, <1>2 DEF Writers, InPlace
<1>13. Parts BY <1>3, <1>6 DEF Parts, Owner
<1>. QED BY <1>4, <1>7, <1>8, <1>9, <1>10, <1>11, <1>12, <1>13 DEF FilesInv

LEMMA FilesStep == OrderlyCallers /\ FilesInv /\ [Next]_vars => FilesInv'
<1>. SUFFICES ASSUME OrderlyCallers, FilesInv, [Next]_vars PROVE FilesInv' OBVIOUS
<1>1. ASSUME NEW k \in Keys, Enqueue(k) \/ Cancel(k) \/ Remove(k) \/ Frame(k) PROVE FilesInv'
BY <1>1, EnqueueHolds, CancelHolds, BeginsHolds, ForgetsHolds, DrainsHolds, UnlinksHold, RequestHolds, RegisterHolds
DEF Remove, Frame
<1>2. ASSUME NEW c \in Conns, (\E k \in Keys : OpenFileConn(k, c)) \/ FileConn(c) \/ CloseOnCancel(c) PROVE FilesInv'
BY <1>2, FileConnsHold
<1>3. ASSUME NEW i \in Ids, StartDownload(i) \/ RunDownload(i) PROVE FilesInv' BY <1>3, StartHolds, RunHolds
<1>4. CASE StopLifecycle BY <1>4, StopHolds
<1>5. CASE Restart BY <1>5, RestartHolds
<1>6. CASE UNCHANGED vars
  <2>1. FileTypes' BY <1>6 DEF vars, FilesInv, FileTypes
  <2>2. KeysKnown' BY <1>6 DEF vars, FilesInv, KeysKnown, Mine, Running
  <2>3. Ownership' BY <1>6 DEF vars, FilesInv, Ownership, Mine, Running, Beyond, Owner, Cut, Source
  <2>. QED BY <1>6, <2>1, <2>2, <2>3, RemovalHolds DEF vars, Owner
<1>. QED BY <1>1, <1>2, <1>3, <1>4, <1>5, <1>6 DEF Next

(***************************************************************************)
(* What an inode holds                                                     *)
(***************************************************************************)
Written == \A x \in Ids : \A n \in 1 .. Len(disk.data[x]) : disk.data[x][n] = n

LEMMA TypesAre ==
  ASSUME FilesInv
  PROVE /\ tr \in [Ids -> Transfer] /\ conns \in [Conns -> Connection] /\ byToken \in [Tokens -> 0 .. made]
        /\ hook \in [Keys -> [tr : 0 .. made, token : Tokens \cup {0}]]
        /\ offered \in [Keys -> [tokens : SUBSET Tokens, sent : Nat]]
        /\ disk \in [part : [Keys -> 0 .. MaxTransfers], data : [Ids -> Seq(Nat)], whole : [Keys -> 0 .. MaxTransfers]]
        /\ 1 .. made \subseteq Ids /\ (0 .. made) \ {0} \subseteq Ids
<1>1. made \in 0 .. MaxTransfers BY SMTT(40) DEF FilesInv, FileTypes
<1>2. 1 .. made \subseteq Ids /\ (0 .. made) \ {0} \subseteq Ids BY SMTT(40), <1>1, Numbers
<1>. QED BY <1>2 DEF FilesInv, FileTypes

\* Only WriteBlock changes what an inode holds.
LEMMA DataStays ==
  ASSUME FilesInv, NEW i \in Ids, StartDownload(i) \/ RunDownload(i)
  PROVE \/ disk'.data = disk.data
        \/ tr[i].at = "write" /\ WriteBlock(i) /\ disk' = [disk EXCEPT !.data[tr[i].fd] = Append(@, tr[i].off)]
<1>1. disk \in [part : [Keys -> 0 .. MaxTransfers], data : [Ids -> Seq(Nat)], whole : [Keys -> 0 .. MaxTransfers]]
BY SMTT(40) DEF FilesInv, FileTypes
<1>2. \A k : Put(k).data = disk.data BY SMTT(40), <1>1 DEF Put
<1>3. CASE ~StreamFile(i)
BY <1>3 DEF StartDownload, RunDownload, ConnectPeer, WaitInQueue, AwaitFileConn, SendTransferAccept, Negotiate, GiveUp,
   StopAwaiting, StartStream
<1>4. CASE ResumeOffset(i) BY <1>1, <1>2, <1>4 DEF ResumeOffset
<1>5. CASE OpenPart(i) BY SMTT(40), <1>1, <1>5 DEF OpenPart
<1>6. CASE ReadBlock(i) BY SMTT(40), <1>6 DEF ReadBlock
<1>7. CASE WriteBlock(i) BY <1>7 DEF WriteBlock
<1>8. CASE RenamePart(i) BY <1>2, <1>8 DEF RenamePart
<1>9. CASE Complete(i) BY <1>9 DEF Complete
<1>. QED BY <1>3, <1>4, <1>5, <1>6, <1>7, <1>8, <1>9 DEF StreamFile

\* What writing one more block makes of an inode.
LEMMA OneMore ==
  ASSUME NEW s \in Seq(Nat), NEW e \in Nat
  PROVE \E q : /\ q = Append(s, e) /\ Len(q) = Len(s) + 1 /\ q[Len(s) + 1] = e
               /\ \A n \in 1 .. Len(s) : q[n] = s[n]
<1>. WITNESS Append(s, e)
<1>. QED BY AppendProperties

\* The block that is written is the one that comes next in its inode.
LEMMA WriteKeeps ==
  ASSUME FilesInv, Written, NEW i \in Ids, tr[i].at = "write", disk' = [disk EXCEPT !.data[tr[i].fd] = Append(@, tr[i].off)]
  PROVE Written'
<1>0. Running(i) BY DEF Running
<1>1. /\ tr[i] \in Transfer /\ Fits(tr[i])
      /\ disk \in [part : [Keys -> 0 .. MaxTransfers], data : [Ids -> Seq(Nat)], whole : [Keys -> 0 .. MaxTransfers]]
BY <1>0, StreamIs, TypesAre
<1>2. PICK x \in Ids : x = tr[i].fd BY <1>0, <1>1 DEF FilesInv, Inodes, Refers, Fits
<1>3. PICK e \in Nat : e = tr[i].off BY <1>1, Numbers DEF Transfer
<1>4. e = Len(disk.data[x]) + 1 BY <1>0, <1>2, <1>3 DEF FilesInv, Writers, InPlace
<1>5. disk.data[x] \in Seq(Nat) /\ disk.data \in [Ids -> Seq(Nat)] BY <1>1
<1>6. PICK q : /\ q = Append(disk.data[x], e) /\ Len(q) = Len(disk.data[x]) + 1 /\ q[Len(disk.data[x]) + 1] = e
               /\ \A n \in 1 .. Len(disk.data[x]) : q[n] = disk.data[x][n]
BY <1>3, <1>5, OneMore
<1>8. disk'.data = [disk.data EXCEPT ![x] = q]
  <2>1. PICK f : f = [disk.data EXCEPT ![x] = q] OBVIOUS
  <2>2. disk' = [disk EXCEPT !.data = f] BY <1>2, <1>3, <1>6, <2>1
  <2>3. disk'.data = f BY <1>1, <2>2
  <2>. QED BY <2>1, <2>3
<1>9. ASSUME NEW y \in Ids, NEW n \in 1 .. Len(disk'.data[y]) PROVE disk'.data[y][n] = n
  <2>1. CASE y = x
    <3>1. disk'.data[y] = q BY <1>5, <1>8, <2>1
    <3>2. Len(disk.data[x]) \in Nat BY <1>5, LenProperties
    <3>3. n \in 1 .. Len(disk.data[x]) \/ n = Len(disk.data[x]) + 1 BY <1>6, <1>9, <3>1, <3>2
    <3>4. CASE n \in 1 .. Len(disk.data[x]) BY <1>6, <2>1, <3>1, <3>4 DEF Written
    <3>5. CASE n = Len(disk.data[x]) + 1 BY <1>4, <1>6, <3>1, <3>5
    <3>. QED BY <3>3, <3>4, <3>5
  <2>2. CASE y # x
    <3>1. disk'.data[y] = disk.data[y] BY <1>5, <1>8, <2>2
    <3>. QED BY <1>9, <3>1 DEF Written
  <2>. QED BY <2>1, <2>2
<1>. QED BY <1>9 DEF Written

LEMMA WrittenStart == Init => Written
<1>. SUFFICES ASSUME Init PROVE Written OBVIOUS
<1>1. \A x \in Ids : disk.data[x] = <<>> BY DEF Init
<1>2. \A x \in Ids : 1 .. Len(disk.data[x]) = {} BY <1>1
<1>. QED BY <1>2 DEF Written

LEMMA WrittenStep == FilesInv /\ Written /\ [Next]_vars => Written'
<1>. SUFFICES ASSUME FilesInv, Written, [Next]_vars PROVE Written' OBVIOUS
<1>1. ASSUME disk'.data = disk.data PROVE Written' BY <1>1 DEF Written
<1>2. ASSUME NEW k \in Keys, Enqueue(k) \/ Cancel(k) \/ Remove(k) PROVE disk'.data = disk.data
  <2>1. CASE RemoveUnlinks(k) BY <2>1, TypesAre DEF RemoveUnlinks
  <2>. QED BY <1>2, <2>1 DEF Enqueue, Cancel, Remove, RemoveBegins, RemoveForgets, RemoveDrains, CallUnchanged
<1>3. ASSUME NEW k \in Keys, Frame(k) PROVE disk' = disk BY <1>3 DEF Frame, TransferRequest, RegisterToken, FrameUnchanged
<1>4. ASSUME NEW c \in Conns, (\E k \in Keys : OpenFileConn(k, c)) \/ FileConn(c) \/ CloseOnCancel(c) PROVE disk' = disk
BY <1>4 DEF OpenFileConn, FileConn, ClaimByToken, AttachFileConn, CloseOnCancel, ConnUnchanged
<1>5. ASSUME NEW i \in Ids, StartDownload(i) \/ RunDownload(i) PROVE Written' BY <1>1, <1>5, DataStays, WriteKeeps
<1>6. CASE StopLifecycle \/ Restart \/ UNCHANGED vars
  <2>1. disk'.data = disk.data BY <1>6 DEF StopLifecycle, Restart, vars
  <2>. QED BY <1>1, <2>1
<1>. QED BY <1>1, <1>2, <1>3, <1>4, <1>5, <1>6 DEF Next

(***************************************************************************)
(* What follows                                                            *)
(***************************************************************************)
LEMMA OneWaits ==
  ASSUME FilesInv, NEW i \in Ids PROVE Cardinality({c \in Conns : conns[c].at = "waiting" /\ conns[c].tr = i}) <= 1
<1> DEFINE S == {c \in Conns : conns[c].at = "waiting" /\ conns[c].tr = i}
<1>1. \A c, d \in S : c = d BY DEF FilesInv, ConnsFit
<1>2. CASE S = {} BY <1>2, FS_EmptySet
<1>3. CASE S # {}
  <2>1. PICK c : c \in S BY <1>3
  <2>2. S = {c} BY <1>1, <2>1
  <2>3. Cardinality({c}) = 1 BY FS_Singleton
  <2>4. Cardinality(S) = 1 BY <2>2, <2>3
  <2>. QED BY <2>4
<1>. QED BY <1>2, <1>3

LEMMA FilesTyped == FilesInv => TypeOK
<1>. SUFFICES ASSUME FilesInv PROVE TypeOK OBVIOUS
<1>1. tr \in [Ids -> Transfer] /\ conns \in [Conns -> Connection] /\ byToken \in [Tokens -> 0 .. made] BY TypesAre
<1>2. made \in 0 .. MaxTransfers /\ life \in {"up", "again", "stopping"} /\ scope \in Scopes /\ byKey \in [Keys -> 0 .. MaxTransfers]
BY DEF FilesInv, FileTypes
<1>3. ASSUME NEW x, x = 0 \/ (x \in Ids /\ ~Unused(x)) PROVE x \in 0 .. made
  <2>1. CASE x = 0 BY <1>2, <2>1, Numbers
  <2>2. CASE x \in Ids /\ ~Unused(x)
    <3>1. ~(x > made) BY <2>2 DEF FilesInv, Inodes, Fresh
    <3>. QED BY <1>2, <2>2, <3>1, Numbers
  <2>. QED BY <1>3, <2>1, <2>2
<1>4. \A i \in Ids : tr[i].fd \in 0 .. made
  <2>1. \A i \in Ids : tr[i].fd # 0 => tr[i].fd \in Ids BY DEF FilesInv, Inodes, Refers
  <2>. QED BY <1>3, <2>1 DEF Unused
<1>5. \A k \in Keys : disk.part[k] \in 0 .. made /\ disk.whole[k] \in 0 .. made
  <2>1. \A k \in Keys : (disk.part[k] # 0 => disk.part[k] \in Ids) /\ (disk.whole[k] # 0 => disk.whole[k] \in Ids)
    BY DEF FilesInv, Inodes, Refers
  <2>. QED BY <1>3, <2>1 DEF Unused
<1>6. byKey \in [Keys -> 0 .. made]
  <2>1. \A k \in Keys : byKey[k] \in 0 .. made
    <3>1. \A k \in Keys : byKey[k] # 0 => byKey[k] <= made BY OwnerIs
    <3>. QED BY <1>2, <3>1, Numbers
  <2>. QED BY <1>2, <2>1
<1>7. \A i \in Ids : /\ tr[i].state \in {"QUEUED", "IN_PROGRESS", "COMPLETED", "ERRORED", "CANCELLED"}
                     /\ tr[i].token \in Tokens \cup {0} /\ tr[i].req \in Tokens \cup {0} /\ tr[i].off \in 0 .. Size
BY <1>1 DEF Transfer
<1>8. \A c \in Conns : conns[c].at \in {"none", "opened", "claimed", "waiting", "held", "cut", "closed"}
BY <1>1 DEF Connection, Attached
<1>. QED BY <1>1, <1>2, <1>4, <1>5, <1>6, <1>7, <1>8, OneWaits DEF TypeOK

LEMMA FilesSound == FilesInv => NoConnLeaks /\ NoPartAfterRemove /\ OneOrchestration
<1>. SUFFICES ASSUME FilesInv PROVE NoConnLeaks /\ NoPartAfterRemove /\ OneOrchestration OBVIOUS
<1>1. NoConnLeaks
  <2>1. ASSUME NEW c \in Conns, conns[c].at \in {"waiting", "held", "cut"} PROVE Running(conns[c].tr)
    <3>1. conns[c].tr \in Ids /\ Suits(conns[c], tr[conns[c].tr]) BY <2>1, TypesAre DEF FilesInv, ConnsFit, Attached
    <3>2. Fits(tr[conns[c].tr]) BY <3>1 DEF FilesInv, StepsFit
    <3>. QED BY <2>1, <3>1, <3>2 DEF Suits, Fits, Running, Streaming, InStream, Negotiating
  <2>. QED BY <2>1 DEF NoConnLeaks
<1>2. NoPartAfterRemove BY DEF NoPartAfterRemove, FilesInv, Ownership
<1>3. OneOrchestration
  <2>1. ASSUME NEW k \in Keys, ~removal[k].late, NEW i \in Ids, tr[i].key = {k}, Running(i) PROVE i = Owner(k)
    BY <2>1 DEF FilesInv, Ownership, Mine, Beyond
  <2>. QED BY <2>1 DEF OneOrchestration
<1>. QED BY <1>1, <1>2, <1>3

LEMMA FilesIntact == FilesInv /\ Written => FileIntact
<1>. SUFFICES ASSUME FilesInv, Written, NEW k \in Keys, byKey[k] # 0, tr[byKey[k]].state = "COMPLETED" PROVE Intact(k)
BY DEF FileIntact
<1>1. disk.whole[k] # 0 /\ Len(disk.data[disk.whole[k]]) = Size BY DEF FilesInv, Parts
<1>2. PICK x \in Ids : x = disk.whole[k] /\ tr[x].key = {k} BY <1>1 DEF FilesInv, Inodes, Refers
<1>3. disk.data[x] \in Seq(Nat) BY TypesAre
<1>4. DOMAIN disk.data[x] = 1 .. Size /\ disk.data[x] = [n \in 1 .. Size |-> disk.data[x][n]]
BY <1>1, <1>2, <1>3, LenProperties
<1>5. \A n \in 1 .. Size : disk.data[x][n] = n BY <1>1, <1>2 DEF Written
<1>. QED BY <1>1, <1>2, <1>4, <1>5 DEF Intact

\* Whatever the peers send: one goroutine to a destination, no connection left
\* open, no partial file after a Remove, and every completed file whole, each
\* block once and in its place (runDownload, streamFile, Remove).
THEOREM DownloadsHold == ASSUME OrderlyCallers PROVE Spec => []DownloadsAreSound
<1>1. Init => FilesInv /\ Written BY FilesStart, WrittenStart
<1>2. FilesInv /\ Written /\ [Next]_vars => FilesInv' /\ Written' BY FilesStep, WrittenStep
<1>3. FilesInv /\ Written => DownloadsAreSound BY FilesTyped, FilesSound, FilesIntact DEF DownloadsAreSound
<1>. QED BY <1>1, <1>2, <1>3, PTL DEF Spec

(***************************************************************************)
(* What the pipeline may rely on: every step is one of RemoteTransfers     *)
(***************************************************************************)
Implements == [Abstract!Next]_(Abstract!vars)
Stored == [k \in Keys |-> Intact(k)]

\* How a transfer may be seen to move on.
Follows(s, t) ==
  \/ s = t
  \/ s = "QUEUED" /\ t = "IN_PROGRESS"
  \/ s = "IN_PROGRESS" /\ t = "COMPLETED"
  \/ s \in {"QUEUED", "IN_PROGRESS", "CANCELLED"} /\ t = "ERRORED"
  \/ s \in {"QUEUED", "IN_PROGRESS", "ERRORED"} /\ t = "CANCELLED"

LEMMA ViewIs ==
  /\ View = [k \in Keys |-> View[k]]
  /\ \A k \in Keys : View[k] = IF byKey[k] = 0 THEN "NONE" ELSE tr[byKey[k]].state
BY DEF View

\* The files decide alone what is stored.
LEMMA StoredStays == ASSUME disk' = disk PROVE Stored' = Stored
BY DEF Stored, Intact

LEMMA NothingShown == ASSUME View' = View, Stored' = Stored PROVE Implements
BY DEF Implements, Abstract!vars, Stored

\* Nothing is seen but that one file is stored, or is no longer.
LEMMA FilesShown ==
  ASSUME FileIntact', View' = View, NEW k \in Keys, \A l \in Keys : l # k => (Intact(l)' <=> Intact(l))
  PROVE Implements
<1>1. CASE Intact(k)' <=> Intact(k)
  <2>1. \A l \in Keys : Intact(l)' = Intact(l) BY <1>1 DEF Intact
  <2>2. Stored' = Stored BY <2>1 DEF Stored
  <2>. QED BY <2>2, NothingShown
<1>2. CASE Intact(k)' /\ ~Intact(k)
  <2>1. Intact(k)' = TRUE /\ \A l \in Keys : l # k => Intact(l)' = Intact(l) BY <1>2 DEF Intact
  <2>2. Stored' = [Stored EXCEPT ![k] = TRUE] BY <2>1 DEF Stored
  <2>3. Abstract!Store(k) BY <2>2 DEF Abstract!Store, Stored
  <2>. QED BY <2>3 DEF Implements, Abstract!Next
<1>3. CASE ~Intact(k)' /\ Intact(k)
  <2>1. Intact(k)' = FALSE /\ \A l \in Keys : l # k => Intact(l)' = Intact(l) BY <1>3 DEF Intact
  <2>2. Stored' = [Stored EXCEPT ![k] = FALSE] BY <2>1 DEF Stored
  <2>3. View[k] # "COMPLETED"
    <3>1. View'[k] = IF byKey'[k] = 0 THEN "NONE" ELSE tr'[byKey'[k]].state BY DEF View
    <3>. QED BY <1>3, <3>1 DEF FileIntact
  <2>4. Abstract!Overwrite(k) BY <2>2, <2>3 DEF Abstract!Overwrite, Stored
  <2>. QED BY <2>4 DEF Implements, Abstract!Next
<1>. QED BY <1>1, <1>2, <1>3

\* One transfer moves on, registered or not.
LEMMA TransferShown ==
  ASSUME FilesInv, FileIntact', NEW i \in Ids, Follows(tr[i].state, tr'[i].state), byKey' = byKey, disk' = disk,
         \A j \in Ids : j # i => tr'[j].state = tr[j].state
  PROVE Implements
<1> DEFINE t == tr'[i].state
<1>1. Stored' = Stored BY StoredStays
<1>2. \A k \in Keys : byKey[k] # 0 => byKey[k] \in Ids /\ Mine(byKey[k], k) BY OwnerIs
<1>3. \A k \in Keys : View'[k] = IF byKey[k] = 0 THEN "NONE" ELSE tr'[byKey[k]].state BY DEF View
<1>4. CASE \A k \in Keys : byKey[k] # i
  <2>1. \A k \in Keys : View'[k] = View[k] BY <1>2, <1>3, <1>4, ViewIs
  <2>2. View' = View BY <2>1 DEF View
  <2>. QED BY <1>1, <2>2, NothingShown
<1>5. ASSUME NEW k \in Keys, byKey[k] = i PROVE Implements
  <2>1. i # 0 BY Numbers
  <2>2. \A l \in Keys : byKey[l] = i => l = k BY <1>2, <1>5, <2>1, OwnerIs
  <2>3. View'[k] = t /\ View[k] = tr[i].state BY <1>3, <1>5, <2>1, ViewIs
  <2>4. \A l \in Keys : l # k => View'[l] = View[l] BY <1>2, <1>3, <2>2, ViewIs
  <2>5. View' = [View EXCEPT ![k] = t] BY <2>3, <2>4 DEF View
  <2>6. CASE View[k] = t
    <3>1. View' = View BY <2>5, <2>6 DEF View
    <3>. QED BY <1>1, <3>1, NothingShown
  <2>7. CASE View[k] = "QUEUED" /\ t = "IN_PROGRESS"
    <3>1. Abstract!Start(k) BY <1>1, <2>5, <2>7 DEF Abstract!Start, Abstract!Sets, Stored
    <3>. QED BY <3>1 DEF Implements, Abstract!Next
  <2>8. CASE View[k] = "IN_PROGRESS" /\ t = "COMPLETED"
    <3>1. Intact(k)' BY <1>5, <2>1, <2>8 DEF FileIntact
    <3>2. Intact(k) BY <3>1 DEF Intact
    <3>3. Abstract!Complete(k) BY <1>1, <2>5, <2>8, <3>2 DEF Abstract!Complete, Abstract!Sets, Stored
    <3>. QED BY <3>3 DEF Implements, Abstract!Next
  <2>9. CASE View[k] \in {"QUEUED", "IN_PROGRESS", "CANCELLED"} /\ t = "ERRORED"
    <3>1. Abstract!Fail(k) BY <1>1, <2>5, <2>9 DEF Abstract!Fail, Abstract!Sets, Abstract!Active, Stored
    <3>. QED BY <3>1 DEF Implements, Abstract!Next
  <2>10. CASE View[k] \in {"QUEUED", "IN_PROGRESS", "ERRORED"} /\ t = "CANCELLED"
    <3>1. Abstract!Cancel(k) BY <1>1, <2>5, <2>10 DEF Abstract!Cancel, Abstract!Sets, Abstract!Active, Stored
    <3>. QED BY <3>1 DEF Implements, Abstract!Next
  <2>. QED BY <2>3, <2>6, <2>7, <2>8, <2>9, <2>10 DEF Follows
<1>. QED BY <1>4, <1>5

\* What the goroutine of a transfer does to what is seen of it.
Seen(i, t) == tr'[i].state = t /\ \A j \in Ids : j # i => tr'[j].state = tr[j].state

LEMMA SeenSteps ==
  ASSUME FilesInv, NEW i \in Ids
  PROVE /\ \A s : Exit(i, s) => Seen(i, s)
        /\ \A s : tr' = [tr EXCEPT ![i] = Ended(i, s)] => Seen(i, s)
        /\ \A at : Goto(i, at) => Seen(i, tr[i].state)
        /\ \A reason : GivesUp(i, reason) => Seen(i, tr[i].state)
        /\ Fails(i) => Seen(i, "ERRORED") \/ (tr[i].state = "CANCELLED" /\ Seen(i, "CANCELLED"))
<1>1. tr \in [Ids -> Transfer] BY TypesAre
<1>2. \A s : Ended(i, s).state = s BY DEF Ended
<1>3. ASSUME NEW s, tr' = [tr EXCEPT ![i] = Ended(i, s)] PROVE Seen(i, s) BY <1>1, <1>2, <1>3 DEF Seen
<1>4. ASSUME NEW at, Goto(i, at) PROVE Seen(i, tr[i].state) BY <1>1, <1>4 DEF Goto, Transfer, Seen
<1>5. ASSUME NEW reason, GivesUp(i, reason) PROVE Seen(i, tr[i].state) BY <1>1, <1>5 DEF GivesUp, Transfer, Seen
<1>6. ASSUME Fails(i) PROVE Seen(i, "ERRORED") \/ (tr[i].state = "CANCELLED" /\ Seen(i, "CANCELLED")) BY <1>3, <1>6 DEF Fails
<1>. QED BY <1>3, <1>4, <1>5, <1>6 DEF Exit

\* As long as its goroutine runs, a transfer has not ended but by a cancel.
LEMMA StatesAre ==
  ASSUME FilesInv, NEW i \in Ids, Running(i)
  PROVE /\ tr[i].state \in {"QUEUED", "IN_PROGRESS", "CANCELLED"}
        /\ tr[i].at \in Streaming => tr[i].state \in {"IN_PROGRESS", "CANCELLED"}
        /\ tr[i].at \notin Streaming => tr[i].state \in {"QUEUED", "CANCELLED"}
BY DEF FilesInv, StepsFit, Fits, Running

LEMMA FollowsAre ==
  ASSUME FilesInv, NEW i \in Ids, Running(i)
  PROVE /\ Follows(tr[i].state, tr[i].state) /\ Follows(tr[i].state, "ERRORED")
        /\ tr[i].state = "CANCELLED" => Follows(tr[i].state, "CANCELLED")
        /\ tr[i].at \in Streaming /\ tr[i].state # "CANCELLED" => Follows(tr[i].state, "COMPLETED")
        /\ tr[i].at \notin Streaming /\ tr[i].state # "CANCELLED" => Follows(tr[i].state, "IN_PROGRESS")
BY StatesAre DEF Follows

\* The phases before the stream.
LEMMA QueueSeen ==
  ASSUME FilesInv, NEW i \in Ids,
         ConnectPeer(i) \/ WaitInQueue(i) \/ AwaitFileConn(i) \/ SendTransferAccept(i) \/ Negotiate(i) \/ GiveUp(i)
           \/ StopAwaiting(i) \/ StartStream(i)
  PROVE \E t : Seen(i, t) /\ Follows(tr[i].state, t)
<1>0. tr \in [Ids -> Transfer] BY TypesAre
<1>1. Running(i)
BY DEF Running, ConnectPeer, WaitInQueue, AwaitFileConn, SendTransferAccept, Negotiate, GiveUp, StopAwaiting, StartStream
<1>2. CASE ConnectPeer(i) BY <1>1, <1>2, SeenSteps, FollowsAre DEF ConnectPeer, Errored
<1>3. CASE WaitInQueue(i)
  <2>1. ASSUME tr' = [tr EXCEPT ![i].at = "accept", ![i].req = 0] PROVE Seen(i, tr[i].state) BY <1>0, <2>1 DEF Transfer, Seen
  <2>2. ASSUME Interrupted(i) PROVE Seen(i, "ERRORED") \/ (tr[i].state = "CANCELLED" /\ Seen(i, "CANCELLED"))
    BY <2>2, SeenSteps DEF Interrupted
  <2>. QED BY <1>1, <1>3, <2>1, <2>2, SeenSteps, FollowsAre DEF WaitInQueue, Errored
<1>4. CASE AwaitFileConn(i)
  <2>1. ASSUME tr' = [tr EXCEPT ![i].at = "send", ![i].waits = TRUE] PROVE Seen(i, tr[i].state) BY <1>0, <2>1 DEF Transfer, Seen
  <2>. QED BY <1>1, <1>4, <2>1, SeenSteps, FollowsAre DEF AwaitFileConn, Errored
<1>5. CASE SendTransferAccept(i) BY <1>1, <1>5, SeenSteps, FollowsAre DEF SendTransferAccept
<1>6. CASE Negotiate(i) BY <1>1, <1>6, SeenSteps, FollowsAre DEF Negotiate
<1>7. CASE GiveUp(i)
  <2>1. Seen(i, "ERRORED") \/ (tr[i].state = "CANCELLED" /\ Seen(i, "CANCELLED")) BY <1>7, SeenSteps DEF GiveUp
  <2>. QED BY <1>1, <2>1, FollowsAre
<1>8. CASE StopAwaiting(i)
  <2>1. tr' = [tr EXCEPT ![i].at = "start", ![i].waits = FALSE, ![i].req = 0] BY <1>8 DEF StopAwaiting
  <2>2. Seen(i, tr[i].state) BY <1>0, <2>1 DEF Transfer, Seen
  <2>. QED BY <1>1, <2>2, FollowsAre
<1>9. CASE StartStream(i)
  <2>1. ASSUME tr' = [tr EXCEPT ![i].at = "stat", ![i].state = "IN_PROGRESS"] PROVE Seen(i, "IN_PROGRESS")
    BY <1>0, <2>1 DEF Transfer, Seen
  <2>2. tr[i].at \notin Streaming BY <1>9 DEF StartStream, Streaming, InStream
  <2>. QED BY <1>1, <1>9, <2>1, <2>2, SeenSteps, FollowsAre DEF StartStream
<1>. QED BY <1>2, <1>3, <1>4, <1>5, <1>6, <1>7, <1>8, <1>9

\* The stream.
LEMMA StreamSeen ==
  ASSUME FilesInv, NEW i \in Ids, StreamFile(i)
  PROVE \E t : Seen(i, t) /\ Follows(tr[i].state, t) /\ (disk' # disk => t = tr[i].state)
<1>0. tr \in [Ids -> Transfer] BY SMTT(40), TypesAre
<1>1. Running(i) /\ tr[i].at \in Streaming
BY DEF Running, Streaming, InStream, StreamFile, ResumeOffset, OpenPart, ReadBlock, WriteBlock, RenamePart, Complete
<1>2. ASSUME Seen(i, tr[i].state) PROVE \E t : Seen(i, t) /\ Follows(tr[i].state, t) /\ (disk' # disk => t = tr[i].state)
BY <1>1, <1>2, FollowsAre
<1>3. ASSUME Fails(i), disk' = disk PROVE \E t : Seen(i, t) /\ Follows(tr[i].state, t) /\ (disk' # disk => t = tr[i].state)
BY <1>1, <1>3, SeenSteps, FollowsAre
<1>4. CASE ResumeOffset(i)
  <2>1. ASSUME NEW off, tr' = [tr EXCEPT ![i].at = "open", ![i].off = off] PROVE Seen(i, tr[i].state) BY <1>0, <2>1 DEF Transfer, Seen
  <2>. QED BY <1>2, <1>3, <1>4, <2>1, SeenSteps DEF ResumeOffset
<1>5. CASE OpenPart(i)
  <2>1. ASSUME NEW at, NEW fd, tr' = [tr EXCEPT ![i].at = at, ![i].fd = fd] PROVE Seen(i, tr[i].state) BY <1>0, <2>1 DEF Transfer, Seen
  <2>. QED BY <1>2, <1>3, <1>5, <2>1 DEF OpenPart
<1>6. CASE ReadBlock(i)
  <2>1. ASSUME tr' = [tr EXCEPT ![i].at = "write", ![i].off = tr[i].off + 1] PROVE Seen(i, tr[i].state) BY SMTT(40), <1>0, <2>1 DEF Transfer, Seen
  <2>. QED BY <1>2, <1>3, <1>6, <2>1 DEF ReadBlock
<1>7. CASE WriteBlock(i) BY <1>2, <1>3, <1>7, SeenSteps DEF WriteBlock
<1>8. CASE RenamePart(i) BY <1>2, <1>3, <1>8, SeenSteps DEF RenamePart
<1>9. CASE Complete(i)
  <2>1. \/ tr[i].state = "CANCELLED" /\ Seen(i, "CANCELLED")
        \/ tr[i].state # "CANCELLED" /\ Seen(i, "COMPLETED")
    BY <1>9, SeenSteps DEF Complete
  <2>2. disk' = disk BY <1>9 DEF Complete
  <2>. QED BY <1>1, <2>1, <2>2, FollowsAre
<1>. QED BY SMTT(40), <1>4, <1>5, <1>6, <1>7, <1>8, <1>9 DEF StreamFile

\* Only the file of the goroutine's own key is another one after a step.
LEMMA OneFile ==
  ASSUME FilesInv, NEW i \in Ids, StreamFile(i), NEW l \in Keys, l # KeyOf(i) PROVE Intact(l)' <=> Intact(l)
<1>0. Running(i) BY DEF Running, StreamFile, ResumeOffset, OpenPart, ReadBlock, WriteBlock, RenamePart, Complete
<1>1. KeyOf(i) \in Keys /\ tr[i].key = {KeyOf(i)} /\ Fits(tr[i]) BY <1>0, StreamIs DEF Mine
<1>2. disk \in [part : [Keys -> 0 .. MaxTransfers], data : [Ids -> Seq(Nat)], whole : [Keys -> 0 .. MaxTransfers]] BY TypesAre
<1>3. disk.whole[l] # 0 => disk.whole[l] \in Ids /\ tr[disk.whole[l]].key = {l} BY DEF FilesInv, Inodes, Refers
<1>4. ASSUME disk'.data = disk.data, disk'.whole[l] = disk.whole[l] PROVE Intact(l)' <=> Intact(l) BY <1>4 DEF Intact
<1>5. ASSUME disk' = Put(KeyOf(i)) PROVE disk'.data = disk.data /\ disk'.whole[l] = disk.whole[l]
  <2>1. disk'.data = disk.data /\ disk'.whole = [disk.whole EXCEPT ![KeyOf(i)] = disk.part[KeyOf(i)]] BY <1>2, <1>5 DEF Put
  <2>. QED BY <1>1, <1>2, <2>1
<1>6. ASSUME NEW f, disk' = [disk EXCEPT !.part = f] PROVE disk'.data = disk.data /\ disk'.whole = disk.whole BY <1>2, <1>6
<1>7. CASE ResumeOffset(i)
  <2>1. CASE disk' = [disk EXCEPT !.part[KeyOf(i)] = 0]
    <3>1. disk'.data = disk.data /\ disk'.whole = disk.whole BY <1>2, <2>1
    <3>. QED BY <1>4, <3>1
  <2>. QED BY <1>4, <1>5, <1>7, <2>1 DEF ResumeOffset
<1>8. CASE OpenPart(i)
  <2>1. disk'.data = disk.data /\ disk'.whole = disk.whole BY <1>2, <1>8 DEF OpenPart
  <2>. QED BY <1>4, <2>1
<1>9. CASE WriteBlock(i)
  <2>1. tr[i].fd # 0 /\ tr[i].fd \in Ids /\ tr[tr[i].fd].key = tr[i].key
    BY SMTT(40), <1>1, <1>9 DEF WriteBlock, Fits, FilesInv, Inodes, Refers
  <2>2. disk.whole[l] # tr[i].fd BY SMTT(40), <1>1, <1>3, <2>1
  <2>3. \/ disk' = disk
        \/ \E e : disk' = [disk EXCEPT !.data[tr[i].fd] = Append(@, e)]
    BY <1>9 DEF WriteBlock
  <2>4. disk'.whole = disk.whole /\ (disk.whole[l] # 0 => disk'.data[disk.whole[l]] = disk.data[disk.whole[l]])
    BY <1>2, <1>3, <2>1, <2>2, <2>3
  <2>. QED BY SMTT(40), <2>4 DEF Intact
<1>10. CASE RenamePart(i) BY <1>4, <1>5, <1>10 DEF RenamePart
<1>11. CASE ReadBlock(i) \/ Complete(i) BY SMTT(40), <1>4, <1>11 DEF ReadBlock, Complete
<1>. QED BY SMTT(40), <1>7, <1>8, <1>9, <1>10, <1>11 DEF StreamFile

LEMMA RunShown == ASSUME FilesInv, FileIntact', NEW i \in Ids, RunDownload(i) PROVE Implements
<1>1. byKey' = byKey
BY DEF RunDownload, StreamFile, ConnectPeer, WaitInQueue, AwaitFileConn, SendTransferAccept, Negotiate, GiveUp,
   StopAwaiting, StartStream, ResumeOffset, OpenPart, ReadBlock, WriteBlock, RenamePart, Complete, RunUnchanged
<1>2. CASE StreamFile(i)
  <2>1. PICK t : Seen(i, t) /\ Follows(tr[i].state, t) /\ (disk' # disk => t = tr[i].state) BY <1>2, StreamSeen
  <2>2. CASE disk' = disk BY <1>1, <2>1, <2>2, TransferShown DEF Seen
  <2>3. CASE disk' # disk
    <3>1. \A j \in Ids : tr'[j].state = tr[j].state BY <2>1, <2>3 DEF Seen
    <3>2. \A k \in Keys : byKey[k] # 0 => byKey[k] \in Ids BY SMTT(40), OwnerIs
    <3>3. View' = View BY SMTT(40), <1>1, <3>1, <3>2 DEF View
    <3>4. Running(i) BY <1>2 DEF Running, StreamFile, ResumeOffset, OpenPart, ReadBlock, WriteBlock, RenamePart, Complete
    <3>5. KeyOf(i) \in Keys BY <3>4, StreamIs
    <3>. QED BY <1>2, <3>3, <3>5, OneFile, FilesShown
  <2>. QED BY <2>2, <2>3
<1>3. CASE ~StreamFile(i)
  <2>1. PICK t : Seen(i, t) /\ Follows(tr[i].state, t) BY <1>3, QueueSeen DEF RunDownload
  <2>2. disk' = disk
    BY <1>3 DEF RunDownload, ConnectPeer, WaitInQueue, AwaitFileConn, SendTransferAccept, Negotiate, GiveUp, StopAwaiting, StartStream
  <2>. QED BY <1>1, <2>1, <2>2, TransferShown DEF Seen
<1>. QED BY SMTT(40), <1>2, <1>3

\* A key that is forgotten is removed, if it was known.
LEMMA ForgetShown ==
  ASSUME disk' = disk, NEW k \in Keys, byKey'[k] = 0, \A l \in Keys : l # k => View'[l] = View[l]
  PROVE Implements
<1>1. Stored' = Stored BY StoredStays
<1>2. View'[k] = "NONE" BY DEF View
<1>3. View' = [View EXCEPT ![k] = "NONE"] BY <1>2 DEF View
<1>4. CASE View[k] = "NONE"
  <2>1. View' = View BY <1>3, <1>4 DEF View
  <2>. QED BY <1>1, <2>1, NothingShown
<1>5. CASE View[k] # "NONE"
  <2>1. Abstract!Remove(k) BY <1>1, <1>3, <1>5 DEF Abstract!Remove, Abstract!Sets, Stored
  <2>. QED BY <2>1 DEF Implements, Abstract!Next
<1>. QED BY <1>4, <1>5

LEMMA StartShown == ASSUME FilesInv, FileIntact', NEW i \in Ids, StartDownload(i) PROVE Implements
<1>0. Running(i) /\ disk' = disk BY DEF StartDownload, Running
<1>1. CASE life # "stopping"
  <2>1. Seen(i, tr[i].state) /\ byKey' = byKey BY <1>1, SeenSteps DEF StartDownload
  <2>. QED BY <1>0, <2>1, FollowsAre, TransferShown DEF Seen
<1>2. CASE life = "stopping"
  <2>1. Seen(i, "ERRORED") /\ byKey' = [k \in Keys |-> IF byKey[k] = i THEN 0 ELSE byKey[k]]
    BY <1>2, SeenSteps DEF StartDownload, Errored
  <2>2. KeyOf(i) \in Keys /\ Mine(i, KeyOf(i)) /\ i # 0 BY <1>0, StreamIs
  <2>3. CASE byKey[KeyOf(i)] = i
    <3>1. \A l \in Keys : byKey[l] # 0 => byKey[l] \in Ids /\ Mine(byKey[l], l) BY OwnerIs
    <3>2. \A l \in Keys : l # KeyOf(i) => byKey[l] # i BY <2>2, <3>1, OwnerIs
    <3>3. \A l \in Keys : l # KeyOf(i) => View'[l] = View[l] BY <2>1, <3>1, <3>2 DEF View, Seen
    <3>. QED BY <1>0, <2>1, <2>2, <2>3, <3>3, ForgetShown
  <2>4. CASE byKey[KeyOf(i)] # i
    <3>1. \A l \in Keys : byKey[l] # 0 => byKey[l] \in Ids /\ Mine(byKey[l], l) BY OwnerIs
    <3>2. \A l \in Keys : byKey[l] # i BY <2>2, <2>4, <3>1, OwnerIs
    <3>3. byKey' = byKey BY <2>1, <3>2, TypesAre DEF FilesInv, FileTypes
    <3>. QED BY <1>0, <2>1, <3>3, FollowsAre, TransferShown DEF Seen
  <2>. QED BY <2>3, <2>4
<1>. QED BY <1>1, <1>2

\* The callers. A key in the registry is made known by Enqueue alone.
LEMMA CancelShown ==
  ASSUME FilesInv, FileIntact', NEW k \in Keys, byKey[k] # 0, MarkCancelled(byKey[k]), byKey' = byKey, disk' = disk
  PROVE Implements
<1>1. byKey[k] \in Ids BY OwnerIs
<1>2. PICK i \in Ids : i = byKey[k] BY <1>1
<1>3. tr \in [Ids -> Transfer] BY TypesAre
<1>4. tr'[i].state = IF tr[i].state = "COMPLETED" THEN "COMPLETED" ELSE "CANCELLED" BY <1>2, <1>3 DEF MarkCancelled, Transfer
<1>5. \A j \in Ids : j # i => tr'[j].state = tr[j].state BY <1>2, <1>3 DEF MarkCancelled
<1>6. tr[i].state \in {"QUEUED", "IN_PROGRESS", "COMPLETED", "ERRORED", "CANCELLED"} BY <1>3 DEF Transfer
<1>7. Follows(tr[i].state, tr'[i].state) BY <1>4, <1>6 DEF Follows
<1>. QED BY <1>5, <1>7, TransferShown

LEMMA EnqueueShown == ASSUME FilesInv, NEW k \in Keys, Enqueue(k) PROVE Implements
<1>1. byKey \in [Keys -> 0 .. MaxTransfers] /\ made \in 0 .. MaxTransfers /\ scope \in Scopes BY DEF FilesInv, FileTypes
<1>2. made + 1 \in Ids /\ made + 1 # 0
  <2>1. scope.transfers \in 0 .. MaxTransfers /\ made < scope.transfers BY <1>1, Numbers DEF Enqueue
  <2>. QED BY <1>1, <2>1, Numbers
<1>3. tr \in [Ids -> Transfer] BY TypesAre
<1>4. PICK b : b = [New EXCEPT !.key = {k}, !.at = "made", !.ctx = life = "stopping"] OBVIOUS
<1>5. b.state = "QUEUED" BY <1>4 DEF New
<1>6. tr' = [tr EXCEPT ![made + 1] = b] /\ byKey' = [byKey EXCEPT ![k] = made + 1] BY <1>4 DEF Enqueue
<1>7. \A l \in Keys : byKey[l] # 0 => byKey[l] \in Ids /\ byKey[l] <= made BY OwnerIs
<1>8. \A l \in Keys : byKey[l] # made + 1
  <2>1. ASSUME NEW l \in Keys, byKey[l] = made + 1 PROVE FALSE BY <1>1, <1>2, <1>7, <2>1
  <2>. QED BY <2>1
<1>9. View'[k] = "QUEUED" BY <1>1, <1>2, <1>3, <1>5, <1>6 DEF View
<1>10. \A l \in Keys : l # k => View'[l] = View[l] BY <1>1, <1>3, <1>6, <1>7, <1>8 DEF View
<1>11. View' = [View EXCEPT ![k] = "QUEUED"] BY <1>9, <1>10 DEF View
<1>12. View[k] = "NONE" BY DEF View, Enqueue
<1>13. Stored' = Stored BY StoredStays DEF Enqueue
<1>14. Abstract!Enqueue(k) BY <1>11, <1>12, <1>13 DEF Abstract!Enqueue, Abstract!Sets, Stored
<1>. QED BY <1>14 DEF Implements, Abstract!Next

\* Nothing is seen of a step that leaves keys, states and files as they are.
LEMMA HiddenStep ==
  ASSUME FilesInv, byKey' = byKey, disk' = disk \/ (disk'.data = disk.data /\ disk'.whole = disk.whole),
         \A j \in Ids : tr'[j].state = tr[j].state
  PROVE Implements
<1>1. \A k \in Keys : byKey[k] # 0 => byKey[k] \in Ids BY OwnerIs
<1>2. View' = View BY <1>1 DEF View
<1>3. Stored' = Stored BY DEF Stored, Intact
<1>. QED BY <1>2, <1>3, NothingShown

LEMMA CallersShown == ASSUME FilesInv, FileIntact', NEW k \in Keys, Enqueue(k) \/ Cancel(k) \/ Remove(k) PROVE Implements
<1>1. CASE Enqueue(k) BY <1>1, EnqueueShown
<1>2. CASE Cancel(k) BY <1>2, CancelShown DEF Cancel
<1>3. CASE RemoveBegins(k) BY <1>3, CancelShown DEF RemoveBegins, CallUnchanged
<1>4. CASE RemoveForgets(k)
  <2>1. byKey \in [Keys -> 0 .. MaxTransfers] BY DEF FilesInv, FileTypes
  <2>2. byKey'[k] = 0 /\ \A l \in Keys : l # k => byKey'[l] = byKey[l] BY <1>4, <2>1 DEF RemoveForgets
  <2>3. \A l \in Keys : l # k => View'[l] = View[l] BY <1>4, <2>2 DEF RemoveForgets, View
  <2>. QED BY <1>4, <2>2, <2>3, ForgetShown DEF RemoveForgets
<1>5. CASE RemoveDrains(k) BY <1>5, HiddenStep DEF RemoveDrains, CallUnchanged
<1>6. CASE RemoveUnlinks(k)
  <2>1. disk'.data = disk.data /\ disk'.whole = disk.whole BY <1>6, TypesAre DEF RemoveUnlinks
  <2>. QED BY <1>6, <2>1, HiddenStep DEF RemoveUnlinks, CallUnchanged
<1>. QED BY <1>1, <1>2, <1>3, <1>4, <1>5, <1>6 DEF Remove

LEMMA FrameShown == ASSUME FilesInv, NEW k \in Keys, Frame(k) PROVE Implements
<1>1. byKey' = byKey /\ disk' = disk BY DEF Frame, TransferRequest, RegisterToken, FrameUnchanged
<1>2. \A j \in Ids : tr'[j].state = tr[j].state
  <2>1. tr \in [Ids -> Transfer] BY TypesAre
  <2>2. CASE TransferRequest(k) BY <2>2 DEF TransferRequest
  <2>3. CASE RegisterToken(k)
    <3>1. PICK i, t : tr' = [tr EXCEPT ![i].token = t, ![i].req = IF Running(i) /\ @ = 0 THEN t ELSE @] BY <2>3 DEF RegisterToken
    <3>. QED BY <2>1, <3>1 DEF Transfer
  <2>. QED BY <2>2, <2>3 DEF Frame
<1>. QED BY <1>1, <1>2, HiddenStep

LEMMA BackendStarts == Init => Abstract!Init
<1>. SUFFICES ASSUME Init PROVE Abstract!Init OBVIOUS
<1>1. View = [k \in Keys |-> "NONE"] BY DEF Init, View
<1>2. \A k \in Keys : Intact(k) = FALSE BY DEF Init, Intact
<1>3. Stored = [k \in Keys |-> FALSE] BY <1>2 DEF Stored
<1>. QED BY <1>1, <1>3 DEF Abstract!Init, Stored

LEMMA BackendSteps == FilesInv /\ FileIntact' /\ [Next]_vars => Implements
<1>. SUFFICES ASSUME FilesInv, FileIntact', [Next]_vars PROVE Implements OBVIOUS
<1>1. ASSUME NEW k \in Keys, Enqueue(k) \/ Cancel(k) \/ Remove(k) PROVE Implements BY <1>1, CallersShown
<1>2. ASSUME NEW k \in Keys, Frame(k) PROVE Implements BY <1>2, FrameShown
<1>3. ASSUME NEW c \in Conns, (\E k \in Keys : OpenFileConn(k, c)) \/ FileConn(c) \/ CloseOnCancel(c) PROVE Implements
BY <1>3, HiddenStep DEF OpenFileConn, FileConn, ClaimByToken, AttachFileConn, CloseOnCancel, ConnUnchanged
<1>4. ASSUME NEW i \in Ids, StartDownload(i) \/ RunDownload(i) PROVE Implements BY <1>4, StartShown, RunShown
<1>5. CASE StopLifecycle
  <2>1. \A i \in Ids : tr'[i] = [tr[i] EXCEPT !.ctx = TRUE] \/ tr'[i] = tr[i] BY <1>5 DEF StopLifecycle
  <2>2. \A i \in Ids : tr'[i].state = tr[i].state BY <2>1, TypesAre DEF Transfer
  <2>. QED BY <1>5, <2>2, HiddenStep DEF StopLifecycle
<1>6. CASE Restart
  <2>1. View' = [k \in Keys |-> "NONE"] BY <1>6 DEF Restart, View
  <2>2. Stored' = Stored BY <1>6, StoredStays DEF Restart
  <2>3. Abstract!Forget BY <2>1, <2>2 DEF Abstract!Forget, Stored
  <2>. QED BY <2>3 DEF Implements, Abstract!Next
<1>7. CASE UNCHANGED vars BY <1>7, HiddenStep DEF vars
<1>. QED BY <1>1, <1>2, <1>3, <1>4, <1>5, <1>6, <1>7 DEF Next

\* What ListDownloads shows moves as the pipeline expects of a backend, and no
\* transfer is shown as completed before its file is in place and whole.
THEOREM BackendImplemented == ASSUME OrderlyCallers PROVE Spec => Abstract!Spec
<1>1. Init => FilesInv /\ Written /\ Abstract!Init BY FilesStart, WrittenStart, BackendStarts
<1>2. FilesInv /\ Written /\ [Next]_vars => FilesInv' /\ Written' BY FilesStep, WrittenStep
<1>3. FilesInv /\ Written => FileIntact BY FilesIntact
<1>4. FilesInv /\ FileIntact' /\ [Next]_vars => [Abstract!Next]_(Abstract!vars) BY BackendSteps DEF Implements
<1>. QED BY <1>1, <1>2, <1>3, <1>4, PTL DEF Spec, Abstract!Spec

(***************************************************************************)
(* Imports: the inductive invariant                                        *)
(***************************************************************************)
JobStates == Import!Over \cup {"waiting", "DOWNLOADING", "IMPORTING"}
AlbumJob ==
  [state : JobStates, leaf : Leaves \cup {None}, claimed : BOOLEAN, got : {"none", "all", "broken"}, submitted : BOOLEAN, late : BOOLEAN]
Deciding == {"resolve", "restore", "scan", "empty", "unmatched", "execute", "mark", "confirm", "refuse"}
Verdicts == Import!Over \cup {"waiting"}
Doings == [at : Deciding \cup {"idle", "write", "already", "clean", "tidy", "quarantine"}, job : Jobs \cup {None},
           verdict : Verdicts \cup {None}, todo : SUBSET Leaves]
Commands == [leaf : Leaves, files : SUBSET Jobs]

JobTypes == job \in [Jobs -> AlbumJob]
PlaceTypes ==
  /\ rows \in [Jobs -> [Leaves -> {"none", "open", "cleaned", "left"}]]
  /\ folders \in [Leaves -> SUBSET Jobs] /\ refused \in [Import!Names -> SUBSET Jobs] /\ failed \subseteq Jobs
  /\ lidarr \in [has : SUBSET Jobs, queue : SUBSET Commands]
\* A job that downloads, imports or may be retried has a folder.
HasFolder == \A j \in Jobs : job[j].state \in {"DOWNLOADING", "IMPORTING", "IMPORT_REFUSED"} => job[j].leaf \in Leaves

\* What a goroutine at work has read of its job is still so.
DownFits(r) ==
  r.at # "idle" => /\ r.at \in {"clean", "write"} /\ r.verdict = "waiting"
                   /\ job[r.job].state = "DOWNLOADING" /\ job[r.job].claimed /\ job[r.job].got = "broken"
ImpFits(r) ==
  /\ r.at # "quarantine"
  /\ r.at \in Deciding => job[r.job].state = "IMPORTING"
  /\ r.at \in {"write", "already"} => r.verdict \in Verdicts /\ job[r.job].state = "IMPORTING"
  /\ r.at = "tidy" => r.verdict = None /\ job[r.job].state = "DONE"
  /\ r.at = "clean" => \/ r.verdict = None /\ job[r.job].state = "DONE"
                       \/ r.verdict \in Verdicts /\ job[r.job].state = "IMPORTING"
SelFits(r) == r.at # "idle" => r.at = "quarantine" /\ r.verdict = None /\ job[r.job].state = "FAILED"
WorkFits(w, r) ==
  /\ r \in Doings /\ ((r.at = "idle") <=> (r.job = None))
  /\ w = "downloading" => DownFits(r)
  /\ w = "importing" => ImpFits(r)
  /\ w = "selecting" => SelFits(r)
WorkersKnow == work \in [Import!Workers -> Doings] /\ \A w \in Import!Workers : WorkFits(w, work[w])

\* A job that downloads into a folder is the one the register names.
WritesDisk(j) == job[j].state = "DOWNLOADING" /\ job[j].claimed /\ job[j].got # "broken"
ClaimsAreNamed == \A j \in Jobs \ missed : WritesDisk(j) => rows[j][job[j].leaf] = "open"
Alone == \A j, k \in Jobs \ missed : WritesDisk(j) /\ WritesDisk(k) /\ job[j].leaf = job[k].leaf => j = k

FoldersInv ==
  /\ JobTypes /\ PlaceTypes /\ HasFolder /\ WorkersKnow
  /\ ClaimsAreNamed /\ Alone /\ Import!FoldersAreNamed

(***************************************************************************)
(* Who moves what                                                          *)
(***************************************************************************)
LEMMA HeldIs ==
  ASSUME FoldersInv, NEW w \in Import!Workers, work[w].at # "idle"
  PROVE  /\ work[w].job \in Jobs
         /\ \/ job[work[w].job].state = "DOWNLOADING" /\ job[work[w].job].claimed /\ job[work[w].job].got = "broken"
            \/ job[work[w].job].state \in {"IMPORTING", "DONE", "FAILED"}
<1>1. WorkFits(w, work[w]) /\ work[w] \in Doings BY DEF FoldersInv, WorkersKnow
<1>2. work[w].job \in Jobs BY <1>1 DEF WorkFits, Doings
<1>3. w \in {"importing", "downloading", "selecting"} BY DEF Import!Workers
<1>4. CASE w = "downloading" BY <1>1, <1>2, <1>4 DEF WorkFits, DownFits
<1>5. CASE w = "selecting" BY <1>1, <1>2, <1>5 DEF WorkFits, SelFits
<1>6. CASE w = "importing"
  <2>1. work[w].at \in Deciding \cup {"write", "already", "clean", "tidy"} BY <1>1, <1>6 DEF WorkFits, ImpFits, Doings
  <2>2. ImpFits(work[w]) BY <1>1, <1>6 DEF WorkFits
  <2>. QED BY <1>2, <2>1, <2>2 DEF ImpFits
<1>. QED BY <1>3, <1>4, <1>5, <1>6

\* Nobody is at work for a job that waits, is refused, or has not failed yet to download.
LEMMA NotHeld ==
  ASSUME FoldersInv, NEW j \in Jobs,
         \/ job[j].state \in {"waiting", "IMPORT_REFUSED"}
         \/ job[j].state = "DOWNLOADING" /\ (job[j].got # "broken" \/ ~job[j].claimed)
  PROVE  \A w \in Import!Workers : work[w].job # j
<1>1. SUFFICES ASSUME NEW w \in Import!Workers, work[w].job = j PROVE FALSE OBVIOUS
<1>2. work[w].at # "idle" BY <1>1, ImportsAssumption DEF FoldersInv, WorkersKnow, WorkFits
<1>. QED BY <1>1, <1>2, HeldIs

\* A job changes for which nobody is at work, or whose worker does not see the change.
LEMMA JobMovesKnows ==
  ASSUME FoldersInv, NEW j \in Jobs, NEW n, job' = [job EXCEPT ![j] = n], work' = work,
         \/ \A w \in Import!Workers : work[w].job # j
         \/ n.state = job[j].state /\ n.claimed = job[j].claimed /\ n.got = job[j].got
  PROVE  WorkersKnow'
<1>1. SUFFICES ASSUME NEW w \in Import!Workers PROVE WorkFits(w, work[w])' BY DEF FoldersInv, WorkersKnow
<1>2. WorkFits(w, work[w]) BY DEF FoldersInv, WorkersKnow
<1>3. CASE work[w].at = "idle" BY <1>2, <1>3 DEF WorkFits, DownFits, ImpFits, SelFits, Deciding
<1>4. CASE work[w].at # "idle"
  <2>1. work[w].job \in Jobs BY <1>4, HeldIs
  <2>2. job'[work[w].job].state = job[work[w].job].state /\ job'[work[w].job].claimed = job[work[w].job].claimed
        /\ job'[work[w].job].got = job[work[w].job].got
    BY <2>1 DEF FoldersInv, JobTypes
  <2>. QED BY <1>2, <2>2 DEF WorkFits, DownFits, ImpFits, SelFits
<1>. QED BY <1>3, <1>4

\* A worker goes on in a way that fits its job, and the job stays.
LEMMA WorkMoves ==
  ASSUME FoldersInv, NEW w \in Import!Workers, NEW r, job' = job, work' = [work EXCEPT ![w] = r], WorkFits(w, r)
  PROVE  WorkersKnow'
<1>1. r \in Doings BY DEF WorkFits
<1>2. work' \in [Import!Workers -> Doings] BY <1>1 DEF FoldersInv, WorkersKnow
<1>3. ASSUME NEW v \in Import!Workers PROVE WorkFits(v, work[v])'
  <2>1. work'[v] = IF v = w THEN r ELSE work[v] BY DEF FoldersInv, WorkersKnow
  <2>2. WorkFits(v, work'[v]) BY <2>1 DEF FoldersInv, WorkersKnow
  <2>. QED BY <2>2 DEF WorkFits, DownFits, ImpFits, SelFits
<1>. QED BY <1>2, <1>3 DEF WorkersKnow

LEMMA RestFits == ASSUME NEW w \in Import!Workers PROVE WorkFits(w, Import!Idle)
BY DEF WorkFits, DownFits, ImpFits, SelFits, Import!Idle, Doings, Deciding

\* The register and the jobs as the claims see them.
LEMMA ClaimsKeep ==
  ASSUME FoldersInv, missed \subseteq missed',
         \A j \in Jobs : WritesDisk(j)' => WritesDisk(j) /\ job'[j].leaf = job[j].leaf /\ rows'[j] = rows[j]
  PROVE  ClaimsAreNamed' /\ Alone'
<1>1. ClaimsAreNamed' BY DEF FoldersInv, ClaimsAreNamed
<1>2. Alone' BY DEF FoldersInv, Alone
<1>. QED BY <1>1, <1>2

\* A worker closes rows of its own job: no download of its is claimed.
LEMMA RowsOfTheHeld ==
  ASSUME FoldersInv, NEW w \in Import!Workers, work[w].at # "idle", job' = job, missed \subseteq missed',
         \A j \in Jobs : j # work[w].job => rows'[j] = rows[j]
  PROVE  ClaimsAreNamed' /\ Alone'
<1>1. work[w].job \in Jobs /\ ~WritesDisk(work[w].job) BY HeldIs DEF WritesDisk
<1>2. ASSUME NEW j \in Jobs, WritesDisk(j)' PROVE WritesDisk(j) /\ job'[j].leaf = job[j].leaf /\ rows'[j] = rows[j]
  <2>1. WritesDisk(j) BY <1>2 DEF WritesDisk
  <2>. QED BY <1>1, <2>1
<1>. QED BY <1>2, ClaimsKeep

\* What is on disk shrinks, and rows stay open where something is left.
LEMMA NamesKeep ==
  ASSUME FoldersInv, missed \subseteq missed', \A j \in Jobs, l \in Leaves : j \in folders'[l] => j \in folders[l],
         \A j \in Jobs, l \in Leaves : rows'[j][l] # rows[j][l] => j \notin folders'[l] \/ rows'[j][l] \in {"open", "left"}
  PROVE  Import!FoldersAreNamed'
<1>. SUFFICES ASSUME NEW j \in Jobs \ missed', NEW l \in Leaves, j \in folders'[l] PROVE rows'[j][l] \in {"open", "left"}
BY DEF Import!FoldersAreNamed
<1>1. j \in Jobs \ missed /\ j \in folders[l] OBVIOUS
<1>. QED BY <1>1 DEF FoldersInv, Import!FoldersAreNamed

(***************************************************************************)
(* The Importing loop decides                                              *)
(***************************************************************************)
LEMMA DoingMoves ==
  ASSUME NEW r \in Doings, NEW p, NEW v, NEW t
  PROVE  [r EXCEPT !.at = p, !.verdict = v, !.todo = t] = [at |-> p, job |-> r.job, verdict |-> v, todo |-> t]
<1>. DEFINE x == [at |-> p, job |-> r.job, verdict |-> r.verdict, todo |-> r.todo]
            y == [at |-> p, job |-> r.job, verdict |-> v, todo |-> r.todo]
<1>1. x = [r EXCEPT !.at = p] BY DEF Doings
<1>2. y = [x EXCEPT !.verdict = v] OBVIOUS
<1>3. [y EXCEPT !.todo = t] = [at |-> p, job |-> r.job, verdict |-> v, todo |-> t] OBVIOUS
<1>4. [r EXCEPT !.at = p, !.verdict = v, !.todo = t] = [[[r EXCEPT !.at = p] EXCEPT !.verdict = v] EXCEPT !.todo = t] OBVIOUS
<1> HIDE DEF x, y
<1>. QED BY <1>1, <1>2, <1>3, <1>4

LEMMA GotoIs ==
  ASSUME FoldersInv, NEW w \in Import!Workers, NEW at, NEW verdict, NEW todo, Import!Goto(w, at, verdict, todo)
  PROVE  work' = [work EXCEPT ![w] = [at |-> at, job |-> work[w].job, verdict |-> verdict, todo |-> todo]]
<1>1. work[w] \in Doings BY DEF FoldersInv, WorkersKnow
<1>2. work \in [Import!Workers -> Doings] BY DEF FoldersInv, WorkersKnow
<1>3. work' = [work EXCEPT ![w] = [work[w] EXCEPT !.at = at, !.verdict = verdict, !.todo = todo]] BY <1>2 DEF Import!Goto
<1>4. [work[w] EXCEPT !.at = at, !.verdict = verdict, !.todo = todo] = [at |-> at, job |-> work[w].job, verdict |-> verdict, todo |-> todo]
BY <1>1, DoingMoves
<1>. QED BY <1>3, <1>4

LEMMA RestKnows ==
  ASSUME FoldersInv, NEW w \in Import!Workers, job' = job, Import!Rest(w) PROVE WorkersKnow'
<1>1. work' = [work EXCEPT ![w] = Import!Idle] BY DEF Import!Rest
<1>. QED BY <1>1, RestFits, WorkMoves

LEMMA ImpGoes ==
  ASSUME FoldersInv, work["importing"].at \in Deciding, job' = job, NEW at, NEW verdict \in Verdicts \cup {None}, NEW todo \in SUBSET Leaves,
         Import!Goto("importing", at, verdict, todo),
         at \in Deciding \/ (at \in {"write", "already", "clean"} /\ verdict \in Verdicts)
  PROVE  WorkersKnow'
<1>. DEFINE r == [at |-> at, job |-> work["importing"].job, verdict |-> verdict, todo |-> todo]
<1>1. "importing" \in Import!Workers BY DEF Import!Workers
<1>2. work["importing"].at # "idle" BY DEF Deciding
<1>3. WorkFits("importing", work["importing"]) BY <1>1 DEF FoldersInv, WorkersKnow
<1>4. work["importing"].job \in Jobs BY <1>1, <1>2, HeldIs
<1>5. job[work["importing"].job].state = "IMPORTING" BY <1>3 DEF WorkFits, ImpFits
<1>6. r \in Doings BY <1>4 DEF Doings
<1>7. r.at # "idle" /\ r.job # None BY <1>4, ImportsAssumption DEF Deciding
<1>8. ImpFits(r) BY <1>5 DEF ImpFits, Deciding
<1>9. WorkFits("importing", r) BY <1>6, <1>7, <1>8 DEF WorkFits
<1>10. work' = [work EXCEPT !["importing"] = r] BY <1>1, GotoIs
<1>. QED BY <1>1, <1>9, <1>10, WorkMoves

LEMMA FailGoes ==
  ASSUME FoldersInv, work["importing"].at \in Deciding, job' = job, NEW verdict \in Verdicts, Import!FailCandidate(verdict)
  PROVE  WorkersKnow'
<1>1. CASE work["importing"].job \in Manual
  <2>1. Import!Goto("importing", "write", verdict, {}) BY <1>1 DEF Import!FailCandidate, Import!Its, Import!Then
  <2>. QED BY <2>1, ImpGoes
<1>2. CASE work["importing"].job \notin Manual
  <2>1. Import!Goto("importing", "clean", verdict, Import!Registered(work["importing"].job))
    BY <1>2 DEF Import!FailCandidate, Import!Its
  <2>2. Import!Registered(work["importing"].job) \in SUBSET Leaves BY DEF Import!Registered
  <2>. QED BY <2>1, <2>2, ImpGoes
<1>. QED BY <1>1, <1>2

LEMMA StuckGoes ==
  ASSUME FoldersInv, work["importing"].at \in Deciding, job' = job, Import!EscalateIfStuck PROVE WorkersKnow'
<1>1. "waiting" \in Verdicts /\ "importing" \in Import!Workers BY DEF Verdicts, Import!Workers
<1>2. Import!FailCandidate("waiting") \/ Import!Rest("importing") BY DEF Import!EscalateIfStuck, Import!TickEnds
<1>. QED BY <1>1, <1>2, FailGoes, RestKnows

LEMMA ThenGoes ==
  ASSUME FoldersInv, work["importing"].at \in Deciding, job' = job, NEW at, NEW verdict \in Verdicts \cup {None}, Import!Then(at, verdict),
         at \in Deciding \/ (at \in {"write", "already"} /\ verdict \in Verdicts)
  PROVE  WorkersKnow'
<1>1. Import!Goto("importing", at, verdict, {}) BY DEF Import!Then
<1>2. {} \in SUBSET Leaves OBVIOUS
<1>. QED BY <1>1, <1>2, ImpGoes

\* It decides nothing yet.
LEMMA ThenDecides ==
  ASSUME FoldersInv, work["importing"].at \in Deciding, job' = job, NEW at \in Deciding, Import!Goto("importing", at, None, {})
  PROVE  WorkersKnow'
<1>1. {} \in SUBSET Leaves /\ None \in Verdicts \cup {None} OBVIOUS
<1>. QED BY <1>1, ImpGoes

\* Only the work changes.
LEMMA WorkOnly ==
  ASSUME FoldersInv, WorkersKnow', Import!StoreUnchanged, Import!DiskUnchanged, lidarr' \in [has : SUBSET Jobs, queue : SUBSET Commands]
  PROVE  FoldersInv'
<1>1. UNCHANGED <<job, rows, missed, folders, refused, failed>> BY DEF Import!StoreUnchanged, Import!DiskUnchanged
<1>2. JobTypes' /\ PlaceTypes' /\ HasFolder' BY <1>1 DEF FoldersInv, JobTypes, PlaceTypes, HasFolder
<1>3. ClaimsAreNamed' /\ Alone' /\ Import!FoldersAreNamed'
BY <1>1 DEF FoldersInv, ClaimsAreNamed, Alone, WritesDisk, Import!FoldersAreNamed
<1>. QED BY <1>2, <1>3 DEF FoldersInv

LEMMA DecidesKeeps ==
  ASSUME FoldersInv, \/ \E j \in Jobs : Import!PickJob(j)
                     \/ Import!ResolveAlbumID \/ Import!Scan \/ Import!EmptyPreview \/ Import!AlbumAlreadyComplete \/ Import!Confirm
  PROVE  FoldersInv'
<1>1. Import!StoreUnchanged /\ Import!DiskUnchanged /\ lidarr' = lidarr
BY DEF Import!PickJob, Import!ResolveAlbumID, Import!Scan, Import!EmptyPreview, Import!AlbumAlreadyComplete, Import!Confirm
<1>2. job' = job /\ lidarr' \in [has : SUBSET Jobs, queue : SUBSET Commands] BY <1>1 DEF Import!StoreUnchanged, FoldersInv, PlaceTypes
<1>3. Deciding = {"resolve", "restore", "scan", "empty", "unmatched", "execute", "mark", "confirm", "refuse"} BY DEF Deciding
<1>4. {"DONE", "waiting", "PARKED", "IMPORT_REFUSED", "NOT_IMPORTED"} \subseteq Verdicts BY DEF Verdicts, Import!Over
<1>5. "importing" \in Import!Workers BY DEF Import!Workers
<1>6. ASSUME NEW j \in Jobs, Import!PickJob(j) PROVE WorkersKnow'
  <2>. DEFINE r == [at |-> "resolve", job |-> j, verdict |-> None, todo |-> {}]
  <2>1. work' = [work EXCEPT !["importing"] = r] /\ job[j].state = "IMPORTING" BY <1>6 DEF Import!PickJob
  <2>2. r \in Doings /\ ImpFits(r) BY <2>1 DEF Doings, Deciding, ImpFits
  <2>3. WorkFits("importing", r) BY <2>2, ImportsAssumption DEF WorkFits
  <2>. QED BY <1>2, <1>5, <2>1, <2>3, WorkMoves
<1>7. ASSUME Import!ResolveAlbumID PROVE WorkersKnow'
  <2>1. work["importing"].at = "resolve" BY <1>7 DEF Import!ResolveAlbumID, Import!Doing
  <2>2. \/ Import!Then("confirm", None) \/ Import!Then("restore", None) \/ Import!Then("write", "NOT_IMPORTED") \/ Import!EscalateIfStuck
    BY <1>7 DEF Import!ResolveAlbumID
  <2>3. ASSUME Import!Then("confirm", None) \/ Import!Then("restore", None) PROVE WorkersKnow'
    BY <1>2, <1>3, <2>1, <2>3, ThenDecides DEF Import!Then
  <2>4. ASSUME Import!Then("write", "NOT_IMPORTED") PROVE WorkersKnow' BY <1>2, <1>3, <1>4, <2>1, <2>4, ThenGoes
  <2>5. ASSUME Import!EscalateIfStuck PROVE WorkersKnow' BY <1>2, <1>3, <2>1, <2>5, StuckGoes
  <2>. QED BY <2>2, <2>3, <2>4, <2>5
<1>8. ASSUME Import!Scan PROVE WorkersKnow'
  <2>1. work["importing"].at = "scan" BY <1>8 DEF Import!Scan, Import!Doing
  <2>2. \/ Import!EscalateIfStuck \/ Import!Then("empty", None) \/ Import!Then("unmatched", None)
        \/ Import!Goto("importing", "execute", None, {}) \/ \E v \in {"waiting", "PARKED"} : Import!FailCandidate(v)
    BY <1>8 DEF Import!Scan, Import!AfterRejection
  <2>3. ASSUME Import!Then("empty", None) \/ Import!Then("unmatched", None) PROVE WorkersKnow'
    BY <1>2, <1>3, <2>1, <2>3, ThenDecides DEF Import!Then
  <2>4. ASSUME Import!Goto("importing", "execute", None, {}) PROVE WorkersKnow' BY <1>2, <1>3, <2>1, <2>4, ThenDecides
  <2>5. ASSUME NEW v \in {"waiting", "PARKED"}, Import!FailCandidate(v) PROVE WorkersKnow'
    BY <1>2, <1>3, <1>4, <2>1, <2>5, FailGoes
  <2>6. ASSUME Import!EscalateIfStuck PROVE WorkersKnow' BY <1>2, <1>3, <2>1, <2>6, StuckGoes
  <2>. QED BY <2>2, <2>3, <2>4, <2>5, <2>6
<1>9. ASSUME Import!EmptyPreview PROVE WorkersKnow'
  <2>1. work["importing"].at = "empty" BY <1>9 DEF Import!EmptyPreview, Import!Doing
  <2>2. Import!Then("write", "DONE") \/ Import!EscalateIfStuck BY <1>9 DEF Import!EmptyPreview
  <2>. QED BY <1>2, <1>3, <1>4, <2>1, <2>2, ThenGoes, StuckGoes
<1>10. ASSUME Import!AlbumAlreadyComplete PROVE WorkersKnow'
  <2>1. work["importing"].at = "unmatched" BY <1>10 DEF Import!AlbumAlreadyComplete, Import!Doing
  <2>2. \/ Import!Then("already", "DONE") \/ Import!Then("refuse", "IMPORT_REFUSED") \/ \E v \in {"waiting", "PARKED"} : Import!FailCandidate(v)
    BY <1>10 DEF Import!AlbumAlreadyComplete, Import!AfterRejection
  <2>. QED BY <1>2, <1>3, <1>4, <2>1, <2>2, ThenGoes, FailGoes
<1>11. ASSUME Import!Confirm PROVE WorkersKnow'
  <2>1. work["importing"].at = "confirm" BY <1>11 DEF Import!Confirm, Import!Doing
  <2>2. Import!Then("write", "DONE") \/ Import!Then("write", "waiting") \/ Import!Rest("importing")
    BY <1>11 DEF Import!Confirm, Import!TickEnds
  <2>. QED BY <1>2, <1>3, <1>4, <1>5, <2>1, <2>2, ThenGoes, RestKnows
<1>12. WorkersKnow' BY <1>6, <1>7, <1>8, <1>9, <1>10, <1>11
<1>. QED BY <1>1, <1>2, <1>12, WorkOnly

LEMMA ExecuteKeeps == ASSUME FoldersInv, Import!ExecuteManualImport PROVE FoldersInv'
<1>1. work["importing"].at = "execute" BY DEF Import!ExecuteManualImport, Import!Doing
<1>2. Import!StoreUnchanged /\ Import!DiskUnchanged /\ job' = job BY DEF Import!ExecuteManualImport, Import!StoreUnchanged
<1>3. "importing" \in Import!Workers /\ "execute" \in Deciding /\ "mark" \in Deciding BY DEF Import!Workers, Deciding
<1>4. Import!Then("mark", None) \/ Import!Rest("importing") BY DEF Import!ExecuteManualImport, Import!TickEnds
<1>5. WorkersKnow'
  <2>1. ASSUME Import!Then("mark", None) PROVE WorkersKnow' BY <1>1, <1>2, <1>3, <2>1, ThenDecides DEF Import!Then
  <2>2. ASSUME Import!Rest("importing") PROVE WorkersKnow' BY <1>2, <1>3, <2>2, RestKnows
  <2>. QED BY <1>4, <2>1, <2>2
<1>6. work["importing"].job \in Jobs /\ job[work["importing"].job].leaf \in Leaves
  <2>1. work["importing"].job \in Jobs BY <1>1, <1>3, HeldIs
  <2>2. WorkFits("importing", work["importing"]) BY <1>3 DEF FoldersInv, WorkersKnow
  <2>3. job[work["importing"].job].state = "IMPORTING" BY <1>1, <1>3, <2>2 DEF WorkFits, ImpFits
  <2>. QED BY <2>1, <2>3 DEF FoldersInv, HasFolder
<1>7. lidarr' \in [has : SUBSET Jobs, queue : SUBSET Commands]
  <2>. DEFINE l == job[work["importing"].job].leaf
              c == [leaf |-> l, files |-> folders[l]]
  <2>1. lidarr' = lidarr \/ lidarr' = [lidarr EXCEPT !.queue = @ \cup {c}]
    BY DEF Import!ExecuteManualImport, Import!AlbumFolder, Import!Its
  <2>2. c \in Commands BY <1>6 DEF Commands, FoldersInv, PlaceTypes
  <2>. QED BY <2>1, <2>2 DEF FoldersInv, PlaceTypes
<1>. QED BY <1>2, <1>5, <1>7, WorkOnly

(***************************************************************************)
(* What the clean-ups and Lidarr do to the folders                         *)
(***************************************************************************)
LEMMA AfterCleanKnows ==
  ASSUME FoldersInv, NEW w \in Import!Workers, NEW l \in Leaves, work[w].at \in {"clean", "tidy", "quarantine"}, job' = job,
         Import!AfterClean(w, l)
  PROVE  WorkersKnow'
<1>. DEFINE rest == work[w].todo \ {l}
<1>1. WorkFits(w, work[w]) /\ work[w] \in Doings /\ work[w].at # "idle" BY DEF FoldersInv, WorkersKnow
<1>2. CASE rest # {}
  <2>. DEFINE r == [work[w] EXCEPT !.todo = rest]
  <2>1. work' = [work EXCEPT ![w] = r] BY <1>2 DEF Import!AfterClean, FoldersInv, WorkersKnow
  <2>2. r \in Doings /\ r.at = work[w].at /\ r.job = work[w].job /\ r.verdict = work[w].verdict BY <1>1 DEF Doings
  <2> HIDE DEF r
  <2>3. WorkFits(w, r) BY <1>1, <2>2 DEF WorkFits, DownFits, ImpFits, SelFits
  <2>. QED BY <2>1, <2>3, WorkMoves
<1>3. CASE rest = {} /\ work[w].verdict = None BY <1>3, RestKnows DEF Import!AfterClean
<1>4. CASE rest = {} /\ work[w].verdict # None
  <2>. DEFINE r == [at |-> "write", job |-> work[w].job, verdict |-> work[w].verdict, todo |-> {}]
  <2>1. Import!Goto(w, "write", work[w].verdict, {}) BY <1>4 DEF Import!AfterClean
  <2>2. work' = [work EXCEPT ![w] = r] BY <2>1, GotoIs
  <2>3. r \in Doings /\ r.job # None BY <1>1 DEF Doings, WorkFits
  <2>4. WorkFits(w, r)
    <3>1. w = "downloading" => DownFits(r) BY <1>1 DEF WorkFits, DownFits
    <3>2. w = "importing" => ImpFits(r) BY <1>1, <1>4 DEF WorkFits, ImpFits, Deciding
    <3>3. w = "selecting" => SelFits(r) BY <1>1, <1>4 DEF WorkFits, SelFits
    <3>. QED BY <2>3, <3>1, <3>2, <3>3 DEF WorkFits
  <2>. QED BY <2>2, <2>4, WorkMoves
<1>. QED BY <1>2, <1>3, <1>4

\* The jobs stay: what is left are the rows, the folders and the work.
LEMMA JobsStay ==
  ASSUME FoldersInv, job' = job, PlaceTypes', WorkersKnow', ClaimsAreNamed' /\ Alone' /\ Import!FoldersAreNamed'
  PROVE  FoldersInv'
<1>1. JobTypes' /\ HasFolder' BY DEF FoldersInv, JobTypes, HasFolder
<1>. QED BY <1>1 DEF FoldersInv

LEMMA DeleteTyped ==
  ASSUME FoldersInv, NEW l \in Leaves, Import!DeleteDownloadFolder(l)
  PROVE  /\ folders' \in [Leaves -> SUBSET Jobs] /\ refused' \in [Import!Names -> SUBSET Jobs] /\ failed' \subseteq Jobs
         /\ folders'[l] = {} /\ \A k \in Leaves : folders'[k] \subseteq folders[k]
BY DEF Import!DeleteDownloadFolder, FoldersInv, PlaceTypes

LEMMA MarkTyped ==
  ASSUME FoldersInv, NEW j \in Jobs, NEW l \in Leaves, NEW how \in {"none", "open", "cleaned", "left"}, Import!MarkDownloadFolderCleaned(j, l, how)
  PROVE  /\ rows' \in [Jobs -> [Leaves -> {"none", "open", "cleaned", "left"}]]
         /\ \A k \in Jobs : k # j => rows'[k] = rows[k]
         /\ \A k \in Jobs, m \in Leaves : rows'[k][m] = IF k = j /\ m = l THEN how ELSE rows[k][m]
BY DEF Import!MarkDownloadFolderCleaned, FoldersInv, PlaceTypes

LEMMA CleanupKeeps ==
  ASSUME FoldersInv, NEW w \in Import!Workers, NEW l \in Leaves, Import!CleanupFolder(w, l) PROVE FoldersInv'
<1>. DEFINE j == work[w].job
<1>1. work[w].at = "clean" /\ Import!AfterClean(w, l) /\ UNCHANGED <<job, missed, lidarr>> BY DEF Import!CleanupFolder
<1>2. WorkersKnow' BY <1>1, AfterCleanKnows
<1>3. j \in Jobs BY <1>1, HeldIs
<1>4. \/ folders' = folders /\ refused' = refused /\ failed' = failed /\ rows' = rows
      \/ Import!DeleteDownloadFolder(l) /\ rows' = rows
      \/ Import!DeleteDownloadFolder(l) /\ Import!MarkDownloadFolderCleaned(j, l, "cleaned")
BY DEF Import!CleanupFolder, Import!DiskUnchanged
<1>5. /\ PlaceTypes' /\ \A k \in Leaves : folders'[k] \subseteq folders[k]
      /\ \A k \in Jobs : k # j => rows'[k] = rows[k]
      /\ \A k \in Jobs, m \in Leaves : rows'[k][m] # rows[k][m] => k \notin folders'[m]
  <2>1. CASE folders' = folders /\ refused' = refused /\ failed' = failed /\ rows' = rows
    BY <1>1, <2>1 DEF FoldersInv, PlaceTypes
  <2>2. CASE Import!DeleteDownloadFolder(l) /\ rows' = rows BY <1>1, <2>2, DeleteTyped DEF FoldersInv, PlaceTypes
  <2>3. CASE Import!DeleteDownloadFolder(l) /\ Import!MarkDownloadFolderCleaned(j, l, "cleaned")
    <3>1. folders'[l] = {} /\ \A k \in Leaves : folders'[k] \subseteq folders[k] BY <2>3, DeleteTyped
    <3>2. /\ \A k \in Jobs : k # j => rows'[k] = rows[k]
          /\ \A k \in Jobs, m \in Leaves : rows'[k][m] = IF k = j /\ m = l THEN "cleaned" ELSE rows[k][m]
      BY <1>3, <2>3, MarkTyped
    <3>3. PlaceTypes' BY <1>1, <1>3, <2>3, DeleteTyped, MarkTyped DEF FoldersInv, PlaceTypes
    <3>. QED BY <3>1, <3>2, <3>3
  <2>. QED BY <1>4, <2>1, <2>2, <2>3
<1>6. Import!FoldersAreNamed' BY <1>1, <1>5, NamesKeep
<1>7. ClaimsAreNamed' /\ Alone' BY <1>1, <1>5, RowsOfTheHeld
<1>. QED BY <1>1, <1>2, <1>5, <1>6, <1>7, JobsStay

LEMMA TidyKeeps == ASSUME FoldersInv, NEW l \in Leaves, Import!CleanupCompletedFolder(l) PROVE FoldersInv'
<1>. DEFINE j == work["importing"].job
            how == IF folders[l] = {} THEN "cleaned" ELSE "left"
<1>1. "importing" \in Import!Workers BY DEF Import!Workers
<1>2. work["importing"].at = "tidy" /\ Import!AfterClean("importing", l) /\ UNCHANGED <<job, missed, lidarr>> /\ Import!DiskUnchanged
BY DEF Import!CleanupCompletedFolder
<1>3. WorkersKnow' BY <1>1, <1>2, AfterCleanKnows
<1>4. j \in Jobs BY <1>1, <1>2, HeldIs
<1>5. UNCHANGED <<folders, refused, failed>> BY <1>2 DEF Import!DiskUnchanged
<1>6. rows' = rows \/ Import!MarkDownloadFolderCleaned(j, l, how) BY DEF Import!CleanupCompletedFolder
<1>7. how \in {"none", "open", "cleaned", "left"} OBVIOUS
<1>8. /\ PlaceTypes' /\ \A k \in Jobs : k # j => rows'[k] = rows[k]
      /\ \A k \in Jobs, m \in Leaves : rows'[k][m] # rows[k][m] => m = l /\ rows'[k][m] = how
  <2>1. CASE rows' = rows BY <1>2, <1>5, <2>1 DEF FoldersInv, PlaceTypes
  <2>2. CASE Import!MarkDownloadFolderCleaned(j, l, how)
    <3> HIDE DEF how
    <3>1. /\ rows' \in [Jobs -> [Leaves -> {"none", "open", "cleaned", "left"}]]
          /\ \A k \in Jobs : k # j => rows'[k] = rows[k]
          /\ \A k \in Jobs, m \in Leaves : rows'[k][m] = IF k = j /\ m = l THEN how ELSE rows[k][m]
      BY <1>4, <1>7, <2>2, MarkTyped
    <3>. QED BY <1>2, <1>5, <3>1 DEF FoldersInv, PlaceTypes
  <2>. QED BY <1>6, <2>1, <2>2
<1>9. \A k \in Jobs, m \in Leaves : rows'[k][m] # rows[k][m] => k \notin folders'[m] \/ rows'[k][m] \in {"open", "left"}
BY <1>5, <1>8
<1>10. Import!FoldersAreNamed' BY <1>2, <1>5, <1>9, NamesKeep
<1>11. ClaimsAreNamed' /\ Alone' BY <1>1, <1>2, <1>8, RowsOfTheHeld
<1>. QED BY <1>2, <1>3, <1>8, <1>10, <1>11, JobsStay

LEMMA QuarantineKeeps == ASSUME FoldersInv, NEW l \in Leaves, Import!QuarantineLeftovers(l) PROVE FoldersInv'
<1>. DEFINE j == work["selecting"].job
<1>1. "selecting" \in Import!Workers BY DEF Import!Workers
<1>2. work["selecting"].at = "quarantine" /\ Import!AfterClean("selecting", l) /\ UNCHANGED <<job, missed, refused, lidarr>>
BY DEF Import!QuarantineLeftovers
<1>3. WorkersKnow' BY <1>1, <1>2, AfterCleanKnows
<1>4. j \in Jobs BY <1>1, <1>2, HeldIs
<1>5. \/ UNCHANGED <<folders, failed, rows>>
      \/ failed' = failed \cup folders[l] /\ folders' = [folders EXCEPT ![l] = {}] /\ Import!MarkDownloadFolderCleaned(j, l, "cleaned")
BY DEF Import!QuarantineLeftovers
<1>6. /\ PlaceTypes' /\ \A k \in Leaves : folders'[k] \subseteq folders[k]
      /\ \A k \in Jobs : k # j => rows'[k] = rows[k]
      /\ \A k \in Jobs, m \in Leaves : rows'[k][m] # rows[k][m] => k \notin folders'[m]
  <2>1. CASE UNCHANGED <<folders, failed, rows>> BY <1>2, <2>1 DEF FoldersInv, PlaceTypes
  <2>2. CASE failed' = failed \cup folders[l] /\ folders' = [folders EXCEPT ![l] = {}] /\ Import!MarkDownloadFolderCleaned(j, l, "cleaned")
    <3>1. /\ rows' \in [Jobs -> [Leaves -> {"none", "open", "cleaned", "left"}]]
          /\ \A k \in Jobs : k # j => rows'[k] = rows[k]
          /\ \A k \in Jobs, m \in Leaves : rows'[k][m] = IF k = j /\ m = l THEN "cleaned" ELSE rows[k][m]
      BY <1>4, <2>2, MarkTyped
    <3>2. folders' \in [Leaves -> SUBSET Jobs] /\ failed' \subseteq Jobs /\ folders'[l] = {} /\ \A k \in Leaves : folders'[k] \subseteq folders[k]
      BY <2>2 DEF FoldersInv, PlaceTypes
    <3>3. PlaceTypes' BY <1>2, <3>1, <3>2 DEF FoldersInv, PlaceTypes
    <3>. QED BY <3>1, <3>2, <3>3
  <2>. QED BY <1>5, <2>1, <2>2
<1>7. Import!FoldersAreNamed' BY <1>2, <1>6, NamesKeep
<1>8. ClaimsAreNamed' /\ Alone' BY <1>1, <1>2, <1>6, RowsOfTheHeld
<1>. QED BY <1>2, <1>3, <1>6, <1>7, <1>8, JobsStay

\* A command of Lidarr ends, or the files of a refused import are put aside: the register stays.
LEMMA FilesLeave ==
  ASSUME FoldersInv, UNCHANGED <<job, rows, missed>>, PlaceTypes', WorkersKnow', \A k \in Leaves : folders'[k] \subseteq folders[k]
  PROVE  FoldersInv'
<1>1. ClaimsAreNamed' /\ Alone'
  <2>1. \A j \in Jobs : WritesDisk(j)' => WritesDisk(j) /\ job'[j].leaf = job[j].leaf /\ rows'[j] = rows[j] BY DEF WritesDisk
  <2>. QED BY <2>1, ClaimsKeep
<1>2. Import!FoldersAreNamed' BY NamesKeep
<1>. QED BY <1>1, <1>2, JobsStay

LEMMA WorkStays == ASSUME FoldersInv, UNCHANGED <<job, work>> PROVE WorkersKnow'
BY DEF FoldersInv, WorkersKnow, WorkFits, DownFits, ImpFits, SelFits

LEMMA CommandKeeps == ASSUME FoldersInv, Import!RunCommand \/ Import!DropCommand PROVE FoldersInv'
<1>1. UNCHANGED <<job, rows, missed, work, refused, failed>>
BY DEF Import!RunCommand, Import!DropCommand, Import!StoreUnchanged, Import!DiskUnchanged
<1>2. WorkersKnow' BY <1>1, WorkStays
<1>3. PlaceTypes' /\ \A k \in Leaves : folders'[k] \subseteq folders[k]
  <2>1. CASE Import!RunCommand
    <3>1. PICK c \in lidarr.queue :
             /\ lidarr' = [has |-> lidarr.has \cup (c.files \cap folders[c.leaf]), queue |-> lidarr.queue \ {c}]
             /\ folders' = [folders EXCEPT ![c.leaf] = @ \ (c.files \cap folders[c.leaf])]
      BY <2>1 DEF Import!RunCommand
    <3>2. c.leaf \in Leaves /\ c.files \subseteq Jobs BY DEF FoldersInv, PlaceTypes, Commands
    <3>3. lidarr' \in [has : SUBSET Jobs, queue : SUBSET Commands] BY <3>1, <3>2 DEF FoldersInv, PlaceTypes
    <3>4. folders' \in [Leaves -> SUBSET Jobs] /\ \A k \in Leaves : folders'[k] \subseteq folders[k]
      BY <3>1, <3>2 DEF FoldersInv, PlaceTypes
    <3>. QED BY <1>1, <3>3, <3>4 DEF FoldersInv, PlaceTypes
  <2>2. CASE Import!DropCommand
    <3>1. PICK c \in lidarr.queue : lidarr' = [lidarr EXCEPT !.queue = @ \ {c}] /\ folders' = folders
      BY SMTT(40), <2>2 DEF Import!DropCommand, Import!DiskUnchanged
    <3>2. lidarr' \in [has : SUBSET Jobs, queue : SUBSET Commands] BY <3>1 DEF FoldersInv, PlaceTypes
    <3>. QED BY <1>1, <3>1, <3>2 DEF FoldersInv, PlaceTypes
  <2>. QED BY <2>1, <2>2
<1>. QED BY <1>1, <1>2, <1>3, FilesLeave

LEMMA ItsFolder ==
  ASSUME FoldersInv, work["importing"].at \in Deciding
  PROVE  /\ work["importing"].job \in Jobs /\ job[work["importing"].job].state = "IMPORTING"
         /\ job[work["importing"].job].leaf \in Leaves
<1>1. "importing" \in Import!Workers /\ work["importing"].at # "idle" BY DEF Import!Workers, Deciding
<1>2. work["importing"].job \in Jobs BY <1>1, HeldIs
<1>3. WorkFits("importing", work["importing"]) BY <1>1 DEF FoldersInv, WorkersKnow
<1>4. job[work["importing"].job].state = "IMPORTING" BY <1>3 DEF WorkFits, ImpFits
<1>. QED BY <1>2, <1>4 DEF FoldersInv, HasFolder

LEMMA RestoreKeeps == ASSUME FoldersInv, Import!RestoreRefusedFolder PROVE FoldersInv'
<1>. DEFINE i == work["importing"].job
            l == job[i].leaf
            src == Import!RefusedQuarantineSource(l, i)
<1>1. work["importing"].at \in Deciding /\ "scan" \in Deciding BY DEF Import!RestoreRefusedFolder, Import!Doing, Deciding
<1>2. i \in Jobs /\ l \in Leaves BY <1>1, ItsFolder
<1>3. UNCHANGED <<job, rows, failed, lidarr>> /\ Import!Goto("importing", "scan", None, {})
BY DEF Import!RestoreRefusedFolder, Import!Then
<1>4. WorkersKnow' BY SMTT(40), <1>1, <1>3, ThenDecides
<1>5. src \in Import!Names BY SMTT(40), <1>2 DEF Import!RefusedQuarantineSource, Import!Names
<1>6. \/ UNCHANGED <<folders, refused, missed>>
      \/ /\ missed' = missed \cup {k \in refused[src] : k # i \/ l \notin Import!Registered(k)}
         /\ folders' = [folders EXCEPT ![l] = refused[src]] /\ refused' = [refused EXCEPT ![src] = {}]
BY DEF Import!RestoreRefusedFolder, Import!AlbumFolder, Import!Its
<1>7. CASE UNCHANGED <<folders, refused, missed>>
  <2>1. PlaceTypes' BY <1>3, <1>7 DEF FoldersInv, PlaceTypes
  <2>. QED BY <1>3, <1>4, <1>7, <2>1, FilesLeave
<1>8. CASE /\ missed' = missed \cup {k \in refused[src] : k # i \/ l \notin Import!Registered(k)}
           /\ folders' = [folders EXCEPT ![l] = refused[src]] /\ refused' = [refused EXCEPT ![src] = {}]
  <2> HIDE DEF src
  <2>1. refused[src] \in SUBSET Jobs BY <1>5 DEF FoldersInv, PlaceTypes
  <2>2. PlaceTypes' BY <1>2, <1>3, <1>5, <1>8, <2>1 DEF FoldersInv, PlaceTypes
  <2>3. ClaimsAreNamed' /\ Alone'
    <3>1. \A j \in Jobs : WritesDisk(j)' => WritesDisk(j) /\ job'[j].leaf = job[j].leaf /\ rows'[j] = rows[j] BY <1>3 DEF WritesDisk
    <3>. QED BY <1>8, <3>1, ClaimsKeep
  <2>4. ASSUME NEW j \in Jobs \ missed', NEW k \in Leaves, j \in folders'[k] PROVE rows'[j][k] \in {"open", "left"}
    <3>1. j \in Jobs \ missed BY <1>8, <2>4
    <3>2. CASE k # l
      <4>1. j \in folders[k] BY <1>8, <2>4, <3>2 DEF FoldersInv, PlaceTypes
      <4>. QED BY <1>3, <3>1, <4>1 DEF FoldersInv, Import!FoldersAreNamed
    <3>3. CASE k = l
      <4>1. j \in refused[src] BY <1>2, <1>8, <2>4, <3>3 DEF FoldersInv, PlaceTypes
      <4>2. j = i /\ l \in Import!Registered(j) BY <1>8, <2>4, <4>1
      <4>. QED BY <1>3, <3>3, <4>2 DEF Import!Registered
    <3>. QED BY <3>2, <3>3
  <2>5. Import!FoldersAreNamed' BY <2>4 DEF Import!FoldersAreNamed
  <2>. QED BY <1>3, <1>4, <2>2, <2>3, <2>5, JobsStay
<1>. QED BY <1>6, <1>7, <1>8

LEMMA RefuseKeeps == ASSUME FoldersInv, Import!RefuseImport PROVE FoldersInv'
<1>. DEFINE i == work["importing"].job
            l == job[i].leaf
            q == Import!FreeQuarantinePath(l, i)
<1>1. work["importing"].at \in Deciding BY DEF Import!RefuseImport, Import!Doing, Deciding
<1>2. i \in Jobs /\ l \in Leaves BY <1>1, ItsFolder
<1>3. UNCHANGED <<job, rows, missed, failed, lidarr>> /\ Import!Then("write", "IMPORT_REFUSED")
BY DEF Import!RefuseImport, Import!StoreUnchanged
<1>4. "IMPORT_REFUSED" \in Verdicts BY DEF Verdicts, Import!Over
<1>5. WorkersKnow' BY SMTT(40), <1>1, <1>3, <1>4, ThenGoes
<1>6. q \in Import!Names BY SMTT(40), <1>2 DEF Import!FreeQuarantinePath, Import!Names
<1>7. \/ UNCHANGED <<folders, refused>>
      \/ refused' = [refused EXCEPT ![q] = folders[l]] /\ folders' = [folders EXCEPT ![l] = {}]
BY DEF Import!RefuseImport, Import!AlbumFolder, Import!Its
<1>8. PlaceTypes' /\ \A k \in Leaves : folders'[k] \subseteq folders[k]
  <2> HIDE DEF q
  <2>1. CASE UNCHANGED <<folders, refused>> BY <1>3, <2>1 DEF FoldersInv, PlaceTypes
  <2>2. CASE refused' = [refused EXCEPT ![q] = folders[l]] /\ folders' = [folders EXCEPT ![l] = {}]
    BY <1>2, <1>3, <1>6, <2>2 DEF FoldersInv, PlaceTypes
  <2>. QED BY <1>7, <2>1, <2>2
<1>. QED BY <1>3, <1>5, <1>8, FilesLeave

LEMMA NothingKeeps == ASSUME FoldersInv, NEW w \in Import!Workers, Import!NothingRegistered(w) PROVE FoldersInv'
<1>1. Import!StoreUnchanged /\ Import!DiskUnchanged /\ lidarr' = lidarr /\ job' = job
BY DEF Import!NothingRegistered, Import!StoreUnchanged
<1>2. work[w].at \in {"clean", "tidy", "quarantine"} BY DEF Import!NothingRegistered
<1>3. WorkFits(w, work[w]) /\ work[w] \in Doings /\ work[w].at # "idle" BY <1>2 DEF FoldersInv, WorkersKnow
<1>4. CASE work[w].verdict = None
  <2>1. Import!Rest(w) BY <1>4 DEF Import!NothingRegistered
  <2>2. WorkersKnow' BY <1>1, <2>1, RestKnows
  <2>. QED BY <1>1, <2>2, WorkOnly DEF FoldersInv, PlaceTypes
<1>5. CASE work[w].verdict # None
  <2>. DEFINE r == [at |-> "write", job |-> work[w].job, verdict |-> work[w].verdict, todo |-> {}]
  <2>1. Import!Goto(w, "write", work[w].verdict, {}) BY <1>5 DEF Import!NothingRegistered
  <2>2. work' = [work EXCEPT ![w] = r] BY <2>1, GotoIs
  <2>3. r \in Doings /\ r.job # None BY <1>3 DEF Doings, WorkFits
  <2>4. WorkFits(w, r)
    <3>1. w = "downloading" => DownFits(r) BY <1>3 DEF WorkFits, DownFits
    <3>2. w = "importing" => ImpFits(r) BY <1>2, <1>3, <1>5 DEF WorkFits, ImpFits, Deciding
    <3>3. w = "selecting" => SelFits(r) BY <1>3, <1>5 DEF WorkFits, SelFits
    <3>. QED BY <2>3, <3>1, <3>2, <3>3 DEF WorkFits
  <2>5. WorkersKnow' BY <1>1, <2>2, <2>4, WorkMoves
  <2>. QED BY <1>1, <2>5, WorkOnly DEF FoldersInv, PlaceTypes
<1>. QED BY <1>4, <1>5

LEMMA CrashKeeps == ASSUME FoldersInv, Import!Crash PROVE FoldersInv'
<1>1. work' = [w \in Import!Workers |-> Import!Idle] /\ Import!StoreUnchanged /\ Import!DiskUnchanged /\ lidarr' = lidarr
BY DEF Import!Crash
<1>2. Import!Idle \in Doings BY DEF Import!Idle, Doings
<1>3. WorkersKnow'
  <2>1. ASSUME NEW w \in Import!Workers PROVE WorkFits(w, work[w])'
    <3>1. work'[w] = Import!Idle BY <1>1
    <3>. QED BY <3>1, <1>2 DEF WorkFits, DownFits, ImpFits, SelFits, Import!Idle, Deciding
  <2>. QED BY <1>1, <1>2, <2>1 DEF WorkersKnow
<1>. QED BY <1>1, <1>3, WorkOnly DEF FoldersInv, PlaceTypes

(***************************************************************************)
(* What happens to a job                                                   *)
(***************************************************************************)
\* One job changes, and claims nothing that it had not claimed.
LEMMA JobMoves ==
  ASSUME FoldersInv, NEW j \in Jobs, NEW n \in AlbumJob, job' = [job EXCEPT ![j] = n], WorkersKnow', PlaceTypes',
         rows' = rows, missed' = missed, Import!FoldersAreNamed',
         n.state \in {"DOWNLOADING", "IMPORTING", "IMPORT_REFUSED"} => n.leaf \in Leaves,
         n.state = "DOWNLOADING" /\ n.claimed /\ n.got # "broken" => WritesDisk(j) /\ n.leaf = job[j].leaf
  PROVE  FoldersInv'
<1>1. \A k \in Jobs : job'[k] = IF k = j THEN n ELSE job[k] BY DEF FoldersInv, JobTypes
<1>2. JobTypes' BY DEF FoldersInv, JobTypes
<1>3. HasFolder' BY <1>1 DEF FoldersInv, HasFolder
<1>4. \A k \in Jobs : WritesDisk(k)' => WritesDisk(k) /\ job'[k].leaf = job[k].leaf /\ rows'[k] = rows[k] BY <1>1 DEF WritesDisk
<1>5. ClaimsAreNamed' /\ Alone' BY <1>4, ClaimsKeep
<1>. QED BY <1>2, <1>3, <1>5 DEF FoldersInv

\* The folders and the register stay as they are.
LEMMA PlacesStay ==
  ASSUME FoldersInv, UNCHANGED <<rows, missed, folders, refused, failed, lidarr>> PROVE PlaceTypes' /\ Import!FoldersAreNamed'
BY DEF FoldersInv, PlaceTypes, Import!FoldersAreNamed

LEMMA JobOnlyKeeps ==
  ASSUME FoldersInv, NEW j \in Jobs, NEW n \in AlbumJob, job' = [job EXCEPT ![j] = n], WorkersKnow',
         UNCHANGED <<rows, missed, folders, refused, failed, lidarr>>,
         n.state \in {"DOWNLOADING", "IMPORTING", "IMPORT_REFUSED"} => n.leaf \in Leaves,
         n.state = "DOWNLOADING" /\ n.claimed /\ n.got # "broken" => WritesDisk(j) /\ n.leaf = job[j].leaf
  PROVE  FoldersInv'
BY PlacesStay, JobMoves

LEMMA ActivateKeeps == ASSUME FoldersInv, NEW j \in Jobs, NEW l \in Leaves, Import!Activate(j, l) PROVE FoldersInv'
<1>. DEFINE n == [state |-> "DOWNLOADING", leaf |-> l, claimed |-> FALSE, got |-> "none", submitted |-> FALSE, late |-> FALSE]
<1>1. /\ job[j].state = "waiting" /\ job' = [job EXCEPT ![j] = n] /\ work' = work
      /\ UNCHANGED <<rows, missed, folders, refused, failed, lidarr>>
BY DEF Import!Activate, Import!DiskUnchanged
<1>2. n \in AlbumJob BY DEF AlbumJob, JobStates
<1>3. WorkersKnow' BY <1>1, NotHeld, JobMovesKnows
<1>. QED BY <1>1, <1>2, <1>3, JobOnlyKeeps

LEMMA DeferKeeps == ASSUME FoldersInv, NEW j \in Jobs, Import!DeferForFolder(j) PROVE FoldersInv'
<1>. DEFINE n == [job[j] EXCEPT !.state = "waiting"]
<1>1. /\ job[j].state = "DOWNLOADING" /\ ~job[j].claimed /\ job' = [job EXCEPT ![j].state = "waiting"] /\ work' = work
      /\ UNCHANGED <<rows, missed, folders, refused, failed, lidarr>>
BY DEF Import!DeferForFolder, Import!DiskUnchanged
<1>2. job' = [job EXCEPT ![j] = n] BY <1>1
<1>3. n \in AlbumJob /\ n.state = "waiting" BY DEF FoldersInv, JobTypes, AlbumJob, JobStates
<1> HIDE DEF n
<1>4. WorkersKnow' BY <1>1, <1>2, NotHeld, JobMovesKnows
<1>. QED BY <1>1, <1>2, <1>3, <1>4, JobOnlyKeeps

LEMMA DownloadedKeeps == ASSUME FoldersInv, NEW j \in Jobs, Import!Downloaded(j) PROVE FoldersInv'
<1>. DEFINE n == [job[j] EXCEPT !.state = "IMPORTING", !.late = FALSE]
<1>1. /\ job[j].state = "DOWNLOADING" /\ job[j].got = "all" /\ job' = [job EXCEPT ![j] = n] /\ work' = work
      /\ UNCHANGED <<rows, missed, folders, refused, failed, lidarr>>
BY DEF Import!Downloaded, Import!DiskUnchanged, FoldersInv, JobTypes
<1>2. n \in AlbumJob /\ n.state = "IMPORTING" /\ n.leaf = job[j].leaf BY DEF FoldersInv, JobTypes, AlbumJob, JobStates
<1>3. n.leaf \in Leaves BY <1>1, <1>2 DEF FoldersInv, HasFolder
<1> HIDE DEF n
<1>4. WorkersKnow' BY <1>1, NotHeld, JobMovesKnows
<1>. QED BY <1>1, <1>2, <1>3, <1>4, JobOnlyKeeps

LEMMA RetryKeeps == ASSUME FoldersInv, NEW j \in Jobs, Import!RetryRefusedJob(j) PROVE FoldersInv'
<1>. DEFINE n == [job[j] EXCEPT !.state = "IMPORTING", !.submitted = FALSE, !.late = FALSE]
<1>1. /\ job[j].state = "IMPORT_REFUSED" /\ job' = [job EXCEPT ![j] = n] /\ work' = work
      /\ UNCHANGED <<rows, missed, folders, refused, failed, lidarr>>
BY DEF Import!RetryRefusedJob, Import!DiskUnchanged, FoldersInv, JobTypes
<1>2. n \in AlbumJob /\ n.state = "IMPORTING" /\ n.leaf = job[j].leaf BY DEF FoldersInv, JobTypes, AlbumJob, JobStates
<1>3. n.leaf \in Leaves BY <1>1, <1>2 DEF FoldersInv, HasFolder
<1> HIDE DEF n
<1>4. WorkersKnow' BY <1>1, NotHeld, JobMovesKnows
<1>. QED BY <1>1, <1>2, <1>3, <1>4, JobOnlyKeeps

LEMMA WantedKeeps == ASSUME FoldersInv, NEW j \in Jobs, Import!WantedAgain(j) PROVE FoldersInv'
<1>. DEFINE n == [job[j] EXCEPT !.state = "waiting"]
<1>1. /\ \A w \in Import!Workers : work[w].job # j
      /\ job' = [job EXCEPT ![j].state = "waiting"] /\ work' = work
      /\ UNCHANGED <<rows, missed, folders, refused, failed, lidarr>>
BY DEF Import!WantedAgain, Import!DiskUnchanged
<1>2. job' = [job EXCEPT ![j] = n] BY <1>1
<1>3. n \in AlbumJob /\ n.state = "waiting" BY DEF FoldersInv, JobTypes, AlbumJob, JobStates
<1> HIDE DEF n
<1>4. WorkersKnow' BY <1>1, <1>2, JobMovesKnows
<1>. QED BY <1>1, <1>2, <1>3, <1>4, JobOnlyKeeps

\* Of an import only the deadline or the submission is noted.
LEMMA NotedKeeps ==
  ASSUME FoldersInv, NEW j \in Jobs, NEW n \in AlbumJob, job' = [job EXCEPT ![j] = n], job[j].state = "IMPORTING",
         n.state = job[j].state, n.claimed = job[j].claimed, n.got = job[j].got, n.leaf = job[j].leaf,
         WorkersKnow', UNCHANGED <<rows, missed, folders, refused, failed, lidarr>>
  PROVE  FoldersInv'
<1>1. n.leaf \in Leaves BY DEF FoldersInv, HasFolder
<1>. QED BY <1>1, JobOnlyKeeps

LEMMA LateKeeps == ASSUME FoldersInv, NEW j \in Jobs, Import!Late(j) PROVE FoldersInv'
<1>. DEFINE n == [job[j] EXCEPT !.late = TRUE]
<1>1. /\ job[j].state = "IMPORTING" /\ job' = [job EXCEPT ![j].late = TRUE] /\ work' = work
      /\ UNCHANGED <<rows, missed, folders, refused, failed, lidarr>>
BY DEF Import!Late, Import!DiskUnchanged
<1>2. job' = [job EXCEPT ![j] = n] BY <1>1
<1>3. n \in AlbumJob /\ n.state = job[j].state /\ n.claimed = job[j].claimed /\ n.got = job[j].got /\ n.leaf = job[j].leaf
BY DEF FoldersInv, JobTypes, AlbumJob
<1> HIDE DEF n
<1>4. WorkersKnow' BY <1>1, <1>2, <1>3, JobMovesKnows
<1>. QED BY <1>1, <1>2, <1>3, <1>4, NotedKeeps

LEMMA WorkersOnly ==
  ASSUME FoldersInv, WorkersKnow', UNCHANGED <<job, rows, missed, folders, refused, failed, lidarr>> PROVE FoldersInv'
<1>1. PlaceTypes' /\ Import!FoldersAreNamed' BY PlacesStay
<1>2. ClaimsAreNamed' /\ Alone' BY DEF FoldersInv, ClaimsAreNamed, Alone, WritesDisk
<1>. QED BY <1>1, <1>2, JobsStay

\* A worker goes on, or rests, as it changes its job.
LEMMA BothMove ==
  ASSUME FoldersInv, NEW w \in Import!Workers, NEW r \in Doings, NEW j \in Jobs, NEW n,
         job' = [job EXCEPT ![j] = n], work' = [work EXCEPT ![w] = r], WorkFits(w, r)',
         \/ \A v \in Import!Workers \ {w} : work[v].job # j
         \/ n.state = job[j].state /\ n.claimed = job[j].claimed /\ n.got = job[j].got
  PROVE  WorkersKnow'
<1>1. work' \in [Import!Workers -> Doings] BY DEF FoldersInv, WorkersKnow
<1>2. ASSUME NEW v \in Import!Workers PROVE WorkFits(v, work[v])'
  <2>1. CASE v = w
    <3>1. work'[v] = r BY <2>1 DEF FoldersInv, WorkersKnow
    <3>. QED BY <2>1, <3>1
  <2>2. CASE v # w
    <3>1. work'[v] = work[v] BY <2>2 DEF FoldersInv, WorkersKnow
    <3>2. WorkFits(v, work[v]) BY DEF FoldersInv, WorkersKnow
    <3>3. CASE work[v].at = "idle" BY <3>1, <3>2, <3>3 DEF WorkFits, DownFits, ImpFits, SelFits, Deciding
    <3>4. CASE work[v].at # "idle"
      <4>1. work[v].job \in Jobs BY <3>4, HeldIs
      <4>2. job'[work[v].job].state = job[work[v].job].state /\ job'[work[v].job].claimed = job[work[v].job].claimed
            /\ job'[work[v].job].got = job[work[v].job].got
        BY <2>2, <4>1 DEF FoldersInv, JobTypes
      <4>. QED BY <3>1, <3>2, <4>2 DEF WorkFits, DownFits, ImpFits, SelFits
    <3>. QED BY <3>3, <3>4
  <2>. QED BY <2>1, <2>2
<1>. QED BY <1>1, <1>2 DEF WorkersKnow

LEMMA MarkKeeps == ASSUME FoldersInv, Import!MarkImportSubmitted PROVE FoldersInv'
<1>. DEFINE j == work["importing"].job
            n == [job[j] EXCEPT !.submitted = TRUE, !.late = FALSE]
<1>1. "importing" \in Import!Workers /\ work["importing"].at \in Deciding
BY DEF Import!MarkImportSubmitted, Import!Doing, Deciding, Import!Workers
<1>2. j \in Jobs /\ job[j].state = "IMPORTING" BY <1>1, ItsFolder
<1>3. /\ work' = [work EXCEPT !["importing"] = Import!Idle] /\ UNCHANGED <<rows, missed, folders, refused, failed, lidarr>>
      /\ job' = job \/ job' = [job EXCEPT ![j] = n]
BY <1>2 DEF Import!MarkImportSubmitted, Import!TickEnds, Import!Rest, Import!DiskUnchanged, Import!Its, FoldersInv, JobTypes
<1>4. CASE job' = job
  <2>1. WorkersKnow' BY <1>1, <1>3, <1>4, RestKnows DEF Import!Rest
  <2>. QED BY <1>3, <1>4, <2>1, WorkersOnly
<1>5. CASE job' = [job EXCEPT ![j] = n]
  <2>1. n \in AlbumJob /\ n.state = job[j].state /\ n.claimed = job[j].claimed /\ n.got = job[j].got /\ n.leaf = job[j].leaf
    <3>1. job[j] \in AlbumJob BY <1>2 DEF FoldersInv, JobTypes
    <3>2. n \in AlbumJob BY <3>1 DEF AlbumJob
    <3>3. n.state = job[j].state /\ n.leaf = job[j].leaf BY <3>1 DEF AlbumJob
    <3>4. n.claimed = job[j].claimed /\ n.got = job[j].got BY <3>1 DEF AlbumJob
    <3>. QED BY <3>2, <3>3, <3>4
  <2> HIDE DEF n
  <2>2. Import!Idle \in Doings /\ WorkFits("importing", Import!Idle)' BY DEF WorkFits, ImpFits, Import!Idle, Doings, Deciding
  <2>3. WorkersKnow' BY <1>1, <1>2, <1>3, <1>5, <2>1, <2>2, BothMove
  <2>. QED BY <1>2, <1>3, <1>5, <2>1, <2>3, NotedKeeps
<1>. QED BY <1>3, <1>4, <1>5

LEMMA ExhaustedKeeps == ASSUME FoldersInv, NEW j \in Jobs, Import!Exhausted(j) PROVE FoldersInv'
<1>. DEFINE n == [job[j] EXCEPT !.state = "FAILED"]
<1>0. PICK r : r = [at |-> "quarantine", job |-> j, verdict |-> None, todo |-> Import!Registered(j)] OBVIOUS
<1>1. /\ job[j].state = "waiting" /\ job' = [job EXCEPT ![j].state = "FAILED"] /\ work' = [work EXCEPT !["selecting"] = r]
      /\ UNCHANGED <<rows, missed, folders, refused, failed, lidarr>>
BY <1>0 DEF Import!Exhausted, Import!DiskUnchanged
<1>2. job' = [job EXCEPT ![j] = n] BY <1>1
<1>3. n \in AlbumJob /\ n.state = "FAILED" BY DEF FoldersInv, JobTypes, AlbumJob, JobStates, Import!Over
<1> HIDE DEF n
<1>4. "selecting" \in Import!Workers BY DEF Import!Workers
<1>5. r \in Doings BY <1>0 DEF Doings, Import!Registered
<1>6. WorkFits("selecting", r)'
  <2>1. job'[j] = n BY <1>2 DEF FoldersInv, JobTypes
  <2>. QED BY <1>0, <1>3, <1>5, <2>1, ImportsAssumption DEF WorkFits, SelFits
<1>7. \A w \in Import!Workers : work[w].job # j BY <1>1, NotHeld
<1>8. WorkersKnow' BY <1>1, <1>2, <1>4, <1>5, <1>6, <1>7, BothMove
<1>. QED BY <1>1, <1>2, <1>3, <1>8, JobOnlyKeeps

\* Another file of the job is in its folder, which the register names.
LEMMA Arrives ==
  ASSUME FoldersInv, NEW j \in Jobs, WritesDisk(j), UNCHANGED <<rows, missed>>, job[j].leaf \in Leaves,
         folders' = folders \/ folders' = [folders EXCEPT ![job[j].leaf] = @ \cup {j}]
  PROVE  Import!FoldersAreNamed' /\ folders' \in [Leaves -> SUBSET Jobs]
<1>1. folders' \in [Leaves -> SUBSET Jobs] BY DEF FoldersInv, PlaceTypes
<1>2. ASSUME NEW k \in Jobs \ missed, NEW l \in Leaves, k \in folders'[l] PROVE rows[k][l] \in {"open", "left"}
  <2>1. CASE k \in folders[l] BY <2>1 DEF FoldersInv, Import!FoldersAreNamed
  <2>2. CASE k \notin folders[l]
    <3>1. k = j /\ l = job[j].leaf BY <1>2, <2>2 DEF FoldersInv, PlaceTypes
    <3>. QED BY <3>1 DEF FoldersInv, ClaimsAreNamed
  <2>. QED BY <2>1, <2>2
<1>3. Import!FoldersAreNamed' BY <1>2 DEF Import!FoldersAreNamed
<1>. QED BY <1>1, <1>3

LEMMA ArrivesKeeps == ASSUME FoldersInv, NEW j \in Jobs, Import!FileArrives(j) PROVE FoldersInv'
<1>. DEFINE n == [job[j] EXCEPT !.got = "all"]
<1>1. /\ job[j].state = "DOWNLOADING" /\ job[j].claimed /\ job[j].got = "none"
      /\ job' = [job EXCEPT ![j].got = "all"] /\ folders' = [folders EXCEPT ![job[j].leaf] = @ \cup {j}]
      /\ UNCHANGED <<rows, missed, refused, failed, lidarr, work>>
BY DEF Import!FileArrives, Import!AlbumFolder
<1>2. job' = [job EXCEPT ![j] = n] BY <1>1
<1>3. n \in AlbumJob /\ n.state = job[j].state /\ n.leaf = job[j].leaf BY DEF FoldersInv, JobTypes, AlbumJob
<1> HIDE DEF n
<1>4. WritesDisk(j) /\ job[j].leaf \in Leaves BY <1>1 DEF WritesDisk, FoldersInv, HasFolder
<1>5. WorkersKnow' BY <1>1, <1>2, NotHeld, JobMovesKnows
<1>6. Import!FoldersAreNamed' /\ folders' \in [Leaves -> SUBSET Jobs] BY <1>1, <1>4, Arrives
<1>7. PlaceTypes' BY <1>1, <1>6 DEF FoldersInv, PlaceTypes
<1>. QED BY <1>1, <1>2, <1>3, <1>4, <1>5, <1>6, <1>7, JobMoves

LEMMA FailsKeeps == ASSUME FoldersInv, NEW j \in Jobs, Import!DownloadFails(j) PROVE FoldersInv'
<1>. DEFINE n == [job[j] EXCEPT !.got = "broken"]
<1>0. PICK r : r = [at |-> "clean", job |-> j, verdict |-> "waiting", todo |-> Import!Registered(j)] OBVIOUS
<1>1. /\ job[j].state = "DOWNLOADING" /\ job[j].claimed /\ work["downloading"].at = "idle"
      /\ job' = [job EXCEPT ![j].got = "broken"] /\ work' = [work EXCEPT !["downloading"] = r]
      /\ UNCHANGED <<rows, missed, refused, failed, lidarr>>
BY <1>0 DEF Import!DownloadFails
<1>2. \/ folders' = folders
      \/ job[j].got = "none" /\ folders' = [folders EXCEPT ![job[j].leaf] = @ \cup {j}]
BY DEF Import!DownloadFails, Import!AlbumFolder
<1>3. job' = [job EXCEPT ![j] = n] BY <1>1
<1>4. n \in AlbumJob /\ n.state = job[j].state /\ n.leaf = job[j].leaf /\ n.got = "broken" /\ n.claimed = job[j].claimed
BY DEF FoldersInv, JobTypes, AlbumJob
<1> HIDE DEF n
<1>5. "downloading" \in Import!Workers BY DEF Import!Workers
<1>6. r \in Doings BY <1>0 DEF Doings, Import!Registered, Verdicts
<1>7. WorkFits("downloading", r)'
  <2>1. job'[j] = n BY <1>3 DEF FoldersInv, JobTypes
  <2>. QED BY <1>0, <1>1, <1>4, <1>6, <2>1, ImportsAssumption DEF WorkFits, DownFits
<1>8. \A v \in Import!Workers \ {"downloading"} : work[v].job # j
  <2>1. SUFFICES ASSUME NEW v \in Import!Workers \ {"downloading"}, work[v].job = j PROVE FALSE OBVIOUS
  <2>2. work[v].at # "idle" /\ WorkFits(v, work[v]) /\ v \in {"importing", "selecting"}
    BY <2>1, ImportsAssumption DEF FoldersInv, WorkersKnow, WorkFits, Import!Workers
  <2>3. CASE v = "selecting" BY <1>1, <2>1, <2>2, <2>3 DEF WorkFits, SelFits
  <2>4. CASE v = "importing"
    <3>1. work[v].at \in Deciding \cup {"write", "already", "clean", "tidy"} BY <2>2, <2>4 DEF WorkFits, ImpFits, Doings
    <3>. QED BY <1>1, <2>1, <2>2, <2>4, <3>1 DEF WorkFits, ImpFits
  <2>. QED BY <2>2, <2>3, <2>4
<1>9. WorkersKnow' BY <1>1, <1>3, <1>5, <1>6, <1>7, <1>8, BothMove
<1>10. job[j].leaf \in Leaves BY <1>1 DEF FoldersInv, HasFolder
<1>11. Import!FoldersAreNamed' /\ folders' \in [Leaves -> SUBSET Jobs]
  <2>1. CASE folders' = folders BY <1>1, <2>1 DEF FoldersInv, PlaceTypes, Import!FoldersAreNamed
  <2>2. CASE job[j].got = "none" /\ folders' = [folders EXCEPT ![job[j].leaf] = @ \cup {j}]
    <3>1. WritesDisk(j) BY <1>1, <2>2 DEF WritesDisk
    <3>. QED BY <1>1, <1>10, <2>2, <3>1, Arrives
  <2>. QED BY <1>2, <2>1, <2>2
<1>12. PlaceTypes' BY <1>1, <1>11 DEF FoldersInv, PlaceTypes
<1>. QED BY <1>1, <1>3, <1>4, <1>9, <1>10, <1>11, <1>12, JobMoves

\* A download is claimed: nobody downloads into its folder, for the register would name him.
LEMMA ReserveKeeps == ASSUME FoldersInv, NEW j \in Jobs, Import!ReserveDownloadFolders(j) PROVE FoldersInv'
<1>. DEFINE l == job[j].leaf
            n == [job[j] EXCEPT !.claimed = TRUE]
<1>1. /\ job[j].state = "DOWNLOADING" /\ ~job[j].claimed /\ job' = [job EXCEPT ![j].claimed = TRUE]
      /\ UNCHANGED <<folders, refused, failed, lidarr, work>>
BY DEF Import!ReserveDownloadFolders, Import!DiskUnchanged
<1>2. \/ Import!Owners(j, l) = {} /\ rows' = [rows EXCEPT ![j][l] = "open"] /\ missed' = missed
      \/ missed' = missed \cup {j} /\ rows' = rows
BY DEF Import!ReserveDownloadFolders, Import!RegisterDownloadFolder, Import!Reopen, Import!AlbumFolder
<1>3. l \in Leaves BY <1>1 DEF FoldersInv, HasFolder
<1>4. job' = [job EXCEPT ![j] = n] BY <1>1
<1>5. n \in AlbumJob /\ n.state = job[j].state /\ n.leaf = job[j].leaf BY DEF FoldersInv, JobTypes, AlbumJob
<1> HIDE DEF n
<1>6. WorkersKnow' BY <1>1, <1>4, NotHeld, JobMovesKnows
<1>7. \A k \in Jobs : job'[k] = IF k = j THEN n ELSE job[k] BY <1>4 DEF FoldersInv, JobTypes
<1>8. JobTypes' BY <1>4, <1>5 DEF FoldersInv, JobTypes
<1>9. HasFolder' BY <1>5, <1>7 DEF FoldersInv, HasFolder
<1>10. \A k \in Jobs : k # j => rows'[k] = rows[k] BY <1>2 DEF FoldersInv, PlaceTypes
<1>11. PlaceTypes' BY <1>1, <1>2, <1>3 DEF FoldersInv, PlaceTypes
<1>12. \A k \in Jobs : k # j /\ WritesDisk(k)' => WritesDisk(k) /\ job'[k].leaf = job[k].leaf BY <1>7 DEF WritesDisk
<1>13. CASE missed' = missed \cup {j} /\ rows' = rows
  <2>1. ClaimsAreNamed' /\ Alone' BY <1>12, <1>13 DEF FoldersInv, ClaimsAreNamed, Alone
  <2>2. Import!FoldersAreNamed' BY <1>1, <1>13 DEF FoldersInv, Import!FoldersAreNamed
  <2>. QED BY <1>6, <1>8, <1>9, <1>11, <2>1, <2>2 DEF FoldersInv
<1>14. CASE Import!Owners(j, l) = {} /\ rows' = [rows EXCEPT ![j][l] = "open"] /\ missed' = missed
  <2>1. rows'[j][l] = "open" /\ \A k \in Jobs, m \in Leaves : rows'[k][m] # rows[k][m] => rows'[k][m] = "open"
    BY <1>3, <1>14 DEF FoldersInv, PlaceTypes
  <2>2. Import!FoldersAreNamed' BY <1>1, <1>14, <2>1, NamesKeep
  <2>3. ClaimsAreNamed'
    <3>1. SUFFICES ASSUME NEW k \in Jobs \ missed', WritesDisk(k)' PROVE rows'[k][job'[k].leaf] = "open" BY DEF ClaimsAreNamed
    <3>2. CASE k = j BY <1>5, <1>7, <2>1, <3>2
    <3>3. CASE k # j BY <1>10, <1>12, <1>14, <3>1, <3>3 DEF FoldersInv, ClaimsAreNamed
    <3>. QED BY <3>2, <3>3
  <2>4. \A k \in Jobs \ missed : k # j /\ WritesDisk(k) => job[k].leaf # l
    <3>1. SUFFICES ASSUME NEW k \in Jobs \ missed, k # j, WritesDisk(k), job[k].leaf = l PROVE FALSE OBVIOUS
    <3>2. rows[k][l] = "open" /\ job[k].state = "DOWNLOADING" BY <3>1 DEF FoldersInv, ClaimsAreNamed, WritesDisk
    <3>3. k \in Import!Owners(j, l) BY <3>1, <3>2 DEF Import!Owners
    <3>. QED BY <1>14, <3>3
  <2>5. Alone'
    <3>1. SUFFICES ASSUME NEW k \in Jobs \ missed', NEW m \in Jobs \ missed', WritesDisk(k)', WritesDisk(m)', job'[k].leaf = job'[m].leaf PROVE k = m
      BY DEF Alone
    <3>2. job'[j].leaf = l BY <1>5, <1>7
    <3>3. CASE k = j BY <1>12, <1>14, <2>4, <3>1, <3>2, <3>3
    <3>4. CASE m = j BY <1>12, <1>14, <2>4, <3>1, <3>2, <3>4
    <3>5. CASE k # j /\ m # j BY <1>12, <1>14, <3>1, <3>5 DEF FoldersInv, Alone
    <3>. QED BY <3>3, <3>4, <3>5
  <2>. QED BY <1>6, <1>8, <1>9, <1>11, <2>2, <2>3, <2>5 DEF FoldersInv
<1>. QED BY <1>2, <1>13, <1>14

\* No two goroutines are at work for one job.
LEMMA OneHolder ==
  ASSUME FoldersInv, NEW v \in Import!Workers, NEW w \in Import!Workers, v # w, work[v].at # "idle", work[w].at # "idle"
  PROVE  work[v].job # work[w].job
<1>1. \A u \in {"downloading", "importing", "selecting"} : WorkFits(u, work[u]) BY DEF FoldersInv, WorkersKnow, Import!Workers
<1>2. work["downloading"].at # "idle" => job[work["downloading"].job].state = "DOWNLOADING" BY <1>1 DEF WorkFits, DownFits
<1>3. work["selecting"].at # "idle" => job[work["selecting"].job].state = "FAILED" BY <1>1 DEF WorkFits, SelFits
<1>4. work["importing"].at # "idle" => job[work["importing"].job].state \in {"IMPORTING", "DONE"}
  <2>1. WorkFits("importing", work["importing"]) BY <1>1
  <2>2. work["importing"].at # "idle" => work["importing"].at \in Deciding \cup {"write", "already", "clean", "tidy"}
    BY <2>1 DEF WorkFits, ImpFits, Doings
  <2>. QED BY <2>1, <2>2 DEF WorkFits, ImpFits
<1>. QED BY <1>2, <1>3, <1>4 DEF Import!Workers

LEMMA AdvanceKeeps == ASSUME FoldersInv, NEW w \in Import!Workers, Import!Advance(w) PROVE FoldersInv'
<1>. DEFINE j == work[w].job
            v == work[w].verdict
            from == IF w = "importing" THEN "IMPORTING" ELSE "DOWNLOADING"
            n == [job[j] EXCEPT !.state = v, !.late = FALSE]
<1>1. work[w].at \in {"write", "already"} /\ UNCHANGED <<rows, missed, folders, refused, failed, lidarr>>
BY DEF Import!Advance, Import!DiskUnchanged
<1>2. WorkFits(w, work[w]) BY DEF FoldersInv, WorkersKnow
<1>3. j \in Jobs BY <1>1, HeldIs
<1>4. w \in {"importing", "downloading", "selecting"} BY DEF Import!Workers
<1>5. w # "selecting" BY <1>1, <1>2 DEF WorkFits, SelFits
<1>6. job[j].state = from /\ v \in Verdicts
  <2>1. CASE w = "downloading" BY <1>1, <1>2, <2>1 DEF WorkFits, DownFits, Verdicts
  <2>2. CASE w = "importing" BY <1>1, <1>2, <2>2 DEF WorkFits, ImpFits
  <2>. QED BY <1>4, <1>5, <2>1, <2>2
<1>7. \/ Import!Rest(w) /\ job' = job
      \/ /\ job' = [job EXCEPT ![j].state = v, ![j].late = FALSE]
         /\ IF v # "DONE" THEN Import!Rest(w)
            ELSE Import!Goto(w, IF work[w].at = "already" THEN "clean" ELSE "tidy", None, Import!Registered(j))
BY <1>6 DEF Import!Advance
<1>8. CASE Import!Rest(w) /\ job' = job
  <2>1. WorkersKnow' BY <1>8, RestKnows
  <2>. QED BY <1>1, <1>8, <2>1, WorkersOnly
<1>9. CASE /\ job' = [job EXCEPT ![j].state = v, ![j].late = FALSE]
           /\ IF v # "DONE" THEN Import!Rest(w)
              ELSE Import!Goto(w, IF work[w].at = "already" THEN "clean" ELSE "tidy", None, Import!Registered(j))
  <2>0. job[j] \in AlbumJob BY <1>3 DEF FoldersInv, JobTypes
  <2>1. job' = [job EXCEPT ![j] = n] BY <1>3, <1>9 DEF FoldersInv, JobTypes
  <2>2. v \in JobStates BY <1>6 DEF JobStates, Verdicts
  <2>3. n \in AlbumJob BY <2>0, <2>2 DEF AlbumJob
  <2>4. n.state = v BY <2>0 DEF AlbumJob
  <2>5. n.leaf = job[j].leaf BY <2>0 DEF AlbumJob
  <2>6. job[j].leaf \in Leaves BY <1>3, <1>6 DEF FoldersInv, HasFolder
  <2>7. v # "DOWNLOADING" BY <1>6 DEF Verdicts, Import!Over
  <2> HIDE DEF n
  <2>8. \A u \in Import!Workers \ {w} : work[u].job # j
    <3>1. SUFFICES ASSUME NEW u \in Import!Workers \ {w}, work[u].job = j PROVE FALSE OBVIOUS
    <3>2. work[u].at # "idle" BY <1>3, <3>1, ImportsAssumption DEF FoldersInv, WorkersKnow, WorkFits
    <3>. QED BY <1>1, <3>1, <3>2, OneHolder
  <2>9. WorkersKnow'
    <3>1. CASE v # "DONE"
      <4>1. work' = [work EXCEPT ![w] = Import!Idle] BY <1>9, <3>1 DEF Import!Rest
      <4>2. Import!Idle \in Doings /\ WorkFits(w, Import!Idle)' BY DEF WorkFits, DownFits, ImpFits, SelFits, Import!Idle, Doings, Deciding
      <4>. QED BY <1>3, <2>1, <2>8, <4>1, <4>2, BothMove
    <3>2. CASE v = "DONE"
      <4>1. w = "importing" BY <1>1, <1>2, <1>4, <1>5, <3>2 DEF WorkFits, DownFits
      <4>2. PICK r : r = [at |-> IF work[w].at = "already" THEN "clean" ELSE "tidy", job |-> j, verdict |-> None, todo |-> Import!Registered(j)]
        OBVIOUS
      <4>3. work' = [work EXCEPT ![w] = r] BY <1>9, <3>2, <4>2, GotoIs
      <4>4. r \in Doings BY <1>3, <4>2 DEF Doings, Import!Registered
      <4>5. WorkFits(w, r)'
        <5>1. job'[j].state = "DONE" BY <1>3, <2>1, <2>4, <3>2 DEF FoldersInv, JobTypes
        <5>2. ImpFits(r)' BY <4>2, <5>1 DEF ImpFits, Deciding
        <5>. QED BY <1>3, <4>1, <4>2, <4>4, <5>2, ImportsAssumption DEF WorkFits
      <4>. QED BY <1>3, <2>1, <2>8, <4>3, <4>4, <4>5, BothMove
    <3>. QED BY <3>1, <3>2
  <2>. QED BY <1>1, <1>3, <2>1, <2>3, <2>4, <2>5, <2>6, <2>7, <2>9, JobOnlyKeeps
<1>. QED BY <1>7, <1>8, <1>9

LEMMA FoldersBegin == Import!Init => FoldersInv
<1>. SUFFICES ASSUME Import!Init PROVE FoldersInv OBVIOUS
<1>1. JobTypes BY DEF Import!Init, JobTypes, AlbumJob, JobStates
<1>2. PlaceTypes BY DEF Import!Init, PlaceTypes
<1>3. WorkersKnow
  <2>1. Import!Idle \in Doings BY DEF Import!Idle, Doings
  <2>2. \A w \in Import!Workers : work[w] = Import!Idle BY DEF Import!Init
  <2>. QED BY <2>1, <2>2, RestFits DEF WorkersKnow, Import!Init
<1>4. \A j \in Jobs : job[j].state = "waiting" BY DEF Import!Init
<1>5. HasFolder /\ ClaimsAreNamed /\ Alone BY <1>4 DEF HasFolder, ClaimsAreNamed, Alone, WritesDisk
<1>6. Import!FoldersAreNamed BY DEF Import!Init, Import!FoldersAreNamed
<1>. QED BY <1>1, <1>2, <1>3, <1>5, <1>6 DEF FoldersInv

LEMMA FoldersStep == ASSUME FoldersInv, [Import!Next]_importVars PROVE FoldersInv'
<1>1. ASSUME Import!ImportingStep PROVE FoldersInv'
BY <1>1, DecidesKeeps, ExecuteKeeps, RestoreKeeps, RefuseKeeps, MarkKeeps, TidyKeeps DEF Import!ImportingStep
<1>2. ASSUME NEW w \in Import!Workers, Import!CleanupStep(w) PROVE FoldersInv'
BY <1>2, NothingKeeps, AdvanceKeeps, CleanupKeeps DEF Import!CleanupStep
<1>3. ASSUME NEW l \in Leaves, Import!QuarantineLeftovers(l) PROVE FoldersInv' BY <1>3, QuarantineKeeps
<1>4. ASSUME NEW j \in Jobs, NEW l \in Leaves, Import!Activate(j, l) PROVE FoldersInv' BY <1>4, ActivateKeeps
<1>5. ASSUME NEW j \in Jobs,
             \/ Import!ReserveDownloadFolders(j) \/ Import!DeferForFolder(j) \/ Import!FileArrives(j) \/ Import!Downloaded(j)
             \/ Import!DownloadFails(j) \/ Import!Exhausted(j) \/ Import!RetryRefusedJob(j) \/ Import!WantedAgain(j) \/ Import!Late(j)
      PROVE FoldersInv'
BY <1>5, ReserveKeeps, DeferKeeps, ArrivesKeeps, DownloadedKeeps, FailsKeeps, ExhaustedKeeps, RetryKeeps, WantedKeeps, LateKeeps
<1>6. ASSUME UNCHANGED importVars PROVE FoldersInv'
  <2>1. UNCHANGED <<job, rows, missed, folders, refused, failed, lidarr, work>> BY <1>6 DEF importVars
  <2>. QED BY <2>1, WorkStays, WorkersOnly
<1>. QED BY <1>1, <1>2, <1>3, <1>4, <1>5, <1>6, CommandKeeps, CrashKeeps DEF Import!Next

LEMMA FoldersSay == FoldersInv => Import!FoldersAreSound
<1>. SUFFICES ASSUME FoldersInv PROVE Import!FoldersAreSound OBVIOUS
<1>1. Import!TypeOK
  <2>1. \A j \in Jobs : /\ job[j].state \in Import!Over \cup {"waiting", "DOWNLOADING", "IMPORTING"}
                        /\ job[j].leaf \in Leaves \cup {None}
                        /\ (job[j].state \in {"DOWNLOADING", "IMPORTING"} => job[j].leaf # None)
    BY ImportsAssumption DEF FoldersInv, JobTypes, AlbumJob, JobStates, HasFolder
  <2>2. \A j \in Jobs, l \in Leaves : rows[j][l] \in {"none", "open", "cleaned", "left"} BY DEF FoldersInv, PlaceTypes
  <2>3. \A w \in Import!Workers : (work[w].at = "idle") <=> (work[w].job = None) BY DEF FoldersInv, WorkersKnow, WorkFits
  <2>. QED BY <2>1, <2>2, <2>3 DEF Import!TypeOK, FoldersInv, PlaceTypes
<1>2. Import!OneWriter BY DEF Import!OneWriter, FoldersInv, Alone, WritesDisk
<1>. QED BY <1>1, <1>2 DEF Import!FoldersAreSound, FoldersInv

LEMMA ImportMoves == [FilesNext]_<<part, vars, importVars>> => [Import!Next]_importVars
BY DEF FilesNext

\* Whoever downloads, imports, cleans up and crashes meanwhile: what is left in a folder is named in the register, and no two
\* jobs download into one folder (RegisterDownloadFolder, reserveDownloadFolders, cleanupFolder).
THEOREM FoldersHold == FilesSpec => []FoldersAreSound
<1>1. FilesInit => FoldersInv BY FoldersBegin DEF FilesInit
<1>2. FoldersInv /\ [FilesNext]_<<part, vars, importVars>> => FoldersInv' BY FoldersStep, ImportMoves
<1>3. FoldersInv => FoldersAreSound BY FoldersSay DEF FoldersAreSound
<1>. QED BY <1>1, <1>2, <1>3, PTL DEF FilesSpec

\* What a step keeps of what was put aside.
KeepsQuarantine ==
  /\ failed \subseteq failed'
  /\ \A q \in Import!Names : refused[q] \subseteq refused'[q] \cup UNION {folders'[l] : l \in Leaves}

LEMMA NoneTouched == ASSUME refused' = refused, failed \subseteq failed' PROVE KeepsQuarantine
BY DEF KeepsQuarantine

LEMMA KeptStep == ASSUME FoldersInv, [Import!Next]_importVars PROVE KeepsQuarantine
<1>1. ASSUME NEW w \in Import!Workers, NEW l \in Leaves, Import!CleanupFolder(w, l) PROVE KeepsQuarantine
  <2>1. CASE Import!IsQuarantineDir(l)
    <3>1. UNCHANGED <<folders, refused, failed>> BY <1>1, <2>1 DEF Import!CleanupFolder, Import!DiskUnchanged
    <3>. QED BY <3>1, NoneTouched
  <2>2. CASE ~Import!IsQuarantineDir(l)
    <3>1. UNCHANGED <<refused, failed>>
      BY <1>1, <2>2 DEF Import!CleanupFolder, Import!DiskUnchanged, Import!DeleteDownloadFolder, Import!IsQuarantineDir, Import!QuarantineDirs
    <3>. QED BY <3>1, NoneTouched
  <2>. QED BY <2>1, <2>2
<1>2. ASSUME NEW l \in Leaves, Import!QuarantineLeftovers(l) PROVE KeepsQuarantine
  <2>1. refused' = refused /\ failed \subseteq failed' BY <1>2 DEF Import!QuarantineLeftovers
  <2>. QED BY <2>1, NoneTouched
<1>3. ASSUME Import!RestoreRefusedFolder PROVE KeepsQuarantine
  <2>. DEFINE i == work["importing"].job
              l == job[i].leaf
              src == Import!RefusedQuarantineSource(l, i)
  <2>1. failed' = failed BY <1>3 DEF Import!RestoreRefusedFolder
  <2>2. work["importing"].at \in Deciding BY SMTT(40), <1>3 DEF Import!RestoreRefusedFolder, Import!Doing, Deciding
  <2>3. i \in Jobs /\ l \in Leaves BY SMTT(40), <2>2, ItsFolder
  <2>4. refused' = refused \/ (folders' = [folders EXCEPT ![l] = refused[src]] /\ refused' = [refused EXCEPT ![src] = {}])
    BY <1>3 DEF Import!RestoreRefusedFolder, Import!AlbumFolder, Import!Its
  <2> HIDE DEF src
  <2>5. CASE refused' = refused BY <2>1, <2>5, NoneTouched
  <2>6. CASE folders' = [folders EXCEPT ![l] = refused[src]] /\ refused' = [refused EXCEPT ![src] = {}]
    <3>1. folders'[l] = refused[src] BY <2>3, <2>6 DEF FoldersInv, PlaceTypes
    <3>2. \A q \in Import!Names : q # src => refused'[q] = refused[q] BY <2>6 DEF FoldersInv, PlaceTypes
    <3>3. refused[src] \subseteq UNION {folders'[k] : k \in Leaves} BY <2>3, <3>1
    <3>. QED BY <2>1, <3>2, <3>3 DEF KeepsQuarantine
  <2>. QED BY <2>4, <2>5, <2>6
<1>4. ASSUME Import!RefuseImport PROVE KeepsQuarantine
  <2>. DEFINE i == work["importing"].job
              l == job[i].leaf
              q == Import!FreeQuarantinePath(l, i)
  <2>1. failed' = failed BY SMTT(40), <1>4 DEF Import!RefuseImport
  <2>2. refused' = refused \/ (refused[q] = {} /\ refused' = [refused EXCEPT ![q] = folders[l]])
    BY <1>4 DEF Import!RefuseImport, Import!AlbumFolder, Import!Its
  <2> HIDE DEF q
  <2>3. \A x \in Import!Names : refused[x] \subseteq refused'[x] BY <2>2 DEF FoldersInv, PlaceTypes
  <2>. QED BY SMTT(40), <2>1, <2>3 DEF KeepsQuarantine
<1>5. ASSUME Import!ImportingStep PROVE KeepsQuarantine
  <2>1. CASE Import!RestoreRefusedFolder \/ Import!RefuseImport BY <1>3, <1>4, <2>1
  <2>2. CASE ~(Import!RestoreRefusedFolder \/ Import!RefuseImport)
    <3>1. UNCHANGED <<refused, failed>>
      BY <1>5, <2>2 DEF Import!ImportingStep, Import!PickJob, Import!ResolveAlbumID, Import!Scan, Import!EmptyPreview,
        Import!AlbumAlreadyComplete, Import!ExecuteManualImport, Import!MarkImportSubmitted, Import!Confirm,
        Import!CleanupCompletedFolder, Import!DiskUnchanged
    <3>. QED BY <3>1, NoneTouched
  <2>. QED BY <2>1, <2>2
<1>6. ASSUME NEW w \in Import!Workers, Import!CleanupStep(w) PROVE KeepsQuarantine
  <2>1. CASE Import!NothingRegistered(w) \/ Import!Advance(w)
    <3>1. UNCHANGED <<refused, failed>> BY <2>1 DEF Import!NothingRegistered, Import!Advance, Import!DiskUnchanged
    <3>. QED BY <3>1, NoneTouched
  <2>. QED BY <1>1, <1>6, <2>1 DEF Import!CleanupStep
<1>7. ASSUME Import!RunCommand \/ Import!DropCommand \/ Import!Crash PROVE KeepsQuarantine
  <2>1. UNCHANGED <<refused, failed>> BY <1>7 DEF Import!RunCommand, Import!DropCommand, Import!Crash, Import!DiskUnchanged
  <2>. QED BY <2>1, NoneTouched
<1>8. ASSUME NEW j \in Jobs,
             \/ \E l \in Leaves : Import!Activate(j, l)
             \/ Import!ReserveDownloadFolders(j) \/ Import!DeferForFolder(j) \/ Import!FileArrives(j) \/ Import!Downloaded(j)
             \/ Import!DownloadFails(j) \/ Import!Exhausted(j) \/ Import!RetryRefusedJob(j) \/ Import!WantedAgain(j) \/ Import!Late(j)
      PROVE KeepsQuarantine
  <2>1. UNCHANGED <<refused, failed>>
    BY <1>8 DEF Import!Activate, Import!ReserveDownloadFolders, Import!DeferForFolder, Import!FileArrives, Import!Downloaded,
      Import!DownloadFails, Import!Exhausted, Import!RetryRefusedJob, Import!WantedAgain, Import!Late, Import!DiskUnchanged
  <2>. QED BY <2>1, NoneTouched
<1>9. ASSUME UNCHANGED importVars PROVE KeepsQuarantine
  <2>1. UNCHANGED <<refused, failed>> BY <1>9 DEF importVars
  <2>. QED BY <2>1, NoneTouched
<1>. QED BY <1>2, <1>5, <1>6, <1>7, <1>8, <1>9 DEF Import!Next

\* No clean-up deletes what was put aside, whatever names the peers give their directories: it only leaves the quarantine to
\* be imported once more (cleanupFolder, quarantineFolder, restoreRefusedFolder).
THEOREM QuarantineStays == FilesSpec => Import!QuarantineKept
<1>1. FilesInit => FoldersInv BY FoldersBegin DEF FilesInit
<1>2. FoldersInv /\ [FilesNext]_<<part, vars, importVars>> => FoldersInv' BY FoldersStep, ImportMoves
<1>3. FoldersInv /\ [FilesNext]_<<part, vars, importVars>> =>
        [/\ failed \subseteq failed'
         /\ \A n \in Import!Names : refused[n] \subseteq refused'[n] \cup UNION {folders'[l] : l \in Leaves}]_(Import!vars)
BY KeptStep, ImportMoves DEF KeepsQuarantine
<1>. QED BY <1>1, <1>2, <1>3, PTL DEF FilesSpec, Import!QuarantineKept
=============================================================================
