---------------------------- MODULE ShareLookups ----------------------------
(* How the published snapshot answers (soulseek/shares.go): a search over   *)
(* the gram index (buildShareTrigramIndex, match) and the contents of a     *)
(* folder by binary search (folderResponse). Names are sequences of         *)
(* character codes, already lower-cased where the code lower-cases them;    *)
(* the code's grams have three characters, here Gram of them. A behaviour   *)
(* takes one input and answers it.                                          *)
EXTENDS Integers, Sequences, SequencesExt

CONSTANTS Gram, Lookups \* [files, include, exclude, limit] or [directories, requested]

VARIABLES lookup, answered, answer
lookupVars == <<lookup, answered, answer>>

Init == lookup \in Lookups /\ answered = FALSE /\ answer = <<>>

HasTerm(s, t) == \E i \in 0 .. Len(s) - Len(t) : SubSeq(s, i + 1, i + Len(t)) = t
GramAt(s, i) == SubSeq(s, i, i + Gram - 1)
Offsets(s) == 1 .. Len(s) - Gram + 1
\* buildShareTrigramIndex: the ids of the files with the gram, ascending and each once.
Posting(files, g) == SelectSeq([i \in 1 .. Len(files) |-> i], LAMBDA i : \E o \in Offsets(files[i]) : GramAt(files[i], o) = g)

\* matchesShareSearch and pathExcluded; the excluded phrases of the server work as the excluded terms do.
Matches(name, include, exclude) ==
  /\ \A i \in DOMAIN include : HasTerm(name, include[i])
  /\ \A t \in exclude : ~HasTerm(name, t)

\* The first of a term's rarest grams.
Rarest(files, t) ==
  CHOOSE o \in Offsets(t) : \A p \in Offsets(t) :
    LET n == Len(Posting(files, GramAt(t, o)))  m == Len(Posting(files, GramAt(t, p))) IN n < m \/ (n = m /\ o <= p)
Long(include) == SelectSeq(include, LAMBDA t : Offsets(t) # {})
\* The postings to intersect, one for every distinct rarest gram, the shortest first.
Postings(files, include) ==
  LET grams == [i \in DOMAIN Long(include) |-> GramAt(Long(include)[i], Rarest(files, Long(include)[i]))]
      distinct == FoldLeft(LAMBDA seen, g : IF \E i \in DOMAIN seen : seen[i] = g THEN seen ELSE Append(seen, g), <<>>, grams)
  IN SortSeq([i \in DOMAIN distinct |-> Posting(files, distinct[i])], LAMBDA p, q : Len(p) < Len(q))

\* Mutant: a cursor goes past the id it looks for.
AdvancePast(p, from, id) == CHOOSE c \in from .. Len(p) + 1 : (\A i \in from .. c - 1 : p[i] <= id) /\ (c > Len(p) \/ p[c] > id)
\* One id of the shortest posting: the cursors of the others go on to it, up to the first that has gone past.
Advance(p, from, id) == CHOOSE c \in from .. Len(p) + 1 : (\A i \in from .. c - 1 : p[i] < id) /\ (c > Len(p) \/ p[c] >= id)
Intersected(ps) ==
  LET Step(acc, id) ==
        LET at == [k \in 2 .. Len(ps) |-> Advance(ps[k], acc.cursors[k], id)]
            misses == {k \in 2 .. Len(ps) : at[k] > Len(ps[k]) \/ ps[k][at[k]] # id}
            first == IF misses = {} THEN Len(ps) ELSE CHOOSE k \in misses : \A m \in misses : k <= m
        IN [cursors |-> [k \in 2 .. Len(ps) |-> IF k <= first THEN at[k] ELSE acc.cursors[k]],
            ids |-> IF misses = {} THEN Append(acc.ids, id) ELSE acc.ids]
  IN FoldLeft(Step, [cursors |-> [k \in 2 .. Len(ps) |-> 1], ids |-> <<>>], ps[1]).ids

Take(s, n) == SubSeq(s, 1, IF Len(s) < n THEN Len(s) ELSE n)
Chosen(files, ids, include, exclude, limit) ==
  Take(SelectSeq(ids, LAMBDA i : Matches(files[i], include, exclude)), limit)
Match ==
  LET files == lookup.files  include == lookup.include
      absent == \E i \in DOMAIN Long(include) : \E o \in Offsets(Long(include)[i]) : Posting(files, GramAt(Long(include)[i], o)) = <<>>
      ids == IF Long(include) = <<>> THEN [i \in 1 .. Len(files) |-> i] ELSE Intersected(Postings(files, include))
  IN /\ "files" \in DOMAIN lookup /\ ~answered /\ answered' = TRUE
     /\ answer' = IF lookup.limit = 0 \/ include = <<>> \/ absent THEN <<>>
                  ELSE Chosen(files, ids, include, lookup.exclude, lookup.limit)
     /\ UNCHANGED lookup

\* folderResponse: directories are sorted by their lower-cased names; those between the lower-cased request and the same
\* with the character after the separator are looked at.
Separator == 92
Lowered(s) == [i \in DOMAIN s |-> IF s[i] \in 65 .. 90 THEN s[i] + 32 ELSE s[i]]
Before(s, t) ==
  \/ \E i \in DOMAIN s \cap DOMAIN t : s[i] < t[i] /\ \A j \in 1 .. i - 1 : s[j] = t[j]
  \/ Len(s) < Len(t) /\ \A j \in DOMAIN s : s[j] = t[j]
\* sort.Search for the first name that is not before the bound.
SearchFrom(sorted, bound) == CHOOSE n \in 1 .. Len(sorted) + 1 :
  (\A i \in 1 .. n - 1 : Before(Lowered(sorted[i]), bound)) /\ (n > Len(sorted) \/ ~Before(Lowered(sorted[n]), bound))
Hi(s) == Append(s, Separator + 1)
Prefixed(name, prefix) == Len(name) >= Len(prefix) /\ SubSeq(name, 1, Len(prefix)) = prefix
FolderResponse ==
  LET sorted == SortSeq(lookup.directories, LAMBDA s, t : Before(Lowered(s), Lowered(t)))
      lowered == Lowered(lookup.requested)
      between == SubSeq(sorted, SearchFrom(sorted, lowered), SearchFrom(sorted, Hi(lowered)) - 1)
  IN /\ "directories" \in DOMAIN lookup /\ ~answered /\ answered' = TRUE
     /\ answer' = SelectSeq(between, LAMBDA d : d = lookup.requested \/ Prefixed(d, Append(lookup.requested, Separator)))
     /\ UNCHANGED lookup

Next == Match \/ FolderResponse
Spec == Init /\ [][Next]_lookupVars

\* The search finds what looking at every file finds, in the index's order, up to the limit.
SearchIsComplete ==
  "files" \in DOMAIN lookup /\ answered =>
    answer = IF lookup.include = <<>> THEN <<>>
             ELSE Chosen(lookup.files, [i \in 1 .. Len(lookup.files) |-> i], lookup.include, lookup.exclude, lookup.limit)

\* A folder is answered with itself and everything below it and nothing else, also next to names that differ only in case
\* or go on with a character that sorts before the separator.
FolderIsComplete ==
  "directories" \in DOMAIN lookup /\ answered =>
    Range(answer) = {d \in Range(lookup.directories) :
      d = lookup.requested \/ \E i \in DOMAIN d : i > 1 /\ d[i] = Separator /\ SubSeq(d, 1, i - 1) = lookup.requested}

\* Both kinds of lookup find what they should, and nothing else (match, folderResponse).
LookupsAreComplete == SearchIsComplete /\ FolderIsComplete
=============================================================================
