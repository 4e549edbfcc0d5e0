-------------------------------- MODULE Streams --------------------------------
(* The dashboard's event stream (observ/stream.go): one hub that gathers    *)
(* what its subscribers look at and a ticker that sends each what changed,  *)
(* through channels of one place that a slow connection finds overwritten.  *)
(* Here one browser, which opens a connection, leaves it and opens the next *)
(* (web/src/api/stream.tsx); the server may notice that late. What the page *)
(* fetches when it is told that the jobs or the uploads have changed, which *)
(* a hidden page does not, is left out.                                     *)
(*                                                                          *)
(* A job's row, the upload history and a sample are counters of how often   *)
(* they changed; a search session has the delta of app/search.go. Speeds    *)
(* and the details of one job, which the newest frame replaces, are left    *)
(* out, and so is the refresh a tick makes when the live transfers changed: *)
(* it is a correlation tick and a tick.                                     *)
EXTENDS Integers, Sequences, FiniteSets

CONSTANTS Conns, Rows, Groups, ThroughputCap, MaxSubscribers, StreamScopes

\* 0 stands for no connection.
ASSUME StreamAssumption == 0 \notin Conns /\ ThroughputCap \in Nat

VARIABLES
  streaming, \* what this behaviour may still see: opens, jobs of which rows, uploads, samples,
             \* search, faults
  db,        \* what the REST endpoints would answer now
  session,   \* the search session that is looked at
  hub,       \* generations, the fingerprint they are of, the rows and whose scopes they cover
  subs,      \* streamHub.subs
  ticker,    \* the run that is not cancelled, 0 if none
  runs,      \* run -> what its goroutine is doing
  conn,      \* connection -> what its handler is doing
  sub,       \* connection -> streamSubscriber
  box,       \* connection -> its four channels
  browser,   \* what the page shows and where it comes from
  told       \* connection -> the fingerprint its subscriber has been told of, or is taken to know

streamVars == <<streaming, db, session, hub, subs, ticker, runs, conn, sub, box, browser, told>>

Zero == [r \in Rows |-> 0]
NoGroups == [g \in Groups |-> 0]
Fingerprint == [rows |-> db.rows, uploads |-> db.uploads]
NoPayload == [sent |-> FALSE, groups |-> NoGroups, done |-> FALSE, truncated |-> FALSE, expired |-> FALSE]
EmptyBox == [live |-> Zero, flags |-> {}, samples |-> <<>>, search |-> NoPayload]
NoRead == [at |-> "idle", fp |-> [rows |-> Zero, uploads |-> 0], covers |-> {}, jobsGen |-> 0, uploadsGen |-> 0, samples |-> 0]
NewSub == [rows |-> Zero, jobsGen |-> 0, uploadsGen |-> 0, waited |-> FALSE, sample |-> 0, seq |-> 0, done |-> FALSE, truncated |-> FALSE, expired |-> FALSE]

Init ==
  /\ streaming \in StreamScopes
  /\ db = [rows |-> [r \in Rows |-> 1], uploads |-> 1, samples |-> 0]
  /\ session = [seq |-> 0, groups |-> NoGroups, done |-> FALSE, truncated |-> FALSE, gone |-> FALSE]
  /\ hub = [jobsGen |-> 0, uploadsGen |-> 0, known |-> FALSE, fp |-> [rows |-> Zero, uploads |-> 0], covers |-> {}]
  /\ subs = {} /\ ticker = 0 /\ runs = [k \in Conns |-> NoRead]
  /\ conn = [c \in Conns |-> [NoRead EXCEPT !.at = "closed"]] /\ sub = [c \in Conns |-> NewSub] /\ box = [c \in Conns |-> EmptyBox]
  /\ browser = [conn |-> 0, rows |-> Zero, samples |-> <<>>, search |-> NoPayload]
  /\ told = [c \in Conns |-> [rows |-> Zero, uploads |-> 0]]

Watching(c) == browser.conn = c /\ conn[c].at = "open"
Shown == \E c \in Conns : Watching(c)
May(what) == streaming[what] > 0 /\ streaming' = [streaming EXCEPT ![what] = @ - 1]
Stays == UNCHANGED streaming
HubUnchanged == UNCHANGED <<hub, subs, ticker>>
SubsUnchanged == UNCHANGED <<sub, box>>
BrowserUnchanged == UNCHANGED <<browser, told>>
SourcesUnchanged == UNCHANGED <<db, session>>

(***************************************************************************)
(* The sources                                                             *)
(***************************************************************************)
SourceMoves == HubUnchanged /\ SubsUnchanged /\ BrowserUnchanged /\ UNCHANGED <<runs, conn>>
JobChanges(r) ==
  /\ r \in streaming.rows /\ May("jobs")
  /\ db' = [db EXCEPT !.rows[r] = @ + 1] /\ UNCHANGED session /\ SourceMoves
UploadRecorded == May("uploads") /\ db' = [db EXCEPT !.uploads = @ + 1] /\ UNCHANGED session /\ SourceMoves
SampleTaken == May("samples") /\ db' = [db EXCEPT !.samples = @ + 1] /\ UNCHANGED session /\ SourceMoves
\* accept: the groups that got results have the new sequence number; past the limit it is only noted.
SessionAccepts(gs) ==
  /\ ~session.done /\ May("search") /\ UNCHANGED db /\ SourceMoves
  /\ IF gs = {} THEN session' = [session EXCEPT !.truncated = TRUE]
     ELSE session' = [session EXCEPT !.seq = @ + 1, !.groups = [g \in Groups |-> IF g \in gs THEN session.seq + 1 ELSE @[g]]]
SessionFinishes == ~session.done /\ May("search") /\ session' = [session EXCEPT !.done = TRUE] /\ UNCHANGED db /\ SourceMoves
SessionExpires == session.done /\ May("search") /\ ~session.gone /\ session' = [session EXCEPT !.gone = TRUE] /\ UNCHANGED db /\ SourceMoves

(***************************************************************************)
(* refreshCorrelation, by a ticker's goroutine or a connection's handler   *)
(***************************************************************************)
\* The scopes, then the rows and the mark of the upload history, which stays what it was when it cannot be read.
WithoutMark == [rows |-> db.rows, uploads |-> hub.fp.uploads]
ScopedJobIDs(own) == subs \cup own
Read(r, at, covers) ==
  {[fault |-> FALSE, is |-> [r EXCEPT !.at = at, !.fp = Fingerprint, !.covers = covers]],
   [fault |-> TRUE, is |-> [r EXCEPT !.at = at, !.fp = WithoutMark, !.covers = covers]]}
Stored(fp, covers) ==
  [known |-> TRUE, fp |-> fp, covers |-> covers,
   jobsGen |-> IF hub.known /\ fp.rows # hub.fp.rows THEN hub.jobsGen + 1 ELSE hub.jobsGen,
   uploadsGen |-> IF hub.known /\ fp.uploads # hub.fp.uploads THEN hub.uploadsGen + 1 ELSE hub.uploadsGen]

\* The first fingerprint is news to nobody.
Store(r) == hub' = Stored(r.fp, r.covers) /\ told' = IF hub.known THEN told ELSE [c \in Conns |-> r.fp]

(***************************************************************************)
(* A connection (registerStream, subscribe, unsubscribe)                   *)
(***************************************************************************)
\* The page opens a connection and leaves the one it had. (atCapacity is asked here.)
Open(c) ==
  /\ conn[c].at = "closed" /\ (\A d \in Conns : d < c => conn[d].at # "closed") /\ May("opens") /\ Cardinality(subs) < MaxSubscribers
  /\ conn' = [conn EXCEPT ![c].at = "opening"]
  /\ browser' = [browser EXCEPT !.conn = c, !.rows = Zero, !.samples = <<>>, !.search = NoPayload]
  /\ SourcesUnchanged /\ HubUnchanged /\ SubsUnchanged /\ UNCHANGED <<runs, told>>
SubscribeReads(c) ==
  /\ conn[c].at = "opening"
  /\ \E read \in Read(conn[c], "stored", ScopedJobIDs({c})) \cup {[fault |-> TRUE, is |-> [conn[c] EXCEPT !.at = "kept"]]} :
       /\ (IF read.fault THEN May("faults") ELSE Stays) /\ conn' = [conn EXCEPT ![c] = read.is]
  /\ SourcesUnchanged /\ HubUnchanged /\ SubsUnchanged /\ BrowserUnchanged /\ UNCHANGED runs
SubscribeStores(c) ==
  /\ conn[c].at \in {"stored", "kept"} /\ conn' = [conn EXCEPT ![c] = [NoRead EXCEPT !.at = "snapshot"]]
  /\ IF conn[c].at = "stored" THEN Store(conn[c]) ELSE UNCHANGED <<hub, told>>
  /\ Stays /\ SourcesUnchanged /\ SubsUnchanged /\ UNCHANGED <<subs, ticker, runs, browser>>
Delta(since) == [g \in Groups |-> IF session.groups[g] > since THEN session.groups[g] ELSE 0]
SearchPayload(since) ==
  IF session.gone THEN [NoPayload EXCEPT !.sent = TRUE, !.expired = TRUE]
  ELSE [sent |-> TRUE, groups |-> Delta(since), done |-> session.done, truncated |-> session.truncated, expired |-> FALSE]
\* The first frames, computed here and written by the handler once it is registered; and what the subscriber is taken to know.
SubscribeSnapshots(c) ==
  LET rows == IF c \in hub.covers THEN hub.fp.rows ELSE Zero IN
  /\ conn[c].at = "snapshot" /\ conn' = [conn EXCEPT ![c].at = "insert"]
  /\ sub' = [sub EXCEPT ![c] = [rows |-> rows, jobsGen |-> hub.jobsGen, uploadsGen |-> hub.uploadsGen, waited |-> FALSE, sample |-> db.samples,
       seq |-> session.seq, done |-> session.done, truncated |-> session.truncated, expired |-> session.gone]]
  /\ box' = [box EXCEPT ![c] = [live |-> rows, flags |-> {}, samples |-> [i \in 1 .. db.samples |-> i], search |-> SearchPayload(0)]]
  /\ told' = [told EXCEPT ![c] = hub.fp]
  /\ Stays /\ SourcesUnchanged /\ HubUnchanged /\ UNCHANGED <<runs, browser>>
FirstFrames(c) == IF browser.conn # c THEN browser
                  ELSE [browser EXCEPT !.rows = box[c].live, !.samples = box[c].samples, !.search = box[c].search]
\* Registered, with a ticker started if there is none; the first frames leave before anything the ticker sends.
SubscribeInserts(c) ==
  /\ conn[c].at = "insert" /\ conn' = [conn EXCEPT ![c].at = "open"] /\ subs' = subs \cup {c}
  /\ IF ticker = 0 THEN ticker' = c /\ runs' = [runs EXCEPT ![c] = NoRead] ELSE UNCHANGED <<ticker, runs>>
  /\ browser' = FirstFrames(c) /\ box' = [box EXCEPT ![c] = EmptyBox]
  /\ Stays /\ SourcesUnchanged /\ UNCHANGED <<hub, sub, told>>
\* unsubscribe: the last one cancels the ticker.
Cancel(left) == IF left = {} THEN 0 ELSE ticker
Unsubscribe(c) ==
  /\ conn[c].at = "open" /\ browser.conn # c /\ conn' = [conn EXCEPT ![c].at = "over"]
  /\ subs' = subs \ {c} /\ ticker' = Cancel(subs \ {c})
  /\ sub' = [sub EXCEPT ![c] = NewSub] /\ box' = [box EXCEPT ![c] = EmptyBox]
  /\ Stays /\ SourcesUnchanged /\ BrowserUnchanged /\ UNCHANGED <<hub, runs>>

(***************************************************************************)
(* The ticker (run, correlationTick, tick); a cancelled one may still be   *)
(* in the middle of either, and of its reads nothing may come              *)
(***************************************************************************)
CorrelationReads(k) ==
  /\ runs[k].at = "idle" /\ ticker = k /\ UNCHANGED conn
  /\ \E read \in Read(NoRead, "refresh", ScopedJobIDs({})) :
       (IF read.fault THEN May("faults") ELSE Stays) /\ runs' = [runs EXCEPT ![k] = read.is]
  /\ SourcesUnchanged /\ HubUnchanged /\ SubsUnchanged /\ BrowserUnchanged
CorrelationStores(k) ==
  /\ runs[k].at = "refresh" /\ runs' = [runs EXCEPT ![k] = NoRead]
  /\ \/ Stays /\ Store(runs[k])
     \/ ticker = k /\ May("faults") /\ UNCHANGED <<hub, told>>
     \/ ticker # k /\ Stays /\ UNCHANGED <<hub, told>>
  /\ SourcesUnchanged /\ SubsUnchanged /\ UNCHANGED <<subs, ticker, conn, browser>>
TickReads(k) ==
  /\ runs[k].at = "idle" /\ ticker = k
  /\ \E n \in {db.samples} \cup (IF streaming.faults > 0 THEN {0} ELSE {}) :
       /\ (IF n = db.samples THEN Stays ELSE May("faults"))
       /\ runs' = [runs EXCEPT ![k] = [at |-> "tick", fp |-> hub.fp, covers |-> hub.covers, jobsGen |-> hub.jobsGen, uploadsGen |-> hub.uploadsGen, samples |-> n]]
  /\ SourcesUnchanged /\ HubUnchanged /\ SubsUnchanged /\ BrowserUnchanged /\ UNCHANGED conn

\* buildJobsDelta: rows that are not known to be there are forgotten, and sent again when they are.
RowsOf(c, t) == IF c \in t.covers THEN t.fp.rows ELSE Zero
\* Mutant: the later delta replaces the one not read yet.
MergeLatest(old, new) == new
MergeJobsDelta(old, new) == [r \in Rows |-> IF new[r] # 0 THEN new[r] ELSE old[r]]
JobsDelta(c, t) == [r \in Rows |-> IF RowsOf(c, t)[r] # sub[c].rows[r] THEN RowsOf(c, t)[r] ELSE 0]
\* The flags of an invalidation: one for each generation that moved, once the interval has passed.
Changed(c, t) ==
  (IF t.jobsGen # sub[c].jobsGen THEN {"jobs"} ELSE {}) \cup (IF t.uploadsGen # sub[c].uploadsGen THEN {"uploads"} ELSE {})
Invalidates(c, t) == Changed(c, t) # {} /\ sub[c].waited
Fresh(c, t) == [i \in 1 .. (IF t.samples > sub[c].sample THEN t.samples - sub[c].sample ELSE 0) |-> sub[c].sample + i]
CapThroughputSamples(s) == IF Len(s) <= ThroughputCap THEN s ELSE SubSeq(s, Len(s) - ThroughputCap + 1, Len(s))
MergeThroughput(old, new) == IF old = <<>> THEN new ELSE IF new = <<>> THEN old ELSE CapThroughputSamples(old \o new)
\* A delta is sent when it has groups or when the session has ended or was cut off; its disappearance once.
SearchSends(c) ==
  IF session.gone THEN ~sub[c].expired
  ELSE Delta(sub[c].seq) # NoGroups \/ session.done # sub[c].done \/ session.truncated # sub[c].truncated
\* Mutant: the later frame replaces the one not read yet.
SearchLatest(old, new) == new
MergeSearchGroups(old, new) == [g \in Groups |-> IF new[g] # 0 THEN new[g] ELSE old[g]]
MergeSearch(old, new) ==
  [sent |-> TRUE, groups |-> MergeSearchGroups(old.groups, new.groups),
   done |-> new.done \/ old.done, truncated |-> new.truncated \/ old.truncated, expired |-> new.expired \/ old.expired]
SendLatestInvalidate(old, new) == new
Sent(c, t) ==
  [live |-> MergeJobsDelta(box[c].live, JobsDelta(c, t)),
   flags |-> IF Invalidates(c, t) THEN SendLatestInvalidate(box[c].flags, Changed(c, t)) ELSE box[c].flags,
   samples |-> MergeThroughput(box[c].samples, Fresh(c, t)),
   search |-> IF ~SearchSends(c) THEN box[c].search ELSE IF box[c].search.sent THEN MergeSearch(box[c].search, SearchPayload(sub[c].seq)) ELSE SearchPayload(sub[c].seq)]
Knows(c, t) ==
  [rows |-> RowsOf(c, t),
   jobsGen |-> IF Invalidates(c, t) THEN t.jobsGen ELSE sub[c].jobsGen,
   uploadsGen |-> IF Invalidates(c, t) THEN t.uploadsGen ELSE sub[c].uploadsGen,
   waited |-> sub[c].waited /\ ~Invalidates(c, t),
   sample |-> IF t.samples > sub[c].sample THEN t.samples ELSE sub[c].sample,
   seq |-> IF SearchSends(c) /\ ~session.gone THEN session.seq ELSE sub[c].seq,
   done |-> IF SearchSends(c) /\ ~session.gone THEN session.done ELSE sub[c].done,
   truncated |-> IF SearchSends(c) /\ ~session.gone THEN session.truncated ELSE sub[c].truncated,
   expired |-> sub[c].expired \/ session.gone]
Told(c, t) ==
  [rows |-> IF Invalidates(c, t) /\ "jobs" \in Changed(c, t) THEN t.fp.rows ELSE told[c].rows,
   uploads |-> IF Invalidates(c, t) /\ "uploads" \in Changed(c, t) THEN t.fp.uploads ELSE told[c].uploads]
\* Under the hub's lock, and only if the ticker has not been cancelled meanwhile.
TickSends(k) ==
  LET t == runs[k] IN
  /\ t.at = "tick" /\ runs' = [runs EXCEPT ![k] = NoRead]
  /\ IF ticker # k THEN SubsUnchanged /\ UNCHANGED told
     ELSE /\ box' = [c \in Conns |-> IF c \in subs THEN Sent(c, t) ELSE box[c]]
          /\ sub' = [c \in Conns |-> IF c \in subs THEN Knows(c, t) ELSE sub[c]]
          /\ told' = [c \in Conns |-> IF c \in subs THEN Told(c, t) ELSE told[c]]
  /\ Stays /\ SourcesUnchanged /\ HubUnchanged /\ UNCHANGED <<conn, browser>>
IntervalPasses(c) ==
  /\ c \in subs /\ browser.conn = c /\ ~sub[c].waited /\ sub' = [sub EXCEPT ![c].waited = TRUE]
  /\ Stays /\ SourcesUnchanged /\ HubUnchanged /\ BrowserUnchanged /\ UNCHANGED <<runs, conn, box>>

(***************************************************************************)
(* What the handler writes and the page does with it; what is sent to a    *)
(* connection the page has left is nobody's                                *)
(***************************************************************************)
Writes(c, what, empty) ==
  /\ Watching(c) /\ box[c][what] # empty /\ box' = [box EXCEPT ![c][what] = empty]
  /\ Stays /\ SourcesUnchanged /\ HubUnchanged /\ UNCHANGED <<runs, conn, sub>>
WritesLive(c) ==
  /\ Writes(c, "live", Zero) /\ UNCHANGED told /\ browser' = [browser EXCEPT !.rows = MergeJobsDelta(@, box[c].live)]
WritesSamples(c) ==
  /\ Writes(c, "samples", <<>>) /\ UNCHANGED told /\ browser' = [browser EXCEPT !.samples = @ \o box[c].samples]
WritesSearch(c) ==
  /\ Writes(c, "search", NoPayload) /\ UNCHANGED told /\ browser' = [browser EXCEPT !.search = MergeSearch(@, box[c].search)]
WritesInvalidate(c) == Writes(c, "flags", {}) /\ BrowserUnchanged

Handler(c) ==
  SubscribeReads(c) \/ SubscribeStores(c) \/ SubscribeSnapshots(c) \/ SubscribeInserts(c) \/ Unsubscribe(c)
Next ==
  \/ \E r \in Rows : JobChanges(r)
  \/ UploadRecorded \/ SampleTaken \/ SessionFinishes \/ SessionExpires
  \/ \E gs \in SUBSET Groups : SessionAccepts(gs)
  \/ \E c \in Conns :
       \/ Open(c) \/ Handler(c) \/ IntervalPasses(c)
       \/ CorrelationReads(c) \/ CorrelationStores(c) \/ TickReads(c) \/ TickSends(c)
       \/ WritesLive(c) \/ WritesSamples(c) \/ WritesSearch(c) \/ WritesInvalidate(c)

\* The two tickers of a run both fire again and again; handlers and writers run on, and time passes.
Spec ==
  /\ Init /\ [][Next]_streamVars
  /\ \A c \in Conns :
       /\ WF_streamVars(Handler(c)) /\ WF_streamVars(IntervalPasses(c))
       /\ SF_streamVars(CorrelationReads(c)) /\ SF_streamVars(TickReads(c))
       /\ WF_streamVars(CorrelationStores(c) \/ TickSends(c))
       /\ WF_streamVars(WritesLive(c)) /\ WF_streamVars(WritesSamples(c)) /\ WF_streamVars(WritesSearch(c)) /\ WF_streamVars(WritesInvalidate(c))

(***************************************************************************)
(* Properties                                                              *)
(***************************************************************************)
\* There is a ticker while, and only while, somebody has subscribed; what a subscriber is taken to know has happened.
StreamTypeOK ==
  /\ (ticker = 0) <=> (subs = {})
  /\ \A c \in subs : sub[c].jobsGen <= hub.jobsGen /\ sub[c].uploadsGen <= hub.uploadsGen /\ sub[c].sample <= db.samples /\ sub[c].seq <= session.seq
  /\ ~browser.search.expired \/ session.gone

\* A page that is told a search has ended has all of its groups, though frames were merged on the way (sendLatestSearch).
EndedMeansAll ==
  browser.search.done /\ ~session.gone => browser.search.groups = session.groups /\ browser.search.truncated = session.truncated

\* Samples come in order, each once, and of those that were merged the newest ones (sendLatestThroughput, newThroughputSince).
SamplesInOrder ==
  \A c \in subs : browser.conn = c =>
    LET s == browser.samples \o box[c].samples IN
    /\ \A i \in 1 .. Len(s) - 1 : s[i] < s[i + 1]
    /\ \A n \in 1 .. sub[c].sample : n > sub[c].sample - ThroughputCap => \E i \in DOMAIN s : s[i] = n

\* The rows on a page that stays open become those of the database, whoever connects and leaves meanwhile.
RowsFollow == <>[]Shown => <>[](browser.rows = db.rows)

\* ... and so does the search that is shown, until it has expired, which is told.
SearchFollows ==
  <>[]Shown =>
    <>[](browser.search.expired \/ (browser.search.groups = session.groups /\ browser.search.done = session.done /\ browser.search.truncated = session.truncated))

\* The subscriber of a page that stays open is told of every change of the jobs and of the upload history after the first
\* fingerprint, though changes fall into its throttle window or another's refresh finds them (refreshCorrelation, tick).
InvalidationsAreSent ==
  <>[]Shown => <>[](hub.fp = Fingerprint /\ \A c \in subs : Watching(c) => told[c] = hub.fp)

\* What a page has been sent is true, in order and complete, though frames were merged (tick).
StreamIsSound == StreamTypeOK /\ EndedMeansAll /\ SamplesInOrder

\* A page that stays open comes to show what is, and is sent word of what it fetches (correlationTick, tick).
PageFollows == RowsFollow /\ SearchFollows /\ InvalidationsAreSent
=============================================================================
