------------------------------ MODULE Migrations ------------------------------
(* Bringing the schema up to date (store/migrate.go, store/store.go): every *)
(* process that opens the store makes the table of versions, waits for the  *)
(* advisory lock and applies, in order and each in a transaction of its     *)
(* own, the migrations that are not recorded; the destructive ones wait for *)
(* an operator who asks for them. Processes of two releases start together, *)
(* are killed, run out of time or meet a failing statement; the database    *)
(* notices a dead session only after a while. Transactions and the lock are *)
(* the database's, which is external.                                       *)
EXTENDS Integers, Sequences, FiniteSets

CONSTANTS
  Processes,
  SchemaScopes \* the versions each process knows, the destructive ones, who of them is an operator; starts, faults, kills

VARIABLES
  files,    \* the files and bounds of this behaviour
  table,    \* schema_migrations is there
  versions, \* its rows
  schema,   \* the statements in effect, in the order of their commits
  lock,     \* who holds the advisory lock; Ghost for the session of a killed process
  opening   \* process -> its step, the migrations it goes through, what its transaction has done, how often it started

schemaVars == <<files, table, versions, schema, lock, opening>>

Nobody == 0
Ghost == -1
Statements == <<"first", "second">>
NoProcess == [at |-> "none", todo |-> <<>>, destructive |-> FALSE, tx |-> <<>>, starts |-> 0]
Init ==
  /\ files \in SchemaScopes
  /\ table = FALSE /\ versions = {} /\ schema = <<>> /\ lock = Nobody
  /\ opening = [p \in Processes |-> NoProcess]

Spend(what) == files[what] > 0 /\ files' = [files EXCEPT ![what] = @ - 1]
Moves(p, from, to) == opening[p].at = from /\ opening' = [opening EXCEPT ![p].at = to]
DatabaseUnchanged == UNCHANGED <<table, versions, schema>>

\* loadMigrations: by version, the routine ones or the destructive ones.
InOrder(S) == CHOOSE s \in [1 .. Cardinality(S) -> S] : \A i, j \in 1 .. Cardinality(S) : i < j => s[i] < s[j]
Of(p, destructive) == {v \in files.known[p] : (v \in files.destructive) = destructive}
Pending(p, destructive) == InOrder(Of(p, destructive))
Open(p) ==
  /\ opening[p].at \in {"none", "killed", "failed"} /\ opening[p].starts < files.starts
  /\ opening' = [opening EXCEPT ![p] = [NoProcess EXCEPT !.at = "bootstrap", !.todo = Pending(p, FALSE), !.starts = opening[p].starts + 1]]
  /\ UNCHANGED <<files, lock>> /\ DatabaseUnchanged
\* An operator's process has opened the store, and goes on with the destructive ones.
ApplyDestructive(p) ==
  /\ opening[p].at = "open" /\ files.operator = p /\ ~opening[p].destructive
  /\ opening' = [opening EXCEPT ![p] = [opening[p] EXCEPT !.at = "bootstrap", !.todo = Pending(p, TRUE), !.destructive = TRUE]]
  /\ UNCHANGED <<files, lock>> /\ DatabaseUnchanged

\* CREATE TABLE IF NOT EXISTS looks before it creates, and fails when another one created the table in between.
Bootstrap(p) ==
  /\ \/ table /\ Moves(p, "bootstrap", "lock") /\ UNCHANGED table
     \/ ~table /\ Moves(p, "bootstrap", "creating") /\ UNCHANGED table
     \/ ~table /\ Moves(p, "creating", "lock") /\ table' = TRUE
     \/ table /\ Moves(p, "creating", "failed") /\ UNCHANGED table
  /\ UNCHANGED <<files, versions, schema, lock>>
AcquireLock(p) ==
  /\ lock = Nobody /\ Moves(p, "lock", "next") /\ lock' = p
  /\ UNCHANGED files /\ DatabaseUnchanged

\* The next migration, or the end.
Skip(p) ==
  /\ opening[p].at = "next" /\ opening[p].todo # <<>> /\ Head(opening[p].todo) \in versions
  /\ opening' = [opening EXCEPT ![p].todo = Tail(@)]
  /\ UNCHANGED <<files, lock>> /\ DatabaseUnchanged
Begin(p) ==
  /\ opening[p].todo # <<>> /\ Head(opening[p].todo) \notin versions /\ Moves(p, "next", "tx")
  /\ UNCHANGED <<files, lock>> /\ DatabaseUnchanged
Effect(p, statement) == <<Head(opening[p].todo), statement>>
Due(p) == Statements[Len(opening[p].tx) + 1]
\* Mutant: each statement commits on its own.
ExecDirectly(p) ==
  /\ opening[p].at = "tx" /\ Len(opening[p].tx) < Len(Statements)
  /\ opening' = [opening EXCEPT ![p].tx = Append(@, Effect(p, Due(p)))]
  /\ schema' = Append(schema, Effect(p, Due(p)))
  /\ UNCHANGED <<files, table, versions, lock>>
Exec(p) ==
  /\ opening[p].at = "tx" /\ Len(opening[p].tx) < Len(Statements)
  /\ opening' = [opening EXCEPT ![p].tx = Append(@, Effect(p, Due(p)))]
  /\ UNCHANGED <<files, lock>> /\ DatabaseUnchanged
\* The version is recorded in the transaction of the statements.
Commits(p, committed) ==
  /\ versions' = IF committed THEN versions \cup {Head(opening[p].todo)} ELSE versions
  /\ schema' = IF committed THEN schema \o opening[p].tx ELSE schema
Commit(p) ==
  /\ opening[p].at = "tx" /\ Len(opening[p].tx) = Len(Statements)
  /\ Commits(p, TRUE)
  /\ opening' = [opening EXCEPT ![p] = [opening[p] EXCEPT !.at = "next", !.todo = Tail(@), !.tx = <<>>]]
  /\ UNCHANGED <<files, table, lock>>

\* A statement or the commit fails, and of the commit nobody knows; the start fails with it.
Ambiguous(p) == opening[p].at = "tx" /\ Len(opening[p].tx) = Len(Statements)
Rollback(p) ==
  /\ opening[p].at = "tx" /\ Spend("faults")
  /\ \E committed \in BOOLEAN : (committed => Ambiguous(p)) /\ Commits(p, committed)
  /\ opening' = [opening EXCEPT ![p] = [opening[p] EXCEPT !.at = "undo", !.tx = <<>>]]
  /\ UNCHANGED <<table, lock>>
\* The lock is released on every path; where that fails the pool keeps the session, until it has lived long enough.
Release(p) ==
  /\ \/ opening[p].todo = <<>> /\ Moves(p, "next", "open") /\ lock' = Nobody /\ UNCHANGED files
     \/ opening[p].todo = <<>> /\ files.operator # p /\ Moves(p, "next", "open") /\ Spend("faults") /\ UNCHANGED lock
     \/ Moves(p, "undo", "failed") /\ lock' = Nobody /\ UNCHANGED files
  /\ DatabaseUnchanged
ConnExpires(p) ==
  /\ lock = p /\ opening[p].at = "open" /\ lock' = Nobody
  /\ UNCHANGED <<files, opening>> /\ DatabaseUnchanged
TimeOut(p) ==
  /\ Moves(p, "lock", "failed") /\ Spend("faults")
  /\ UNCHANGED lock /\ DatabaseUnchanged

\* The session of a killed process stays until the database notices; a commit on its way still counts.
Kill(p) ==
  /\ opening[p].at \notin {"none", "killed", "failed"} /\ Spend("kills")
  /\ \E committed \in BOOLEAN : (committed => Ambiguous(p)) /\ Commits(p, committed)
  /\ opening' = [opening EXCEPT ![p] = [opening[p] EXCEPT !.at = "killed", !.tx = <<>>]]
  /\ lock' = IF lock = p THEN Ghost ELSE lock
  /\ UNCHANGED table
SessionDies ==
  /\ lock = Ghost /\ lock' = Nobody
  /\ UNCHANGED <<files, opening>> /\ DatabaseUnchanged

Goes(p) == Bootstrap(p) \/ AcquireLock(p) \/ Skip(p) \/ Begin(p) \/ Exec(p) \/ Commit(p) \/ Release(p)
Next ==
  \/ SessionDies
  \/ \E p \in Processes : Goes(p) \/ Open(p) \/ ApplyDestructive(p) \/ ConnExpires(p) \/ Rollback(p) \/ TimeOut(p) \/ Kill(p)

\* Processes go on, and dead sessions and old connections end.
SchemaFairness ==
  /\ WF_schemaVars(SessionDies)
  /\ WF_schemaVars(\E p \in Processes : ConnExpires(p))
  /\ \A p \in Processes : SF_schemaVars(Goes(p))
Spec == Init /\ [][Next]_schemaVars /\ SchemaFairness

(***************************************************************************)
(* Properties                                                              *)
(***************************************************************************)
\* The types of the variables.
TypeOK ==
  /\ table \in BOOLEAN /\ lock \in Processes \cup {Nobody, Ghost}
  /\ \A p \in Processes :
       /\ opening[p].at \in {"none", "bootstrap", "creating", "lock", "next", "tx", "undo", "open", "failed", "killed"}
       /\ Len(opening[p].tx) <= Len(Statements)

\* A version is recorded exactly when all its statements are in effect, and each of them once, whoever was killed where
\* (applyOneMigration).
WholeAndOnce ==
  \A v \in UNION {files.known[p] : p \in Processes} : \A k \in DOMAIN Statements :
    Cardinality({i \in DOMAIN schema : schema[i] = <<v, Statements[k]>>}) = (IF v \in versions THEN 1 ELSE 0)

\* Only one process migrates at a time (migrate.go:130).
OneMigrates == Cardinality({p \in Processes : opening[p].at \in {"next", "tx", "undo"}}) <= 1

\* A routine migration meets the ones before it, and a destructive one, which an operator asked for, meets all the routine ones
\* of its release (applyMigrationsOnConn, runMigrateDestructive).
EachMeetsItsSchema ==
  /\ \A v \in versions \ files.destructive : \A w \in (UNION {files.known[p] : p \in Processes}) \ files.destructive :
       w < v => w \in versions
  /\ versions \cap files.destructive # {} => files.known[files.operator] \ files.destructive \subseteq versions

\* An open store has the schema its process expects (OpenContext).
OpenIsCurrent == \A p \in Processes : opening[p].at = "open" => files.known[p] \ files.destructive \subseteq versions

\* Nobody waits for the lock for ever: who held it and was killed, failed or kept its connection gives it up (the session lock,
\* connMaxLifetime).
StartsEnd == <>[](\A p \in Processes : opening[p].at # "lock")

\* Whoever starts with whom and is killed where: migrations are applied whole, once, in order and by one process (Migrate).
SchemaIsSound == TypeOK /\ WholeAndOnce /\ OneMigrates /\ EachMeetsItsSchema /\ OpenIsCurrent
=============================================================================
