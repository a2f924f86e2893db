----------------------------- MODULE Migrations -----------------------------
(***************************************************************************)
(* The migrations of the Apps at boot (crates/larkstack-core/src/db.rs and *)
(* the loop in crates/larkstack/src/lib.rs).  All Apps share one database; *)
(* a table's name says whose it is.  Each pending migration runs in a      *)
(* transaction of its own, which rolls back when it touched the names of   *)
(* another App's tables; an App with a migration that failed is not        *)
(* supervised in this boot, the others are.                                *)
(*                                                                         *)
(* Transactions are SQLite's: they commit whole or not at all, and the     *)
(* pool has one connection.                                                *)
(***************************************************************************)
EXTENDS Integers, Sequences, FiniteSets, SequencesExt

CONSTANTS
  Apps,       \* the registered Apps, in order
  Releases,   \* versions of the program, oldest first
  Declared,   \* the migrations a release declares for an App, in order
  Tables,     \* names of tables
  Framework,  \* those of the runner and of SQLite itself
  Prefixed,   \* the names that start with an App's prefix
  NoTxn

Migration == [name : STRING, drops : SUBSET Tables, makes : SUBSET Tables, runs : BOOLEAN]

ASSUME DeclaredAssumption ==
  \A r \in DOMAIN Releases, a \in ToSet(Apps) :
    /\ Declared[Releases[r]][a] \in Seq(Migration)
    /\ \A i, j \in DOMAIN Declared[Releases[r]][a] :
         Declared[Releases[r]][a][i].name = Declared[Releases[r]][a][j].name => i = j
ASSUME ReleasesAssumption == Apps \in Seq(STRING) /\ Releases \in Seq(STRING) /\ Releases # <<>>
ASSUME NamesAssumption ==
  /\ Framework \subseteq Tables
  /\ \A a \in ToSet(Apps) : Framework \cap Prefixed[a] = {}
  /\ \A a, b \in ToSet(Apps) : a # b => Prefixed[a] \cap Prefixed[b] = {}

VARIABLES
  release,     \* index of the release installed
  schema,      \* tables there are
  applied,     \* rows of the tracking table, in their order: an App and a
               \* migration's name, and, as history, what the migration did
  queue,       \* Apps this boot has yet to go through
  at,          \* the place in the list of the first App's migrations
  txn,         \* the open transaction's tables, or NoTxn
  supervised,  \* Apps this boot supervises and mounts
  unlucky      \* history: Apps this boot skipped for a failure of the disk

db == <<schema, applied>>
migrationVars == <<release, db, queue, at, txn, supervised, unlucky>>

List(a) == Declared[Releases[release]][a]
Current == List(Head(queue))[at]

Rows == [app : ToSet(Apps), name : STRING, drops : SUBSET Tables, makes : SUBSET Tables]
Row(a, m) == [app |-> a, name |-> m.name, drops |-> m.drops, makes |-> m.makes]

(* is_applied.                                                             *)
Recorded(a, m) == \E i \in DOMAIN applied : applied[i].app = a /\ applied[i].name = m.name

MigrationsTypeOK ==
  /\ release \in DOMAIN Releases /\ schema \subseteq Tables /\ applied \in Seq(Rows)
  /\ queue \in Seq(ToSet(Apps)) /\ at \in Nat
  /\ txn \in {NoTxn} \cup SUBSET Tables
  /\ supervised \subseteq ToSet(Apps) /\ unlucky \subseteq ToSet(Apps)

MigrationsInit ==
  /\ release = 1 /\ schema = {} /\ applied = <<>>
  /\ queue = <<>> /\ at = 1 /\ txn = NoTxn /\ supervised = {} /\ unlucky = {}

(* The loop comes to the first App.                                        *)
BeginMigrations ==
  /\ queue' = Apps /\ at' = 1
  /\ UNCHANGED <<release, db, txn, supervised, unlucky>>

NextApp == queue' = Tail(queue) /\ at' = 1 /\ txn' = NoTxn

(* Applied in an earlier boot.                                             *)
Skip ==
  /\ queue # <<>> /\ txn = NoTxn /\ at <= Len(List(Head(queue)))
  /\ Recorded(Head(queue), Current)
  /\ at' = at + 1
  /\ UNCHANGED <<release, db, queue, txn, supervised, unlucky>>

(* begin and up.                                                           *)
Up ==
  /\ queue # <<>> /\ txn = NoTxn /\ at <= Len(List(Head(queue)))
  /\ ~ Recorded(Head(queue), Current) /\ Current.runs
  /\ txn' = (schema \ Current.drops) \cup Current.makes
  /\ UNCHANGED <<release, db, queue, at, supervised, unlucky>>

(* The names created or dropped that are not the App's.                    *)
Outside(a, before, after) ==
  ((after \ before) \cup (before \ after)) \ (Framework \cup Prefixed[a]) # {}

(* Mutant: the row of the tracking table is written outside.               *)
CommitThenRecord ==
  /\ txn # NoTxn /\ ~ Outside(Head(queue), schema, txn)
  /\ schema' = txn /\ at' = at + 1 /\ txn' = NoTxn
  /\ \/ applied' = Append(applied, Row(Head(queue), Current))
     \/ UNCHANGED applied
  /\ UNCHANGED <<release, queue, supervised, unlucky>>

(* The check, the row of the tracking table and the commit.                *)
Commit ==
  /\ txn # NoTxn /\ ~ Outside(Head(queue), schema, txn)
  /\ schema' = txn /\ at' = at + 1 /\ txn' = NoTxn
  /\ applied' = Append(applied, Row(Head(queue), Current))
  /\ UNCHANGED <<release, queue, supervised, unlucky>>

(* Mutant: rolled back, and tried again.                                   *)
RejectAndRetry ==
  /\ queue # <<>>
  /\ \/ txn # NoTxn /\ Outside(Head(queue), schema, txn)
     \/ /\ txn = NoTxn /\ at <= Len(List(Head(queue)))
        /\ ~ Recorded(Head(queue), Current) /\ ~ Current.runs
  /\ txn' = NoTxn
  /\ UNCHANGED <<release, db, queue, at, supervised, unlucky>>

(* A migration that cannot run, or reaches outside: rolled back, and the   *)
(* loop continues with the next App.                                       *)
Reject ==
  /\ queue # <<>>
  /\ \/ txn # NoTxn /\ Outside(Head(queue), schema, txn)
     \/ /\ txn = NoTxn /\ at <= Len(List(Head(queue)))
        /\ ~ Recorded(Head(queue), Current) /\ ~ Current.runs
  /\ NextApp
  /\ UNCHANGED <<release, db, supervised, unlucky>>

(* The database refuses one of the statements.                             *)
DiskFails ==
  /\ queue # <<>> /\ NextApp
  /\ unlucky' = unlucky \cup {Head(queue)}
  /\ UNCHANGED <<release, db, supervised>>

(* All applied: the App is supervised and its routes are mounted.          *)
Supervise ==
  /\ queue # <<>> /\ txn = NoTxn /\ at > Len(List(Head(queue)))
  /\ supervised' = supervised \cup {Head(queue)}
  /\ NextApp
  /\ UNCHANGED <<release, db, unlucky>>

(* The process ends: an open transaction is rolled back by SQLite.         *)
StopMigrations ==
  /\ queue' = <<>> /\ at' = 1 /\ txn' = NoTxn /\ supervised' = {} /\ unlucky' = {}
  /\ UNCHANGED <<release, db>>

(* A later release is installed while the host is down.                    *)
Upgrade ==
  /\ release < Len(Releases) /\ release' = release + 1
  /\ UNCHANGED <<db, queue, at, txn, supervised, unlucky>>

-----------------------------------------------------------------------------
(* What the recorded migrations of an App, in their order, leave there.    *)
Leaves(a) ==
  {t \in Tables : \E i \in DOMAIN applied :
     /\ applied[i].app = a /\ t \in applied[i].makes
     /\ \A j \in DOMAIN applied :
          j > i /\ applied[j].app = a /\ t \in applied[j].drops => t \in applied[j].makes}

(* The database holds what the rows of the tracking table say and nothing  *)
(* else: a table with an App's prefix is there when that App's own applied *)
(* migrations leave it there, whatever other Apps' migrations, failures    *)
(* and crashes did; and an App is supervised on a database with all its    *)
(* migrations.                                                             *)
SchemaAsRecorded ==
  /\ \A a \in ToSet(Apps) : schema \cap Prefixed[a] = Leaves(a) \cap Prefixed[a]
  /\ schema \subseteq Framework \cup UNION {Prefixed[a] : a \in ToSet(Apps)}
  /\ \A a \in supervised : \A i \in DOMAIN List(a) : Recorded(a, List(a)[i])

(* An App whose migrations all run and keep to its names.                  *)
Healthy(a) ==
  \A i \in DOMAIN List(a) :
    LET m == List(a)[i] IN m.runs /\ (m.drops \cup m.makes) \subseteq Framework \cup Prefixed[a]
=============================================================================
