--------------------------- MODULE SchemaBootstrap ---------------------------
(***************************************************************************)
(* The schema of the database and what brings it up to date: the Alembic   *)
(* chain, ensure_schema at boot and after a restore, and the DDL of a      *)
(* backup's dump.sql.  No variables: BotProcess applies these operators to *)
(* its database.                                                           *)
(*                                                                         *)
(* The chain is 1..head.  A revision stands for the object it creates: a   *)
(* table, or a column of an earlier table (indexes are left out);          *)
(* TableOf[r] is the revision whose table r's object belongs to.  The      *)
(* schema is the set of the objects that exist, and beside it the database *)
(* records one revision in alembic_version (0: it has none).               *)
(***************************************************************************)
EXTENDS Naturals

CONSTANTS
  Chain,     \* the revisions of the newest code a run deploys: 1..n
  TableOf    \* the revision that creates the table a revision's object is in

ASSUME ChainAssumption ==
  /\ Chain \subseteq Nat \ {0}
  /\ \A r \in Chain : 1..r \subseteq Chain
  /\ TableOf \in [Chain -> Chain]
  /\ \A r \in Chain : TableOf[r] <= r /\ TableOf[TableOf[r]] = TableOf[r]

Tables(revisions) == {r \in revisions : TableOf[r] = r}

\* missing_tables: the ORM of the code at head against the tables that exist.
MissingTables(have, head) == Tables(1..head) \ have

\* alembic upgrade head runs the revisions after the recorded one in a single
\* transaction (env.py): an object that exists already fails all of it.
Pending(rev, head) == {r \in 1..head : r > rev}
UpgradeWorks(have, rev, head) == rev <= head /\ Pending(rev, head) \cap have = {}

Schema(have, rev) == [have |-> have, rev |-> rev]

\* Mutant: the revision that is recorded is the one after head.
UpgradedPastHead(have, rev, head) ==
  IF UpgradeWorks(have, rev, head)
  THEN Schema(have \cup Pending(rev, head), head + 1)
  ELSE Schema(have, rev)

\* run_migrations; a failure is rolled back.
Upgraded(have, rev, head) ==
  IF UpgradeWorks(have, rev, head)
  THEN Schema(have \cup Pending(rev, head), head)
  ELSE Schema(have, rev)

\* create_missing_from_orm: whole tables of the code at head, never a column of
\* a table that exists, and no alembic_version.
CreatedFromOrm(have, head) ==
  have \cup {r \in 1..head : TableOf[r] \in MissingTables(have, head)}

\* ensure_schema refuses (SchemaError) only when a table is missing, is missing
\* after the upgrade as well, and may not be created from the ORM.
SchemaUsable(have, rev, head, autocreate) ==
  autocreate \/ MissingTables(Upgraded(have, rev, head).have, head) = {}

\* ensure_schema: migrate when a table is missing or RUN_MIGRATIONS_ON_START is
\* set, then create what is still missing.  A failed upgrade with no missing
\* table is taken for a no-op.
EnsureSchema(have, rev, head, onStart, autocreate) ==
  LET due == onStart \/ MissingTables(have, head) # {}
      first == IF due THEN Upgraded(have, rev, head) ELSE Schema(have, rev)
  IN IF autocreate
     THEN Schema(CreatedFromOrm(first.have, head), first.rev)
     ELSE first

-----------------------------------------------------------------------------
(* The DDL of dump.sql: CREATE TABLE IF NOT EXISTS for the tables of the    *)
(* archive as they were dumped; it alters no table that exists.             *)

LoadedObjects(have, archived) ==
  have \cup {r \in archived : TableOf[r] \notin have}

\* Its INSERTs name every column of the archived tables.
LoadFits(have, archived) == archived \subseteq LoadedObjects(have, archived)

\* alembic_version is a table like the others: its row comes from the archive,
\* unless the archived database had none.
LoadedRevision(rev, archivedRev) == IF archivedRev = 0 THEN rev ELSE archivedRev

\* _revision_problem: an archive of a newer schema is refused.
RevisionProblem(archivedRev, head) == archivedRev > head
=============================================================================
