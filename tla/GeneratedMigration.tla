--------------------------- MODULE GeneratedMigration ---------------------------
(***************************************************************************)
(* A generated migration: lidza gen writes it (pkg/schema/generate.go) and *)
(* a database runs its scripts as db.Migrate and db.Rollback do, in a      *)
(* transaction, or a statement at a time, again from the first when one    *)
(* failed.                                                                 *)
(***************************************************************************)
EXTENDS SchemaDiff

CONSTANTS
    Edits       \* pairs of schemas: the lock's, and the one generated from

VARIABLES
    edit,       \* the two schemas, NoEdit before lidza gen
    migration,  \* the scripts it wrote
    db,         \* the database, with the lock's schema at first
    script,     \* what ran of the migration
    ranBefore   \* the kinds of statement that a failed run of After left applied

diffVars == <<edit, migration, db, script, ranBefore>>

NoEdit == <<>>
Prev == edit[1]
Cur == edit[2]

TypeOK ==
    /\ edit = NoEdit \/ edit \in Edits
    /\ script \in {"none", "generated", "up", "after", "afterDown", "down", "refused up",
                   "refused after", "refused afterDown", "refused down"}
    /\ edit # NoEdit => ranBefore \subseteq {migration.after[i].op : i \in DOMAIN migration.after}

Init ==
    /\ edit = NoEdit
    /\ migration = NoEdit
    /\ db = NoDatabase
    /\ script = "none"
    /\ ranBefore = {}

\* Generate: the migration is written, unless nothing changed, and the schema becomes the
\* lock's.
Generate ==
    /\ edit = NoEdit
    /\ edit' \in Edits
    /\ migration' = Diff(edit'[1], edit'[2])
    /\ migration'.up # <<>> \/ migration'.after # <<>>
    /\ db' = Described(edit'[1])
    /\ script' = "generated"
    /\ UNCHANGED ranBefore

\* A script from where it must start: in a transaction it is applied whole or not at all.
Take(from, to, statements) ==
    /\ script = from
    /\ LET r == Run(db, statements)
       IN  IF r.ok THEN db' = Committed(r.db) /\ script' = to
           ELSE UNCHANGED db /\ script' = "refused " \o to
    /\ UNCHANGED <<edit, migration>>

Up == Take("generated", "up", migration.up) /\ UNCHANGED ranBefore

\* A NoTransaction script, from its first statement.
After == Take("up", "after", migration.after) /\ UNCHANGED ranBefore

\* A lock timeout or a lost connection ends After when n of its statements are applied, or
\* all of them but the record that they are; an index under construction is left invalid.
AfterFails ==
    /\ script = "up" /\ ranBefore = {}
    /\ \E n \in 0..Len(migration.after) :
        LET r == Run(db, SubSeq(migration.after, 1, n))
        IN  /\ r.ok
            /\ \/ db' = r.db
               \/ /\ n < Len(migration.after) /\ migration.after[n + 1].op = "create index"
                  /\ db' = Effect(r.db, [migration.after[n + 1] EXCEPT !.thing.valid = FALSE])
            /\ ranBefore' = {migration.after[i].op : i \in 1..n}
    /\ UNCHANGED <<edit, migration, script>>

AfterDown == Take("after", "afterDown", migration.afterDown) /\ UNCHANGED ranBefore
Down == Take("afterDown", "down", migration.down) /\ UNCHANGED ranBefore

Next == Generate \/ Up \/ After \/ AfterFails \/ AfterDown \/ Down

Spec == Init /\ [][Next]_diffVars

-----------------------------------------------------------------------------

\* What After does once only: a check is validated and dropped, an index becomes a
\* constraint's.
DoneOnce == {"drop constraint if exists", "add constraint using index"}

\* "Diff computes the migration from prev to cur" (migrate.go:40): its scripts run, and a
\* database that had the lock's schema has the new one; also when After failed and was
\* run again, unless it had come to what it does only once.
MakesCur ==
    ~Unforeseen(Prev, Cur) =>
        /\ script # "refused up"
        /\ ranBefore \cap DoneOnce = {} => script # "refused after"
        /\ script = "after" => db = Described(Cur)

\* "AfterDown reverts it" (migrate.go:31), and Down what Up did: the database has the
\* lock's schema again.
MakesPrev ==
    ~NotUndone(Prev, Cur) =>
        /\ script \notin {"refused afterDown", "refused down"}
        /\ script = "down" => db = Described(Prev)

\* The two directions of a generated migration.
MigrationsAgree == edit # NoEdit => MakesCur /\ MakesPrev

\* The same of every edit.
MigrationsAgreeAlways ==
    /\ script \notin {"refused up", "refused after", "refused afterDown", "refused down"}
    /\ script = "after" => db = Described(Cur)
    /\ script = "down" => db = Described(Prev)

\* "Each statement ... must be safe to run again (IF NOT EXISTS, IF EXISTS), since a
\* failure leaves the ones before it applied" (db/migrate.go:95).
AfterRunsAgain == edit # NoEdit => Unforeseen(Prev, Cur) \/ script # "refused after"
=============================================================================
