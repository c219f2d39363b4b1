------------------------------- MODULE Migrations -------------------------------
(***************************************************************************)
(* The migrations of packs/db (migrate.go): nodes that start, and          *)
(* operators who roll back, take the advisory lock on a connection of      *)
(* their own, list the scripts that are pending or applied and run them    *)
(* one by one on other connections, each with its record in the table.     *)
(***************************************************************************)
EXTENDS Integers, FiniteSets

CONSTANTS
    Migrators,      \* processes that migrate or roll back
    Scripts,        \* 1..n, in the order of their names
    NoTransaction,  \* those that run statement by statement
    DataLoss,       \* those a developer reads first (HoldDataLoss)
    Statements,     \* statements of a NoTransaction script
    LockRetries,    \* lockRetries
    MaxMishaps,     \* bound on processes killed and connections lost
    Unlocked

VARIABLES
    applied,        \* the rows of the table
    ran,            \* the statements of each script that are in effect
    advisory,       \* who holds the advisory lock
    migrator,
    mishaps,
    lockLost,       \* a lock's connection was lost under its holder
    reverts,        \* a down script ran
    torn            \* scripts whose down script was left half way

migrationVars == <<applied, ran, advisory, migrator, mishaps, lockLost, reverts, torn>>

-----------------------------------------------------------------------------

Ended == [pc |-> "ended"]
Steps(s) == IF s \in NoTransaction THEN 1..Statements ELSE {1}

TypeOK ==
    /\ applied \subseteq Scripts
    /\ \A s \in Scripts : ran[s] \subseteq Steps(s)
    /\ advisory \in Migrators \cup {Unlocked}
    /\ mishaps \in 0..MaxMishaps
    /\ lockLost \in BOOLEAN /\ reverts \in BOOLEAN
    /\ torn \subseteq NoTransaction

Init ==
    /\ applied = {}
    /\ ran = [s \in Scripts |-> {}]
    /\ advisory = Unlocked
    /\ migrator = [m \in Migrators |-> Ended]
    /\ mishaps = 0
    /\ lockLost = FALSE /\ reverts = FALSE
    /\ torn = {}

Become(m, f) == migrator' = [migrator EXCEPT ![m] = f]
Mishap == mishaps < MaxMishaps /\ mishaps' = mishaps + 1

\* Migrate or MigrateUntil, with or without HoldDataLoss, and Rollback of some steps.
Begin(m) ==
    /\ migrator[m] = Ended
    /\ \/ \E hold \in BOOLEAN :
             Become(m, [pc |-> "lock", up |-> TRUE, hold |-> hold, steps |-> 0])
       \/ \E n \in Scripts :
             Become(m, [pc |-> "lock", up |-> FALSE, hold |-> FALSE, steps |-> n])
    /\ UNCHANGED <<applied, ran, advisory, mishaps, lockLost, reverts, torn>>

Free == advisory = Unlocked

Lock(m) ==
    /\ migrator[m].pc = "lock"
    /\ Free
    /\ advisory' = m
    /\ Become(m, [migrator[m] EXCEPT !.pc = "status"])
    /\ UNCHANGED <<applied, ran, mishaps, lockLost, reverts, torn>>

\* What a run will do, from Status: pending scripts up to one that is held back, or the
\* newest applied ones.
Todo(m) ==
    LET held == IF applied = {} \/ ~migrator[m].hold THEN {} ELSE DataLoss \ applied
    IN  IF migrator[m].up
        THEN {s \in Scripts \ applied : \A h \in held : s < h}
        ELSE {s \in applied : Cardinality({t \in applied : s < t}) < migrator[m].steps}

Work(up, todo, i) == [pc |-> "next", up |-> up, todo |-> todo, waits |-> 0, step |-> i]

Status(m) ==
    /\ migrator[m].pc = "status"
    /\ Become(m, Work(migrator[m].up, Todo(m), 1))
    /\ UNCHANGED <<applied, ran, advisory, mishaps, lockLost, reverts, torn>>

-----------------------------------------------------------------------------
(* run: a script and its record.                                           *)

\* The next of the scripts to do: oldest first going up, newest first going down.
NextOf(m, s) ==
    /\ s \in migrator[m].todo
    /\ \A t \in migrator[m].todo : IF migrator[m].up THEN s <= t ELSE t <= s
Doing(m, s) == migrator[m].pc = "next" /\ NextOf(m, s)

\* A statement the server is still at after its process was killed.
StillAt(m, s) == migrator[m].pc = "late" /\ NextOf(m, s)

\* INSERT, refused when the row is there, or DELETE, which may find none.
Recordable(m, s) == migrator[m].up => s \notin applied
Record(m, s) ==
    /\ applied' = IF migrator[m].up THEN applied \cup {s} ELSE applied \ {s}
    /\ reverts' = (reverts \/ ~migrator[m].up)
    /\ torn' = torn \ {s}

Done(m, s) == Become(m, Work(migrator[m].up, migrator[m].todo \ {s}, 1))

\* Mutant of RunInTx: the script's transaction ends before the record is written.
RunThenRecord(m, s) ==
    /\ Doing(m, s) /\ s \notin NoTransaction
    /\ \/ /\ migrator[m].step = 1
          /\ ran' = [ran EXCEPT ![s] = IF migrator[m].up THEN {1} ELSE {}]
          /\ Become(m, [migrator[m] EXCEPT !.step = 2])
          /\ UNCHANGED <<applied, reverts, torn>>
       \/ /\ migrator[m].step = 2 /\ Recordable(m, s)
          /\ Record(m, s) /\ Done(m, s) /\ UNCHANGED ran
    /\ UNCHANGED <<advisory, mishaps, lockLost>>

\* The script and its record in one transaction.
RunInTx(m, s) ==
    /\ Doing(m, s) /\ s \notin NoTransaction
    /\ Recordable(m, s)
    /\ ran' = [ran EXCEPT ![s] = IF migrator[m].up THEN {1} ELSE {}]
    /\ Record(m, s) /\ Done(m, s)
    /\ UNCHANGED <<advisory, mishaps, lockLost>>

\* What a statement on its own does, going up or down.
Execute(m, s) ==
    /\ ran' = [ran EXCEPT ![s] = IF migrator[m].up THEN @ \cup {migrator[m].step}
                                                   ELSE @ \ {migrator[m].step}]
    /\ torn' = IF migrator[m].up THEN torn ELSE torn \cup {s}

\* runEach: a statement at a time, each in effect at once.  One that a dead process left
\* running has the locks that the same statement waits for.
RunStatement(m, s) ==
    LET i == migrator[m].step
    IN  /\ Doing(m, s) /\ s \in NoTransaction /\ i <= Statements
        /\ \A o \in Migrators : StillAt(o, s) => migrator[o].step # i
        /\ Execute(m, s)
        /\ Become(m, Work(migrator[m].up, migrator[m].todo, i + 1))
        /\ UNCHANGED <<applied, advisory, mishaps, lockLost, reverts>>

RecordEach(m, s) ==
    /\ Doing(m, s) /\ s \in NoTransaction
    /\ migrator[m].step > Statements
    /\ Recordable(m, s)
    /\ Record(m, s) /\ Done(m, s)
    /\ UNCHANGED <<ran, advisory, mishaps, lockLost>>

\* retry: a statement that hit the lock timeout is tried again, a number of times.
LockTimeout(m) ==
    /\ migrator[m].pc = "next" /\ migrator[m].todo # {}
    /\ migrator[m].step <= Statements
    /\ migrator[m].waits < LockRetries
    /\ Become(m, [migrator[m] EXCEPT !.waits = @ + 1])
    /\ UNCHANGED <<applied, ran, advisory, mishaps, lockLost, reverts, torn>>

\* The last try, another error of the script, or a record that is there already.
RunFails(m) ==
    /\ migrator[m].pc = "next" /\ migrator[m].todo # {}
    /\ Become(m, [pc |-> "unlock"])
    /\ UNCHANGED <<applied, ran, advisory, mishaps, lockLost, reverts, torn>>

Finish(m) ==
    /\ migrator[m].pc = "next" /\ migrator[m].todo = {}
    /\ Become(m, [pc |-> "unlock"])
    /\ UNCHANGED <<applied, ran, advisory, mishaps, lockLost, reverts, torn>>

\* pg_advisory_unlock, on the lock's own connection.
Unlock(m) ==
    /\ migrator[m].pc = "unlock"
    /\ advisory' = IF advisory = m THEN Unlocked ELSE advisory
    /\ Become(m, Ended)
    /\ UNCHANGED <<applied, ran, mishaps, lockLost, reverts, torn>>

-----------------------------------------------------------------------------

\* A process is killed.  The server ends its connections, the idle one of the lock at once;
\* a transaction is rolled back, and a statement on its own may go on until it ends.
Kill(m) ==
    /\ migrator[m].pc \notin {"ended", "late"}
    /\ Mishap
    /\ advisory' = IF advisory = m THEN Unlocked ELSE advisory
    /\ \/ Become(m, Ended)
       \/ /\ \E s \in NoTransaction : Doing(m, s) /\ migrator[m].step <= Statements
          /\ Become(m, [migrator[m] EXCEPT !.pc = "late"])
    /\ UNCHANGED <<applied, ran, lockLost, reverts, torn>>

\* The statement that was left running succeeds, or fails.
EndsLate(m, s) ==
    /\ StillAt(m, s)
    /\ Execute(m, s) \/ UNCHANGED <<ran, torn>>
    /\ Become(m, Ended)
    /\ UNCHANGED <<applied, advisory, mishaps, lockLost, reverts>>

\* The lock's connection, idle while the scripts run on others, is lost under its holder.
LoseLock(m) ==
    /\ advisory = m
    /\ Mishap
    /\ advisory' = Unlocked
    /\ lockLost' = TRUE
    /\ UNCHANGED <<applied, ran, migrator, reverts, torn>>

Next ==
    \E m \in Migrators :
        \/ Begin(m) \/ Lock(m) \/ Status(m)
        \/ \E s \in Scripts :
             RunInTx(m, s) \/ RunStatement(m, s) \/ RecordEach(m, s) \/ EndsLate(m, s)
        \/ LockTimeout(m) \/ RunFails(m) \/ Finish(m) \/ Unlock(m) \/ Kill(m) \/ LoseLock(m)

Spec == Init /\ [][Next]_migrationVars

-----------------------------------------------------------------------------

\* What the table says of a script holds of the schema.
InEffect(s) ==
    IF s \in applied THEN ran[s] = Steps(s) \/ s \in torn
    ELSE s \in NoTransaction \/ ran[s] = {}

\* "applies every pending up script in order, each in its own transaction (or statement
\* by statement), under an advisory lock so two nodes never race" (migrate.go:137): the
\* applied scripts are the first ones, whole but for a down script left half way, and an
\* unapplied transactional one left nothing behind, whoever is killed when; also with the
\* lock lost, as long as nobody rolls back.
RecordTells ==
    ~(lockLost /\ reverts)
        => \A s \in Scripts : InEffect(s) /\ (s \in applied => 1..s \subseteq applied)

\* The same with the lock lost.
RecordTellsUnlocked ==
    \A s \in Scripts : InEffect(s) /\ (s \in applied => 1..s \subseteq applied)
=============================================================================
