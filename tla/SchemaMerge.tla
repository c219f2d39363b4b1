------------------------------- MODULE SchemaMerge -------------------------------
(***************************************************************************)
(* Two branches of an app, each with a change of the schema and the        *)
(* migrations lidza gen wrote for it, are merged: git's driver merges the  *)
(* lock files entry by entry (MergeLocks, pkg/schema/migrate.go), and a    *)
(* database then runs the migrations of both, in the order of their        *)
(* stamps, or one branch's when it already has the other's.                *)
(***************************************************************************)
EXTENDS SchemaDiff, Integers

CONSTANTS
    Branchings  \* the schemas of the ancestor, of our branch and of theirs

VARIABLES
    branches,   \* the three schemas, NoBranches before the merge
    scripts,    \* the scripts of each branch, with what reverts them
    deployed,   \* the database, with the ancestor's schema at first
    upTo,       \* how many scripts of each branch are applied
    rolling,    \* what is applied is being rolled back
    refused     \* Postgres refused a script, up or down

mergeVars == <<branches, scripts, deployed, upTo, rolling, refused>>

NoBranches == <<>>
Branch == {"ours", "theirs"}

Same(f, g, n) ==
    /\ n \in DOMAIN f <=> n \in DOMAIN g
    /\ n \in DOMAIN f => f[n] = g[n]

\* Mutant of Whose: an entry that only their branch has comes from ours.
WhoseOurs(base, ours, theirs, n) ==
    IF n \in DOMAIN base /\ Same(ours, base, n) THEN theirs ELSE ours

\* An entry only one branch changed is that branch's; a conflict keeps ours.
Whose(base, ours, theirs, n) ==
    IF ~Same(ours, theirs, n) /\ Same(ours, base, n) THEN theirs ELSE ours

Entries(base, ours, theirs) ==
    LET from(n) == Whose(base, ours, theirs, n)
        names == {n \in DOMAIN base \cup DOMAIN ours \cup DOMAIN theirs : n \in DOMAIN from(n)}
    IN  [n \in names |-> from(n)[n]]

MergeLocks(b) ==
    [enums |-> Entries(b.base.enums, b.ours.enums, b.theirs.enums),
     models |-> Entries(b.base.models, b.ours.models, b.theirs.models)]

\* What both branches changed, each in its way.
Conflict(base, ours, theirs) ==
    \E n \in DOMAIN base \cup DOMAIN ours \cup DOMAIN theirs :
        ~Same(ours, theirs, n) /\ ~Same(ours, base, n) /\ ~Same(theirs, base, n)
Conflicts(b) ==
    \/ Conflict(b.base.enums, b.ours.enums, b.theirs.enums)
    \/ Conflict(b.base.models, b.ours.models, b.theirs.models)

-----------------------------------------------------------------------------

TypeOK ==
    /\ branches = NoBranches \/ branches \in Branchings
    /\ \A b \in Branch : upTo[b] \in 0..Len(scripts[b])
    /\ rolling \in BOOLEAN
    /\ refused \in {"", "up", "down"}

Init ==
    /\ branches = NoBranches
    /\ scripts = [b \in Branch |-> <<>>]
    /\ deployed = NoDatabase
    /\ upTo = [b \in Branch |-> 0]
    /\ rolling = FALSE
    /\ refused = ""

\* The scripts of a migration: a pair when something changed, and one more for what runs
\* after it.
MigrationScripts(m) ==
    (IF m.up \o m.after = <<>> THEN <<>> ELSE <<[up |-> m.up, down |-> m.down]>>)
    \o (IF m.after = <<>> THEN <<>> ELSE <<[up |-> m.after, down |-> m.afterDown]>>)

Merge ==
    /\ branches = NoBranches
    /\ branches' \in Branchings
    /\ ~Conflicts(branches')
    /\ scripts' = [b \in Branch |-> MigrationScripts(Diff(branches'.base, branches'[b]))]
    /\ deployed' = Described(branches'.base)
    /\ UNCHANGED <<upTo, rolling, refused>>

\* A script runs whole, or the run ends: what a refused one leaves is not looked at.
RunScript(statements, direction, progress) ==
    LET r == Run(deployed, statements)
    IN  IF r.ok THEN deployed' = Committed(r.db) /\ upTo' = progress /\ UNCHANGED refused
        ELSE refused' = direction /\ UNCHANGED <<deployed, upTo>>

Migrate(b) ==
    /\ ~rolling /\ refused = "" /\ upTo[b] < Len(scripts[b])
    /\ RunScript(scripts[b][upTo[b] + 1].up, "up", [upTo EXCEPT ![b] = @ + 1])
    /\ UNCHANGED <<branches, scripts, rolling>>

AllRan == \A b \in Branch : upTo[b] = Len(scripts[b])

Rollback(b) ==
    /\ rolling \/ AllRan
    /\ refused = "" /\ upTo[b] > 0
    /\ RunScript(scripts[b][upTo[b]].down, "down", [upTo EXCEPT ![b] = @ - 1])
    /\ rolling' = TRUE
    /\ UNCHANGED <<branches, scripts>>

Next == Merge \/ \E b \in Branch : Migrate(b) \/ Rollback(b)

Spec == Init /\ [][Next]_mergeVars

-----------------------------------------------------------------------------

(* The merges without a conflict whose migrations do not add up.           *)

\* What both changed in the same way is in the lock once, and in the migrations twice.
SameChange(base, ours, theirs) ==
    \E n \in DOMAIN base \cup DOMAIN ours \cup DOMAIN theirs :
        Same(ours, theirs, n) /\ ~Same(ours, base, n)
ChangedTwice ==
    \/ SameChange(branches.base.enums, branches.ours.enums, branches.theirs.enums)
    \/ SameChange(branches.base.models, branches.ours.models, branches.theirs.models)

Merged == MergeLocks(branches)
Other(b) == CHOOSE o \in Branch : o # b

\* A model that refers to model or enum x.
Mentions(models, m, x) ==
    Refers(models, m, x) \/ \E f \in DOMAIN models[m].fields : models[m].fields[f].type = x

\* One branch drops or renames what a model of the other refers to, and the other changes
\* that model.
Moved(b) ==
    (DOMAIN branches.base.models \ DOMAIN branches[b].models)
    \cup (DOMAIN branches.base.enums \ DOMAIN branches[b].enums)
    \cup RenamedModels(branches.base, branches[b])
Changes(b, x) ==
    \E s \in {branches.base, branches[b]} : \E m \in DOMAIN s.models :
        ~Same(branches[b].models, branches.base.models, m) /\ Mentions(s.models, m, x)
AtOdds == \E b \in Branch : \E x \in Moved(b) : Changes(Other(b), x)

Unmergeable ==
    \/ ChangedTwice \/ AtOdds
    \/ \E b \in Branch : Unforeseen(branches.base, branches[b])

\* What rolling back does not undo in a branch alone, and the indexes of a table that the
\* other branch's scripts rename.
NotReversible ==
    \/ Unmergeable
    \/ \E b \in Branch : NotUndone(branches.base, branches[b])

\* "an entry one branch changed ... and the other left as it was takes the change"
\* (migrate.go:428): the migrations of both branches make of a database what the merged
\* lock says, in whatever order they run, and rolling all of them back the ancestor's.
MergeAgrees ==
    branches # NoBranches =>
        /\ ~Unmergeable => /\ refused # "up"
                           /\ AllRan /\ ~rolling => deployed = Described(Merged)
        /\ ~NotReversible => /\ refused # "down"
                             /\ rolling /\ (\A b \in Branch : upTo[b] = 0)
                                    => deployed = Described(branches.base)
=============================================================================
