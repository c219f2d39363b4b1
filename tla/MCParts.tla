------------------------------- MODULE MCParts -------------------------------
(***************************************************************************)
(* Eighteen small machines for TLC to check side by side: the renewal of a *)
(* session (SessionRenewal), the second factor (SecondFactor), a connected *)
(* account (ConnectedAccount), the pool of WebAssembly instances           *)
(* (EnginePool), the cache in memory (MemoryCache), the settings saved     *)
(* while the app runs (SavedSettings), the outbox (MailOutbox), a          *)
(* subscription (StripeBilling), the migrations (Migrations), the          *)
(* hostnames served over TLS (HostPolicy), the due times of a schedule     *)
(* (CalendarTimes), the migrations generated from a schema                *)
(* (GeneratedMigration) and those of two branches that merge               *)
(* (SchemaMerge), lidza dev (DevServer), calls of a language model         *)
(* (LanguageModel), an object uploaded in parts (MultipartUpload), the     *)
(* start and the end of the app (AppLifecycle), and decimal numbers        *)
(* (Decimals).  A behaviour runs one of them, in the variables x1, x2, ...  *)
(* that all of them share: nothing of one reads or writes the state of     *)
(* another, and what is checked is what eighteen runs would check.         *)
(***************************************************************************)
EXTENDS Integers, Sequences, FiniteSets, TLC, MCSchemas

CONSTANTS
    PageRequests, MaxExpiries,
    Checks, MaxFailures, Skew, MaxStep, MaxSecrets, Spare, NoFactor,
    Processes, Callers, Elsewhere, MaxGrants, NoCaller, NoConnection,
    PoolCalls, Size, MaxInstances, NoInstance,
    Keys, Prefixed, MaxItems, MaxOrder,
    Pair, Nothing, Wrong, MaxForms,
    MailTries, MaxClaims, MaxResends, Unclaimed,
    MaxChanges, MaxSeconds,
    Scripts, NoTransaction, DataLoss, Statements, LockRetries, MaxMishaps, Unlocked,
    Hosts, ApproveTTL, RefuseTTL, MaxVerdicts, EndOfTime,
    HourLength, Hours, Week, MonthLength, Months, LastInstant,
    MaxSaves, MaxFalls,
    Configs, MaxSwitches, MaxRuns,
    PartSize, MaxSize,
    PacksListed, MaxBusy,
    Base, Figures, Widths, MaxExponent, Ratios, Numerics

ASSUME PartsAssumption ==
    /\ IsFiniteSet(Checks) /\ MaxFailures \in Nat \ {0}
    /\ MaxGrants \in Nat /\ MaxItems \in Nat \ {0}
    /\ IsFiniteSet(Scripts) /\ \A s \in Scripts : s \in Nat \ {0} /\ 1..s \subseteq Scripts
    /\ NoTransaction \cup DataLoss \subseteq Scripts /\ Statements \in Nat /\ Unlocked \notin Pair
    /\ IsFiniteSet(Pair) /\ IsFiniteSet(PoolCalls)
    /\ Size \in Nat /\ MaxInstances \in Nat /\ Size <= MaxInstances
    /\ ApproveTTL \in Nat /\ RefuseTTL \in Nat /\ MaxVerdicts \in Nat \ {0}
    /\ {HourLength, Hours, Week, MonthLength, Months} \subseteq Nat \ {0}
    /\ Configs # {} /\ \A c \in Configs : {c.attempts, c.rounds} \subseteq Nat \ {0}
    /\ {PartSize, MaxSize, PacksListed} \subseteq Nat \ {0} /\ MaxExponent \in Nat

\* A day has hours, and room for the clocks of ClockSets.
ASSUME ClocksAssumption == Hours > 1 /\ HourLength * Hours > 5 /\ LastInstant \in Nat

\* Numbers have digits, fractions a denominator, and no column more places than digits.
ASSUME DecimalsAssumption ==
    /\ Base \in Nat /\ Base > 1 /\ Figures \subseteq 0..(Base - 1) /\ Widths \subseteq Nat
    /\ \A r \in Ratios : r.num \in Int /\ r.den \in Nat \ {0} /\ r = [num |-> r.num, den |-> r.den]
    /\ \A c \in Numerics : {c.precision, c.scale} \subseteq Nat /\ c.scale <= c.precision

\* What stands for no row is none.
ASSUME NoFactorAssumption ==
    NoFactor \notin [secret : Nat, last : Int, backup : SUBSET [set : Nat, nr : Int],
                     enabled : BOOLEAN, failures : Nat, failing : BOOLEAN]

VARIABLES
    part,   \* which machine runs
    x1, x2, x3, x4, x5, x6, x7, x8, x9, x10, x11
            \* its variables, in the order its module declares them

state == <<x1, x2, x3, x4, x5, x6, x7, x8, x9, x10, x11>>
vars == <<part, state>>

\* Two nodes, with one caller on the second.
Near == CHOOSE n \in Processes : TRUE
Far == CHOOSE n \in Processes : n # Near
NodeOf == [q \in Callers |-> IF q = Elsewhere THEN Far ELSE Near]

\* In every part the two of Pair, its callers, requests or processes, are interchangeable.
Symmetry == Permutations(Pair)

Renewal == INSTANCE SessionRenewal WITH
    row <- x1, cookie <- x2, access <- x3, flight <- x4, expiries <- x5, rotations <- x6,
    lost <- x7, excused <- x8
Factor == INSTANCE SecondFactor WITH
    factor <- x1, now <- x2, issued <- x3, checks <- x4, spent <- x5, twice <- x6, tries <- x7,
    enablings <- x8
Connected == INSTANCE ConnectedAccount WITH
    connection <- x1, live <- x2, refreshing <- x3, caller <- x4, grants <- x5, renewable <- x6,
    stranded <- x7
Pool == INSTANCE EnginePool WITH
    idle <- x1, made <- x2, closed <- x3, call <- x4, drained <- x5, failed <- x6, tooLate <- x7
Cache == INSTANCE MemoryCache WITH
    items <- x1, expired <- x2, order <- x3
Saved == INSTANCE SavedSettings WITH
    Nodes <- Pair, Fields <- <<"provider", "host">>, Values <- {"set"},
    Refused <- {[provider |-> "set", host |-> Nothing]},
    credential <- x1, clock <- x2, overrides <- x3, seen <- x4, config <- x5, watch <- x6,
    save <- x7, forms <- x8, repeated <- x9, overtaken <- x10, raced <- x11
Outbox == INSTANCE MailOutbox WITH
    Runners <- Pair,
    withJobs <- x1, status <- x2, jobStatus <- x3, jobOwner <- x4, claims <- x5,
    deliveryRun <- x6, copies <- x7, resends <- x8, unrecorded <- x9, overlaps <- x10
Stripe == INSTANCE StripeBilling WITH
    Handlers <- Pair,
    tagged <- x1, second <- x2, states <- x3, checkout <- x4, known <- x5, kept <- x6,
    handling <- x7, handled <- x8, misplaced <- x9
Schema == INSTANCE Migrations WITH
    Migrators <- Pair,
    applied <- x1, ran <- x2, advisory <- x3, migrator <- x4, mishaps <- x5, lockLost <- x6,
    reverts <- x7, torn <- x8
Policy == INSTANCE HostPolicy WITH
    Handshakes <- Pair,
    time <- x1, approves <- x2, lastApproved <- x3, verdicts <- x4, handshake <- x5

\* Zones east and west of Greenwich, whose clocks skip or repeat an hour or half of one
\* at any time of the second day, and UTC, whose clocks do not.
DayLength == HourLength * Hours
Zones ==
    [before : {HourLength}, after : {2 * HourLength, HourLength + 1},
     change : DayLength..2 * DayLength - 1]
    \cup [before : {2 * HourLength}, after : {HourLength}, change : DayLength..2 * DayLength - 1]
    \cup [before : {-2 * HourLength}, after : {-HourLength}, change : DayLength..2 * DayLength - 1]
    \cup [before : {-HourLength}, after : {-2 * HourLength}, change : DayLength..2 * DayLength - 1]
    \cup [before : {0}, after : {0}, change : {DayLength}]

\* One time of the day and two, beside midnight and apart.
Last == DayLength - 1
ClockSets == {{c} : c \in {0, 1, 4, 5, Last}} \cup {{c, Last} : c \in {0, 1, 4}} \cup {{0, 1}, {2, 5}}

AllOf(step) == [kind |-> "star", step |-> step]
Only(v) == [kind |-> "value", from |-> v, step |-> 1]
Expressions ==
    [minutes : {{AllOf(1)}, {Only(1)}},
     hours : {{AllOf(2)}, {Only(0), [kind |-> "range", from |-> 2, to |-> 3, step |-> 1]}},
     days : {{AllOf(1)}, {Only(1)}}, months : {{AllOf(1)}}, weekdays : {{AllOf(1)}, {Only(Week)}}]

Times == INSTANCE CalendarTimes WITH
    Days <- {-1, 0}, Start <- 0, End <- LastInstant,
    zone <- x1, plan <- x2, asked <- x3, due <- x4

Generated == INSTANCE GeneratedMigration WITH
    Edits <- SchemaEdits, Declared <- <<"User", "Post">>, FieldOrder <- <<"id", "f", "g">>,
    edit <- x1, migration <- x2, db <- x3, script <- x4, ranBefore <- x5
Merges == INSTANCE SchemaMerge WITH
    Branchings <- SchemaBranchings, Declared <- <<"User", "Post">>, FieldOrder <- <<"id", "f">>,
    branches <- x1, scripts <- x2, deployed <- x3, upTo <- x4, rolling <- x5, refused <- x6
Dev == INSTANCE DevServer WITH
    project <- x1, tables <- x2, dev <- x3, app <- x4, falls <- x5, overlooked <- x6,
    unasked <- x7

\* Two providers.
TwoConfigs == {[provider |-> "a", attempts |-> 2, rounds |-> 3],
               [provider |-> "b", attempts |-> 3, rounds |-> 2]}
Model == INSTANCE LanguageModel WITH
    model <- x1, chat <- x2, sent <- x3, heard <- x4, switches <- x5, runs <- x6
Upload == INSTANCE MultipartUpload WITH
    upload <- x1, service <- x2, result <- x3, unknown <- x4, stray <- x5
Life == INSTANCE AppLifecycle WITH
    Count <- PacksListed, Servers <- <<"private", "app">>,
    stage <- x1, packsOn <- x2, around <- x3, working <- x4, listening <- x5, busy <- x6,
    deadline <- x7, hooks <- x8, failure <- x9, sockets <- x10

\* Results of calculations, of either sign, and columns of few digits.
SmallRatios == [num : -12..12, den : 1..8]
FourNumerics ==
    {[precision |-> 1, scale |-> 0], [precision |-> 2, scale |-> 1],
     [precision |-> 3, scale |-> 1], [precision |-> 2, scale |-> 2]}
Exact == INSTANCE Decimals WITH
    Digits <- Figures, Lengths <- Widths, Columns <- Numerics,
    text <- x1, ratio <- x2, column <- x3

\* The variables a machine does not need.
Unused11 == x11 = Nothing
Unused10 == x10 = Nothing /\ Unused11
Unused9 == x9 = Nothing /\ Unused10
Unused8 == x8 = Nothing /\ Unused9
Unused7 == x7 = Nothing /\ Unused8
Unused6 == x6 = Nothing /\ Unused7
Unused5 == x5 = Nothing /\ Unused6
Unused4 == x4 = Nothing /\ Unused5

Init ==
    \/ part = "renewal" /\ Renewal!Init /\ Unused9
    \/ part = "factor" /\ Factor!Init /\ Unused9
    \/ part = "connected" /\ Connected!Init /\ Unused8
    \/ part = "pool" /\ Pool!Init /\ Unused8
    \/ part = "cache" /\ Cache!Init /\ Unused4
    \/ part = "settings" /\ Saved!Init
    \/ part = "outbox" /\ Outbox!Init /\ Unused11
    \/ part = "billing" /\ Stripe!Init /\ Unused10
    \/ part = "migrations" /\ Schema!Init /\ Unused9
    \/ part = "policy" /\ Policy!Init /\ Unused6
    \/ part = "calendar" /\ Times!Init /\ Unused5
    \/ part = "schema" /\ Generated!Init /\ Unused6
    \/ part = "merge" /\ Merges!Init /\ Unused7
    \/ part = "dev" /\ Dev!Init /\ Unused8
    \/ part = "model" /\ Model!Init /\ Unused7
    \/ part = "upload" /\ Upload!Init /\ Unused6
    \/ part = "lifecycle" /\ Life!Init /\ Unused11
    \/ part = "decimal" /\ Exact!Init /\ Unused4

RenewalStep ==
    /\ part = "renewal" /\ Renewal!Next
    /\ UNCHANGED <<part, x9, x10, x11>>

FactorStep ==
    /\ part = "factor" /\ Factor!Next
    /\ UNCHANGED <<part, x9, x10, x11>>

ConnectedStep ==
    /\ part = "connected" /\ Connected!Next
    /\ UNCHANGED <<part, x8, x9, x10, x11>>

PoolStep ==
    /\ part = "pool" /\ Pool!Next
    /\ UNCHANGED <<part, x8, x9, x10, x11>>

CacheStep ==
    /\ part = "cache" /\ Cache!Next
    /\ UNCHANGED <<part, x4, x5, x6, x7, x8, x9, x10, x11>>

SavedStep ==
    /\ part = "settings" /\ Saved!Next
    /\ UNCHANGED part

OutboxStep ==
    /\ part = "outbox" /\ Outbox!Next
    /\ UNCHANGED <<part, x11>>

StripeStep ==
    /\ part = "billing" /\ Stripe!Next
    /\ UNCHANGED <<part, x10, x11>>

SchemaStep ==
    /\ part = "migrations" /\ Schema!Next
    /\ UNCHANGED <<part, x9, x10, x11>>

PolicyStep ==
    /\ part = "policy" /\ Policy!Next
    /\ UNCHANGED <<part, x6, x7, x8, x9, x10, x11>>

CalendarStep ==
    /\ part = "calendar" /\ Times!Next
    /\ UNCHANGED <<part, x5, x6, x7, x8, x9, x10, x11>>

GeneratedStep ==
    /\ part = "schema" /\ Generated!Next
    /\ UNCHANGED <<part, x6, x7, x8, x9, x10, x11>>

MergeStep ==
    /\ part = "merge" /\ Merges!Next
    /\ UNCHANGED <<part, x7, x8, x9, x10, x11>>

DevStep ==
    /\ part = "dev" /\ Dev!Next
    /\ UNCHANGED <<part, x8, x9, x10, x11>>

ModelStep ==
    /\ part = "model" /\ Model!Next
    /\ UNCHANGED <<part, x7, x8, x9, x10, x11>>

UploadStep ==
    /\ part = "upload" /\ Upload!Next
    /\ UNCHANGED <<part, x6, x7, x8, x9, x10, x11>>

LifeStep ==
    /\ part = "lifecycle" /\ Life!Next
    /\ UNCHANGED <<part, x11>>

DecimalStep ==
    /\ part = "decimal" /\ Exact!Next
    /\ UNCHANGED <<part, x4, x5, x6, x7, x8, x9, x10, x11>>

Next ==
    \/ RenewalStep \/ FactorStep \/ ConnectedStep \/ PoolStep \/ CacheStep
    \/ SavedStep \/ OutboxStep \/ StripeStep \/ SchemaStep \/ PolicyStep
    \/ CalendarStep \/ GeneratedStep \/ MergeStep
    \/ DevStep \/ ModelStep \/ UploadStep \/ LifeStep \/ DecimalStep

Spec == Init /\ [][Next]_vars

-----------------------------------------------------------------------------

\* With every reply in and none lost, the browser holds the session's current refresh
\* token, and it is signed out for a reason only (Refresh, auth.go:268).
SessionKept == part = "renewal" => Renewal!SessionKept

\* A code opens one door, and wrong ones are counted, for requests in parallel too
\* (CheckSecondFactor and factorFailed, stepup.go:159, stepup.go:36).
CodesHold == part = "factor" => Factor!CodesHold

\* A factor that is on goes off by a code of it (authTwoFactorSetup, stepup.go:229).
OffOnlyByCode == [][part = "factor" => Factor!OffByCode]_vars

\* The stored grant is the provider's current one, or excused (refresh, connect.go:440).
StoredGrantWorks == part = "connected" => Connected!StoredGrantWorks

\* Every slot of the pool is accounted for, and what waits in it serves (Call, engine.go:177).
PoolWhole == part = "pool" => Pool!PoolWhole

\* "at most max entries" (put, cache.go:220).
Bounded == part = "cache" => Cache!Bounded

\* A node with nothing left to load runs with the table's settings (watch, db.go:121).
NodesFollow == part = "settings" => Saved!NodesFollow

\* "never sends a delivered message again" (deliverQueued, mail.go:384), but for what the
\* row could not tell.
CopiesExplained == part = "outbox" => Outbox!CopiesExplained

\* "an older event than the one recorded changes nothing" (sync, billing.go:392).
RowIsCurrent == part = "billing" => Stripe!RowIsCurrent

\* The table of migrations tells what of the schema is there (MigrateUntil, migrate.go:137).
RecordTells == part = "migrations" => Schema!RecordTells

\* "a revoked host is refused within tlsApproveTTL" (allow, tls_hosts.go:30).
RevokedIsRefused == part = "policy" => Policy!RevokedIsRefused

\* "Next returns the first due time strictly after t" (schedule.go:22), for cron
\* expressions too.
EachTimeMet == part = "calendar" => Times!EachTimeMet

\* "Diff computes the migration from prev to cur" (migrate.go:40), what reverts it, and what
\* the migrations of two branches that merge make together (MergeLocks, migrate.go:427).
SchemasAgree ==
    /\ part = "schema" => Generated!MigrationsAgree
    /\ part = "merge" => Merges!MergeAgrees

\* What lidza dev runs is what was saved and migrated, once it has nothing left to notice
\* (Dev, dev.go:75).
DevFollows == part = "dev" => Dev!DevFollows

\* "A streamed call is retried only while nothing has reached the caller", and a call keeps
\* its provider (llm.go:629, llm.go:377).
CallsKept == part = "model" => Model!CallsKept

\* An upload leaves the whole object, or no part of it that it does not tell of
\* (putMultipart, multipart.go:50).
UploadSettled == part = "upload" => Upload!UploadSettled

\* The packs stop after the requests the servers wait for and after their own work, and all of
\* them (Serve and Close, lidza.go:262).
LifecycleKept == part = "lifecycle" => Life!LifecycleKept

\* Numbers are read, compared with their column and rounded as Postgres does
\* (pkg/decimal/decimal.go:101).
DecimalsExact == part = "decimal" => Exact!DecimalsExact
=============================================================================
