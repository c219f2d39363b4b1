----------------------------- MODULE SavedSettings -----------------------------
(***************************************************************************)
(* The settings saved while the app runs.  The admin pages of a node write *)
(* them field by field to the table credential (saveSettings,              *)
(* packs/admin/settings.go; CredentialStore, packs/db/credentials.go),     *)
(* set the node's own overrides, have the packs read their configuration   *)
(* again and put the old values back when a pack refuses the new ones;     *)
(* every other node sees the table's version change at its next poll and   *)
(* loads the whole table (watch, packs/db/db.go).                          *)
(***************************************************************************)
EXTENDS Integers, Sequences, FiniteSets

CONSTANTS
    Nodes,
    Fields,         \* the fields of a settings form, in the order of its section
    Values,
    Nothing,        \* no value stored
    Wrong,          \* what a form is refused for: not an option, not a number, not an address
    Refused,        \* the settings some pack cannot start with
    MaxForms        \* bound on forms posted

VARIABLES
    credential,     \* the rows
    clock,          \* statements begun: now() of the last
    overrides,      \* of each node's process
    seen,           \* the version of the rows each node loaded last
    config,         \* the configuration its packs run with
    watch,          \* each node's poll
    save,           \* each node's form
    forms,
    repeated,       \* a write brought the version back to one a node had read
    overtaken,      \* an override was set after a newer row had been loaded
    raced           \* two reconfigurations of a node ran into each other

settingVars == <<credential, clock, overrides, seen, config, watch, save, forms, repeated, overtaken, raced>>

-----------------------------------------------------------------------------

Names == {Fields[i] : i \in DOMAIN Fields}
Settings == [Names -> Values \cup {Nothing}]
Row == [value : Values \cup {Nothing}, at : Nat]
NoRow == [value |-> Nothing, at |-> 0]
Accepted == Settings \ Refused

TypeOK ==
    /\ credential \in [Names -> Row] /\ clock \in Nat
    /\ overrides \in [Nodes -> Settings]
    /\ config \in [Nodes -> Settings]
    /\ forms \in 0..MaxForms /\ repeated \in BOOLEAN /\ overtaken \in BOOLEAN /\ raced \in BOOLEAN

Stored == [f \in Names |-> credential[f].value]

Idle == [pc |-> "idle"]
Down == [pc |-> "down"]

\* A database without saved settings, its nodes started.
Init ==
    /\ credential = [f \in Names |-> NoRow]
    /\ clock = 0
    /\ overrides = [n \in Nodes |-> Stored]
    /\ seen = [n \in Nodes |-> [count |-> 0, newest |-> 0]]
    /\ config = overrides
    /\ watch = [n \in Nodes |-> Idle]
    /\ save = [n \in Nodes |-> Idle]
    /\ forms = 0
    /\ repeated = FALSE /\ overtaken = FALSE /\ raced = FALSE

\* count(*) and the newest updated_at.
Newest == CHOOSE t \in {0} \cup {credential[f].at : f \in Names} :
              \A f \in Names : credential[f].at <= t
Version == [count |-> Cardinality({f \in Names : credential[f] # NoRow}), newest |-> Newest]

\* The versions nodes remember or have just read.
Versions == {seen[n] : n \in Nodes}
                \cup {watch[n].version : n \in {m \in Nodes : watch[m].pc \in {"version", "rows"}}}

Poll(n, w) == watch' = [watch EXCEPT ![n] = w]
Form(n, s) == save' = [save EXCEPT ![n] = s]

\* A pack's Reconfigure (llm, storage, billing): it switches to the settings it read, and
\* on an error keeps the previous configuration.
SwitchTo(n, read) ==
    config' = IF read \in Accepted THEN [config EXCEPT ![n] = read] ELSE config

-----------------------------------------------------------------------------
(* watch and CredentialStore.Refresh.                                      *)

\* Refresh, then Load: the version before the rows.
Refresh(n) ==
    /\ watch[n] = Idle
    /\ Version # seen[n]
    /\ Poll(n, [pc |-> "version", version |-> Version])
    /\ UNCHANGED <<credential, clock, overrides, seen, config, save, forms, repeated, overtaken, raced>>

\* Mutant of Read: the version is read again, after the rows.
ReadVersionLast(n) ==
    /\ watch[n].pc \in {"version", "late"}
    /\ IF watch[n].pc = "version" THEN Poll(n, [pc |-> "late", rows |-> Stored])
       ELSE Poll(n, [pc |-> "rows", version |-> Version, rows |-> watch[n].rows])
    /\ UNCHANGED <<credential, clock, overrides, seen, config, save, forms, repeated, overtaken, raced>>

Read(n) ==
    /\ watch[n].pc = "version"
    /\ Poll(n, [pc |-> "rows", version |-> watch[n].version, rows |-> Stored])
    /\ UNCHANGED <<credential, clock, overrides, seen, config, save, forms, repeated, overtaken, raced>>

\* SetOverrides, and the version is remembered.
Load(n) ==
    /\ watch[n].pc = "rows"
    /\ overrides' = [overrides EXCEPT ![n] = watch[n].rows]
    /\ seen' = [seen EXCEPT ![n] = watch[n].version]
    /\ Poll(n, [pc |-> "apply"])
    /\ UNCHANGED <<credential, clock, config, save, forms, repeated, overtaken, raced>>

\* A failed statement, or the poll's deadline: the next poll tries again.
LoadFails(n) ==
    /\ watch[n].pc \in {"version", "rows"}
    /\ Poll(n, Idle)
    /\ UNCHANGED <<credential, clock, overrides, seen, config, save, forms, repeated, overtaken, raced>>

Reconfigure(n) ==
    /\ watch[n].pc = "apply"
    /\ Poll(n, [pc |-> "switch", read |-> overrides[n]])
    /\ UNCHANGED <<credential, clock, overrides, seen, config, save, forms, repeated, overtaken, raced>>

\* An error is logged.
Switch(n) ==
    /\ watch[n].pc = "switch"
    /\ SwitchTo(n, watch[n].read)
    /\ raced' = (raced \/ save[n].pc = "switch")
    /\ Poll(n, Idle)
    /\ UNCHANGED <<credential, clock, overrides, seen, save, forms, repeated, overtaken>>

-----------------------------------------------------------------------------
(* saveSettings.                                                           *)

\* What a request is at: the writes left, and the switch to what the packs are to read.
Writing(form, left) == [pc |-> "fields", form |-> form, left |-> left]
Switching(form, read) == [pc |-> "switch", form |-> form, read |-> read]

Precedes(f, g) == \E i, j \in DOMAIN Fields : i < j /\ Fields[i] = f /\ Fields[j] = g

\* What was changed is written, up to a field the form is refused for.
Refusal(form) == {f \in Names : form[f] = Wrong}
Changes(n, form) ==
    {f \in Names \ Refusal(form) :
        form[f] # overrides[n][f] /\ \A g \in Refusal(form) : Precedes(f, g)}
Writes(names, values) == {[name |-> f, value |-> values[f]] : f \in names}

Post(n) ==
    /\ save[n] = Idle /\ watch[n] # Down
    /\ forms < MaxForms
    /\ \E form \in [Names -> Values \cup {Nothing, Wrong}] :
        LET names == Changes(n, form)
        IN  /\ names # {}
            /\ Form(n, Writing([stops |-> Refusal(form) # {}, back |-> FALSE,
                                before |-> Writes(names, overrides[n])], Writes(names, form)))
    /\ forms' = forms + 1
    /\ UNCHANGED <<credential, clock, overrides, seen, config, watch, repeated, overtaken, raced>>

\* A field the form is refused for, or a failed write: the request ends, what it has
\* written stays.
Stop(n) ==
    LET s == save[n]
    IN  /\ s.pc \in {"fields", "begun"} /\ ~s.form.back
        /\ s.pc = "fields" => s.left = {} /\ s.form.stops
        /\ Form(n, Idle)
        /\ UNCHANGED <<credential, clock, overrides, seen, config, watch, forms, repeated, overtaken, raced>>

\* Save or Delete begins its statement, now() being this moment's: the form's fields in
\* order, old values in any.
BeginWrite(n) ==
    LET s == save[n]
    IN  /\ s.pc = "fields"
        /\ \E w \in s.left :
            /\ s.form.back \/ \A u \in s.left \ {w} : Precedes(w.name, u.name)
            /\ Form(n, [pc |-> "begun", form |-> s.form, left |-> s.left \ {w}, write |-> w,
                        at |-> clock + 1])
        /\ clock' = clock + 1
        /\ UNCHANGED <<credential, overrides, seen, config, watch, forms, repeated, overtaken, raced>>

\* INSERT ... ON CONFLICT DO UPDATE ... updated_at = now(), or DELETE.
CommitWrite(n) ==
    LET s == save[n] w == s.write
    IN  /\ s.pc = "begun"
        /\ credential' = [credential EXCEPT ![w.name] =
                             IF w.value = Nothing THEN NoRow ELSE [value |-> w.value, at |-> s.at]]
        /\ repeated' = (repeated \/ Version' \in Versions)
        /\ Form(n, [pc |-> "stored", form |-> s.form, left |-> s.left, write |-> w])
        /\ UNCHANGED <<clock, overrides, seen, config, watch, forms, overtaken, raced>>

\* SetOverride, with no lock held since the statement.
SetOverride(n) ==
    LET s == save[n] w == s.write
    IN  /\ s.pc = "stored"
        /\ overrides' = [overrides EXCEPT ![n] = [@ EXCEPT ![w.name] = w.value]]
        /\ overtaken' = (overtaken \/ credential[w.name].value # w.value)
        /\ Form(n, Writing(s.form, s.left))
        /\ UNCHANGED <<credential, clock, seen, config, watch, forms, repeated, raced>>

\* The write that puts a value back failed: its error is not looked at.
PutBackFails(n) ==
    LET s == save[n]
    IN  /\ s.pc = "begun" /\ s.form.back
        /\ Form(n, Writing(s.form, s.left))
        /\ UNCHANGED <<credential, clock, overrides, seen, config, watch, forms, repeated, overtaken, raced>>

\* Every field done: the packs read the settings.
Apply(n) ==
    LET s == save[n]
    IN  /\ s.pc = "fields" /\ s.left = {} /\ ~s.form.stops
        /\ Form(n, Switching(s.form, overrides[n]))
        /\ UNCHANGED <<credential, clock, overrides, seen, config, watch, forms, repeated, overtaken, raced>>

\* On an error what the changed fields held is put back, and the packs read again.
Applied(n) ==
    LET s == save[n]
    IN  /\ s.pc = "switch"
        /\ SwitchTo(n, s.read)
        /\ raced' = (raced \/ watch[n].pc = "switch")
        /\ Form(n, IF s.form.back \/ s.read \in Accepted THEN Idle
                   ELSE Writing([stops |-> FALSE, back |-> TRUE, before |-> {}], s.form.before))
        /\ UNCHANGED <<credential, clock, overrides, seen, watch, forms, repeated, overtaken>>

-----------------------------------------------------------------------------

Crash(n) ==
    /\ watch[n] # Down
    /\ Poll(n, Down) /\ Form(n, Idle)
    /\ UNCHANGED <<credential, clock, overrides, seen, config, forms, repeated, overtaken, raced>>

\* DB.Start loads the rows before the packs start; one that refuses them ends the start.
Start(n) ==
    /\ watch[n] = Down
    /\ Stored \in Accepted
    /\ overrides' = [overrides EXCEPT ![n] = Stored]
    /\ config' = [config EXCEPT ![n] = Stored]
    /\ seen' = [seen EXCEPT ![n] = Version]
    /\ Poll(n, Idle)
    /\ UNCHANGED <<credential, clock, save, forms, repeated, overtaken, raced>>

Next ==
    \E n \in Nodes :
        \/ Refresh(n) \/ Read(n) \/ Load(n) \/ LoadFails(n) \/ Reconfigure(n) \/ Switch(n)
        \/ Post(n) \/ Stop(n) \/ BeginWrite(n) \/ CommitWrite(n)
        \/ SetOverride(n) \/ Apply(n) \/ Applied(n) \/ PutBackFails(n)
        \/ Crash(n) \/ Start(n)

Spec == Init /\ [][Next]_settingVars

-----------------------------------------------------------------------------

Settled(n) == watch[n] = Idle /\ save[n] = Idle /\ seen[n] = Version

\* "when the table changes it loads them again and reconfigures the packs, as the admin
\* pages do on the node that saved" (db.go:121): a node with nothing left to load holds
\* the table's values, and its packs run with them or refuse them, however saves, polls
\* and restarts interleave; but for a write that brought the version back to one a node
\* had read, an override set after a newer row, and two reconfigurations at once.
NodesFollow ==
    \A n \in Nodes :
        Settled(n) /\ ~repeated /\ ~overtaken
            => /\ overrides[n] = Stored
               /\ config[n] = Stored \/ Stored \in Refused \/ raced

\* "any save or delete changes the count or the newest updated_at" (credentials.go:88).
VersionTellsApart ==
    \A n \in Nodes : Settled(n) /\ ~overtaken => overrides[n] = Stored

\* "a refused value kept would stop the app at its next start" (settings.go:640).
NothingRefusedKept ==
    (\A n \in Nodes : save[n] = Idle) => Stored \in Accepted
=============================================================================
