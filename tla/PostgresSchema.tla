----------------------------- MODULE PostgresSchema -----------------------------
(***************************************************************************)
(* What Postgres makes of the statements a generated migration holds: its  *)
(* types, its tables with their columns, and the constraints and indexes   *)
(* on them, which are found by name.  Tables hold no rows.                 *)
(*                                                                         *)
(* A table and a type are named by what the schema calls them, a           *)
(* constraint and an index by their table's name when they were made,      *)
(* their columns and a suffix.                                             *)
(***************************************************************************)
EXTENDS FiniteSets, SequencesExt

NoDatabase == [types |-> <<>>, tables |-> <<>>, objects |-> {}, added |-> {}]

Without(f, x) == [y \in DOMAIN f \ {x} |-> f[y]]
With(f, x, v) == [y \in DOMAIN f \cup {x} |-> IF y = x THEN v ELSE f[y]]

\* A constraint, or an index that is none.
Thing(name, kind, table, columns, to) ==
    [name |-> name, kind |-> kind, table |-> table, columns |-> columns, to |-> to,
     valid |-> TRUE]

Named(db, name) == {o \in db.objects : o.name = name}
Constraints(db, table, name) ==
    {o \in Named(db, name) : o.table = table /\ o.kind \notin {"index", "unique index"}}

HasColumn(db, t, c) == t \in DOMAIN db.tables /\ c \in DOMAIN db.tables[t]
TypeKnown(db, type) == type \in {"text", "uuid", "int"} \cup DOMAIN db.types

\* A default is a literal of the column's type; a value added to an enum serves once the
\* transaction that added it is over.
DefaultFits(db, c) ==
    c.type \in DOMAIN db.types /\ c.default # "" =>
        c.default \in db.types[c.type] /\ <<c.type, c.default>> \notin db.added

\* A foreign key needs the id of its table, of the column's own type.
KeyFits(tables, o) ==
    o.kind = "fkey" =>
        /\ o.to[1] \in DOMAIN tables
        /\ \A c \in o.columns : tables[o.table][c].type = tables[o.to[1]]["id"].type

\* A column's new type: from text or to text, the default along with it, never under a
\* foreign key of another type nor under an identity.
Retypable(db, t, c, type) ==
    LET old == db.tables[t][c]
        new == With(db.tables, t, With(db.tables[t], c, [old EXCEPT !.type = type]))
    IN  /\ TypeKnown(db, type)
        /\ old.type = "text" \/ type = "text"
        /\ old.default \notin {"", "identity"} => type = "text"
        /\ old.default = "identity" => type = "int"
        /\ \A o \in db.objects : KeyFits(new, o)

\* Postgres runs s.
Accepts(db, s) ==
    CASE s.op = "create type" -> s.type \notin DOMAIN db.types
      [] s.op = "drop type" ->
            /\ s.type \in DOMAIN db.types
            /\ \A t \in DOMAIN db.tables : \A c \in DOMAIN db.tables[t] : db.tables[t][c].type # s.type
      [] s.op = "add value" -> s.type \in DOMAIN db.types /\ s.value \notin db.types[s.type]
      [] s.op = "create table" ->
            /\ s.table \notin DOMAIN db.tables
            /\ \A c \in DOMAIN s.columns :
                    TypeKnown(db, s.columns[c].type) /\ DefaultFits(db, s.columns[c])
            /\ \A o \in s.inline : Named(db, o.name) = {} /\ KeyFits(With(db.tables, s.table, s.columns), o)
      [] s.op = "drop table" ->
            /\ s.table \in DOMAIN db.tables
            /\ \A o \in db.objects : o.kind = "fkey" /\ o.to[1] = s.table => o.table = s.table
      [] s.op = "rename" -> s.table \in DOMAIN db.tables /\ s.to \notin DOMAIN db.tables
      [] s.op = "add column" ->
            /\ s.table \in DOMAIN db.tables /\ ~HasColumn(db, s.table, s.column)
            /\ TypeKnown(db, s.as.type) /\ DefaultFits(db, s.as)
            /\ LET tables == With(db.tables, s.table, With(db.tables[s.table], s.column, s.as))
               IN  \A o \in s.inline : Named(db, o.name) = {} /\ KeyFits(tables, o)
      [] s.op = "type" -> HasColumn(db, s.table, s.column) /\ Retypable(db, s.table, s.column, s.type)
      [] s.op = "add identity" ->
            /\ HasColumn(db, s.table, s.column)
            /\ LET c == db.tables[s.table][s.column]
               IN  c.required /\ c.default = "" /\ c.type = "int"
      [] s.op = "drop identity" ->
            HasColumn(db, s.table, s.column) /\ db.tables[s.table][s.column].default = "identity"
      [] s.op = "default" ->
            /\ HasColumn(db, s.table, s.column)
            /\ db.tables[s.table][s.column].default # "identity"
            /\ DefaultFits(db, [db.tables[s.table][s.column] EXCEPT !.default = s.value])
      [] s.op = "drop column" -> HasColumn(db, s.table, s.column)
      [] s.op = "required" ->
            /\ HasColumn(db, s.table, s.column)
            /\ db.tables[s.table][s.column].default = "identity" => s.value
      [] s.op = "add constraint" ->
            /\ Named(db, s.thing.name) = {}
            /\ \A c \in s.thing.columns : HasColumn(db, s.thing.table, c)
            /\ KeyFits(db.tables, s.thing)
      [] s.op = "add constraint using index" ->
            \E o \in Named(db, s.name) : o.table = s.table /\ o.kind = "unique index" /\ o.valid
      [] s.op \in {"validate", "drop constraint"} -> Constraints(db, s.table, s.name) # {}
      [] s.op = "drop constraint if exists" -> s.table \in DOMAIN db.tables
      [] s.op = "create index" ->
            /\ Named(db, s.thing.name) = {}
            /\ \A c \in s.thing.columns : HasColumn(db, s.thing.table, c)
      [] s.op = "drop index if exists" ->
            \A o \in Named(db, s.name) : o.kind \in {"index", "unique index"}

SetColumn(db, t, c, as) ==
    [db EXCEPT !.tables = With(@, t, With(@[t], c, as))]

\* A renamed table keeps the names of what is on it.
Renamed(o, from, to) ==
    [o EXCEPT !.table = IF @ = from THEN to ELSE @,
              !.to = IF @ # <<>> /\ @[1] = from THEN <<to, @[2]>> ELSE @]

\* The schema once s has run.
Effect(db, s) ==
    CASE s.op = "create type" -> [db EXCEPT !.types = With(@, s.type, s.values)]
      [] s.op = "drop type" -> [db EXCEPT !.types = Without(@, s.type)]
      [] s.op = "add value" ->
            [db EXCEPT !.types[s.type] = @ \cup {s.value}, !.added = @ \cup {<<s.type, s.value>>}]
      [] s.op = "create table" ->
            [db EXCEPT !.tables = With(@, s.table, s.columns), !.objects = @ \cup s.inline]
      [] s.op = "drop table" ->
            [db EXCEPT !.tables = Without(@, s.table),
                       !.objects = {o \in @ : o.table # s.table}]
      [] s.op = "rename" ->
            [db EXCEPT !.tables = With(Without(@, s.table), s.to, @[s.table]),
                       !.objects = {Renamed(o, s.table, s.to) : o \in @}]
      [] s.op = "add column" ->
            [SetColumn(db, s.table, s.column, s.as) EXCEPT !.objects = @ \cup s.inline]
      [] s.op = "drop column" ->
            [db EXCEPT !.tables[s.table] = Without(@, s.column),
                       !.objects = {o \in @ : ~(o.table = s.table /\ s.column \in o.columns)}]
      [] s.op = "type" ->
            SetColumn(db, s.table, s.column, [db.tables[s.table][s.column] EXCEPT !.type = s.type])
      [] s.op = "required" ->
            SetColumn(db, s.table, s.column, [db.tables[s.table][s.column] EXCEPT !.required = s.value])
      [] s.op = "add identity" ->
            SetColumn(db, s.table, s.column, [db.tables[s.table][s.column] EXCEPT !.default = "identity"])
      [] s.op = "drop identity" ->
            SetColumn(db, s.table, s.column, [db.tables[s.table][s.column] EXCEPT !.default = ""])
      [] s.op = "default" ->
            SetColumn(db, s.table, s.column, [db.tables[s.table][s.column] EXCEPT !.default = s.value])
      [] s.op \in {"add constraint", "create index"} -> [db EXCEPT !.objects = @ \cup {s.thing}]
      [] s.op = "add constraint using index" ->
            [db EXCEPT !.objects = {IF o.name = s.name THEN [o EXCEPT !.kind = "unique"] ELSE o : o \in @}]
      [] s.op = "validate" ->
            [db EXCEPT !.objects = {IF o.name = s.name THEN [o EXCEPT !.valid = TRUE] ELSE o : o \in @}]
      [] s.op \in {"drop constraint", "drop constraint if exists"} ->
            [db EXCEPT !.objects = @ \ Constraints(db, s.table, s.name)]
      [] s.op = "drop index if exists" -> [db EXCEPT !.objects = @ \ Named(db, s.name)]

\* Postgres after the statements, refused at the first it does not accept.
Run(db, statements) ==
    FoldLeft(LAMBDA r, s : IF ~r.ok THEN r
                           ELSE IF Accepts(r.db, s) THEN [r EXCEPT !.db = Effect(@, s)]
                           ELSE [r EXCEPT !.ok = FALSE],
             [ok |-> TRUE, db |-> db], statements)

\* A transaction ends: what it added to an enum may be used.
Committed(db) == [db EXCEPT !.added = {}]
=============================================================================
