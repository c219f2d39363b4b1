------------------------------- MODULE SchemaDiff -------------------------------
(***************************************************************************)
(* The migrations lidza gen writes (pkg/schema/migrate.go): Diff compares  *)
(* a schema with the one of the lock file and renders what turns one into  *)
(* the other as an up script, the statements that run after it outside a   *)
(* transaction, and the two that revert them.                              *)
(*                                                                         *)
(* A schema is its enums, each a set of values, and its models by name.  A *)
(* field's default is "", "identity" for autoincrement() or a literal; its *)
(* ref <<>> or the model and what deleting its row does.                   *)
(***************************************************************************)
EXTENDS PostgresSchema

CONSTANTS
    Declared,   \* the names of models, in the order of schema.lidza
    FieldOrder  \* the names of fields, likewise

-----------------------------------------------------------------------------
(* gen_sql.go: what a table, a column and an index of the schema are.      *)

UniqueName(t, fs) == <<t, fs, "key">>
IndexName(t, fs, unique) == <<t, fs, IF unique THEN "key" ELSE "idx">>
ForeignKeyName(t, f) == <<t, {f}, "fkey">>
CheckName(t, f) == <<t, {f}, "not_null">>

TableOf(s, ref) == s.models[ref[1]].table

\* references: the foreign-key clause of a field, <<>> without @ref.
References(s, f) == IF f.ref = <<>> THEN <<>> ELSE <<TableOf(s, f.ref), f.ref[2]>>

ForeignKey(t, n, to) == Thing(ForeignKeyName(t, n), "fkey", t, {n}, to)

ColumnDef(f) == [type |-> f.type, required |-> ~f.optional, default |-> f.default]

\* The constraints that are part of a column's definition.
Inline(s, t, n, f) ==
    (IF f.unique THEN {Thing(UniqueName(t, {n}), "unique", t, {n}, <<>>)} ELSE {})
    \cup (IF f.ref # <<>> THEN {ForeignKey(t, n, References(s, f))} ELSE {})

CreateTable(s, m) ==
    [op |-> "create table", table |-> m.table,
     columns |-> [n \in DOMAIN m.fields |-> ColumnDef(m.fields[n])],
     inline |-> UNION {Inline(s, m.table, n, m.fields[n]) : n \in DOMAIN m.fields}]

\* createIndexes: @index, unless the field is unique, @@index and @@unique, and the
\* index over the fields of the search.
Indexes(m) ==
    LET searched == {n \in DOMAIN m.fields : m.fields[n].search}
    IN  {Thing(IndexName(m.table, {n}, FALSE), "index", m.table, {n}, <<>>) :
            n \in {x \in DOMAIN m.fields : m.fields[x].index /\ ~m.fields[x].unique}}
        \cup {Thing(IndexName(m.table, x.fields, x.unique),
                    IF x.unique THEN "unique index" ELSE "index", m.table, x.fields, <<>>) :
                x \in m.indexes}
        \cup {Thing(<<m.table, {}, "search">>, "index", m.table, x, <<>>) : x \in {searched} \ {{}}}

CreateIndex(x) == [op |-> "create index", thing |-> x]
CreateIndexes(m) == SetToSeq({CreateIndex(x) : x \in Indexes(m)})

Refers(models, n, o) ==
    \E f \in DOMAIN models[n].fields :
        models[n].fields[f].ref # <<>> /\ models[n].fields[f].ref[1] = o

\* refOrder: every model after those it references, or for dropping before them; the
\* models under way are not visited again.
Before(models, m, drop) ==
    SelectSeq(Declared, LAMBDA o :
        /\ o \in DOMAIN models \ {m}
        /\ IF drop THEN Refers(models, o, m) ELSE Refers(models, m, o))

RefOrder(models, drop) ==
    LET names == DOMAIN models
        orders == UNION {[1..k -> names] : k \in 0..Cardinality(names)}
        visit[out \in orders, path \in SUBSET names, m \in names] ==
            IF m \in path \cup ToSet(out) THEN out
            ELSE Append(FoldLeft(LAMBDA o, b : visit[o, path \cup {m}, b], out,
                                 Before(models, m, drop)), m)
    IN  FoldLeft(LAMBDA out, m : visit[out, {}, m], <<>>,
                 SelectSeq(Declared, LAMBDA m : m \in names))

-----------------------------------------------------------------------------
(* Diff, piece by piece: each change adds to the end of Up and After, and  *)
(* to the front of Down and AfterDown.                                     *)

Piece(up, down) == [up |-> up, down |-> down, after |-> <<>>, afterDown |-> <<>>]
AfterPiece(up, down, after, afterDown) ==
    [up |-> up, down |-> down, after |-> after, afterDown |-> afterDown]

If(condition, piece) == IF condition THEN <<piece>> ELSE <<>>

\* Mutant of Migration: what was done first is undone first.
MigrationInOrder(pieces) ==
    LET part(field) == [i \in DOMAIN pieces |-> pieces[i][field]]
    IN  [up |-> FlattenSeq(part("up")), after |-> FlattenSeq(part("after")),
         down |-> FlattenSeq(part("down")), afterDown |-> FlattenSeq(part("afterDown"))]

Migration(pieces) ==
    LET part(field) == [i \in DOMAIN pieces |-> pieces[i][field]]
    IN  [up |-> FlattenSeq(part("up")), after |-> FlattenSeq(part("after")),
         down |-> FlattenSeq(Reverse(part("down"))),
         afterDown |-> FlattenSeq(Reverse(part("afterDown")))]

EnumPieces(prev, cur, e) ==
    IF e \notin DOMAIN prev.enums
    THEN <<Piece(<<[op |-> "create type", type |-> e, values |-> cur.enums[e]]>>,
                 <<[op |-> "drop type", type |-> e]>>)>>
    ELSE LET added == SetToSeq(cur.enums[e] \ prev.enums[e])
         IN  [i \in DOMAIN added |->
                Piece(<<[op |-> "add value", type |-> e, value |-> added[i]]>>, <<>>)]

TypePiece(t, n, of, f) ==
    LET as(type) == <<[op |-> "type", table |-> t, column |-> n, type |-> type]>>
    IN  If(of.type # f.type, Piece(as(f.type), as(of.type)))

OptionalPiece(t, n, of, f) ==
    LET required(v) == [op |-> "required", table |-> t, column |-> n, value |-> v]
        check == CheckName(t, n)
        drop == [op |-> "drop constraint if exists", table |-> t, name |-> check]
    IN  If(of.optional # f.optional,
           IF f.optional THEN Piece(<<required(FALSE)>>, <<required(TRUE)>>)
           ELSE AfterPiece(
                <<[op |-> "add constraint",
                   thing |-> [Thing(check, "check", t, {n}, <<>>) EXCEPT !.valid = FALSE]]>>,
                <<drop>>,
                <<[op |-> "validate", table |-> t, name |-> check], required(TRUE), drop>>,
                <<required(FALSE)>>))

RefPiece(prev, cur, t, n, of, f) ==
    LET oref == References(prev, of)
        nref == References(cur, f)
        name == ForeignKeyName(t, n)
        drop == [op |-> "drop constraint", table |-> t, name |-> name]
        add(ref, valid) == [op |-> "add constraint",
                            thing |-> [ForeignKey(t, n, ref) EXCEPT !.valid = valid]]
        has(ref, s) == IF ref # <<>> THEN <<s>> ELSE <<>>
    IN  If(oref # nref,
           AfterPiece(has(oref, drop) \o has(nref, add(nref, FALSE)),
                      has(nref, drop) \o has(oref, add(oref, TRUE)),
                      has(nref, [op |-> "validate", table |-> t, name |-> name]), <<>>))

\* "An identity replaces the default: the old default goes first on the way in, the
\* identity first on the way out."
DefaultPieces(t, n, of, f) ==
    LET default(x) == IF x.default = "identity" THEN "" ELSE x.default
        set(v) == <<[op |-> "default", table |-> t, column |-> n, value |-> v]>>
        add == <<[op |-> "add identity", table |-> t, column |-> n]>>
        drop == <<[op |-> "drop identity", table |-> t, column |-> n]>>
        was == of.default = "identity"
        is == f.default = "identity"
    IN  If(was /\ ~is, Piece(drop, add))
        \o If(default(of) # default(f), Piece(set(default(f)), set(default(of))))
        \o If(~was /\ is, Piece(add, drop))

UniquePiece(t, n, of, f) ==
    LET name == UniqueName(t, {n})
        key == Thing(name, "unique", t, {n}, <<>>)
    IN  If(of.unique # f.unique,
           IF f.unique
           THEN AfterPiece(<<>>, <<>>,
                <<[op |-> "drop index if exists", name |-> name],
                  CreateIndex([key EXCEPT !.kind = "unique index"]),
                  [op |-> "add constraint using index", table |-> t, name |-> name]>>,
                <<[op |-> "drop constraint if exists", table |-> t, name |-> name]>>)
           ELSE Piece(<<[op |-> "drop constraint", table |-> t, name |-> name]>>,
                      <<[op |-> "add constraint", thing |-> key]>>))

Added(s, t, n, f) ==
    <<[op |-> "add column", table |-> t, column |-> n, as |-> ColumnDef(f),
       inline |-> Inline(s, t, n, f)]>>
Dropped(t, n) == <<[op |-> "drop column", table |-> t, column |-> n]>>

FieldPieces(prev, cur, old, m, n) ==
    LET t == m.table
        f == m.fields[n]
        of == old.fields[n]
    IN  IF n \notin DOMAIN old.fields
        THEN <<Piece(Added(cur, t, n, f), Dropped(t, n))>>
        ELSE TypePiece(t, n, of, f) \o OptionalPiece(t, n, of, f)
             \o RefPiece(prev, cur, t, n, of, f) \o DefaultPieces(t, n, of, f)
             \o UniquePiece(t, n, of, f)

\* Indexes are told apart by name; one that is there under another definition is dropped
\* and built again.
IndexPieces(old, m) ==
    LET was(name) == CHOOSE x \in Indexes(old) : x.name = name
        is(name) == CHOOSE x \in Indexes(m) : x.name = name
        oldNames == {x.name : x \in Indexes(old)}
        newNames == {x.name : x \in Indexes(m)}
        drop(name) == [op |-> "drop index if exists", name |-> name]
        pieces(names, P(_)) == LET q == SetToSeq(names) IN [i \in DOMAIN q |-> P(q[i])]
    IN  pieces(newNames \ oldNames, LAMBDA x :
                AfterPiece(<<>>, <<>>, <<drop(x), CreateIndex(is(x))>>, <<drop(x)>>))
        \o pieces(oldNames \ newNames, LAMBDA x :
                AfterPiece(<<>>, <<>>, <<drop(x)>>, <<drop(x), CreateIndex(was(x))>>))
        \o pieces({x \in oldNames \cap newNames : was(x) # is(x)}, LAMBDA x :
                AfterPiece(<<>>, <<>>, <<drop(x), CreateIndex(is(x))>>,
                                       <<drop(x), CreateIndex(was(x))>>))

Each(names, P(_)) == FlattenSeq([i \in DOMAIN names |-> P(names[i])])

ModelPieces(prev, cur, n) ==
    LET m == cur.models[n]
        old == prev.models[n]
        rename(from, to) == <<[op |-> "rename", table |-> from, to |-> to]>>
        in(fields, f) == f \in DOMAIN fields
    IN  IF n \notin DOMAIN prev.models
        THEN <<Piece(<<CreateTable(cur, m)>> \o CreateIndexes(m),
                     <<[op |-> "drop table", table |-> m.table]>>)>>
        ELSE If(old.table # m.table, Piece(rename(old.table, m.table), rename(m.table, old.table)))
             \o Each(SelectSeq(FieldOrder, LAMBDA f : in(m.fields, f)),
                     LAMBDA f : FieldPieces(prev, cur, old, m, f))
             \o Each(SelectSeq(FieldOrder, LAMBDA f : in(old.fields, f) /\ ~in(m.fields, f)),
                     LAMBDA f : <<Piece(Dropped(m.table, f), Added(prev, m.table, f, old.fields[f]))>>)
             \o IndexPieces(old, m)

Diff(prev, cur) ==
    LET gone == SelectSeq(RefOrder(prev.models, TRUE), LAMBDA n : n \notin DOMAIN cur.models)
    IN  Migration(
            Each(SetToSeq(DOMAIN cur.enums), LAMBDA e : EnumPieces(prev, cur, e))
            \o Each(RefOrder(cur.models, FALSE), LAMBDA n : ModelPieces(prev, cur, n))
            \o Each(gone, LAMBDA n :
                <<Piece(<<[op |-> "drop table", table |-> prev.models[n].table]>>,
                        <<CreateTable(prev, prev.models[n])>>)>>)
            \o Each(SetToSeq(DOMAIN prev.enums \ DOMAIN cur.enums), LAMBDA e :
                <<Piece(<<[op |-> "drop type", type |-> e]>>,
                        <<[op |-> "create type", type |-> e, values |-> prev.enums[e]]>>)>>))

-----------------------------------------------------------------------------

\* The database a schema describes.
Described(s) ==
    LET models == {s.models[n] : n \in DOMAIN s.models}
        named(t) == CHOOSE m \in models : m.table = t
        columns(m) == [n \in DOMAIN m.fields |-> ColumnDef(m.fields[n])]
    IN  [types |-> s.enums,
         tables |-> [t \in {m.table : m \in models} |-> columns(named(t))],
         objects |-> UNION {Indexes(m) \cup UNION {Inline(s, m.table, n, m.fields[n]) :
                                                        n \in DOMAIN m.fields} : m \in models},
         added |-> {}]

-----------------------------------------------------------------------------
(* The edits whose migration is not what it should be.                     *)

Kept(prev, cur) == DOMAIN prev.models \cap DOMAIN cur.models

\* The fields that stay, each as it was and as it is.
Fields(prev, cur) ==
    LET in(n) == DOMAIN prev.models[n].fields \cap DOMAIN cur.models[n].fields
        field(n, f) == [model |-> n, was |-> prev.models[n].fields[f],
                        is |-> cur.models[n].fields[f]]
    IN  UNION {{field(n, f) : f \in in(n)} : n \in Kept(prev, cur)}
Retyped(prev, cur) == {x \in Fields(prev, cur) : x.was.type # x.is.type}
RetypedIds(prev, cur) ==
    {n \in Kept(prev, cur) : prev.models[n].fields["id"].type # cur.models[n].fields["id"].type}

RenamedModels(prev, cur) == {n \in Kept(prev, cur) : prev.models[n].table # cur.models[n].table}
Constrained(f) == f.unique \/ f.ref # <<>>
Referenced(s) == {o \in DOMAIN s.models : \E n \in DOMAIN s.models : Refers(s.models, n, o)}

\* What is on a renamed table keeps its name, and Diff looks for it under the new one.
RenamesKeys(prev, cur) ==
    \E x \in Fields(prev, cur) : x.model \in RenamedModels(prev, cur) /\ Constrained(x.was)

\* @@unique of a field becomes @unique: the index is dropped by name once it is the
\* constraint's.
BlockBecomesKey(prev, cur) ==
    \E n \in Kept(prev, cur) : \E x \in prev.models[n].indexes :
        /\ x.unique /\ prev.models[n].table = cur.models[n].table
        /\ \E f \in DOMAIN cur.models[n].fields :
                x.fields = {f} /\ cur.models[n].fields[f].unique

\* A column's type changes before its foreign key, its default and its identity do.
RetypedUnderKey(prev, cur) ==
    \/ \E x \in Retyped(prev, cur) : x.was.ref # <<>>
    \/ RetypedIds(prev, cur) \cap Referenced(prev) # {}
RetypedUnderDefault(prev, cur) ==
    \E x \in Retyped(prev, cur) :
        x.was.default # "" /\ (x.is.type # "text" \/ x.was.default = "identity")
NoCast(prev, cur) == \E x \in Retyped(prev, cur) : "text" \notin {x.was.type, x.is.type}

\* NOT NULL is set after the transaction that adds the identity, and lifted before the
\* one that takes it away.
IdentityAndNull(prev, cur) ==
    \E x \in Fields(prev, cur) :
        \/ x.was.optional /\ x.is.default = "identity"
        \/ x.was.default = "identity" /\ x.is.optional

\* An enum's value is no default in the transaction that adds it, and is never removed.
NewValues(prev, cur) ==
    UNION {{<<e, v>> : v \in cur.enums[e] \ prev.enums[e]} :
            e \in DOMAIN prev.enums \cap DOMAIN cur.enums}
OldValues(prev, cur) == NewValues(cur, prev)
NewDefault(prev, cur) ==
    \E n \in DOMAIN cur.models : \E f \in DOMAIN cur.models[n].fields :
        <<cur.models[n].fields[f].type, cur.models[n].fields[f].default>> \in NewValues(prev, cur)

\* Models that reference each other, one of them created, dropped, renamed or with another
\* id.
Cycles(prev, cur) ==
    LET same == Kept(prev, cur) \ (RetypedIds(prev, cur) \cup RenamedModels(prev, cur))
    IN  \E s \in {prev, cur} : \E S \in SUBSET DOMAIN s.models :
            ~(S \subseteq same) /\ \A n \in S : \E o \in S \ {n} : Refers(s.models, n, o)

Unforeseen(prev, cur) ==
    \/ RenamesKeys(prev, cur) \/ BlockBecomesKey(prev, cur)
    \/ RetypedUnderKey(prev, cur) \/ RetypedUnderDefault(prev, cur) \/ NoCast(prev, cur)
    \/ IdentityAndNull(prev, cur) \/ OldValues(prev, cur) # {} \/ NewDefault(prev, cur)
    \/ Cycles(prev, cur)

\* AfterDown builds an index again on a column that Down adds back later.
IndexBeforeColumn(prev, cur) ==
    \E n \in Kept(prev, cur) : \E x \in Indexes(prev.models[n]) :
        ~(x.columns \subseteq DOMAIN cur.models[n].fields)

\* Down creates a dropped table without its indexes.
IndexesForgotten(prev, cur) ==
    \E n \in DOMAIN prev.models \ DOMAIN cur.models : Indexes(prev.models[n]) # {}

\* Down undoes the rename last, after what needs the old name.
RenameUndoneLast(prev, cur) ==
    \/ RenamedModels(prev, cur) \cap Referenced(prev) # {}
    \/ \E n \in RenamedModels(prev, cur) :
        \/ Indexes(prev.models[n]) # {}
        \/ \E f \in DOMAIN prev.models[n].fields : Constrained(prev.models[n].fields[f])

\* A text column becomes an enum again under its default.
DefaultBeforeType(prev, cur) ==
    \E x \in Retyped(prev, cur) : x.was.default # "" /\ x.was.type # "text"

NotUndone(prev, cur) ==
    \/ Unforeseen(prev, cur) \/ IndexBeforeColumn(prev, cur)
    \/ IndexesForgotten(prev, cur) \/ RenameUndoneLast(prev, cur)
    \/ DefaultBeforeType(prev, cur) \/ NewValues(prev, cur) # {}
=============================================================================
