------------------------------- MODULE MCSchemas -------------------------------
(***************************************************************************)
(* Families of schemas for TLC: a migration is generated from every schema *)
(* of a family to every other.                                             *)
(***************************************************************************)
EXTENDS Integers

SchemaOf(enums, models) == [enums |-> enums, models |-> models]
ModelOf(table, fields, indexes) == [table |-> table, fields |-> fields, indexes |-> indexes]
FieldOf(type, optional, mark, default, ref) ==
    [type |-> type, optional |-> optional, unique |-> mark = "unique", index |-> mark = "index",
     search |-> mark = "search", default |-> default, ref |-> ref]

Single(n, v) == [x \in {n} |-> v]
IdOf(type) == FieldOf(type, FALSE, "", "", <<>>)
Id == IdOf("uuid")
JustId(table) == ModelOf(table, Single("id", Id), {})
OneField(table, f, indexes) ==
    ModelOf(table, [x \in {"id", "f"} |-> IF x = "id" THEN Id ELSE f], indexes)

\* What the parser accepts of a schema: references to models that are there, of their
\* id's type, and enum fields with a default of the enum.
Valid(s) ==
    \A n \in DOMAIN s.models : \A g \in DOMAIN s.models[n].fields :
        LET f == s.models[n].fields[g]
        IN  /\ f.ref # <<>> => /\ f.ref[1] \in DOMAIN s.models
                               /\ s.models[f.ref[1]].fields["id"].type = f.type
            /\ f.type = "status" => /\ "status" \in DOMAIN s.enums
                                    /\ f.default # "" => f.default \in s.enums["status"]

\* One column: its type, what it references, whether it may be null, unique or indexed,
\* and a block's index over it.
Columns ==
    {FieldOf(t[1], optional, mark, "", t[2]) :
        t \in {<<"text", <<>>>>, <<"uuid", <<>>>>, <<"uuid", <<"User", "">>>>,
               <<"uuid", <<"User", "cascade">>>>},
        optional \in BOOLEAN, mark \in {"", "unique", "index"}}

BlocksOf(f) ==
    {{}} \cup {{[fields |-> {"f"}, unique |-> u]} :
                u \in {x \in BOOLEAN : IF x THEN ~f.unique ELSE ~f.index}}

ColumnSchemas ==
    LET posts == {JustId("posts")} \cup UNION {{OneField("posts", f, b) : b \in BlocksOf(f)} : f \in Columns}
    IN  {SchemaOf(<<>>, [x \in {"User", "Post"} |-> IF x = "User" THEN JustId("users") ELSE p]) :
            p \in posts}

\* Two models that come, go, are renamed, and reference each other.
TableSchemas ==
    LET users == {ModelOf(t, Single("id", IdOf(type)), {}) :
                    t \in {"users", "people"}, type \in {"uuid", "text"}}
                 \cup {OneField("users", FieldOf("uuid", TRUE, "", "", <<"Post", "">>), {})}
        refers == {FieldOf(type, TRUE, "", "", <<"User", "">>) : type \in {"uuid", "text"}}
        texts == {FieldOf("text", FALSE, mark, "", <<>>) : mark \in {"unique", "index"}}
        posts == {JustId("posts")}
                 \cup {OneField(t, f, {}) : t \in {"posts", "articles"}, f \in refers \cup texts}
        models == [User : users, Post : posts] \cup [User : users] \cup [Post : posts] \cup {<<>>}
    IN  {s \in {SchemaOf(<<>>, m) : m \in models} : Valid(s)}

\* Identities, defaults, searches and indexes of two fields.
ValueSchemas ==
    LET numbers == {FieldOf("int", o, "", "", <<>>) : o \in BOOLEAN}
                   \cup {FieldOf("int", FALSE, "", "identity", <<>>)}
        texts == {FieldOf("text", FALSE, mark, d, <<>>) : mark \in {"", "search"}, d \in {"", "a"}}
        others == {FieldOf("text", FALSE, mark, "", <<>>) : mark \in {"", "search"}}
        blocks == {{}} \cup {{[fields |-> {"f", "g"}, unique |-> u]} : u \in BOOLEAN}
        two(f, g) == [x \in {"id", "f", "g"} |-> CASE x = "id" -> Id [] x = "f" -> f [] x = "g" -> g]
    IN  {SchemaOf(<<>>, Single("Post", m)) :
            m \in {OneField("posts", f, {}) : f \in numbers \cup texts}
                  \cup {ModelOf("posts", two(f, g), b) : f \in texts, g \in others, b \in blocks}}

\* An enum, its values, and columns that have it.
EnumSchemas ==
    LET enums == {<<>>, Single("status", {"a"}), Single("status", {"a", "b"})}
        posts == {JustId("posts")}
                 \cup {OneField("posts", FieldOf(type, FALSE, "", d, <<>>), {}) :
                        type \in {"text", "status"}, d \in {"", "a", "b"}}
    IN  {s \in {SchemaOf(e, m) : e \in enums, m \in [Post : posts] \cup {<<>>}} : Valid(s)}

SchemaEdits ==
    UNION {family \X family : family \in {ColumnSchemas, TableSchemas, ValueSchemas, EnumSchemas}}

\* Two branches of a schema of two models and an enum: the models come, go, are renamed,
\* refer to each other and to the enum.
BranchSchemas ==
    LET text(mark) == FieldOf("text", FALSE, mark, "", <<>>)
        users == {JustId("users"), JustId("people")}
                 \cup {OneField("users", text(mark), {}) : mark \in {"unique", "index"}}
        posts == {JustId("posts")}
                 \cup {OneField("posts", f, {}) :
                        f \in {text(""), FieldOf("uuid", TRUE, "", "", <<"User", "">>),
                               FieldOf("status", FALSE, "", "", <<>>)}}
        models == [User : users, Post : posts] \cup [User : users] \cup [Post : posts]
        enums == {<<>>, Single("status", {"a"})}
    IN  {s \in {SchemaOf(e, m) : e \in enums, m \in models} : Valid(s)}

AncestorSchemas ==
    {s \in BranchSchemas : \A n \in DOMAIN s.models :
        /\ s.models[n].table # "people"
        /\ \A f \in DOMAIN s.models[n].fields : ~s.models[n].fields[f].unique}

SchemaBranchings ==
    {b \in [base : AncestorSchemas, ours : BranchSchemas, theirs : BranchSchemas] :
        b.ours # b.base /\ b.theirs # b.base}
=============================================================================
