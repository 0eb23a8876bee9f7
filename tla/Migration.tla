------------------------------ MODULE Migration -----------------------------
(***************************************************************************)
(* The migration plan and what its statements do to the target.            *)
(*                                                                         *)
(* backend/migration/planner.py builds one item per source object;         *)
(* backend/schema_migration/ddl_generator.py writes its statement, which   *)
(* is guarded so that it may be run again; routines and triggers are       *)
(* translated by a model, and backend/schema_migration/routine_sql.py puts *)
(* the drop of a stale routine in front of a reshaped one.                 *)
(*                                                                         *)
(* The catalog of the target is the set of its objects.                    *)
(***************************************************************************)
EXTENDS Types

CONSTANT
  Provides   \* what an extension brings along: objects of the schema it is created in

\* Types and their like are left out.
ASSUME ProvidesAssumption ==
  \A e \in {"postgis", "ltree"} :
    /\ IsFiniteSet(Provides[e])
    /\ \A o \in Provides[e] : o = Obj(o.kind, o.at, o.name, o.cols, o.ref, "extension") /\ o.kind \in {"table", "function", "view"}

Tables(objs) == {o \in objs : o.kind = "table"}
Routines == {"procedure", "function"}
Programmable == Routines \cup {"view", "trigger"}
PostDataKinds == {"pk", "check", "default", "identity", "index", "fk"}
Constraints == {"pk", "check", "fk"}

\* KIND_ORDER, and within the constraints the order of _post_data_items().
Rank(kind) ==
  CASE kind = "extension" -> 0 [] kind = "schema" -> 1 [] kind = "collation" -> 2 [] kind \in {"table", "column"} -> 3
    [] kind = "function" -> 4 [] kind = "view" -> 5 [] kind = "procedure" -> 6
    [] kind = "default" -> 7 [] kind = "identity" -> 8 [] kind = "pk" -> 9
    [] kind = "check" -> 10 [] kind = "index" -> 11 [] kind = "fk" -> 12
    [] kind = "trigger" -> 13

Shared == {"extension", "schema", "collation"}
PreData == Shared \cup {"table"} \cup (Programmable \ {"trigger"})

Schema(s) == Obj("schema", <<s, <<>>>>, <<>>, <<>>, NoPlace, "none")

ExtensionItem(e) == Obj("extension", <<<<e>>, <<>>>>, <<>>, <<>>, NoPlace, "none")

Columns(objs, at) == {o \in objs : o.kind = "column" /\ o.at = at}
AllColumns(objs) == {o \in objs : o.kind = "column"}

\* build_plan(): the extensions, the distinct mapped schemas, the collations, which are
\* created in the default schema, and the source objects.  A column is part of its table.
PlanItems(src, policy) ==
  LET default == MapSchema(Dbo, policy)
      collations == NeedsCreate(AllColumns(src), default)
      schemas == {MapSchema(o.at[1], policy) : o \in src} \cup (IF collations = {} THEN {} ELSE {default})
  IN  {ExtensionItem(e) : e \in UNION {Extension(c.tag) : c \in AllColumns(src)}}
      \cup {Schema(s) : s \in schemas}
      \cup collations
      \cup {o \in src : o.kind # "column"}

\* What the statement of an item creates.  A routine has the shape of its translation,
\* which may come with a working table; a trigger is two objects, and a table comes with
\* its columns.
Created(i, src, shape, policy) ==
  LET t == IF i.kind \in Shared THEN i ELSE Target(i, policy)
  IN  CASE i.kind = "extension" -> {t} \cup {[o EXCEPT !.at = <<Public, o.at[2]>>] : o \in Provides[i.at[1][1]]}
        [] i.kind = "identity" ->
             {[t EXCEPT !.kind = IF \E c \in Columns(src, i.at) : c.cols = i.cols /\ IdentityKind(c.tag) = "identity"
                                 THEN "identity" ELSE "default"]}
        [] i.kind = "table" -> {t} \cup {Target(c, policy) : c \in Columns(src, i.at)}
        [] i.kind \in Routines ->
             {[t EXCEPT !.kind = shape[i].kind, !.tag = shape[i].tag]}
               \cup {Obj("table", <<t.at[1], t.at[2] \o h>>, <<>>, <<>>, NoPlace, "helper")
                     : h \in shape[i].helpers}
        [] i.kind = "trigger" ->
             {t, Obj("function", <<t.at[1], TriggerFunction(i.at[2], policy)>>,
                     <<>>, <<>>, NoPlace, "none")}
        [] OTHER -> {t}

\* created_objects(): where the statements of a plan put something, helpers included, but
\* not what an extension brings, of which they do not speak.
CreatedObjects(made) ==
  {o.at : o \in {o \in made : o.kind \in Programmable \cup {"table"} /\ o.tag # "extension"}}

\* target_kind(): what the statements of a routine's item create, besides its helpers.
TargetKind(made) == (CHOOSE t \in made : t.kind \in Programmable).kind

\* Tables, views and indexes of a schema share their names in Postgres.
Relations(cat) ==
  {o.at : o \in {o \in cat : o.kind \in {"table", "view"}}}
    \cup {<<o.at[1], o.name>> : o \in {o \in cat : o.kind \in {"index", "pk"}}}

\* The guards of the statements: IF NOT EXISTS, and the lookups in pg_constraint, by
\* kind for a primary key and by name for the others.
There(t, cat) ==
  CASE t.kind \in Shared -> \E o \in cat : o.kind = t.kind /\ o.at = t.at
    [] t.kind = "table" -> t.at \in Relations(cat)
    [] t.kind = "index" -> <<t.at[1], t.name>> \in Relations(cat)
    [] t.kind = "pk" -> \E o \in cat : o.kind = "pk" /\ o.at = t.at
    [] t.kind \in {"check", "fk"} ->
         \E o \in cat : o.kind \in Constraints /\ o.at = t.at /\ o.name = t.name
    [] OTHER -> FALSE

\* The extension a type of Postgres comes from.
ProvidedBy(type) ==
  CASE type \in {"geometry", "geography"} -> {"postgis"} [] type = "ltree" -> {"ltree"} [] OTHER -> {}

HasColumns(t, cat) == \A i \in DOMAIN t.cols : \E c \in Columns(cat, t.at) : c.cols = <<t.cols[i]>>

\* The name of a key or a view is not that of another relation.
NameFree(t, cat) ==
  There(t, cat) \/ (IF t.kind = "pk" THEN <<t.at[1], t.name>> ELSE t.at) \notin Relations({o \in cat : o.kind # t.kind})

\* What Postgres asks for: the schema; the table and its columns; the types and the
\* collations of a new table; a key of the table a foreign key refers to; a name that is free.
Possible(t, cat) ==
  /\ t.kind \notin {"schema", "extension"} /\ t.tag # "extension" => Schema(t.at[1]) \in cat
  /\ t.kind \in PostDataKinds \cup {"column"} =>
       /\ \E o \in Tables(cat) : o.at = t.at
       /\ HasColumns(t, cat)
  /\ t.kind = "column" => \A e \in ProvidedBy(t.tag) : ExtensionItem(e) \in cat
  /\ t.kind = "column" => \A c \in {t.name} \ {<<>>, BINARY_COLLATION} : \E o \in cat : o.kind = "collation" /\ o.at[2] = c
  /\ t.kind = "fk" => \E o \in cat : o.kind = "pk" /\ o.at = t.ref
  /\ t.kind \in {"pk", "view"} => NameFree(t, cat)
  /\ t.kind = "trigger" => \E o \in Tables(cat) : o.at = t.ref

Opposite(kind) == IF kind = "function" THEN "procedure" ELSE "function"

\* with_kind_guard(): what is dropped before a routine that changed its kind.
Stale(i, made, cat) ==
  IF i.kind \in Routines /\ TargetKind(made) = Opposite(i.kind)
  THEN {o \in cat : o.kind = i.kind /\ \E t \in made : o.at = t.at}
  ELSE {}

\* What CREATE OR REPLACE, SET DEFAULT and ADD GENERATED replace.
Replaced(t, cat) ==
  IF t.kind \in Programmable THEN {o \in cat : o.kind = t.kind /\ o.at = t.at}
  ELSE IF t.kind \in {"default", "identity", "column"}
  THEN {o \in cat : o.kind = t.kind /\ o.at = t.at /\ o.cols = t.cols}
  ELSE {}

\* The statement of an item is accepted; and the catalog after it.  A routine of the
\* other kind, left by an earlier plan, may stand in the way or not, depending on the
\* types of its parameters.
Accepted(i, made, cat) ==
  \/ \E t \in made : There(t, cat) /\ t.tag # "helper"
  \/ LET rest == cat \ Stale(i, made, cat)
     IN  \A t \in made : Possible(t, IF t.kind = "column" THEN rest \cup made ELSE rest)

After(i, made, cat) ==
  IF \E t \in made : There(t, cat) /\ t.tag # "helper" THEN cat
  ELSE LET rest == cat \ Stale(i, made, cat)
       IN  (rest \ UNION {Replaced(t, rest) : t \in made}) \cup made
=============================================================================
