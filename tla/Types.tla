-------------------------------- MODULE Types --------------------------------
(***************************************************************************)
(* What a column becomes in the target: its type                           *)
(* (backend/schema_migration/type_mapper.py), the extension that provides  *)
(* it, and its collation (collation_mapper.py, pg_collation.py), which     *)
(* keeps the way the source compares strings.                              *)
(*                                                                         *)
(* Lengths, precisions and scales are left out: the catalog the comparator *)
(* reads does not tell them.  A "..max" type has no length.                *)
(***************************************************************************)
EXTENDS Naming

CONSTANT
  Flags   \* of each collation of the source: its strength, and whether its locale is known

\* _ALL_FLAGS, those that say how strings compare and that Postgres can express.
ALL_FLAGS == {"CI", "CS", "AI", "AS", "BIN"}

ASSUME FlagsAssumption ==
  \A c \in DOMAIN Flags : Flags[c].flags \subseteq ALL_FLAGS /\ Flags[c].locale \in BOOLEAN

SIMPLE ==
  [bigint |-> "bigint", int |-> "integer", smallint |-> "smallint", tinyint |-> "smallint", bit |-> "boolean",
   float |-> "double precision", real |-> "real", money |-> "numeric", smallmoney |-> "numeric",
   decimal |-> "numeric", numeric |-> "numeric", date |-> "date", time |-> "time", datetime |-> "timestamp",
   datetime2 |-> "timestamp", smalldatetime |-> "timestamp", datetimeoffset |-> "timestamptz",
   uniqueidentifier |-> "uuid", xml |-> "xml", text |-> "text", ntext |-> "text", image |-> "bytea",
   rowversion |-> "bytea", timestamp |-> "bytea", binary |-> "bytea", varbinary |-> "bytea",
   varchar |-> "varchar", nvarchar |-> "varchar", char |-> "char", nchar |-> "char",
   varcharmax |-> "text", nvarcharmax |-> "text",
   sql_variant |-> "jsonb", hierarchyid |-> "ltree", geometry |-> "geometry", geography |-> "geography"]

\* map_type(): the types of users, and all others, become text.
MapType(type) == IF type \in DOMAIN SIMPLE THEN SIMPLE[type] ELSE "text"

\* required_extensions(), of one column.
Extension(type) ==
  CASE type \in {"geometry", "geography"} -> {"postgis"}
    [] type = "hierarchyid" -> {"ltree"}
    [] OTHER -> {}

\* How Postgres names a type: information_schema.columns.
CatalogNames ==
  [varchar |-> "character varying", char |-> "character", timestamp |-> "timestamp without time zone",
   timestamptz |-> "timestamp with time zone", time |-> "time without time zone"]
DataType(type) == IF type \in DOMAIN CatalogNames THEN CatalogNames[type] ELSE type

\* Mutant: the short names are expected.
ExpectedShort(type) == MapType(type)

PG_TYPE_ALIASES ==
  [varchar |-> "character varying", char |-> "character", timestamp |-> "timestamp without time zone",
   timestamptz |-> "timestamp with time zone", time |-> "time without time zone"]

\* _expected_pg_type()
Expected(type) ==
  LET base == MapType(type)
  IN  IF base \in DOMAIN PG_TYPE_ALIASES THEN PG_TYPE_ALIASES[base] ELSE base

\* identity_ddl(): identity columns are of integers; others have a default.
IdentityKind(type) ==
  IF MapType(type) \in {"smallint", "integer", "bigint"} THEN "identity" ELSE "default"

-----------------------------------------------------------------------------
COLLATABLE_TYPES == {"char", "nchar", "varchar", "nvarchar", "varcharmax", "nvarcharmax", "text", "ntext"}

\* SourceCollation: what the name of a collation says; and whether _LOCALE_MAP has its locale.
SourceCollation(c) == Flags[c].flags
LocaleKnown(c) == Flags[c].locale

\* parse_collation(): a name without flags has to have a known locale.
Parsed(c) == SourceCollation(c) # {} \/ LocaleKnown(c)

\* Mutant: the collations are deterministic, as Postgres makes them unless told.
StrengthOrdered(flags) == "bytes"

\* icu_locale(), and whether the collation is deterministic: then strings are equal only
\* if their bytes are.
Strength(flags) ==
  CASE flags \cap {"CI", "AI"} = {} -> "bytes"
    [] flags \cap {"CI", "AI"} = {"CI"} -> "level2"
    [] flags \cap {"CI", "AI"} = {"AI"} -> "level1, case"
    [] OTHER -> "level1"

BINARY_COLLATION == <<"C">>

\* A collation of Postgres, and the one statement that creates it, in the default schema.
PgCollation(name, strength) == Obj("collation", NoPlace, name, <<>>, NoPlace, strength)

\* target_collation(): a binary collation is built in.
TargetCollation(c) ==
  IF "BIN" \in SourceCollation(c) THEN PgCollation(BINARY_COLLATION, "bytes")
  ELSE PgCollation(Truncate([i \in DOMAIN c |-> Lower[c[i]]]), Strength(SourceCollation(c)))

\* column_collation(): none, or one.
ColumnCollation(col) ==
  IF col.name = <<>> \/ col.tag \notin COLLATABLE_TYPES THEN {}
  ELSE IF Parsed(col.name) THEN {TargetCollation(col.name)} ELSE {}

\* collect_collations() and created(): those to be created, where they are created.
NeedsCreate(cols, schema) ==
  {[c EXCEPT !.at = <<schema, c.name>>, !.name = <<>>] :
     c \in {c \in UNION {ColumnCollation(col) : col \in cols} : c.name # BINARY_COLLATION}}

\* The letters of two strings that one of the comparisons may take for equal.
Letters == [base : {"a", "b"}, upper : BOOLEAN, accent : BOOLEAN]
EqualIn(strength, x, y) ==
  /\ x.base = y.base
  /\ strength \in {"bytes", "level1, case"} => x.upper = y.upper
  /\ strength \in {"bytes", "level2"} => x.accent = y.accent
EqualInSource(flags, x, y) ==
  /\ x.base = y.base
  /\ "CI" \notin flags \/ "BIN" \in flags => x.upper = y.upper
  /\ "AI" \notin flags \/ "BIN" \in flags => x.accent = y.accent

-----------------------------------------------------------------------------
\* What an object of the source is to become: the names and types ddl_generator creates
\* and the comparator looks for.
Target(o, policy) ==
  [o EXCEPT
     !.at = MapPlace(@, policy),
     !.ref = IF @ = NoPlace THEN NoPlace ELSE MapPlace(@, policy),
     !.tag = IF o.kind = "column" THEN DataType(MapType(@)) ELSE @,
     !.name = CASE o.kind = "pk" -> PrimaryKeyName(o.at[2], policy)
                [] o.kind = "index" -> IndexName(o.name, o.at[2], policy)
                [] o.kind = "column" -> IF ColumnCollation(o) = {} THEN <<>>
                                        ELSE (CHOOSE c \in ColumnCollation(o) : TRUE).name
                [] OTHER -> MappedIdentifier(@, policy)]
=============================================================================
