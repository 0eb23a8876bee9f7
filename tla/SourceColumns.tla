--------------------------- MODULE SourceColumns ----------------------------
(***************************************************************************)
(* How the columns of a source table are read: the conversions of          *)
(* backend/migration/source_casts.py, the subquery the loader notebook     *)
(* reads (_source_relation of etl_generator.py) and the SELECT list of the *)
(* in-app load (_source_select of data_loader.py).                         *)
(*                                                                         *)
(* A column is a record: its type, whether that is a user CLR type,        *)
(* whether SELECT * leaves it out (hidden) and whether it may be NULL.     *)
(* What is read of it is a plain reference, its value through an           *)
(* expression, or a conversion to text, named by its type.                 *)
(***************************************************************************)
SOURCE_CASTS == {"sql_variant", "hierarchyid", "geometry", "geography"}

\* cast_template()
CastTemplate(c) ==
  IF c.type \in SOURCE_CASTS THEN c.type ELSE IF c.clr THEN "ToString" ELSE "none"

\* "Only hidden columns are wrapped."
Projected(c) ==
  IF CastTemplate(c) # "none" THEN CastTemplate(c) ELSE IF c.hidden THEN "value" ELSE "reference"

\* _source_relation(): without metadata "the raw table is all we can read".
SourceRelation(columns, described) ==
  [n \in DOMAIN columns |-> IF described THEN Projected(columns[n]) ELSE "reference"]

\* _source_select()
SourceSelect(columns) ==
  [n \in DOMAIN columns |-> IF CastTemplate(columns[n]) # "none" THEN CastTemplate(columns[n])
                            ELSE "reference"]

\* Spark reads a relation with SELECT *, which leaves out a reference to a hidden column,
\* and it refuses the whole relation for a type it does not know.
Brought(columns, relation) == {n \in DOMAIN columns : relation[n] # "reference" \/ ~columns[n].hidden}
Readable(columns, relation) ==
  \A n \in Brought(columns, relation) :
    relation[n] = "reference" => CastTemplate(columns[n]) = "none"

\* full_globe_sql() and its users: geography columns that cannot hold a NULL, which is
\* what becomes of a FULLGLOBE.
NeedGlobes(columns) == {n \in DOMAIN columns : columns[n].type = "geography" /\ ~columns[n].nullable}
=============================================================================
