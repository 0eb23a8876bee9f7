------------------------------- MODULE Naming -------------------------------
(***************************************************************************)
(* How a source object is named in the target                              *)
(* (backend/schema_migration/naming.py).                                   *)
(*                                                                         *)
(* A name is the sequence of its words, so that joining two names with an  *)
(* underscore is concatenation, and different names can become the same    *)
(* one, as they can in the code.  An object is a record: its kind, where   *)
(* it is (schema and table, or schema and its own name), its own name      *)
(* within the table, the columns it is made of, the table it refers to,    *)
(* and a tag for the rest (a column's type, a predicate, the shape of a    *)
(* routine).  The name of a column is that of its collation; the column    *)
(* itself, whose name is never mapped, is in its columns.                  *)
(***************************************************************************)
EXTENDS Naturals, Sequences, FiniteSets, SequencesExt

CONSTANTS
  Lower,           \* the lower-case form of every word
  Dbo, Public,     \* names of the two default schemas
  MAX_IDENTIFIER   \* in words

ASSUME IdentifierAssumption == MAX_IDENTIFIER \in Nat \ {0}

NoPlace == <<<<>>, <<>>>>

Obj(kind, at, name, cols, ref, tag) ==
  [kind |-> kind, at |-> at, name |-> name, cols |-> cols, ref |-> ref, tag |-> tag]

\* A policy is the project's target_schema and identifier_case.
MapObject(n, policy) ==
  IF policy.preserve THEN n ELSE [i \in DOMAIN n |-> Lower[n[i]]]

\* map_schema(): dbo, however it is written, is the project's schema.
MapSchema(s, policy) ==
  IF s = <<>> \/ [i \in DOMAIN s |-> Lower[s[i]]] = Dbo
  THEN MapObject(policy.schema, policy)
  ELSE MapObject(s, policy)

\* truncate_identifier() and mapped_identifier()
Truncate(n) == SubSeq(n, 1, IF Len(n) < MAX_IDENTIFIER THEN Len(n) ELSE MAX_IDENTIFIER)
MappedIdentifier(n, policy) == Truncate(MapObject(n, policy))

\* trigger_function_name(): <trigger>_fn, not truncated.
TriggerFunction(n, policy) == Append(MapObject(n, policy), "fn")

PrimaryKeyName(table, policy) == MappedIdentifier(<<"pk">> \o table, policy)

IndexName(index, table, policy) == MappedIdentifier(table \o index, policy)

MapPlace(at, policy) == <<MapSchema(at[1], policy), MapObject(at[2], policy)>>
=============================================================================
