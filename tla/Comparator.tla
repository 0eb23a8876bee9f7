----------------------------- MODULE Comparator -----------------------------
(***************************************************************************)
(* backend/validation/comparator.py: the source and the target are lined   *)
(* up through the naming rules, and every difference becomes an item of a  *)
(* report, with the statements that would mend it where they are known.    *)
(*                                                                         *)
(* An item names what it is about (its kind and the place in the source,   *)
(* or in the target for what only the target has), the verdict on every    *)
(* object it covers, and its fix, a set of statements.                     *)
(***************************************************************************)
EXTENDS Migration, Integers, FiniteSetsExt

CONSTANT Tolerance   \* one row in so many, for estimates: 1 / _ESTIMATE_TOLERANCE

ASSUME ToleranceAssumption == Tolerance \in Nat \ {0}

Unknown == -1

\* ValidationItem, and the ObjectDiff of an object it covers.
Item(kind, at, status, found, diffs, fix) ==
  [id |-> <<kind, at>>, kind |-> kind, status |-> status, found |-> found, diffs |-> diffs, fix |-> fix]
Diff(o, verdict) == [obj |-> o, verdict |-> verdict]

Make(o) == [op |-> "make", obj |-> o]
Drop(kind, at) == [op |-> "drop", obj |-> Obj(kind, at, <<>>, <<>>, NoPlace, "none")]

At(objs, at) == {o \in objs : o.at = at}
Kind(objs, kind) == {o \in objs : o.kind = kind}
Places(objs, kind) == {o.at : o \in Kind(objs, kind)}

\* fetch_target_inventory(): routines that belong to an extension are left out.
Inventory(catalog) == {o \in catalog : o.kind \in Routines => o.tag # "extension"}

\* Schemas.
SchemaItem(s, cat) ==
  IF Schema(s) \in cat
  THEN Item("schema", <<s, <<>>>>, "matched", "schema", {}, {})
  ELSE Item("schema", <<s, <<>>>>, "missing", "", {}, {Make(Schema(s))})

\* Rows: c has the two counts, and whether the target's, or both, are estimates.
RowsDiffer(c) ==
  LET d == IF c.source > c.target THEN c.source - c.target ELSE c.target - c.source
  IN  c.target # Unknown /\ IF c.approx THEN d * Tolerance > c.source ELSE d > 0

\* Mutant: no count of the target is no difference.
RowsVerdictBlank(c) == IF RowsDiffer(c) THEN "rows differ" ELSE "matched"

RowsVerdict(c) ==
  IF c.target = Unknown /\ c.counted THEN "unverified"
  ELSE IF RowsDiffer(c) THEN "rows differ" ELSE "matched"

\* A column whose collation cannot be told makes no claim.
CollationDrifts(o, policy, cat) ==
  LET t == Target(o, policy)
  IN  ColumnCollation(o) # {} /\ \A c \in Columns(cat, t.at) : c.cols = t.cols => c.name # t.name

ColumnVerdict(o, policy, cat) ==
  LET t == Target(o, policy)
      there == {c \in Columns(cat, t.at) : c.cols = t.cols}
  IN  IF there = {} THEN "missing"
      ELSE IF \A c \in there : c.tag # Expected(o.tag) THEN "type drift"
      ELSE IF CollationDrifts(o, policy, cat) THEN "collation drift"
      ELSE "matched"

\* A table that is in both: its columns and its rows.  Columns that are missing are
\* added again, and a collation put back with the type, with the collations themselves.
TableItem(t, src, cat, count, policy) ==
  LET at == MapPlace(t.at, policy)
      cols == {Diff(o, ColumnVerdict(o, policy, cat)) : o \in Columns(src, t.at)}
      extra == {Diff(o, "extra") : o \in {o \in Columns(cat, at) :
                  \A c \in Columns(src, t.at) : c.cols # o.cols}}
      diffs == cols \cup extra \cup {Diff(t, RowsVerdict(count))}
      mend == {o \in Columns(src, t.at) : ColumnVerdict(o, policy, cat) = "missing" \/ CollationDrifts(o, policy, cat)}
      default == MapSchema(Dbo, policy)
  IN  IF at \notin Places(cat, "table")
      THEN Item("table", t.at, "missing", "", {Diff(t, "missing")}, {Make(t)})
      ELSE Item("table", t.at, IF \A d \in diffs : d.verdict = "matched" THEN "matched" ELSE "mismatch",
                "table", diffs,
                {Make(o) : o \in mend} \cup
                {Make(c) : c \in NeedsCreate(mend, default)})

\* What the objects of a rollup are looked up by: columns for defaults and identities.
Key(o) == IF o.kind \in {"default", "identity"} THEN o.cols ELSE o.name

\* The order in which _post_data_items() collects them: a later one hides an earlier one
\* of the same key.
Order(kind) == IF kind \in {"default", "identity"} THEN 3 ELSE IF kind = "check" THEN 2 ELSE 1
Latest(objs) == CHOOSE o \in objs : \A p \in objs : Order(o.kind) >= Order(p.kind)

\* Keys and index columns are compared; predicates and defaults by existence.
Verdict(o, present, policy) ==
  LET t == Target(o, policy)
      found == {p \in present : Key(p) = Key(t)}
  IN  IF found = {} THEN "missing"
      ELSE IF /\ o.kind \in {"pk", "index", "fk"}
              /\ Latest(found).kind \notin {"default", "identity"}
              /\ Latest(found).cols # t.cols
           THEN "mismatch" ELSE "matched"

\* _post_data_rollup(): the constraints, indexes or foreign keys of one table.
\* post_data_items(): an identity of the source is met by a default as well, and one
\* that only the target has is not seen.
Rollup(group, kinds, t, src, cat, policy) ==
  LET at == MapPlace(t.at, policy)
      expected == {o \in At(src, t.at) : o.kind \in kinds}
      present == {p \in At(cat, at) : p.kind \in kinds
                   /\ (p.kind = "identity" => \E o \in expected : o.kind = "identity" /\ o.cols = p.cols)}
      diffs == {Diff(o, Verdict(o, present, policy)) : o \in expected}
      keys == {Key(Target(o, policy)) : o \in expected}
      extra == {Diff(p, "extra") : p \in {p \in present : Key(p) \notin keys}}
      missing == {d.obj : d \in {d \in diffs : d.verdict = "missing"}}
      same(o) == {p \in expected : Key(Target(p, policy)) = Key(Target(o, policy))}
  IN  IF expected \cup present = {} THEN {}
      ELSE {Item(group, t.at,
              IF \A d \in diffs \cup extra : d.verdict = "matched" THEN "matched" ELSE "mismatch",
              group, diffs \cup extra, {Make(Latest(same(o))) : o \in missing})}

PostDataItems(t, src, cat, policy) ==
  Rollup("constraint", {"pk", "check", "default", "identity"}, t, src, cat, policy)
    \cup Rollup("index", {"index"}, t, src, cat, policy)
    \cup Rollup("foreign_key", {"fk"}, t, src, cat, policy)

\* returns_result_set() and returns_set(): what the source of a routine shows of the rows
\* it hands back, where the text of it does, and what its translation says.
ReturnsResultSet(o) == o.tag = "rows"
ReturnsSet(shape) == shape.tag = "set"

\* expected_kind(): a procedure that returns rows, as the source shows or the stored
\* plan's translation tells, has to be a function.
ExpectedKind(o, plan) ==
  IF o.kind = "procedure" /\ (ReturnsResultSet(o) \/ ReturnsSet(plan.shape[o])) THEN "function" ELSE o.kind

\* _routine_item()
RoutineItem(o, cat, plan, policy) ==
  LET at == MapPlace(o.at, policy)
      kind == ExpectedKind(o, plan)
      cursor == \E p \in Kind(cat, "procedure") : p.at = at /\ p.tag = "cursor"
  IN  IF at \in Places(cat, kind) THEN Item(o.kind, o.at, "matched", kind, {Diff(o, "matched")}, {})
      ELSE IF kind # o.kind /\ at \in Places(cat, "procedure")
      THEN Item(o.kind, o.at, IF cursor THEN "matched" ELSE "mismatch", "procedure",
                {Diff(o, IF cursor THEN "matched" ELSE "wrong kind")}, {})
      ELSE Item(o.kind, o.at, "missing", "", {Diff(o, "missing")}, {})

\* The function behind a trigger, shown as a matched one.
TriggerFunctionItems(objs, cat, policy) ==
  {Item("trigger-fn", o.at, "matched", "function", {}, {}) :
     o \in {o \in objs : o.kind = "trigger" /\ <<MapSchema(o.at[1], policy), TriggerFunction(o.at[2], policy)>>
                                                \in Places(cat, "function")}}

\* The target objects of a kind that stand for one of the source.
Claimed(kind, objs, items, policy) ==
  {MapPlace(o.at, policy) : o \in {o \in objs : \E i \in items : i.id = <<o.kind, o.at>> /\ i.found = kind}}
    \cup (IF kind = "function"
          THEN {<<MapSchema(o.at[1], policy), TriggerFunction(o.at[2], policy)>>
                  : o \in Kind(objs, "trigger")}
          ELSE {})

\* _helper_owner() and created_objects(): what the migration made for an object of its
\* own, by the stored plan's statements or by its name.
Helper(at, owned, plan) ==
  \/ at \in plan.makes
  \/ \E p \in owned : p[1] = at[1] /\ Len(p[2]) < Len(at[2]) /\ SubSeq(at[2], 1, Len(p[2])) = p[2]

\* extras(): what only the target has.  A routine of the other kind than the one its name
\* was matched with is a collision; a helper stays; the rest may be dropped.
Extra(kind, at, claimed, owned, plan) ==
  IF kind \in Routines /\ at \in claimed[Opposite(kind)]
  THEN Item("extra", <<<<kind>>, at[1], at[2]>>, "extra", kind, {}, {Drop(Opposite(kind), at)})
  ELSE IF Helper(at, owned, plan)
  THEN Item("extra", <<<<kind>>, at[1], at[2]>>, "extra", kind, {}, {})
  ELSE Item("extra", <<<<kind>>, at[1], at[2]>>, "extra", kind, {},
            IF kind = "trigger" THEN {} ELSE {Drop(kind, at)})

Extras(src, cat, items, scope, plan, policy) ==
  LET objs == {o \in src : o.kind \in Programmable}
      kinds == Programmable \cup (IF scope = "objects" THEN {} ELSE {"table"})
      claimed == [k \in Programmable \cup {"table"} |->
                    IF k = "table" THEN {MapPlace(t.at, policy) : t \in Tables(src)}
                    ELSE Claimed(k, objs, items, policy)]
      owned == UNION {claimed[k] : k \in Programmable}
  IN  UNION {{Extra(k, at, claimed, owned, plan) : at \in Places(cat, k) \ claimed[k]} : k \in kinds}

\* compare(): everything ("full"), or all but the tables themselves ("objects").
Compare(src, catalog, counts, scope, plan, policy) ==
  LET cat == Inventory(catalog)
      objs == {o \in src : o.kind \in Programmable}
      there == {t \in Tables(src) : MapPlace(t.at, policy) \in Places(cat, "table")}
      routines == {RoutineItem(o, cat, plan, policy) : o \in objs}
  IN  {SchemaItem(s, cat) : s \in {MapSchema(o.at[1], policy) : o \in src}}
      \cup (IF scope = "objects" THEN {} ELSE {TableItem(t, src, cat, counts[t], policy) : t \in Tables(src)})
      \cup (UNION {PostDataItems(t, src, cat, policy) : t \in there})
      \cup routines
      \cup TriggerFunctionItems(objs, cat, policy)
      \cup Extras(src, cat, routines, scope, plan, policy)

\* _rollup(): the share of the items that match, rounded down.
MatchScore(items) ==
  IF items = {} THEN 100
  ELSE (100 * Cardinality({i \in items : i.status = "matched"})) \div Cardinality(items)

IsTableItem(i) == i.kind = "table" \/ (i.kind = "extra" /\ i.found = "table")

\* Mutant: the rollups of the earlier report are kept.
MergeAll(previous, rescan) ==
  LET kept == {i \in previous : IsTableItem(i) \/ i.kind \in {"constraint", "index", "foreign_key"}}
  IN  kept \cup {i \in rescan : ~IsTableItem(i) /\ \A j \in kept : j.id # i.id}

\* merge_object_rescan(): tables carry over, and schemas the rescan does not know.
Merge(previous, rescan) ==
  {i \in rescan : ~IsTableItem(i)}
    \cup {i \in previous : IsTableItem(i)
            \/ (i.kind = "schema" /\ \A j \in rescan : j.id # i.id)}
=============================================================================
