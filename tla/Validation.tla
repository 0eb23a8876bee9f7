----------------------------- MODULE Validation -----------------------------
(***************************************************************************)
(* A migration and the validation of it: the plan is applied item by item  *)
(* (backend/migration/executor.py), the tables are loaded between what     *)
(* goes before and after the data, and the two sides are compared          *)
(* (backend/validation/runs.py and comparator.py) at any time later.       *)
(* Meanwhile the target may be changed by hand; the fix of an item may be  *)
(* run, and the objects scanned again without counting rows.               *)
(***************************************************************************)
EXTENDS Comparator, QueryParity

CONSTANTS
  Jobs,          \* the migrations: see ValidationInit
  Strays,        \* objects someone may add to the target
  MaxScans       \* bound: scans

IsObject(o) == o = Obj(o.kind, o.at, o.name, o.cols, o.ref, o.tag)
IsShape(s) ==
  s = [kind |-> s.kind, tag |-> s.tag, helpers |-> s.helpers] /\ s.kind \in Routines /\ IsFiniteSet(s.helpers)

\* A table of the source is known by its place, and has a number of rows; a column is
\* known by its table and its name, and is not given values by a default and an identity.
\* Every routine has a translation.
ASSUME JobsAssumption ==
  \A k \in DOMAIN Jobs :
    LET src == Jobs[k].src
    IN  /\ IsFiniteSet(src) /\ \A o \in src \cup Jobs[k].left : IsObject(o)
        /\ \A o \in src : o.kind \in {"table", "column"} \cup PostDataKinds \cup Programmable
        /\ \A o \in src : o.kind \in {"column"} \cup PostDataKinds => \E t \in Tables(src) : t.at = o.at
        /\ \A o, p \in src : o.kind = "default" /\ p.kind = "identity" => o.at # p.at \/ o.cols # p.cols
        /\ \A t \in Tables(src) : t.tag # "helper"
        /\ \A o \in src : o.kind \in Routines => o \in DOMAIN Jobs[k].shape /\ IsShape(Jobs[k].shape[o])
        /\ Jobs[k].rows \in [Tables(src) -> Nat] /\ Jobs[k].mishaps \in Nat
        /\ \A t, u \in Tables(src) : t.at = u.at => t = u
        /\ \A o, p \in AllColumns(src) :
             o.cols = <<o.cols[1]>> /\ (o.at = p.at /\ o.cols = p.cols => o = p)

ASSUME StraysAssumption == \A o \in Strays : IsObject(o)

VARIABLES
  job,       \* which migration
  cat,       \* the catalog of the target
  rows,      \* place of a table of the target -> its rows
  todo,      \* the items of the plan still to be applied
  loaded,    \* the tables were loaded
  mishaps,   \* failures and changes by hand so far
  report,    \* the validation report, a set of items
  scanned,   \* what the scans behind it found
  scans,     \* scans so far
  fixed,     \* objects whose statement was run since the last scan
  parity     \* the run of the query pairs

validationVars == <<job, cat, rows, todo, loaded, mishaps, report, scanned, scans, fixed, parity>>

NoScan == [full |-> FALSE]
J == Jobs[job]
SrcTables == Tables(J.src)
PlaceOf(t) == MapPlace(t.at, J.policy)
Made(i) == Created(i, J.src, J.shape, J.policy)

\* A migration has a source, a naming policy, the shapes its routines were translated to,
\* whether a project stores its plan, what an earlier migration left in the target, and
\* how many statements, loads and counts may fail and changes may be made by hand, and for
\* every table its rows, the row count of the source's statistics, and whether that
\* is above _EXACT_COUNT_MAX_ROWS.
ValidationInit ==
  /\ job \in DOMAIN Jobs
  /\ cat = J.left
  /\ rows = [p \in {PlaceOf(t) : t \in SrcTables} |-> 0]
  /\ todo = PlanItems(J.src, J.policy)
  /\ loaded = FALSE
  /\ mishaps = 0 /\ scans = 0
  /\ report = {} /\ scanned = NoScan /\ fixed = {} /\ parity = NoParity

\* _ordered(): by kind; within a kind the order is that of the scan.
NextItem == CHOOSE i \in todo : \A j \in todo : Rank(i.kind) <= Rank(j.kind)

\* apply_plan(): an item that fails is reported, and the next one is applied.
Apply ==
  /\ todo # {}
  /\ loaded \/ NextItem.kind \in PreData
  /\ todo' = todo \ {NextItem}
  /\ \/ /\ Accepted(NextItem, Made(NextItem), cat)
        /\ cat' = After(NextItem, Made(NextItem), cat)
        /\ UNCHANGED mishaps
     \/ /\ IF Accepted(NextItem, Made(NextItem), cat)
           THEN mishaps < J.mishaps /\ mishaps' = mishaps + 1
           ELSE UNCHANGED mishaps
        /\ UNCHANGED cat
  /\ UNCHANGED <<job, rows, loaded, report, scanned, scans, fixed, parity>>

\* The data load, which the user starts once the tables are there: the tables are
\* truncated and copied one after the other; one that fails is left empty.
Load ==
  /\ ~loaded /\ \A i \in todo : i.kind \notin PreData
  /\ \E bad \in SUBSET SrcTables :
       /\ mishaps' = mishaps + Cardinality(bad) /\ mishaps' <= J.mishaps
       /\ rows' = [p \in DOMAIN rows |->
            LET here == {t \in SrcTables \ bad : PlaceOf(t) = p /\ p \in Places(cat, "table")}
            IN  IF here = {} THEN 0 ELSE J.rows[CHOOSE t \in here : TRUE]]
  /\ loaded' = TRUE
  /\ UNCHANGED <<job, cat, todo, report, scanned, scans, fixed, parity>>

Ready == loaded /\ todo = {}

\* What a table or a column of the target takes with it.
Falls(o, objs) ==
  CASE o.kind = "table" -> {p \in objs : \/ p.kind \in {"table", "column"} \cup PostDataKinds /\ p.at = o.at
                                         \/ p.kind \in {"fk", "trigger"} /\ p.ref = o.at}
    [] o.kind = "column" -> {o} \cup {p \in At(objs, o.at) : p.kind \in PostDataKinds /\ \E i \in DOMAIN p.cols : <<p.cols[i]>> = o.cols}
    [] OTHER -> {o}

\* Someone changes the target: drops an object, adds one, alters a column, or deletes rows.
Drifted ==
  \/ \E o \in cat : o.kind \notin Shared /\ o.tag # "extension" /\ cat' = cat \ Falls(o, cat)
  \/ \E o \in Strays \ cat : cat' = cat \cup {o}
  \/ \E o \in Kind(cat, "column") :
       \E new \in {[o EXCEPT !.tag = "other"], [o EXCEPT !.name = <<>>]} \ {o} :
         cat' = (cat \ {o}) \cup {new}
Drift ==
  /\ Ready /\ scans < MaxScans
  /\ mishaps < J.mishaps /\ mishaps' = mishaps + 1
  /\ \/ Drifted /\ UNCHANGED rows
     \/ /\ \E p \in DOMAIN rows \cap Places(cat, "table") : \E n \in 0 .. rows[p] - 1 : rows' = [rows EXCEPT ![p] = n]
        /\ UNCHANGED cat
  /\ fixed' = {}
  /\ UNCHANGED <<job, todo, loaded, report, scanned, scans, parity>>

\* _stored_plan(): what the project's plan tells, or nothing when there is none.
Plan ==
  [shape |-> [o \in DOMAIN J.shape |-> IF J.stored THEN J.shape[o] ELSE [J.shape[o] EXCEPT !.tag = "none"]],
   makes |-> IF J.stored
             THEN CreatedObjects(UNION {Made(i) : i \in PlanItems(J.src, J.policy)})
             ELSE {}]

\* estimate_target_rows(): no one may have analyzed the target, or not lately.
Analyzed == {"now", "before", "never"}
Estimate(t, analyzed) ==
  CASE analyzed = "now" -> rows[PlaceOf(t)]
    [] analyzed = "before" -> (rows[PlaceOf(t)] * (Tolerance - 1)) \div Tolerance
    [] OTHER -> Unknown

\* _validate(): each side is counted on its own.  A source that cannot be counted has
\* the row count of the scan; a target that cannot has an estimate where estimates are
\* allowed.
Count(t, estimates, analyzed, noSource, noTarget) ==
  LET guess == estimates /\ J.huge[t]
      estimate == Estimate(t, analyzed)
      guessed == guess \/ (estimates /\ t \in noTarget /\ estimate # Unknown)
      target == IF guessed THEN estimate ELSE IF t \in noTarget THEN Unknown ELSE rows[PlaceOf(t)]
  IN  [source |-> IF guess \/ t \in noSource THEN J.scan[t] ELSE J.rows[t],
       target |-> target,
       approx |-> guessed,
       counted |-> guess \/ t \notin noSource \/ target # Unknown]

\* run_validation() with scope "full".
Validate ==
  /\ Ready /\ scans < MaxScans /\ scans' = scans + 1
  /\ \E estimates \in BOOLEAN, analyzed \in Analyzed, noSource, noTarget \in SUBSET SrcTables :
       /\ ~estimates => analyzed = "never"
       /\ Cardinality(noSource) + Cardinality(noTarget) <= J.mishaps
       /\ LET counts == [t \in SrcTables |-> Count(t, estimates, analyzed, noSource, noTarget)]
          IN  /\ report' = Compare(J.src, cat, counts, "full", Plan, J.policy)
              /\ scanned' = [full |-> TRUE, cat |-> cat, tables |-> cat, rows |-> rows, fixed |-> fixed,
                             whole |-> noSource = {} /\ \A t \in SrcTables : counts[t].target # Unknown,
                             exact |-> {t \in SrcTables \ noSource : ~counts[t].approx}]
  /\ fixed' = {}
  /\ UNCHANGED <<job, cat, rows, todo, loaded, mishaps, parity>>

\* run_validation() with scope "objects", laid over the last report.
Rescan ==
  /\ Ready /\ scanned.full /\ scans < MaxScans /\ scans' = scans + 1
  /\ report' = Merge(report, Compare(J.src, cat, <<>>, "objects", Plan, J.policy))
  /\ scanned' = [scanned EXCEPT !.cat = cat, !.fixed = fixed]
  /\ fixed' = {}
  /\ UNCHANGED <<job, cat, rows, todo, loaded, mishaps, parity>>

Statement(s) == Made(s.obj)

\* A DROP without CASCADE: what belongs to an extension, or has a foreign key to it, stays.
Droppable(o, objs) == o.tag # "extension" /\ (o.kind = "table" => \A p \in Kind(objs, "fk") : p.ref # o.at)

\* One statement of a fix; they are applied as one, so that one that is refused undoes
\* the others.
Step(s, state) ==
  LET dropped == Kind(At(state.cat, s.obj.at), s.obj.kind)
  IN  IF ~state.ok THEN state
      ELSE IF s.op = "drop"
      THEN [ok |-> \A o \in dropped : Droppable(o, state.cat),
            cat |-> state.cat \ UNION {Falls(o, state.cat) : o \in dropped}]
      ELSE [ok |-> Accepted(s.obj, Statement(s), state.cat),
            cat |-> After(s.obj, Statement(s), state.cat)]

\* Statements are applied by kind, as those of a plan are.
LastOf(fix) == CHOOSE s \in fix : \A r \in fix : Rank(r.obj.kind) <= Rank(s.obj.kind)
Outcome(fix) ==
  LET after[done \in SUBSET fix] ==
        IF done = {} THEN [ok |-> TRUE, cat |-> cat]
        ELSE Step(LastOf(done), after[done \ {LastOf(done)}])
  IN  after[fix]

\* The user runs the statements of an item, through /api/migration/apply.
RunFix ==
  /\ Ready /\ scans < MaxScans
  /\ \E i \in {i \in report : i.fix # {}} :
       /\ Outcome(i.fix).ok
       /\ cat' = Outcome(i.fix).cat /\ cat' # cat
       /\ fixed' = fixed \cup {s.obj : s \in {s \in i.fix : s.op = "make"}}
  /\ UNCHANGED <<job, rows, todo, loaded, mishaps, report, scanned, scans, parity>>

-----------------------------------------------------------------------------
(* The query pairs. *)

\* Column p takes the strings for equal that column o of the source does.
StrengthOf(p, objs) ==
  IF p.name \in {<<>>, BINARY_COLLATION} THEN "bytes"
  ELSE (CHOOSE c \in Kind(objs, "collation") : c.at[2] = p.name).tag
Compares(o, p, objs) ==
  \A x, y \in Letters : EqualIn(StrengthOf(p, objs), x, y) <=> EqualInSource(Flags[o.name].flags, x, y)

\* Column c of the table of a pair: in the source, with the type it was given, and in the target.
Picked(pair, c) == {o \in Columns(J.src, pair.at) : o.cols = <<c>>}
Type(pair, c) == LET o == CHOOSE o \in Picked(pair, c) : TRUE IN DataType(MapType(o.tag))
InTarget(pair, c) == {p \in Columns(cat, MapPlace(pair.at, J.policy)) : p.cols = <<c>>}
SameType(pair, c) == \A p \in InTarget(pair, c) : p.tag = Type(pair, c)

\* The filters of a pair take for equal what the source does.
Alike(pair) ==
  \A c \in pair.where : \A o \in Picked(pair, c), p \in InTarget(pair, c) :
    ColumnCollation(o) # {} => Compares(o, p, cat)

\* Of so many rows a filter may find any number.
Passing(pair, count) == IF pair.where = {} THEN {count} ELSE 0 .. count

\* What a query answers that finds so many rows of its table: it returns or counts them, or
\* returns the first ones.  A column reads as the source's values or as others.  Of another
\* query, a join, a group or a sum, the answer is one value that the rows do not determine.
Readings == [kept : BOOLEAN, form : Forms]
Sums == {0, 1}
Returned(pair, found) == IF pair.asks = "top" /\ TOP < found THEN TOP ELSE found
Answer(pair, found, reads, sum) ==
  [ok |-> TRUE, names |-> pair.cols,
   rows |-> CASE pair.asks = "count" -> << <<Cell(found, "number")>> >>
              [] pair.asks = "other" -> << <<Cell(sum, "number")>> >>
              [] OTHER -> [i \in 1 .. Returned(pair, found) |->
                             [j \in DOMAIN pair.cols |-> Cell(<<i, reads[j].kept>>, reads[j].form)]]]

SourceReading(pair) == [j \in DOMAIN pair.cols |-> [kept |-> TRUE, form |-> "number"]]
SourceAnswers(pair, found) == {Answer(pair, found, SourceReading(pair), sum) : sum \in Sums}

\* In the target a column that was not altered reads as in the source; and the filter finds
\* the same rows, if it compares as the source does and they are there.
TargetReadings(pair) ==
  {r \in [DOMAIN pair.cols -> Readings] :
     \A j \in DOMAIN pair.cols : SameType(pair, pair.cols[j]) => r[j].kept /\ r[j].form \in Plain}
TargetFinds(pair, count, found) ==
  LET there == rows[MapPlace(pair.at, J.policy)]
  IN  IF pair.where # {} /\ Alike(pair) /\ there = count THEN {found} ELSE Passing(pair, there)
TargetAnswers(pair, count, found) ==
  IF \/ MapPlace(pair.at, J.policy) \notin Places(cat, "table")
     \/ \E c \in ToSet(pair.cols) \cup pair.where : InTarget(pair, c) = {}
  THEN {}
  ELSE {Answer(pair, n, r, sum) : n \in TargetFinds(pair, count, found), r \in TargetReadings(pair), sum \in Sums}

\* /generate and /run/start: the pairs of a reply, as the user leaves them.
StartParity ==
  /\ Ready /\ scans < MaxScans /\ scans' = scans + 1
  /\ parity.status # "running"
  /\ \E reply \in J.replies :
       /\ Generate(SrcTables, reply) # <<>>
       /\ parity' = [NoParity EXCEPT !.status = "running", !.left = Generate(SrcTables, reply)]
  /\ UNCHANGED <<job, cat, rows, todo, loaded, mishaps, report, scanned, fixed>>

\* The next pair, on the source and then on the target; each may fail or time out.  What
\* an answered query has written on the target is committed.
RunPair ==
  /\ parity.status = "running" /\ parity.left # <<>>
  /\ LET q == Head(parity.left)
         count == J.rows[CHOOSE t \in SrcTables : t.at = q.at]
     IN  \E found \in Passing(q, count) :
         \E source \in SourceAnswers(q, found) \cup {NoAnswer},
            target \in TargetAnswers(q, count, found) \cup {NoAnswer} :
           /\ parity' = [parity EXCEPT !.left = Tail(@),
                           !.done = @ \cup {CompareAnswers(q, SideResult(q.source, source), SideResult(q.target, target))}]
           /\ rows' = IF SideResult(q.target, target).ok /\ q.target.writes
                      THEN [rows EXCEPT ![MapPlace(q.at, J.policy)] = 0] ELSE rows
  /\ UNCHANGED <<job, cat, todo, loaded, mishaps, report, scanned, scans, fixed>>

\* The report; or no connection, when the run began.
EndParity ==
  /\ parity.status = "running"
  /\ \/ /\ parity.left = <<>>
        /\ parity' = [parity EXCEPT !.status = "success", !.score = ParityScore(parity.done)]
     \/ parity.done = {} /\ parity' = [NoParity EXCEPT !.status = "failed"]
  /\ UNCHANGED <<job, cat, rows, todo, loaded, mishaps, report, scanned, scans, fixed>>

ValidationNext == Apply \/ Load \/ Drift \/ Validate \/ Rescan \/ RunFix \/ StartParity \/ RunPair \/ EndParity

ValidationSpec == ValidationInit /\ [][ValidationNext]_validationVars
-----------------------------------------------------------------------------
Reported(o) == \E i \in report : i.status # "matched" /\ i.id \notin {<<"extra", o.at>>}
                 /\ (i.id = <<o.kind, o.at>> \/ \E d \in i.diffs : d.obj = o /\ d.verdict # "matched")

\* Whether a routine of the source hands rows back, as far as a scan can know.
GivesRows(o) == o.tag = "rows" \/ (o.kind = "procedure" /\ J.stored /\ J.shape[o].tag = "set")

\* What the callers of a source object need, whatever the names: a key or an index on
\* those columns, a column of that type and collation, a routine that can be called.
Served(o, objs) ==
  LET t == Target(o, J.policy)
      here == At(objs, t.at)
  IN  CASE o.kind = "table" -> \E p \in here : p.kind = "table"
        [] o.kind = "column" -> \E p \in here : p.kind = "column" /\ p.cols = t.cols
                                  /\ p.tag = t.tag /\ (ColumnCollation(o) # {} => Compares(o, p, objs))
        [] o.kind \in {"pk", "index", "fk", "default"} -> \E p \in here : p.kind = o.kind /\ p.cols = t.cols
        [] o.kind = "identity" -> \E p \in here : p.kind \in {"identity", "default"} /\ p.cols = t.cols
        [] o.kind = "check" -> \E p \in here : p.kind = "check" /\ p.tag = t.tag
        [] o.kind \in Routines /\ GivesRows(o) ->
             \E p \in here : p.kind = "function" \/ (p.kind = "procedure" /\ p.tag = "cursor")
        [] OTHER -> \E p \in here : p.kind = o.kind

\* An object that the target lacked when it was scanned is in the report, itself or with
\* its table, and not as matched; whichever of the two scans looked at it.
ScannedFor(o) == IF o.kind \in {"table", "column"} THEN scanned.tables ELSE scanned.cat
ReportedIfAbsent(o) ==
  ~Served(o, ScannedFor(o)) =>
    \/ Reported(o)
    \/ \E t \in SrcTables : t.at = o.at /\ (Reported(t)
         \/ PlaceOf(t) \notin Places(scanned.cat, "table"))
AbsentIsReported == \A o \in IF scanned.full THEN J.src ELSE {} : ReportedIfAbsent(o)

\* A table is reported as matched only with the rows the source has, when the source
\* was counted and the target not estimated.
MatchedRowsAgree ==
  \A t \in IF scanned.full THEN scanned.exact ELSE {} :
    (\E i \in report : i.id = <<"table", t.at>> /\ i.status = "matched")
      => scanned.rows[PlaceOf(t)] = J.rows[t]

\* A pair that returns or counts the rows of a table is only said to match if, when it ran,
\* the target had as many as the source, or both had at least as many as its limit.  And it is said
\* to match if the target had as many, with the columns as the migration makes them, and
\* its filters compare as the source does.
ParityTells ==
  [][\A c \in parity'.done \ parity.done, t \in SrcTables :
       c.status # "error" /\ t.at = c.pair.at /\ c.pair.asks # "other" =>
         LET q == c.pair
             enough == q.asks = "top" /\ J.rows[t] >= TOP /\ rows[PlaceOf(t)] >= TOP
             same == rows[PlaceOf(t)] = J.rows[t]
         IN  /\ c.status = "match" /\ q.where = {} => same \/ enough
             /\ same /\ Alike(q) /\ (\A name \in ToSet(q.cols) : SameType(q, name)) => c.status = "match"]_validationVars

\* A constraint, an index or a foreign key whose statement was run, and which nobody
\* dropped since, is not missing in the next scan of the objects.
FixesConverge ==
  \A i \in report, o \in IF scanned.full THEN scanned.fixed ELSE {} :
    o.kind \in PostDataKinds /\ i.kind \in {"constraint", "index", "foreign_key"}
      => \A d \in i.diffs : d.obj = o => d.verdict # "missing"

\* What a document says: "Drop whichever is stale"; a fix that drops a routine does not
\* drop one that the same report matches with a source object.
FixKeepsMatched ==
  \A i, j \in report : \A s \in i.fix :
    s.op = "drop" /\ j.status = "matched" /\ j.kind \in Routines =>
      ~(s.obj.kind = j.found /\ s.obj.at = MapPlace(j.id[2], J.policy))
-----------------------------------------------------------------------------
\* The inductive invariant behind MatchedRowsAgree and ParityTells: each table of the
\* source has a number of rows in the target, and a scan is complete.
RowsInv ==
  /\ job \in DOMAIN Jobs
  /\ DOMAIN rows = {PlaceOf(t) : t \in SrcTables}
  /\ \A p \in DOMAIN rows : rows[p] \in Nat
  /\ DOMAIN parity = DOMAIN NoParity

ScanInv ==
  /\ scanned.full =>
       scanned = [full |-> TRUE, cat |-> scanned.cat, tables |-> scanned.tables, rows |-> scanned.rows,
                  fixed |-> scanned.fixed, whole |-> scanned.whole, exact |-> scanned.exact]
  /\ MatchedRowsAgree


\* The objects that are laid side by side in one rollup; and whether p is the object of the
\* target that o became, or one that only goes by its name.
Group(kind) == IF kind \in {"index", "fk"} THEN {kind} ELSE {"pk", "check", "default", "identity"}
StandsFor(p, o) ==
  /\ p.kind = o.kind \/ {p.kind, o.kind} \subseteq {"default", "identity"}
  /\ o.kind = "check" => p.tag = o.tag

\* What answers to the name of o in a catalog is what o became; a table has one column of
\* a name, and the collation named for that of o has its rules.
NameTells(o, objs) ==
  LET t == Target(o, J.policy)
      columns == {p \in Columns(objs, t.at) : p.cols = t.cols}
  IN  CASE o.kind = "column" ->
             /\ \A p, q \in columns : p = q
             /\ \A p \in columns, c \in ColumnCollation(o) : p.name = c.name => StrengthOf(p, objs) = c.tag
        [] o.kind \in PostDataKinds ->
             \A p \in At(objs, t.at) : p.kind \in Group(o.kind) /\ Key(p) = Key(t) => StandsFor(p, o)
        [] OTHER -> TRUE

NamesTell == \A o \in IF scanned.full THEN J.src ELSE {} : NameTells(o, ScannedFor(o))

\* The rollups of the tables that were there at the last scan.
RollupsScanned ==
  UNION {PostDataItems(t, J.src, Inventory(scanned.cat), J.policy) :
           t \in {t \in SrcTables : PlaceOf(t) \in Places(Inventory(scanned.cat), "table")}}

\* The inductive invariant behind AbsentIsReported and FixesConverge: the report is that of
\* what was scanned.
ReportInv ==
  scanned.full =>
    /\ \A t \in SrcTables : \E i \in report :
         /\ i.kind = "table" /\ i.id = <<"table", t.at>>
         /\ PlaceOf(t) \notin Places(scanned.tables, "table") => i.status = "missing"
         /\ PlaceOf(t) \in Places(scanned.tables, "table") =>
              \A o \in Columns(J.src, t.at) :
                LET verdict == ColumnVerdict(o, J.policy, Inventory(scanned.tables))
                IN  verdict # "matched" => i.status = "mismatch" /\ Diff(o, verdict) \in i.diffs
    /\ \A i \in report : i.kind \in {"constraint", "index", "foreign_key"} => i \in RollupsScanned
    /\ RollupsScanned \subseteq report
    /\ \A o \in J.src : o.kind \in Programmable =>
         RoutineItem(o, Inventory(scanned.cat), Plan, J.policy) \in report

\* Everything the statements of a migration can put in the target, with what an earlier
\* one left there, and what others may add.
Universe(m) ==
  m.left \cup Strays
    \cup UNION {Created(i, m.src, m.shape, m.policy) : i \in PlanItems(m.src, m.policy) \cup AllColumns(m.src)}

\* A table has one column of a name, and a column's collation is there.
WellFormed(objs) ==
  \A p \in AllColumns(objs) :
    /\ \A q \in AllColumns(objs) : p.at = q.at /\ p.cols = q.cols => p = q
    /\ p.at \in Places(objs, "table")
    /\ p.name \in {<<>>, BINARY_COLLATION} \cup {c.at[2] : c \in Kind(objs, "collation")}

\* The names of a migration tell its objects apart: what goes by the name of one is one like
\* it, and the guard of a statement is met by nothing else.
NamesApart(m) ==
  /\ WellFormed(m.left) /\ Kind(Strays, "column") = {}
  /\ \A o \in AllColumns(m.src) : \A c \in ColumnCollation(o) :
       /\ c.name \in {<<>>, BINARY_COLLATION} => c.tag = "bytes"
       /\ \A p \in Kind(Universe(m), "collation") : p.at[2] = c.name => p.tag = c.tag
  /\ \A o \in {o \in m.src : o.kind \in PostDataKinds} :
       LET t == Target(o, m.policy)
           namesake(p) == p.at = t.at /\ p.kind \in Group(o.kind) /\ Key(p) = Key(t)
       IN  \A p \in Universe(m) : /\ namesake(p) => StandsFor(p, o)
                                  /\ There(t, {p}) => namesake(p)

\* What a statement of a fix makes is an item of the plan or a column of its own; what it
\* drops is nothing a table of the source became.
Items == PlanItems(J.src, J.policy) \cup AllColumns(J.src)
Runnable(s) ==
  \/ s.op = "make" /\ s.obj \in Items
  \/ s.op = "drop" /\ s.obj.kind \in Programmable
  \/ s.op = "drop" /\ s.obj.kind = "table" /\ \A t \in SrcTables : s.obj.at # PlaceOf(t)

\* The inductive invariant behind NamesTell and FixesConverge: the catalogs that can be scanned,
\* and the statements that can be run.
Reachable(objs) ==
  WellFormed(objs) /\ \A p \in objs : IsObject(p) /\ (p.kind # "column" => p \in Universe(J))

CatInv ==
  /\ todo \subseteq Items
  /\ \A i \in report : IsFiniteSet(i.fix) /\ \A s \in i.fix : Runnable(s)
  /\ Reachable(cat)
  /\ scanned.full => Reachable(scanned.cat) /\ Reachable(scanned.tables)

\* An object whose statement was run is in the target, under the name it is looked for.
Kept(o, objs) ==
  LET t == Target(o, J.policy)
  IN  \E p \in objs : p.at = t.at /\ p.kind \in Group(o.kind) /\ Key(p) = Key(t)
                      /\ (p.kind = "identity" => o.kind = "identity")

KeptInv ==
  /\ \A o \in fixed : o.kind \in PostDataKinds => o \in J.src /\ Kept(o, cat)
  /\ \A o \in IF scanned.full THEN scanned.fixed ELSE {} :
       o.kind \in PostDataKinds => o \in J.src /\ Kept(o, scanned.cat)
-----------------------------------------------------------------------------
\* What makes a plan go through: what a statement asks for comes with the kinds before its own,
\* and nothing that another one makes is in its way.
PlanGoes(m) ==
  LET items == PlanItems(m.src, m.policy)
      made(i) == Created(i, m.src, m.shape, m.policy)
      before(i) == UNION {made(j) : j \in {j \in items : Rank(j.kind) < Rank(i.kind)}}
      others(i) == UNION {made(j) : j \in items \ {i}}
  IN  /\ m.left = {}
      /\ \A i \in items : \A t \in made(i) :
           /\ Possible(t, IF t.kind = "column" THEN before(i) \cup made(i) ELSE before(i))
           /\ ~There(t, others(i))
           /\ t.kind \in {"pk", "view"} => NameFree(t, others(i))
           /\ Replaced(t, others(i)) \subseteq made(i)
           /\ i.kind \in Routines => \A o \in others(i) : o.kind \in Routines => o.at # t.at

\* What makes it be recognised: a routine has the shape that its source or the plan tells; what
\* has the name of a constraint or an index was made for it; and no extension brings tables.
PlanTells(m) ==
  LET made(i) == Created(i, m.src, m.shape, m.policy)
      shapeTells(o) ==
        LET kind == ExpectedKind(o, m)
        IN  \/ m.shape[o].kind = kind
            \/ o.kind = "procedure" /\ kind = "function" /\ m.shape[o].kind = "procedure" /\ m.shape[o].tag = "cursor"
  IN  /\ \A o \in m.src : o.kind \in Routines => shapeTells(o) /\ m.shape[o].tag # "extension"
      /\ \A o \in m.src, i \in PlanItems(m.src, m.policy) : o.kind \in PostDataKinds =>
           \A p \in made(i) \ made(o) :
             ~(p.at = Target(o, m.policy).at /\ p.kind \in Group(o.kind) /\ Key(p) = Key(Target(o, m.policy)))
      /\ \A i \in PlanItems(m.src, m.policy) : \A p \in made(i) : p.tag = "extension" => p.kind \in Routines

\* What keeps an estimate of the rows within the tolerance.
RowsTell(m) ==
  \A t \in Tables(m.src) :
    /\ m.huge[t] => m.scan[t] = m.rows[t]
    /\ m.huge[t] \/ m.mishaps > 0 => \E k \in 0 .. m.rows[t] : m.rows[t] = k * Tolerance

Sound(m) == PlanGoes(m) /\ PlanTells(m) /\ RowsTell(m)

\* After such a migration, in which nothing failed and that nobody touched, the report is
\* clean: what is left are helpers the plan made, which it does not offer to drop, and
\* the score is 100 just when there are none.
Clean == mishaps = 0 /\ scans = 1 /\ scanned.whole /\ J.stored /\ Sound(J)
CleanIsFull ==
  scanned.full /\ Clean =>
    /\ \A i \in report : i.status = "matched" \/ (i.status = "extra" /\ i.fix = {})
    /\ MatchScore(report) = 100 <=> {i \in report : i.status = "extra"} = {}

\* The inductive invariant behind CleanIsFull: up to the first scan, and as long as nothing
\* fails, the target is what the statements that were run have made of it.
MadeBy(items) == UNION {Made(i) : i \in items}
ThePlan == PlanItems(J.src, J.policy)

CleanInv ==
  /\ mishaps \in Nat /\ scans \in Nat
  /\ scans = 0 => report = {} /\ ~scanned.full /\ parity.status # "running"
  /\ PlanGoes(J) /\ mishaps = 0 /\ scans = 0 =>
       /\ todo \subseteq ThePlan
       /\ cat = MadeBy(ThePlan \ todo)
       /\ loaded => \A t \in SrcTables : rows[PlaceOf(t)] = J.rows[t]
=============================================================================
