---------------------------- MODULE MCValidation ----------------------------
(***************************************************************************)
(* Two migrations: of three tables, two of the same name in two schemas    *)
(* and two with an index of the same name; and of the code, with a routine *)
(* an earlier translation may have left.                                   *)
(***************************************************************************)
EXTENDS Validation

MCLower == [w \in {"DBO", "dbo", "Ord", "Line", "public", "hr", "id", "qty", "ci", "ix", "ck1", "ck2", "fk",
                   "pk", "fn", "CI_AI", "ci_ai", "CI_AS", "ci_as", "CS_AI", "cs_ai", "BIN2", "bin2", "Old", "c1", "C", "rows", "srid", "tt", "get", "put", "calc", "vw", "trg", "scratch", "old", "a", "b", "c"} |->
              CASE w = "DBO" -> "dbo" [] w = "Ord" -> "ord" [] w = "Line" -> "line" [] w = "Old" -> "old"
                [] w = "CI_AI" -> "ci_ai" [] w = "CI_AS" -> "ci_as" [] w = "CS_AI" -> "cs_ai" [] w = "BIN2" -> "bin2" [] OTHER -> w]
MCDbo == <<"dbo">>
MCPublic == <<"public">>

Policy(keep) == [preserve |-> keep, schema |-> MCPublic]

MCFlags ==
  [c \in {<<"CI_AI">>, <<"CI_AS">>, <<"CS_AI">>, <<"BIN2">>, <<"Old">>, <<"c1">>} |->
     CASE c = <<"CI_AI">> -> [flags |-> {"CI", "AI"}, locale |-> FALSE]
       [] c = <<"CI_AS">> -> [flags |-> {"CI", "AS"}, locale |-> TRUE]
       [] c = <<"CS_AI">> -> [flags |-> {"CS", "AI"}, locale |-> TRUE]
       [] c = <<"BIN2">> -> [flags |-> {"BIN"}, locale |-> TRUE]
       [] c = <<"Old">> -> [flags |-> {}, locale |-> TRUE]
       [] c = <<"c1">> -> [flags |-> {}, locale |-> FALSE]]
MCProvides ==
  [ltree |-> {Obj("function", <<<<>>, <<"fn">>>>, <<>>, <<>>, NoPlace, "extension")},
   postgis |-> {Obj("function", <<<<>>, <<"fn">>>>, <<>>, <<>>, NoPlace, "extension"),
                Obj("table", <<<<>>, <<"srid">>>>, <<>>, <<>>, NoPlace, "extension")}]

Col(at, c, type, collation) == Obj("column", at, collation, <<c>>, NoPlace, type)
Ord == <<<<"DBO">>, <<"Ord">>>>
Line == <<<<"DBO">>, <<"Line">>>>
Other == <<<<"hr">>, <<"Ord">>>>
Table(at) == Obj("table", at, <<>>, <<>>, NoPlace, "none")

DataSrc ==
  {Table(Ord), Table(Line), Table(Other),
   Col(Ord, "id", "int", <<>>), Col(Ord, "b", "nvarchar", <<"CI_AI">>), Col(Line, "a", "int", <<>>),
   Col(Line, "qty", "decimal", <<>>), Col(Other, "c", "hierarchyid", <<>>),
   Obj("pk", Ord, <<>>, <<"id">>, NoPlace, "none"),
   Obj("identity", Ord, <<>>, <<"id">>, NoPlace, "none"),
   Obj("index", Ord, <<"ix">>, <<"b">>, NoPlace, "none"),
   Obj("index", Line, <<"ix">>, <<"qty">>, NoPlace, "none"),
   Obj("check", Line, <<"ck1">>, <<"qty">>, NoPlace, "low"),
   Obj("check", Line, <<"ck2">>, <<"qty">>, NoPlace, "high"),
   Obj("default", Line, <<>>, <<"qty">>, NoPlace, "none"),
   Obj("fk", Line, <<"fk">>, <<"a">>, Ord, "none")}

\* Statements that read; that have a word that writes; that write by a function; and a script.
Sql(first, statements, word, writes) ==
  [first |-> first, statements |-> statements, word |-> word, writes |-> writes]
Read == Sql("SELECT", 1, FALSE, FALSE)
Into == Sql("SELECT", 1, TRUE, TRUE)
Purge == Sql("SELECT", 1, FALSE, TRUE)
Script == Sql("WITH", 2, TRUE, TRUE)
Pair(asks, cols, where, source, target) ==
  [at |-> Ord, asks |-> asks, cols |-> cols, where |-> where, source |-> source, target |-> target]
Reply(finish, pairs) == [finish |-> finish, json |-> TRUE, pairs |-> pairs]
Replies ==
  {Reply("stop", <<Pair("rows", <<"b">>, {}, Blank, Read), Pair("rows", <<"id">>, {"b"}, Read, Read),
                   Pair("count", <<"b">>, {}, Read, Read)>>),
   Reply("stop", <<Pair("top", <<"id", "b">>, {}, Read, Read), Pair("other", <<"b">>, {"b"}, Read, Read)>>),
   Reply("stop", <<Pair("rows", <<"id">>, {}, Read, Into), Pair("rows", <<"id">>, {}, Script, Read),
                   Pair("rows", <<"b">>, {}, Read, Purge), Pair("count", <<"id">>, {"b"}, Read, Read)>>),
   Reply("length", <<Pair("rows", <<"id">>, {}, Read, Read)>>)}

DataJob ==
  [src |-> DataSrc, policy |-> Policy(FALSE), stored |-> TRUE, left |-> {}, shape |-> <<>>, mishaps |-> 1, replies |-> {},
   rows |-> [t \in Tables(DataSrc) |-> IF t.at = Other THEN 2 ELSE 4],
   scan |-> [t \in Tables(DataSrc) |-> IF t.at = Ord THEN 3 ELSE IF t.at = Other THEN 2 ELSE 4],
   huge |-> [t \in Tables(DataSrc) |-> t.at = Line]]

\* A small migration for the query pairs.
ParitySrc == {Table(Ord), Col(Ord, "id", "int", <<>>), Col(Ord, "b", "nvarchar", <<"CI_AI">>)}
ParityJob ==
  [src |-> ParitySrc, policy |-> Policy(FALSE), stored |-> TRUE, left |-> {}, shape |-> <<>>, mishaps |-> 1, replies |-> Replies,
   rows |-> [t \in Tables(ParitySrc) |-> 4], scan |-> [t \in Tables(ParitySrc) |-> 4],
   huge |-> [t \in Tables(ParitySrc) |-> FALSE]]

\* A table with a column of every type, and one of every collation.
MCTypes == DOMAIN SIMPLE \cup {"dbo.Phone"}
Wide == <<<<"hr">>, <<"rows">>>>
TypesSrc(types) ==
  {Table(Wide)} \cup {Col(Wide, type, type, <<>>) : type \in types}
    \cup {Col(Wide, c[1], "char", c) : c \in DOMAIN MCFlags}
    \cup {Obj("identity", Wide, <<>>, <<"numeric">>, NoPlace, "none")}
TypesJob(types, bound) ==
  LET src == TypesSrc(types)
  IN  [src |-> src, policy |-> Policy(TRUE), stored |-> TRUE, left |-> {}, shape |-> <<>>,
       mishaps |-> bound, replies |-> {},
       rows |-> [t \in Tables(src) |-> 1], scan |-> [t \in Tables(src) |-> 1], huge |-> [t \in Tables(src) |-> FALSE]]

Get == Obj("procedure", <<<<"DBO">>, <<"get">>>>, <<>>, <<>>, NoPlace, "rows")
Put == Obj("procedure", <<<<"DBO">>, <<"put">>>>, <<>>, <<>>, NoPlace, "hidden")
Calc == Obj("function", <<<<"hr">>, <<"calc">>>>, <<>>, <<>>, NoPlace, "none")
View == Obj("view", <<<<"DBO">>, <<"vw">>>>, <<>>, <<>>, NoPlace, "none")
Trigger == Obj("trigger", <<<<"DBO">>, <<"trg">>>>, <<>>, <<>>, Ord, "none")

CodeSrc == {Table(Ord), Col(Ord, "id", "datetime2", <<>>), Get, Put, Calc, View, Trigger}
Shape(kind, tag, helpers) == [kind |-> kind, tag |-> tag, helpers |-> helpers]
Shapes ==
  <<<<Shape("function", "set", {<<"scratch">>}), Shape("procedure", "none", {<<"scratch">>})>>,
    <<Shape("procedure", "cursor", {}), Shape("function", "set", {})>>,
    <<Shape("procedure", "none", {}), Shape("function", "set", {})>>>>
Left(o) == Obj(o.kind, <<MCPublic, o.at[2]>>, <<>>, <<>>, NoPlace, "none")

Lefts == <<{}, {Schema(MCPublic), Left(Get)}, {Schema(MCPublic), [Left(Get) EXCEPT !.kind = "function"]}>>

CodeJob(stored, shapes, left) ==
  [src |-> CodeSrc, policy |-> Policy(TRUE), stored |-> stored, left |-> left, mishaps |-> 1, replies |-> {},
   shape |-> [o \in {Get, Put, Calc} |->
      IF o = Get THEN shapes[1] ELSE IF o = Put THEN shapes[2] ELSE Shape("function", "none", {})],
   rows |-> [t \in Tables(CodeSrc) |-> 2],
   scan |-> [t \in Tables(CodeSrc) |-> 2],
   huge |-> [t \in Tables(CodeSrc) |-> FALSE]]

MCJobs == [k \in 0..21 |->
  IF k = 18 THEN DataJob
  ELSE IF k = 19 THEN TypesJob(MCTypes \ {"geometry", "geography"}, 0)
  ELSE IF k = 20 THEN TypesJob({"geometry", "numeric"}, 1)
  ELSE IF k = 21 THEN ParityJob
  ELSE CodeJob(k % 2 = 0, Shapes[((k \div 2) % 3) + 1], Lefts[(k \div 6) + 1])]

MCStrays ==
  {Obj("index", <<MCPublic, <<"ord">>>>, <<"ord", "old">>, <<"id">>, NoPlace, "none"),
   Obj("table", <<MCPublic, <<"old">>>>, <<>>, <<>>, NoPlace, "none"),
   Obj("procedure", <<MCPublic, <<"put">>>>, <<>>, <<>>, NoPlace, "none")}

\* What the proofs ask of the names of a migration is so in each of these.
ASSUME MCNamesApart == \A k \in DOMAIN MCJobs : NamesApart(MCJobs[k])
\* Most of these migrations go through and are recognised; not the one of PostGIS's types, nor
\* those that find a routine there or do not say its shape.
ASSUME MCSound == {k \in DOMAIN MCJobs : Sound(MCJobs[k])} = {0, 1, 2, 3, 18, 19, 21}
=============================================================================
