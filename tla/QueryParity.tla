----------------------------- MODULE QueryParity -----------------------------
(***************************************************************************)
(* backend/query_parity: a model writes pairs of queries over the tables   *)
(* of the scan, one for each side, and the answers are compared.           *)
(*                                                                         *)
(* A statement is its first word, how many statements it really is,        *)
(* whether it has one of the words that write, and whether it does write,  *)
(* which a function it calls may.  An answer is the columns and the rows,  *)
(* a sequence of cells; a cell is a value and the form its driver gives it *)
(***************************************************************************)
EXTENDS Types, FiniteSetsExt

CONSTANTS
  VALUE_SAMPLE,   \* rows that are compared cell by cell
  TOP             \* rows that a pair with TOP and LIMIT is limited to

ASSUME SampleAssumption == VALUE_SAMPLE \in Nat \ {0}
ASSUME TopAssumption == TOP \in Nat

Blank == [first |-> "", statements |-> 0, word |-> FALSE, writes |-> FALSE]

\* generate_queries(): a reply that was cut at the token limit, and one that is no JSON,
\* give nothing; of the others, the pairs that have both sides.
Generate(tables, reply) ==
  IF tables = {} \/ reply.finish = "length" \/ ~reply.json THEN <<>>
  ELSE SelectSeq(reply.pairs, LAMBDA q : q.source # Blank /\ q.target # Blank)

\* is_read_only(): by its words.
IsReadOnly(s) == s.first \in {"SELECT", "WITH"} /\ s.statements = 1 /\ ~s.word

\* _run_source() and _run_target(): a statement that is refused, or that fails, has no
\* answer; an empty one has no columns.
NoAnswer == [ok |-> FALSE, names |-> <<>>, rows |-> <<>>]
SideResult(s, answer) ==
  IF ~IsReadOnly(s) \/ ~answer.ok THEN NoAnswer
  ELSE [answer EXCEPT !.names = IF Len(answer.rows) = 0 THEN <<>> ELSE @]

\* The forms of a value; the plain ones are numbers, of whatever type, strings, and strings
\* with spaces after them.
Plain == {"number", "text", "padded"}
Forms == Plain \cup {"time", "binary"}
Cell(value, form) == [value |-> value, form |-> form]

\* _normalize_value(): numbers and strings that read alike are alike; the others are known
\* by their form.
Normalize(cell) == IF cell.form \in Plain THEN Cell(cell.value, "text") ELSE cell

\* _diff_rows(): the columns in which a row of the sample differs.
Differing(source, target, i) ==
  {j \in DOMAIN source.rows[i] : Normalize(source.rows[i][j]) # Normalize(target.rows[i][j])}
MismatchColumns(source, target) ==
  LET overlap == Min({Len(source.rows), Len(target.rows), VALUE_SAMPLE})
  IN  UNION {Differing(source, target, i) : i \in 1 .. overlap}

\* QueryComparison
Comparison(pair, columns, status) == [pair |-> pair, columns |-> columns, status |-> status]

\* Mutant: the values do not count where the numbers of rows agree.
CompareCounts(pair, source, target) ==
  Comparison(pair, {}, IF ~source.ok \/ ~target.ok THEN "error"
                       ELSE IF Len(source.rows) = Len(target.rows) THEN "match" ELSE "mismatch")

\* compare(): the same number of rows, the same columns, whatever their case, and the
\* same values in the sample.
CompareAnswers(pair, source, target) ==
  LET aligned == Len(source.names) = Len(target.names)
      columns == IF aligned THEN MismatchColumns(source, target) ELSE {}
      lower(names) == [j \in DOMAIN names |-> Lower[names[j]]]
      match == /\ Len(source.rows) = Len(target.rows)
               /\ aligned /\ lower(source.names) = lower(target.names)
               /\ columns = {}
      both == source.ok /\ target.ok
  IN  Comparison(pair,
                 IF both /\ ~match THEN {source.names[j] : j \in columns} ELSE {},
                 IF ~both THEN "error" ELSE IF match THEN "match" ELSE "mismatch")

\* _build_report()
ParityScore(comparisons) ==
  IF comparisons = {} THEN 100
  ELSE (100 * Cardinality({c \in comparisons : c.status = "match"})) \div Cardinality(comparisons)

\* QueryParityRunState
NoParity == [status |-> "none", left |-> <<>>, done |-> {}, score |-> 0]
=============================================================================
