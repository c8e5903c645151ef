---------------------------- MODULE PipelineSteps ----------------------------
(***************************************************************************)
(* What the steps of a pipeline  source .> step .> ...  compute in memory  *)
(* (builtins/structure.rs): each takes a list of elements under keys to    *)
(* another, whole, or raises the first error its expressions meet.  Only   *)
(* FILTER keeps the keys of its input; every other step numbers its        *)
(* elements from 1, but for a BUCKET without projection, whose keys are    *)
(* those of its groups.                                                    *)
(*                                                                         *)
(* A number is written as n and is equal, as a number, to every other with *)
(* the same last digit: 1 and 11 stand for 1 and 1.0.  A text is equal to  *)
(* itself alone.  No field is NULL.                                        *)
(***************************************************************************)
EXTENDS Integers, Sequences, FiniteSets, SequencesExt, TLC

CONSTANTS
  FieldNames,  \* the fields rows may have, the names of joined sides included
  RightRows    \* the rows of C, which a LINK may join to; it may join O to itself

(* Values.  A row gives each name a value, or says it has no such field; the *)
(* group a bare BUCKET makes is the sequence of its rows.                   *)

Absent == [is |-> "absent"]
Number(n) == [is |-> "num", n |-> n]
Text(w) == [is |-> "text", w |-> w]
Row(fields) == [is |-> "row", at |-> fields @@ [f \in FieldNames |-> Absent]]
Group(rows) == [is |-> "group", rows |-> rows]
Error(code, place) == [is |-> "error", code |-> code, at |-> place]

Fails(v) == v.is = "error"
Amount(v) == v.n % 10
Has(row) == {f \in FieldNames : row.at[f] # Absent}

\* A list: its elements `v' under their keys `k'.
Element(k, v) == [k |-> k, v |-> v]
Renumbered(values) == [n \in DOMAIN values |-> Element(Number(n), values[n])]
Values(list) == [n \in DOMAIN list |-> list[n].v]

(* Expressions of an element and its key, _K: a field, arithmetic on one, a *)
(* call with no SQL spelling, which raises on 2; the key; the size of a     *)
(* group; a literal.                                                        *)

Reads(x) == IF x.e \in {"field", "calc", "hard"} THEN {x.f} ELSE {}

FieldOf(v, f, place) == IF v.at[f] = Absent THEN Error("E_NO_KEY", place) ELSE v.at[f]

Calculated(v) == Number(IF Amount(v) = 1 THEN 1 ELSE 11)
Called(v, place) == IF Amount(v) = 2 THEN Error("E_RANGE", place) ELSE v

Value(x, elem, place) ==
  CASE x.e = "field" -> FieldOf(elem.v, x.f, place)
    [] x.e = "calc" -> LET v == FieldOf(elem.v, x.f, place) IN IF Fails(v) THEN v ELSE Calculated(v)
    [] x.e = "hard" -> LET v == FieldOf(elem.v, x.f, place) IN IF Fails(v) THEN v ELSE Called(v, place)
    [] x.e = "key" -> elem.k
    [] x.e = "count" -> Number(Len(elem.v.rows))
    [] x.e = "one" -> Number(1)

\* A predicate is a conjunction: each conjunct asks whether `x' is more than `n',
\* or is the literal TRUE.  The first that does not hold decides.
Asked(c, elem) ==
  IF c.x.e = "true" THEN [is |-> "bool", b |-> TRUE]
  ELSE LET v == Value(c.x, elem, c.at) IN IF Fails(v) THEN v ELSE [is |-> "bool", b |-> Amount(v) > c.n]

Holds(p, elem) ==
  LET upto[n \in 0..Len(p)] ==
        IF n = 0 THEN [is |-> "bool", b |-> TRUE]
        ELSE LET before == upto[n-1] IN IF Fails(before) \/ ~before.b THEN before ELSE Asked(p[n], elem)
  IN  upto[Len(p)]

\* RECORD of a MAP: its expressions in the order they stand.
Recorded(m, elem, place) ==
  LET values == [n \in DOMAIN m |-> Value(m[n].x, elem, place)]
      failing == {n \in DOMAIN m : Fails(values[n])}
      names == {m[n].as : n \in DOMAIN m}
  IN  IF failing # {} THEN values[CHOOSE n \in failing : \A k \in failing : n <= k]
      ELSE Row([f \in names |-> values[CHOOSE n \in DOMAIN m : m[n].as = f]])

-----------------------------------------------------------------------------
(* The steps.  `said' is what a step's expression says of each element.     *)

Answer(list) == [error |-> Absent, list |-> list]
Raised(e) == [error |-> e, list |-> <<>>]
Failed(r) == r.error # Absent

SomeFail(said) == \E n \in DOMAIN said : Fails(said[n])
FirstFail(said) == said[CHOOSE n \in DOMAIN said : Fails(said[n]) /\ \A m \in 1..n-1 : ~Fails(said[m])]

Places(list) == [n \in DOMAIN list |-> n]
At(list, places) == [n \in DOMAIN places |-> list[places[n]]]

fn_filter(list, said) == Answer(At(list, SelectSeq(Places(list), LAMBDA n : said[n].b)))

fn_map(said) == Answer(Renumbered(said))

\* A row that has none of a column leaves it out.  The columns are evaluated first.
fn_select_cols(cols, list, place) ==
  LET fields == {cols[n].f : n \in DOMAIN cols} IN
  IF \E n \in DOMAIN cols : cols[n].e # "text" THEN Raised(Error("E_DIV_ZERO", place))
  ELSE Answer(Renumbered([n \in DOMAIN list |-> Row([f \in Has(list[n].v) \cap fields |-> list[n].v.at[f]])]))

\* Stable: equal numbers stay in the order they had.
Sorted(said) ==
  LET Before(a, b) == Amount(said[a]) < Amount(said[b]) \/ (Amount(said[a]) = Amount(said[b]) /\ a <= b)
  IN  SortSeq([n \in DOMAIN said |-> n], Before)

fn_sort_by(list, said) == Answer(Renumbered(Values(At(list, Sorted(said)))))

First(list, n) == Answer(Renumbered(Values(SubSeq(list, 1, IF n < Len(list) THEN n ELSE Len(list)))))
Behind(list, n) == Answer(Renumbered(Values(SubSeq(list, n + 1, Len(list)))))

fn_top_by(list, said, n) == First(fn_sort_by(list, said).list, n)

\* The first of each set of elements that are alike.
Firsts(said) == SelectSeq([n \in DOMAIN said |-> n], LAMBDA n : \A m \in 1..n-1 : said[m] # said[n])
fn_distinct(list) == Answer(Renumbered(Values(At(list, Firsts(Values(list))))))

\* Groups in the order of their first members.
Grouped(list, said) ==
  LET first == Firsts(said)
  IN  [n \in DOMAIN first |->
         Element(said[first[n]], Group(Values(At(list, SelectSeq(Places(list), LAMBDA m : said[m] = said[first[n]])))))]
fn_bucket(list, said, m, place) ==
  LET groups == Grouped(list, said)
      made == [n \in DOMAIN groups |-> Recorded(m, groups[n], place)]
  IN  IF m = <<>> THEN Answer(groups)
      ELSE IF SomeFail(made) THEN Raised(FirstFail(made)) ELSE Answer(Renumbered(made))

\* A joined row: the fields of one side only, and each named side whole.
JoinedRow(a, b, names) ==
  LET left == Has(a)
      right == Has(b)
  IN  Row([f \in ((left \cup right) \ (left \cap right)) \cup names.left \cup names.right |->
             IF f \in names.right THEN b ELSE IF f \in names.left THEN a
             ELSE IF f \in left THEN a.at[f] ELSE b.at[f]])

\* LINK(list, relation, pred) names its left side after the variable the pipeline
\* starts from, unless a LINK on the way has joined it; the form with binders names
\* both.  `own' is what the caller gives: that variable's name, and both relations.
SideNames(s, joined, own) ==
  IF s.binders THEN [left |-> {"L"}, right |-> {"R"}]
  ELSE [left |-> IF joined THEN {} ELSE {own.name}, right |-> {s.right}]

RelationRows(name, own) == own[name]

\* LINK on the equality of two fields, as numbers.
fn_link(list, on, right, names) ==
  LET met(l) == SelectSeq(right, LAMBDA r : Amount(l.at[on[1]]) = Amount(r.at[on[2]]))
      rows(l, m) == [n \in DOMAIN m |-> JoinedRow(l, m[n], names)]
  IN  Answer(Renumbered(FlattenSeq([n \in DOMAIN list |-> rows(list[n].v, met(list[n].v))])))

\* What the step asks of each element before it makes anything.
Said(s, list) ==
  CASE s.op = "FILTER" -> [n \in DOMAIN list |-> Holds(s.p, list[n])]
    [] s.op = "MAP" -> [n \in DOMAIN list |-> Recorded(s.m, list[n], s.at)]
    [] s.op \in {"SORT_BY", "TOP_BY", "BUCKET"} -> [n \in DOMAIN list |-> Value(s.x, list[n], s.at)]
    [] OTHER -> <<>>

Made(s, list, said, joined, own) ==
  CASE s.op = "FILTER" -> fn_filter(list, said)
    [] s.op = "MAP" -> fn_map(said)
    [] s.op = "SELECT_COLS" -> fn_select_cols(s.cols, list, s.at)
    [] s.op = "SORT_BY" -> fn_sort_by(list, said)
    [] s.op = "TOP_BY" -> fn_top_by(list, said, s.n)
    [] s.op = "TAKE" -> First(list, s.n)
    [] s.op = "DROP" -> Behind(list, s.n)
    [] s.op = "DISTINCT" -> fn_distinct(list)
    [] s.op = "BUCKET" -> fn_bucket(list, said, s.m, s.at)
    [] s.op = "LINK" -> fn_link(list, s.on, RelationRows(s.right, own), SideNames(s, joined, own))

Done(s, list, said, joined, own) ==
  IF SomeFail(said) THEN Raised(FirstFail(said)) ELSE Made(s, list, said, joined, own)
Step(s, list, joined, own) == Done(s, list, Said(s, list), joined, own)

\* A FILTER whose keys nothing observes may number its elements.
Unkeyed(s, r) == IF s.op = "FILTER" /\ s.unobserved THEN [r EXCEPT !.list = Renumbered(Values(@))] ELSE r

\* A database joins, groups and tells apart in any order: those of the steps named
\* by `own.turned' give their elements the other way round.
Mixes(s) == s.op \in {"LINK", "BUCKET", "DISTINCT"}
Turned(s, list) == IF s.op = "BUCKET" /\ s.m = <<>> THEN Reverse(list) ELSE Renumbered(Reverse(Values(list)))
InSomeOrder(s, r, turned) == IF turned THEN [r EXCEPT !.list = Turned(s, @)] ELSE r

Joins(steps, n) == \E m \in 1..n : steps[m].op = "LINK"

\* The steps over a list, from the variable `own'.
Run(steps, list, own) ==
  LET after[n \in 0..Len(steps)] ==
        IF n = 0 THEN Answer(list)
        ELSE LET r == after[n-1]
             IN  IF Failed(r) THEN r
                 ELSE Unkeyed(steps[n],
                        InSomeOrder(steps[n], Step(steps[n], r.list, Joins(steps, n - 1), own), n \in own.turned))
  IN  after[Len(steps)]

\* The relation O, under its own name.
Source(rows) == Renumbered(rows)
Own(rows, right) == [name |-> "O", O |-> rows, C |-> right, turned |-> {}]
=============================================================================
