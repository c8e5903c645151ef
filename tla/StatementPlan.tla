---------------------------- MODULE StatementPlan ----------------------------
(***************************************************************************)
(* How a pipeline over a relation becomes one SQL statement (sql/          *)
(* statement.rs): a SELECT that each step adds a clause to, wrapped as a   *)
(* derived table of a new SELECT when the clause would act in the wrong    *)
(* place, or refused when SQL would not give the pipeline's value.  And    *)
(* what a database answers: it returns rows in no order but an ORDER BY's, *)
(* and its arithmetic gives numbers that are equal, not alike.             *)
(*                                                                         *)
(* A database is taken to read a derived table cut by a LIMIT in the order *)
(* of its ORDER BY.  Dialects, names and rendering are left out, as are    *)
(* LINK_LEFT and groupings by several keys.                                *)
(***************************************************************************)
EXTENDS PipelineSteps

CONSTANT Kinds   \* of the columns of each relation: "num" or "text"

None == -1

Over(kinds) ==
  [kinds |-> kinds, joins |-> <<>>, filters |-> <<>>,
   keys |-> <<>>, bucket |-> "None", having |-> <<>>,
   projected |-> FALSE, shown |-> <<>>, distinct |-> FALSE,
   order |-> <<>>, limit |-> None, offset |-> None, order_dropped |-> FALSE]

\* A plan: the SELECT being made and those under it, the innermost first.
RelationalPlan(kinds) == [refused |-> FALSE, under |-> <<>>, top |-> Over(kinds)]
Refused == [refused |-> TRUE]

Limited(t) == t.limit # None \/ t.offset # None
Sorts(t) == t.order # <<>>
Groups(t) == t.keys # <<>>

-----------------------------------------------------------------------------
(* The columns a SELECT reads and those it gives.                           *)

Promoted(left, right) ==
  [f \in (DOMAIN left \cup DOMAIN right) \ (DOMAIN left \cap DOMAIN right) |->
     IF f \in DOMAIN left THEN left[f] ELSE right[f]]
Columns(t) ==
  LET upto[n \in 0..Len(t.joins)] == IF n = 0 THEN t.kinds ELSE Promoted(upto[n-1], Kinds[t.joins[n].right])
  IN  upto[Len(t.joins)]

\* A field keeps its kind, and a group's key that of the field it was made from.
output_field_type(x, t, cols) ==
  IF x.e = "field" THEN cols[x.f]
  ELSE IF x.e = "key" /\ Groups(t) /\ t.keys[1].e = "field" THEN cols[t.keys[1].f] ELSE "unknown"

OutputColumns(t, cols) ==
  IF ~t.projected THEN cols
  ELSE [f \in {t.shown[n].as : n \in DOMAIN t.shown} |->
          output_field_type(t.shown[CHOOSE n \in DOMAIN t.shown : t.shown[n].as = f].x, t, cols)]

Derived(p) ==
  [p EXCEPT !.under = Append(@, p.top),
            !.top = [Over(OutputColumns(p.top, Columns(p.top))) EXCEPT
                       !.bucket = IF p.top.bucket = "None" THEN "None" ELSE "Sealed",
                       !.order_dropped = p.top.order_dropped \/ (Sorts(p.top) /\ ~Limited(p.top))]]
ensure_derived(p, needed) == IF needed THEN Derived(p) ELSE p

plan_needs_wrap_before_map(t) == t.projected \/ Groups(t) \/ t.distinct \/ Limited(t)
plan_has_rows_above(t) == plan_needs_wrap_before_map(t) \/ Sorts(t)
RowsAreMade(t) == Limited(t) \/ (~Groups(t) /\ (t.projected \/ t.distinct))

-----------------------------------------------------------------------------
(* analyze_pipeline, a step at a time.  `open': the step is written directly *)
(* over a bare BUCKET, whose groups it sees.                                 *)

AddFilter(p, s, open) ==
  IF Groups(p.top) THEN [p EXCEPT !.top.having = Append(@, [p |-> s.p, over_groups |-> open])]
  ELSE [p EXCEPT !.top.filters = Append(@, s.p)]

Show(p, m) == [p EXCEPT !.top.projected = TRUE, !.top.shown = m]

AddBucket(p, s) ==
  Show([p EXCEPT !.top.keys = <<s.x>>, !.top.bucket = IF s.m = <<>> THEN "Open" ELSE "None"],
       IF s.m = <<>> THEN <<[as |-> s.x.f, x |-> [e |-> "key", f |-> ""]]>> ELSE s.m)

Least(a, b) == IF a = None \/ b < a THEN b ELSE a
AddTake(p, n) == [p EXCEPT !.top.limit = Least(@, n)]
AddDrop(p, n, skipped) ==
  [p EXCEPT !.top.limit = IF @ = None THEN @ ELSE @ - skipped,
            !.top.offset = (IF @ = None THEN 0 ELSE @) + skipped]

\* A later sort is the first key: sorts are stable.
AddSort(p, s, open) == [p EXCEPT !.top.order = <<[x |-> s.x, over_groups |-> open]>> \o @]

Columned(cols) == [n \in DOMAIN cols |-> [as |-> cols[n].f, x |-> [e |-> "field", f |-> cols[n].f]]]

\* A table is joined once in a SELECT, and not to itself.
Taken(p, s) ==
  \/ \E n \in DOMAIN p.top.joins : p.top.joins[n].right = s.right
  \/ s.right = "O" /\ p.under = <<>>

NoRefusal(p, s) == TRUE      \* mutant: no step minds what came before it
\* What a step may not follow.
Allowed(p, s) ==
  CASE s.op \in {"FILTER", "MAP"} -> p.top.bucket # "Sealed"
    [] s.op = "BUCKET" -> p.top.bucket = "None" /\ ~Sorts(p.top) /\ ~p.top.order_dropped
    [] s.op = "SELECT_COLS" -> \A n \in DOMAIN s.cols : s.cols[n].e = "text"
    [] s.op = "DISTINCT" -> (p.top.projected /\ ~Limited(p.top)) /\ ~Sorts(p.top)
    [] s.op \in {"SORT_BY", "TOP_BY"} ->
         ~(RowsAreMade(p.top) /\ Sorts(p.top) /\ ~Limited(p.top)) /\ ~p.top.order_dropped
    [] s.op = "LINK" -> ~p.top.order_dropped /\ ~(Sorts(p.top) /\ ~Limited(p.top))
                        /\ ~Taken(ensure_derived(p, plan_has_rows_above(p.top)), s)
    [] OTHER -> TRUE

AddStep(p, s, open) ==
  CASE s.op = "FILTER" -> AddFilter(ensure_derived(p, RowsAreMade(p.top)), s, open)
    [] s.op = "BUCKET" -> AddBucket(ensure_derived(p, plan_has_rows_above(p.top)), s)
    [] s.op = "SELECT_COLS" -> Show(ensure_derived(p, plan_needs_wrap_before_map(p.top)), Columned(s.cols))
    [] s.op = "MAP" -> IF open THEN Show([p EXCEPT !.top.bucket = "None"], s.m)
                       ELSE Show(ensure_derived(p, plan_needs_wrap_before_map(p.top)), s.m)
    [] s.op = "DISTINCT" -> [p EXCEPT !.top.distinct = TRUE]
    [] s.op = "TAKE" -> AddTake(p, s.n)
    [] s.op = "DROP" -> AddDrop(p, s.n, IF p.top.limit # None /\ p.top.limit < s.n THEN p.top.limit ELSE s.n)
    [] s.op = "SORT_BY" -> AddSort(ensure_derived(p, RowsAreMade(p.top)), s, open)
    [] s.op = "TOP_BY" -> AddTake(AddSort(ensure_derived(p, RowsAreMade(p.top)), s, open), s.n)
    [] s.op = "LINK" -> [ensure_derived(p, plan_has_rows_above(p.top)) EXCEPT !.top.joins = Append(@, s)]

Sealing(p, s) ==
  IF p.top.bucket = "Open" /\ s.op \notin {"FILTER", "MAP"} THEN [p EXCEPT !.top.bucket = "Sealed"] ELSE p

Added(p, s, open) == IF Allowed(p, s) THEN AddStep(p, s, open) ELSE Refused

Analysed(steps) ==
  LET upto[n \in 0..Len(steps)] ==
        IF n = 0 THEN RelationalPlan(Kinds["O"])
        ELSE LET p == upto[n-1]
             IN  IF p.refused THEN Refused ELSE Added(Sealing(p, steps[n]), steps[n], p.top.bucket = "Open")
  IN  upto[Len(steps)]

-----------------------------------------------------------------------------
(* identity_loss_before_grouping: from the last step back, which fields a   *)
(* grouping or a DISTINCT tells apart by their structure, and whether a     *)
(* projection computed one of them.                                         *)

Needs(all, fields) == [lost |-> FALSE, all |-> all, fields |-> fields]
Lost == [lost |-> TRUE, all |-> FALSE, fields |-> {}]
IsNeeded(d) == d.all \/ d.fields # {}

identity_projection(x) == x.e \in {"field", "key", "count", "one", "true"}
identity_inputs(xs) ==
  Needs(\E x \in xs : x.e \in {"calc", "hard"}, UNION {IF x.e = "field" THEN {x.f} ELSE {} : x \in xs})

Wanted(d, m) == {m[n].x : n \in {k \in DOMAIN m : d.all \/ m[k].as \in d.fields}}
ThroughProjection(d, m) ==
  IF ~d.all /\ ~(d.fields \subseteq {m[n].as : n \in DOMAIN m}) THEN Lost
  ELSE IF \E x \in Wanted(d, m) : ~identity_projection(x) THEN Lost
  ELSE identity_inputs(Wanted(d, m))

Projects(s) == s.op \in {"MAP", "BUCKET"} /\ s.m # <<>>
BeforeStep(d, s) ==
  IF d.lost THEN Lost
  ELSE IF s.op = "BUCKET" THEN identity_inputs({s.x})
  ELSE IF s.op = "DISTINCT" THEN Needs(TRUE, {})
  ELSE d

NothingLost(steps, all) == FALSE     \* mutant: SQL's numbers are taken for SEL's
identity_loss_before_grouping(steps, all) ==
  LET before[n \in 1..Len(steps) + 1] ==
        IF n > Len(steps) THEN Needs(all, {})
        ELSE LET d == before[n+1]
             IN  BeforeStep(IF ~d.lost /\ IsNeeded(d) /\ Projects(steps[n]) THEN ThroughProjection(d, steps[n].m)
                            ELSE d, steps[n])
  IN  before[1].lost

-----------------------------------------------------------------------------
(* compile_statement: the expressions of each SELECT, in the scope they are *)
(* written in.  A row, and a row after a projection, has no key in SQL; a    *)
(* group has one, and its size.                                             *)

OfRow(x, names) == x.e \in {"one", "true"} \/ (x.e \in {"field", "calc"} /\ x.f \in names)
OfGroup(x) == x.e \in {"one", "true", "key", "count"}
InScope(x, t, over_groups, names) == IF over_groups THEN OfGroup(x) ELSE OfRow(x, names)

Names(t, cols) == IF Groups(t) THEN {t.shown[n].as : n \in DOMAIN t.shown} ELSE DOMAIN cols

\* A group is found by the structure of its key, a DISTINCT by that of its rows.
group_key(x, cols) == x.e = "field" /\ x.f \in DOMAIN cols /\ cols[x.f] \in {"num", "text"}
DistinctColumn(x, t, cols) == output_field_type(x, t, cols) = "text"

Compiles(t, cols) ==
  /\ \A n \in DOMAIN t.filters : \A k \in DOMAIN t.filters[n] : OfRow(t.filters[n][k].x, DOMAIN cols)
  /\ \A n \in DOMAIN t.keys : group_key(t.keys[n], cols)
  /\ \A n \in DOMAIN t.shown : InScope(t.shown[n].x, t, Groups(t), DOMAIN cols)
  /\ \A n \in DOMAIN t.having : \A k \in DOMAIN t.having[n].p :
       InScope(t.having[n].p[k].x, t, t.having[n].over_groups, Names(t, cols))
  /\ \A n \in DOMAIN t.order : InScope(t.order[n].x, t, t.order[n].over_groups, Names(t, cols))
  /\ t.distinct => \A n \in DOMAIN t.shown : DistinctColumn(t.shown[n].x, t, cols)

Selects(p) == Append(p.under, p.top)
Translates(p) ==
  /\ ~p.refused
  /\ ~p.top.order_dropped
  /\ \A n \in DOMAIN Selects(p) : Compiles(Selects(p)[n], Columns(Selects(p)[n]))

Statement(steps) == IF identity_loss_before_grouping(steps, FALSE) THEN Refused ELSE Analysed(steps)

-----------------------------------------------------------------------------
(* What the database answers.                                               *)

\* Arithmetic is in the database's own numbers: 1.0 where SEL has 1.
SqlValue(x, elem) == IF x.e = "calc" THEN Number(11) ELSE Value(x, elem, 0)
SqlHolds(p, elem) == \A n \in DOMAIN p : p[n].x.e = "true" \/ Amount(SqlValue(p[n].x, elem)) > p[n].n
SqlRow(m, elem) == Row([f \in {m[n].as : n \in DOMAIN m} |-> SqlValue(m[CHOOSE n \in DOMAIN m : m[n].as = f].x, elem)])

\* Rows in no order: as they came, or turned round.
Unordered(list, turned) == IF turned THEN Reverse(list) ELSE list

\* INNER JOIN: the columns of one side only.
SqlJoined(t, rows, relations) ==
  LET upto[n \in 0..Len(t.joins)] ==
        IF n = 0 THEN rows
        ELSE Values(fn_link(Renumbered(upto[n-1]), t.joins[n].on, relations[t.joins[n].right],
                            [left |-> {}, right |-> {}]).list)
  IN  upto[Len(t.joins)]

\* Each row or group a SELECT reads, with the row it shows of it.
Shown(t, elem) == [from |-> elem, out |-> Element(elem.k, IF t.projected THEN SqlRow(t.shown, elem) ELSE elem.v)]

Where(t, rows) == SelectSeq(Renumbered(rows), LAMBDA e : \A n \in DOMAIN t.filters : SqlHolds(t.filters[n], e))
Read(t, elems) == IF Groups(t) THEN Grouped(elems, [n \in DOMAIN elems |-> SqlValue(t.keys[1], elems[n])]) ELSE elems

Seen(item, over_groups) == IF over_groups THEN item.from ELSE item.out
Having(t, items) ==
  SelectSeq(items, LAMBDA r : \A n \in DOMAIN t.having : SqlHolds(t.having[n].p, Seen(r, t.having[n].over_groups)))

SelectDistinct(t, items) ==
  IF t.distinct THEN At(items, Firsts([n \in DOMAIN items |-> items[n].out.v])) ELSE items

\* Of a row, ORDER BY sees what FROM gives; of a group, what the SELECT shows.
SortKey(t, n, item) ==
  Amount(SqlValue(t.order[n].x, IF Groups(t) THEN Seen(item, t.order[n].over_groups) ELSE item.from))
OrderBy(t, items) ==
  LET Less(a, b, n) == SortKey(t, n, items[a]) < SortKey(t, n, items[b])
      Before(a, b) ==
        \/ \E n \in DOMAIN t.order : Less(a, b, n) /\ \A m \in 1..n-1 : ~Less(a, b, m) /\ ~Less(b, a, m)
        \/ a <= b /\ \A n \in DOMAIN t.order : ~Less(a, b, n) /\ ~Less(b, a, n)
  IN  IF Sorts(t) THEN At(items, SortSeq([n \in DOMAIN items |-> n], Before)) ELSE items

LimitOf(t, items) ==
  LET from == IF t.offset = None THEN 0 ELSE t.offset
      to == IF t.limit = None THEN Len(items) ELSE from + t.limit
  IN  SubSeq(items, from + 1, IF to < Len(items) THEN to ELSE Len(items))

\* No ORDER BY reaches through a join, a group or a DISTINCT.
MixesRows(t) == t.joins # <<>> \/ Groups(t) \/ t.distinct
Mixed(t, items, turned) == IF MixesRows(t) THEN Unordered(items, turned) ELSE items

SelectRows(t, rows, relations, turned) ==
  LET read == Read(t, Where(t, SqlJoined(t, rows, relations)))
      kept == Having(t, [n \in DOMAIN read |-> Shown(t, read[n])])
      sorted == OrderBy(t, Mixed(t, SelectDistinct(t, kept), turned))
      given == LimitOf(t, sorted)
  IN  [n \in DOMAIN given |-> given[n].out.v]

\* A derived table keeps an order only if a LIMIT is beside its ORDER BY.
Handed(t, rows, turned) == IF Sorts(t) /\ ~Limited(t) THEN Unordered(rows, turned) ELSE rows

Answered(selects, relations, scanned, turned) ==
  LET upto[n \in 0..Len(selects)] ==
        IF n = 0 THEN Unordered(relations["O"], scanned)
        ELSE LET rows == SelectRows(selects[n], upto[n-1], relations, turned)
             IN  IF n = Len(selects) THEN rows ELSE Handed(selects[n], rows, turned)
  IN  upto[Len(selects)]
=============================================================================
