------------------------------ MODULE JoinRows ------------------------------
(***************************************************************************)
(* The rows of a FILTER over one join or a chain of two, as                *)
(* builtins/structure.rs and join_prefilter.rs compute them: keys are      *)
(* hashed, and conjuncts of the FILTER are asked of the rows of a side     *)
(* before they are joined.  Spec 7.4 has none of this be seen: the answer  *)
(* is that of joining every pair and filtering the joined rows.            *)
(*                                                                         *)
(* The query is  A .> LINK(B, k1) [.> FILTER(inner)] [.> LINK(C, k2)]      *)
(* .> FILTER(top),  with LINK or LINK_LEFT.  Each handler is an action, in *)
(* the order they run: FILTERs and joins plan from the top down, rows are  *)
(* built from the bottom up.  JoinHandOver models the slots of the Context *)
(* through which the plans travel; here they carry their contents.         *)
(* No name differs from another in case only, and no operand is a record.  *)
(***************************************************************************)
EXTENDS Integers, Sequences, FiniteSets, SequencesExt

CONSTANT
  Cases        \* queries, and what A, B and C may be under them: sequences of rows

VARIABLES
  query, table,
  pc,          \* the handler that runs next
  prefilter, right_null, report,   \* the slots of the Context
  taken,       \* what each join took from them when it began
  handed,      \* whether each FILTER found conjuncts handed to it
  val          \* the rows as far as they are built, with their keys; or an error

vars == <<query, table, pc, prefilter, right_null, report, taken, handed, val>>

Cap == query.cap     \* MAX_COLLECTION

-----------------------------------------------------------------------------
(* Values and rows.  A row is a function of its fields; a number has a      *)
(* spelling, for 1 and 1.0 are equal numbers and unlike texts.              *)

Null == [is |-> "null"]
RowValue(row) == [is |-> "row", at |-> row]
Fail(code, place) == [is |-> "error", code |-> code, at |-> place]

Failed(v) == v.is = "error"

\* Indexing by a literal key, and by each key of a path in turn.
Field(v, key, place) ==
  IF Failed(v) THEN v
  ELSE IF v.is = "row" /\ key \in DOMAIN v.at THEN v.at[key] ELSE Fail("E_NO_KEY", place)

Read(row, path, place) ==
  LET walk[n \in 0..Len(path)] ==
        IF n = 0 THEN RowValue(row) ELSE Field(walk[n-1], path[n], place)
  IN  walk[Len(path)]

\* What a comparison refuses of one operand, or the operand.
Coerced(v, numeric, place) ==
  CASE Failed(v) -> v
    [] v.is = "null" -> Fail("E_NULL", place)
    [] numeric /\ v.is = "text" -> Fail("E_NOT_NUM", place)
    [] OTHER -> v

SameNumber(a, b) == a.n = b.n
SameText(a, b) == a.s = b.s
Equal(a, b, numeric) == IF numeric THEN SameNumber(a, b) ELSE SameText(a, b)

(* A conjunct: a comparison of two operands, each a path from the element   *)
(* or a literal; IS_NULL of a path; or a test of the element's key, _K.     *)

Operand(o, row, place) == IF o.path = <<>> THEN o.lit ELSE Read(row, o.path, place)

Compared(c, row) ==
  LET a == Operand(c.args[1], row, c.id)
      b == Operand(c.args[2], row, c.id)
      numeric == c.op = "num"
      first == IF Failed(a) THEN a ELSE IF Failed(b) THEN b
               ELSE IF Failed(Coerced(a, numeric, c.id)) THEN Coerced(a, numeric, c.id)
               ELSE Coerced(b, numeric, c.id)
  IN  IF Failed(first) THEN first ELSE [is |-> "bool", b |-> Equal(a, b, numeric)]

Asked(c, row, key) ==
  CASE c.op = "key" -> [is |-> "bool", b |-> key = c.n]
    [] c.op = "is_null" ->
         LET v == Read(row, c.args[1].path, c.id)
         IN  IF Failed(v) THEN v ELSE [is |-> "bool", b |-> v = Null]
    [] OTHER -> Compared(c, row)

\* AND of conjuncts: the first that is not TRUE decides.
AskedAll(cs, row, key) ==
  LET yes == [is |-> "bool", b |-> TRUE]
      upto[n \in 0..Len(cs)] ==
        IF n = 0 THEN yes
        ELSE LET before == upto[n-1] IN IF before = yes THEN Asked(cs[n], row, key) ELSE before
  IN  upto[Len(cs)]

-----------------------------------------------------------------------------
(* The joins.                                                               *)

Joins == DOMAIN query.joins
J(i) == query.joins[i]

\* The names a side is bound under, without and with the positional one.
LeftName == <<{"A"}, {}>>
RightName == <<{"B"}, {"C"}>>
LeftBinders(i) == LeftName[i] \cup {"_1"}
RightBinders(i) == RightName[i] \cup {"_2"}
RightTable(i) == IF i = 1 THEN table.B ELSE table.C

\* An element of a named relation is bound with the name as a key of its own.
Aliased(row, names) ==
  [k \in DOMAIN row \cup names |-> IF k \in DOMAIN row THEN row[k] ELSE RowValue(row)]

RightRows(i) == [n \in DOMAIN RightTable(i) |-> Aliased(RightTable(i)[n], RightName[i])]

make_null_record(i) ==
  [k \in IF RightRows(i) = <<>> THEN RightName[i] ELSE DOMAIN RightRows(i)[1] |-> Null]

is_left_nested(v) == v.is = "row" /\ DOMAIN v.at # {}

\* make_joined_row: `b' is the right row, or the record that stands for none.
make_joined_row(a, b, i, matched) ==
  LET nested == {k \in DOMAIN a : is_left_nested(a[k])}
      kept == (DOMAIN a \ nested) \ DOMAIN b
      promoted == IF matched THEN {k \in DOMAIN b \ DOMAIN a : b[k].is \in {"num", "text"}} ELSE {}
  IN  [k \in nested \cup LeftBinders(i) \cup RightBinders(i) \cup kept \cup promoted |->
         CASE k \in RightBinders(i) -> RowValue(b)
           [] k \in LeftBinders(i) -> RowValue(a)
           [] k \in DOMAIN a \ (LeftBinders(i) \cup RightBinders(i)) -> a[k]
           [] OTHER -> b[k]]

\* canonical_join_key: keys are the same when the comparison says so.
RawKey(v, numeric) ==           \* mutant: numbers are hashed as they are spelt
  CASE v.is = "null" -> [is |-> "none"]
    [] numeric /\ v.is = "text" -> [is |-> "bad"]
    [] OTHER -> [is |-> "key", k |-> v.s]
canonical_join_key(v, numeric) ==
  CASE v.is = "null" -> [is |-> "none"]
    [] numeric /\ v.is = "text" -> [is |-> "bad"]
    [] OTHER -> [is |-> "key", k |-> IF numeric THEN v.n ELSE v.s]

LeftPlace(i) == <<"left", i>>
RightPlace(i) == <<"right", i>>

\* A LINK's predicate is its left key = its right key; `swapped' when the right
\* one is written first.
RightKeys(i) ==
  [n \in DOMAIN RightRows(i) |-> Read(RightRows(i)[n], J(i).right, RightPlace(i))]

\* JoinFacts: whether some right keys are not NULL, whether the comparison refuses
\* some of those, and whether it refuses the first.
Facts(keys) ==
  LET live == {n \in DOMAIN keys : keys[n].is # "none"}
      bad == {n \in live : keys[n].is = "bad"}
  IN  [live |-> live # {}, bad |-> bad # {},
       live_bad |-> live # {} /\ (CHOOSE n \in live : \A m \in live : n <= m) \in bad]

LeftOnly(i, key, facts) ==      \* mutant: only the left operand is coerced
  IF key.is = "bad" THEN Fail("E_NOT_NUM", LeftPlace(i)) ELSE Null

\* What a left row's pairs would raise, before any is made.
check_join_pair(i, key, facts) ==
  CASE key.is = "none" \/ ~facts.live -> Null
    [] key.is = "bad" /\ facts.live ->
         IF J(i).swapped /\ facts.live_bad THEN Fail("E_NOT_NUM", RightPlace(i))
         ELSE Fail("E_NOT_NUM", LeftPlace(i))
    [] OTHER -> IF facts.bad THEN Fail("E_NOT_NUM", RightPlace(i)) ELSE Null

-----------------------------------------------------------------------------
(* Conjuncts asked early: what may be asked of which rows.                  *)

Fields(c) == {c.args[n].path[1] : n \in {m \in DOMAIN c.args : c.args[m].path # <<>>}}
field_only(c) == c.op \in {"num", "text"} /\ Fields(c) # {}
has_total(c) ==
  /\ c.op \in {"num", "text"}
  /\ \A n \in DOMAIN c.args :
       IF c.args[n].path = <<>> THEN c.op = "num" => c.args[n].lit.is = "num"
       ELSE Len(c.args[n].path) = 1

\* JoinSideFacts of the rows of a side.
side_facts(rows, names, binders, nullable) ==
  [rows |-> rows, names |-> names, nullable |-> nullable,
   keys |-> binders \cup UNION {DOMAIN rows[n] : n \in DOMAIN rows},
   first |-> IF rows = <<>> THEN {} ELSE DOMAIN rows[1]]

RightSide(i) == side_facts(RightTable(i), RightName[i], RightBinders(i), J(i).outer)

join_side_total(side, name, numeric) ==
  /\ name \in side.first /\ ~side.nullable
  /\ \A n \in DOMAIN side.rows :
       name \in DOMAIN side.rows[n] /\ side.rows[n][name].is \in (IF numeric THEN {"num"} ELSE {"num", "text"})

join_side_present(side, name) ==
  side.rows # <<>> /\ \A n \in DOMAIN side.rows : name \in DOMAIN side.rows[n]

join_side_any(side, name) ==
  /\ name \in side.first /\ ~side.nullable
  /\ \A n \in DOMAIN side.rows :
       /\ name \in DOMAIN side.rows[n]
       /\ side.rows[n][name] # Null /\ ~is_left_nested(side.rows[n][name])

\* The sides, of those known, that carry a name at all.
Owners(sides, name) == {s \in DOMAIN sides : name \in sides[s].keys}

\* Every bare field of the conjunct is carried by one side, everywhere and with
\* the kind the comparison takes.
join_totality(c, sides) ==
  \A f \in Fields(c) :
    \E s \in DOMAIN sides : Owners(sides, f) = {s} /\ join_side_total(sides[s], f, c.op = "num")

AnyOwner(path, sides) ==        \* mutant: a field of two sides is taken for the first's
  \E s \in Owners(sides, path[1]) : join_side_any(sides[s], path[1])
OneOwner(path, sides) ==
  \E s \in DOMAIN sides : Owners(sides, path[1]) = {s} /\ join_side_any(sides[s], path[1])

\* The key of a join above can be read of every row this join might drop.
join_keys_safe(keys, left, right) ==
  \A path \in keys :
    IF Len(path) = 1 THEN OneOwner(path, <<left, right>>)
    ELSE CASE path[1] \in left.names -> join_side_present(left, path[2])
           [] path[1] \in right.names \ left.names -> join_side_present(right, path[2])
           [] OTHER -> \A n \in DOMAIN left.rows :
                         ~Failed(Read(left.rows[n], path, <<>>))

\* The conjuncts of all stages in the order they are asked, each with the number
\* of joins between its FILTER and this join.
AskedInOrder(stages) ==
  FlattenSeq([s \in DOMAIN stages |->
    [n \in DOMAIN stages[s].conjuncts |->
       [c |-> stages[s].conjuncts[n], above |-> stages[s].above]]])

AboveKeys(sides, above) == UNION {sides[s].keys : s \in 1..above}

\* join_stage_walk, up to the first conjunct that is not to be asked here and
\* might raise. `left', `right' and `total' are the places of the conjuncts that
\* can be asked of a left row, of a right one, or never raise; the answer says of
\* each conjunct passed which side it is for.
PassOver(c, sides) == TRUE      \* mutant: a conjunct left for later is taken to be total
Passed(c, sides) == has_total(c) /\ join_totality(c, sides)

Walk(asked, left, right, total) ==
  LET kind(n) == CASE field_only(asked[n].c) /\ n \in left -> "left"
                   [] field_only(asked[n].c) /\ n \in right \ left -> "right"
                   [] n \in total -> "pass"
                   [] OTHER -> "stop"
      places == {n \in DOMAIN asked : \A m \in 1..n : kind(m) # "stop"}
  IN  [n \in 1..Cardinality(places) |-> [c |-> asked[n].c, above |-> asked[n].above, kind |-> kind(n)]]

\* join_read_self: a read through the side's own name reads the row itself.
join_read_self(c, names) ==
  [c EXCEPT !.args = [n \in DOMAIN @ |->
     IF @[n].path # <<>> /\ @[n].path[1] \in names /\ Len(@[n].path) > 1
     THEN [@[n] EXCEPT !.path = Tail(@)] ELSE @[n]]]

-----------------------------------------------------------------------------
(* link_body.                                                               *)

None == [is |-> "none"]
Answer(rows, keys) == [error |-> Null, rows |-> rows, keys |-> keys]
Raised(e) == [error |-> e, rows |-> <<>>, keys |-> <<>>]
NoRows == Answer(<<>>, <<>>)

Verdict(cs, row) ==
  LET said == AskedAll(cs, row, 0)
  IN  IF Failed(said) THEN "error" ELSE IF said.b THEN "keep" ELSE "drop"

\* The conjuncts handed down that the join asks early, each with its side.
EarlyAsked(i, pf, facts, rs, listed) ==
  LET Left(x) == Fields(x.c) \cap (rs.keys \cup AboveKeys(pf.above, x.above)) = {}
      \* A right read is the right element's unless a join above rebinds it.
      Right(x) == /\ ~J(i).outer
                  /\ Fields(x.c) \subseteq (RightName[i] \cup (IF x.above = 0 THEN {"_2"} ELSE {}))
                  /\ Fields(x.c) \cap AboveKeys(pf.above, x.above) = {}
      Total(x) == Passed(x.c, <<facts, rs>> \o SubSeq(pf.above, 1, x.above))
      walk == Walk(listed, {n \in DOMAIN listed : Left(listed[n])},
                   {n \in DOMAIN listed : Right(listed[n])}, {n \in DOMAIN listed : Total(listed[n])})
  IN  SelectSeq(walk, LAMBDA x : x.kind # "pass")

\* The tests of left rows: a read through a name the rows have no field of reads
\* the row itself.
LeftTests(i, facts, xs) ==
  LET Self(c) == IF Fields(c) \cap (LeftBinders(i) \ facts.first) # {}
                 THEN join_read_self(c, LeftBinders(i)) ELSE c
      ls == SelectSeq(xs, LAMBDA x : x.kind = "left")
  IN  [n \in DOMAIN ls |-> Self(ls[n].c)]

RightTests(i, xs) ==
  LET rs == SelectSeq(xs, LAMBDA x : x.kind = "right")
  IN  [n \in DOMAIN rs |-> join_read_self(rs[n].c, RightBinders(i))]

\* What the right rows that have a key say of the tests of their side.
RightSaid(right, rows, keys) ==
  [n \in {m \in DOMAIN rows : keys[m].is = "key"} |-> Verdict(right, rows[n])]

BeforeRight(xs) ==
  CHOOSE n \in 0..Len(xs) : /\ \A m \in 1..n : xs[m].kind = "left"
                            /\ n = Len(xs) \/ xs[n+1].kind = "right"

\* What the join has decided before it looks at its left rows: `left', the tests
\* for them; `rejected', the right rows dropped; `applied', the conjuncts that the
\* FILTERs need not ask again.  After a right row's error the left tests behind
\* a right one are not asked.
EarlyOf(i, facts, asked, todo, said) ==
  LET errored == \E n \in DOMAIN said : said[n] = "error"
  IN  [left |-> LeftTests(i, facts, IF errored THEN SubSeq(todo, 1, BeforeRight(todo)) ELSE todo),
       rejecting |-> \E n \in DOMAIN todo : todo[n].kind = "right",
       rejected |-> {n \in DOMAIN said : said[n] = "drop"},
       errored |-> errored,
       applied |-> {asked[n].c.id : n \in DOMAIN asked}]

\* Those a join below has applied, without an error, are not asked again.
EarlyTodo(i, facts, asked, done, rows, keys) ==
  LET todo == SelectSeq(asked, LAMBDA x : x.c.id \notin done)
  IN  EarlyOf(i, facts, asked, todo, RightSaid(RightTests(i, todo), rows, keys))

Early(i, facts, pf, below, rows, keys) ==
  LET safe == pf # None /\ join_keys_safe(pf.keys, facts, RightSide(i))
  IN  EarlyTodo(i, facts,
                IF safe THEN EarlyAsked(i, pf, facts, RightSide(i), AskedInOrder(pf.stages)) ELSE <<>>,
                IF below # None /\ ~below.errored THEN below.applied ELSE {},
                rows, keys)

\* right_null_rejects: under a FILTER that opens with IS_NULL of a right member's
\* field, a LINK_LEFT need not build the rows of right rows that have it.
NullRejected(i, rn) ==
  {n \in DOMAIN RightTable(i) :
     rn.field \in DOMAIN RightRows(i)[n] /\ RightRows(i)[n][rn.field] # Null}
NullTest(i, pf, rn) ==
  /\ rn # None /\ pf = None /\ J(i).outer
  /\ rn.member \in RightBinders(i)

DropUnread(i, row, ff, key, facts) == Null    \* mutant: a dropped row's key is not looked at
FastDrop(i, row, ff, key, facts) == check_join_pair(i, key, facts)

\* The rows as written, built or not, against the collection limit.
LimitBuilt(logical, position, count) == FALSE   \* mutant: only rows that are built count
LimitCrossed(logical, position, count) == logical /\ position - 1 + count > Cap

DroppedBelow(below) == below # None /\ below.dropped

\* How the rows of a keyed join are built.  `k.facts' and `k.keys' are those of the
\* right rows, `k.rows'; rows a FILTER may drop are counted where a key is observed.
JoinPlan(i, pf, rn, early, rows, keys) ==
  LET logical == NullTest(i, pf, rn)
      rejecting == logical \/ early.rejecting
      deep == IF logical THEN rn.deep ELSE pf # None /\ pf.deep
  IN  [early |-> early, logical |-> logical, rejecting |-> rejecting,
       rejected |-> IF logical THEN NullRejected(i, rn) ELSE early.rejected,
       numbered |-> (early.left # <<>> \/ rejecting) /\ ~deep,
       fast |-> early.left # <<>> /\ deep /\ Len(J(i).left) = 1,
       facts |-> Facts(keys), rows |-> rows, keys |-> keys, none |-> make_null_record(i)]

Matches(k, key) == SelectSeq([n \in DOMAIN k.keys |-> n], LAMBDA n : key.is = "key" /\ k.keys[n] = key)

TooLong(i, s) == [s EXCEPT !.error = Fail("E_RANGE", <<"link", i>>)]

\* The row is dropped: its joined rows are counted, not built.
Dropped(k, s, count) ==
  [s EXCEPT !.dropped = TRUE, !.position = IF k.numbered THEN @ + count ELSE @]

Append1(s, row) ==
  [s EXCEPT !.out = Append(@, [row |-> row, key |-> s.position]), !.position = @ + 1]

\* One joined row, built or (its right row rejected) only counted.
Build(i, k, s, row, n, skip) ==
  IF skip /\ n \in k.rejected THEN [s EXCEPT !.dropped = TRUE, !.position = @ + 1]
  ELSE IF ~k.logical /\ (IF k.numbered THEN s.position ELSE Len(s.out) + 1) > Cap THEN TooLong(i, s)
  ELSE Append1(s, make_joined_row(row, k.rows[n], i, TRUE))

BuildAll(i, k, s, row, ns, skip) ==
  LET built[m \in 0..Len(ns)] ==
        IF m = 0 THEN s
        ELSE LET before == built[m-1]
             IN  IF Failed(before.error) THEN before ELSE Build(i, k, before, row, ns[m], skip)
  IN  IF LimitCrossed(k.logical, s.position, Len(ns)) THEN TooLong(i, s) ELSE built[Len(ns)]

Unmatched(i, k, s, row) ==
  IF ~J(i).outer THEN s
  ELSE IF (IF k.numbered \/ k.logical THEN s.position ELSE Len(s.out) + 1) > Cap THEN TooLong(i, s)
  ELSE Append1(s, make_joined_row(row, k.none, i, FALSE))

Joined(i, k, s, row, ns, said) ==
  CASE said = "drop" -> Dropped(k, s, IF ns # <<>> THEN Len(ns) ELSE IF J(i).outer THEN 1 ELSE 0)
    [] said # "drop" /\ ns # <<>> -> BuildAll(i, k, s, row, ns, k.rejecting /\ said = "keep")
    [] OTHER -> Unmatched(i, k, s, row)

Noted(s, said) == [s EXCEPT !.errored = @ \/ said = "error"]

\* One left row, `value' its key as read.  Where the key is a field it has, it may
\* be dropped before the key is computed; it raises what the key would have.
LeftRow(i, k, s, row, value, said) ==
  LET key == canonical_join_key(value, J(i).numeric)
      pair == check_join_pair(i, key, k.facts)
      unread == FastDrop(i, row, J(i).left, key, k.facts)
  IN  CASE k.fast /\ ~Failed(value) /\ said = "drop" ->
             IF Failed(unread) THEN [s EXCEPT !.error = unread] ELSE [s EXCEPT !.dropped = TRUE]
        [] Failed(value) -> [s EXCEPT !.error = value]
        [] ~Failed(value) /\ Failed(pair) -> [s EXCEPT !.error = pair]
        [] OTHER -> Joined(i, k, Noted(s, said), row, Matches(k, key), said)

BuiltRows(i, k, left) ==
  LET after[n \in 0..Len(left)] ==
        IF n = 0 THEN [error |-> Null, out |-> <<>>, position |-> 1,
                       dropped |-> FALSE, errored |-> k.early.errored]
        ELSE LET s == after[n-1]
                 row == Aliased(left[n], LeftName[i])
             IN  IF Failed(s.error) THEN s
                 ELSE LeftRow(i, k, s, row, Read(row, J(i).left, LeftPlace(i)), Verdict(k.early.left, row))
  IN  after[Len(left)]

\* The rows, under their places as written if some were dropped on the way.
Handed(k, pf, below, end) ==
  LET gaps == k.numbered /\ end.dropped
  IN  IF Failed(end.error) THEN [val |-> Raised(end.error), report |-> None]
      ELSE [val |-> Answer([n \in DOMAIN end.out |-> end.out[n].row],
                           [n \in DOMAIN end.out |-> IF gaps THEN end.out[n].key ELSE n]),
            report |-> IF pf = None THEN None
                       ELSE [applied |-> k.early.applied, errored |-> end.errored,
                             dropped |-> end.dropped \/ DroppedBelow(below)]]

KeyedBy(i, left, pf, below, k) == Handed(k, pf, below, BuiltRows(i, k, left))

FirstFailure(values) ==
  values[CHOOSE n \in DOMAIN values : Failed(values[n]) /\ \A m \in 1..n-1 : ~Failed(values[m])]
SomeFailed(values) == \E n \in DOMAIN values : Failed(values[n])

\* The rows of a keyed join: the right keys are computed first.
Keyed(i, left, pf, below, rn, rows, read) ==
  LET facts == side_facts(left, LeftName[i], LeftBinders(i), FALSE)
      keys == [n \in DOMAIN rows |-> canonical_join_key(read[n], J(i).numeric)]
  IN  IF SomeFailed(read) THEN [val |-> Raised(FirstFailure(read)), report |-> None]
      ELSE KeyedBy(i, left, pf, below,
                   JoinPlan(i, pf, rn, Early(i, facts, pf, below, rows, keys), rows, keys))

\* With no right rows no key is computed and every pair is asked: there is none.
Unpaired(i, left) ==
  IF Len(left) > Cap THEN Raised(Fail("E_RANGE", <<"link", i>>))
  ELSE Answer([n \in DOMAIN left |-> make_joined_row(Aliased(left[n], LeftName[i]), make_null_record(i), i, FALSE)],
              [n \in DOMAIN left |-> n])

UnpairedReport(answer, pf, below) ==
  [val |-> answer,
   report |-> IF pf = None \/ Failed(answer.error) THEN None
              ELSE [applied |-> {}, errored |-> FALSE, dropped |-> DroppedBelow(below)]]

LinkRows(i, left, pf, below, rn) ==
  CASE left = <<>> \/ (RightTable(i) = <<>> /\ ~J(i).outer) -> [val |-> NoRows, report |-> None]
    [] left # <<>> /\ RightTable(i) # <<>> -> Keyed(i, left, pf, below, rn, RightRows(i), RightKeys(i))
    [] OTHER -> UnpairedReport(Unpaired(i, left), pf, below)

-----------------------------------------------------------------------------
(* As written: every pair is asked (spec 7.4), and every conjunct of every  *)
(* joined row.                                                              *)

\* What a pair says: the right keys are computed first, the left one once for
\* each left row, and a NULL meets nothing.
ByKey(i, a, b) ==
  LET numeric == J(i).numeric
      ca == Coerced(a, numeric, LeftPlace(i))
      cb == Coerced(b, numeric, RightPlace(i))
      refused == IF J(i).swapped THEN <<cb, ca>> ELSE <<ca, cb>>
  IN  IF a = Null \/ b = Null THEN [is |-> "bool", b |-> FALSE]
      ELSE IF Failed(refused[1]) THEN refused[1] ELSE IF Failed(refused[2]) THEN refused[2]
      ELSE [is |-> "bool", b |-> Equal(a, b, numeric)]

\* What one left row comes to, given what its pairs say.
WrittenRow(i, s, row, key, says, right) ==
  LET met == SelectSeq([m \in DOMAIN right |-> m], LAMBDA m : says[m].b)
      made == IF met = <<>> /\ J(i).outer THEN <<make_joined_row(row, make_null_record(i), i, FALSE)>>
              ELSE [m \in DOMAIN met |-> make_joined_row(row, right[met[m]], i, TRUE)]
  IN  IF Failed(key) THEN Raised(key)
      ELSE IF SomeFailed(says) THEN Raised(FirstFailure(says))
      ELSE IF Len(s.rows) + Len(made) > Cap THEN Raised(Fail("E_RANGE", <<"link", i>>))
      ELSE Answer(s.rows \o made, <<>>)

WrittenRows(i, left, right, read) ==
  LET says(key) == [m \in DOMAIN right |-> ByKey(i, key, read[m])]
      built[n \in 0..Len(left)] ==
        IF n = 0 THEN Answer(<<>>, <<>>)
        ELSE LET s == built[n-1]
                 row == Aliased(left[n], LeftName[i])
                 key == Read(row, J(i).left, LeftPlace(i))
             IN  IF Failed(s.error) THEN s ELSE WrittenRow(i, s, row, key, says(key), right)
  IN  built[Len(left)]

Numbered(answer) == [answer EXCEPT !.keys = [n \in DOMAIN answer.rows |-> n]]

WrittenPairs(i, left, right, read) ==
  IF SomeFailed(read) THEN Raised(FirstFailure(read)) ELSE Numbered(WrittenRows(i, left, right, read))

WrittenJoin(i, left) ==
  CASE left = <<>> \/ (RightTable(i) = <<>> /\ ~J(i).outer) -> NoRows
    [] left # <<>> /\ RightTable(i) = <<>> /\ J(i).outer -> Unpaired(i, left)
    [] OTHER -> WrittenPairs(i, left, RightRows(i), RightKeys(i))

\* FILTER: the rows whose predicate is TRUE, under the keys they had.
FilteredBy(answer, said) ==
  LET kept == SelectSeq([n \in DOMAIN said |-> n], LAMBDA n : said[n].b)
  IN  IF Failed(answer.error) THEN answer
      ELSE IF SomeFailed(said) THEN Raised(FirstFailure(said))
      ELSE Answer([m \in DOMAIN kept |-> answer.rows[kept[m]]], [m \in DOMAIN kept |-> answer.keys[kept[m]]])

Filtered(answer, cs) ==
  FilteredBy(answer, [n \in DOMAIN answer.rows |-> AskedAll(cs, answer.rows[n], answer.keys[n])])

InnerFilter == query.inner # <<>>

\* The left side of the second join, as written.
WrittenBelow ==
  IF InnerFilter THEN Filtered(WrittenJoin(1, table.A), query.inner) ELSE WrittenJoin(1, table.A)

WrittenAbove(below) ==
  IF Len(query.joins) = 1 \/ Failed(below.error) THEN below ELSE WrittenJoin(2, below.rows)

Written == Filtered(WrittenAbove(WrittenBelow), query.top)

-----------------------------------------------------------------------------
(* The handlers.                                                            *)

Conjuncts(f) == IF f = "top" THEN query.top ELSE query.inner

NeverObserved(f) == TRUE        \* mutant: whatever the step after reads
\* opt_keys_renumbered_by: a LINK reads no key of its source.
KeysUnobserved(f) == f = "inner" \/ query.unobserved

BelowTop == Len(query.joins)
JoinBelow(f) == IF f = "top" THEN BelowTop ELSE 1

filter_plan(f) ==
  LET own == Conjuncts(f)
      blocked == ~field_only(own[1]) /\ ~has_total(own[1])
      stages == IF blocked THEN <<>>
                ELSE <<[conjuncts |-> own, above |-> 0]>> \o (IF prefilter # None THEN prefilter.stages ELSE <<>>)
      deep == /\ prefilter # None \/ KeysUnobserved(f)
              /\ \A n \in DOMAIN own : own[n].op # "key"
      null_test == own[1].op = "is_null" /\ Len(own[1].args[1].path) = 2
  IN  /\ prefilter' = IF stages = <<>> THEN None
                      ELSE [stages |-> stages, deep |-> deep,
                            above |-> IF prefilter # None THEN prefilter.above ELSE <<>>,
                            keys |-> IF prefilter # None THEN prefilter.keys ELSE {}]
      /\ right_null' = IF stages = <<>> /\ prefilter = None /\ J(JoinBelow(f)).outer /\ null_test
                       THEN [member |-> own[1].args[1].path[1], field |-> own[1].args[1].path[2], deep |-> deep]
                       ELSE None
      /\ handed' = [handed EXCEPT ![f] = prefilter # None]

PlanTop ==
  /\ pc = "plan_top" /\ filter_plan("top")
  /\ pc' = IF Len(query.joins) = 2 THEN "head" ELSE "link_first"
  /\ UNCHANGED <<query, table, report, taken, val>>

\* How many of a stage's conjuncts may still be asked below the second join.
HandedOn(sides, stage) ==
  LET listed == AskedInOrder(<<stage>>)
      free == {n \in DOMAIN listed : Fields(listed[n].c) \cap sides[1].keys = {}}
      totals == {n \in DOMAIN listed : Passed(listed[n].c, sides)}
  IN  Len(Walk(listed, free, {}, totals))

\* link_head and link_hand_down of the second join: it takes what is meant for it,
\* reads its right source and hands down what the rows below can still be asked.
link_head ==
  /\ pc = "head"
  /\ taken' = [taken EXCEPT ![2] = [pf |-> prefilter, rn |-> right_null]]
  /\ right_null' = None
  /\ IF prefilter = None \/ ~prefilter.deep THEN prefilter' = None
     ELSE LET stage == prefilter.stages[1]
              n == HandedOn(<<RightSide(2)>>, stage)
          IN  prefilter' = IF n = 0 THEN None
                           ELSE [stages |-> <<[conjuncts |-> SubSeq(stage.conjuncts, 1, n), above |-> 1]>>,
                                 deep |-> TRUE, above |-> <<RightSide(2)>>, keys |-> {J(2).left}]
  /\ pc' = IF InnerFilter THEN "plan_inner" ELSE "link_first"
  /\ UNCHANGED <<query, table, report, handed, val>>

PlanInner ==
  /\ pc = "plan_inner" /\ filter_plan("inner")
  /\ pc' = "link_first"
  /\ UNCHANGED <<query, table, report, taken, val>>

LinkEnds(done) == val' = done.val /\ report' = done.report

\* The first join takes what lies in the Context when it begins.
link_first ==
  /\ pc = "link_first"
  /\ LinkEnds(LinkRows(1, table.A, prefilter, None, right_null))
  /\ taken' = [taken EXCEPT ![1] = [pf |-> prefilter, rn |-> right_null]]
  /\ prefilter' = None /\ right_null' = None
  /\ pc' = IF Failed(val'.error) THEN "done"
           ELSE IF BelowTop = 1 THEN "filter_top" ELSE IF InnerFilter THEN "filter_inner" ELSE "link_second"
  /\ UNCHANGED <<query, table, handed>>

\* Drops below that left the second join no rows: the left side is read again, as
\* written, before it is known that the right keys need not be computed.
LinkOver(left, below) ==
  IF Failed(left.error) THEN val' = left /\ report' = None
  ELSE LinkEnds(LinkRows(2, left.rows, taken[2].pf, below, taken[2].rn))

link_second ==
  /\ pc = "link_second"
  /\ LET again == report # None /\ report.dropped /\ val.rows = <<>>
     IN  LinkOver(IF again THEN WrittenBelow ELSE val, IF again THEN None ELSE report)
  /\ pc' = IF Failed(val'.error) THEN "done" ELSE "filter_top"
  /\ UNCHANGED <<query, table, prefilter, right_null, taken, handed>>

\* The conjuncts the join applied are asked again only if it kept a row on an error.
filter_rows(f) ==
  LET own == Conjuncts(f)
      trusted == report # None /\ ~report.errored
      rest == IF trusted THEN SelectSeq(own, LAMBDA c : c.id \notin report.applied) ELSE own
  IN  /\ val' = Filtered(val, rest)
      /\ report' = IF handed[f] THEN report ELSE None

FilterInner ==
  /\ pc = "filter_inner" /\ filter_rows("inner")
  /\ pc' = IF Failed(val'.error) THEN "done" ELSE "link_second"
  /\ UNCHANGED <<query, table, prefilter, right_null, taken, handed>>

FilterTop ==
  /\ pc = "filter_top" /\ filter_rows("top")
  /\ pc' = "done"
  /\ UNCHANGED <<query, table, prefilter, right_null, taken, handed>>

Nothing == [pf |-> None, rn |-> None]

Init ==
  /\ \E case \in Cases : query \in case.queries /\ table \in case.tables
  /\ pc = "plan_top"
  /\ prefilter = None /\ right_null = None /\ report = None
  /\ taken = <<Nothing, Nothing>>
  /\ handed = [f \in {"top", "inner"} |-> FALSE]
  /\ val = NoRows

\* The same expression, evaluated again in the same Context.
Again ==
  /\ pc = "done" /\ pc' = "plan_top"
  /\ taken' = <<Nothing, Nothing>> /\ handed' = [f \in {"top", "inner"} |-> FALSE] /\ val' = NoRows
  /\ UNCHANGED <<query, table, prefilter, right_null, report>>

Next == Again \/ PlanTop \/ link_head \/ PlanInner \/ link_first \/ FilterInner \/ link_second \/ FilterTop

Spec == Init /\ [][Next]_vars

-----------------------------------------------------------------------------
(* Properties.                                                              *)

SameAnswer(written) ==
  /\ val.error = written.error
  /\ val.rows = written.rows
  /\ ~query.unobserved => val.keys = written.keys

\* Spec 7.4: the answer is that of joining the rows as written and asking the
\* whole predicate of each, or the error that raises first; where something may
\* observe them, its keys too.
FusedAsWritten == pc = "done" => SameAnswer(Written)

StandIn(whole) ==
  \A n \in DOMAIN val.rows : /\ val.keys[n] \in DOMAIN whole
                            /\ val.rows[n] = whole[val.keys[n]]

\* Under a FILTER that reads _K, or whose keys something may observe, the rows a
\* join hands up stand under the places they would have had, had it dropped none.
PlacesStand ==
  (pc = "filter_top" /\ (~query.unobserved \/ \E n \in DOMAIN query.top : query.top[n].op = "key")) =>
    StandIn(WrittenJoin(BelowTop, IF BelowTop = 1 THEN table.A ELSE WrittenBelow.rows).rows)
=============================================================================
