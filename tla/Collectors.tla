----------------------------- MODULE Collectors -----------------------------
(***************************************************************************)
(* The aggregates that collect values into a new one (spec 3.4 and 7.3):   *)
(* SORT, TOP, BUCKET in both spellings, MAP, FILTER and DISTINCT, as       *)
(* builtins/structure.rs runs them.                                        *)
(*                                                                         *)
(* A collector visits a snapshot of its source's children.  Each child is  *)
(* a cell, and the bodies it evaluates may write into cells, visited or    *)
(* not.  Spec 3.4 has it copy an element at the end of the element's       *)
(* visit.  The code leaves copies out, or makes them later, where it finds *)
(* no assignment and no application's function below the bodies, and TOP   *)
(* keeps its best rows in a heap.  A body is arbitrary: it may write, and  *)
(* its value may be any value or one of the cells themselves.              *)
(*                                                                         *)
(* `given' is a history: what each visit collected, as it then was.        *)
(***************************************************************************)
EXTENDS Integers, Sequences, FiniteSets

CONSTANT
  Calls       \* the calls that are run, each over a source of so many children

VARIABLES
  call,       \* the call that runs
  rows,       \* what the cells the snapshot names hold now
  pc,         \* "visit", "select", "finish", "project", "next", "done"
  visit,      \* the child, group or kept row the body runs for
  items,      \* what has been collected: SortItems, rows or kept rows
  groups,     \* BUCKET's groups, in order of first appearance
  heap,       \* select_top_indices' heap, as the set of its items' places
  answer,     \* what the call yields
  error,      \* the code of the error it raises, or "none"
  given       \* (history) what each visit collected, as it was at its end

vars == <<call, rows, pc, visit, items, groups, heap, answer, error, given>>

N == call.n                \* the number of children of the source
Values == call.values      \* what a child, or a body, may be
Rows == 1..N

-----------------------------------------------------------------------------
(* Values.  `kind' is "none" for NULL, a list or a record; `at' is where a  *)
(* scalar stands among those of its kind, or the number a list has as its   *)
(* first child; `spelt' tells "1" from "1.0"; `kids' is whether there are   *)
(* children; `deep' whether one level more is past the depth limit.         *)

Kind == {"none", "bool", "number", "text", "bin"}
Value == [kind: Kind, at: Nat, spelt: Nat, kids: BOOLEAN, deep: BOOLEAN]

ASSUME CallsAssumption ==
  Calls \subseteq [n: Nat, values: SUBSET Value,
                   op: {"SORT", "TOP", "BUCKET", "BUCKET_BY", "MAP", "FILTER", "DISTINCT"},
                   keyed: BOOLEAN, desc: BOOLEAN, limit: Nat,
                   body: {"reads", "calls", "writes"},
                   then: {"reads", "calls", "writes", "none"},
                   record: {"shipped", "application", "other"}]

\* DEDUPE is given no body.
ASSUME BodyAssumption == \A c \in Calls : c.op = "DISTINCT" => ~c.keyed

is_null(v) == v.kind = "none" /\ ~v.kids

\* What scalar context reads: a list's first child; NULL stands for none.
scalar_source(v) ==
  IF v.kind = "none" /\ v.kids THEN [v EXCEPT !.kind = "number", !.kids = FALSE] ELSE v

value_rank(v) ==
  CASE v.kind = "none" -> 0 [] v.kind = "bool" -> 1 [] v.kind = "number" -> 2
    [] v.kind = "text" -> 3 [] v.kind = "bin" -> 4

\* compare_values: -1, 0 or 1.  Both are scalars or NULL.
compare_values(a, b) ==
  LET ra == value_rank(a)  rb == value_rank(b) IN
  CASE ra < rb -> -1 [] ra > rb -> 1
    [] ra = rb /\ (ra = 0 \/ a.at = b.at) -> 0
    [] ra = rb /\ ra # 0 /\ a.at < b.at -> -1
    [] ra = rb /\ ra # 0 /\ a.at > b.at -> 1

\* EQL, and a hash it agrees with: unlike values may share one.
EqlByValue(a, b) == a.kind = b.kind /\ a.at = b.at    \* mutant: 1 and 1.0 are one
eql(a, b) == a = b
structural_hash(v) == IF v.kind = "none" THEN 0 ELSE v.at % 2

-----------------------------------------------------------------------------
(* A SEL value is a cell: what was collected is the cell of a child, lent,  *)
(* or a value of its own, copied or made by the body.                       *)

Lent(i) == [cell |-> i]
Own(v) == [own |-> v]

IsLent(x) == "cell" \in DOMAIN x

\* What a value is now: a write into a cell shows through a cell lent.
Now(x) == IF IsLent(x) THEN rows[x.cell] ELSE x.own

Copied(x) == Own(Now(x))

Writes(body) == body = "writes"

NeverWrites(body) == FALSE    \* mutant: a write in a key goes unseen
may_write(body) == body = "writes"
read_only_expression(body) == body = "reads"

-----------------------------------------------------------------------------
(* What a call leaves out.                                                  *)

\* TOP and BUCKET copy at the visit only if a body might write.
EagerByKey ==                 \* mutant: the projection is not asked
  IF call.op \in {"TOP", "BUCKET", "BUCKET_BY"} THEN may_write(call.body) ELSE TRUE

eager ==
  CASE call.op = "TOP" -> call.keyed /\ may_write(call.body)
    [] call.op \in {"BUCKET", "BUCKET_BY"} ->
         may_write(call.body) \/ (call.op = "BUCKET_BY" /\ may_write(call.then))
    [] OTHER -> TRUE

\* MAP keeps what a RECORD of the language's own made.
fresh_record == call.record = "shipped"

\* The optimiser's word that neither a FILTER nor the MAP after it can write.
BorrowedByOwnBody ==          \* mutant: the stage after it is not asked
  read_only_expression(call.body) /\ call.then # "none"

borrowed_filter ==
  read_only_expression(call.body) /\ call.then # "none" /\ read_only_expression(call.then)

\* Whether a copy at the depth of the collection would pass the limit.
DepthUnchecked(x) == TRUE     \* mutant: a copy left out is not checked
check_copy_depth(x) == ~Now(x).deep

\* What the visit of child i collects of it: a copy, or the cell itself.
Item(i) == IF eager THEN Copied(Lent(i)) ELSE Lent(i)

-----------------------------------------------------------------------------
Init ==
  /\ call \in Calls
  /\ rows \in [Rows -> Values]
  /\ pc = "visit"
  /\ visit = 1
  /\ items = <<>> /\ groups = <<>> /\ heap = {}
  /\ answer = <<>> /\ error = "none"
  /\ given = <<>>

\* The call runs again, over the source as it now is; any other would begin as
\* Init has it.
Again ==
  /\ pc = "done"
  /\ UNCHANGED <<call, rows>>
  /\ pc' = "visit" /\ visit' = 1
  /\ items' = <<>> /\ groups' = <<>> /\ heap' = {}
  /\ answer' = <<>> /\ error' = "none"
  /\ given' = <<>>

\* What a body may yield: any value, or any child's cell.
Yields == {Own(v) : v \in Values} \cup {Lent(i) : i \in Rows}

Body == CASE pc = "visit" -> IF call.keyed THEN call.body ELSE "none"
          [] pc \in {"project", "next"} -> call.then
          [] OTHER -> "none"

\* A body writes into a cell.
Write ==
  /\ Writes(Body)
  /\ pc = "visit" => visit <= N
  /\ \E i \in Rows, v \in Values : rows' = [rows EXCEPT ![i] = v]
  /\ UNCHANGED <<call, pc, visit, items, groups, heap, answer, error, given>>

Raise(code) ==
  /\ error' = code
  /\ pc' = "done"
  /\ UNCHANGED <<call, rows, visit, items, groups, heap, answer>>

\* A body raises.
BodyRaises ==
  /\ \/ pc = "visit" /\ visit <= N /\ call.keyed
     \/ pc \in {"project", "next"}
  /\ Raise("E_BODY")
  /\ UNCHANGED given

\* The visit of a child ends: `x' is collected, `key' is its key.
Visited(x, key) ==
  given' = Append(given, [of |-> visit, val |-> Now(x), key |-> key, was |-> Now(key)])

GoOn ==
  /\ visit' = visit + 1
  /\ UNCHANGED <<call, rows, pc, heap, answer, error>>

-----------------------------------------------------------------------------
(* SORT and TOP                                                             *)

\* Without a key an element is its own.
SortKeys == IF call.keyed THEN Yields ELSE {Lent(visit)}

CollectWithKey ==
  /\ pc = "visit" /\ visit <= N
  /\ \E key \in SortKeys :
       /\ Visited(Lent(visit), key)
       /\ IF check_copy_depth(Lent(visit))
          THEN /\ items' = Append(items, [item |-> Item(visit), key |-> key, idx |-> visit])
               /\ GoOn /\ UNCHANGED groups
          ELSE Raise("E_DEPTH")

do_sort == call.op = "SORT" /\ CollectWithKey
do_top == call.op = "TOP" /\ CollectWithKey

\* Keys are read once all have been computed: a pending reference shows what
\* was written through it.
prepare_sort_keys ==
  /\ call.op \in {"SORT", "TOP"} /\ pc = "visit" /\ visit > N
  /\ items' = [i \in DOMAIN items |-> [items[i] EXCEPT !.key = Own(scalar_source(Now(@)))]]
  /\ pc' = IF call.op = "TOP" /\ call.limit > 0 /\ call.limit <= N \div 4 THEN "select" ELSE "finish"
  /\ visit' = 1
  /\ UNCHANGED <<call, rows, groups, heap, answer, error, given>>

compare_sort_keys(a, b) ==
  LET c == compare_values(a.key.own, b.key.own)
      directed == IF call.desc THEN -c ELSE c
  IN  IF directed # 0 THEN directed < 0 ELSE a.idx < b.idx

Less(i, j) == compare_sort_keys(items[i], items[j])

\* The places of S in the order of the comparison.
Sorted(S) ==
  [p \in 1..Cardinality(S) |-> CHOOSE i \in S : Cardinality({j \in S : Less(j, i)}) = p - 1]

\* select_top_indices' loop: the heap's root is the last of the best so far.
Root == CHOOSE i \in heap : \A j \in heap : j = i \/ Less(j, i)

SelectFirst ==                 \* mutant: a better row only fills a place left
  /\ pc = "select" /\ visit <= N
  /\ heap' = IF Cardinality(heap) < call.limit THEN heap \cup {visit} ELSE heap
  /\ visit' = visit + 1
  /\ UNCHANGED <<call, rows, pc, items, groups, answer, error, given>>

select_top_indices ==
  /\ pc = "select" /\ visit <= N
  /\ heap' = CASE Cardinality(heap) < call.limit -> heap \cup {visit}
               [] Cardinality(heap) >= call.limit /\ Less(visit, Root) ->
                    (heap \ {Root}) \cup {visit}
               [] OTHER -> heap
  /\ visit' = visit + 1
  /\ UNCHANGED <<call, rows, pc, items, groups, answer, error, given>>

Least(a, b) == IF a < b THEN a ELSE b

\* The chosen, in order.
Chosen ==
  CASE pc = "select" -> Sorted(heap)
    [] pc = "finish" /\ call.op = "TOP" ->
         SubSeq(Sorted(DOMAIN items), 1, Least(call.limit, Len(items)))
    [] pc = "finish" /\ call.op = "SORT" -> Sorted(DOMAIN items)

YieldSorted ==
  /\ call.op \in {"SORT", "TOP"}
  /\ pc = "finish" \/ (pc = "select" /\ visit > N)
  /\ answer' = [p \in DOMAIN Chosen |->
                  [of |-> items[Chosen[p]].idx, val |-> Now(items[Chosen[p]].item)]]
  /\ pc' = "done"
  /\ UNCHANGED <<call, rows, visit, items, groups, heap, error, given>>

-----------------------------------------------------------------------------
(* BUCKET                                                                   *)

\* The text an index key has, for the kinds that have one.
KeyText(v) == <<v.kind, v.at, v.spelt>>
KeyError(v) ==
  CASE is_null(v) -> "E_NULL"
    [] v.kind \in {"text", "number"} -> "none"
    [] OTHER -> "E_NOT_TEXT"

\* The group a key falls in: by its text, or by hash and EQL.
InGroup(g, key) ==
  IF call.op = "BUCKET" THEN g.text = KeyText(Now(key))
  ELSE g.hash = structural_hash(Now(key)) /\ eql(Now(g.key), Now(key))

Matching(key) == {p \in DOMAIN groups : InGroup(groups[p], key)}

fn_bucket ==
  /\ call.op \in {"BUCKET", "BUCKET_BY"} /\ pc = "visit" /\ visit <= N
  /\ \E key \in Yields :
       IF call.op = "BUCKET" /\ KeyError(Now(key)) # "none"
       THEN Raise(KeyError(Now(key))) /\ UNCHANGED given
       ELSE /\ Visited(Lent(visit), key)
            /\ IF eager /\ ~check_copy_depth(Lent(visit)) THEN Raise("E_DEPTH")
               ELSE /\ LET row == [of |-> visit, item |-> Item(visit)] IN
                       groups' = IF Matching(key) # {}
                                 THEN LET p == CHOOSE p \in Matching(key) : \A q \in Matching(key) : p <= q
                                      IN  [groups EXCEPT ![p].rows = Append(@, row)]
                                 ELSE Append(groups, [key |-> key, text |-> KeyText(Now(key)),
                                                      hash |-> structural_hash(Now(key)), rows |-> <<row>>])
                    /\ GoOn /\ UNCHANGED items

Members(g) == [m \in DOMAIN g.rows |-> [of |-> g.rows[m].of, val |-> Now(g.rows[m].item)]]

\* Without a projection the deferred copies are made now.
YieldBucket ==
  /\ call.op = "BUCKET" /\ pc = "visit" /\ visit > N
  /\ IF \E p \in DOMAIN groups : \E m \in DOMAIN groups[p].rows :
          ~check_copy_depth(groups[p].rows[m].item)
     THEN Raise("E_DEPTH")
     ELSE /\ answer' = [p \in DOMAIN groups |-> [key |-> groups[p].text, rows |-> Members(groups[p])]]
          /\ pc' = "done"
          /\ UNCHANGED <<call, rows, visit, items, groups, heap, error>>
  /\ UNCHANGED given

BeginProjecting ==
  /\ call.op = "BUCKET_BY" /\ pc = "visit" /\ visit > N
  /\ pc' = "project" /\ visit' = 1
  /\ UNCHANGED <<call, rows, items, groups, heap, answer, error, given>>

\* The projection is shown a group; what it is shown stands for its result.
Project ==
  /\ pc = "project"
  /\ IF visit > Len(groups)
     THEN pc' = "done" /\ UNCHANGED <<visit, answer>>
     ELSE /\ answer' = Append(answer, [key |-> Now(groups[visit].key), rows |-> Members(groups[visit])])
          /\ visit' = visit + 1 /\ UNCHANGED pc
  /\ UNCHANGED <<call, rows, items, groups, heap, error, given>>

-----------------------------------------------------------------------------
(* MAP, FILTER and DISTINCT                                                 *)

\* A RECORD of the language builds a new container of copies.
MapYields == IF call.record = "shipped" THEN {Own(v) : v \in Values} ELSE Yields

fn_map ==
  /\ call.op = "MAP" /\ pc = "visit" /\ visit <= N
  /\ \E res \in MapYields :
       /\ Visited(res, res)
       /\ IF ~check_copy_depth(res) THEN Raise("E_DEPTH")
          ELSE /\ items' = Append(items, [of |-> visit, item |-> IF fresh_record THEN res ELSE Copied(res)])
               /\ GoOn /\ UNCHANGED groups

filter_rows ==
  /\ call.op = "FILTER" /\ pc = "visit" /\ visit <= N
  /\ \/ GoOn /\ UNCHANGED <<items, groups, given>>
     \/ /\ Visited(Lent(visit), Lent(visit))
        /\ IF ~check_copy_depth(Lent(visit)) THEN Raise("E_DEPTH")
           ELSE /\ items' = Append(items, [of |-> visit, item |-> IF borrowed_filter THEN Lent(visit)
                                                                 ELSE Copied(Lent(visit))])
                /\ GoOn /\ UNCHANGED groups

Collected == [p \in DOMAIN items |-> [of |-> items[p].of, val |-> Now(items[p].item)]]

\* The list is built; a stage that follows visits it before anyone else can.
YieldList ==
  /\ call.op \in {"MAP", "FILTER"} /\ pc = "visit" /\ visit > N
  /\ IF call.op = "FILTER" /\ call.then # "none"
     THEN pc' = "next" /\ visit' = 1 /\ UNCHANGED answer
     ELSE pc' = "done" /\ answer' = Collected /\ UNCHANGED visit
  /\ UNCHANGED <<call, rows, items, groups, heap, error, given>>

\* The stage after a FILTER reads a kept row; what it reads stands for what it
\* collects, which it copies.
NextStage ==
  /\ pc = "next"
  /\ IF visit > Len(items)
     THEN pc' = "done" /\ UNCHANGED <<visit, answer>>
     ELSE /\ answer' = Append(answer, Collected[visit])
          /\ visit' = visit + 1 /\ UNCHANGED pc
  /\ UNCHANGED <<call, rows, items, groups, heap, error, given>>

\* DEDUPE has no body: the elements kept are the source's own cells.
fn_dedupe ==
  /\ call.op = "DISTINCT" /\ pc = "visit"
  /\ IF visit > N THEN /\ pc' = "done" /\ answer' = Collected
                       /\ UNCHANGED <<visit, items, given>>
     ELSE /\ Visited(Lent(visit), Lent(visit))
          /\ items' = IF \E p \in DOMAIN items :
                            /\ structural_hash(Now(items[p].item)) = structural_hash(rows[visit])
                            /\ eql(rows[visit], Now(items[p].item))
                      THEN items ELSE Append(items, [of |-> visit, item |-> Lent(visit)])
          /\ visit' = visit + 1 /\ UNCHANGED <<pc, answer>>
  /\ UNCHANGED <<call, rows, groups, heap, error>>

Next ==
  \/ Again \/ Write \/ BodyRaises
  \/ do_sort \/ do_top \/ prepare_sort_keys \/ select_top_indices \/ YieldSorted
  \/ fn_bucket \/ YieldBucket \/ BeginProjecting \/ Project
  \/ fn_map \/ filter_rows \/ YieldList \/ NextStage \/ fn_dedupe

Spec == Init /\ [][Next]_vars


(* Properties.                                                              *)

Ended == pc = "done" /\ error = "none"

\* The key an element was given, read when all keys are there: a scalar is
\* what it was, a cell shows what was written to it (spec 3.4).
KeyOf(e) == scalar_source(Now(e.key))

\* e comes before f: by key, in the call's direction, and then by place.
Precedes(e, f) ==
  LET c == IF call.desc THEN compare_values(KeyOf(f), KeyOf(e)) ELSE compare_values(KeyOf(e), KeyOf(f))
  IN  c < 0 \/ (c = 0 /\ e.of < f.of)

\* SORT yields its elements, TOP its first `limit', in the order of their keys
\* with ties as they came in, and each as it was when its own key had been
\* computed: whatever later bodies wrote, and whether TOP kept a heap or
\* sorted, copied at once or at the end.
SortedAsCollected ==
  (Ended /\ call.op \in {"SORT", "TOP"}) =>
    /\ Len(answer) = IF call.op = "SORT" THEN N ELSE Least(call.limit, N)
    /\ \A p \in DOMAIN answer : answer[p].val = given[answer[p].of].val
    /\ \A p \in DOMAIN answer : \A i \in Rows :
         (\A q \in 1..p : answer[q].of # i) => Precedes(given[answer[p].of], given[i])

\* While TOP selects, the heap holds the best of the rows it has seen: no row
\* outside it precedes one inside.
HeapHoldsBest ==
  pc = "select" =>
    /\ Cardinality(heap) = Least(call.limit, visit - 1)
    /\ \A i \in heap, j \in (1..visit - 1) \ heap : Precedes(given[i], given[j])

\* MAP, FILTER and the stage after a FILTER yield what was collected at each
\* visit, in order, with no copy left out that a later write can tell.
ListedAsCollected ==
  (Ended /\ call.op \in {"MAP", "FILTER"}) =>
    /\ Len(answer) = Len(given)
    /\ \A p \in DOMAIN answer : answer[p].of = given[p].of /\ answer[p].val = given[p].val

\* The groups of `given' under a relation of keys, by first appearance.
Leaders(Same(_, _)) == {i \in DOMAIN given : \A j \in 1..i-1 : ~Same(given[j], given[i])}

GroupedBy(Same(_, _), shown) ==
  /\ Len(shown) = Cardinality(Leaders(Same))
  /\ \A p \in DOMAIN shown : \E i \in Leaders(Same) :
       LET members == {j \in DOMAIN given : Same(given[i], given[j])} IN
       /\ Cardinality({j \in Leaders(Same) : j <= i}) = p
       /\ {<<shown[p].rows[m].of, shown[p].rows[m].val>> : m \in DOMAIN shown[p].rows} =
            {<<given[j].of, given[j].val>> : j \in members}
       /\ \A m, n \in DOMAIN shown[p].rows : m < n => shown[p].rows[m].of < shown[p].rows[n].of

SameText(e, f) == KeyText(e.was) = KeyText(f.was)
SameKey(e, f) == eql(e.was, f.was)

\* A key that is a cell, in a call that may write, can change under its group:
\* identity is then of the cell as it is (spec 3.4), not of what was computed.
KeysStand == (\A p \in DOMAIN given : ~IsLent(given[p].key)) \/ ~eager

\* BUCKET's groups are the classes of its rows, by the text of the key or by
\* its identity, in order of first appearance, the rows in theirs; and what a
\* projection is shown are the rows as they were when grouped, whatever later
\* keys and earlier projections wrote.
GroupedAsCollected ==
  Ended =>
    /\ call.op = "BUCKET" => GroupedBy(SameText, answer)
    /\ (call.op = "BUCKET_BY" /\ KeysStand) => GroupedBy(SameKey, answer)

\* DISTINCT keeps the first of the elements that are EQL, in order, though it
\* compares only those whose hashes meet.
DistinctKeepsFirsts ==
  (Ended /\ call.op = "DISTINCT") =>
    LET firsts == {i \in Rows : \A j \in 1..i-1 : rows[j] # rows[i]} IN
    /\ {answer[p].of : p \in DOMAIN answer} = firsts
    /\ \A p, q \in DOMAIN answer : p < q => answer[p].of < answer[q].of

\* That an element is too deep to be copied is raised at its own visit (spec
\* 3.4 has a collector copy an element when it collects it): no later body runs,
\* so none hides it behind its error.  Only a BUCKET that defers its copies is
\* late: TOP and a borrowed FILTER check the depth where they leave the copy out.
DepthAtVisitOrDeferred ==
  \/ call.op = "DISTINCT"
  \/ call.op \in {"BUCKET", "BUCKET_BY"} /\ ~eager
  \/ \A p \in DOMAIN given :
       given[p].val.deep => p = Len(given) /\ error = "E_DEPTH"
=============================================================================
