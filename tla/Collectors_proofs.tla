-------------------------- MODULE Collectors_proofs --------------------------
(***************************************************************************)
(* Proofs about Collectors: for whatever calls, sources of any size, any   *)
(* values and bodies that write into any cell, each of the six properties  *)
(* the run `collect' checks is an invariant.                               *)
(*                                                                         *)
(* Each needs to know more of the state than it says: what has been        *)
(* collected still shows what its visit was given.  A call that copies at  *)
(* the visit holds no lent cell, so that no write reaches what it          *)
(* collected; one that lends cells runs no body that writes (DeferredReads,*)
(* LentIsRead).  There is one invariant for each family of calls, and IInv *)
(* joins them.  SORT and TOP need besides that the comparison is a strict  *)
(* order of the places (LessOrders): so every set of them has a last one,  *)
(* the heap's root, and their numbers of predecessors are its ranks.       *)
(***************************************************************************)
EXTENDS Collectors, DataInduction, FiniteSetTheorems

-----------------------------------------------------------------------------
(* What the state is made of.                                               *)

Given == [of : Rows, val : Values, key : Yields, was : Values]

TypeInv ==
  /\ call \in Calls
  /\ rows \in [Rows -> Values]
  /\ visit \in Nat \ {0}
  /\ pc \in {"visit", "select", "finish", "project", "next", "done"}
  /\ pc # "done" => error = "none"
  /\ pc = "select" => call.op = "TOP"
  /\ pc = "finish" => call.op \in {"SORT", "TOP"}
  /\ pc = "project" => call.op = "BUCKET_BY"
  /\ pc = "next" => call.op = "FILTER"
  /\ given \in Seq(Given)

LEMMA CallIs ==
  ASSUME call \in Calls
  PROVE  /\ N \in Nat /\ Values \subseteq Value /\ Rows = 1 .. N
         /\ call.limit \in Nat /\ call.keyed \in BOOLEAN /\ call.desc \in BOOLEAN
         /\ call.op \in {"SORT", "TOP", "BUCKET", "BUCKET_BY", "MAP", "FILTER", "DISTINCT"}
         /\ call.op = "DISTINCT" => ~call.keyed
  BY CallsAssumption, BodyAssumption DEF N, Values, Rows

\* A cell lent is what its child is now; a value of one's own is itself.
LEMMA RefsAre ==
  /\ \A i : IsLent(Lent(i)) /\ Now(Lent(i)) = rows[i]
  /\ \A v : ~IsLent(Own(v)) /\ Now(Own(v)) = v
  /\ \A i \in Rows : Lent(i) \in Yields
  /\ \A v \in Values : Own(v) \in Yields
  BY DEF IsLent, Lent, Own, Now, Yields

LEMMA NowIs ==
  ASSUME rows \in [Rows -> Values], NEW x \in Yields
  PROVE  /\ Now(x) \in Values
         /\ ~IsLent(x) => Now(x)' = Now(x)
         /\ rows' = rows => Now(x)' = Now(x)
<1>1. CASE \E i \in Rows : x = Lent(i)
  BY <1>1 DEF Now, IsLent, Lent
<1>2. CASE \E v \in Values : x = Own(v)
  BY <1>2 DEF Now, IsLent, Own
<1>. QED  BY <1>1, <1>2 DEF Yields

LEMMA CallKept ==
  ASSUME [Next]_vars
  PROVE  /\ call' = call /\ N' = N /\ Rows' = Rows /\ Values' = Values
         /\ Yields' = Yields /\ Given' = Given
<1>1. call' = call
  BY DEF Next, vars, Again, Write, BodyRaises, do_sort, do_top, CollectWithKey, Raise, GoOn,
         prepare_sort_keys, select_top_indices, YieldSorted, fn_bucket, YieldBucket,
         BeginProjecting, Project, fn_map, filter_rows, YieldList, NextStage, fn_dedupe
<1>. QED  BY <1>1 DEF N, Rows, Values, Yields, Given, Lent, Own

\* What a visit's end adds to the history.
LEMMA VisitedIs ==
  ASSUME TypeInv, visit <= N, NEW x \in Yields, NEW key \in Yields, Visited(x, key)
  PROVE  /\ given' \in Seq(Given) /\ Len(given') = Len(given) + 1
         /\ \A p \in 1 .. Len(given) : given'[p] = given[p]
         /\ given'[Len(given) + 1].of = visit /\ given'[Len(given) + 1].val = Now(x)
         /\ given'[Len(given) + 1].key = key /\ given'[Len(given) + 1].was = Now(key)
<1>. DEFINE new == [of |-> visit, val |-> Now(x), key |-> key, was |-> Now(key)]
<1>1. new \in Given
  <2>1. Now(x) \in Values /\ Now(key) \in Values
    BY NowIs DEF TypeInv
  <2>2. visit \in Rows
    BY CallIs DEF TypeInv
  <2>. QED  BY <2>1, <2>2 DEF Given
<1>2. given' = Append(given, new)
  BY DEF Visited
<1>3. given \in Seq(Given)
  BY DEF TypeInv
<1>. HIDE DEF new
<1>4. /\ given' \in Seq(Given) /\ Len(given') = Len(given) + 1
      /\ \A p \in 1 .. Len(given) : given'[p] = given[p]
      /\ given'[Len(given) + 1] = new
  BY <1>1, <1>2, <1>3
<1>5. new.of = visit /\ new.val = Now(x) /\ new.key = key /\ new.was = Now(key)
  BY DEF new
<1>. QED  BY <1>4, <1>5

\* The visit of a row that is lent, and of one that a body gave.
LEMMA VisitOK ==
  ASSUME TypeInv, visit <= N, NEW x \in Yields, NEW key \in Yields, Visited(x, key),
         pc = "visit", GoOn \/ \E code : Raise(code)
  PROVE  /\ TypeInv' /\ rows' = rows /\ call' = call
         /\ pc' \in {"visit", "done"}
         /\ pc' = "visit" <=> GoOn
<1>1. given' \in Seq(Given)
  BY VisitedIs
<1>2. call' = call /\ rows' = rows
  BY DEF GoOn, Raise
<1>3. Given' = Given /\ Rows' = Rows /\ Values' = Values
  BY <1>2 DEF Given, N, Rows, Values, Yields, Lent, Own
<1>4. CASE GoOn
  BY <1>1, <1>2, <1>3, <1>4 DEF TypeInv, GoOn
<1>5. ASSUME NEW code, Raise(code)
      PROVE  pc' = "done" /\ visit' = visit /\ ~GoOn
  <2>1. visit + 1 # visit
    BY DEF TypeInv
  <2>. QED  BY <1>5, <2>1 DEF Raise, GoOn
<1>6. CASE \E code : Raise(code)
  BY <1>1, <1>2, <1>3, <1>5, <1>6 DEF TypeInv
<1>. QED  BY <1>2, <1>4, <1>5, <1>6 DEF GoOn

\* The parts are those of the state.
LEMMA TypeStep ==
  ASSUME TypeInv, [Next]_vars
  PROVE  TypeInv'
<1>. USE CallKept
<1>1. \A i \in Rows : Lent(i) \in Yields
  BY RefsAre
<1>2. CASE UNCHANGED vars
  BY <1>2 DEF TypeInv, vars
<1>3. CASE Again
  <2>1. <<>> \in Seq(Given)
    OBVIOUS
  <2>. QED  BY <1>3, <2>1 DEF TypeInv, Again
<1>4. CASE Write
  BY <1>4 DEF TypeInv, Write
<1>5. CASE BodyRaises
  BY <1>5 DEF TypeInv, BodyRaises, Raise
<1>6. CASE CollectWithKey
  <2>1. pc = "visit" /\ visit <= N
    BY <1>6 DEF CollectWithKey
  <2>2. visit \in Rows /\ SortKeys \subseteq Yields
    BY <2>1, <1>1, CallIs DEF TypeInv, SortKeys
  <2>3. PICK key \in SortKeys : Visited(Lent(visit), key) /\ (GoOn \/ \E code : Raise(code))
    BY <1>6 DEF CollectWithKey
  <2>. QED  BY <2>1, <2>2, <2>3, <1>1, VisitOK
<1>7. CASE prepare_sort_keys
  BY <1>7 DEF TypeInv, prepare_sort_keys
<1>8. CASE select_top_indices
  BY <1>8 DEF TypeInv, select_top_indices
<1>9. CASE YieldSorted
  BY <1>9 DEF TypeInv, YieldSorted
<1>10. CASE fn_bucket
  <2>1. pc = "visit" /\ visit <= N
    BY <1>10 DEF fn_bucket
  <2>2. visit \in Rows
    BY <2>1, CallIs DEF TypeInv
  <2>3. PICK key \in Yields :
          \/ \E code : Raise(code) /\ UNCHANGED given
          \/ Visited(Lent(visit), key) /\ (GoOn \/ \E code : Raise(code))
    BY <1>10 DEF fn_bucket
  <2>4. CASE \E code : Raise(code) /\ UNCHANGED given
    BY <2>4 DEF TypeInv, Raise
  <2>. QED  BY <2>1, <2>2, <2>3, <2>4, <1>1, VisitOK
<1>11. CASE YieldBucket
  <2>1. \/ \E code : Raise(code) /\ UNCHANGED given
        \/ pc' = "done" /\ UNCHANGED <<call, rows, visit, error, given>>
    BY <1>11 DEF YieldBucket
  <2>. QED  BY <2>1 DEF TypeInv, Raise
<1>12. CASE BeginProjecting
  BY <1>12 DEF TypeInv, BeginProjecting
<1>13. CASE Project
  BY <1>13 DEF TypeInv, Project
<1>14. CASE fn_map
  <2>1. pc = "visit" /\ visit <= N /\ MapYields \subseteq Yields
    BY <1>14 DEF fn_map, MapYields, Yields
  <2>2. PICK res \in MapYields : Visited(res, res) /\ (GoOn \/ \E code : Raise(code))
    BY <1>14 DEF fn_map
  <2>. QED  BY <2>1, <2>2, VisitOK
<1>15. CASE filter_rows
  <2>1. pc = "visit" /\ visit <= N
    BY <1>15 DEF filter_rows
  <2>2. visit \in Rows
    BY <2>1, CallIs DEF TypeInv
  <2>3. \/ GoOn /\ UNCHANGED given
        \/ Visited(Lent(visit), Lent(visit)) /\ (GoOn \/ \E code : Raise(code))
    BY <1>15 DEF filter_rows
  <2>4. CASE GoOn /\ UNCHANGED given
    BY <2>4 DEF TypeInv, GoOn
  <2>. QED  BY <2>1, <2>2, <2>3, <2>4, <1>1, VisitOK
<1>16. CASE YieldList
  BY <1>16 DEF TypeInv, YieldList
<1>17. CASE NextStage
  BY <1>17 DEF TypeInv, NextStage
<1>18. CASE fn_dedupe
  <2>1. pc = "visit" /\ call' = call /\ rows' = rows /\ error' = error
    BY <1>18 DEF fn_dedupe
  <2>2. CASE visit > N
    BY <1>18, <2>1, <2>2 DEF TypeInv, fn_dedupe
  <2>3. CASE ~(visit > N)
    <3>1. visit <= N /\ visit \in Rows
      BY <2>3, CallIs DEF TypeInv
    <3>2. Visited(Lent(visit), Lent(visit)) /\ visit' = visit + 1 /\ pc' = pc
      BY <1>18, <2>3 DEF fn_dedupe
    <3>3. given' \in Seq(Given)
      BY <1>1, <3>1, <3>2, VisitedIs
    <3>. QED  BY <2>1, <3>2, <3>3 DEF TypeInv
  <2>. QED  BY <2>2, <2>3
<1>. QED  BY <1>2, <1>3, <1>4, <1>5, <1>6, <1>7, <1>8, <1>9, <1>10, <1>11, <1>12, <1>13,
             <1>14, <1>15, <1>16, <1>17, <1>18 DEF Next, do_sort, do_top

LEMMA TypeInit ==
  ASSUME Init
  PROVE  TypeInv
<1>1. <<>> \in Seq(Given)
  OBVIOUS
<1>. QED  BY <1>1 DEF Init, TypeInv

-----------------------------------------------------------------------------
(* The depth of what is collected.                                          *)

\* Every element collected so far could be copied.
NoneDeep == \A p \in DOMAIN given : ~given[p].val.deep

\* A visit that collects what is not too deep, or ends the call.
LEMMA DepthVisit ==
  ASSUME TypeInv, visit <= N, NEW x \in Yields, NEW key \in Yields, Visited(x, key),
         NoneDeep, Now(x).deep => error' = "E_DEPTH"
  PROVE  \A p \in DOMAIN given' : given'[p].val.deep => p = Len(given') /\ error' = "E_DEPTH"
<1>1. /\ given' \in Seq(Given) /\ given \in Seq(Given) /\ Len(given') = Len(given) + 1
      /\ \A p \in 1 .. Len(given) : given'[p] = given[p]
      /\ given'[Len(given) + 1].val = Now(x)
  BY VisitedIs DEF TypeInv
<1>2. ASSUME NEW p \in DOMAIN given', given'[p].val.deep
      PROVE  p = Len(given') /\ error' = "E_DEPTH"
  <2>1. p \in 1 .. Len(given) \/ p = Len(given) + 1
    BY <1>1
  <2>2. CASE p \in 1 .. Len(given)
    <3>1. p \in DOMAIN given /\ given'[p] = given[p]
      BY <1>1, <2>2
    <3>. QED  BY <1>2, <3>1 DEF NoneDeep
  <2>3. CASE p = Len(given) + 1
    BY <1>1, <1>2, <2>3
  <2>. QED  BY <2>1, <2>2, <2>3
<1>. QED  BY <1>2

LEMMA DepthStep ==
  ASSUME TypeInv, DepthAtVisitOrDeferred, [Next]_vars
  PROVE  DepthAtVisitOrDeferred'
<1>. DEFINE Holds == \A p \in DOMAIN given :
                       given[p].val.deep => p = Len(given) /\ error = "E_DEPTH"
<1>1. call' = call
  BY CallKept
<1>2. eager' = eager
  BY <1>1 DEF eager, may_write
<1>3. SUFFICES ASSUME call.op # "DISTINCT", call.op \in {"BUCKET", "BUCKET_BY"} => eager, Holds
               PROVE  Holds'
  BY <1>1, <1>2 DEF DepthAtVisitOrDeferred
<1>4. pc # "done" => NoneDeep
  BY <1>3 DEF NoneDeep, TypeInv
<1>5. ASSUME NoneDeep, UNCHANGED given
      PROVE  Holds'
  BY <1>5 DEF NoneDeep
<1>6. ASSUME pc = "visit", visit <= N
      PROVE  Lent(visit) \in Yields
  BY <1>6, RefsAre, CallIs DEF TypeInv
<1>7. CASE UNCHANGED <<given, error>>
  BY <1>3, <1>7
<1>8. CASE Again
  BY <1>8 DEF Again
<1>9. CASE BodyRaises
  BY <1>4, <1>5, <1>9 DEF BodyRaises
<1>10. CASE CollectWithKey
  <2>1. pc = "visit" /\ visit <= N /\ Lent(visit) \in Yields
    BY <1>6, <1>10 DEF CollectWithKey
  <2>2. PICK key \in SortKeys :
          /\ Visited(Lent(visit), key)
          /\ ~check_copy_depth(Lent(visit)) => Raise("E_DEPTH")
    BY <1>10 DEF CollectWithKey
  <2>3. key \in Yields
    BY <2>1 DEF SortKeys
  <2>4. Now(Lent(visit)).deep => error' = "E_DEPTH"
    BY <2>2 DEF check_copy_depth, Raise
  <2>. QED  BY <1>4, <2>1, <2>2, <2>3, <2>4, DepthVisit
<1>11. CASE fn_bucket
  <2>1. pc = "visit" /\ visit <= N /\ Lent(visit) \in Yields
    BY <1>6, <1>11 DEF fn_bucket
  <2>2. PICK key \in Yields :
          \/ UNCHANGED given
          \/ /\ Visited(Lent(visit), key)
             /\ eager /\ ~check_copy_depth(Lent(visit)) => Raise("E_DEPTH")
    BY <1>11 DEF fn_bucket
  <2>3. eager
    BY <1>3, <1>11 DEF fn_bucket
  <2>4. ASSUME ~UNCHANGED given
        PROVE  Visited(Lent(visit), key) /\ (Now(Lent(visit)).deep => error' = "E_DEPTH")
    BY <2>2, <2>3, <2>4 DEF check_copy_depth, Raise
  <2>. QED  BY <1>4, <1>5, <2>1, <2>4, DepthVisit
<1>12. CASE YieldBucket
  BY <1>4, <1>5, <1>12 DEF YieldBucket
<1>13. CASE fn_map
  <2>1. pc = "visit" /\ visit <= N /\ MapYields \subseteq Yields
    BY <1>13 DEF fn_map, MapYields, Yields
  <2>2. PICK res \in MapYields :
          Visited(res, res) /\ (~check_copy_depth(res) => Raise("E_DEPTH"))
    BY <1>13 DEF fn_map
  <2>3. Now(res).deep => error' = "E_DEPTH"
    BY <2>2 DEF check_copy_depth, Raise
  <2>. QED  BY <1>4, <2>1, <2>2, <2>3, DepthVisit
<1>14. CASE filter_rows
  <2>1. pc = "visit" /\ visit <= N /\ Lent(visit) \in Yields
    BY <1>6, <1>14 DEF filter_rows
  <2>2. \/ UNCHANGED given
        \/ /\ Visited(Lent(visit), Lent(visit))
           /\ ~check_copy_depth(Lent(visit)) => Raise("E_DEPTH")
    BY <1>14 DEF filter_rows
  <2>3. ASSUME ~UNCHANGED given
        PROVE  /\ Visited(Lent(visit), Lent(visit))
               /\ Now(Lent(visit)).deep => error' = "E_DEPTH"
    BY <2>2, <2>3 DEF check_copy_depth, Raise
  <2>. QED  BY <1>4, <1>5, <2>1, <2>3, DepthVisit
<1>15. CASE fn_dedupe
  BY <1>3, <1>15 DEF fn_dedupe
<1>16. CASE \/ Write \/ prepare_sort_keys \/ select_top_indices \/ YieldSorted
            \/ BeginProjecting \/ Project \/ YieldList \/ NextStage
  <2>1. UNCHANGED <<given, error>>
    BY <1>16 DEF Write, prepare_sort_keys, select_top_indices, YieldSorted,
                 BeginProjecting, Project, YieldList, NextStage
  <2>. QED  BY <1>7, <2>1
<1>17. CASE UNCHANGED vars
  BY <1>7, <1>17 DEF vars
<1>. QED  BY <1>8, <1>9, <1>10, <1>11, <1>12, <1>13, <1>14, <1>15, <1>16, <1>17
          DEF Next, do_sort, do_top

-----------------------------------------------------------------------------
(* MAP, FILTER and the stage after a FILTER.                                *)

Kept == [of : Rows, item : Yields]
Shown == [of : Rows, val : Values]

\* What has been collected shows what each visit was given, and goes on to: a cell
\* is lent only by a call whose bodies do not write.
ListInv ==
  call.op \in {"MAP", "FILTER"} =>
    /\ pc = "visit" => answer = <<>>
    /\ pc \in {"visit", "next"} =>
         /\ items \in Seq(Kept) /\ Len(items) = Len(given)
         /\ \A p \in 1 .. Len(items) :
              /\ items[p].of = given[p].of /\ Now(items[p].item) = given[p].val
              /\ borrowed_filter \/ ~IsLent(items[p].item)
    /\ pc = "next" =>
         /\ answer \in Seq(Shown) /\ Len(answer) = visit - 1 /\ visit <= Len(items) + 1
         /\ \A p \in 1 .. Len(answer) :
              answer[p].of = given[p].of /\ answer[p].val = given[p].val
    /\ ListedAsCollected

\* A visit that collects an item.
LEMMA ListVisit ==
  ASSUME TypeInv, ListInv, call.op \in {"MAP", "FILTER"}, pc = "visit", visit <= N,
         NEW x \in Yields, Visited(x, x), NEW item \in Yields, Now(item) = Now(x),
         borrowed_filter \/ ~IsLent(item),
         items' = Append(items, [of |-> visit, item |-> item]), GoOn
  PROVE  ListInv'
<1>1. /\ call' = call /\ rows' = rows /\ pc' = pc /\ answer' = answer /\ error' = error
  BY DEF GoOn
<1>2. Kept' = Kept /\ Rows' = Rows /\ borrowed_filter' = borrowed_filter
  BY <1>1 DEF Kept, Rows, N, Yields, Values, Lent, Own, borrowed_filter, read_only_expression
<1>3. /\ Len(given') = Len(given) + 1 /\ \A p \in 1 .. Len(given) : given'[p] = given[p]
      /\ given'[Len(given) + 1].of = visit /\ given'[Len(given) + 1].val = Now(x)
  BY VisitedIs
<1>4. [of |-> visit, item |-> item] \in Kept
  BY CallIs DEF TypeInv, Kept
<1>5. /\ items \in Seq(Kept) /\ Len(items) = Len(given)
      /\ \A p \in 1 .. Len(items) :
              /\ items[p].of = given[p].of /\ Now(items[p].item) = given[p].val
              /\ borrowed_filter \/ ~IsLent(items[p].item)
  BY DEF ListInv
<1>6. /\ items' \in Seq(Kept) /\ Len(items') = Len(items) + 1
      /\ \A p \in 1 .. Len(items) : items'[p] = items[p]
      /\ items'[Len(items) + 1] = [of |-> visit, item |-> item]
  BY <1>4, <1>5
<1>7. ASSUME NEW p \in 1 .. Len(items')
      PROVE  /\ items'[p].of = given'[p].of /\ Now(items[p].item)' = given'[p].val
             /\ borrowed_filter \/ ~IsLent(items'[p].item)
  <2>1. CASE p \in 1 .. Len(items)
    <3>1. items'[p] = items[p] /\ given'[p] = given[p]
      BY <1>3, <1>5, <1>6, <2>1
    <3>2. Now(items[p].item)' = Now(items[p].item)
      BY <1>1, <3>1 DEF Now, IsLent
    <3>. QED  BY <1>5, <2>1, <3>1, <3>2
  <2>2. CASE p = Len(items) + 1
    <3>1. items'[p].of = visit /\ items'[p].item = item
      BY <1>6, <2>2
    <3>2. Now(items[p].item)' = Now(item)
      BY <1>1, <3>1 DEF Now, IsLent
    <3>. QED  BY <1>3, <1>5, <2>2, <3>1, <3>2
  <2>. QED  BY <1>5, <1>6, <2>1, <2>2
<1>8. Len(items') = Len(given')
  BY <1>3, <1>5, <1>6
<1>10. answer' = <<>>
  BY <1>1 DEF ListInv
<1>11. ListedAsCollected'
  BY <1>1 DEF ListedAsCollected, Ended
<1>12. \A p \in 1 .. Len(items') : (borrowed_filter \/ ~IsLent(items[p].item))'
  BY <1>2, <1>7 DEF IsLent
<1>. QED  BY <1>1, <1>2, <1>6, <1>7, <1>8, <1>10, <1>11, <1>12 DEF ListInv

\* While a cell is lent, no body writes.
LEMMA LentIsRead ==
  ASSUME call.op \in {"MAP", "FILTER"}, borrowed_filter, pc \in {"visit", "next"}
  PROVE  ~Write
  BY DEF borrowed_filter, read_only_expression, Write, Writes, Body

\* What the list holds when it is built, and what the next stage reads of it.
LEMMA CollectedIs ==
  ASSUME TypeInv, ListInv, call.op \in {"MAP", "FILTER"}, pc \in {"visit", "next"}
  PROVE  /\ Collected \in Seq(Shown) /\ Len(Collected) = Len(given)
         /\ Len(items) = Len(given)
         /\ \A p \in 1 .. Len(given) :
              Collected[p].of = given[p].of /\ Collected[p].val = given[p].val
<1>1. /\ items \in Seq(Kept) /\ Len(items) = Len(given)
      /\ \A p \in 1 .. Len(items) :
           items[p].of = given[p].of /\ Now(items[p].item) = given[p].val
  BY DEF ListInv
<1>2. \A p \in 1 .. Len(items) : given[p].of \in Rows /\ given[p].val \in Values
  <2>1. given \in Seq(Given)
    BY DEF TypeInv
  <2>2. \A p \in 1 .. Len(given) : given[p] \in Given
    BY <2>1
  <2>. QED  BY <1>1, <2>2 DEF Given
<1>. DEFINE shown == [p \in 1 .. Len(items) |-> [of |-> given[p].of, val |-> given[p].val]]
<1>3. Collected = shown
  <2>1. DOMAIN items = 1 .. Len(items)
    BY <1>1
  <2>. QED  BY <1>1, <2>1 DEF Collected
<1>4. \A p \in 1 .. Len(items) : [of |-> given[p].of, val |-> given[p].val] \in Shown
  BY <1>2 DEF Shown
<1>5. Len(items) \in Nat
  BY <1>1
<1>6. shown \in Seq(Shown) /\ Len(shown) = Len(items)
  BY <1>4, <1>5
<1>. QED  BY <1>1, <1>3, <1>6

LEMMA ListStep ==
  ASSUME TypeInv, ListInv, [Next]_vars
  PROVE  ListInv'
<1>1. /\ call' = call /\ Rows' = Rows /\ Values' = Values /\ Yields' = Yields
  BY CallKept
<1>2. Kept' = Kept /\ Shown' = Shown /\ borrowed_filter' = borrowed_filter
  BY <1>1 DEF Kept, Shown, borrowed_filter, read_only_expression
<1>3. SUFFICES ASSUME call.op \in {"MAP", "FILTER"}
               PROVE  ListInv'
  BY <1>1 DEF ListInv
<1>4. /\ pc = "visit" => answer = <<>>
      /\ ListedAsCollected
      /\ pc = "next" =>
         /\ answer \in Seq(Shown) /\ Len(answer) = visit - 1 /\ visit <= Len(items) + 1
         /\ \A p \in 1 .. Len(answer) :
              answer[p].of = given[p].of /\ answer[p].val = given[p].val
  BY <1>3 DEF ListInv
<1>5. pc \in {"visit", "next"} =>
        /\ items \in Seq(Kept) /\ Len(items) = Len(given)
        /\ \A p \in 1 .. Len(items) :
              /\ items[p].of = given[p].of /\ Now(items[p].item) = given[p].val
              /\ borrowed_filter \/ ~IsLent(items[p].item)
  BY <1>3 DEF ListInv
<1>6. pc \in {"visit", "next", "done"}
  BY <1>3 DEF TypeInv
<1>7. \A code : Raise(code) => pc' = "done" /\ error' = code
  BY DEF Raise
<1>8. ASSUME pc' = "done", error' # "none"
      PROVE  ListInv'
  BY <1>8 DEF ListInv, ListedAsCollected, Ended
<1>9. ASSUME UNCHANGED <<pc, visit, items, answer, error, given>>,
             pc \in {"visit", "next"} =>
               \A p \in 1 .. Len(items) : Now(items[p].item)' = Now(items[p].item)
      PROVE  ListInv'
  <2>1. ListedAsCollected'
    BY <1>1, <1>4, <1>9 DEF ListedAsCollected, Ended
  <2>2. pc \in {"visit", "next"} => \A p \in 1 .. Len(items) :
          (borrowed_filter \/ ~IsLent(items[p].item))'
    BY <1>2, <1>5, <1>9 DEF IsLent
  <2>. QED  BY <1>1, <1>2, <1>3, <1>4, <1>5, <1>9, <2>1, <2>2 DEF ListInv
<1>10. CASE UNCHANGED vars
  <2>1. \A p \in 1 .. Len(items) : Now(items[p].item)' = Now(items[p].item)
    BY <1>10 DEF vars, Now, IsLent
  <2>. QED  BY <1>9, <1>10, <2>1 DEF vars
<1>11. CASE Again
  <2>1. <<>> \in Seq(Kept) /\ Len(<<>>) = 0
    OBVIOUS
  <2>2. /\ pc' = "visit" /\ items' = <<>> /\ answer' = <<>> /\ given' = <<>> /\ error' = "none"
    BY <1>11 DEF Again
  <2>3. ListedAsCollected'
    BY <2>2 DEF ListedAsCollected, Ended
  <2>. QED  BY <1>1, <1>2, <2>1, <2>2, <2>3 DEF ListInv
<1>12. CASE Write
  <2>1. UNCHANGED <<pc, visit, items, answer, error, given>>
    BY <1>12 DEF Write
  <2>2. ASSUME pc \in {"visit", "next"}, NEW p \in 1 .. Len(items)
        PROVE  Now(items[p].item)' = Now(items[p].item)
    <3>1. ~IsLent(items[p].item)
      BY <1>3, <1>5, <1>12, <2>2, LentIsRead
    <3>. QED  BY <2>1, <3>1 DEF Now, IsLent
  <2>. QED  BY <1>9, <2>1, <2>2
<1>13. CASE BodyRaises
  BY <1>7, <1>8, <1>13 DEF BodyRaises
<1>14. CASE fn_map
  <2>1. pc = "visit" /\ visit <= N
    BY <1>14 DEF fn_map
  <2>2. PICK res \in MapYields :
          /\ Visited(res, res)
          /\ \/ Raise("E_DEPTH")
             \/ /\ items' = Append(items, [of |-> visit, item |-> IF fresh_record THEN res
                                                               ELSE Copied(res)])
                /\ GoOn
    BY <1>14 DEF fn_map
  <2>3. res \in Yields /\ (fresh_record => ~IsLent(res))
    BY RefsAre DEF MapYields, Yields, fresh_record
  <2>. DEFINE it == IF fresh_record THEN res ELSE Copied(res)
  <2>4. it \in Yields /\ ~IsLent(it) /\ Now(it) = Now(res)
    <3>1. Now(res) \in Values
      BY <2>3, NowIs DEF TypeInv
    <3>2. Copied(res) \in Yields /\ ~IsLent(Copied(res)) /\ Now(Copied(res)) = Now(res)
      BY <3>1, RefsAre DEF Copied
    <3>. QED  BY <2>3, <3>2
  <2>5. CASE Raise("E_DEPTH")
    BY <1>7, <1>8, <2>5
  <2>6. CASE items' = Append(items, [of |-> visit, item |-> it]) /\ GoOn
    <3>. HIDE DEF it
    <3>. QED  BY <1>3, <2>1, <2>2, <2>3, <2>4, <2>6, ListVisit
  <2>. QED  BY <2>2, <2>5, <2>6
<1>15. CASE filter_rows
  <2>1. pc = "visit" /\ visit <= N
    BY <1>15 DEF filter_rows
  <2>2. visit \in Rows
    BY <2>1, CallIs DEF TypeInv
  <2>. DEFINE it == IF borrowed_filter THEN Lent(visit) ELSE Copied(Lent(visit))
  <2>3. \/ GoOn /\ UNCHANGED <<items, groups, given>>
        \/ /\ Visited(Lent(visit), Lent(visit))
           /\ \/ Raise("E_DEPTH")
              \/ items' = Append(items, [of |-> visit, item |-> it]) /\ GoOn
    BY <1>15 DEF filter_rows
  <2>4. Lent(visit) \in Yields
    BY <2>2, RefsAre
  <2>5. it \in Yields /\ (borrowed_filter \/ ~IsLent(it)) /\ Now(it) = Now(Lent(visit))
    <3>1. Now(Lent(visit)) \in Values
      BY <2>4, NowIs DEF TypeInv
    <3>2. /\ Copied(Lent(visit)) \in Yields /\ ~IsLent(Copied(Lent(visit)))
          /\ Now(Copied(Lent(visit))) = Now(Lent(visit))
      BY <3>1, RefsAre DEF Copied
    <3>. QED  BY <2>4, <3>2
  <2>6. CASE GoOn /\ UNCHANGED <<items, groups, given>>
    <3>1. /\ rows' = rows /\ pc' = pc /\ answer' = answer /\ error' = error
          /\ items' = items /\ given' = given
      BY <2>6 DEF GoOn
    <3>2. \A p \in 1 .. Len(items) : Now(items[p].item)' = Now(items[p].item)
      BY <3>1 DEF Now, IsLent
    <3>3. ListedAsCollected'
      BY <2>1, <3>1 DEF ListedAsCollected, Ended
    <3>4. \A p \in 1 .. Len(items) : (borrowed_filter \/ ~IsLent(items[p].item))'
      BY <1>2, <1>5, <2>1, <3>1 DEF IsLent
    <3>. QED  BY <1>1, <1>2, <1>4, <1>5, <2>1, <3>1, <3>2, <3>3, <3>4 DEF ListInv
  <2>7. CASE Raise("E_DEPTH")
    BY <1>7, <1>8, <2>7
  <2>8. CASE /\ Visited(Lent(visit), Lent(visit))
             /\ items' = Append(items, [of |-> visit, item |-> it]) /\ GoOn
    <3>. HIDE DEF it
    <3>. QED  BY <1>3, <2>1, <2>4, <2>5, <2>8, ListVisit
  <2>. QED  BY <2>3, <2>6, <2>7, <2>8
<1>16. CASE YieldList
  <2>1. pc = "visit" /\ UNCHANGED <<rows, items, given, error>>
    BY <1>16 DEF YieldList
  <2>2. /\ Collected \in Seq(Shown) /\ Len(Collected) = Len(given)
        /\ \A p \in 1 .. Len(given) :
              Collected[p].of = given[p].of /\ Collected[p].val = given[p].val
    BY <1>3, <2>1, CollectedIs
  <2>3. CASE pc' = "done" /\ answer' = Collected
    <3>1. ListedAsCollected'
      BY <2>1, <2>2, <2>3 DEF ListedAsCollected
    <3>. QED  BY <1>1, <2>3, <3>1 DEF ListInv
  <2>4. CASE pc' = "next" /\ visit' = 1 /\ UNCHANGED answer
    <3>1. answer' = <<>> /\ <<>> \in Seq(Shown) /\ Len(<<>>) = 0
      BY <1>4, <2>1, <2>4
    <3>2. \A p \in 1 .. Len(items) : Now(items[p].item)' = Now(items[p].item)
      BY <2>1 DEF Now, IsLent
    <3>3. ListedAsCollected'
      BY <2>4 DEF ListedAsCollected, Ended
    <3>4. \A p \in 1 .. Len(items) : (borrowed_filter \/ ~IsLent(items[p].item))'
      BY <1>2, <1>5, <2>1 DEF IsLent
    <3>5. visit' <= Len(items') + 1
      BY <1>5, <2>1, <2>4
    <3>. QED  BY <1>1, <1>2, <1>5, <2>1, <2>4, <3>1, <3>2, <3>3, <3>4, <3>5 DEF ListInv
  <2>. QED  BY <1>16, <2>3, <2>4 DEF YieldList
<1>17. CASE NextStage
  <2>1. pc = "next" /\ UNCHANGED <<rows, items, given, error>>
    BY <1>17 DEF NextStage
  <2>2. /\ Collected \in Seq(Shown) /\ Len(Collected) = Len(given) /\ Len(items) = Len(given)
        /\ \A p \in 1 .. Len(given) :
              Collected[p].of = given[p].of /\ Collected[p].val = given[p].val
    BY <1>3, <2>1, CollectedIs
  <2>3. Len(items) \in Nat /\ visit \in Nat
    BY <1>5, <2>1 DEF TypeInv
  <2>4. CASE visit > Len(items)
    <3>1. pc' = "done" /\ answer' = answer
      BY <1>17, <2>4 DEF NextStage
    <3>2. Len(answer) = Len(given) /\ DOMAIN answer = 1 .. Len(answer)
      BY <1>4, <2>1, <2>2, <2>3, <2>4
    <3>3. ListedAsCollected'
      BY <1>4, <2>1, <3>1, <3>2 DEF ListedAsCollected
    <3>. QED  BY <1>1, <3>1, <3>3 DEF ListInv
  <2>5. CASE ~(visit > Len(items))
    <3>1. pc' = pc /\ answer' = Append(answer, Collected[visit]) /\ visit' = visit + 1
      BY <1>17, <2>5 DEF NextStage
    <3>2. visit \in 1 .. Len(given) /\ Collected[visit] \in Shown
      BY <2>2, <2>3, <2>5 DEF TypeInv
    <3>3. /\ answer' \in Seq(Shown) /\ Len(answer') = Len(answer) + 1
          /\ \A p \in 1 .. Len(answer) : answer'[p] = answer[p]
          /\ answer'[Len(answer) + 1] = Collected[visit]
      BY <1>4, <2>1, <3>1, <3>2
    <3>4. Len(answer) = visit - 1
      BY <1>4, <2>1
    <3>5. ASSUME NEW p \in 1 .. Len(answer')
          PROVE  answer'[p].of = given[p].of /\ answer'[p].val = given[p].val
      <4>1. p \in 1 .. Len(answer) \/ p = visit
        BY <2>3, <3>3, <3>4
      <4>. QED  BY <1>4, <2>1, <2>2, <3>2, <3>3, <3>4, <4>1
    <3>6. \A p \in 1 .. Len(items) : Now(items[p].item)' = Now(items[p].item)
      BY <2>1 DEF Now, IsLent
    <3>7. ListedAsCollected'
      BY <2>1, <3>1 DEF ListedAsCollected, Ended
    <3>8. \A p \in 1 .. Len(items) : (borrowed_filter \/ ~IsLent(items[p].item))'
      BY <1>2, <1>5, <2>1 DEF IsLent
    <3>9. Len(answer') = visit' - 1 /\ visit' <= Len(items') + 1
      BY <2>1, <2>3, <2>5, <3>1, <3>3, <3>4
    <3>. QED  BY <1>1, <1>2, <1>5, <2>1, <3>1, <3>3, <3>5, <3>6, <3>7, <3>8, <3>9 DEF ListInv
  <2>. QED  BY <2>4, <2>5
<1>18. CASE \/ do_sort \/ do_top \/ prepare_sort_keys \/ select_top_indices \/ YieldSorted
            \/ fn_bucket \/ YieldBucket \/ BeginProjecting \/ Project \/ fn_dedupe
  <2>1. /\ call.op \notin {"SORT", "TOP", "BUCKET", "BUCKET_BY", "DISTINCT"}
        /\ pc \notin {"select", "project"}
    BY <1>3, <1>6
  <2>2. ~do_sort /\ ~do_top
    BY <2>1 DEF do_sort, do_top
  <2>3. ~prepare_sort_keys /\ ~select_top_indices /\ ~YieldSorted /\ ~fn_bucket /\ ~YieldBucket
        /\ ~BeginProjecting /\ ~Project /\ ~fn_dedupe
    BY <2>1 DEF prepare_sort_keys, select_top_indices, YieldSorted, fn_bucket, YieldBucket,
                BeginProjecting, Project, fn_dedupe
  <2>. QED  BY <1>18, <2>1, <2>2, <2>3
<1>. QED  BY <1>3, <1>10, <1>11, <1>12, <1>13, <1>14, <1>15, <1>16, <1>17, <1>18
          DEF Next, do_sort, do_top

-----------------------------------------------------------------------------
(* DISTINCT.                                                                *)

\* The first of the rows visited that are EQL, among the first n.
Firsts(n) == {i \in Rows : i <= n /\ \A j \in 1 .. i - 1 : rows[j] # rows[i]}

\* The elements kept are the source's own cells, the firsts of those visited, in order.
DistinctInv ==
  call.op = "DISTINCT" =>
    /\ pc = "visit" =>
         /\ visit <= N + 1
         /\ items \in Seq([of : Rows, item : Yields])
         /\ \A p \in 1 .. Len(items) : items[p].item = Lent(items[p].of)
         /\ \A p, q \in 1 .. Len(items) : p < q => items[p].of < items[q].of
         /\ {items[p].of : p \in 1 .. Len(items)} = Firsts(visit - 1)
    /\ DistinctKeepsFirsts

\* A row is the first of its kind, or the first of its kind came before.
LEMMA FirstOfKind ==
  ASSUME TypeInv, NEW i \in Rows
  PROVE  \E j \in Rows : j <= i /\ rows[j] = rows[i] /\ \A l \in 1 .. j - 1 : rows[l] # rows[j]
<1>. DEFINE T == {j \in Rows : j <= i /\ rows[j] = rows[i]}
<1>1. N \in Nat /\ Rows = 1 .. N
  BY CallIs DEF TypeInv
<1>2. T \in SUBSET Nat /\ i \in T
  BY <1>1
<1>3. PICK j \in T : \A l \in T : j <= l
  <2>. HIDE DEF T
  <2>. QED  BY <1>2, LeastNatural
<1>4. ASSUME NEW l \in 1 .. j - 1, rows[l] = rows[j]
      PROVE  FALSE
  <2>1. l \in Rows /\ l <= i /\ l < j
    BY <1>1, <1>3
  <2>2. l \in T
    BY <1>3, <1>4, <2>1
  <2>3. j <= l
    BY <1>3, <2>2
  <2>. QED  BY <1>1, <1>3, <2>1, <2>3
<1>. QED  BY <1>3, <1>4

LEMMA DistinctStep ==
  ASSUME TypeInv, DistinctInv, [Next]_vars
  PROVE  DistinctInv'
<1>1. /\ call' = call /\ N' = N /\ Rows' = Rows /\ Values' = Values /\ Yields' = Yields
  BY CallKept
<1>2. SUFFICES ASSUME call.op = "DISTINCT"
               PROVE  DistinctInv'
  BY <1>1 DEF DistinctInv
<1>3. N \in Nat /\ Rows = 1 .. N /\ ~call.keyed
  BY <1>2, CallIs DEF TypeInv
<1>4. pc \in {"visit", "done"}
  BY <1>2 DEF TypeInv
<1>5. CASE Again
  <2>1. pc' = "visit" /\ visit' = 1 /\ items' = <<>> /\ rows' = rows
    BY <1>5 DEF Again
  <2>2. <<>> \in Seq([of : Rows, item : Yields]) /\ Len(<<>>) = 0
    OBVIOUS
  <2>3. Firsts(visit - 1)' = {}
    BY <1>1, <1>3, <2>1 DEF Firsts
  <2>4. DistinctKeepsFirsts'
    BY <2>1 DEF DistinctKeepsFirsts, Ended
  <2>. QED  BY <1>1, <1>3, <2>1, <2>2, <2>3, <2>4 DEF DistinctInv
<1>6. CASE UNCHANGED vars
  <2>1. Firsts(visit - 1)' = Firsts(visit - 1)
    BY <1>1, <1>6 DEF Firsts, vars
  <2>2. DistinctKeepsFirsts'
    BY <1>1, <1>2, <1>6 DEF DistinctKeepsFirsts, Ended, vars, DistinctInv
  <2>. QED  BY <1>1, <1>2, <1>6, <2>1, <2>2 DEF DistinctInv, vars, Lent
<1>7. CASE fn_dedupe
  <2>1. pc = "visit" /\ rows' = rows /\ error' = error
    BY <1>7 DEF fn_dedupe
  <2>2. /\ visit <= N + 1 /\ visit \in Nat \ {0}
        /\ items \in Seq([of : Rows, item : Yields])
        /\ \A p \in 1 .. Len(items) : items[p].item = Lent(items[p].of)
        /\ \A p, q \in 1 .. Len(items) : p < q => items[p].of < items[q].of
        /\ {items[p].of : p \in 1 .. Len(items)} = Firsts(visit - 1)
    BY <1>2, <2>1 DEF DistinctInv, TypeInv
  <2>3. CASE visit > N
    <3>1. pc' = "done" /\ answer' = Collected
      BY <1>7, <2>3 DEF fn_dedupe
    <3>2. visit = N + 1
      BY <1>3, <2>2, <2>3
    <3>3. DOMAIN items = 1 .. Len(items)
      BY <2>2
    <3>4. DOMAIN answer' = 1 .. Len(items)
          /\ \A p \in 1 .. Len(items) : answer'[p].of = items[p].of
      BY <3>1, <3>3 DEF Collected
    <3>5. {answer'[p].of : p \in DOMAIN answer'} = Firsts(N)
      <4>1. visit - 1 = N
        BY <1>3, <3>2
      <4>2. {answer'[p].of : p \in DOMAIN answer'} = {items[p].of : p \in 1 .. Len(items)}
        BY <3>4
      <4>. QED  BY <2>2, <4>1, <4>2
    <3>6. Firsts(N) = {i \in Rows : \A j \in 1 .. i - 1 : rows[j] # rows[i]}
      BY <1>3 DEF Firsts
    <3>7. DistinctKeepsFirsts'
      BY <1>1, <2>1, <2>2, <3>4, <3>5, <3>6 DEF DistinctKeepsFirsts
    <3>. QED  BY <3>1, <3>7 DEF DistinctInv
  <2>4. CASE ~(visit > N)
    <3>. DEFINE seen == \E p \in DOMAIN items :
                          /\ structural_hash(Now(items[p].item)) = structural_hash(rows[visit])
                          /\ eql(rows[visit], Now(items[p].item))
    <3>1. /\ pc' = "visit" /\ visit' = visit + 1 /\ visit \in Rows
          /\ items' = IF seen THEN items ELSE Append(items, [of |-> visit, item |-> Lent(visit)])
      BY <1>3, <1>7, <2>1, <2>2, <2>4 DEF fn_dedupe
    <3>2. \A p \in DOMAIN items : Now(items[p].item) = rows[items[p].of]
      BY <2>2, RefsAre
    <3>3. seen <=> \E i \in Firsts(visit - 1) : rows[i] = rows[visit]
      <4>1. seen <=> \E p \in 1 .. Len(items) : rows[items[p].of] = rows[visit]
        BY <2>2, <3>2 DEF eql
      <4>. HIDE DEF seen
      <4>. QED  BY <2>2, <4>1
    <3>4. (visit \in Firsts(visit)) <=> ~seen
      <4>1. ASSUME seen
            PROVE  visit \notin Firsts(visit)
        <5>1. PICK i \in Firsts(visit - 1) : rows[i] = rows[visit]
          BY <3>3, <4>1
        <5>2. i \in 1 .. visit - 1
          BY <1>3, <2>2 DEF Firsts
        <5>. QED  BY <5>1, <5>2 DEF Firsts
      <4>2. ASSUME visit \notin Firsts(visit)
            PROVE  seen
        <5>1. PICK j \in 1 .. visit - 1 : rows[j] = rows[visit]
          BY <2>2, <3>1, <4>2 DEF Firsts
        <5>2. j \in Rows
          BY <1>3, <2>2, <3>1
        <5>3. PICK l \in Rows : l <= j /\ rows[l] = rows[j]
                                /\ \A m \in 1 .. l - 1 : rows[m] # rows[l]
          BY <5>2, FirstOfKind
        <5>4. l \in Firsts(visit - 1)
          BY <1>3, <2>2, <5>3 DEF Firsts
        <5>. QED  BY <3>3, <5>1, <5>3, <5>4
      <4>. QED  BY <4>1, <4>2
    <3>5. Firsts(visit) = Firsts(visit - 1) \cup (IF seen THEN {} ELSE {visit})
      <4>. HIDE DEF seen
      <4>1. \A i \in Rows : i <= visit <=> i <= visit - 1 \/ i = visit
        BY <1>3, <2>2
      <4>2. visit \notin Firsts(visit - 1)
        BY <2>2 DEF Firsts
      <4>. QED  BY <3>1, <3>4, <4>1, <4>2 DEF Firsts
    <3>6. /\ Firsts(visit - 1)' = Firsts(visit) /\ visit' <= N' + 1
      BY <1>1, <1>3, <2>1, <2>2, <2>4, <3>1 DEF Firsts
    <3>7. DistinctKeepsFirsts'
      BY <3>1 DEF DistinctKeepsFirsts, Ended
    <3>8. CASE seen
      <4>1. items' = items /\ Firsts(visit) = Firsts(visit - 1)
        BY <3>1, <3>5, <3>8
      <4>. HIDE DEF seen
      <4>. QED  BY SMTT(30), <1>1, <2>2, <3>1, <3>6, <3>7, <4>1 DEF DistinctInv, Lent
    <3>9. CASE ~seen
      <4>. HIDE DEF seen
      <4>1. [of |-> visit, item |-> Lent(visit)] \in [of : Rows, item : Yields]
        BY <3>1, RefsAre
      <4>2. items' = Append(items, [of |-> visit, item |-> Lent(visit)])
        BY <3>1, <3>9
      <4>3. /\ items' \in Seq([of : Rows, item : Yields]) /\ Len(items') = Len(items) + 1
            /\ \A p \in 1 .. Len(items) : items'[p] = items[p]
            /\ items'[Len(items) + 1] = [of |-> visit, item |-> Lent(visit)]
        BY <2>2, <4>1, <4>2
      <4>4. \A p \in 1 .. Len(items') : p \in 1 .. Len(items) \/ p = Len(items) + 1
        BY <2>2, <4>3
      <4>5. \A p \in 1 .. Len(items) : items[p].of \in Firsts(visit - 1)
        BY <2>2
      <4>6. \A p \in 1 .. Len(items) : items[p].of < visit
        BY <1>3, <2>2, <4>5 DEF Firsts
      <4>7. \A p \in 1 .. Len(items') : items'[p].item = Lent(items'[p].of)
        BY <2>2, <4>3, <4>4
      <4>8. ASSUME NEW p \in 1 .. Len(items'), NEW q \in 1 .. Len(items'), p < q
            PROVE  items'[p].of < items'[q].of
        <5>1. p \in 1 .. Len(items)
          BY <2>2, <4>3, <4>8
        <5>2. CASE q \in 1 .. Len(items)
          BY <2>2, <4>3, <4>8, <5>1, <5>2
        <5>3. CASE q = Len(items) + 1
          BY <4>3, <4>6, <5>1, <5>3
        <5>. QED  BY <4>4, <5>2, <5>3
      <4>9. {items'[p].of : p \in 1 .. Len(items')} = Firsts(visit)
        <5>1. 1 .. Len(items') = (1 .. Len(items)) \cup {Len(items) + 1}
          BY <2>2, <4>3
        <5>2. {items'[p].of : p \in 1 .. Len(items)} = Firsts(visit - 1)
          BY <2>2, <4>3
        <5>3. items'[Len(items) + 1].of = visit
          BY <4>3
        <5>. QED  BY <3>5, <3>9, <5>1, <5>2, <5>3
      <4>. QED  BY <1>1, <3>1, <3>6, <3>7, <4>3, <4>7, <4>8, <4>9 DEF DistinctInv, Lent
    <3>. QED  BY <3>8, <3>9
  <2>. QED  BY <2>3, <2>4
<1>8. ~Write /\ ~BodyRaises
  BY <1>3, <1>4 DEF Write, Writes, Body, BodyRaises
<1>9. ~do_sort /\ ~do_top /\ ~prepare_sort_keys /\ ~select_top_indices /\ ~YieldSorted
      /\ ~fn_bucket /\ ~YieldBucket /\ ~BeginProjecting /\ ~Project
      /\ ~fn_map /\ ~filter_rows /\ ~YieldList /\ ~NextStage
  BY <1>2, <1>4 DEF do_sort, do_top, prepare_sort_keys, select_top_indices, YieldSorted, fn_bucket,
                    YieldBucket, BeginProjecting, Project, fn_map, filter_rows, YieldList, NextStage
<1>. QED  BY <1>5, <1>6, <1>7, <1>8, <1>9 DEF Next

-----------------------------------------------------------------------------
(* The order of keys.                                                       *)

\* Values compare alike from both sides, and in an order.
LEMMA CompareIs ==
  ASSUME NEW a \in Value, NEW b \in Value
  PROVE  /\ compare_values(a, b) \in {-1, 0, 1}
         /\ compare_values(b, a) = -compare_values(a, b)
         /\ compare_values(a, b) < 0 <=>
              \/ value_rank(a) < value_rank(b)
              \/ value_rank(a) = value_rank(b) /\ value_rank(a) # 0 /\ a.at < b.at
         /\ compare_values(a, b) = 0 <=>
              value_rank(a) = value_rank(b) /\ (value_rank(a) = 0 \/ a.at = b.at)
<1>1. /\ value_rank(a) \in 0 .. 4 /\ value_rank(b) \in 0 .. 4
      /\ a.at \in Nat /\ b.at \in Nat
  BY DEF Value, Kind, value_rank
<1>2. CASE value_rank(a) < value_rank(b)
  BY <1>1, <1>2 DEF compare_values
<1>3. CASE value_rank(b) < value_rank(a)
  BY <1>1, <1>3 DEF compare_values
<1>4. CASE value_rank(a) = value_rank(b) /\ (value_rank(a) = 0 \/ a.at = b.at)
  BY <1>1, <1>4 DEF compare_values
<1>5. CASE value_rank(a) = value_rank(b) /\ value_rank(a) # 0 /\ a.at < b.at
  BY <1>1, <1>5 DEF compare_values
<1>6. CASE value_rank(a) = value_rank(b) /\ value_rank(a) # 0 /\ b.at < a.at
  BY <1>1, <1>6 DEF compare_values
<1>. QED  BY <1>1, <1>2, <1>3, <1>4, <1>5, <1>6

\* Items over values, each remembering its place.
Prepared(its) ==
  \A i \in 1 .. Len(its) : its[i].idx = i /\ its[i].key.own \in Value

\* One item is before another by key, and then by place.
LEMMA LessIs ==
  ASSUME Prepared(items), call.desc \in BOOLEAN, Len(items) \in Nat,
         NEW i \in 1 .. Len(items), NEW j \in 1 .. Len(items)
  PROVE  LET a == items[i].key.own  b == items[j].key.own
             c == IF call.desc THEN compare_values(b, a) ELSE compare_values(a, b)
         IN  Less(i, j) <=> c < 0 \/ (c = 0 /\ i < j)
<1>. DEFINE a == items[i].key.own
            b == items[j].key.own
            c == IF call.desc THEN compare_values(b, a) ELSE compare_values(a, b)
            ab == compare_values(a, b)
<1>1. a \in Value /\ b \in Value /\ items[i].idx = i /\ items[j].idx = j
  BY DEF Prepared
<1>2. ab \in {-1, 0, 1} /\ compare_values(b, a) = -ab
  BY <1>1, CompareIs
<1>3. Less(i, j) <=> IF (IF call.desc THEN -ab ELSE ab) # 0
                     THEN (IF call.desc THEN -ab ELSE ab) < 0 ELSE i < j
  BY <1>1 DEF Less, compare_sort_keys
<1>4. c = IF call.desc THEN -ab ELSE ab
  BY <1>2
<1>. HIDE DEF a, b, c, ab
<1>5. Less(i, j) <=> c < 0 \/ (c = 0 /\ i < j)
  BY <1>2, <1>3, <1>4
<1>. QED  BY <1>5 DEF a, b, c

\* The order of the items as a relation.
LessOf == {pair \in (1 .. Len(items)) \X (1 .. Len(items)) : Less(pair[1], pair[2])}

LEMMA LessOrders ==
  ASSUME Prepared(items), call.desc \in BOOLEAN, Len(items) \in Nat
  PROVE  /\ IsOrder(LessOf, 1 .. Len(items))
         /\ \A i, j \in 1 .. Len(items) : Less(i, j) <=> <<i, j>> \in LessOf
<1>. DEFINE K(i) == items[i].key.own
            R(i) == value_rank(K(i))
            C(i, j) == compare_values(K(i), K(j))
            D == 1 .. Len(items)
<1>1. \A i \in D : K(i) \in Value
  BY DEF Prepared
<1>2. \A i \in D : R(i) \in 0 .. 4 /\ K(i).at \in Nat
  BY <1>1 DEF Value, Kind, value_rank
<1>3. \A i, j \in D :
        /\ C(i, j) < 0 <=> R(i) < R(j) \/ (R(i) = R(j) /\ R(i) # 0 /\ K(i).at < K(j).at)
        /\ C(i, j) = 0 <=> R(i) = R(j) /\ (R(i) = 0 \/ K(i).at = K(j).at)
  BY <1>1, CompareIs
<1>4. \A i, j \in D :
        Less(i, j) <=> IF call.desc THEN C(j, i) < 0 \/ (C(j, i) = 0 /\ i < j)
                       ELSE C(i, j) < 0 \/ (C(i, j) = 0 /\ i < j)
  BY LessIs
<1>. DEFINE A(i) == K(i).at
<1>5. \A i \in D : i \in Nat /\ R(i) \in Nat /\ A(i) \in Nat
  BY <1>2
<1>6. \A i, j \in D :
        Less(i, j) <=>
          IF call.desc
          THEN \/ R(j) < R(i) \/ (R(j) = R(i) /\ R(j) # 0 /\ A(j) < A(i))
               \/ R(j) = R(i) /\ (R(j) = 0 \/ A(j) = A(i)) /\ i < j
          ELSE \/ R(i) < R(j) \/ (R(i) = R(j) /\ R(i) # 0 /\ A(i) < A(j))
               \/ R(i) = R(j) /\ (R(i) = 0 \/ A(i) = A(j)) /\ i < j
  BY <1>3, <1>4
<1>. HIDE DEF K, R, C, A
<1>7. \A i \in D : ~Less(i, i)
  BY <1>5, <1>6
<1>8. \A i, j \in D : i # j => Less(i, j) \/ Less(j, i)
  BY <1>5, <1>6
<1>9. ASSUME NEW i \in D, NEW j \in D, NEW k \in D, Less(i, j), Less(j, k)
      PROVE  Less(i, k)
  <2>1. CASE call.desc
    BY <1>5, <1>6, <1>9, <2>1
  <2>2. CASE ~call.desc
    BY <1>5, <1>6, <1>9, <2>2
  <2>. QED  BY <2>1, <2>2
<1>10. \A i, j \in D : Less(i, j) <=> <<i, j>> \in LessOf
  BY DEF LessOf
<1>. QED  BY <1>7, <1>8, <1>9, <1>10 DEF IsOrder

\* Sorted lists each of S once, those before another before it.
LEMMA SortedIs ==
  ASSUME Prepared(items), call.desc \in BOOLEAN, Len(items) \in Nat,
         NEW s \in SUBSET (1 .. Len(items))
  PROVE  /\ Cardinality(s) \in Nat /\ Sorted(s) \in [1 .. Cardinality(s) -> s]
         /\ \A i \in s : \E p \in 1 .. Cardinality(s) : Sorted(s)[p] = i
         /\ \A p, q \in 1 .. Cardinality(s) : p < q => Less(Sorted(s)[p], Sorted(s)[q])
<1>. DEFINE n == Len(items)
            c == Cardinality(s)
            b(i) == Cardinality(Before(LessOf, s, i))
<1>1. IsOrder(LessOf, 1 .. n) /\ \A i, j \in 1 .. n : Less(i, j) <=> <<i, j>> \in LessOf
  BY LessOrders
<1>2. /\ IsFiniteSet(s) /\ c \in Nat
      /\ \A i, j \in s : <<i, j>> \in LessOf => b(i) < b(j)
      /\ \A i \in s : b(i) \in 0 .. c - 1
      /\ \A p \in 1 .. c : \E i \in s : b(i) = p - 1
  BY <1>1, RanksAre
<1>3. \A i \in s : {j \in s : Less(j, i)} = Before(LessOf, s, i)
  BY <1>1 DEF Before
<1>4. Sorted(s) = [p \in 1 .. c |-> CHOOSE i \in s : Cardinality({j \in s : Less(j, i)}) = p - 1]
  BY DEF Sorted
<1>5. ASSUME NEW p \in 1 .. c
      PROVE  Sorted(s)[p] \in s /\ b(Sorted(s)[p]) = p - 1
  <2>1. \E i \in s : Cardinality({j \in s : Less(j, i)}) = p - 1
    BY <1>2, <1>3
  <2>2. Sorted(s)[p] = CHOOSE i \in s : Cardinality({j \in s : Less(j, i)}) = p - 1
    BY <1>4
  <2>3. Sorted(s)[p] \in s /\ Cardinality({j \in s : Less(j, Sorted(s)[p])}) = p - 1
    BY <2>1, <2>2
  <2>. QED  BY <1>3, <2>3
<1>. HIDE DEF b
<1>6. \A i, j \in s : i # j => <<i, j>> \in LessOf \/ <<j, i>> \in LessOf
  BY <1>1 DEF IsOrder
<1>7. \A i \in s : b(i) \in Nat
  BY <1>2
<1>8. ASSUME NEW i \in s, NEW j \in s, <<i, j>> \notin LessOf, i # j
      PROVE  b(j) < b(i)
  BY <1>2, <1>6, <1>8
<1>9. ASSUME NEW i \in s
      PROVE  \E p \in 1 .. c : Sorted(s)[p] = i
  <2>1. b(i) + 1 \in 1 .. c
    BY <1>2, <1>7
  <2>2. Sorted(s)[b(i) + 1] \in s /\ b(Sorted(s)[b(i) + 1]) = b(i)
    BY <1>5, <1>7, <2>1
  <2>3. Sorted(s)[b(i) + 1] = i
    <3>1. ASSUME NEW j \in s, b(j) = b(i), j # i
          PROVE  FALSE
      <4>1. b(i) < b(j) \/ b(j) < b(i)
        BY <1>2, <1>6, <3>1
      <4>. QED  BY <1>7, <3>1, <4>1
    <3>. QED  BY <2>2, <3>1
  <2>. QED  BY <2>1, <2>3
<1>10. ASSUME NEW p \in 1 .. c, NEW q \in 1 .. c, p < q
       PROVE  Less(Sorted(s)[p], Sorted(s)[q])
  <2>1. b(Sorted(s)[p]) < b(Sorted(s)[q]) /\ Sorted(s)[p] \in s /\ Sorted(s)[q] \in s
    BY <1>2, <1>5, <1>10
  <2>2. <<Sorted(s)[p], Sorted(s)[q]>> \in LessOf
    <3>1. ASSUME NEW i \in s, NEW j \in s, b(i) < b(j)
          PROVE  <<i, j>> \in LessOf
      <4>1. i # j /\ ~(b(j) < b(i))
        BY <1>7, <3>1
      <4>. QED  BY <1>8, <4>1
    <3>. QED  BY <2>1, <3>1
  <2>. QED  BY <1>1, <2>1, <2>2
<1>11. Sorted(s) \in [1 .. c -> s]
  BY <1>4, <1>5
<1>. QED  BY <1>2, <1>9, <1>10, <1>11

-----------------------------------------------------------------------------
(* SORT and TOP.                                                            *)

SortItem == [item : Yields, key : Yields \cup {Own(v) : v \in Value}, idx : Rows]

\* The heap holds as many as it may of the rows seen, and none outside precedes one inside.
HeapOK ==
  /\ heap \in SUBSET (1 .. visit - 1)
  /\ Cardinality(heap) = Least(call.limit, visit - 1)
  /\ \A i \in heap, j \in (1 .. visit - 1) \ heap : Less(i, j)

\* Every item shows what its visit was given, and has its key: while bodies may write,
\* the very one it was given, and once they have all run, what that then was.
SortInv ==
  call.op \in {"SORT", "TOP"} =>
    /\ pc \in {"visit", "select", "finish"} =>
         /\ items \in Seq(SortItem) /\ Len(items) = Len(given)
         /\ \A i \in 1 .. Len(items) :
              /\ items[i].idx = i /\ given[i].of = i /\ Now(items[i].item) = given[i].val
              /\ eager => ~IsLent(items[i].item)
    /\ pc = "visit" =>
         /\ heap = {} /\ Len(given) = visit - 1 /\ visit <= N + 1
         /\ \A i \in 1 .. Len(items) : items[i].key = given[i].key
    /\ pc \in {"select", "finish"} =>
         /\ Len(items) = N
         /\ \A i \in 1 .. N : items[i].key = Own(KeyOf(given[i]))
    /\ pc = "select" => visit <= N + 1 /\ call.limit > 0 /\ HeapOK
    /\ SortedAsCollected

\* Where an element is lent until the end, no key is computed that writes.
LEMMA DeferredReads ==
  ASSUME TypeInv, call.op \in {"SORT", "TOP"}, Write
  PROVE  eager /\ pc = "visit"
<1>1. Body = "writes"
  BY DEF Write, Writes
<1>2. pc = "visit" /\ call.keyed /\ call.body = "writes"
  BY <1>1 DEF Body, TypeInv
<1>. QED  BY <1>2 DEF eager, may_write

\* A key, as it stands in the order, is a scalar or NULL.
LEMMA KeysAre ==
  ASSUME TypeInv, NEW i \in 1 .. Len(given)
  PROVE  given[i] \in Given /\ Now(given[i].key) \in Value /\ KeyOf(given[i]) \in Value
<1>1. given[i] \in Given
  BY DEF TypeInv
<1>2. Now(given[i].key) \in Value
  BY <1>1, NowIs, CallIs DEF TypeInv, Given
<1>. DEFINE v == Now(given[i].key)
<1>. HIDE DEF v
<1>3. v \in Value
  BY <1>2 DEF v
<1>4. scalar_source(v) \in Value
  <2>1. CASE v.kind = "none" /\ v.kids
    BY <1>3, <2>1 DEF scalar_source, Value, Kind
  <2>. QED  BY <1>3, <2>1 DEF scalar_source
<1>. QED  BY <1>1, <1>2, <1>4 DEF KeyOf, v

\* The order of the items is that of what was given.
LEMMA PrecedesIs ==
  ASSUME TypeInv, SortInv, call.op \in {"SORT", "TOP"}, pc \in {"select", "finish"}
  PROVE  /\ Prepared(items) /\ call.desc \in BOOLEAN /\ Len(items) = N /\ N \in Nat
         /\ \A i, j \in 1 .. N : Precedes(given[i], given[j]) <=> Less(i, j)
<1>1. /\ items \in Seq(SortItem) /\ Len(items) = Len(given) /\ Len(items) = N
      /\ \A i \in 1 .. Len(items) : items[i].idx = i /\ given[i].of = i
      /\ \A i \in 1 .. N : items[i].key = Own(KeyOf(given[i]))
  BY DEF SortInv
<1>2. call.desc \in BOOLEAN /\ N \in Nat
  BY CallIs DEF TypeInv
<1>3. \A i \in 1 .. N : KeyOf(given[i]) \in Value /\ items[i].key.own = KeyOf(given[i])
  <2>1. \A i \in 1 .. N : KeyOf(given[i]) \in Value
    BY <1>1, KeysAre
  <2>2. \A v : Own(v).own = v
    BY DEF Own
  <2>. QED  BY <1>1, <2>1, <2>2
<1>4. Prepared(items)
  BY <1>1, <1>3 DEF Prepared
<1>5. ASSUME NEW i \in 1 .. N, NEW j \in 1 .. N
      PROVE  Precedes(given[i], given[j]) <=> Less(i, j)
  <2>1. LET a == items[i].key.own  b == items[j].key.own
            c == IF call.desc THEN compare_values(b, a) ELSE compare_values(a, b)
        IN  Less(i, j) <=> c < 0 \/ (c = 0 /\ i < j)
    BY <1>1, <1>2, <1>4, LessIs
  <2>2. items[i].key.own = KeyOf(given[i]) /\ items[j].key.own = KeyOf(given[j])
        /\ given[i].of = i /\ given[j].of = j
    BY <1>1, <1>3
  <2>. QED  BY <2>1, <2>2 DEF Precedes
<1>. QED  BY <1>1, <1>2, <1>4, <1>5

\* One more row is seen.
LEMMA SelectStep ==
  ASSUME TypeInv, SortInv, select_top_indices
  PROVE  HeapOK' /\ visit' <= N' + 1
<1>1. /\ pc = "select" /\ call.op = "TOP" /\ visit \in Nat \ {0} /\ visit <= N /\ N \in Nat
      /\ visit' = visit + 1 /\ items' = items /\ call' = call
  BY CallIs DEF TypeInv, select_top_indices
<1>2. Prepared(items) /\ call.desc \in BOOLEAN /\ Len(items) = N
  BY <1>1, PrecedesIs
<1>3. HeapOK /\ call.limit > 0 /\ call.limit \in Nat
  BY <1>1, CallIs DEF SortInv, TypeInv
<1>4. IsOrder(LessOf, 1 .. N) /\ \A i, j \in 1 .. N : Less(i, j) <=> <<i, j>> \in LessOf
  BY <1>1, <1>2, LessOrders
<1>. DEFINE V == 1 .. visit - 1
            c == Cardinality(heap)
<1>5. heap \in SUBSET V /\ c = Least(call.limit, visit - 1)
      /\ \A i \in heap, j \in V \ heap : Less(i, j)
  BY <1>3 DEF HeapOK
<1>6. IsFiniteSet(V) /\ Cardinality(V) = visit - 1
  <2>1. 1 \in Int /\ visit - 1 \in Int
    BY <1>1
  <2>2. IsFiniteSet(V) /\ Cardinality(V) = IF 1 > visit - 1 THEN 0 ELSE visit - 1 - 1 + 1
    BY <2>1, FS_Interval
  <2>. QED  BY <1>1, <2>2
<1>7. IsFiniteSet(heap) /\ c \in Nat /\ (Cardinality(V) = c => V = heap)
  <2>1. IsFiniteSet(heap) /\ (Cardinality(V) = c => V = heap)
    BY <1>5, <1>6, FS_Subset
  <2>. QED  BY <2>1, FS_CardinalityType
<1>8. visit' - 1 = visit /\ 1 .. visit = V \cup {visit} /\ visit \notin V
      /\ visit \in 1 .. N /\ V \subseteq 1 .. N
  BY <1>1
<1>9. \A i, j : Less(i, j)' <=> Less(i, j)
  BY <1>1 DEF Less, compare_sort_keys
<1>10. SUFFICES /\ heap' \in SUBSET (V \cup {visit})
                /\ Cardinality(heap') = Least(call.limit, visit)
                /\ \A i \in heap', j \in (V \cup {visit}) \ heap' : Less(i, j)
  <2>1. N' = N
    BY <1>1 DEF N
  <2>. QED  BY <1>1, <1>8, <1>9, <2>1 DEF HeapOK
<1>. HIDE DEF V, c
<1>11. CASE c < call.limit
  <2>1. heap' = heap \cup {visit}
    <3>1. Cardinality(heap) < call.limit /\ ~(Cardinality(heap) >= call.limit)
      BY <1>3, <1>7, <1>11 DEF c
    <3>. QED  BY <3>1 DEF select_top_indices
  <2>2. c = visit - 1 /\ Least(call.limit, visit) = visit
    BY <1>1, <1>3, <1>5, <1>11 DEF Least
  <2>3. heap = V
    BY <1>6, <1>7, <2>2
  <2>4. Cardinality(heap') = visit
    BY <1>1, <1>6, <1>8, <2>1, <2>3, FS_AddElement
  <2>. QED  BY <2>1, <2>2, <2>3, <2>4
<1>12. CASE ~(c < call.limit)
  <2>1. c = call.limit /\ Least(call.limit, visit) = call.limit /\ c >= call.limit
    BY <1>1, <1>3, <1>5, <1>12 DEF Least
  <2>2. heap # {}
    BY <1>3, <2>1, FS_EmptySet DEF c
  <2>3. Root \in heap /\ \A j \in heap : j = Root \/ Less(j, Root)
    <3>1. heap \in SUBSET (1 .. N)
      BY <1>5, <1>8
    <3>2. \E r \in heap : \A j \in heap : j = r \/ <<j, r>> \in LessOf
      BY <1>1, <1>4, <2>2, <3>1, LastExists
    <3>3. \E r \in heap : \A j \in heap : j = r \/ Less(j, r)
      BY <1>4, <3>1, <3>2
    <3>. QED  BY <3>3 DEF Root
  <2>4. \A i, j, k \in 1 .. N : /\ Less(i, j) /\ Less(j, k) => Less(i, k)
                                /\ i # j => Less(i, j) \/ Less(j, i)
    BY <1>4 DEF IsOrder
  <2>5. \A i \in heap : i \in 1 .. N
    BY <1>5, <1>8
  <2>6. visit \notin heap
    BY <1>5, <1>8
  <2>7. CASE Less(visit, Root)
    <3>1. heap' = (heap \ {Root}) \cup {visit}
      BY <2>1, <2>7 DEF select_top_indices, c
    <3>2. Cardinality(heap') = call.limit
      <4>1. IsFiniteSet(heap \ {Root}) /\ Cardinality(heap \ {Root}) = c - 1
        BY <1>7, <2>3, FS_RemoveElement DEF c
      <4>2. Cardinality(heap') = c - 1 + 1
        BY <2>6, <3>1, <4>1, FS_AddElement
      <4>. QED  BY <1>3, <2>1, <4>2
    <3>3. ASSUME NEW i \in heap', NEW j \in (V \cup {visit}) \ heap'
          PROVE  Less(i, j)
      <4>1. /\ i = visit \/ (i \in heap /\ Less(i, Root))
            /\ j = Root \/ (j \in V \ heap /\ Less(Root, j))
            /\ i \in 1 .. N /\ j \in 1 .. N /\ Root \in 1 .. N
        BY <1>5, <1>8, <2>3, <2>5, <3>1
      <4>2. Less(i, Root)
        BY <2>7, <4>1
      <4>. QED  BY <2>4, <4>1, <4>2
    <3>4. heap' \in SUBSET (V \cup {visit})
      BY <1>5, <3>1
    <3>. QED  BY <2>1, <3>2, <3>3, <3>4
  <2>8. CASE ~Less(visit, Root)
    <3>1. heap' = heap
      BY <1>12, <2>8 DEF select_top_indices, c
    <3>2. Less(Root, visit)
      BY <1>8, <2>3, <2>4, <2>5, <2>6, <2>8
    <3>3. \A i \in heap : Less(i, visit)
      BY <1>8, <2>3, <2>4, <2>5, <3>2
    <3>. QED  BY <1>5, <2>1, <3>1, <3>3 DEF c
  <2>. QED  BY <2>7, <2>8
<1>. QED  BY <1>11, <1>12

\* The first m of s in order, and a choice of places that come before all others.
FirstOf(s, m) == [p \in 1 .. m |-> Sorted(s)[p]]
Leads(out, m) ==
  /\ out \in [1 .. m -> 1 .. N]
  /\ \A p \in DOMAIN out, i \in 1 .. N :
       (\A q \in 1 .. p : out[q] # i) => Less(out[p], i)

\* What is chosen: as many as are asked for, before all the rows that are not, in order.
LEMMA ChosenIs ==
  ASSUME TypeInv, SortInv, call.op \in {"SORT", "TOP"},
         pc = "finish" \/ (pc = "select" /\ visit > N)
  PROVE  Leads(Chosen, IF call.op = "SORT" THEN N ELSE Least(call.limit, N))
<1>1. /\ Prepared(items) /\ call.desc \in BOOLEAN /\ Len(items) = N /\ N \in Nat
      /\ call.limit \in Nat
  BY PrecedesIs, CallIs DEF TypeInv
<1>2. ASSUME NEW s \in SUBSET (1 .. N), \A i \in s, j \in (1 .. N) \ s : Less(i, j),
             NEW m \in 0 .. Cardinality(s)
      PROVE  Leads(FirstOf(s, m), m)
  <2>. DEFINE out == FirstOf(s, m)
  <2>1. /\ Cardinality(s) \in Nat /\ Sorted(s) \in [1 .. Cardinality(s) -> s]
        /\ \A i \in s : \E p \in 1 .. Cardinality(s) : Sorted(s)[p] = i
        /\ \A p, q \in 1 .. Cardinality(s) : p < q => Less(Sorted(s)[p], Sorted(s)[q])
    BY <1>1, SortedIs
  <2>2. \A p \in 1 .. m : p \in 1 .. Cardinality(s) /\ out[p] = Sorted(s)[p] /\ out[p] \in s
    BY <1>2, <2>1 DEF FirstOf
  <2>3. ASSUME NEW p \in 1 .. m, NEW i \in 1 .. N, \A q \in 1 .. p : out[q] # i
        PROVE  Less(out[p], i)
    <3>1. CASE i \notin s
      BY <1>2, <2>2, <3>1
    <3>2. CASE i \in s
      <4>1. PICK r \in 1 .. Cardinality(s) : Sorted(s)[r] = i
        BY <2>1, <3>2
      <4>2. ~(r <= p)
        <5>1. ASSUME r <= p
              PROVE  FALSE
          <6>1. r \in 1 .. m /\ r \in 1 .. p
            BY <5>1
          <6>. QED  BY <2>2, <2>3, <4>1, <6>1
        <5>. QED  BY <5>1
      <4>3. p < r
        BY <4>2
      <4>. QED  BY <2>1, <2>2, <4>1, <4>3
    <3>. QED  BY <3>1, <3>2
  <2>4. DOMAIN out = 1 .. m /\ out \in [1 .. m -> 1 .. N]
    BY <2>2 DEF FirstOf
  <2>. QED  BY <2>3, <2>4 DEF Leads
<1>3. CASE pc = "select" /\ visit > N
  <2>1. visit - 1 = N /\ HeapOK /\ call.op = "TOP"
    BY <1>1, <1>3 DEF SortInv, TypeInv
  <2>2. /\ heap \in SUBSET (1 .. N) /\ Cardinality(heap) = Least(call.limit, N)
        /\ \A i \in heap, j \in (1 .. N) \ heap : Less(i, j)
    BY <2>1 DEF HeapOK
  <2>3. Chosen = Sorted(heap)
    BY <1>3 DEF Chosen
  <2>4. Cardinality(heap) \in Nat /\ Sorted(heap) \in [1 .. Cardinality(heap) -> heap]
    BY <1>1, <2>2, SortedIs
  <2>5. Chosen = FirstOf(heap, Cardinality(heap))
    BY <2>3, <2>4 DEF FirstOf
  <2>6. Cardinality(heap) \in 0 .. Cardinality(heap)
    BY <2>4
  <2>7. Leads(Chosen, Cardinality(heap))
    BY <1>2, <2>2, <2>5, <2>6
  <2>. QED  BY <2>1, <2>2, <2>7
<1>4. CASE pc = "finish"
  <2>. DEFINE s == 1 .. N
  <2>1. DOMAIN items = s
    BY <1>1, <1>4 DEF SortInv
  <2>2. Cardinality(s) = N
    <3>1. 1 \in Int /\ N \in Int
      BY <1>1
    <3>2. Cardinality(s) = IF 1 > N THEN 0 ELSE N - 1 + 1
      BY <3>1, FS_Interval
    <3>. QED  BY <1>1, <3>2
  <2>3. Sorted(s) \in [1 .. N -> s]
    BY <1>1, <2>2, SortedIs
  <2>4. CASE call.op = "SORT"
    <3>1. Chosen = Sorted(s)
      BY <1>4, <2>1, <2>4 DEF Chosen
    <3>2. Chosen = FirstOf(s, N) /\ N \in 0 .. Cardinality(s)
      BY <1>1, <2>2, <2>3, <3>1 DEF FirstOf
    <3>3. Leads(Chosen, N)
      BY <1>2, <3>2
    <3>. QED  BY <2>4, <3>3
  <2>5. CASE call.op = "TOP"
    <3>. DEFINE m == Least(call.limit, N)
    <3>1. Chosen = SubSeq(Sorted(s), 1, m)
      BY <1>1, <1>4, <2>1, <2>5 DEF Chosen
    <3>2. m \in 0 .. N
      BY <1>1 DEF Least
    <3>3. Chosen = FirstOf(s, m)
      <4>. HIDE DEF m
      <4>1. Sorted(s) \in Seq(s) /\ Len(Sorted(s)) = N
        BY <1>1, <2>3
      <4>. HIDE DEF s
      <4>. QED  BY <1>1, <3>1, <3>2, <4>1 DEF FirstOf
    <3>4. m \in 0 .. Cardinality(s)
      BY <2>2, <3>2
    <3>5. Leads(Chosen, m)
      <4>. HIDE DEF m
      <4>. QED  BY <1>2, <3>3, <3>4
    <3>. QED  BY <2>5, <3>5
  <2>. QED  BY <2>4, <2>5
<1>. QED  BY <1>3, <1>4

\* A row is collected with its key.
LEMMA SortVisit ==
  ASSUME TypeInv, SortInv, CollectWithKey, call.op \in {"SORT", "TOP"}
  PROVE  SortInv'
<1>1. pc = "visit" /\ visit <= N
  BY DEF CollectWithKey
<1>2. visit \in Rows /\ visit \in Nat /\ N \in Nat /\ Rows = 1 .. N
  BY <1>1, CallIs DEF TypeInv
<1>3. Lent(visit) \in Yields
  BY <1>2, RefsAre
<1>4. PICK key \in SortKeys :
        /\ Visited(Lent(visit), key)
        /\ \/ Raise("E_DEPTH")
           \/ /\ items' = Append(items, [item |-> Item(visit), key |-> key, idx |-> visit])
              /\ GoOn
  BY DEF CollectWithKey
<1>5. key \in Yields
  BY <1>3 DEF SortKeys
<1>6. CASE Raise("E_DEPTH")
  BY <1>6 DEF SortInv, SortedAsCollected, Ended, Raise
<1>7. CASE GoOn /\ items' = Append(items, [item |-> Item(visit), key |-> key, idx |-> visit])
  <2>. DEFINE new == [item |-> Item(visit), key |-> key, idx |-> visit]
  <2>1. /\ call' = call /\ rows' = rows /\ pc' = "visit" /\ heap' = heap /\ error' = error
        /\ visit' = visit + 1
    BY <1>1, <1>7 DEF GoOn
  <2>2. /\ N' = N /\ Rows' = Rows /\ SortItem' = SortItem /\ eager' = eager
    BY <2>1 DEF N, Rows, SortItem, Yields, Values, Lent, Own, eager, may_write
  <2>3. Item(visit) \in Yields /\ Now(Item(visit)) = rows[visit]
        /\ (eager => ~IsLent(Item(visit)))
    <3>1. Now(Lent(visit)) = rows[visit] /\ rows[visit] \in Values
      BY <1>2, RefsAre DEF TypeInv
    <3>. QED  BY <1>3, <3>1, RefsAre DEF Item, Copied
  <2>4. new \in SortItem
    BY <1>2, <1>5, <2>3 DEF SortItem
  <2>5. /\ items \in Seq(SortItem) /\ Len(items) = Len(given) /\ heap = {}
        /\ Len(given) = visit - 1
        /\ \A i \in 1 .. Len(items) :
              /\ items[i].idx = i /\ given[i].of = i /\ Now(items[i].item) = given[i].val
              /\ eager => ~IsLent(items[i].item)
              /\ items[i].key = given[i].key
    BY <1>1 DEF SortInv
  <2>6. items' = Append(items, new)
    BY <1>7
  <2>7. new.item = Item(visit) /\ new.key = key /\ new.idx = visit
    OBVIOUS
  <2>. HIDE DEF new
  <2>8. /\ items' \in Seq(SortItem) /\ Len(items') = Len(items) + 1
        /\ \A i \in 1 .. Len(items) : items'[i] = items[i]
        /\ items'[Len(items) + 1] = new
    BY <2>4, <2>5, <2>6
  <2>9. /\ Len(given') = Len(given) + 1
        /\ \A i \in 1 .. Len(given) : given'[i] = given[i]
        /\ given'[Len(given) + 1].of = visit /\ given'[Len(given) + 1].val = rows[visit]
        /\ given'[Len(given) + 1].key = key
    <3>1. Now(Lent(visit)) = rows[visit]
      BY RefsAre
    <3>. QED  BY <1>1, <1>3, <1>4, <1>5, <3>1, VisitedIs
  <2>10. ASSUME NEW i \in 1 .. Len(items')
         PROVE  /\ items'[i].idx = i /\ given'[i].of = i
                /\ Now(items[i].item)' = given'[i].val
                /\ eager => ~IsLent(items'[i].item)
                /\ items'[i].key = given'[i].key
    <3>1. CASE i \in 1 .. Len(items)
      <4>1. items'[i] = items[i] /\ given'[i] = given[i]
        BY <2>5, <2>8, <2>9, <3>1
      <4>2. Now(items[i].item)' = Now(items[i].item)
        BY <2>1, <4>1 DEF Now, IsLent
      <4>. QED  BY <2>5, <3>1, <4>1, <4>2
    <3>2. CASE i = Len(items) + 1
      <4>1. items'[i] = new /\ i = visit /\ i = Len(given) + 1
        BY <1>2, <2>5, <2>8, <3>2
      <4>2. Now(items[i].item)' = Now(Item(visit))
        BY <2>1, <2>7, <4>1 DEF Now, IsLent
      <4>. QED  BY <2>3, <2>7, <2>9, <4>1, <4>2
    <3>. QED  BY <2>5, <2>8, <3>1, <3>2
  <2>11. SortedAsCollected'
    BY <2>1 DEF SortedAsCollected, Ended
  <2>12. \A i \in 1 .. Len(items') : (eager => ~IsLent(items[i].item))'
    BY <2>2, <2>10 DEF IsLent
  <2>13. Len(items') = Len(given') /\ Len(given') = visit' - 1 /\ visit' <= N + 1
    BY <1>1, <1>2, <2>1, <2>5, <2>8, <2>9
  <2>. QED  BY <2>1, <2>2, <2>5, <2>8, <2>10, <2>11, <2>12, <2>13 DEF SortInv
<1>. QED  BY <1>4, <1>6, <1>7

\* All keys are there: each is read.
LEMMA PrepareStep ==
  ASSUME TypeInv, SortInv, prepare_sort_keys
  PROVE  SortInv'
<1>1. /\ call.op \in {"SORT", "TOP"} /\ pc = "visit" /\ visit > N
      /\ items' = [i \in DOMAIN items |-> [items[i] EXCEPT !.key = Own(scalar_source(Now(@)))]]
      /\ pc' \in {"select", "finish"} /\ (pc' = "select" => call.limit > 0)
      /\ visit' = 1 /\ UNCHANGED <<call, rows, groups, heap, answer, error, given>>
  BY DEF prepare_sort_keys
<1>2. N \in Nat /\ call.limit \in Nat /\ visit \in Nat
  BY CallIs DEF TypeInv
<1>3. /\ items \in Seq(SortItem) /\ Len(items) = Len(given) /\ heap = {}
      /\ Len(given) = visit - 1 /\ visit <= N + 1
      /\ \A i \in 1 .. Len(items) :
              /\ items[i].idx = i /\ given[i].of = i /\ Now(items[i].item) = given[i].val
              /\ eager => ~IsLent(items[i].item)
              /\ items[i].key = given[i].key
  BY <1>1 DEF SortInv
<1>4. Len(items) = N
  BY <1>1, <1>2, <1>3
<1>5. /\ N' = N /\ Rows' = Rows /\ SortItem' = SortItem /\ eager' = eager
  BY <1>1 DEF N, Rows, SortItem, Yields, Values, Lent, Own, eager, may_write
<1>6. ASSUME NEW i \in 1 .. N
      PROVE  /\ items'[i] = [items[i] EXCEPT !.key = Own(KeyOf(given[i]))]
             /\ KeyOf(given[i]) \in Value /\ items[i] \in SortItem
  <2>1. i \in DOMAIN items /\ items[i] \in SortItem /\ items[i].key = given[i].key
    BY <1>3, <1>4
  <2>2. items'[i] = [items[i] EXCEPT !.key = Own(scalar_source(Now(items[i].key)))]
    BY <1>1, <2>1
  <2>. QED  BY <1>3, <1>4, <2>1, <2>2, KeysAre DEF KeyOf
<1>7. ASSUME NEW i \in 1 .. N
      PROVE  /\ items'[i] \in SortItem /\ items'[i].item = items[i].item
             /\ items'[i].idx = items[i].idx /\ items'[i].key = Own(KeyOf(given[i]))
  <2>1. Own(KeyOf(given[i])) \in Yields \cup {Own(v) : v \in Value}
    BY <1>6
  <2>2. PICK key : key = Own(KeyOf(given[i]))
    OBVIOUS
  <2>3. items'[i] = [items[i] EXCEPT !.key = key] /\ items[i] \in SortItem
    BY <1>6, <2>2
  <2>. QED  BY <2>1, <2>2, <2>3 DEF SortItem
<1>8. items' \in Seq(SortItem) /\ Len(items') = N
  <2>1. DOMAIN items' = 1 .. N
    BY <1>1, <1>3, <1>4
  <2>2. items' \in [1 .. N -> SortItem]
    <3>1. items' = [i \in 1 .. N |-> items'[i]]
      BY <1>1, <2>1
    <3>. QED  BY <1>7, <3>1
  <2>. QED  BY <1>2, <2>2
<1>9. ASSUME NEW i \in 1 .. N
      PROVE  /\ Now(items[i].item)' = given'[i].val /\ (eager' => ~IsLent(items[i].item)')
             /\ items'[i].key = Own(KeyOf(given[i])')
  <2>1. Now(items[i].item)' = Now(items[i].item) /\ IsLent(items[i].item)' = IsLent(items[i].item)
    <3>1. items'[i].item = items[i].item /\ rows' = rows
      BY <1>1, <1>7
    <3>. QED  BY <3>1 DEF Now, IsLent
  <2>2. KeyOf(given[i])' = KeyOf(given[i])
    BY <1>1 DEF KeyOf, Now, IsLent, scalar_source
  <2>. QED  BY <1>1, <1>3, <1>4, <1>5, <1>7, <2>1, <2>2
<1>10. ASSUME pc' = "select"
       PROVE  HeapOK'
  <2>1. heap' = {} /\ Cardinality({}) = 0 /\ visit' - 1 = 0
    BY <1>1, <1>3, FS_EmptySet
  <2>2. Least(call.limit, 0) = 0
    BY <1>2 DEF Least
  <2>. QED  BY <1>1, <2>1, <2>2 DEF HeapOK
<1>11. SortedAsCollected'
  BY <1>1 DEF SortedAsCollected, Ended
<1>12. visit' <= N + 1
  BY <1>1, <1>2
<1>13. \A i \in 1 .. N : Own(KeyOf(given[i]))' = Own(KeyOf(given[i])')
  BY DEF Own
<1>. QED  BY <1>1, <1>3, <1>4, <1>5, <1>7, <1>8, <1>9, <1>10, <1>11, <1>12, <1>13 DEF SortInv

\* The answer is made.
LEMMA YieldStep ==
  ASSUME TypeInv, SortInv, YieldSorted
  PROVE  SortedAsCollected' /\ pc' = "done"
<1>1. /\ call.op \in {"SORT", "TOP"}
      /\ pc = "finish" \/ (pc = "select" /\ visit > N)
      /\ answer' = [p \in DOMAIN Chosen |->
                     [of |-> items[Chosen[p]].idx, val |-> Now(items[Chosen[p]].item)]]
      /\ pc' = "done" /\ UNCHANGED <<call, rows, given, error>>
  BY DEF YieldSorted
<1>2. PICK L : L = IF call.op = "SORT" THEN N ELSE Least(call.limit, N)
  OBVIOUS
<1>3. N \in Nat /\ L \in Nat /\ Rows = 1 .. N
  BY <1>2, CallIs DEF TypeInv, Least
<1>4. Leads(Chosen, L)
  BY <1>1, <1>2, ChosenIs
<1>5. /\ \A i \in 1 .. N : items[i].idx = i /\ given[i].of = i /\ Now(items[i].item) = given[i].val
      /\ \A i, j \in 1 .. N : Precedes(given[i], given[j]) <=> Less(i, j)
  BY <1>1, PrecedesIs DEF SortInv
<1>6. DOMAIN Chosen = 1 .. L /\ \A p \in 1 .. L : Chosen[p] \in 1 .. N
  BY <1>4 DEF Leads
<1>7. \A p \in 1 .. L : answer'[p].of = Chosen[p] /\ answer'[p].val = given[Chosen[p]].val
  BY <1>1, <1>5, <1>6
<1>8. DOMAIN answer' = 1 .. L /\ Len(answer') = L
  <2>1. answer' \in [1 .. L -> {answer'[p] : p \in 1 .. L}]
    BY <1>1, <1>6
  <2>2. answer' \in Seq({answer'[p] : p \in 1 .. L})
    BY <1>3, <2>1
  <2>. QED  BY <1>3, <2>1, <2>2
<1>9. ASSUME NEW p \in 1 .. L, NEW i \in 1 .. N, \A q \in 1 .. p : answer'[q].of # i
      PROVE  Precedes(given[answer'[p].of], given[i])
  <2>1. \A q \in 1 .. p : q \in 1 .. L
    BY <1>3
  <2>2. \A q \in 1 .. p : Chosen[q] # i
    BY <1>7, <1>9, <2>1
  <2>3. Less(Chosen[p], i)
    BY <1>4, <1>6, <2>2 DEF Leads
  <2>. QED  BY <1>5, <1>6, <1>7, <2>3
<1>10. \A e, f : Precedes(e, f)' <=> Precedes(e, f)
  <2>1. \A x : Now(x)' = Now(x)
    BY <1>1 DEF Now
  <2>2. \A e : KeyOf(e)' = KeyOf(e)
    BY <2>1 DEF KeyOf
  <2>. QED  BY <1>1, <2>2 DEF Precedes
<1>11. N' = N /\ Rows' = Rows
  BY <1>1 DEF N, Rows
<1>12. \A p \in DOMAIN answer' : answer'[p].val = given'[answer'[p].of].val
  BY <1>1, <1>7, <1>8
<1>13. ASSUME NEW p \in DOMAIN answer', NEW i \in Rows', \A q \in 1 .. p : answer'[q].of # i
       PROVE  Precedes(given[answer[p].of], given[i])'
  <2>1. Precedes(given[answer'[p].of], given[i])
    BY <1>3, <1>8, <1>9, <1>11, <1>13
  <2>2. PICK e, f : e = given[answer'[p].of] /\ f = given[i]
    OBVIOUS
  <2>3. Precedes(e, f)'
    BY <1>10, <2>1, <2>2
  <2>4. e = given'[answer'[p].of] /\ f = given'[i]
    BY <1>1, <2>2
  <2>. QED  BY <2>3, <2>4 DEF Precedes, KeyOf, Now, IsLent
<1>. QED  BY <1>1, <1>2, <1>8, <1>11, <1>12, <1>13 DEF SortedAsCollected

LEMMA SortStep ==
  ASSUME TypeInv, SortInv, [Next]_vars
  PROVE  SortInv'
<1>1. /\ call' = call /\ N' = N /\ Rows' = Rows /\ Values' = Values /\ Yields' = Yields
  BY CallKept
<1>2. SortItem' = SortItem /\ eager' = eager
  BY <1>1 DEF SortItem, Own, eager, may_write
<1>3. SUFFICES ASSUME call.op \in {"SORT", "TOP"}
               PROVE  SortInv'
  BY <1>1 DEF SortInv
<1>4. pc \in {"visit", "select", "finish", "done"}
  BY <1>3 DEF TypeInv
<1>5. CASE UNCHANGED vars
  <2>1. UNCHANGED <<call, rows, pc, visit, items, heap, answer, error, given>>
    BY <1>5 DEF vars
  <2>2. \A i : Now(items[i].item)' = Now(items[i].item) /\ KeyOf(given[i])' = KeyOf(given[i])
               /\ IsLent(items[i].item)' = IsLent(items[i].item)
    BY <2>1 DEF KeyOf, Now, IsLent, scalar_source
  <2>3. HeapOK' <=> HeapOK
    BY <2>1 DEF HeapOK, Less, compare_sort_keys
  <2>4. \A e, f : Precedes(e, f)' <=> Precedes(e, f)
    BY SMTT(30), <2>1 DEF Precedes, KeyOf, Now, IsLent, scalar_source, compare_values, value_rank
  <2>5. SortedAsCollected'
    <3>1. SortedAsCollected
      BY <1>3 DEF SortInv
    <3>. QED  BY <1>1, <2>1, <3>1 DEF SortedAsCollected, Ended, Precedes, KeyOf, Now, IsLent
  <2>6. \A i : Own(KeyOf(given[i]))' = Own(KeyOf(given[i]))
    BY <2>2 DEF Own
  <2>. QED  BY <1>1, <1>2, <1>3, <2>1, <2>2, <2>3, <2>5, <2>6 DEF SortInv
<1>6. CASE Again
  <2>1. /\ pc' = "visit" /\ items' = <<>> /\ given' = <<>> /\ heap' = {} /\ visit' = 1
    BY <1>6 DEF Again
  <2>2. <<>> \in Seq(SortItem) /\ Len(<<>>) = 0 /\ N \in Nat
    BY CallIs DEF TypeInv
  <2>3. SortedAsCollected'
    BY <2>1 DEF SortedAsCollected, Ended
  <2>. QED  BY <1>1, <1>2, <2>1, <2>2, <2>3 DEF SortInv
<1>7. CASE Write
  <2>1. eager /\ pc = "visit"
    BY <1>3, <1>7, DeferredReads
  <2>2. UNCHANGED <<pc, visit, items, heap, answer, error, given>>
    BY <1>7 DEF Write
  <2>3. ASSUME NEW i \in 1 .. Len(items)
        PROVE  Now(items[i].item)' = given'[i].val /\ (eager' => ~IsLent(items[i].item)')
    <3>1. ~IsLent(items[i].item) /\ Now(items[i].item) = given[i].val
      BY <1>3, <2>1 DEF SortInv
    <3>. QED  BY <2>2, <3>1 DEF Now, IsLent
  <2>4. SortedAsCollected'
    BY <2>1, <2>2 DEF SortedAsCollected, Ended
  <2>. QED  BY <1>1, <1>2, <1>3, <2>1, <2>2, <2>3, <2>4 DEF SortInv
<1>8. CASE BodyRaises
  <2>1. pc' = "done" /\ error' = "E_BODY"
    BY <1>8 DEF BodyRaises, Raise
  <2>. QED  BY <2>1 DEF SortInv, SortedAsCollected, Ended
<1>9. CASE do_sort \/ do_top
  BY <1>3, <1>9, SortVisit DEF do_sort, do_top
<1>10. CASE prepare_sort_keys
  BY <1>10, PrepareStep
<1>11. CASE select_top_indices
  <2>1. HeapOK' /\ visit' <= N' + 1
    BY <1>11, SelectStep
  <2>2. pc = "select" /\ UNCHANGED <<call, rows, pc, items, answer, error, given>>
    BY <1>11 DEF select_top_indices
  <2>3. \A i : Now(items[i].item)' = Now(items[i].item) /\ KeyOf(given[i])' = KeyOf(given[i])
               /\ IsLent(items[i].item)' = IsLent(items[i].item)
    BY <2>2 DEF KeyOf, Now, IsLent, scalar_source
  <2>4. SortedAsCollected'
    BY <2>2 DEF SortedAsCollected, Ended
  <2>5. \A i : Own(KeyOf(given[i]))' = Own(KeyOf(given[i]))
    BY <2>3 DEF Own
  <2>. QED  BY <1>1, <1>2, <1>3, <2>1, <2>2, <2>3, <2>4, <2>5 DEF SortInv
<1>12. CASE YieldSorted
  BY <1>12, YieldStep DEF SortInv
<1>13. CASE \/ fn_bucket \/ YieldBucket \/ BeginProjecting \/ Project
            \/ fn_map \/ filter_rows \/ YieldList \/ NextStage \/ fn_dedupe
  <2>1. call.op \notin {"MAP", "FILTER", "BUCKET", "BUCKET_BY", "DISTINCT"}
        /\ pc \notin {"next", "project"}
    BY <1>3, <1>4
  <2>. QED  BY <1>13, <2>1 DEF fn_bucket, YieldBucket, BeginProjecting, Project, fn_map,
               filter_rows, YieldList, NextStage, fn_dedupe
<1>. QED  BY <1>3, <1>5, <1>6, <1>7, <1>8, <1>9, <1>10, <1>11, <1>12, <1>13 DEF Next

-----------------------------------------------------------------------------
(* BUCKET.                                                                  *)

Row == [of : Rows, item : Yields]
Group == [key : Yields, text : Kind \X Nat \X Nat, hash : {0, 1}, rows : Seq(Row)]

\* What tells the groups apart: the text of a key, or its identity.
LabelOf(v) == IF call.op = "BUCKET" THEN KeyText(v) ELSE v
Label(gv, j) == LabelOf(gv[j].was)

\* The first row of a group.
Lead(g) == g.rows[1].of

\* A group's rows are some of those given, in order, under the label of the first, which
\* the group's key is; each shows what its visit was given.
GroupOK(g, gv) ==
  /\ g \in Group /\ Len(g.rows) > 0
  /\ g.key = gv[Lead(g)].key
  /\ g.text = KeyText(gv[Lead(g)].was) /\ g.hash = structural_hash(gv[Lead(g)].was)
  /\ \A m \in 1 .. Len(g.rows) :
       /\ g.rows[m].of \in 1 .. Len(gv) /\ Label(gv, g.rows[m].of) = Label(gv, Lead(g))
       /\ Now(g.rows[m].item) = gv[g.rows[m].of].val
       /\ eager => ~IsLent(g.rows[m].item)
  /\ \A m, l \in 1 .. Len(g.rows) : m < l => g.rows[m].of < g.rows[l].of

\* Every row is in a group; groups have labels of their own, in the order of their firsts.
GroupsOK(gs, gv) ==
  /\ gs \in Seq(Group)
  /\ \A p \in 1 .. Len(gs) : GroupOK(gs[p], gv)
  /\ \A p, q \in 1 .. Len(gs) : p < q =>
       Lead(gs[p]) < Lead(gs[q]) /\ Label(gv, Lead(gs[p])) # Label(gv, Lead(gs[q]))
  /\ \A j \in 1 .. Len(gv) : \E p \in 1 .. Len(gs) : \E m \in 1 .. Len(gs[p].rows) :
       gs[p].rows[m].of = j
  /\ call.op = "BUCKET_BY" => \A j \in 1 .. Len(gv) : Now(gv[j].key) = gv[j].was

\* Whatever value is read, its text and its hash are such.
LEMMA TextsAre ==
  ASSUME NEW v \in Value
  PROVE  KeyText(v) \in Kind \X Nat \X Nat /\ structural_hash(v) \in {0, 1}
<1>1. v.kind \in Kind /\ v.at \in Nat /\ v.spelt \in Nat
  BY DEF Value
<1>2. v.at % 2 \in {0, 1}
  BY <1>1
<1>. QED  BY <1>1, <1>2 DEF KeyText, structural_hash

\* A value given again is in the same groups.
LEMMA GroupGrows ==
  ASSUME NEW g, NEW gv, NEW gw, GroupOK(g, gv), Len(gv) \in Nat,
         Len(gw) = Len(gv) + 1, \A j \in 1 .. Len(gv) : gw[j] = gv[j]
  PROVE  GroupOK(g, gw) /\ Lead(g) \in 1 .. Len(gv) /\ Label(gw, Lead(g)) = Label(gv, Lead(g))
<1>1. /\ g \in Group /\ Len(g.rows) > 0 /\ Len(g.rows) \in Nat
      /\ \A m \in 1 .. Len(g.rows) : g.rows[m].of \in 1 .. Len(gv)
  BY DEF GroupOK, Group
<1>2. Lead(g) \in 1 .. Len(gv)
  BY <1>1 DEF Lead
<1>3. \A j \in 1 .. Len(gv) : j \in 1 .. Len(gw) /\ gw[j] = gv[j] /\ Label(gw, j) = Label(gv, j)
  BY DEF Label
<1>. QED  BY <1>1, <1>2, <1>3 DEF GroupOK

Joined(gs, p, row) == [gs EXCEPT ![p].rows = Append(@, row)]

\* A row joins the group that has its label.
LEMMA JoinsGroup ==
  ASSUME NEW gs, NEW gv, NEW gw, GroupsOK(gs, gv), Len(gv) \in Nat,
         Len(gw) = Len(gv) + 1, \A j \in 1 .. Len(gv) : gw[j] = gv[j],
         NEW P \in 1 .. Len(gs), Label(gv, Lead(gs[P])) = Label(gw, Len(gw)),
         NEW row \in Row, row.of = Len(gw), Now(row.item) = gw[Len(gw)].val,
         eager => ~IsLent(row.item),
         call.op = "BUCKET_BY" => Now(gw[Len(gw)].key) = gw[Len(gw)].was,
         NEW hs, hs = Joined(gs, P, row)
  PROVE  GroupsOK(hs, gw)
<1>1. gs \in Seq(Group) /\ \A p \in 1 .. Len(gs) : GroupOK(gs[p], gv)
  BY DEF GroupsOK
<1>2. PICK n : n = Len(gw)
  OBVIOUS
<1>3. n = Len(gv) + 1 /\ n \in Nat
  BY <1>2
<1>4. PICK G : G = gs[P]
  OBVIOUS
<1>5. G \in Group /\ GroupOK(G, gv) /\ G.rows \in Seq(Row)
  <2>1. G \in Group /\ GroupOK(G, gv)
    BY <1>1, <1>4 DEF GroupOK
  <2>. QED  BY <2>1 DEF Group
<1>6. PICK rs : rs = Append(G.rows, row)
  OBVIOUS
<1>7. /\ rs \in Seq(Row) /\ Len(rs) = Len(G.rows) + 1 /\ Len(G.rows) \in Nat
      /\ \A m \in 1 .. Len(G.rows) : rs[m] = G.rows[m]
      /\ rs[Len(rs)] = row
  BY <1>5, <1>6
<1>8. PICK H : H = [G EXCEPT !.rows = rs]
  OBVIOUS
<1>9. H \in Group /\ H.rows = rs /\ H.key = G.key /\ H.text = G.text /\ H.hash = G.hash
  BY <1>5, <1>7, <1>8 DEF Group
<1>10. hs = [gs EXCEPT ![P].rows = Append(@, row)]
  BY DEF Joined
<1>11. hs = [gs EXCEPT ![P] = H]
  BY <1>1, <1>4, <1>6, <1>8, <1>10
<1>12. /\ hs \in Seq(Group) /\ Len(hs) = Len(gs) /\ hs[P] = H
       /\ \A p \in 1 .. Len(gs) : p # P => hs[p] = gs[p]
  BY <1>1, <1>9, <1>11
<1>13. Len(G.rows) > 0 /\ Lead(H) = Lead(G) /\ Lead(G) \in 1 .. Len(gv)
  BY <1>5, <1>7, <1>9 DEF GroupOK, Lead
<1>14. /\ GroupOK(G, gw) /\ Label(gw, Lead(G)) = Label(gv, Lead(G))
  BY <1>5, GroupGrows
<1>15. GroupOK(H, gw)
  <2>1. ASSUME NEW m \in 1 .. Len(rs)
        PROVE  /\ rs[m].of \in 1 .. n /\ Label(gw, rs[m].of) = Label(gw, Lead(H))
               /\ Now(rs[m].item) = gw[rs[m].of].val
               /\ eager => ~IsLent(rs[m].item)
    <3>1. CASE m \in 1 .. Len(G.rows)
      BY <1>2, <1>7, <1>13, <1>14, <3>1 DEF GroupOK
    <3>2. CASE m = Len(rs)
      BY <1>2, <1>3, <1>4, <1>7, <1>13, <1>14, <3>2
    <3>. QED  BY <1>7, <3>1, <3>2
  <2>2. ASSUME NEW m \in 1 .. Len(rs), NEW l \in 1 .. Len(rs), m < l
        PROVE  rs[m].of < rs[l].of
    <3>1. m \in 1 .. Len(G.rows)
      BY <1>7, <2>2
    <3>2. rs[m].of \in 1 .. Len(gv) /\ rs[m] = G.rows[m]
      BY <1>5, <1>7, <3>1 DEF GroupOK
    <3>3. CASE l \in 1 .. Len(G.rows)
      BY <1>5, <1>7, <2>2, <3>1, <3>2, <3>3 DEF GroupOK
    <3>4. CASE l = Len(rs)
      BY <1>2, <1>3, <1>7, <3>2, <3>4
    <3>. QED  BY <1>7, <3>3, <3>4
  <2>3. /\ H.key = gw[Lead(H)].key
        /\ H.text = KeyText(gw[Lead(H)].was) /\ H.hash = structural_hash(gw[Lead(H)].was)
    BY <1>9, <1>13, <1>14 DEF GroupOK
  <2>. QED  BY <1>2, <1>7, <1>9, <2>1, <2>2, <2>3 DEF GroupOK
<1>16. ASSUME NEW p \in 1 .. Len(gs)
       PROVE  /\ GroupOK(hs[p], gw) /\ Lead(hs[p]) = Lead(gs[p])
              /\ Label(gw, Lead(gs[p])) = Label(gv, Lead(gs[p]))
  <2>1. GroupOK(gs[p], gw) /\ Label(gw, Lead(gs[p])) = Label(gv, Lead(gs[p]))
    BY <1>1, GroupGrows
  <2>2. CASE p = P
    BY <1>4, <1>12, <1>13, <1>15, <2>1, <2>2
  <2>3. CASE p # P
    BY <1>12, <2>1, <2>3
  <2>. QED  BY <2>2, <2>3
<1>17. ASSUME NEW p \in 1 .. Len(hs), NEW q \in 1 .. Len(hs), p < q
       PROVE  /\ Lead(hs[p]) < Lead(hs[q])
              /\ Label(gw, Lead(hs[p])) # Label(gw, Lead(hs[q]))
  BY <1>12, <1>16, <1>17 DEF GroupsOK
<1>18. ASSUME NEW j \in 1 .. Len(gw)
       PROVE  \E p \in 1 .. Len(hs) : \E m \in 1 .. Len(hs[p].rows) : hs[p].rows[m].of = j
  <2>1. CASE j \in 1 .. Len(gv)
    <3>0. PICK p \in 1 .. Len(gs) : \E m \in 1 .. Len(gs[p].rows) : gs[p].rows[m].of = j
      BY <2>1 DEF GroupsOK
    <3>1. PICK m \in 1 .. Len(gs[p].rows) : gs[p].rows[m].of = j
      BY <3>0
    <3>2. CASE p # P
      BY <1>12, <3>1, <3>2
    <3>3. CASE p = P
      <4>1. m \in 1 .. Len(rs) /\ rs[m] = G.rows[m]
        BY <1>4, <1>7, <3>1, <3>3
      <4>. QED  BY <1>4, <1>9, <1>12, <3>1, <3>3, <4>1
    <3>. QED  BY <3>2, <3>3
  <2>2. CASE j = n
    <3>1. Len(rs) \in 1 .. Len(rs) /\ hs[P].rows = rs /\ P \in 1 .. Len(hs)
      BY <1>7, <1>9, <1>12
    <3>2. rs[Len(rs)].of = j
      BY <1>2, <1>7, <2>2
    <3>. QED  BY <3>1, <3>2
  <2>. QED  BY <1>2, <1>3, <2>1, <2>2
<1>19. call.op = "BUCKET_BY" => \A j \in 1 .. Len(gw) : Now(gw[j].key) = gw[j].was
  <2>1. \A j \in 1 .. Len(gw) : j \in 1 .. Len(gv) \/ j = Len(gw)
    BY <1>2, <1>3
  <2>. QED  BY <2>1 DEF GroupsOK
<1>20. GroupsOK(hs, gw)
  BY <1>12, <1>16, <1>17, <1>18, <1>19 DEF GroupsOK
<1>. QED  BY <1>20

\* A row with a label of its own begins a group.
LEMMA BeginsGroup ==
  ASSUME NEW gs, NEW gv, NEW gw, GroupsOK(gs, gv), Len(gv) \in Nat,
         Len(gw) = Len(gv) + 1, \A j \in 1 .. Len(gv) : gw[j] = gv[j],
         \A p \in 1 .. Len(gs) : Label(gv, Lead(gs[p])) # Label(gw, Len(gw)),
         NEW row \in Row, row.of = Len(gw), Now(row.item) = gw[Len(gw)].val,
         eager => ~IsLent(row.item),
         call.op = "BUCKET_BY" => Now(gw[Len(gw)].key) = gw[Len(gw)].was,
         NEW H \in Group, H.rows = <<row>>, H.key = gw[Len(gw)].key,
         H.text = KeyText(gw[Len(gw)].was), H.hash = structural_hash(gw[Len(gw)].was)
  PROVE  GroupsOK(Append(gs, H), gw)
<1>1. gs \in Seq(Group) /\ \A p \in 1 .. Len(gs) : GroupOK(gs[p], gv)
  BY DEF GroupsOK
<1>2. PICK n : n = Len(gw)
  OBVIOUS
<1>3. n = Len(gv) + 1 /\ n \in Nat
  BY <1>2
<1>4. PICK hs : hs = Append(gs, H)
  OBVIOUS
<1>5. /\ hs \in Seq(Group) /\ Len(hs) = Len(gs) + 1 /\ Len(gs) \in Nat
      /\ \A p \in 1 .. Len(gs) : hs[p] = gs[p]
      /\ hs[Len(hs)] = H
  BY <1>1, <1>4
<1>6. Len(H.rows) = 1 /\ H.rows[1] = row /\ Lead(H) = n
  BY <1>2 DEF Lead
<1>7. GroupOK(H, gw)
  <2>1. \A m \in 1 .. Len(H.rows) : m = 1
    BY <1>6
  <2>2. n \in 1 .. Len(gw)
    BY <1>2, <1>3
  <2>. QED  BY <1>2, <1>6, <2>1, <2>2 DEF GroupOK
<1>8. ASSUME NEW p \in 1 .. Len(gs)
      PROVE  /\ GroupOK(gs[p], gw) /\ Lead(gs[p]) \in 1 .. Len(gv)
             /\ Label(gw, Lead(gs[p])) = Label(gv, Lead(gs[p]))
  BY <1>1, GroupGrows
<1>9. \A p \in 1 .. Len(hs) : p \in 1 .. Len(gs) \/ p = Len(hs)
  BY <1>5
<1>10. \A p \in 1 .. Len(hs) : GroupOK(hs[p], gw)
  BY <1>5, <1>7, <1>8, <1>9
<1>11. ASSUME NEW p \in 1 .. Len(hs), NEW q \in 1 .. Len(hs), p < q
       PROVE  /\ Lead(hs[p]) < Lead(hs[q])
              /\ Label(gw, Lead(hs[p])) # Label(gw, Lead(hs[q]))
  <2>1. p \in 1 .. Len(gs)
    BY <1>5, <1>11
  <2>2. CASE q \in 1 .. Len(gs)
    BY <1>5, <1>8, <1>11, <2>1, <2>2 DEF GroupsOK
  <2>3. CASE q = Len(hs)
    <3>1. Lead(hs[p]) \in 1 .. Len(gv) /\ Lead(hs[q]) = n
      BY <1>5, <1>6, <1>8, <2>1, <2>3
    <3>. QED  BY <1>2, <1>3, <1>5, <1>8, <2>1, <3>1
  <2>. QED  BY <1>9, <2>2, <2>3
<1>12. ASSUME NEW j \in 1 .. Len(gw)
       PROVE  \E p \in 1 .. Len(hs) : \E m \in 1 .. Len(hs[p].rows) : hs[p].rows[m].of = j
  <2>1. CASE j \in 1 .. Len(gv)
    <3>0. PICK p \in 1 .. Len(gs) : \E m \in 1 .. Len(gs[p].rows) : gs[p].rows[m].of = j
      BY <2>1 DEF GroupsOK
    <3>1. PICK m \in 1 .. Len(gs[p].rows) : gs[p].rows[m].of = j
      BY <3>0
    <3>2. p \in 1 .. Len(hs) /\ hs[p] = gs[p]
      BY <1>5
    <3>. QED  BY <3>1, <3>2
  <2>2. CASE j = n
    <3>1. Len(hs) \in 1 .. Len(hs) /\ 1 \in 1 .. Len(hs[Len(hs)].rows)
          /\ hs[Len(hs)].rows[1].of = j
      BY <1>2, <1>5, <1>6, <2>2
    <3>. QED  BY <3>1
  <2>3. j \in 1 .. Len(gv) \/ j = n
    BY <1>2, <1>3
  <2>. QED  BY <2>1, <2>2, <2>3
<1>13. call.op = "BUCKET_BY" => \A j \in 1 .. Len(gw) : Now(gw[j].key) = gw[j].was
  <2>1. \A j \in 1 .. Len(gw) : j \in 1 .. Len(gv) \/ j = Len(gw)
    BY <1>2, <1>3
  <2>. QED  BY <2>1 DEF GroupsOK
<1>14. GroupsOK(hs, gw)
  BY <1>5, <1>10, <1>11, <1>12, <1>13 DEF GroupsOK
<1>. QED  BY <1>4, <1>14

\* The classes of what was given by label.
LeadersOf == {i \in DOMAIN given : \A j \in 1 .. i - 1 : Label(given, j) # Label(given, i)}

\* What is shown of a group is what its rows were given as.
ShownAs(r, g) ==
  /\ DOMAIN r = 1 .. Len(g.rows)
  /\ \A m \in 1 .. Len(g.rows) :
       r[m].of = g.rows[m].of /\ r[m].val = given[g.rows[m].of].val

\* Each row given is in one group, with those of its label.
LEMMA MembersAre ==
  ASSUME TypeInv, GroupsOK(groups, given), NEW p \in 1 .. Len(groups)
  PROVE  /\ Len(groups[p].rows) \in Nat /\ Len(groups[p].rows) > 0
         /\ Lead(groups[p]) \in 1 .. Len(given)
         /\ \A j \in 1 .. Len(given) :
              Label(given, j) = Label(given, Lead(groups[p])) <=>
                \E m \in 1 .. Len(groups[p].rows) : groups[p].rows[m].of = j
<1>1. Len(groups) \in Nat /\ \A q \in 1 .. Len(groups) : GroupOK(groups[q], given)
  BY DEF GroupsOK
<1>2. \A q \in 1 .. Len(groups) : Len(groups[q].rows) \in Nat
  <2>1. \A q \in 1 .. Len(groups) : groups[q].rows \in Seq(Row)
    BY <1>1 DEF GroupOK, Group
  <2>. QED  BY <2>1
<1>3. Lead(groups[p]) \in 1 .. Len(given) /\ Len(groups[p].rows) > 0
  BY <1>1, <1>2 DEF GroupOK, Lead
<1>4. ASSUME NEW j \in 1 .. Len(given), Label(given, j) = Label(given, Lead(groups[p]))
      PROVE  \E m \in 1 .. Len(groups[p].rows) : groups[p].rows[m].of = j
  <2>1. PICK q \in 1 .. Len(groups) : \E m \in 1 .. Len(groups[q].rows) : groups[q].rows[m].of = j
    BY DEF GroupsOK
  <2>2. Label(given, j) = Label(given, Lead(groups[q]))
    BY <1>1, <2>1 DEF GroupOK
  <2>3. q = p
    <3>1. \A a, b \in 1 .. Len(groups) : a < b =>
            Label(given, Lead(groups[a])) # Label(given, Lead(groups[b]))
      BY DEF GroupsOK
    <3>2. ~(p < q) /\ ~(q < p)
      BY <1>4, <2>2, <3>1
    <3>. QED  BY <1>1, <3>2
  <2>. QED  BY <2>1, <2>3
<1>5. ASSUME NEW j \in 1 .. Len(given), NEW m \in 1 .. Len(groups[p].rows),
             groups[p].rows[m].of = j
      PROVE  Label(given, j) = Label(given, Lead(groups[p]))
  BY <1>1, <1>5 DEF GroupOK
<1>. QED  BY <1>2, <1>3, <1>4, <1>5

\* The firsts of the groups are those of the classes, in order.
LEMMA LeadersAre ==
  ASSUME TypeInv, GroupsOK(groups, given)
  PROVE  /\ Len(groups) \in Nat
         /\ \A p \in 1 .. Len(groups) : Lead(groups[p]) \in LeadersOf
         /\ \A i \in LeadersOf : \E p \in 1 .. Len(groups) : Lead(groups[p]) = i
         /\ Cardinality(LeadersOf) = Len(groups)
         /\ \A p \in 1 .. Len(groups) :
              Cardinality({j \in LeadersOf : j <= Lead(groups[p])}) = p
<1>1. /\ Len(groups) \in Nat /\ DOMAIN given = 1 .. Len(given) /\ Len(given) \in Nat
      /\ \A p \in 1 .. Len(groups) : GroupOK(groups[p], given)
      /\ \A p, q \in 1 .. Len(groups) : p < q => Lead(groups[p]) < Lead(groups[q])
  BY DEF GroupsOK, TypeInv
<1>2. ASSUME NEW p \in 1 .. Len(groups)
      PROVE  Lead(groups[p]) \in LeadersOf /\ Lead(groups[p]) \in 1 .. Len(given)
  <2>1. Lead(groups[p]) \in 1 .. Len(given) /\ Len(groups[p].rows) \in Nat
        /\ Len(groups[p].rows) > 0
    BY MembersAre
  <2>2. ASSUME NEW j \in 1 .. Lead(groups[p]) - 1,
               Label(given, j) = Label(given, Lead(groups[p]))
        PROVE  FALSE
    <3>1. j \in 1 .. Len(given) /\ j < Lead(groups[p])
      BY <1>1, <2>1
    <3>2. PICK m \in 1 .. Len(groups[p].rows) : groups[p].rows[m].of = j
      BY <2>2, <3>1, MembersAre
    <3>3. m = 1 \/ Lead(groups[p]) < j
      <4>1. 1 \in 1 .. Len(groups[p].rows) /\ (m # 1 => 1 < m)
        BY <2>1
      <4>. QED  BY <1>1, <3>2, <4>1 DEF GroupOK, Lead
    <3>4. m = 1 => j = Lead(groups[p])
      BY <3>2 DEF Lead
    <3>. QED  BY <2>1, <3>1, <3>3, <3>4
  <2>. QED  BY <1>1, <2>1, <2>2 DEF LeadersOf
<1>3. ASSUME NEW i \in LeadersOf
      PROVE  \E p \in 1 .. Len(groups) : Lead(groups[p]) = i
  <2>1. i \in 1 .. Len(given)
    BY <1>1 DEF LeadersOf
  <2>2. PICK p \in 1 .. Len(groups) : \E m \in 1 .. Len(groups[p].rows) : groups[p].rows[m].of = i
    BY <2>1 DEF GroupsOK
  <2>3. PICK m \in 1 .. Len(groups[p].rows) : groups[p].rows[m].of = i
    BY <2>2
  <2>4. Label(given, i) = Label(given, Lead(groups[p])) /\ Lead(groups[p]) \in 1 .. Len(given)
    BY <2>1, <2>3, MembersAre
  <2>5. Lead(groups[p]) <= i
    <3>1. Len(groups[p].rows) \in Nat
      BY MembersAre
    <3>2. m = 1 \/ Lead(groups[p]) < groups[p].rows[m].of
      <4>1. 1 \in 1 .. Len(groups[p].rows) /\ (m # 1 => 1 < m)
        BY <2>3, <3>1
      <4>. QED  BY <1>1, <4>1 DEF GroupOK, Lead
    <3>3. m = 1 => Lead(groups[p]) = i
      BY <2>3 DEF Lead
    <3>. QED  BY <2>1, <2>3, <2>4, <3>2, <3>3
  <2>6. ~(Lead(groups[p]) < i)
    <3>1. ASSUME Lead(groups[p]) < i
          PROVE  Lead(groups[p]) \in 1 .. i - 1
      BY <2>1, <2>4, <3>1
    <3>. QED  BY <2>4, <3>1 DEF LeadersOf
  <2>7. Lead(groups[p]) = i
    BY <2>1, <2>4, <2>5, <2>6
  <2>. QED  BY <2>7
<1>4. ASSUME NEW n \in 0 .. Len(groups)
      PROVE  Cardinality({Lead(groups[p]) : p \in 1 .. n}) = n
  <2>. DEFINE S == {Lead(groups[p]) : p \in 1 .. n}
              f == [p \in 1 .. n |-> Lead(groups[p])]
  <2>1. \A p, q \in 1 .. n : p # q => Lead(groups[p]) # Lead(groups[q])
    <3>1. ASSUME NEW p \in 1 .. n, NEW q \in 1 .. n, p # q
          PROVE  Lead(groups[p]) # Lead(groups[q])
      <4>1. p \in 1 .. Len(groups) /\ q \in 1 .. Len(groups) /\ (p < q \/ q < p)
        BY <1>1, <3>1
      <4>2. Lead(groups[p]) < Lead(groups[q]) \/ Lead(groups[q]) < Lead(groups[p])
        BY <1>1, <4>1
      <4>3. Lead(groups[p]) \in Nat /\ Lead(groups[q]) \in Nat
        BY <1>2, <4>1
      <4>. QED  BY <4>2, <4>3
    <3>. QED  BY <3>1
  <2>2. f \in Bijection(1 .. n, S)
    <3>1. f \in [1 .. n -> S] /\ \A s \in S : \E p \in 1 .. n : f[p] = s
      OBVIOUS
    <3>2. \A p, q \in 1 .. n : f[p] = f[q] => p = q
      BY <2>1
    <3>. HIDE DEF f, S
    <3>. QED  BY <3>1, <3>2 DEF Bijection, Injection, Surjection, IsInjective
  <2>3. ExistsBijection(1 .. n, S)
    <3>. HIDE DEF f, S
    <3>. QED  BY <2>2 DEF ExistsBijection
  <2>4. n \in Nat
    BY <1>1
  <2>5. Cardinality(S) = n
    <3>. HIDE DEF S
    <3>. QED  BY <2>3, <2>4, FS_CountingElements
  <2>. QED  BY <2>5
<1>5. Cardinality(LeadersOf) = Len(groups)
  <2>1. LeadersOf = {Lead(groups[p]) : p \in 1 .. Len(groups)}
    BY <1>2, <1>3
  <2>2. Len(groups) \in 0 .. Len(groups)
    BY <1>1
  <2>. QED  BY <1>4, <2>1, <2>2
<1>6. ASSUME NEW p \in 1 .. Len(groups)
      PROVE  Cardinality({j \in LeadersOf : j <= Lead(groups[p])}) = p
  <2>1. ASSUME NEW q \in 1 .. Len(groups)
        PROVE  Lead(groups[q]) <= Lead(groups[p]) <=> q <= p
    <3>1. Lead(groups[p]) \in Nat /\ Lead(groups[q]) \in Nat /\ p \in Nat /\ q \in Nat
      BY <1>1, <1>2
    <3>2. CASE q < p
      BY <1>1, <3>1, <3>2
    <3>3. CASE q = p
      BY <3>1, <3>3
    <3>4. CASE p < q
      BY <1>1, <3>1, <3>4
    <3>. QED  BY <3>1, <3>2, <3>3, <3>4
  <2>2. {j \in LeadersOf : j <= Lead(groups[p])} = {Lead(groups[q]) : q \in 1 .. p}
    <3>1. ASSUME NEW j \in LeadersOf, j <= Lead(groups[p])
          PROVE  \E q \in 1 .. p : Lead(groups[q]) = j
      <4>1. PICK q \in 1 .. Len(groups) : Lead(groups[q]) = j
        BY <1>3
      <4>2. q <= p
        BY <2>1, <3>1, <4>1
      <4>3. q \in 1 .. p
        BY <1>1, <4>2
      <4>. QED  BY <4>1, <4>3
    <3>2. ASSUME NEW q \in 1 .. p
          PROVE  Lead(groups[q]) \in LeadersOf /\ Lead(groups[q]) <= Lead(groups[p])
      <4>1. q \in 1 .. Len(groups) /\ q <= p
        BY <1>1
      <4>. QED  BY <1>2, <2>1, <4>1
    <3>. QED  BY <3>1, <3>2
  <2>3. p \in 0 .. Len(groups)
    BY <1>1
  <2>. QED  BY <1>4, <2>2, <2>3
<1>. QED  BY <1>1, <1>2, <1>3, <1>5, <1>6

\* What is shown of class p, that of row i: its rows, as they were given, in order.
ClassShown(r, p, i) ==
  /\ i \in LeadersOf /\ Cardinality({j \in LeadersOf : j <= i}) = p
  /\ \A m \in DOMAIN r :
       /\ r[m].of \in DOMAIN given /\ Label(given, i) = Label(given, r[m].of)
       /\ given[r[m].of].of = r[m].of /\ r[m].val = given[r[m].of].val
  /\ \A j \in DOMAIN given : Label(given, i) = Label(given, j) => \E m \in DOMAIN r : r[m].of = j
  /\ \A m, n \in DOMAIN r : m < n => r[m].of < r[n].of

\* Groups shown as they were given are the classes, in order.
LEMMA ClassesShown ==
  ASSUME TypeInv, GroupsOK(groups, given), NEW p \in 1 .. Len(groups), NEW r,
         ShownAs(r, groups[p]), \A j \in 1 .. Len(given) : given[j].of = j
  PROVE  ClassShown(r, p, Lead(groups[p]))
<1>1. DOMAIN given = 1 .. Len(given) /\ Len(given) \in Nat
  BY DEF TypeInv
<1>2. PICK i : i = Lead(groups[p])
  OBVIOUS
<1>3. i \in LeadersOf /\ Cardinality({j \in LeadersOf : j <= i}) = p
  BY <1>2, LeadersAre
<1>4. PICK rs : rs = groups[p].rows
  OBVIOUS
<1>5. /\ DOMAIN r = 1 .. Len(rs)
      /\ \A m \in 1 .. Len(rs) : r[m].of = rs[m].of /\ r[m].val = given[rs[m].of].val
  BY <1>4 DEF ShownAs
<1>6. GroupOK(groups[p], given)
  BY DEF GroupsOK
<1>7. /\ \A m \in 1 .. Len(rs) :
           rs[m].of \in 1 .. Len(given) /\ Label(given, rs[m].of) = Label(given, i)
      /\ \A m, n \in 1 .. Len(rs) : m < n => rs[m].of < rs[n].of
  BY <1>2, <1>4, <1>6 DEF GroupOK
<1>8. \A j \in 1 .. Len(given) : Label(given, j) = Label(given, i) =>
        \E m \in 1 .. Len(rs) : rs[m].of = j
  BY <1>2, <1>4, MembersAre
<1>9. /\ \A m \in DOMAIN r :
           /\ r[m].of \in DOMAIN given /\ Label(given, i) = Label(given, r[m].of)
           /\ given[r[m].of].of = r[m].of /\ r[m].val = given[r[m].of].val
      /\ \A m, n \in DOMAIN r : m < n => r[m].of < r[n].of
  BY SMTT(30), <1>1, <1>5, <1>7
<1>10. \A j \in DOMAIN given : Label(given, i) = Label(given, j) => \E m \in DOMAIN r : r[m].of = j
  BY <1>1, <1>5, <1>8
<1>11. ClassShown(r, p, i)
  BY <1>3, <1>9, <1>10 DEF ClassShown
<1>. QED  BY <1>2, <1>11

\* That `shown' is the classes of gv by the text of the key, or by its identity.
ByText(gv, shown) ==
  LET firsts == {i \in DOMAIN gv : \A j \in 1 .. i - 1 : ~(KeyText(gv[j].was) = KeyText(gv[i].was))} IN
  /\ Len(shown) = Cardinality(firsts)
  /\ \A p \in DOMAIN shown : \E i \in firsts :
       /\ Cardinality({j \in firsts : j <= i}) = p
       /\ {<<shown[p].rows[m].of, shown[p].rows[m].val>> : m \in DOMAIN shown[p].rows} =
            {<<gv[j].of, gv[j].val>> :
               j \in {j \in DOMAIN gv : KeyText(gv[i].was) = KeyText(gv[j].was)}}
       /\ \A m, n \in DOMAIN shown[p].rows : m < n => shown[p].rows[m].of < shown[p].rows[n].of

ByKey(gv, shown) ==
  LET firsts == {i \in DOMAIN gv : \A j \in 1 .. i - 1 : ~(gv[j].was = gv[i].was)} IN
  /\ Len(shown) = Cardinality(firsts)
  /\ \A p \in DOMAIN shown : \E i \in firsts :
       /\ Cardinality({j \in firsts : j <= i}) = p
       /\ {<<shown[p].rows[m].of, shown[p].rows[m].val>> : m \in DOMAIN shown[p].rows} =
            {<<gv[j].of, gv[j].val>> : j \in {j \in DOMAIN gv : gv[i].was = gv[j].was}}
       /\ \A m, n \in DOMAIN shown[p].rows : m < n => shown[p].rows[m].of < shown[p].rows[n].of

LEMMA ShownByText ==
  ASSUME call.op = "BUCKET", NEW shown, Len(shown) = Cardinality(LeadersOf),
         \A p \in DOMAIN shown : \E i : ClassShown(shown[p].rows, p, i)
  PROVE  ByText(given, shown)
<1>. DEFINE firsts == {i \in DOMAIN given : \A j \in 1 .. i - 1 :
                         ~(KeyText(given[j].was) = KeyText(given[i].was))}
<1>1. \A i, j : Label(given, i) = Label(given, j) <=> KeyText(given[i].was) = KeyText(given[j].was)
  BY DEF Label, LabelOf
<1>2. firsts = LeadersOf
  BY <1>1 DEF LeadersOf
<1>3. ASSUME NEW p \in DOMAIN shown
      PROVE  \E i \in firsts :
               /\ Cardinality({j \in firsts : j <= i}) = p
               /\ {<<shown[p].rows[m].of, shown[p].rows[m].val>> : m \in DOMAIN shown[p].rows} =
                    {<<given[j].of, given[j].val>> :
                       j \in {j \in DOMAIN given : KeyText(given[i].was) = KeyText(given[j].was)}}
               /\ \A m, n \in DOMAIN shown[p].rows :
                    m < n => shown[p].rows[m].of < shown[p].rows[n].of
  <2>1. PICK r : r = shown[p].rows
    OBVIOUS
  <2>2. PICK i : ClassShown(r, p, i)
    BY <2>1
  <2>3. i \in firsts /\ Cardinality({j \in firsts : j <= i}) = p
        /\ \A m, n \in DOMAIN r : m < n => r[m].of < r[n].of
    <3>. HIDE DEF firsts
    <3>. QED  BY <1>2, <2>2 DEF ClassShown
  <2>4. {<<r[m].of, r[m].val>> : m \in DOMAIN r} =
          {<<given[j].of, given[j].val>> :
             j \in {j \in DOMAIN given : KeyText(given[i].was) = KeyText(given[j].was)}}
    <3>1. ASSUME NEW m \in DOMAIN r
          PROVE  /\ r[m].of \in {j \in DOMAIN given : KeyText(given[i].was) = KeyText(given[j].was)}
                 /\ given[r[m].of].of = r[m].of /\ r[m].val = given[r[m].of].val
      BY <1>1, <2>2 DEF ClassShown
    <3>2. ASSUME NEW j \in {j \in DOMAIN given : KeyText(given[i].was) = KeyText(given[j].was)}
          PROVE  \E m \in DOMAIN r : r[m].of = j
      BY <1>1, <2>2 DEF ClassShown
    <3>. PICK S : S = {j \in DOMAIN given : KeyText(given[i].was) = KeyText(given[j].was)}
      OBVIOUS
    <3>3. /\ \A m \in DOMAIN r : r[m].of \in S /\ given[r[m].of].of = r[m].of
                                 /\ r[m].val = given[r[m].of].val
          /\ \A j \in S : \E m \in DOMAIN r : r[m].of = j
      BY <3>1, <3>2
    <3>4. {<<r[m].of, r[m].val>> : m \in DOMAIN r} = {<<given[j].of, given[j].val>> : j \in S}
      BY <3>3
    <3>. QED  BY <3>4
  <2>. QED  BY ZenonT(30), <2>1, <2>3, <2>4
<1>. QED  BY <1>2, <1>3 DEF ByText

LEMMA ShownByKey ==
  ASSUME call.op = "BUCKET_BY", NEW shown, Len(shown) = Cardinality(LeadersOf),
         \A p \in DOMAIN shown : \E i : ClassShown(shown[p].rows, p, i)
  PROVE  ByKey(given, shown)
<1>. DEFINE firsts == {i \in DOMAIN given : \A j \in 1 .. i - 1 : ~(given[j].was = given[i].was)}
<1>1. \A i, j : Label(given, i) = Label(given, j) <=> given[i].was = given[j].was
  BY DEF Label, LabelOf
<1>2. firsts = LeadersOf
  BY <1>1 DEF LeadersOf
<1>3. ASSUME NEW p \in DOMAIN shown
      PROVE  \E i \in firsts :
               /\ Cardinality({j \in firsts : j <= i}) = p
               /\ {<<shown[p].rows[m].of, shown[p].rows[m].val>> : m \in DOMAIN shown[p].rows} =
                    {<<given[j].of, given[j].val>> :
                       j \in {j \in DOMAIN given : given[i].was = given[j].was}}
               /\ \A m, n \in DOMAIN shown[p].rows :
                    m < n => shown[p].rows[m].of < shown[p].rows[n].of
  <2>1. PICK r : r = shown[p].rows
    OBVIOUS
  <2>2. PICK i : ClassShown(r, p, i)
    BY <2>1
  <2>3. i \in firsts /\ Cardinality({j \in firsts : j <= i}) = p
        /\ \A m, n \in DOMAIN r : m < n => r[m].of < r[n].of
    <3>. HIDE DEF firsts
    <3>. QED  BY <1>2, <2>2 DEF ClassShown
  <2>4. {<<r[m].of, r[m].val>> : m \in DOMAIN r} =
          {<<given[j].of, given[j].val>> : j \in {j \in DOMAIN given : given[i].was = given[j].was}}
    <3>1. ASSUME NEW m \in DOMAIN r
          PROVE  /\ r[m].of \in {j \in DOMAIN given : given[i].was = given[j].was}
                 /\ given[r[m].of].of = r[m].of /\ r[m].val = given[r[m].of].val
      BY <1>1, <2>2 DEF ClassShown
    <3>2. ASSUME NEW j \in {j \in DOMAIN given : given[i].was = given[j].was}
          PROVE  \E m \in DOMAIN r : r[m].of = j
      BY <1>1, <2>2 DEF ClassShown
    <3>. PICK S : S = {j \in DOMAIN given : given[i].was = given[j].was}
      OBVIOUS
    <3>3. /\ \A m \in DOMAIN r : r[m].of \in S /\ given[r[m].of].of = r[m].of
                                 /\ r[m].val = given[r[m].of].val
          /\ \A j \in S : \E m \in DOMAIN r : r[m].of = j
      BY <3>1, <3>2
    <3>4. {<<r[m].of, r[m].val>> : m \in DOMAIN r} = {<<given[j].of, given[j].val>> : j \in S}
      BY <3>3
    <3>. QED  BY <3>4
  <2>. QED  BY ZenonT(30), <2>1, <2>3, <2>4
<1>. QED  BY <1>2, <1>3 DEF ByKey

Answer == [key : Values \cup (Kind \X Nat \X Nat), rows : Seq(Shown)]

\* Where a key's identity is that of the moment it was computed.
Claim == call.op = "BUCKET" \/ KeysStand

GroupInv ==
  call.op \in {"BUCKET", "BUCKET_BY"} =>
    /\ pc \in {"visit", "project"} => \A j \in 1 .. Len(given) : given[j].of = j
    /\ pc = "visit" => Len(given) = visit - 1 /\ visit <= N + 1 /\ answer = <<>>
    /\ pc \in {"visit", "project"} /\ Claim => GroupsOK(groups, given)
    /\ pc = "project" /\ Claim =>
         /\ answer \in Seq(Answer) /\ Len(answer) = visit - 1 /\ visit <= Len(groups) + 1
         /\ \A p \in 1 .. Len(answer) : ShownAs(answer[p].rows, groups[p])
    /\ GroupedAsCollected

\* Groups stand while nothing is written, and where all was copied.
LEMMA GroupsStand ==
  ASSUME NEW gs, NEW gv, GroupsOK(gs, gv), call' = call,
         \/ rows' = rows
         \/ eager /\ (call.op = "BUCKET_BY" => \A j \in 1 .. Len(gv) : ~IsLent(gv[j].key))
  PROVE  GroupsOK(gs, gv)'
<1>1. /\ Group' = Group /\ eager' = eager /\ \A j : Label(gv, j)' = Label(gv, j)
  BY DEF Group, Row, Rows, N, Yields, Values, Lent, Own, eager, may_write, Label, LabelOf, KeyText
<1>2. ASSUME NEW g, GroupOK(g, gv)
      PROVE  GroupOK(g, gv)'
  <2>1. \A m \in 1 .. Len(g.rows) : Now(g.rows[m].item)' = Now(g.rows[m].item)
    BY <1>2 DEF Now, IsLent, GroupOK
  <2>2. \A m \in 1 .. Len(g.rows) : (eager => ~IsLent(g.rows[m].item))'
    BY <1>1, <1>2 DEF GroupOK, IsLent
  <2>. QED  BY <1>1, <1>2, <2>1, <2>2 DEF GroupOK, Lead, KeyText, structural_hash
<1>3. call.op = "BUCKET_BY" => \A j \in 1 .. Len(gv) : Now(gv[j].key)' = gv[j].was
  BY DEF GroupsOK, Now, IsLent
<1>4. \A p \in 1 .. Len(gs) : GroupOK(gs[p], gv)'
  BY <1>2 DEF GroupsOK
<1>. QED  BY <1>1, <1>3, <1>4 DEF GroupsOK, Lead

\* Every group shown is as it was given.
LEMMA MembersShown ==
  ASSUME TypeInv, GroupsOK(groups, given), NEW p \in 1 .. Len(groups)
  PROVE  /\ Members(groups[p]) \in Seq(Shown) /\ ShownAs(Members(groups[p]), groups[p])
         /\ Now(groups[p].key) \in Values /\ groups[p].text \in Kind \X Nat \X Nat
<1>1. PICK g : g = groups[p]
  OBVIOUS
<1>2. GroupOK(g, given)
  BY <1>1 DEF GroupsOK
<1>3. g.rows \in Seq(Row) /\ g.key \in Yields /\ g.text \in Kind \X Nat \X Nat
  BY <1>2 DEF GroupOK, Group
<1>4. Len(g.rows) \in Nat /\ DOMAIN g.rows = 1 .. Len(g.rows)
      /\ \A m \in 1 .. Len(g.rows) : g.rows[m] \in Row
  BY <1>3
<1>5. \A m \in 1 .. Len(g.rows) :
        /\ g.rows[m].of \in Rows /\ g.rows[m].item \in Yields
        /\ Now(g.rows[m].item) = given[g.rows[m].of].val
  BY <1>2, <1>4 DEF GroupOK, Row
<1>6. \A m \in 1 .. Len(g.rows) : Now(g.rows[m].item) \in Values
  BY <1>5, NowIs DEF TypeInv
<1>7. \A m \in 1 .. Len(g.rows) : [of |-> g.rows[m].of, val |-> Now(g.rows[m].item)] \in Shown
  BY <1>5, <1>6 DEF Shown
<1>8. Members(g) = [m \in 1 .. Len(g.rows) |-> [of |-> g.rows[m].of, val |-> Now(g.rows[m].item)]]
  BY <1>4 DEF Members
<1>9. Members(g) \in Seq(Shown)
  BY <1>4, <1>7, <1>8
<1>10. ShownAs(Members(g), g)
  BY <1>5, <1>8 DEF ShownAs
<1>11. Now(g.key) \in Values
  BY <1>3, NowIs DEF TypeInv
<1>. QED  BY <1>1, <1>3, <1>9, <1>10, <1>11

\* A BUCKET that ends has shown the classes.
LEMMA GroupsEnd ==
  ASSUME TypeInv, GroupInv, call.op \in {"BUCKET", "BUCKET_BY"}, pc \in {"visit", "project"},
         call' = call, given' = given, Len(answer') = Len(groups),
         DOMAIN answer' = 1 .. Len(groups),
         Claim => \A p \in 1 .. Len(groups) : ShownAs(answer'[p].rows, groups[p])
  PROVE  GroupedAsCollected'
<1>1. eager' = eager
  BY DEF eager, may_write
<1>2. (call.op = "BUCKET_BY" /\ KeysStand') => Claim
  BY <1>1 DEF Claim, KeysStand, IsLent
<1>3. SUFFICES ASSUME Claim
               PROVE  /\ call.op = "BUCKET" => GroupedBy(SameText, answer)'
                      /\ call.op = "BUCKET_BY" => GroupedBy(SameKey, answer)'
  BY <1>2 DEF GroupedAsCollected, Claim
<1>4. GroupsOK(groups, given) /\ \A j \in 1 .. Len(given) : given[j].of = j
  BY <1>3 DEF GroupInv
<1>5. PICK shown : shown = answer'
  OBVIOUS
<1>6. Len(shown) = Cardinality(LeadersOf)
  BY <1>4, <1>5, LeadersAre
<1>7. ASSUME NEW p \in DOMAIN shown
      PROVE  \E i : ClassShown(shown[p].rows, p, i)
  <2>1. p \in 1 .. Len(groups) /\ ShownAs(shown[p].rows, groups[p])
    BY <1>3, <1>5, <1>7
  <2>. QED  BY <1>4, <2>1, ClassesShown
<1>8. ASSUME call.op = "BUCKET"
      PROVE  GroupedBy(SameText, answer)'
  <2>1. ByText(given, shown)
    BY <1>6, <1>7, <1>8, ShownByText
  <2>2. ByText(given', answer')
    BY <1>5, <2>1
  <2>. QED  BY <2>2 DEF GroupedBy, Leaders, SameText, ByText, KeyText
<1>9. ASSUME call.op = "BUCKET_BY"
      PROVE  GroupedBy(SameKey, answer)'
  <2>1. ByKey(given, shown)
    BY <1>6, <1>7, <1>9, ShownByKey
  <2>2. ByKey(given', answer')
    BY <1>5, <2>1
  <2>. QED  BY <2>2 DEF GroupedBy, Leaders, SameKey, ByKey, eql
<1>. QED  BY <1>8, <1>9

\* A visit is claimed only if those before it are.
LEMMA ClaimKept ==
  ASSUME TypeInv, call' = call, Len(given') \in Nat, DOMAIN given' = 1 .. Len(given'),
         Len(given') >= Len(given), \A j \in 1 .. Len(given) : given'[j] = given[j], Claim'
  PROVE  Claim
<1>1. eager' = eager
  BY DEF eager, may_write
<1>2. DOMAIN given = 1 .. Len(given) /\ Len(given) \in Nat
  BY DEF TypeInv
<1>3. CASE call.op = "BUCKET"
  BY <1>3 DEF Claim
<1>4. CASE KeysStand'
  <2>1. CASE ~eager'
    BY <1>1, <2>1 DEF Claim, KeysStand
  <2>2. CASE \A p \in DOMAIN given' : ~IsLent(given'[p].key)
    <3>1. \A p \in DOMAIN given : ~IsLent(given[p].key)
      BY <1>2, <2>2 DEF IsLent
    <3>. QED  BY <3>1 DEF Claim, KeysStand
  <2>. QED  BY <1>4, <2>1, <2>2 DEF KeysStand, IsLent
<1>. QED  BY <1>3, <1>4 DEF Claim

\* The group a key falls in is that of its label.
LEMMA GroupFound ==
  ASSUME TypeInv, call.op \in {"BUCKET", "BUCKET_BY"}, GroupsOK(groups, given),
         NEW key \in Yields, NEW p \in 1 .. Len(groups)
  PROVE  InGroup(groups[p], key) <=> Label(given, Lead(groups[p])) = LabelOf(Now(key))
<1>1. PICK g, e : g = groups[p] /\ e = given[Lead(groups[p])]
  OBVIOUS
<1>2. GroupOK(g, given) /\ Lead(g) \in 1 .. Len(given)
  BY <1>1, MembersAre DEF GroupsOK
<1>3. /\ g.text = KeyText(e.was) /\ g.hash = structural_hash(e.was) /\ g.key = e.key
      /\ call.op = "BUCKET_BY" => Now(e.key) = e.was
  BY <1>1, <1>2 DEF GroupOK, GroupsOK
<1>4. PICK v : v = Now(key)
  OBVIOUS
<1>5. Label(given, Lead(groups[p])) = LabelOf(e.was)
  BY <1>1 DEF Label
<1>6. CASE call.op = "BUCKET"
  BY <1>1, <1>3, <1>4, <1>5, <1>6 DEF InGroup, LabelOf
<1>7. CASE call.op = "BUCKET_BY"
  <2>1. InGroup(g, key) <=> (structural_hash(e.was) = structural_hash(v) /\ e.was = v)
    BY <1>3, <1>4, <1>7 DEF InGroup, eql
  <2>2. LabelOf(e.was) = e.was /\ LabelOf(v) = v
    BY <1>7 DEF LabelOf
  <2>3. e.was = v => structural_hash(e.was) = structural_hash(v)
    OBVIOUS
  <2>. QED  BY <1>1, <1>4, <1>5, <2>1, <2>2, <2>3
<1>. QED  BY <1>6, <1>7

\* The visit of a row that falls in a group, or begins one.
LEMMA BucketVisit ==
  ASSUME TypeInv, GroupInv, fn_bucket
  PROVE  GroupInv'
<1>1. call.op \in {"BUCKET", "BUCKET_BY"} /\ pc = "visit" /\ visit <= N
  BY DEF fn_bucket
<1>2. visit \in Rows /\ visit \in Nat /\ N \in Nat /\ Rows = 1 .. N /\ Values \subseteq Value
  BY <1>1, CallIs DEF TypeInv
<1>3. Lent(visit) \in Yields /\ Now(Lent(visit)) = rows[visit]
  BY <1>2, RefsAre
<1>. DEFINE row == [of |-> visit, item |-> Item(visit)]
            Begun(key) == [key |-> key, text |-> KeyText(Now(key)),
                           hash |-> structural_hash(Now(key)), rows |-> <<row>>]
            Found(key) == CHOOSE p \in Matching(key) : \A q \in Matching(key) : p <= q
<1>4. PICK key \in Yields :
        \/ \E code : Raise(code)
        \/ /\ Visited(Lent(visit), key) /\ GoOn /\ UNCHANGED items
           /\ groups' = IF Matching(key) # {}
                        THEN [groups EXCEPT ![Found(key)].rows = Append(@, row)]
                        ELSE Append(groups, Begun(key))
  BY DEF fn_bucket
<1>5. CASE \E code : Raise(code)
  <2>1. pc' = "done" /\ call' = call
    BY <1>5 DEF Raise
  <2>2. error' # "none"
    <3>1. PICK k \in Yields :
            \/ KeyError(Now(k)) # "none" /\ error' = KeyError(Now(k))
            \/ error' = "E_DEPTH"
            \/ GoOn
      BY DEF fn_bucket, Raise
    <3>2. ~GoOn
      BY <1>1, <2>1 DEF GoOn
    <3>. QED  BY <3>1, <3>2
  <2>. QED  BY <2>1, <2>2 DEF GroupInv, GroupedAsCollected, Ended
<1>6. CASE /\ Visited(Lent(visit), key) /\ GoOn /\ UNCHANGED items
           /\ groups' = IF Matching(key) # {}
                        THEN [groups EXCEPT ![Found(key)].rows = Append(@, row)]
                        ELSE Append(groups, Begun(key))
  <2>1. /\ call' = call /\ rows' = rows /\ pc' = "visit" /\ answer' = answer
        /\ visit' = visit + 1
    BY <1>1, <1>6 DEF GoOn
  <2>2. /\ N' = N /\ Rows' = Rows /\ Yields' = Yields /\ Values' = Values /\ eager' = eager
    BY <2>1 DEF N, Rows, Yields, Values, Lent, Own, eager, may_write
  <2>3. Item(visit) \in Yields /\ Now(Item(visit)) = rows[visit]
        /\ (eager => ~IsLent(Item(visit)))
    <3>1. rows[visit] \in Values
      BY <1>2 DEF TypeInv
    <3>. QED  BY <1>3, <3>1, RefsAre DEF Item, Copied
  <2>4. /\ \A j \in 1 .. Len(given) : given[j].of = j
        /\ Len(given) = visit - 1 /\ answer = <<>>
        /\ Claim => GroupsOK(groups, given)
    BY <1>1 DEF GroupInv
  <2>5. /\ given' \in Seq(Given) /\ Len(given') = Len(given) + 1
        /\ \A j \in 1 .. Len(given) : given'[j] = given[j]
        /\ given'[Len(given) + 1].of = visit /\ given'[Len(given) + 1].val = rows[visit]
        /\ given'[Len(given) + 1].key = key /\ given'[Len(given) + 1].was = Now(key)
    BY <1>1, <1>3, <1>6, VisitedIs
  <2>6. Len(given') = visit /\ Len(given) \in Nat /\ DOMAIN given' = 1 .. visit
    BY <1>2, <2>4, <2>5
  <2>7. \A j \in 1 .. Len(given') : given'[j].of = j
    <3>1. \A j \in 1 .. Len(given') : j \in 1 .. Len(given) \/ j = Len(given) + 1
      BY <2>5, <2>6
    <3>. QED  BY <2>4, <2>5, <2>6, <3>1
  <2>8. ASSUME Claim'
        PROVE  GroupsOK(groups', given')
    <3>1. Claim
      BY <2>1, <2>5, <2>6, <2>8, ClaimKept
    <3>2. GroupsOK(groups, given)
      BY <2>4, <3>1
    <3>3. groups \in Seq(Group) /\ Len(groups) \in Nat /\ DOMAIN groups = 1 .. Len(groups)
      BY <3>2 DEF GroupsOK
    <3>4. PICK new : new = row
      OBVIOUS
    <3>5. new \in Row /\ new.of = visit /\ new.item = Item(visit)
      BY <1>2, <2>3, <3>4 DEF Row
    <3>6. PICK gw : gw = given'
      OBVIOUS
    <3>7. /\ Len(gw) = visit /\ gw[visit].val = rows[visit] /\ gw[visit].key = key
          /\ gw[visit].was = Now(key) /\ Len(gw) = Len(given) + 1
          /\ \A j \in 1 .. Len(given) : gw[j] = given[j]
      BY <2>4, <2>5, <2>6, <3>6
    <3>8. /\ new.of = Len(gw) /\ Now(new.item) = gw[Len(gw)].val
          /\ eager => ~IsLent(new.item)
          /\ call.op = "BUCKET_BY" => Now(gw[Len(gw)].key) = gw[Len(gw)].was
      BY <2>3, <3>5, <3>7
    <3>9. Label(gw, Len(gw)) = LabelOf(Now(key))
      BY <3>7 DEF Label
    <3>10. \A p \in 1 .. Len(groups) :
             p \in Matching(key) <=> Label(given, Lead(groups[p])) = Label(gw, Len(gw))
      BY <1>1, <3>2, <3>3, <3>9, GroupFound DEF Matching
    <3>11. CASE Matching(key) # {}
      <4>1. Matching(key) \subseteq 1 .. Len(groups)
        BY <3>3 DEF Matching
      <4>2. PICK P : P = Found(key)
        OBVIOUS
      <4>3. P \in Matching(key)
        <5>1. \E p \in Matching(key) : \A q \in Matching(key) : p <= q
          BY <3>11, <4>1, LeastNatural
        <5>. QED  BY <4>2, <5>1
      <4>4. P \in 1 .. Len(groups) /\ Label(given, Lead(groups[P])) = Label(gw, Len(gw))
        BY <3>10, <4>1, <4>3
      <4>5. groups' = [groups EXCEPT ![P].rows = Append(@, new)]
        BY <1>6, <3>4, <3>11, <4>2
      <4>6. PICK hs : hs = groups'
        OBVIOUS
      <4>7. hs = Joined(groups, P, new)
        BY <4>5, <4>6 DEF Joined
      <4>8. GroupsOK(hs, gw)
        BY <2>6, <3>2, <3>5, <3>7, <3>8, <4>4, <4>7, JoinsGroup
      <4>. QED  BY <3>6, <4>6, <4>8
    <3>12. CASE Matching(key) = {}
      <4>1. \A p \in 1 .. Len(groups) : Label(given, Lead(groups[p])) # Label(gw, Len(gw))
        BY <3>10, <3>12
      <4>2. PICK H : H = Begun(key)
        OBVIOUS
      <4>3. Now(key) \in Value
        BY <1>2, NowIs DEF TypeInv
      <4>4. /\ H.rows = <<new>> /\ H.key = key /\ H.text = KeyText(Now(key))
            /\ H.hash = structural_hash(Now(key)) /\ H \in Group
        <5>1. <<row>> \in Seq(Row)
          BY <3>4, <3>5
        <5>2. KeyText(Now(key)) \in Kind \X Nat \X Nat /\ structural_hash(Now(key)) \in {0, 1}
          BY <4>3, TextsAre
        <5>. QED  BY <3>4, <4>2, <5>1, <5>2 DEF Group
      <4>5. /\ H.key = gw[Len(gw)].key /\ H.text = KeyText(gw[Len(gw)].was)
            /\ H.hash = structural_hash(gw[Len(gw)].was)
        BY <3>7, <4>4
      <4>6. GroupsOK(Append(groups, H), gw)
        BY <2>6, <3>2, <3>5, <3>7, <3>8, <4>1, <4>4, <4>5, BeginsGroup
      <4>7. groups' = Append(groups, H)
        BY <1>6, <3>12, <4>2
      <4>. QED  BY <3>6, <4>6, <4>7
    <3>. QED  BY <3>11, <3>12
  <2>9. ASSUME Claim'
        PROVE  GroupsOK(groups, given)'
    <3>1. PICK gs, gv : gs = groups' /\ gv = given'
      OBVIOUS
    <3>2. GroupsOK(gs, gv)
      BY <2>8, <2>9, <3>1
    <3>3. GroupsOK(gs, gv)'
      BY <2>1, <3>2, GroupsStand
    <3>. QED  BY <3>1, <3>3
  <2>10. GroupedAsCollected'
    BY <2>1 DEF GroupedAsCollected, Ended
  <2>11. Len(given') = visit' - 1 /\ visit' <= N' + 1 /\ answer' = <<>>
    BY <1>1, <1>2, <2>1, <2>2, <2>4, <2>6
  <2>. QED  BY <2>1, <2>7, <2>9, <2>10, <2>11 DEF GroupInv
<1>. QED  BY <1>4, <1>5, <1>6

\* The groups are yielded as they are.
LEMMA YieldBucketStep ==
  ASSUME TypeInv, GroupInv, YieldBucket
  PROVE  GroupInv'
<1>1. /\ call.op = "BUCKET" /\ pc = "visit"
      /\ \/ Raise("E_DEPTH")
         \/ /\ answer' = [p \in DOMAIN groups |-> [key |-> groups[p].text, rows |-> Members(groups[p])]]
            /\ pc' = "done" /\ UNCHANGED <<call, rows, visit, items, groups, heap, error>>
      /\ UNCHANGED given
  BY DEF YieldBucket
<1>2. CASE Raise("E_DEPTH")
  BY <1>2 DEF GroupInv, GroupedAsCollected, Ended, Raise
<1>3. CASE /\ answer' = [p \in DOMAIN groups |-> [key |-> groups[p].text, rows |-> Members(groups[p])]]
           /\ pc' = "done" /\ call' = call
  <2>1. GroupsOK(groups, given)
    BY <1>1 DEF GroupInv, Claim
  <2>2. Len(groups) \in Nat /\ DOMAIN groups = 1 .. Len(groups)
    BY <2>1 DEF GroupsOK
  <2>3. PICK shown : shown = answer'
    OBVIOUS
  <2>4. DOMAIN shown = 1 .. Len(groups)
    BY <1>3, <2>2, <2>3
  <2>5. \A p \in 1 .. Len(groups) : shown[p].rows = Members(groups[p])
    BY <1>3, <2>2, <2>3
  <2>6. Len(shown) = Len(groups)
    <3>1. shown = [p \in 1 .. Len(groups) |-> shown[p]]
      BY <1>3, <2>2, <2>3
    <3>2. shown \in [1 .. Len(groups) -> {shown[p] : p \in 1 .. Len(groups)}]
      BY <3>1
    <3>3. shown \in Seq({shown[p] : p \in 1 .. Len(groups)})
      BY <2>2, <3>2
    <3>. QED  BY <2>2, <2>4, <3>3
  <2>7. \A p \in 1 .. Len(groups) : ShownAs(shown[p].rows, groups[p])
    BY <2>1, <2>5, MembersShown
  <2>8. GroupedAsCollected'
    BY <1>1, <1>3, <2>3, <2>4, <2>6, <2>7, GroupsEnd
  <2>. QED  BY <1>1, <1>3, <2>8 DEF GroupInv
<1>. QED  BY <1>1, <1>2, <1>3

\* The projection is shown a group more, or has been shown them all.
LEMMA ProjectStep ==
  ASSUME TypeInv, GroupInv, Project
  PROVE  GroupInv'
<1>1. /\ call.op = "BUCKET_BY" /\ pc = "project"
      /\ UNCHANGED <<call, rows, items, groups, heap, error, given>>
      /\ visit \in Nat \ {0}
  BY DEF Project, TypeInv
<1>2. /\ \A j \in 1 .. Len(given) : given[j].of = j
      /\ Claim => /\ GroupsOK(groups, given)
                  /\ answer \in Seq(Answer) /\ Len(answer) = visit - 1 /\ visit <= Len(groups) + 1
                  /\ \A p \in 1 .. Len(answer) : ShownAs(answer[p].rows, groups[p])
  BY <1>1 DEF GroupInv
<1>3. CASE visit > Len(groups)
  <2>1. pc' = "done" /\ answer' = answer
    BY <1>3 DEF Project
  <2>2. CASE Claim
    <3>1. Len(groups) \in Nat
      BY <1>2, <2>2 DEF GroupsOK
    <3>2. Len(answer) = Len(groups) /\ DOMAIN answer = 1 .. Len(groups)
      BY <1>1, <1>2, <1>3, <2>2, <3>1
    <3>3. \A p \in 1 .. Len(groups) : ShownAs(answer'[p].rows, groups[p])
      BY <1>2, <2>1, <2>2, <3>2
    <3>4. GroupedAsCollected'
      BY <1>1, <2>1, <3>2, <3>3, GroupsEnd
    <3>. QED  BY <1>1, <2>1, <3>4 DEF GroupInv
  <2>3. CASE ~Claim
    <3>1. ~KeysStand'
      BY <1>1, <2>3 DEF Claim, KeysStand, eager, may_write, IsLent
    <3>2. GroupedAsCollected'
      BY <1>1, <3>1 DEF GroupedAsCollected
    <3>. QED  BY <1>1, <2>1, <3>2 DEF GroupInv
  <2>. QED  BY <2>2, <2>3
<1>4. CASE ~(visit > Len(groups))
  <2>. DEFINE new == [key |-> Now(groups[visit].key), rows |-> Members(groups[visit])]
  <2>1. pc' = pc /\ visit' = visit + 1 /\ answer' = Append(answer, new)
    BY <1>4 DEF Project
  <2>2. Claim' => Claim
    BY <1>1 DEF Claim, KeysStand, eager, may_write, IsLent
  <2>3. ASSUME Claim
        PROVE  /\ GroupsOK(groups, given)' /\ answer' \in Seq(Answer)
               /\ Len(answer') = visit' - 1 /\ visit' <= Len(groups') + 1
               /\ \A p \in 1 .. Len(answer') : ShownAs(answer[p].rows, groups[p])'
    <3>1. /\ GroupsOK(groups, given)
          /\ answer \in Seq(Answer) /\ Len(answer) = visit - 1 /\ visit <= Len(groups) + 1
          /\ \A p \in 1 .. Len(answer) : ShownAs(answer[p].rows, groups[p])
      BY <1>2, <2>3
    <3>2. Len(groups) \in Nat
      BY <3>1 DEF GroupsOK
    <3>3. visit \in 1 .. Len(groups)
      BY <1>1, <1>4, <3>2
    <3>4. /\ Members(groups[visit]) \in Seq(Shown)
          /\ ShownAs(Members(groups[visit]), groups[visit])
          /\ Now(groups[visit].key) \in Values
      BY <3>1, <3>3, MembersShown
    <3>5. new \in Answer
      BY <3>4 DEF Answer
    <3>6. new.rows = Members(groups[visit])
      OBVIOUS
    <3>. HIDE DEF new
    <3>7. /\ answer' \in Seq(Answer) /\ Len(answer') = Len(answer) + 1
          /\ \A p \in 1 .. Len(answer) : answer'[p] = answer[p]
          /\ answer'[Len(answer) + 1] = new
      BY <2>1, <3>1, <3>5
    <3>8. Answer' = Answer
      BY <1>1 DEF Answer, Shown, Values, Rows, N
    <3>9. PICK gs, gv : gs = groups' /\ gv = given'
      OBVIOUS
    <3>10. GroupsOK(gs, gv)
      BY <1>1, <3>1, <3>9
    <3>11. GroupsOK(gs, gv)'
      BY <1>1, <3>10, GroupsStand
    <3>12. ASSUME NEW p \in 1 .. Len(answer')
           PROVE  ShownAs(answer[p].rows, groups[p])'
      <4>1. ShownAs(answer'[p].rows, groups[p])
        <5>1. CASE p \in 1 .. Len(answer)
          BY <3>1, <3>7, <5>1
        <5>2. CASE p = visit
          BY <3>1, <3>4, <3>6, <3>7, <5>2
        <5>. QED  BY <1>1, <3>1, <3>7, <5>1, <5>2
      <4>. QED  BY <1>1, <4>1 DEF ShownAs
    <3>13. Len(answer') = visit' - 1 /\ visit' <= Len(groups') + 1
      BY <1>1, <2>1, <3>1, <3>2, <3>3, <3>7
    <3>. QED  BY <3>7, <3>8, <3>9, <3>11, <3>12, <3>13
  <2>4. GroupedAsCollected'
    BY <1>1, <2>1 DEF GroupedAsCollected, Ended
  <2>5. Answer' = Answer
    BY <1>1 DEF Answer, Shown, Values, Rows, N
  <2>6. \A j \in 1 .. Len(given') : given'[j].of = j
    BY <1>1, <1>2
  <2>. QED  BY <1>1, <2>1, <2>2, <2>3, <2>4, <2>5, <2>6 DEF GroupInv
<1>. QED  BY <1>3, <1>4

\* What is written where all is copied changes no group.
LEMMA GroupWrite ==
  ASSUME TypeInv, GroupInv, Write, call.op \in {"BUCKET", "BUCKET_BY"}
  PROVE  GroupInv'
<1>1. UNCHANGED <<call, pc, visit, items, groups, heap, answer, error, given>>
  BY DEF Write
<1>2. N' = N /\ Answer' = Answer /\ eager' = eager
  BY <1>1 DEF Answer, Shown, Values, Rows, N, eager, may_write
<1>3. eager /\ pc \in {"visit", "project"}
  <2>1. Body = "writes"
    BY DEF Write, Writes
  <2>2. \/ pc = "visit" /\ call.body = "writes"
        \/ pc = "project" /\ call.then = "writes" /\ call.op = "BUCKET_BY"
    BY <2>1 DEF Body, TypeInv
  <2>. QED  BY <2>2 DEF eager, may_write
<1>4. Claim' <=> Claim
  BY <1>1, <1>2 DEF Claim, KeysStand, IsLent
<1>5. ASSUME Claim
      PROVE  GroupsOK(groups, given)'
  <2>1. GroupsOK(groups, given)
    BY <1>3, <1>5 DEF GroupInv
  <2>2. call.op = "BUCKET_BY" => \A j \in 1 .. Len(given) : ~IsLent(given[j].key)
    <3>1. DOMAIN given = 1 .. Len(given)
      BY DEF TypeInv
    <3>. QED  BY <1>3, <1>5, <3>1 DEF Claim, KeysStand
  <2>3. PICK gs, gv : gs = groups /\ gv = given
    OBVIOUS
  <2>4. GroupsOK(gs, gv)'
    BY <1>1, <1>3, <2>1, <2>2, <2>3, GroupsStand
  <2>5. gs = groups' /\ gv = given'
    BY <1>1, <2>3
  <2>. QED  BY <2>4, <2>5
<1>6. \A p : ShownAs(answer[p].rows, groups[p])' <=> ShownAs(answer[p].rows, groups[p])
  BY <1>1 DEF ShownAs
<1>7. GroupedAsCollected'
  BY <1>1, <1>3 DEF GroupedAsCollected, Ended
<1>. QED  BY <1>1, <1>2, <1>4, <1>5, <1>6, <1>7 DEF GroupInv

\* Nothing happens.
LEMMA GroupStutter ==
  ASSUME TypeInv, GroupInv, UNCHANGED vars
  PROVE  GroupInv'
<1>1. UNCHANGED <<call, rows, pc, visit, items, groups, heap, answer, error, given>>
  BY DEF vars
<1>2. N' = N /\ Answer' = Answer /\ eager' = eager
  BY <1>1 DEF Answer, Shown, Values, Rows, N, eager, may_write
<1>3. Claim' <=> Claim
  BY <1>1, <1>2 DEF Claim, KeysStand, IsLent
<1>4. ASSUME GroupsOK(groups, given)
      PROVE  GroupsOK(groups, given)'
  <2>1. PICK gs, gv : gs = groups /\ gv = given
    OBVIOUS
  <2>2. GroupsOK(gs, gv)'
    BY <1>1, <1>4, <2>1, GroupsStand
  <2>3. gs = groups' /\ gv = given'
    BY <1>1, <2>1
  <2>. QED  BY <2>2, <2>3
<1>5. \A p : ShownAs(answer[p].rows, groups[p])' <=> ShownAs(answer[p].rows, groups[p])
  BY <1>1 DEF ShownAs
<1>6. ASSUME GroupedAsCollected
      PROVE  GroupedAsCollected'
  <2>1. GroupedBy(SameText, answer) => GroupedBy(SameText, answer)'
    <3>1. ByText(given, answer) => ByText(given', answer')
      BY <1>1
    <3>2. GroupedBy(SameText, answer) => ByText(given, answer)
      BY DEF GroupedBy, Leaders, SameText, ByText, KeyText
    <3>3. ByText(given', answer') => GroupedBy(SameText, answer)'
      BY DEF GroupedBy, Leaders, SameText, ByText, KeyText
    <3>. QED  BY <3>1, <3>2, <3>3
  <2>2. GroupedBy(SameKey, answer) => GroupedBy(SameKey, answer)'
    <3>1. ByKey(given, answer) => ByKey(given', answer')
      BY <1>1
    <3>2. GroupedBy(SameKey, answer) => ByKey(given, answer)
      BY DEF GroupedBy, Leaders, SameKey, ByKey, eql
    <3>3. ByKey(given', answer') => GroupedBy(SameKey, answer)'
      BY DEF GroupedBy, Leaders, SameKey, ByKey, eql
    <3>. QED  BY <3>1, <3>2, <3>3
  <2>3. (KeysStand' <=> KeysStand) /\ (Ended' <=> Ended)
    BY <1>1, <1>2 DEF KeysStand, IsLent, Ended
  <2>4. DEFINE A1 == GroupedBy(SameText, answer)
               A2 == GroupedBy(SameText, answer)'
               B1 == GroupedBy(SameKey, answer)
               B2 == GroupedBy(SameKey, answer)'
  <2>5. Ended => (call.op = "BUCKET" => A1) /\ ((call.op = "BUCKET_BY" /\ KeysStand) => B1)
    BY <1>6 DEF GroupedAsCollected
  <2>6. Ended' => (call'.op = "BUCKET" => A2) /\ ((call'.op = "BUCKET_BY" /\ KeysStand') => B2)
    <3>1. (A1 => A2) /\ (B1 => B2)
      BY <2>1, <2>2
    <3>. HIDE DEF A1, A2, B1, B2
    <3>. QED  BY <1>1, <2>3, <2>5, <3>1
  <2>. QED  BY <2>6 DEF GroupedAsCollected
<1>. QED  BY <1>1, <1>2, <1>3, <1>4, <1>5, <1>6 DEF GroupInv

LEMMA GroupStep ==
  ASSUME TypeInv, GroupInv, [Next]_vars
  PROVE  GroupInv'
<1>1. /\ call' = call /\ N' = N
  BY CallKept
<1>2. SUFFICES ASSUME call.op \in {"BUCKET", "BUCKET_BY"}
               PROVE  GroupInv'
  BY <1>1 DEF GroupInv
<1>3. pc \in {"visit", "project", "done"}
  BY <1>2 DEF TypeInv
<1>4. CASE UNCHANGED vars
  BY <1>4, GroupStutter
<1>5. CASE Again
  <2>1. /\ pc' = "visit" /\ groups' = <<>> /\ given' = <<>> /\ answer' = <<>> /\ visit' = 1
    BY <1>5 DEF Again
  <2>2. GroupsOK(groups, given)'
    <3>1. groups' = <<>> /\ given' = <<>> /\ Len(<<>>) = 0 /\ 1 .. 0 = {} /\ <<>> \in Seq(Group')
      BY <2>1
    <3>. QED  BY <3>1 DEF GroupsOK
  <2>3. N \in Nat /\ Len(<<>>) = 0 /\ \A j \in 1 .. 0 : FALSE
    BY CallIs DEF TypeInv
  <2>4. GroupedAsCollected'
    BY <2>1 DEF GroupedAsCollected, Ended
  <2>. QED  BY <1>1, <2>1, <2>2, <2>3, <2>4 DEF GroupInv
<1>6. CASE Write
  BY <1>2, <1>6, GroupWrite
<1>7. CASE BodyRaises
  <2>1. pc' = "done" /\ error' = "E_BODY"
    BY <1>7 DEF BodyRaises, Raise
  <2>. QED  BY <2>1 DEF GroupInv, GroupedAsCollected, Ended
<1>8. CASE fn_bucket
  BY <1>8, BucketVisit
<1>9. CASE YieldBucket
  BY <1>9, YieldBucketStep
<1>10. CASE BeginProjecting
  <2>1. /\ call.op = "BUCKET_BY" /\ pc = "visit" /\ pc' = "project" /\ visit' = 1
        /\ UNCHANGED <<call, rows, groups, answer, error, given>>
    BY <1>10 DEF BeginProjecting
  <2>2. /\ \A j \in 1 .. Len(given) : given[j].of = j
        /\ answer = <<>>
        /\ Claim => GroupsOK(groups, given)
    BY <1>2, <2>1 DEF GroupInv
  <2>3. Claim' => Claim
    BY <2>1 DEF Claim, KeysStand, eager, may_write, IsLent
  <2>4. ASSUME Claim
        PROVE  GroupsOK(groups, given)' /\ 1 <= Len(groups) + 1
    <3>1. PICK gs, gv : gs = groups /\ gv = given
      OBVIOUS
    <3>2. GroupsOK(gs, gv)'
      BY <2>1, <2>2, <2>4, <3>1, GroupsStand
    <3>3. gs = groups' /\ gv = given'
      BY <2>1, <3>1
    <3>4. Len(groups) \in Nat
      BY <2>2, <2>4 DEF GroupsOK
    <3>. QED  BY <3>2, <3>3, <3>4
  <2>5. answer' \in Seq(Answer') /\ Len(answer') = 0 /\ \A p \in 1 .. 0 : FALSE
    BY <2>1, <2>2
  <2>6. GroupedAsCollected'
    BY <2>1 DEF GroupedAsCollected, Ended
  <2>. QED  BY <2>1, <2>2, <2>3, <2>4, <2>5, <2>6 DEF GroupInv
<1>11. CASE Project
  BY <1>11, ProjectStep
<1>12. CASE \/ do_sort \/ do_top \/ prepare_sort_keys \/ select_top_indices \/ YieldSorted
            \/ fn_map \/ filter_rows \/ YieldList \/ NextStage \/ fn_dedupe
  <2>1. call.op \notin {"SORT", "TOP", "MAP", "FILTER", "DISTINCT"}
        /\ pc \notin {"next", "select", "finish"}
    BY <1>2, <1>3
  <2>. QED  BY <1>12, <2>1 DEF do_sort, do_top, prepare_sort_keys, select_top_indices,
               YieldSorted, fn_map, filter_rows, YieldList, NextStage, fn_dedupe
<1>. QED  BY <1>4, <1>5, <1>6, <1>7, <1>8, <1>9, <1>10, <1>11, <1>12 DEF Next

-----------------------------------------------------------------------------
(* The theorems.                                                            *)

\* The inductive invariant: the parts, and for each kind of call what its state
\* remembers of what the visits were given.
IInv ==
  /\ TypeInv
  /\ DepthAtVisitOrDeferred
  /\ ListInv
  /\ DistinctInv
  /\ SortInv
  /\ GroupInv

LEMMA IInvInit ==
  ASSUME Init
  PROVE  IInv
<1>1. /\ pc = "visit" /\ visit = 1 /\ items = <<>> /\ groups = <<>> /\ heap = {}
      /\ answer = <<>> /\ error = "none" /\ given = <<>> /\ call \in Calls
  BY DEF Init
<1>2. TypeInv /\ N \in Nat
  BY <1>1, TypeInit, CallIs
<1>3. /\ Len(<<>>) = 0 /\ DOMAIN <<>> = {} /\ 1 .. 0 = {}
      /\ \A S : <<>> \in Seq(S)
  OBVIOUS
<1>4. ~Ended
  BY <1>1 DEF Ended
<1>5. DepthAtVisitOrDeferred
  BY <1>1, <1>3 DEF DepthAtVisitOrDeferred
<1>6. ListInv
  BY <1>1, <1>3, <1>4 DEF ListInv, ListedAsCollected
<1>7. SortInv
  BY <1>1, <1>2, <1>3, <1>4 DEF SortInv, SortedAsCollected
<1>8. GroupInv
  <2>1. GroupsOK(groups, given)
    BY <1>1, <1>3 DEF GroupsOK
  <2>. QED  BY <1>1, <1>2, <1>3, <1>4, <2>1 DEF GroupInv, GroupedAsCollected
<1>9. DistinctInv
  <2>1. Firsts(visit - 1) = {}
    <3>1. visit - 1 = 0 /\ 1 .. 0 = {}
      BY <1>1
    <3>2. Firsts(0) = {}
      BY <1>2 DEF Firsts, Rows
    <3>. QED  BY <3>1, <3>2
  <2>2. {items[p].of : p \in 1 .. Len(items)} = {}
    BY <1>1, <1>3
  <2>. QED  BY <1>1, <1>2, <1>3, <1>4, <2>1, <2>2 DEF DistinctInv, DistinctKeepsFirsts
<1>. QED  BY <1>2, <1>5, <1>6, <1>7, <1>8, <1>9 DEF IInv

LEMMA IInvStep ==
  ASSUME IInv, [Next]_vars
  PROVE  IInv'
BY TypeStep, DepthStep, ListStep, DistinctStep, SortStep, GroupStep DEF IInv

\* The invariant holds whatever the calls are, however many children their sources
\* have and whatever the bodies write and yield.
THEOREM CollectorsInvariant == Spec => []IInv
<1>1. Init => IInv
  BY IInvInit
<1>2. IInv /\ [Next]_vars => IInv'
  BY IInvStep
<1>. QED  BY <1>1, <1>2, PTL DEF Spec

\* While TOP selects, none of the rows seen and not in select_top_indices' heap
\* precedes one that is in it, by the keys as they stood when the last was computed.
LEMMA HeapIsBest ==
  ASSUME IInv
  PROVE  HeapHoldsBest
<1>1. SUFFICES ASSUME pc = "select"
               PROVE  HeapHoldsBest
  BY DEF HeapHoldsBest
<1>2. call.op = "TOP" /\ TypeInv /\ SortInv /\ HeapOK /\ visit <= N + 1
  BY <1>1 DEF IInv, TypeInv, SortInv
<1>3. /\ N \in Nat /\ visit \in Nat
      /\ \A i, j \in 1 .. N : Precedes(given[i], given[j]) <=> Less(i, j)
  BY <1>1, <1>2, PrecedesIs DEF TypeInv
<1>4. \A i \in 1 .. visit - 1 : i \in 1 .. N
  BY <1>2, <1>3
<1>5. \A i \in heap, j \in (1 .. visit - 1) \ heap : Precedes(given[i], given[j])
  BY <1>2, <1>3, <1>4 DEF HeapOK
<1>. QED  BY <1>2, <1>5 DEF HeapHoldsBest, HeapOK

\* TOP's heap (select_top_indices) is what sorting the rows seen so far and taking
\* the first `limit' of them would keep, at every step of its loop.
THEOREM HeapHoldsBestAlways == Spec => []HeapHoldsBest
BY CollectorsInvariant, HeapIsBest, PTL

\* SORT and TOP yield their elements in order, each as it was when its own key had
\* been computed, though do_top leaves the copies out and prepare_sort_keys reads
\* the keys only once all of them are there.
THEOREM SortedAsCollectedAlways == Spec => []SortedAsCollected
<1>1. IInv => SortedAsCollected
  BY DEF IInv, SortInv, SortedAsCollected
<1>. QED  BY <1>1, CollectorsInvariant, PTL

\* MAP, FILTER and the stage after a FILTER yield what each visit collected, though
\* fresh_record and borrowed_filter leave copies out.
THEOREM ListedAsCollectedAlways == Spec => []ListedAsCollected
<1>1. IInv => ListedAsCollected
  BY DEF IInv, ListInv, ListedAsCollected
<1>. QED  BY <1>1, CollectorsInvariant, PTL

\* BUCKET's groups are the classes of its rows, in order of first appearance, each
\* row as it was when grouped, though fn_bucket defers the copies and finds a group
\* by text or by hash before EQL.
THEOREM GroupedAsCollectedAlways == Spec => []GroupedAsCollected
<1>1. IInv => GroupedAsCollected
  BY DEF IInv, GroupInv, GroupedAsCollected
<1>. QED  BY <1>1, CollectorsInvariant, PTL

\* DISTINCT keeps the first of each kind, in order, though fn_dedupe compares only
\* the elements whose hashes meet.
THEOREM DistinctKeepsFirstsAlways == Spec => []DistinctKeepsFirsts
<1>1. IInv => DistinctKeepsFirsts
  BY DEF IInv, DistinctInv, DistinctKeepsFirsts
<1>. QED  BY <1>1, CollectorsInvariant, PTL

\* That an element is too deep is raised at its own visit, wherever check_copy_depth
\* stands in for the copy; only a BUCKET that defers its copies raises it later.
THEOREM DepthAtVisitOrDeferredAlways == Spec => []DepthAtVisitOrDeferred
<1>1. IInv => DepthAtVisitOrDeferred
  BY DEF IInv
<1>. QED  BY <1>1, CollectorsInvariant, PTL
=============================================================================
