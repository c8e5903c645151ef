----------------------------- MODULE Assignment -----------------------------
(***************************************************************************)
(* Values as the cells they are (Value is an Rc<RefCell<ValueInner>>):     *)
(* what a program reads, assigns and collects over the heap of cells under *)
(* the root of its Context.  A subexpression yields a cell, not a copy of  *)
(* it, and what holds a cell while it evaluates something else - a read    *)
(* waiting for its key, an assignment waiting for its right side, a call   *)
(* waiting for its other arguments - finds in it what was stored since.    *)
(* The program is chosen as it runs.  VariableTree is what this amounts to.*)
(*                                                                         *)
(* A cell is its scalar and its children; which kind of scalar, and how    *)
(* the children are represented (ValueCell), is left out.                  *)
(***************************************************************************)
EXTENDS Naturals, Sequences, FiniteSets, SequencesExt

CONSTANTS
  Names,        \* variables
  Texts,        \* scalars, and so keys: numbers, for a list's keys are numbers
  MaxDepth,     \* MAX_DEPTH
  MaxCells,     \* bound: cells alive at once while operations wait,
  MaxAtRest,    \* and when none does
  MaxPending,   \* bound: operations waiting at once
  MaxItems,     \* bound: arguments of a LIST
  Absent, Missing, Failed   \* no cell: none yet; E_NO_KEY or E_UNDEF_VAR;
                            \* another error

ASSUME TextsAssumption == Texts \subseteq Nat
ASSUME MaxDepthAssumption == MaxDepth \in Nat \ {0}
ASSUME MarksAssumption == Absent \notin Nat /\ Missing \notin Nat /\ Failed \notin Nat

VARIABLES
  heap,       \* the cells alive
  pending,    \* the operations waiting for a value, outermost first
  result      \* the cell last yielded, or what came instead of one

vars == <<heap, pending, result>>

root == 0     \* ctx.root
NewCell(scalar) == [scalar |-> scalar, kids |-> <<>>]

-----------------------------------------------------------------------------
(* Reading the heap h. *)

KeysIn(h, c) == {h[c].kids[i].key : i \in DOMAIN h[c].kids}
SlotOf(h, c, k) == CHOOSE i \in DOMAIN h[c].kids : h[c].kids[i].key = k
get(h, c, k) == h[c].kids[SlotOf(h, c, k)].cell
Kids(h, c) == [i \in DOMAIN h[c].kids |-> h[c].kids[i].cell]
Children(h, c) == {h[c].kids[i].cell : i \in DOMAIN h[c].kids}

\* The cells these lead to, in the order they are met: the children of the nth
\* follow those of the ones before it.
Meet(seen, cells) ==
  FoldLeft(LAMBDA met, c : IF c \in Range(met) THEN met ELSE Append(met, c),
           seen, cells)
Reached(h, cells) ==
  LET met[n \in Nat] ==
        IF n = 0 THEN Meet(<<>>, cells)
        ELSE LET seen == met[n - 1]
             IN  IF n > Len(seen) THEN seen ELSE Meet(seen, Kids(h, seen[n]))
  IN  met[Cardinality(DOMAIN h)]

\* The cells under c, and c itself.
Under(h, c) == Range(Reached(h, <<c>>))
\* A value put at this depth would reach past the limit.
TooDeep(h, c, depth) ==
  LET level[n \in Nat] ==
        IF n = 0 THEN {c} ELSE UNION {Children(h, d) : d \in level[n - 1]}
  IN  level[MaxDepth + 1 - depth] # {}

\* scalar_source, then as_text: a value without a scalar is read as its first
\* child; Absent when that leads nowhere.
as_text(h, c) ==
  LET source[n \in Nat] ==
        IF n = 0 THEN c
        ELSE LET d == source[n - 1]
             IN  IF h[d].scalar # Absent \/ h[d].kids = <<>> THEN d
                 ELSE h[d].kids[1].cell
  IN  h[source[MaxDepth + 1]].scalar

\* What an aggregate walks: a scalar without children is its own element.
elems(h, c) ==
  IF h[c].kids = <<>> /\ h[c].scalar # Absent THEN <<c>>
  ELSE Kids(h, c)

-----------------------------------------------------------------------------
(* Changing it: each returns the heap it makes, with the cell it ends at. *)

With(h, cells) ==
  [c \in DOMAIN h \cup DOMAIN cells |-> IF c \in DOMAIN cells THEN cells[c] ELSE h[c]]

Alloc(h, cell) ==
  LET new == Cardinality(DOMAIN h)
  IN  [heap |-> With(h, [c \in {new} |-> cell]), at |-> new]

list(h, cells) ==
  Alloc(h, [scalar |-> Absent,
            kids |-> [i \in DOMAIN cells |-> [key |-> i, cell |-> cells[i]]]])

SetInPlace(h, c, k, v) ==     \* mutant: the cell found there is rewritten
  IF k \in KeysIn(h, c) THEN [h EXCEPT ![get(h, c, k)] = h[v]]
  ELSE [h EXCEPT ![c].kids = Append(@, [key |-> k, cell |-> v])]

set(h, c, k, v) ==
  IF k \in KeysIn(h, c) THEN [h EXCEPT ![c].kids[SlotOf(h, c, k)].cell = v]
  ELSE [h EXCEPT ![c].kids = Append(@, [key |-> k, cell |-> v])]

CopyTop(h, c) == Alloc(h, h[c])         \* mutant: the children are shared

\* These cells under new addresses, from the first on, in their order.
Addresses(cells, first) ==
  [c \in Range(cells) |-> first + (CHOOSE i \in DOMAIN cells : cells[i] = c) - 1]
Moved(h, cells, first) ==
  LET new == Addresses(cells, first)
      Twin(d) == [scalar |-> d.scalar,
                  kids |-> [i \in DOMAIN d.kids |->
                              [key |-> d.kids[i].key, cell |-> new[d.kids[i].cell]]]]
  IN  [e \in first .. first + Len(cells) - 1 |-> Twin(h[cells[e - first + 1]])]

deep_copy(h, c) ==
  LET old == Reached(h, <<c>>)
      new == Cardinality(DOMAIN h)
  IN  [heap |-> With(h, Moved(h, old, new)), at |-> Addresses(old, new)[c]]

Alias(h, cells) == [heap |-> h, got |-> cells]      \* mutant: nothing is copied

\* The copies a collector makes of these cells, in order.
CopyEach(h, cells) ==
  FoldLeft(LAMBDA s, c : LET copy == deep_copy(s.heap, c)
                         IN  [heap |-> copy.heap, got |-> Append(s.got, copy.at)],
           [heap |-> h, got |-> <<>>], cells)

\* One level of the walk: the level is made when it is not there.
Descend(s, k) ==
  IF k \in KeysIn(s.heap, s.at) THEN [s EXCEPT !.at = get(s.heap, s.at, k)]
  ELSE LET new == Alloc(s.heap, NewCell(Absent))
       IN  [new EXCEPT !.heap = set(new.heap, s.at, k, new.at)]

walk_create(h, path) == FoldLeft(Descend, [heap |-> h, at |-> root], path)

-----------------------------------------------------------------------------
Op(kind, path, left, got) ==
  [kind |-> kind, path |-> path, left |-> left, got |-> got]
Top == IF pending = <<>> THEN Op("program", <<>>, 0, <<>>) ELSE Last(pending)
Replace(op) == Append(Front(pending), op)
Assigns(op) == op.kind \in {"=", "+="}

IsCell(r) == r \notin {Absent, Missing, Failed}

\* The cells in use: the root, those an operation holds, the one yielded.
Held(p, r) ==
  FoldLeft(LAMBDA cells, op : cells \o op.got, <<root>>, p)
    \o IF IsCell(r) THEN <<r>> ELSE <<>>

\* The step leaves h.  Cells nothing leads to any more are dropped (Rc), and the
\* others numbered anew: an address means nothing, so two heaps that differ in
\* addresses only are one state.
Leave(h, p, r) ==
  LET live == Reached(h, Held(p, r))
      name == Addresses(live, 0)
      Named(cells) == [i \in DOMAIN cells |-> name[cells[i]]]
  IN  /\ Len(live) <= IF p = <<>> THEN MaxAtRest ELSE MaxCells
      /\ heap' = Moved(h, live, 0)
      /\ pending' = [i \in DOMAIN p |-> [p[i] EXCEPT !.got = Named(@)]]
      /\ result' = IF IsCell(r) THEN name[r] ELSE r

Fail(err) == Leave(heap, Front(pending), err)
Yielded == IsCell(result)

\* A compound assignment reads its target before its right side is asked for.
ReadsTarget == Top.kind = "+=" /\ Top.left = 0 /\ Top.got = <<>>
Asking == result = Absent /\ ~ReadsTarget

Literal ==
  /\ Asking
  /\ \E t \in Texts \cup {Absent} :
       LET new == Alloc(heap, NewCell(t)) IN Leave(new.heap, pending, new.at)

lookup ==
  /\ Asking
  /\ \E x \in Names :
       Leave(heap, pending,
             IF x \in KeysIn(heap, root) THEN get(heap, root, x) ELSE Missing)

\* a ; b: the value of a is dropped.
Sequence ==
  /\ Yielded
  /\ Leave(heap, pending, Absent)

-----------------------------------------------------------------------------
\* eval_assign begins: resolve_target, up to the first key.
Target(kind) ==
  /\ Asking /\ Len(pending) < MaxPending
  /\ \E x \in Names, n \in 0 .. MaxDepth :
       IF n + 1 > MaxDepth THEN Leave(heap, pending, Failed)
       ELSE Leave(IF n > 0 THEN walk_create(heap, <<x>>).heap ELSE heap,
                  Append(pending, Op(kind, <<x>>, n, <<>>)), Absent)

\* resolve_target's loop: the value just yielded is the target's next key.
resolve_target ==
  /\ Yielded /\ Assigns(Top) /\ Top.left > 0
  /\ LET k    == as_text(heap, result)
         path == Append(Top.path, k)
     IN  IF k = Absent THEN Fail(Failed)
         ELSE Leave(IF Top.left > 1 THEN walk_create(heap, path).heap ELSE heap,
                    Replace([Top EXCEPT !.path = path, !.left = @ - 1]), Absent)

ReadTarget ==
  /\ result = Absent /\ ReadsTarget
  /\ LET w == walk_create(heap, Front(Top.path))
         k == Last(Top.path)
     IN  IF k \in KeysIn(w.heap, w.at)
         THEN Leave(w.heap, Replace([Top EXCEPT !.got = <<get(w.heap, w.at, k)>>]),
                    Absent)
         ELSE Leave(w.heap, Front(pending), Missing)

StoreIfThere(h, path, v) ==     \* mutant: lost when the container is gone
  LET w == walk_create(h, Front(path))
  IN  IF w.heap = h THEN set(h, w.at, Last(path), v) ELSE h

\* The container is found again, in the tree as it is now.
StoreAt(h, path, v) ==
  LET w == walk_create(h, Front(path)) IN set(w.heap, w.at, Last(path), v)

CopiedShallower(path) == Len(path) - 1   \* mutant: a level of the path is missed
CopyDepth(path) == Len(path)

Assign ==
  /\ Yielded /\ Top.kind = "=" /\ Top.left = 0
  /\ IF TooDeep(heap, result, CopyDepth(Top.path)) THEN Fail(Failed)
     ELSE LET copy == deep_copy(heap, result)
          IN  Leave(StoreAt(copy.heap, Top.path, copy.at), Front(pending), copy.at)

\* The operator reads both operands now; what it computes is any scalar.
CompoundAssign ==
  /\ Yielded /\ Top.kind = "+=" /\ Top.left = 0
  /\ IF Absent \in {as_text(heap, Top.got[1]), as_text(heap, result)}
     THEN Fail(Failed)
     ELSE \E t \in Texts :
            LET new == Alloc(heap, NewCell(t))
            IN  Leave(StoreAt(new.heap, Top.path, new.at), Front(pending), new.at)

-----------------------------------------------------------------------------
\* The value just yielded is the object of an index expression, or the first
\* argument of a strict call: held while the rest is evaluated.
Hold(kind) ==
  /\ Yielded /\ Len(pending) < MaxPending
  /\ Leave(heap, Append(pending, Op(kind, <<>>, 0, <<result>>)), Absent)

eval_index ==
  /\ Yielded /\ Top.kind = "index"
  /\ LET obj == Top.got[1]
         k   == as_text(heap, result)
     IN  IF k = Absent THEN Fail(Failed)
         ELSE IF k \in KeysIn(heap, obj)
         THEN Leave(heap, Front(pending), get(heap, obj, k))
         ELSE Fail(Missing)

\* TAKE and DROP: a new container, whose elements are the source's own.
fn_take ==
  /\ Yielded /\ Top.kind = "TAKE"
  /\ LET n   == as_text(heap, result)
         all == elems(heap, Top.got[1])
     IN  IF n = Absent THEN Fail(Failed)
         ELSE LET new == list(heap, SubSeq(all, 1, Min({n, Len(all)})))
              IN  Leave(new.heap, Front(pending), new.at)

fn_drop ==
  /\ Yielded /\ Top.kind = "DROP"
  /\ LET n   == as_text(heap, result)
         all == elems(heap, Top.got[1])
     IN  IF n = Absent THEN Fail(Failed)
         ELSE LET new == list(heap, SubSeq(all, n + 1, Len(all)))
              IN  Leave(new.heap, Front(pending), new.at)

\* LIST is strict: every argument is evaluated before fn_list copies any.
Argument ==
  /\ Yielded /\ Top.kind = "LIST" /\ Len(Top.got) < MaxItems
  /\ Leave(heap, Replace([Top EXCEPT !.got = Append(@, result)]), Absent)

fn_list ==
  /\ Asking /\ Top.kind = "LIST"
  /\ IF \E i \in DOMAIN Top.got : TooDeep(heap, Top.got[i], 2) THEN Fail(Failed)
     ELSE LET copies == CopyEach(heap, Top.got)
              new    == list(copies.heap, copies.got)
          IN  Leave(new.heap, Front(pending), new.at)

\* What an operand of a comma contributes.
Contributed(h, c) ==
  IF h[c].scalar = Absent /\ h[c].kids # <<>> THEN elems(h, c) ELSE <<c>>

CollectsTooDeep(c) ==
  \E i \in DOMAIN Contributed(heap, c) : TooDeep(heap, Contributed(heap, c)[i], 2)

\* The comma copies each operand as soon as it has its value.
BeginList ==
  /\ Yielded /\ Len(pending) < MaxPending
  /\ IF CollectsTooDeep(result) THEN Leave(heap, pending, Failed)
     ELSE LET copies == CopyEach(heap, Contributed(heap, result))
          IN  Leave(copies.heap, Append(pending, Op("comma", <<>>, 0, copies.got)),
                    Absent)

eval_list ==
  /\ Yielded /\ Top.kind = "comma"
  /\ IF CollectsTooDeep(result) THEN Fail(Failed)
     ELSE LET copies == CopyEach(heap, Contributed(heap, result))
              got    == Top.got \o copies.got
              new    == list(copies.heap, got)
          IN  \/ Leave(copies.heap, Replace([Top EXCEPT !.got = got]), Absent)
              \/ Leave(new.heap, Front(pending), new.at)

-----------------------------------------------------------------------------
\* ?? catches the error, wherever it stands among what waits.
Catch ==
  /\ result = Missing
  /\ \E n \in 0 .. Len(pending) : Leave(heap, SubSeq(pending, 1, n), Absent)

\* The program ends; the host runs another on the same root.
NewRun ==
  /\ result \in {Missing, Failed}
  /\ Leave(heap, <<>>, Absent)

Init ==
  /\ heap = [c \in {root} |-> NewCell(Absent)]
  /\ pending = <<>>
  /\ result = Absent

Next ==
  \/ Literal \/ lookup \/ Sequence
  \/ Target("=") \/ Target("+=") \/ resolve_target \/ ReadTarget
  \/ Assign \/ CompoundAssign
  \/ \E kind \in {"index", "TAKE", "DROP", "LIST"} : Hold(kind)
  \/ eval_index \/ fn_take \/ fn_drop \/ Argument \/ fn_list
  \/ BeginList \/ eval_list
  \/ Catch \/ NewRun

Spec == Init /\ [][Next]_vars

-----------------------------------------------------------------------------
\* The tree under a cell: its node at each path.
TreeAt(h, c) ==
  LET Below(e) == {[path |-> Append(e.path, h[e.cell].kids[i].key),
                    cell |-> h[e.cell].kids[i].cell] : i \in DOMAIN h[e.cell].kids}
      within[n \in Nat] ==
        IF n = 0 THEN {[path |-> <<>>, cell |-> c]}
        ELSE LET less == within[n - 1] IN less \cup UNION {Below(e) : e \in less}
      all == within[Cardinality(DOMAIN h)]
  IN  [p \in {e.path : e \in all} |->
         LET d == h[(CHOOSE e \in all : e.path = p).cell]
         IN  [scalar |-> d.scalar, keys |-> [i \in DOMAIN d.kids |-> d.kids[i].key]]]

OpenTargets ==
  FoldLeft(LAMBDA open, op : IF Assigns(op)
                             THEN Append(open, [path |-> op.path, left |-> op.left])
                             ELSE open,
           <<>>, pending)

Tree == INSTANCE VariableTree
          WITH tree <- TreeAt(heap, root), open <- OpenTargets,
               yielded <- IF Yielded THEN {TreeAt(heap, result)} ELSE {}

\* An assignment changes its own path of the tree and no other, whatever its
\* keys and its right side changed meanwhile, and what it yields is there.
ImplementsVariableTree == Tree!Spec

\* No variable shares structure with another, nor with what a comma has
\* collected: a later write reaches neither.
Collected == UNION {Range(pending[i].got) :
                      i \in {j \in DOMAIN pending : pending[j].kind = "comma"}}
Owned == UNION {Under(heap, c) : c \in {root} \cup Collected}
Slots == UNION {{c} \X DOMAIN heap[c].kids : c \in Owned}
OnePlaceEach ==
  LET In(s) == heap[s[1]].kids[s[2]].cell
  IN  /\ \A s, t \in Slots : In(s) = In(t) => s = t
      /\ \A s \in Slots : In(s) \notin Collected \cup {root}

\* No assignment makes the variables deeper than a value may be, though a
\* value held by a read may be.
VariablesWithinDepth == ~TooDeep(heap, root, 0)

\* What an operation holds from before a step, at the same place after it.
StillHeld ==
  UNION {{i} \X DOMAIN pending[i].got : i \in DOMAIN pending \cap DOMAIN pending'}
HeldBefore(s) == pending[s[1]].got[s[2]]
HeldAfter(s) == pending'[s[1]].got[s[2]]

\* A scalar never changes once it is yielded: an operand read before an
\* assignment keeps what it read.
ScalarsKept ==
  [][\A s \in StillHeld : heap'[HeldAfter(s)].scalar = heap[HeldBefore(s)].scalar]_vars

\* What a comma has collected stays as it was when its operand was evaluated,
\* whatever the operands after it assign.
CollectedKept ==
  [][\A s \in StillHeld :
       pending[s[1]].kind = "comma" =>
         TreeAt(heap', HeldAfter(s)) = TreeAt(heap, HeldBefore(s))]_vars
=============================================================================
