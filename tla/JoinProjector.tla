---------------------------- MODULE JoinProjector ----------------------------
(***************************************************************************)
(* JoinProjector of join_plan.rs: a join compiles the layout of its rows    *)
(* once per pair of record shapes and reuses it while its checks say that   *)
(* it fits.  Two shortcuts leave checks out: a left row that is the one of  *)
(* the row before is not checked again, and when every right row was seen   *)
(* to be flat before the first left row, no right row is checked.           *)
(*                                                                         *)
(* The rows are cells.  A predicate, or a key's expression, may write into  *)
(* them between two projections (`changes'); spec 7.4 has each pair decided *)
(* from its own two elements, as make_joined_row decides it.                *)
(***************************************************************************)
EXTENDS JoinLayout

CONSTANT
  Cases    \* the binders' names, the tables a join under them may meet, which are
           \* sequences of rows, and what its bodies may make of a field

VARIABLES
  left, right,           \* the rows, as they are now
  join,                  \* its binders, what its bodies change (pairs of kinds), and
                         \* whether it hashes keys and whether it is a LINK_LEFT
  pc,                    \* "right": the pass over the right rows; "left"; "done"
  l, r,                  \* the left and the right row that are being looked at
  matched,               \* whether this left row has met a right one
  null_right,            \* the record that stands for a missing right row
  right_flat,
  plans,                 \* the plans compiled so far, in order
  last_plan, last_left,  \* the plan used last and its left row; 0 before any
  out                    \* the row just built: its layout, and what it should be

vars == <<left, right, join, pc, l, r, matched, null_right, right_flat,
          plans, last_plan, last_left, out>>

-----------------------------------------------------------------------------
(* A row: its keys in order, what each holds, and whether it has a shape.   *)
(* A field holds a record that has fields, NULL or a record that has none,  *)
(* or anything else, which is a scalar here.                                *)

FieldKind == {"record", "null", "scalar"}

Row == [keys : Seq(DOMAIN Fold), at : UNION {[K -> FieldKind] : K \in SUBSET DOMAIN Fold}, shaped : BOOLEAN]

ASSUME FoldAssumption == {"_1", "_2"} \subseteq DOMAIN Fold /\ \A k \in DOMAIN Fold : Fold[Fold[k]] = Fold[k]
ASSUME CasesAssumption ==
  \A c \in Cases :
    /\ c.names \in (DOMAIN Fold) \X (DOMAIN Fold)
    /\ c.changes \subseteq FieldKind \X FieldKind
    /\ \A t \in c.left \cup c.right :
         t \in Seq(Row) /\ \A i \in DOMAIN t : DOMAIN t[i].at = ToSet(t[i].keys) /\ IsInjective(t[i].keys)

is_left_nested(kind) == kind = "record"
is_scalar_field(kind) == kind = "scalar"

Nested(row) == {k \in DOMAIN row.at : is_left_nested(row.at[k])}
Scalar(row) == {k \in DOMAIN row.at : is_scalar_field(row.at[k])}

\* What make_joined_row lays out, and compile_join_plan for rows with shapes.
Layout(a, b, m) == joined_layout(join.names, a.keys, Nested(a), b.keys, Scalar(b), m)

\* Every field of a missing right row is NULL.
make_null_record ==
  IF right = <<>> THEN [keys |-> <<>>, at |-> <<>>, shaped |-> FALSE]
  ELSE [keys |-> right[1].keys, at |-> [k \in DOMAIN right[1].at |-> "null"], shaped |-> TRUE]

-----------------------------------------------------------------------------
(* Plans.                                                                   *)

NothingLeftOut(a, slots) == {}   \* mutant: the fields left out are not remembered

\* The left fields the layout leaves out, with whether each was nested: it
\* fits only rows that leave them out for the same reason.
lrest(a, slots) ==
  {<<k, is_left_nested(a.at[k])>> : k \in DOMAIN a.at \
     {slots[p].key : p \in {q \in DOMAIN slots : slots[q].op \in {"LeftSlot", "LeftNested"}}}}

\* The right fields left out because they were no scalars.
rkept(a, b, m) ==
  IF m THEN {k \in DOMAIN b.at : Fold[k] \notin Folded(a.keys) /\ k \notin Binders(join.names) /\ ~is_scalar_field(b.at[k])}
  ELSE {}

compile_join_plan(a, b, m) ==
  LET slots == Layout(a, b, m)
  IN  [pair |-> <<a.keys, b.keys, m>>, slots |-> slots, lrest |-> lrest(a, slots), rkept |-> rkept(a, b, m)]

Op(plan, op) == {plan.slots[p].key : p \in {q \in DOMAIN plan.slots : plan.slots[q].op = op}}

UncheckedSlots(plan, a, b, check_left, check_right) ==   \* mutant: the slots themselves are not checked
  /\ check_left => \A rest \in plan.lrest : is_left_nested(a.at[rest[1]]) = rest[2]
  /\ check_right => \A k \in plan.rkept : ~is_scalar_field(b.at[k])

\* build_join_plan answers a row, or that the plan does not fit.
Fits(plan, a, b, check_left, check_right) ==
  /\ check_left =>
       /\ \A rest \in plan.lrest : is_left_nested(a.at[rest[1]]) = rest[2]
       /\ \A k \in Op(plan, "LeftSlot") : ~is_left_nested(a.at[k])
       /\ \A k \in Op(plan, "LeftNested") : is_left_nested(a.at[k])
  /\ check_right =>
       /\ \A k \in plan.rkept : ~is_scalar_field(b.at[k])
       /\ \A k \in Op(plan, "RightSlot") : is_scalar_field(b.at[k])

\* The places of the plans of this pair of shapes that fit, all checks made.
Fitting(a, b, m, check_right) ==
  {p \in DOMAIN plans : plans[p].pair = <<a.keys, b.keys, m>> /\ Fits(plans[p], a, b, TRUE, check_right)}

-----------------------------------------------------------------------------
\* project(left, right): `i' is the left cell, `m' whether there is a right row.
project(i, b, m) ==
  LET a == left[i]
      check_right == ~right_flat
      again == /\ last_plan # 0 /\ plans[last_plan].pair = <<a.keys, b.keys, m>>
               /\ Fits(plans[last_plan], a, b, last_left # i, check_right)
      fitting == Fitting(a, b, m, check_right)
      Use(p, slots, checked) ==
        /\ out' = [slots |-> slots, made |-> Layout(a, b, m), checked |-> checked]
        /\ last_plan' = p /\ last_left' = i
  IN  CASE ~(a.shaped /\ b.shaped) ->
             /\ out' = [slots |-> Layout(a, b, m), made |-> Layout(a, b, m), checked |-> TRUE]
             /\ UNCHANGED <<plans, last_plan, last_left>>
        [] a.shaped /\ b.shaped /\ again ->
             Use(last_plan, plans[last_plan].slots, last_left # i /\ check_right) /\ UNCHANGED plans
        [] a.shaped /\ b.shaped /\ ~again /\ fitting # {} ->
             LET p == CHOOSE p \in fitting : \A q \in fitting : p <= q
             IN  Use(p, plans[p].slots, check_right) /\ UNCHANGED plans
        [] OTHER ->
             LET plan == compile_join_plan(a, b, m)
             IN  Use(Len(plans) + 1, plan.slots, TRUE) /\ plans' = Append(plans, plan)

Init ==
  /\ \E c \in Cases :
       /\ left \in c.left /\ right \in c.right
       /\ join \in [names : {c.names}, changes : {c.changes}, keyed : BOOLEAN, outer : BOOLEAN]
  /\ left # <<>> /\ (right # <<>> \/ join.outer)
  /\ pc = IF join.keyed /\ right # <<>> THEN "right" ELSE "left"
  /\ l = 1 /\ r = 1 /\ matched = FALSE
  /\ null_right = make_null_record
  /\ right_flat = (join.keyed /\ right # <<>>)
  /\ plans = <<>> /\ last_plan = 0 /\ last_left = 0
  /\ out = [slots |-> <<>>, made |-> <<>>, checked |-> TRUE]

\* A predicate writes before each pair, a right key before its row is tested,
\* a left key before its row is joined.
MayWrite ==
  \/ pc = "right"
  \/ pc = "left" /\ l <= Len(left) /\ r <= Len(right) /\ (join.keyed => r = 1)

Changed(row, k, kind) == [row EXCEPT !.at[k] = kind]

Write ==
  /\ MayWrite
  /\ \/ \E i \in DOMAIN left : \E k \in DOMAIN left[i].at, kind \in FieldKind :
          /\ <<left[i].at[k], kind>> \in join.changes
          /\ left' = [left EXCEPT ![i] = Changed(@, k, kind)] /\ UNCHANGED right
     \/ \E i \in DOMAIN right : \E k \in DOMAIN right[i].at, kind \in FieldKind :
          /\ <<right[i].at[k], kind>> \in join.changes
          /\ right' = [right EXCEPT ![i] = Changed(@, k, kind)] /\ UNCHANGED left
  /\ UNCHANGED <<join, pc, l, r, matched, null_right, right_flat, plans, last_plan, last_left, out>>

FlatWhatever(row) == TRUE           \* mutant: right rows are taken to be flat
is_flat(row) == row.shaped /\ \A k \in DOMAIN row.at \ Binders(join.names) : is_scalar_field(row.at[k])

\* A right key has been computed; its row is tested.
TestRight ==
  /\ pc = "right"
  /\ right_flat' = (right_flat /\ is_flat(right[r]))
  /\ IF r < Len(right) THEN r' = r + 1 /\ UNCHANGED pc ELSE r' = 1 /\ pc' = "left"
  /\ UNCHANGED <<left, right, join, l, matched, null_right, plans, last_plan, last_left, out>>

\* The pair is joined, or not.
Pair ==
  /\ pc = "left" /\ l <= Len(left) /\ r <= Len(right)
  /\ \/ project(l, right[r], TRUE) /\ matched' = TRUE
     \/ UNCHANGED <<matched, plans, last_plan, last_left, out>>
  /\ r' = r + 1
  /\ UNCHANGED <<left, right, join, pc, l, null_right, right_flat>>

\* After its last pair, a left row that met nothing is joined with NULLs.
NextLeft ==
  /\ pc = "left" /\ l <= Len(left) /\ r > Len(right)
  /\ IF join.outer /\ ~matched THEN project(l, null_right, FALSE)
     ELSE UNCHANGED <<plans, last_plan, last_left, out>>
  /\ l' = l + 1 /\ r' = 1 /\ matched' = FALSE
  /\ pc' = IF l = Len(left) THEN "done" ELSE "left"
  /\ UNCHANGED <<left, right, join, null_right, right_flat>>

\* The join is over: the projector goes with it, and another is run.
Again ==
  /\ pc = "done"
  /\ join' \in {[join EXCEPT !.keyed = ~@, !.outer = o] : o \in BOOLEAN}
  /\ right # <<>> \/ join'.outer
  /\ pc' = IF join'.keyed /\ right # <<>> THEN "right" ELSE "left"
  /\ l' = 1 /\ r' = 1 /\ matched' = FALSE
  /\ right_flat' = (join'.keyed /\ right # <<>>)
  /\ null_right' = make_null_record
  /\ plans' = <<>> /\ last_plan' = 0 /\ last_left' = 0
  /\ out' = [slots |-> <<>>, made |-> <<>>, checked |-> TRUE]
  /\ UNCHANGED <<left, right>>

Next == Write \/ TestRight \/ Pair \/ NextLeft \/ Again

Spec == Init /\ [][Next]_vars

-----------------------------------------------------------------------------
(* Properties.                                                              *)

\* Spec 7.4: each joined row is laid out from its own two elements, whatever
\* plan it was built with, while no body writes into the rows; and where one
\* does, a plan whose checks were all made still lays the row out so.
ProjectedAsMade == out.checked \/ join.changes = {} => out.slots = out.made

\* One plan fits: the plans kept for a pair of shapes tell all of its rows apart,
\* so that which of them is tried first makes no difference.
PlansTellApart ==
  \A p, q \in DOMAIN plans : \A i \in DOMAIN left, j \in DOMAIN right :
    (/\ p # q /\ plans[p].pair = plans[q].pair
     /\ plans[p].pair = <<left[i].keys, right[j].keys, TRUE>>)
    => ~(Fits(plans[p], left[i], right[j], TRUE, TRUE) /\ Fits(plans[q], left[i], right[j], TRUE, TRUE))
=============================================================================
