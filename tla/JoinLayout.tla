----------------------------- MODULE JoinLayout -----------------------------
(***************************************************************************)
(* The layout of a joined row (spec 7.4), as joined_layout of join_plan.rs *)
(* gives it from the keys of the two sides and from which of their fields  *)
(* are nested records or scalars.  A slot says where the value under a key *)
(* comes from: a field of a side, or a side as a whole, under its binders. *)
(***************************************************************************)
EXTENDS Integers, Sequences, FiniteSets, SequencesExt

CONSTANT
  Fold         \* each name in lower case

\* The keys a side is bound under: its binder, that in lower case, and "_1" or "_2".
binder_keys(name, positional) ==
  LET spelt == IF Fold[name] = name THEN <<name>> ELSE <<name, Fold[name]>>
  IN  IF positional \in ToSet(spelt) THEN spelt ELSE Append(spelt, positional)

\* `names' are the binders of the two sides.
LeftBinders(names) == binder_keys(names[1], "_1")
RightBinders(names) == binder_keys(names[2], "_2")
Binders(names) == ToSet(LeftBinders(names)) \cup ToSet(RightBinders(names))

Folded(keys) == {Fold[k] : k \in ToSet(keys)}

\* The keys at some places, in order; those in S; each where it first occurs.
KeysAt(keys, places) ==
  LET rank == [i \in places |-> Cardinality({j \in places : j < i})]
  IN  [p \in 1..Cardinality(places) |-> keys[CHOOSE i \in places : rank[i] = p - 1]]
KeysIn(keys, S) == KeysAt(keys, {i \in DOMAIN keys : keys[i] \in S})
FirstPlaces(keys) == KeysAt(keys, {i \in DOMAIN keys : \A j \in 1..i-1 : keys[j] # keys[i]})

\* `nested' are the left keys that hold records, `scalar' the right keys that
\* hold scalars or lists.  A place is given to a key once: a right key that is a
\* binder too stays under it.
joined_layout(names, left, nested, right, scalar, matched) ==
  LET kept == {k \in ToSet(left) \ nested : Fold[k] \notin Folded(right)}
      promoted == {k \in scalar \ Binders(names) : matched /\ Fold[k] \notin Folded(left)}
      keys == FirstPlaces(KeysIn(left, nested) \o LeftBinders(names) \o RightBinders(names)
                          \o KeysIn(left, kept) \o KeysIn(right, promoted))
      op(k) == CASE k \in ToSet(RightBinders(names)) -> "Right"
                 [] k \in ToSet(LeftBinders(names)) \ ToSet(RightBinders(names)) -> "Left"
                 [] k \in nested \ Binders(names) -> "LeftNested"
                 [] k \in kept \ Binders(names) -> "LeftSlot"
                 [] OTHER -> "RightSlot"
  IN  [p \in DOMAIN keys |-> [key |-> keys[p], op |-> op(keys[p])]]
=============================================================================
