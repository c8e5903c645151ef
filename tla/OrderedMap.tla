----------------------------- MODULE OrderedMap -----------------------------
(***************************************************************************)
(* What a SEL value promises about its children (spec/SPEC.md 3.3), with   *)
(* no representation: a value is an optional scalar, a mark saying it was  *)
(* made as a list, and children in insertion order under unique text keys. *)
(* Storing under a key that exists keeps the key's place.  The module      *)
(* ValueCell is the program's representation and is shown to implement     *)
(* this one.                                                               *)
(***************************************************************************)
EXTENDS Naturals, Sequences, SequencesExt

CONSTANTS
  Cells,      \* the values under observation
  Names,      \* the keys that are not positions
  Atoms,      \* what a scalar or a child holds
  MaxLen,     \* bound: children of a value
  MaxGiven,   \* bound: entries a record is made from
  Absent      \* a scalar, a child or a representation that is not there

VARIABLE value      \* value[c]: the value held by c

\* A key that numbers a child is that number; any other key is a name.
Keys == (1 .. MaxLen) \cup Names
Entries == [key : Keys, val : Atoms]
BoundedSeqOf(S, max) == UNION {[1 .. n -> S] : n \in 0 .. max}

KeysIn(kids) == {kids[i].key : i \in DOMAIN kids}
SlotOf(kids, k) == CHOOSE i \in DOMAIN kids : kids[i].key = k
Lookup(kids, k) ==
  IF k \in KeysIn(kids) THEN kids[SlotOf(kids, k)].val ELSE Absent
Put(kids, k, v) ==
  IF k \in KeysIn(kids)
  THEN [kids EXCEPT ![SlotOf(kids, k)].val = v]
  ELSE Append(kids, [key |-> k, val |-> v])
PutAll(ents) == FoldLeft(LAMBDA kids, e : Put(kids, e.key, e.val), <<>>, ents)
Numbered(vals) == [i \in DOMAIN vals |-> [key |-> i, val |-> vals[i]]]

Blank == [scalar |-> Absent, list |-> FALSE, kids |-> <<>>]
ListOf(kids) == [Blank EXCEPT !.list = TRUE, !.kids = kids]
InOrder(rows, kept) ==
  FoldLeftDomain(LAMBDA out, i : IF i \in kept THEN Append(out, i) ELSE out, <<>>, rows)
Pick(kids, kept) ==
  LET order == InOrder(kids, kept)
  IN  [i \in DOMAIN order |-> kids[order[i]]]

\* What an aggregate walks: a scalar without children is its own child 1.
Elements(v) ==
  IF v.kids = <<>> /\ v.scalar # Absent
  THEN Numbered(<<v.scalar>>)
  ELSE v.kids
Values(v) == [i \in DOMAIN Elements(v) |-> Elements(v)[i].val]

Filtered(v, kept) == ListOf(Pick(Elements(v), kept))
First(v, n) ==
  ListOf(Numbered(SubSeq(Values(v), 1, Min({n, Len(Values(v))}))))
Rest(v, n) == ListOf(Numbered(SubSeq(Values(v), n + 1, Len(Values(v)))))

Store(c, v) == value' = [value EXCEPT ![c] = v]

NewNone(c) == Store(c, Blank)
NewScalar(c, a) == Store(c, [Blank EXCEPT !.scalar = a])
NewList(c, vals) == Store(c, ListOf(Numbered(vals)))
NewRecord(c, ents) == Store(c, [Blank EXCEPT !.kids = PutAll(ents)])
Set(c, k, v) == Store(c, [value[c] EXCEPT !.kids = Put(@, k, v)])
Copy(c, d) == Store(d, value[c])
Filter(c, d, kept) == Store(d, Filtered(value[c], kept))
Take(c, d, n) == Store(d, First(value[c], n))
Drop(c, d, n) == Store(d, Rest(value[c], n))

Init == value = [c \in Cells |-> Blank]

Next ==
  \/ \E c \in Cells :
       \/ NewNone(c)
       \/ \E a \in Atoms : NewScalar(c, a)
       \/ \E vals \in BoundedSeqOf(Atoms, MaxLen) : NewList(c, vals)
       \/ \E k \in Keys, v \in Atoms : Set(c, k, v)
  \/ \E c, d \in Cells :
       \/ Copy(c, d)
       \/ \E kept \in SUBSET DOMAIN Elements(value[c]) : Filter(c, d, kept)
       \/ \E n \in 0 .. MaxLen : Take(c, d, n) \/ Drop(c, d, n)
  \/ \E c \in Cells, ents \in BoundedSeqOf(Entries, MaxGiven) : NewRecord(c, ents)

Spec == Init /\ [][Next]_value
=============================================================================
