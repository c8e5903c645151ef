---------------------------- MODULE VariableTree ----------------------------
(***************************************************************************)
(* What assignment promises about the variables of a program (spec/SPEC.md *)
(* 3.4 and 5.7), with no cells and no references.  The variables are one   *)
(* tree: a node for each path, the empty path being the root.  A target's  *)
(* keys are evaluated once, left to right, each level made as it is named; *)
(* the value is stored at that path in the tree as it then is, and is what *)
(* the assignment yields.  Nothing else changes the tree.                  *)
(***************************************************************************)
EXTENDS Naturals, Sequences, SequencesExt

CONSTANT Absent     \* the scalar of a node that has none

VARIABLES
  tree,     \* path -> [scalar, keys in order]
  open,     \* the assignments under way: the path so far, the keys to come
  yielded   \* the value just yielded, as a tree: none or one

vars == <<tree, open, yielded>>

Top == Last(open)
From(n, p) == SubSeq(p, n + 1, Len(p))

\* tree with a null node at every level of p that it lacks, each the last of
\* its parent's children.
Grown(p) ==
  LET new == {q \in Prefixes(p) : q \notin DOMAIN tree}
      KeyAfter(q) == p[Len(q) + 1]
      Parent(q) == q # p /\ IsPrefix(q, p) /\ Append(q, KeyAfter(q)) \in new
      old(q) == IF q \in new THEN [scalar |-> Absent, keys |-> <<>>] ELSE tree[q]
  IN  [q \in DOMAIN tree \cup new |->
         IF Parent(q) THEN [old(q) EXCEPT !.keys = Append(@, KeyAfter(q))]
         ELSE old(q)]

\* tree with the value v at p, and nothing else of it changed.
Stored(p, v) ==
  LET grown == Grown(p)
      kept  == {q \in DOMAIN grown : ~IsPrefix(p, q)}
  IN  [q \in kept \cup {p \o r : r \in DOMAIN v} |->
         IF IsPrefix(p, q) THEN v[From(Len(p), q)] ELSE grown[q]]

Target(x, n) ==
  /\ open' = Append(open, [path |-> <<x>>, left |-> n])
  /\ tree' = IF n > 0 THEN Grown(<<x>>) ELSE tree

Key(k) ==
  /\ open # <<>> /\ Top.left > 0
  /\ open' = Append(Front(open),
                    [path |-> Append(Top.path, k), left |-> Top.left - 1])
  /\ tree' = IF Top.left > 1 THEN Grown(Append(Top.path, k)) ELSE tree

\* A compound assignment looks for its target, which may not be there.
Read ==
  /\ open # <<>> /\ Top.left = 0
  /\ tree' = Grown(Front(Top.path))
  /\ open' \in {open, Front(open)}
  /\ open' # open => yielded' = {}

Put ==
  /\ open # <<>> /\ Top.left = 0
  /\ \E v \in yielded' : tree' = Stored(Top.path, v)
  /\ open' = Front(open)

\* An error leaves what was made on the way.
Abandon ==
  /\ UNCHANGED tree
  /\ yielded' = {}
  /\ IsStrictPrefix(open', open)

Yield == UNCHANGED <<tree, open>>

Init ==
  /\ tree = [p \in {<<>>} |-> [scalar |-> Absent, keys |-> <<>>]]
  /\ open = <<>> /\ yielded = {}

Next ==
  \/ Yield
  \/ open' # <<>> /\ LET last == Last(open') IN
       Target(last.path[1], last.left) \/ Key(Last(last.path))
  \/ Read \/ Put \/ Abandon

Spec == Init /\ [][Next]_vars
=============================================================================
