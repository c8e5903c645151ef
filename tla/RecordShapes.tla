---------------------------- MODULE RecordShapes ----------------------------
(***************************************************************************)
(* Record shapes and what remembers them (src/rust/src/shape.rs).  Threads *)
(* of one process run their own programs over their own values, and share  *)
(* an interning cache of record layouts behind a mutex and a counter that  *)
(* numbers the shapes.  A program node keeps the slot its literal key had  *)
(* in the last shape it read (eval.rs, eval_index), and a join's RowAlias  *)
(* keeps the shape it last extended and what that became; both trust the   *)
(* number alone.                                                           *)
(*                                                                         *)
(* A record's row holds, for each slot, the key whose value is there.      *)
(***************************************************************************)
EXTENDS Naturals, Sequences, SequencesExt

CONSTANTS
  Threads,
  Layouts,      \* the key sequences records are made with
  Oversized,    \* the layouts past the cache's limits on keys and bytes
  AliasName,    \* the binder a RowAlias adds to the rows
  NodeKey,      \* NodeKey[t]: the literal key of t's Index node
  Capacity,     \* SHAPE_CACHE_ENTRIES
  MaxIds,       \* bound: shapes made
  None

Distinct(keys) == \A i, j \in DOMAIN keys : keys[i] = keys[j] => i = j
Extend(keys) == Append(keys, AliasName)
Has(keys, k) == \E i \in DOMAIN keys : keys[i] = k

ASSUME CapacityAssumption == Capacity \in Nat \ {0}
ASSUME MaxIdsAssumption == MaxIds \in Nat
ASSUME LayoutAssumption ==
  /\ \A l \in Layouts : l \in Seq(Range(l)) /\ Distinct(l)
  /\ \A l \in Layouts : ~Has(l, AliasName) => Extend(l) \in Layouts
ASSUME NoneAssumption ==
  None \notin [id : Nat, keys : Layouts] \cup [id : Nat, slot : Nat]
                \cup [id : Nat, target : [id : Nat, keys : Layouts]]

VARIABLES
  issued,   \* the layouts the ids were given to; NEXT_SHAPE_ID is Len(issued)+1
  cache,    \* the interned shapes, by layout
  pc,       \* pc[t]: where t is in intern_record_shape
  want,     \* want[t]: the layout t is interning
  made,     \* made[t]: the shape t made and has not published
  rec,      \* rec[t]: the record t holds: its shape, if any, and its row
  slot,     \* slot[t]: the slot_cache of t's Index node
  alias,    \* alias[t]: the layout of t's RowAlias
  answer    \* answer[t]: what t's last step read, if it read

vars == <<issued, cache, pc, want, made, rec, slot, alias, answer>>

Shape(id, keys) == [id |-> id, keys |-> keys]
Shaped(t) == rec[t].shape # None

\* key_map.get: keys are distinct, so a key has one slot.
SlotIn(shape, k) == CHOOSE i \in DOMAIN shape.keys : shape.keys[i] = k

-----------------------------------------------------------------------------
(* intern_record_shape: a lookup under the lock, a shape made outside it,   *)
(* and an insertion under the lock again.                                   *)

\* The record made with the shape; `extending` is RowAlias keeping it too.
Hand(t, shape, extending) ==
  /\ rec' = [rec EXCEPT ![t] =
               IF extending
               THEN [shape |-> shape, row |-> Extend(rec[t].row)]
               ELSE [shape |-> shape, row |-> shape.keys]]
  /\ alias' = IF extending
              THEN [alias EXCEPT ![t] = [id |-> rec[t].shape.id,
                                         target |-> shape]]
              ELSE alias
  /\ pc' = [pc EXCEPT ![t] = "idle"]
  /\ want' = [want EXCEPT ![t] = <<>>]
  /\ made' = [made EXCEPT ![t] = None]

Missed == {t \in Threads : pc[t] # "idle" /\ made[t] = None}

Lookup(t, keys, extending) ==
  /\ answer' = [answer EXCEPT ![t] = None]
  /\ \/ /\ keys \in DOMAIN cache
        /\ Hand(t, cache[keys], extending)
     \/ /\ keys \notin DOMAIN cache
        /\ Len(issued) + Cardinality(Missed) < MaxIds   \* bounds the model
        /\ pc' = [pc EXCEPT ![t] = IF extending THEN "extend" ELSE "record"]
        /\ want' = [want EXCEPT ![t] = keys]
        /\ UNCHANGED <<made, rec, alias>>
  /\ UNCHANGED <<issued, cache, slot>>

\* A record of a layout: RECORD(...), a host's rows, a joined row.
NewRecord(t, keys) ==
  /\ pc[t] = "idle"
  /\ Lookup(t, keys, FALSE)

CreateFromCache(t) ==   \* mutant: a shape numbered by the shapes in the cache
  /\ pc[t] \in {"record", "extend"} /\ made[t] = None
  /\ made' = [made EXCEPT ![t] = Shape(Cardinality(DOMAIN cache) + 1, want[t])]
  /\ issued' = Append(issued, want[t])
  /\ answer' = [answer EXCEPT ![t] = None]
  /\ UNCHANGED <<cache, pc, want, rec, slot, alias>>

\* RecordShape::new: fetch_add hands out each number once.
Create(t) ==
  /\ pc[t] \in {"record", "extend"} /\ made[t] = None
  /\ made' = [made EXCEPT ![t] = Shape(Len(issued) + 1, want[t])]
  /\ issued' = Append(issued, want[t])
  /\ answer' = [answer EXCEPT ![t] = None]
  /\ UNCHANGED <<cache, pc, want, rec, slot, alias>>

InsertUnbounded(keys, shape) ==     \* mutant: a full cache is not emptied
  [l \in DOMAIN cache \cup {keys} |-> IF l = keys THEN shape ELSE cache[l]]

Insert(keys, shape) ==
  LET kept == IF Cardinality(DOMAIN cache) >= Capacity THEN {} ELSE DOMAIN cache
  IN  [l \in kept \cup {keys} |-> IF l = keys THEN shape ELSE cache[l]]

Publish(t) ==
  /\ made[t] # None
  /\ cache' = IF want[t] \in Oversized THEN cache ELSE Insert(want[t], made[t])
  /\ Hand(t, made[t], pc[t] = "extend")
  /\ answer' = [answer EXCEPT ![t] = None]
  /\ UNCHANGED <<issued, slot>>

-----------------------------------------------------------------------------
\* Value::set of a key the shape lacks: the record becomes entries.
Spill(t) ==
  /\ pc[t] = "idle" /\ Shaped(t)
  /\ rec' = [rec EXCEPT ![t].shape = None]
  /\ answer' = [answer EXCEPT ![t] = None]
  /\ UNCHANGED <<issued, cache, pc, want, made, slot, alias>>

Answered(t, got) ==
  answer' = [answer EXCEPT ![t] = [row |-> rec[t].row, got |-> got]]

SlotFits(t) ==          \* mutant: any slot the row has is trusted
  slot[t] # None /\ slot[t].slot \in DOMAIN rec[t].row
SlotHit(t) == slot[t] # None /\ slot[t].id = rec[t].shape.id

\* eval_index with a literal key over the record t holds.
eval_index(t) ==
  LET k == NodeKey[t]
      sh == rec[t].shape
  IN  /\ pc[t] = "idle"
      /\ \/ /\ Shaped(t) /\ SlotHit(t)
            /\ Answered(t, rec[t].row[slot[t].slot])
            /\ UNCHANGED slot
         \/ /\ Shaped(t) /\ ~SlotHit(t)
            /\ Has(sh.keys, k)
            /\ Answered(t, rec[t].row[SlotIn(sh, k)])
            /\ slot' = [slot EXCEPT ![t] = [id |-> sh.id,
                                            slot |-> SlotIn(sh, k)]]
         \/ /\ Shaped(t) /\ ~SlotHit(t)
            /\ ~Has(sh.keys, k)
            /\ Answered(t, None)
            /\ UNCHANGED slot
         \/ /\ ~Shaped(t)
            /\ Answered(t, IF Has(rec[t].row, k) THEN k ELSE None)
            /\ UNCHANGED slot
      /\ UNCHANGED <<issued, cache, pc, want, made, rec, alias>>

AliasKept(t) == alias[t] # None     \* mutant: remembered for every shape
AliasHit(t) == alias[t] # None /\ alias[t].id = rec[t].shape.id

\* RowAlias::apply of a shaped row that lacks the binder's name.
apply(t) ==
  /\ pc[t] = "idle" /\ Shaped(t) /\ ~Has(rec[t].shape.keys, AliasName)
  /\ IF AliasHit(t)
     THEN /\ rec' = [rec EXCEPT ![t] = [shape |-> alias[t].target,
                                        row |-> Extend(rec[t].row)]]
          /\ answer' = [answer EXCEPT ![t] = None]
          /\ UNCHANGED <<issued, cache, pc, want, made, slot, alias>>
     ELSE Lookup(t, Extend(rec[t].shape.keys), TRUE)

Init ==
  /\ issued = <<>>
  /\ cache = [l \in {} |-> None]
  /\ pc = [t \in Threads |-> "idle"]
  /\ want = [t \in Threads |-> <<>>]
  /\ made = [t \in Threads |-> None]
  /\ rec = [t \in Threads |-> [shape |-> None, row |-> <<>>]]
  /\ slot = [t \in Threads |-> None]
  /\ alias = [t \in Threads |-> None]
  /\ answer = [t \in Threads |-> None]

Next ==
  \E t \in Threads :
    \/ \E keys \in Layouts : NewRecord(t, keys)
    \/ Create(t) \/ Publish(t)
    \/ Spill(t) \/ eval_index(t) \/ apply(t)

Spec == Init /\ [][Next]_vars

-----------------------------------------------------------------------------
\* Every shape a thread or the cache can still reach.
Shapes ==
  {cache[l] : l \in DOMAIN cache}
    \cup {made[t] : t \in {u \in Threads : made[u] # None}}
    \cup {rec[t].shape : t \in {u \in Threads : Shaped(u)}}
    \cup {alias[t].target : t \in {u \in Threads : alias[u] # None}}

\* A shape's number stands for its keys: no two reachable shapes share a
\* number with different layouts, whatever threads raced to make them.
IdNamesLayout ==
  \A s1, s2 \in Shapes : s1.id = s2.id => s1.keys = s2.keys

\* The cache answers a layout with a shape of that very layout, never holds an
\* oversized one, and stays within its capacity.
CacheSound ==
  /\ \A l \in DOMAIN cache : cache[l].keys = l /\ l \notin Oversized
  /\ Cardinality(DOMAIN cache) <= Capacity

\* A shaped record's slots hold the values of its shape's keys, in order, also
\* when a RowAlias took the shape from what it remembered.
RowsFitShapes ==
  \A t \in Threads : Shaped(t) => rec[t].row = rec[t].shape.keys

\* Reading a literal key gives that key's value when the row has it and E_NO_KEY
\* when not, through a remembered slot as without one.
ReadsRightKey ==
  \A t \in Threads :
    answer[t] # None =>
      answer[t].got = IF Has(answer[t].row, NodeKey[t]) THEN NodeKey[t] ELSE None

-----------------------------------------------------------------------------
(* What each of these rests on, proved inductive in RecordShapes_proofs. *)

ShapeSet == [id : Nat, keys : Layouts]

\* The values the variables range over.
TypeOK ==
  /\ issued \in Seq(Layouts)
  /\ pc \in [Threads -> {"idle", "record", "extend"}]
  /\ want \in [Threads -> Layouts \cup {<<>>}]
  /\ made \in [Threads -> ShapeSet \cup {None}]
  /\ rec \in [Threads -> [shape : ShapeSet \cup {None},
                          row : Layouts \cup {<<>>}]]
  /\ slot \in [Threads -> [id : Nat, slot : Nat] \cup {None}]
  /\ alias \in [Threads -> [id : Nat, target : ShapeSet] \cup {None}]
  /\ DOMAIN answer = Threads

\* The number was given out, to these keys.
Given(n, keys) == n \in DOMAIN issued /\ issued[n] = keys

CacheInv ==
  /\ cache \in [DOMAIN cache -> ShapeSet]
  /\ DOMAIN cache \subseteq Layouts \ Oversized
  /\ \A l \in DOMAIN cache : cache[l].keys = l /\ Given(cache[l].id, l)
  /\ IsFiniteSet(DOMAIN cache)
  /\ Cardinality(DOMAIN cache) <= Capacity

InternInv ==
  \A t \in Threads :
    /\ pc[t] # "idle" => want[t] \in Layouts
    /\ pc[t] = "extend" => Shaped(t) /\ want[t] = Extend(rec[t].shape.keys)
    /\ made[t] # None => /\ pc[t] # "idle"
                         /\ made[t].keys = want[t]
                         /\ Given(made[t].id, want[t])

RecInv ==
  \A t \in Threads :
    Shaped(t) => /\ rec[t].row = rec[t].shape.keys
                 /\ Given(rec[t].shape.id, rec[t].shape.keys)

SlotInv ==
  \A t \in Threads :
    slot[t] # None => /\ slot[t].id \in DOMAIN issued
                      /\ slot[t].slot \in DOMAIN issued[slot[t].id]
                      /\ issued[slot[t].id][slot[t].slot] = NodeKey[t]

AliasInv ==
  \A t \in Threads :
    alias[t] # None => /\ alias[t].id \in DOMAIN issued
                       /\ alias[t].target.keys = Extend(issued[alias[t].id])
                       /\ Given(alias[t].target.id, alias[t].target.keys)

\* The inductive invariant: every number a thread or the cache can come by --
\* in a shape, in a remembered slot, in a remembered alias -- goes with the
\* layout it was given to.
IInv ==
  TypeOK /\ CacheInv /\ InternInv /\ RecInv /\ SlotInv /\ AliasInv
    /\ ReadsRightKey
=============================================================================
