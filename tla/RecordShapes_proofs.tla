------------------------ MODULE RecordShapes_proofs ------------------------
(***************************************************************************)
(* Why a shape's number can be trusted, for any number of threads, layouts *)
(* and shapes.  Everything that carries a number (a shape, a remembered    *)
(* slot, a remembered alias) agrees with the layout the number was given   *)
(* to, and that never changes once given.                                  *)
(***************************************************************************)
EXTENDS RecordShapes, FiniteSetTheorems, TLAPS

-----------------------------------------------------------------------------
\* What a number was given to is not changed by giving out another.
LEMMA GivenStays ==
  ASSUME issued \in Seq(Layouts), NEW keys \in Layouts,
         issued' = Append(issued, keys)
  PROVE  /\ issued' \in Seq(Layouts)
         /\ \A n \in DOMAIN issued : n \in DOMAIN issued' /\ issued'[n] = issued[n]
         /\ Len(issued) + 1 \in DOMAIN issued'
         /\ issued'[Len(issued) + 1] = keys
OBVIOUS

\* A None is not a shape, nor what a node or a RowAlias remembers.
LEMMA NoneIsNone ==
  /\ \A s \in ShapeSet : s # None
  /\ \A r \in [id : Nat, slot : Nat] : r # None
  /\ \A r \in [id : Nat, target : ShapeSet] : r # None
BY NoneAssumption DEF ShapeSet

\* A layout that has the key has it at the slot key_map answers.
LEMMA SlotOfKey ==
  ASSUME NEW s \in ShapeSet, NEW k, Has(s.keys, k)
  PROVE  SlotIn(s, k) \in DOMAIN s.keys /\ s.keys[SlotIn(s, k)] = k
BY DEF Has, SlotIn

\* Every layout, extended or not, is a sequence of keys.
LEMMA LayoutIsSeq ==
  ASSUME NEW l \in Layouts
  PROVE  /\ DOMAIN l = 1 .. Len(l)
         /\ Len(l) \in Nat
         /\ ~Has(l, AliasName) => Extend(l) \in Layouts
BY LayoutAssumption

\* Clearing a full cache before inserting keeps it within its capacity.
LEMMA InsertBounded ==
  ASSUME NEW keys \in Layouts \ Oversized, NEW s \in ShapeSet,
         CacheInv
  PROVE  /\ Insert(keys, s) \in [DOMAIN Insert(keys, s) -> ShapeSet]
         /\ DOMAIN Insert(keys, s) \subseteq Layouts \ Oversized
         /\ IsFiniteSet(DOMAIN Insert(keys, s))
         /\ Cardinality(DOMAIN Insert(keys, s)) <= Capacity
         /\ \A l \in DOMAIN Insert(keys, s) :
              \/ l = keys /\ Insert(keys, s)[l] = s
              \/ l \in DOMAIN cache /\ Insert(keys, s)[l] = cache[l]
<1> DEFINE kept == IF Cardinality(DOMAIN cache) >= Capacity THEN {}
                   ELSE DOMAIN cache
<1>1. DOMAIN Insert(keys, s) = kept \cup {keys}
  BY DEF Insert
<1>2. kept \subseteq DOMAIN cache
  OBVIOUS
<1>3. \A l \in kept \cup {keys} :
        Insert(keys, s)[l] = IF l = keys THEN s ELSE cache[l]
  BY DEF Insert
<1>4. Insert(keys, s) \in [DOMAIN Insert(keys, s) -> ShapeSet]
  <2>1. Insert(keys, s) = [l \in DOMAIN Insert(keys, s) |-> Insert(keys, s)[l]]
    BY DEF Insert
  <2>2. \A l \in DOMAIN Insert(keys, s) : Insert(keys, s)[l] \in ShapeSet
    BY <1>1, <1>2, <1>3 DEF CacheInv
  <2>. QED  BY <2>1, <2>2
<1>5. IsFiniteSet(kept) /\ Cardinality(kept) + 1 <= Capacity
  <2>1. CASE Cardinality(DOMAIN cache) >= Capacity
    BY <2>1, FS_EmptySet, CapacityAssumption
  <2>2. CASE ~(Cardinality(DOMAIN cache) >= Capacity)
    BY <2>2, FS_CardinalityType, CapacityAssumption DEF CacheInv
  <2>. QED  BY <2>1, <2>2
<1>. HIDE DEF kept
<1>6. /\ IsFiniteSet(kept \cup {keys})
      /\ Cardinality(kept \cup {keys}) <= Cardinality(kept) + 1
  <2>1. Cardinality(kept) \in Nat
    BY <1>5, FS_CardinalityType
  <2>2. /\ IsFiniteSet(kept \cup {keys})
        /\ Cardinality(kept \cup {keys}) =
             IF keys \in kept THEN Cardinality(kept) ELSE Cardinality(kept) + 1
    BY <1>5, FS_AddElement, Zenon
  <2>. QED  BY <2>1, <2>2
<1>7. Cardinality(kept \cup {keys}) \in Nat /\ Cardinality(kept) \in Nat
  BY <1>5, <1>6, FS_CardinalityType
<1>8. Cardinality(kept \cup {keys}) <= Capacity
  BY <1>5, <1>6, <1>7, CapacityAssumption
<1>. QED  BY <1>1, <1>2, <1>3, <1>4, <1>6, <1>8 DEF CacheInv

-----------------------------------------------------------------------------
\* Handing a shape whose number is given to its keys to the record being made
\* keeps the invariant, extended record or fresh one.
LEMMA HandKeeps ==
  ASSUME IInv, NEW t \in Threads, NEW s \in ShapeSet, NEW extending \in BOOLEAN,
         Given(s.id, s.keys),
         extending => Shaped(t) /\ s.keys = Extend(rec[t].shape.keys),
         Hand(t, s, extending), issued' = issued, slot' = slot,
         answer' = [answer EXCEPT ![t] = None]
  PROVE  (TypeOK /\ InternInv /\ RecInv /\ SlotInv /\ AliasInv
            /\ ReadsRightKey)'
<1> USE DEF IInv, ShapeSet
<1>1. s # None /\ s.keys \in Layouts
  BY NoneIsNone
<1>2. extending => /\ rec[t].shape \in ShapeSet
                   /\ rec[t].row = rec[t].shape.keys
                   /\ Given(rec[t].shape.id, rec[t].shape.keys)
  BY DEF TypeOK, RecInv, Shaped
<1>3. rec'[t] = [shape |-> s, row |-> s.keys]
  BY <1>2 DEF Hand, TypeOK
<1>4. TypeOK'
  BY <1>1, <1>2, <1>3 DEF TypeOK, Hand
<1>5. InternInv'
  BY <1>1 DEF TypeOK, InternInv, Hand, Shaped, Given
<1>6. RecInv'
  BY <1>1, <1>3 DEF TypeOK, RecInv, Hand, Shaped, Given
<1>7. SlotInv'
  BY DEF SlotInv
<1>8. AliasInv'
  BY <1>1, <1>2 DEF TypeOK, AliasInv, Hand, Given
<1>9. ReadsRightKey'
  <2>. SUFFICES ASSUME NEW u \in Threads, answer'[u] # None
                PROVE  u # t /\ answer'[u] = answer[u]
    BY DEF ReadsRightKey
  <2>. QED  BY DEF TypeOK
<1>. QED  BY <1>4, <1>5, <1>6, <1>7, <1>8, <1>9

\* Asking the cache for a layout, to make a record or to extend one.
LEMMA LookupKeeps ==
  ASSUME IInv, NEW t \in Threads, NEW keys \in Layouts,
         NEW extending \in BOOLEAN, pc[t] = "idle",
         extending => Shaped(t) /\ keys = Extend(rec[t].shape.keys),
         Lookup(t, keys, extending)
  PROVE  IInv'
<1>1. CASE keys \in DOMAIN cache /\ Hand(t, cache[keys], extending)
  <2>1. /\ cache[keys] \in ShapeSet /\ cache[keys].keys = keys
        /\ Given(cache[keys].id, keys)
    BY <1>1 DEF IInv, CacheInv
  <2>2. (TypeOK /\ InternInv /\ RecInv /\ SlotInv /\ AliasInv
           /\ ReadsRightKey)'
    BY <1>1, <2>1, HandKeeps DEF Lookup
  <2>3. CacheInv'
    BY DEF IInv, CacheInv, Lookup, Given
  <2>. QED  BY <2>2, <2>3 DEF IInv
<1>2. CASE /\ pc' = [pc EXCEPT ![t] = IF extending THEN "extend" ELSE "record"]
           /\ want' = [want EXCEPT ![t] = keys]
           /\ UNCHANGED <<made, rec, alias>>
  <2>. USE <1>2 DEF IInv, Lookup
  <2>1. TypeOK'
    BY DEF TypeOK
  <2>2. CacheInv'
    BY DEF CacheInv, Given
  <2>3. made[t] = None
    BY DEF InternInv
  <2>4. InternInv'
    BY <2>3 DEF InternInv, TypeOK, Shaped, Given
  <2>5. RecInv' /\ SlotInv' /\ AliasInv'
    BY DEF RecInv, SlotInv, AliasInv, Shaped, Given
  <2>6. ReadsRightKey'
    BY DEF ReadsRightKey, TypeOK
  <2>. QED  BY <2>1, <2>2, <2>4, <2>5, <2>6
<1>. QED  BY <1>1, <1>2 DEF Lookup
\* What the invariant needs of a step that only makes a shape.
LEMMA CreateKeeps ==
  ASSUME IInv, NEW t \in Threads, Create(t)
  PROVE  IInv'
<1> USE DEF IInv, Create
<1>1. want[t] \in Layouts
  BY DEF InternInv, TypeOK
<1>2. /\ issued' \in Seq(Layouts)
      /\ \A n \in DOMAIN issued : n \in DOMAIN issued' /\ issued'[n] = issued[n]
      /\ Len(issued) + 1 \in DOMAIN issued'
      /\ issued'[Len(issued) + 1] = want[t]
  BY <1>1, GivenStays DEF TypeOK
<1>3. \A n, keys : Given(n, keys) => Given(n, keys)'
  BY <1>2 DEF Given
<1>4. Shape(Len(issued) + 1, want[t]) \in ShapeSet
  BY <1>1 DEF Shape, ShapeSet, TypeOK
<1>5. TypeOK'
  BY <1>2, <1>4 DEF TypeOK
<1>6. CacheInv'
  BY <1>3 DEF CacheInv
<1>7. InternInv'
  <2>. SUFFICES ASSUME NEW u \in Threads
                PROVE  /\ pc[u] # "idle" => want[u] \in Layouts
                       /\ pc[u] = "extend" =>
                            Shaped(u) /\ want[u] = Extend(rec[u].shape.keys)
                       /\ made'[u] # None =>
                            /\ pc[u] # "idle" /\ made'[u].keys = want[u]
                            /\ Given(made[u].id, want[u])'
    BY DEF InternInv, Shaped, Given
  <2>1. CASE u = t
    BY <2>1, <1>2 DEF InternInv, TypeOK, Shape, Given
  <2>2. CASE u # t
    BY <2>2, <1>3 DEF InternInv, TypeOK, Given
  <2>. QED  BY <2>1, <2>2
<1>8. RecInv'
  BY <1>3 DEF RecInv, Shaped
<1>9. SlotInv'
  BY <1>2 DEF SlotInv
<1>10. AliasInv'
  BY <1>2, <1>3 DEF AliasInv
<1>11. ReadsRightKey'
  BY DEF ReadsRightKey, TypeOK
<1>. QED  BY <1>5, <1>6, <1>7, <1>8, <1>9, <1>10, <1>11

\* Publishing keeps the cache honest and bounded, and hands the shape over.
LEMMA PublishKeeps ==
  ASSUME IInv, NEW t \in Threads, Publish(t)
  PROVE  IInv'
<1>1. /\ made[t] \in ShapeSet /\ want[t] \in Layouts
      /\ made[t].keys = want[t] /\ Given(made[t].id, want[t])
      /\ pc[t] = "extend" => Shaped(t) /\ want[t] = Extend(rec[t].shape.keys)
  BY DEF IInv, Publish, InternInv, TypeOK
<1>2. (TypeOK /\ InternInv /\ RecInv /\ SlotInv /\ AliasInv
         /\ ReadsRightKey)'
  BY <1>1, HandKeeps DEF Publish
<1>3. CacheInv'
  <2>1. CASE want[t] \in Oversized
    BY <2>1 DEF Publish, IInv, CacheInv, Given
  <2>2. CASE want[t] \notin Oversized
    <3>1. cache' = Insert(want[t], made[t]) /\ issued' = issued
      BY <2>2 DEF Publish
    <3>2. want[t] \in Layouts \ Oversized
      BY <2>2, <1>1
    <3>3. /\ cache' \in [DOMAIN cache' -> ShapeSet]
          /\ DOMAIN cache' \subseteq Layouts \ Oversized
          /\ IsFiniteSet(DOMAIN cache')
          /\ Cardinality(DOMAIN cache') <= Capacity
          /\ \A l \in DOMAIN cache' :
               \/ l = want[t] /\ cache'[l] = made[t]
               \/ l \in DOMAIN cache /\ cache'[l] = cache[l]
      BY <3>1, <3>2, <1>1, InsertBounded DEF IInv
    <3>4. \A l \in DOMAIN cache' : cache'[l].keys = l /\ Given(cache[l].id, l)'
      BY <3>1, <3>3, <1>1 DEF IInv, CacheInv, Given
    <3>. QED  BY <3>3, <3>4 DEF CacheInv
  <2>. QED  BY <2>1, <2>2
<1>. QED  BY <1>2, <1>3 DEF IInv

\* A literal key reads its own value: at a remembered slot because the number
\* it was remembered under was given to a layout with the key there.
LEMMA ReadKeeps ==
  ASSUME IInv, NEW t \in Threads, eval_index(t)
  PROVE  IInv'
<1> DEFINE k == NodeKey[t]
           sh == rec[t].shape
           row == rec[t].row
<1>. USE DEF IInv
<1>0. /\ UNCHANGED <<issued, cache, pc, want, made, rec, alias>>
      /\ rec[t] \in [shape : ShapeSet \cup {None}, row : Layouts \cup {<<>>}]
  BY DEF eval_index, SlotHit, TypeOK
<1>1. Shaped(t) => /\ sh \in ShapeSet /\ row = sh.keys /\ row \in Layouts
                   /\ sh.id \in DOMAIN issued /\ issued[sh.id] = row
  BY <1>0 DEF RecInv, Shaped, Given, ShapeSet
<1>2. PICK got : /\ Answered(t, got)
                 /\ got = IF Has(row, k) THEN k ELSE None
                 /\ \/ UNCHANGED slot
                    \/ /\ Shaped(t) /\ Has(row, k)
                       /\ slot' = [slot EXCEPT ![t] =
                                     [id |-> sh.id, slot |-> SlotIn(sh, k)]]
  <2>1. CASE /\ Shaped(t) /\ SlotHit(t)
             /\ Answered(t, row[slot[t].slot]) /\ UNCHANGED slot
    <3>1. slot[t].slot \in DOMAIN row /\ row[slot[t].slot] = k
      BY <2>1, <1>1 DEF SlotInv, SlotHit
    <3>. QED  BY <3>1, <2>1 DEF Has
  <2>2. CASE /\ Shaped(t) /\ Has(sh.keys, k) /\ Answered(t, row[SlotIn(sh, k)])
             /\ slot' = [slot EXCEPT ![t] = [id |-> sh.id,
                                             slot |-> SlotIn(sh, k)]]
    BY <2>2, <1>1, SlotOfKey
  <2>3. CASE /\ Shaped(t) /\ ~Has(sh.keys, k) /\ Answered(t, None)
             /\ UNCHANGED slot
    BY <2>3, <1>1
  <2>4. CASE /\ ~Shaped(t) /\ Answered(t, IF Has(row, k) THEN k ELSE None)
             /\ UNCHANGED slot
    BY <2>4
  <2>. QED  BY <2>1, <2>2, <2>3, <2>4 DEF eval_index
<1>3. TypeOK'
  <2>1. slot' \in [Threads -> [id : Nat, slot : Nat] \cup {None}]
    <3>1. CASE UNCHANGED slot
      BY <3>1 DEF TypeOK
    <3>2. CASE /\ Shaped(t) /\ Has(row, k)
               /\ slot' = [slot EXCEPT ![t] =
                             [id |-> sh.id, slot |-> SlotIn(sh, k)]]
      <4>1. SlotIn(sh, k) \in Nat /\ sh.id \in Nat
        BY <3>2, <1>1, SlotOfKey, LayoutIsSeq DEF ShapeSet
      <4>. QED  BY <4>1, <3>2 DEF TypeOK
    <3>. QED  BY <1>2, <3>1, <3>2
  <2>. QED  BY <2>1, <1>0, <1>2 DEF TypeOK, Answered
<1>4. CacheInv' /\ InternInv' /\ RecInv' /\ AliasInv'
  BY <1>0 DEF CacheInv, InternInv, RecInv, AliasInv, Shaped, Given
<1>5. SlotInv'
  BY <1>0, <1>1, <1>2, SlotOfKey DEF SlotInv, TypeOK
<1>6. ReadsRightKey'
  BY <1>2 DEF ReadsRightKey, Answered, TypeOK
<1>. QED  BY <1>3, <1>4, <1>5, <1>6

\* RowAlias gives a row the shape it remembers only for the row's own layout.
LEMMA ApplyKeeps ==
  ASSUME IInv, NEW t \in Threads, apply(t)
  PROVE  IInv'
<1>1. /\ rec[t].shape \in ShapeSet /\ rec[t].row = rec[t].shape.keys
      /\ Given(rec[t].shape.id, rec[t].shape.keys)
      /\ Extend(rec[t].shape.keys) \in Layouts
  BY LayoutIsSeq DEF IInv, TypeOK, RecInv, apply, Shaped, ShapeSet
<1>2. CASE AliasHit(t)
  <2>1. /\ alias[t].target \in ShapeSet
        /\ alias[t].target.keys = Extend(rec[t].row)
        /\ Given(alias[t].target.id, alias[t].target.keys)
    BY <1>1, <1>2 DEF IInv, TypeOK, AliasInv, Given, AliasHit
  <2>2. /\ rec' = [rec EXCEPT ![t] = [shape |-> alias[t].target,
                                      row |-> Extend(rec[t].row)]]
        /\ answer' = [answer EXCEPT ![t] = None]
        /\ pc[t] = "idle"
        /\ UNCHANGED <<issued, cache, pc, want, made, slot, alias>>
    BY <1>2 DEF apply
  <2>. USE <2>2 DEF IInv
  <2>3. TypeOK'
    BY <2>1, <1>1 DEF TypeOK
  <2>4. CacheInv' /\ SlotInv' /\ AliasInv'
    BY DEF CacheInv, SlotInv, AliasInv, Given
  <2>5. InternInv'
    BY DEF InternInv, TypeOK, Shaped, Given
  <2>6. RecInv'
    BY <2>1 DEF RecInv, TypeOK, Shaped, Given
  <2>7. ReadsRightKey'
    BY DEF ReadsRightKey, TypeOK
  <2>. QED  BY <2>3, <2>4, <2>5, <2>6, <2>7
<1>3. CASE Lookup(t, Extend(rec[t].shape.keys), TRUE)
  BY <1>1, <1>3, LookupKeeps DEF apply
<1>. QED  BY <1>2, <1>3 DEF apply

\* A record that spills has no shape left to agree with.
LEMMA SpillKeeps ==
  ASSUME IInv, NEW t \in Threads, Spill(t)
  PROVE  IInv'
<1> USE DEF IInv, Spill
<1>1. TypeOK'
  BY DEF TypeOK
<1>2. CacheInv' /\ SlotInv' /\ AliasInv'
  BY DEF CacheInv, SlotInv, AliasInv, Given
<1>3. InternInv' /\ RecInv'
  BY DEF InternInv, RecInv, TypeOK, Shaped, Given
<1>4. ReadsRightKey'
  BY DEF ReadsRightKey, TypeOK
<1>. QED  BY <1>1, <1>2, <1>3, <1>4

-----------------------------------------------------------------------------
\* Whatever the threads do, every number agrees with the layout it was given
\* to: in the cache, in the records, in the slots and in the aliases.
THEOREM ShapesInvariant == Spec => []IInv
<1>1. Init => IInv
  <2>. SUFFICES ASSUME Init PROVE IInv
    OBVIOUS
  <2>1. TypeOK /\ InternInv /\ RecInv /\ SlotInv /\ AliasInv /\ ReadsRightKey
    BY DEF Init, TypeOK, InternInv, RecInv, SlotInv, AliasInv, ReadsRightKey,
           Shaped
  <2>2. CacheInv
    BY FS_EmptySet, CapacityAssumption DEF Init, CacheInv
  <2>. QED  BY <2>1, <2>2 DEF IInv
<1>2. IInv /\ [Next]_vars => IInv'
  <2>. SUFFICES ASSUME IInv, [Next]_vars PROVE IInv'
    OBVIOUS
  <2>1. ASSUME NEW t \in Threads, NEW keys \in Layouts, NewRecord(t, keys)
        PROVE  IInv'
    BY <2>1, LookupKeeps DEF NewRecord
  <2>2. ASSUME NEW t \in Threads, Create(t) PROVE IInv'
    BY <2>2, CreateKeeps
  <2>3. ASSUME NEW t \in Threads, Publish(t) PROVE IInv'
    BY <2>3, PublishKeeps
  <2>4. ASSUME NEW t \in Threads, Spill(t) PROVE IInv'
    BY <2>4, SpillKeeps
  <2>5. ASSUME NEW t \in Threads, eval_index(t) PROVE IInv'
    BY <2>5, ReadKeeps
  <2>6. ASSUME NEW t \in Threads, apply(t) PROVE IInv'
    BY <2>6, ApplyKeeps
  <2>7. CASE UNCHANGED vars
    BY <2>7 DEF vars, IInv, TypeOK, CacheInv, InternInv, RecInv, SlotInv,
                AliasInv, ReadsRightKey, Shaped, Given
  <2>. QED  BY <2>1, <2>2, <2>3, <2>4, <2>5, <2>6, <2>7 DEF Next
<1>. QED  BY <1>1, <1>2, PTL DEF Spec

\* No two reachable shapes share a number with different layouts.
THEOREM IdsNameLayouts == Spec => []IdNamesLayout
<1>1. IInv => IdNamesLayout
  <2>. SUFFICES ASSUME IInv, NEW s \in Shapes
                PROVE  Given(s.id, s.keys)
    BY DEF IdNamesLayout, Given
  <2>. QED  BY DEF IInv, CacheInv, InternInv, RecInv, AliasInv, Shapes
<1>. QED  BY <1>1, ShapesInvariant, PTL

\* The interning cache is sound and stays within its capacity.
THEOREM CacheIsSound == Spec => []CacheSound
<1>1. IInv => CacheSound
  BY DEF IInv, CacheInv, CacheSound
<1>. QED  BY <1>1, ShapesInvariant, PTL

\* Every shaped record's values are in the order of its shape's keys.
THEOREM RowsKeepShapes == Spec => []RowsFitShapes
<1>1. IInv => RowsFitShapes
  BY DEF IInv, RecInv, RowsFitShapes
<1>. QED  BY <1>1, ShapesInvariant, PTL

\* A literal key reads its own value, or E_NO_KEY exactly when it is missing.
THEOREM ReadsAreRight == Spec => []ReadsRightKey
<1>1. IInv => ReadsRightKey
  BY DEF IInv
<1>. QED  BY <1>1, ShapesInvariant, PTL
=============================================================================
