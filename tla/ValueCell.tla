------------------------------ MODULE ValueCell ------------------------------
(***************************************************************************)
(* The representation of a SEL value (src/rust/src/value.rs).  A cell      *)
(* holds its children as the values of a record shape, as a list's storage *)
(* (numbered, or under the keys a FILTER kept), or as entries with or      *)
(* without a hash index, and moves between these as it is written.  Every  *)
(* operation here is one of the source's, and OM is what they must amount  *)
(* to together.                                                            *)
(***************************************************************************)
EXTENDS Naturals, Sequences, SequencesExt

CONSTANTS
  Cells, Names, Atoms, MaxLen, MaxGiven, Absent,     \* as in OrderedMap
  IndexMin    \* RECORD_INDEX_MIN: entries from which a scan becomes an index

ASSUME IndexMinAssumption == IndexMin \in Nat \ {0}
ASSUME BoundsAssumption == MaxLen \in Nat \ {0} /\ MaxGiven \in 0 .. MaxLen

VARIABLE cell       \* cell[c]: the fields of c's ValueInner

Keys == (1 .. MaxLen) \cup Names
Entries == [key : Keys, val : Atoms]
BoundedSeqOf(S, max) == UNION {[1 .. n -> S] : n \in 0 .. max}

\* None is not Some.
ASSUME AbsentAssumption ==
  /\ Absent \notin Atoms
  /\ Absent \notin Seq(Atoms) /\ Absent \notin Seq(Keys)
  /\ Absent \notin [rep : {"text", "index"}, at : Seq(Keys)]

\* A cell of no kind: shape, store, lkeys and index are the source's Options.
blank ==
  [scalar |-> Absent, list |-> FALSE, shape |-> Absent, store |-> Absent,
   lkeys |-> Absent, ents |-> <<>>, index |-> Absent]

shaped_record(keys, vals) == [blank EXCEPT !.shape = keys, !.store = vals]
list(vals) == [blank EXCEPT !.list = TRUE, !.store = vals]
list_with_list_keys(vals, rep, at) ==
  [list(vals) EXCEPT !.lkeys = [rep |-> rep, at |-> at]]

-----------------------------------------------------------------------------
(* Finding a key's slot: its position in the children, 0 when there is none. *)

FirstSlot(keys, k) ==
  IF \E i \in DOMAIN keys : keys[i] = k
  THEN Min({i \in DOMAIN keys : keys[i] = k})
  ELSE 0

\* A map filled in order of position keeps a repeated key's last one.
KeyMap(keys) == [k \in Range(keys) |-> Max({i \in DOMAIN keys : keys[i] = k})]
Mapped(map, k) == IF k \in DOMAIN map THEN map[k] ELSE 0

\* [T]::binary_search: it answers correctly only for ascending positions.
BinarySearch(at, n) ==
  LET search[r \in (1 .. Len(at) + 1) \X (0 .. Len(at))] ==
        LET mid == (r[1] + r[2]) \div 2
        IN  IF r[1] > r[2] THEN 0
            ELSE IF at[mid] = n THEN mid
            ELSE IF at[mid] < n THEN search[<<mid + 1, r[2]>>]
            ELSE search[<<r[1], mid - 1>>]
  IN  search[<<1, Len(at)>>]

position(lkeys, k) ==
  IF lkeys.rep = "text" THEN FirstSlot(lkeys.at, k)
  ELSE IF k \in Nat THEN BinarySearch(lkeys.at, k) ELSE 0

ListSlotByNumber(v, k) == IF k \in 1 .. Len(v.store) THEN k ELSE 0   \* mutant
ListSlot(v, k) ==
  IF v.lkeys # Absent THEN position(v.lkeys, k)
  ELSE IF k \in 1 .. Len(v.store) THEN k ELSE 0

EntryKeys(v) == [i \in DOMAIN v.ents |-> v.ents[i].key]
EntrySlot(v, k) ==
  IF v.index # Absent THEN Mapped(v.index, k) ELSE FirstSlot(EntryKeys(v), k)

Shaped(v) == v.shape # Absent
Listed(v) == v.list /\ v.store # Absent
Slot(v, k) ==
  IF Shaped(v) THEN Mapped(KeyMap(v.shape), k)
  ELSE IF Listed(v) THEN ListSlot(v, k)
  ELSE EntrySlot(v, k)

-----------------------------------------------------------------------------
(* Reading a cell. *)

size(v) == IF v.store # Absent THEN Len(v.store) ELSE Len(v.ents)
is_null(v) == v.scalar = Absent /\ size(v) = 0 /\ ~v.list

values(v) ==
  IF v.store # Absent THEN v.store
  ELSE [i \in DOMAIN v.ents |-> v.ents[i].val]

ListKeysOf(v) == IF v.lkeys # Absent THEN v.lkeys.at
                 ELSE [i \in DOMAIN v.store |-> i]
keys(v) ==
  IF Shaped(v) THEN v.shape
  ELSE IF Listed(v) THEN ListKeysOf(v)
  ELSE EntryKeys(v)

entries(v) ==
  LET ks == keys(v)
      vs == values(v)
  IN  [i \in 1 .. Min({Len(ks), Len(vs)}) |-> [key |-> ks[i], val |-> vs[i]]]

has(v, k) == Slot(v, k) # 0
get(v, k) == IF has(v, k) THEN values(v)[Slot(v, k)] ELSE Absent

Dense(v) == Listed(v) /\ v.lkeys = Absent
EqlByStorage(v, w) ==           \* mutant: kept keys are not compared
  /\ v.scalar = w.scalar
  /\ size(v) = size(w)
  /\ IF Listed(v) /\ Listed(w) THEN v.store = w.store ELSE entries(v) = entries(w)
eql(v, w) ==
  /\ v.scalar = w.scalar
  /\ size(v) = size(w)
  /\ \/ size(v) = 0
     \/ /\ Dense(v) /\ Dense(w)
        /\ v.store = w.store
     \/ /\ ~(Dense(v) /\ Dense(w))
        /\ \A i \in DOMAIN entries(v) : entries(v)[i] = entries(w)[i]

\* elems: the children an aggregate walks, and how it knows their keys.
elems(v) ==
  IF size(v) = 0
  THEN [vals |-> IF v.scalar # Absent THEN <<v.scalar>> ELSE <<>>,
        rep |-> "position"]
  ELSE [vals |-> values(v),
        rep |-> IF v.store = Absent \/ Shaped(v) THEN "text"
                ELSE IF v.lkeys # Absent THEN v.lkeys.rep
                ELSE "position"]
ElemKey(v, i) == IF elems(v).rep = "position" THEN i ELSE keys(v)[i]

-----------------------------------------------------------------------------
(* Writing a cell. *)

rebuild_index(v) == [v EXCEPT !.index = KeyMap(EntryKeys(v))]

SpillNumbered(v) ==             \* mutant: the keys a FILTER kept are lost
  rebuild_index([v EXCEPT !.ents = [i \in DOMAIN values(v) |->
                                      [key |-> IF Shaped(v) THEN v.shape[i] ELSE i,
                                       val |-> values(v)[i]]],
                          !.shape = Absent, !.store = Absent, !.lkeys = Absent])

\* The transition from a shape or a list to indexed entries.
Spill(v) ==
  rebuild_index([v EXCEPT !.ents = entries(v), !.shape = Absent,
                          !.store = Absent, !.lkeys = Absent])

SetEntryUnindexed(v, k, a) ==   \* mutant: an appended entry is not indexed
  LET slot == EntrySlot(v, k)
  IN  IF slot # 0 THEN [v EXCEPT !.ents[slot].val = a]
      ELSE [v EXCEPT !.ents = Append(@, [key |-> k, val |-> a])]

SetEntry(v, k, a) ==
  LET slot == EntrySlot(v, k)
      more == [v EXCEPT !.ents = Append(@, [key |-> k, val |-> a])]
  IN  IF slot # 0 THEN [v EXCEPT !.ents[slot].val = a]
      ELSE IF v.index # Absent
      THEN [more EXCEPT !.index = [x \in DOMAIN @ \cup {k} |->
                                     IF x = k THEN Len(more.ents) ELSE @[x]]]
      ELSE IF Len(more.ents) >= IndexMin THEN rebuild_index(more) ELSE more

set(v, k, a) ==
  IF Shaped(v) \/ Listed(v)
  THEN IF has(v, k) THEN [v EXCEPT !.store[Slot(v, k)] = a]
       ELSE SetEntry(Spill(v), k, a)
  ELSE SetEntry(v, k, a)

RecordUnchecked(ents) ==        \* mutant: a repeated key stays in the shape
  IF ents # <<>>
  THEN shaped_record([i \in DOMAIN ents |-> ents[i].key],
                     [i \in DOMAIN ents |-> ents[i].val])
  ELSE blank

record_from_entries(ents) ==
  LET ks == [i \in DOMAIN ents |-> ents[i].key]
  IN  IF ents # <<>> /\ IsInjective(ks)
      THEN shaped_record(ks, [i \in DOMAIN ents |-> ents[i].val])
      ELSE FoldLeft(LAMBDA v, e : set(v, e.key, e.val), blank, ents)

\* Children are scalars here, so copying one is taking it.
deep_copy(v) ==
  LET plain == [blank EXCEPT !.scalar = v.scalar, !.list = v.list,
                             !.shape = v.shape, !.lkeys = v.lkeys]
      withEnts == [plain EXCEPT !.ents = v.ents]
  IN  IF v.store # Absent THEN [plain EXCEPT !.store = v.store]
      ELSE IF v.ents # <<>> /\ v.index # Absent THEN rebuild_index(withEnts)
      ELSE withEnts

\* The positions of the rows that are kept, in the order they are tested.
InOrder(rows, kept) ==
  FoldLeftDomain(LAMBDA out, i : IF i \in kept THEN Append(out, i) ELSE out, <<>>, rows)

FilterRenumbering(v, kept) ==   \* mutant: kept rows lose the places they had
  LET order == InOrder(elems(v).vals, kept)
  IN  list([i \in DOMAIN order |-> elems(v).vals[order[i]]])

\* FILTER: numbered only if nothing moved; positions stay positions.
filter_rows(v, kept) ==
  LET es == elems(v)
      order == InOrder(es.vals, kept)
      vals == [i \in DOMAIN order |-> es.vals[order[i]]]
      at == [i \in DOMAIN order |-> ElemKey(v, order[i])]
      allKept == Len(order) = Len(es.vals)
  IN  IF allKept /\ \A i \in DOMAIN es.vals : ElemKey(v, i) = i THEN list(vals)
      ELSE IF es.rep = "text" /\ kept # {}
      THEN list_with_list_keys(vals, "text", at)
      ELSE list_with_list_keys(vals, "index", at)

-----------------------------------------------------------------------------
FirstRows(v, n) ==
  LET es == elems(v).vals
  IN  list(IF n = 0 \/ is_null(v) THEN <<>> ELSE SubSeq(es, 1, Min({n, Len(es)})))

RestRows(v, n) ==
  LET es == elems(v).vals
  IN  list(IF is_null(v) \/ n >= Len(es) THEN <<>> ELSE SubSeq(es, n + 1, Len(es)))

Store(c, v) == cell' = [cell EXCEPT ![c] = v]

NewNone(c) == Store(c, blank)
NewScalar(c, a) == Store(c, [blank EXCEPT !.scalar = a])
NewList(c, vals) == Store(c, list(vals))
NewRecord(c, ents) == Store(c, record_from_entries(ents))

Set(c, k, a) ==
  /\ size(cell[c]) < MaxLen \/ has(cell[c], k)   \* MaxLen bounds the model
  /\ Store(c, set(cell[c], k, a))

Copy(c, d) == Store(d, deep_copy(cell[c]))
Filter(c, d, kept) == Store(d, filter_rows(cell[c], kept))

fn_take(c, d, n) == Store(d, FirstRows(cell[c], n))
fn_drop(c, d, n) == Store(d, RestRows(cell[c], n))

Init == cell = [c \in Cells |-> blank]

Next ==
  \/ \E c \in Cells :
       \/ NewNone(c)
       \/ \E a \in Atoms : NewScalar(c, a)
       \/ \E vals \in BoundedSeqOf(Atoms, MaxLen) : NewList(c, vals)
       \/ \E k \in Keys, a \in Atoms : Set(c, k, a)
  \/ \E c, d \in Cells :
       \/ Copy(c, d)
       \/ \E kept \in SUBSET DOMAIN elems(cell[c]).vals : Filter(c, d, kept)
       \/ \E n \in 0 .. MaxLen : fn_take(c, d, n) \/ fn_drop(c, d, n)
  \/ \E c \in Cells, ents \in BoundedSeqOf(Entries, MaxGiven) : NewRecord(c, ents)

Spec == Init /\ [][Next]_cell

-----------------------------------------------------------------------------
\* The promise: the children of each cell, read through entries(), are the
\* ordered map's.
Contents(v) == [scalar |-> v.scalar, list |-> v.list, kids |-> entries(v)]
OM == INSTANCE OrderedMap WITH value <- [c \in Cells |-> Contents(cell[c])]

\* Whatever sequence of constructors, writes, copies, FILTERs, TAKEs and DROPs
\* takes a cell through its representations, its children are what an ordered
\* map of text keys would hold (spec/SPEC.md 3.3).
ImplementsOrderedMap == OM!Spec

\* The fields of every cell are ones a ValueInner can hold: a shape comes with
\* its values and no two equal keys, storage without a shape is a list's, kept
\* keys number its storage, and a cell with storage has no entries.
ReprOK ==
  \A c \in Cells :
    LET v == cell[c]
    IN  /\ v.scalar \in Atoms \cup {Absent} /\ v.list \in BOOLEAN
        /\ v.store # Absent => v.store \in Seq(Atoms) /\ v.ents = <<>>
        /\ v.shape # Absent => /\ v.store # Absent /\ ~v.list
                               /\ v.shape \in Seq(Keys)
                               /\ Len(v.shape) = Len(v.store)
                               /\ IsInjective(v.shape)
        /\ v.store # Absent => v.list \/ v.shape # Absent
        /\ v.lkeys # Absent => /\ v.store # Absent /\ v.list
                               /\ v.lkeys.at \in Seq(Keys)
                               /\ Len(v.lkeys.at) = Len(v.store)
                               /\ IsInjective(v.lkeys.at)
        /\ v.ents \in Seq(Entries)

\* The hash index of a cell answers for exactly its entries, and each key's
\* slot is where the entry is: no write, spill or copy leaves it behind.
IndexExact ==
  \A c \in Cells :
    cell[c].index # Absent =>
      /\ cell[c].store = Absent
      /\ DOMAIN cell[c].index = Range(EntryKeys(cell[c]))
      /\ \A k \in DOMAIN cell[c].index :
           EntryKeys(cell[c])[cell[c].index[k]] = k

\* Whatever the representation, get, has, size and is_null answer what a walk
\* of the children says: the hashed, searched and scanned paths agree.
ReadsAgree ==
  \A c \in Cells :
    LET v == cell[c]
    IN  /\ \A k \in Keys :
             /\ get(v, k) = OM!Lookup(entries(v), k)
             /\ has(v, k) <=> k \in OM!KeysIn(entries(v))
        /\ size(v) = Len(entries(v)) /\ Len(keys(v)) = size(v)
        /\ is_null(v) <=> v.scalar = Absent /\ entries(v) = <<>> /\ ~v.list

\* Each operation, on whatever representation it meets, makes of a cell what it
\* makes of an ordered map: FILTER keeps the keys of the rows it keeps, TAKE and
\* DROP number theirs anew, a copy is the same, a write keeps a key's place.
OperationsAgree ==
  \A c \in Cells :
    LET v == cell[c]
        om == Contents(v)
    IN  /\ Contents(deep_copy(v)) = om
        /\ \A k \in Keys, a \in Atoms :
             Contents(set(v, k, a)) = [om EXCEPT !.kids = OM!Put(@, k, a)]
        /\ \A kept \in SUBSET DOMAIN elems(v).vals :
             Contents(filter_rows(v, kept)) = OM!Filtered(om, kept)
        /\ \A n \in 0 .. MaxLen :
             /\ Contents(FirstRows(v, n)) = OM!First(om, n)
             /\ Contents(RestRows(v, n)) = OM!Rest(om, n)

\* What one operation makes of v, and the record made of the same children.
Near(v) ==
  LET ks == SUBSET DOMAIN elems(v).vals
      made == {deep_copy(v)} \cup {filter_rows(v, kept) : kept \in ks}
                \cup {FirstRows(v, n) : n \in 0 .. MaxLen}
                \cup {RestRows(v, n) : n \in 0 .. MaxLen}
                \cup {set(v, k, a) : k \in Keys, a \in Atoms}
  IN  {v} \cup made \cup {record_from_entries(entries(w)) : w \in {v} \cup made}

\* EQL compares scalars and children, keys included, and nothing else: of the
\* values two operations make of one cell, those that hold the same are equal
\* whatever their representations, and no others are (spec/SPEC.md 5.4).
EqlAgrees ==
  \A c \in Cells :
    \A v, w \in Near(cell[c]) :
      eql(v, w) <=> v.scalar = w.scalar /\ entries(v) = entries(w)
=============================================================================
