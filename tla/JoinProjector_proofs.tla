------------------------ MODULE JoinProjector_proofs ------------------------
(***************************************************************************)
(* JoinProjector builds every row as make_joined_row would, for all rows,  *)
(* binders and whatever the bodies write: ProjectedAsMade; and the plans   *)
(* kept for a pair of shapes never fit the same two rows: PlansTellApart.  *)
(*                                                                         *)
(* A plan's checks, all of them made, say exactly that two rows lay out as *)
(* the ones it was compiled for (FitsIs, SameLayout).  The shortcuts leave *)
(* checks out that would have been passed: SameLeftRow for the left row    *)
(* that is looked at again, FlatPlans for right rows that are flat.        *)
(***************************************************************************)
EXTENDS JoinProjector, DataInduction

-----------------------------------------------------------------------------
(* What a layout holds.                                                     *)

\* The keys at some places are those keys, and a sequence.
LEMMA KeysAtAre ==
  ASSUME NEW V, NEW keys \in Seq(V), NEW places \in SUBSET DOMAIN keys
  PROVE  KeysAt(keys, places) \in Seq(V) /\ ToSet(KeysAt(keys, places)) = {keys[i] : i \in places}
<1>1. PICK n \in Nat : n = Len(keys)
  OBVIOUS
<1>2. DOMAIN keys = 1 .. n /\ \A i \in 1 .. n : keys[i] \in V
  BY <1>1
<1>3. places \in SUBSET (1 .. n)
  BY <1>2
<1>4. /\ Cardinality(places) \in Nat
      /\ \A p \in 1 .. Cardinality(places) :
           (CHOOSE i \in places : Cardinality({j \in places : j < i}) = p - 1) \in places
      /\ \A i \in places : \E p \in 1 .. Cardinality(places) :
           (CHOOSE k \in places : Cardinality({j \in places : j < k}) = p - 1) = i
  BY <1>3, PlacesAre
<1>5. PICK at : at = [p \in 1 .. Cardinality(places) |->
                        CHOOSE i \in places : Cardinality({j \in places : j < i}) = p - 1]
  OBVIOUS
<1>6. /\ \A p \in 1 .. Cardinality(places) : at[p] \in places
      /\ \A i \in places : \E p \in 1 .. Cardinality(places) : at[p] = i
  BY <1>4, <1>5
<1>7. KeysAt(keys, places) = [p \in 1 .. Cardinality(places) |-> keys[at[p]]]
  <2>1. PICK rank : rank = [i \in places |-> Cardinality({j \in places : j < i})]
    OBVIOUS
  <2>2. KeysAt(keys, places) = [p \in 1 .. Cardinality(places) |-> keys[CHOOSE i \in places : rank[i] = p - 1]]
    BY <2>1 DEF KeysAt
  <2>3. ASSUME NEW p \in 1 .. Cardinality(places)
        PROVE  at[p] = CHOOSE i \in places : rank[i] = p - 1
    BY <1>5, <2>1, <2>3
  <2>. QED  BY <2>2, <2>3
<1>8. PICK c \in Nat : c = Cardinality(places)
  BY <1>4
<1>9. KeysAt(keys, places) \in [1 .. c -> V]
  BY <1>2, <1>3, <1>6, <1>7, <1>8
<1>10. KeysAt(keys, places) \in Seq(V)
  BY <1>9
<1>11. ToSet(KeysAt(keys, places)) = {keys[i] : i \in places}
  <2>1. ToSet(KeysAt(keys, places)) = {keys[at[p]] : p \in 1 .. c}
    BY <1>7, <1>8 DEF ToSet
  <2>. QED  BY <1>6, <1>8, <2>1
<1>. QED  BY <1>10, <1>11

LEMMA KeysInAre ==
  ASSUME NEW V, NEW keys \in Seq(V), NEW S
  PROVE  KeysIn(keys, S) \in Seq(V) /\ ToSet(KeysIn(keys, S)) = ToSet(keys) \cap S
<1>1. PICK places : places = {i \in DOMAIN keys : keys[i] \in S}
  OBVIOUS
<1>2. places \in SUBSET DOMAIN keys
  BY <1>1
<1>3. KeysAt(keys, places) \in Seq(V) /\ ToSet(KeysAt(keys, places)) = {keys[i] : i \in places}
  BY <1>2, KeysAtAre
<1>4. KeysIn(keys, S) = KeysAt(keys, places)
  BY <1>1 DEF KeysIn
<1>5. {keys[i] : i \in places} = ToSet(keys) \cap S
  BY <1>1 DEF ToSet
<1>. QED  BY <1>3, <1>4, <1>5

\* No key is lost when each is kept where it first occurs.
LEMMA FirstPlacesAre ==
  ASSUME NEW V, NEW keys \in Seq(V)
  PROVE  FirstPlaces(keys) \in Seq(V) /\ ToSet(FirstPlaces(keys)) = ToSet(keys)
<1>1. PICK places : places = {i \in DOMAIN keys : \A j \in 1 .. i - 1 : keys[j] # keys[i]}
  OBVIOUS
<1>2. places \in SUBSET DOMAIN keys
  BY <1>1
<1>3. KeysAt(keys, places) \in Seq(V) /\ ToSet(KeysAt(keys, places)) = {keys[i] : i \in places}
  BY <1>2, KeysAtAre
<1>4. FirstPlaces(keys) = KeysAt(keys, places)
  BY <1>1 DEF FirstPlaces
<1>5. ASSUME NEW i \in DOMAIN keys
      PROVE  \E j \in places : keys[j] = keys[i]
  <2>1. PICK T : T = {j \in DOMAIN keys : keys[j] = keys[i]}
    OBVIOUS
  <2>2. T \in SUBSET Nat /\ T # {}
    BY <2>1
  <2>3. PICK j \in T : \A k \in T : j <= k
    BY <2>2, LeastNatural
  <2>4. j \in DOMAIN keys /\ keys[j] = keys[i]
    BY <2>1, <2>3
  <2>5. ASSUME NEW k \in 1 .. j - 1
        PROVE  keys[k] # keys[j]
    <3>1. k \in DOMAIN keys /\ ~(j <= k)
      BY <2>4
    <3>. QED  BY <2>1, <2>3, <2>4, <3>1
  <2>6. j \in places
    BY <1>1, <2>4, <2>5
  <2>. QED  BY <2>4, <2>6
<1>6. {keys[i] : i \in places} = ToSet(keys)
  BY <1>2, <1>5 DEF ToSet
<1>. QED  BY <1>3, <1>4, <1>6

LEMMA TogetherAre ==
  ASSUME NEW V, NEW s \in Seq(V), NEW t \in Seq(V)
  PROVE  s \o t \in Seq(V) /\ ToSet(s \o t) = ToSet(s) \cup ToSet(t)
<1>1. PICK m \in Nat, n \in Nat : m = Len(s) /\ n = Len(t)
  OBVIOUS
<1>2. s \o t \in Seq(V) /\ Len(s \o t) = m + n
  BY <1>1
<1>3. DOMAIN s = 1 .. m /\ DOMAIN t = 1 .. n /\ DOMAIN (s \o t) = 1 .. m + n
  BY <1>1, <1>2
<1>4. \A i \in 1 .. m : (s \o t)[i] = s[i]
  BY <1>1
<1>5. \A i \in 1 .. n : (s \o t)[m + i] = t[i]
  BY <1>1
<1>6. \A i \in 1 .. m + n : (s \o t)[i] \in ToSet(s) \cup ToSet(t)
  <2>1. ASSUME NEW i \in 1 .. m + n, ~(i \in 1 .. m)
        PROVE  (s \o t)[i] \in ToSet(t)
    <3>1. i - m \in 1 .. n /\ m + (i - m) = i
      BY <2>1
    <3>2. (s \o t)[i] = t[i - m]
      BY <1>5, <3>1
    <3>. QED  BY <1>3, <3>1, <3>2 DEF ToSet
  <2>2. ASSUME NEW i \in 1 .. m
        PROVE  (s \o t)[i] \in ToSet(s)
    BY <1>3, <1>4 DEF ToSet
  <2>. QED  BY <2>1, <2>2
<1>7. \A i \in 1 .. m : s[i] \in ToSet(s \o t)
  <2>1. \A i \in 1 .. m : i \in 1 .. m + n
    OBVIOUS
  <2>. QED  BY <1>3, <1>4, <2>1 DEF ToSet
<1>8. \A i \in 1 .. n : t[i] \in ToSet(s \o t)
  <2>1. \A i \in 1 .. n : m + i \in 1 .. m + n
    OBVIOUS
  <2>. QED  BY <1>3, <1>5, <2>1 DEF ToSet
<1>9. ToSet(s \o t) \subseteq ToSet(s) \cup ToSet(t)
  BY <1>3, <1>6 DEF ToSet
<1>10. ToSet(s) \subseteq ToSet(s \o t) /\ ToSet(t) \subseteq ToSet(s \o t)
  BY <1>3, <1>7, <1>8 DEF ToSet
<1>. QED  BY <1>2, <1>9, <1>10

LEMMA BinderKeysAre ==
  ASSUME NEW name, NEW positional
  PROVE  binder_keys(name, positional) \in Seq({name, Fold[name], positional})
<1>1. PICK V : V = {name, Fold[name], positional}
  OBVIOUS
<1>2. PICK spelt \in Seq(V) : spelt = IF Fold[name] = name THEN <<name>> ELSE <<name, Fold[name]>>
  <2>1. <<name>> \in Seq(V) /\ <<name, Fold[name]>> \in Seq(V)
    BY <1>1
  <2>. QED  BY <2>1
<1>3. Append(spelt, positional) \in Seq(V)
  BY <1>1, <1>2
<1>4. binder_keys(name, positional) = IF positional \in ToSet(spelt) THEN spelt ELSE Append(spelt, positional)
  BY <1>2 DEF binder_keys
<1>. QED  BY <1>1, <1>2, <1>3, <1>4

\* The left keys that stay fields, and the right keys that become fields.
Kept(la, nested, ra) == {k \in ToSet(la) \ nested : Fold[k] \notin Folded(ra)}
Promoted(names, la, scalar, paired) ==
  {k \in scalar \ Binders(names) : paired /\ Fold[k] \notin Folded(la)}

OpKeys(slots, op) == {slots[p].key : p \in {q \in DOMAIN slots : slots[q].op = op}}

\* Which keys a layout gives to which operation, other than a side as a whole.
SlotsFrom(slots, names, la, nested, ra, scalar, paired) ==
  /\ OpKeys(slots, "LeftNested") = nested \ Binders(names)
  /\ OpKeys(slots, "LeftSlot") = Kept(la, nested, ra) \ Binders(names)
  /\ OpKeys(slots, "RightSlot") = Promoted(names, la, scalar, paired)

LEMMA SlotsAre ==
  ASSUME NEW V, NEW names, NEW la \in Seq(V), NEW ra \in Seq(V), NEW nested \in SUBSET ToSet(la),
         NEW scalar \in SUBSET ToSet(ra), NEW paired
  PROVE  SlotsFrom(joined_layout(names, la, nested, ra, scalar, paired), names, la, nested, ra, scalar, paired)
<1>0. PICK slots : slots = joined_layout(names, la, nested, ra, scalar, paired)
  OBVIOUS
<1>1. PICK kept, promoted : /\ kept = Kept(la, nested, ra)
                            /\ promoted = Promoted(names, la, scalar, paired)
  OBVIOUS
<1>2. PICK lb, rb : lb = LeftBinders(names) /\ rb = RightBinders(names)
  OBVIOUS
<1>3. PICK keys : keys = FirstPlaces(KeysIn(la, nested) \o lb \o rb \o KeysIn(la, kept) \o KeysIn(ra, promoted))
  OBVIOUS
<1>4. PICK W : W = V \cup {names[1], names[2], Fold[names[1]], Fold[names[2]], "_1", "_2"}
  OBVIOUS
<1>5. la \in Seq(W) /\ ra \in Seq(W) /\ lb \in Seq(W) /\ rb \in Seq(W)
  <2>1. lb \in Seq({names[1], Fold[names[1]], "_1"}) /\ rb \in Seq({names[2], Fold[names[2]], "_2"})
    BY <1>2, BinderKeysAre DEF LeftBinders, RightBinders
  <2>. QED  BY <1>4, <2>1
<1>6. ToSet(keys) = (ToSet(la) \cap nested) \cup ToSet(lb) \cup ToSet(rb)
                      \cup (ToSet(la) \cap kept) \cup (ToSet(ra) \cap promoted)
  <2>1. PICK s1, s4, s5 : s1 = KeysIn(la, nested) /\ s4 = KeysIn(la, kept) /\ s5 = KeysIn(ra, promoted)
    OBVIOUS
  <2>2. /\ s1 \in Seq(W) /\ ToSet(s1) = ToSet(la) \cap nested
        /\ s4 \in Seq(W) /\ ToSet(s4) = ToSet(la) \cap kept
        /\ s5 \in Seq(W) /\ ToSet(s5) = ToSet(ra) \cap promoted
    BY <1>5, <2>1, KeysInAre
  <2>3. PICK s12 : s12 = s1 \o lb
    OBVIOUS
  <2>4. s12 \in Seq(W) /\ ToSet(s12) = ToSet(s1) \cup ToSet(lb)
    BY <1>5, <2>2, <2>3, TogetherAre
  <2>5. PICK s123 : s123 = s12 \o rb
    OBVIOUS
  <2>6. s123 \in Seq(W) /\ ToSet(s123) = ToSet(s12) \cup ToSet(rb)
    BY <1>5, <2>4, <2>5, TogetherAre
  <2>7. PICK s1234 : s1234 = s123 \o s4
    OBVIOUS
  <2>8. s1234 \in Seq(W) /\ ToSet(s1234) = ToSet(s123) \cup ToSet(s4)
    BY <2>2, <2>6, <2>7, TogetherAre
  <2>9. PICK all : all = s1234 \o s5
    OBVIOUS
  <2>10. all \in Seq(W) /\ ToSet(all) = ToSet(s1234) \cup ToSet(s5)
    BY <2>2, <2>8, <2>9, TogetherAre
  <2>11. keys = FirstPlaces(all)
    BY <1>3, <2>1, <2>3, <2>5, <2>7, <2>9
  <2>12. ToSet(keys) = ToSet(all)
    BY <2>10, <2>11, FirstPlacesAre
  <2>. QED  BY <2>2, <2>4, <2>6, <2>8, <2>10, <2>12
<1>7. PICK op : op = [k \in ToSet(keys) |->
                        CASE k \in ToSet(rb) -> "Right"
                          [] k \in ToSet(lb) \ ToSet(rb) -> "Left"
                          [] k \in nested \ Binders(names) -> "LeftNested"
                          [] k \in kept \ Binders(names) -> "LeftSlot"
                          [] OTHER -> "RightSlot"]
  OBVIOUS
<1>8. DOMAIN slots = DOMAIN keys /\ \A p \in DOMAIN keys : slots[p].key = keys[p] /\ slots[p].op = op[keys[p]]
  <2>1. slots = [p \in DOMAIN keys |->
                   [key |-> keys[p],
                    op |-> CASE keys[p] \in ToSet(rb) -> "Right"
                             [] keys[p] \in ToSet(lb) \ ToSet(rb) -> "Left"
                             [] keys[p] \in nested \ Binders(names) -> "LeftNested"
                             [] keys[p] \in kept \ Binders(names) -> "LeftSlot"
                             [] OTHER -> "RightSlot"]]
    BY <1>0, <1>1, <1>2, <1>3 DEF joined_layout, Kept, Promoted
  <2>2. \A p \in DOMAIN keys : keys[p] \in ToSet(keys)
    BY DEF ToSet
  <2>. QED  BY <1>7, <2>1, <2>2
<1>9. ASSUME NEW o
      PROVE  OpKeys(slots, o) = {k \in ToSet(keys) : op[k] = o}
  BY <1>8 DEF OpKeys, ToSet
<1>10. Binders(names) = ToSet(lb) \cup ToSet(rb)
  BY <1>2 DEF Binders
<1>11. kept \in SUBSET (ToSet(la) \ nested) /\ promoted \in SUBSET (scalar \ Binders(names))
  BY <1>1 DEF Kept, Promoted
<1>12. \A k \in promoted : k \notin ToSet(la)
  BY <1>1 DEF Promoted, Folded
<1>13. ToSet(keys) = nested \cup Binders(names) \cup kept \cup promoted
  BY <1>6, <1>10, <1>11
<1>14. ASSUME NEW k \in ToSet(keys)
       PROVE  /\ op[k] = "LeftNested" <=> k \in nested \ Binders(names)
              /\ op[k] = "LeftSlot" <=> k \in kept \ Binders(names)
              /\ op[k] = "RightSlot" <=> k \in promoted
  <2>1. CASE k \in ToSet(rb)
    <3>1. op[k] = "Right"
      BY <1>7, <1>10, <2>1
    <3>2. k \in Binders(names) /\ k \notin promoted
      BY <1>10, <1>11, <2>1
    <3>. QED  BY <3>1, <3>2
  <2>2. CASE k \in ToSet(lb) \ ToSet(rb)
    <3>1. op[k] = "Left"
      BY <1>7, <1>10, <2>2
    <3>2. k \in Binders(names) /\ k \notin promoted
      BY <1>10, <1>11, <2>2
    <3>. QED  BY <3>1, <3>2
  <2>3. CASE k \in nested \ Binders(names)
    <3>1. op[k] = "LeftNested"
      BY <1>7, <1>10, <1>11, <2>3
    <3>2. k \notin kept /\ k \notin promoted
      BY <1>11, <1>12, <2>3
    <3>. QED  BY <2>3, <3>1, <3>2
  <2>4. CASE k \in kept \ Binders(names)
    <3>1. k \notin nested /\ k \notin promoted
      BY <1>11, <1>12, <2>4
    <3>2. op[k] = "LeftSlot"
      BY <1>7, <1>10, <2>4, <3>1
    <3>. QED  BY <2>4, <3>1, <3>2
  <2>5. CASE k \in promoted
    <3>1. k \notin ToSet(la) /\ k \notin Binders(names)
      BY <1>11, <1>12, <2>5
    <3>2. k \notin nested /\ k \notin kept
      BY <1>11, <3>1
    <3>3. op[k] = "RightSlot"
      BY <1>7, <1>10, <3>1, <3>2
    <3>. QED  BY <2>5, <3>2, <3>3
  <2>. QED  BY <1>10, <1>13, <2>1, <2>2, <2>3, <2>4, <2>5
<1>15. OpKeys(slots, "LeftNested") = nested \ Binders(names)
  BY <1>9, <1>13, <1>14
<1>16. OpKeys(slots, "LeftSlot") = kept \ Binders(names)
  BY <1>9, <1>13, <1>14
<1>17. OpKeys(slots, "RightSlot") = promoted
  <2>1. OpKeys(slots, "RightSlot") = {k \in ToSet(keys) : op[k] = "RightSlot"}
    BY <1>9
  <2>2. promoted \subseteq ToSet(keys)
    BY <1>13
  <2>3. {k \in ToSet(keys) : op[k] = "RightSlot"} = {k \in ToSet(keys) : k \in promoted}
    BY <1>14
  <2>. QED  BY <2>1, <2>2, <2>3
<1>. QED  BY <1>0, <1>1, <1>15, <1>16, <1>17 DEF SlotsFrom

\* A layout depends on the right scalars only by those that become fields.
LEMMA SameLayout ==
  ASSUME NEW names, NEW la, NEW nested, NEW ra, NEW s, NEW t, NEW paired,
         Promoted(names, la, s, paired) = Promoted(names, la, t, paired)
  PROVE  joined_layout(names, la, nested, ra, s, paired) = joined_layout(names, la, nested, ra, t, paired)
<1>1. PICK promoted : promoted = Promoted(names, la, s, paired) /\ promoted = Promoted(names, la, t, paired)
  OBVIOUS
<1>2. /\ promoted = {k \in s \ Binders(names) : paired /\ Fold[k] \notin Folded(la)}
      /\ promoted = {k \in t \ Binders(names) : paired /\ Fold[k] \notin Folded(la)}
  BY <1>1 DEF Promoted
<1>. QED  BY <1>2 DEF joined_layout

-----------------------------------------------------------------------------
(* What a plan's checks say.                                                *)

WellRows == {t \in Row : DOMAIN t.at = ToSet(t.keys)}

PlanOf(names, a, b, m) ==
  LET slots == joined_layout(names, a.keys, Nested(a), b.keys, Scalar(b), m)
  IN  [pair |-> <<a.keys, b.keys, m>>, slots |-> slots, lrest |-> lrest(a, slots),
       rkept |-> IF m THEN {k \in DOMAIN b.at : Fold[k] \notin Folded(a.keys) /\ k \notin Binders(names)
                                                /\ ~is_scalar_field(b.at[k])}
                 ELSE {}]

\* What of the right row the layout depends on.
PromotedOf(names, a, b, m) == Promoted(names, a.keys, Scalar(b), m)

LEMMA RowIs ==
  ASSUME NEW a \in WellRows
  PROVE  /\ a.keys \in Seq(DOMAIN Fold) /\ a.shaped \in BOOLEAN /\ DOMAIN a.at = ToSet(a.keys)
         /\ Nested(a) \in SUBSET ToSet(a.keys) /\ Scalar(a) \in SUBSET ToSet(a.keys)
         /\ \A k \in ToSet(a.keys) : /\ is_left_nested(a.at[k]) <=> k \in Nested(a)
                                     /\ is_scalar_field(a.at[k]) <=> k \in Scalar(a)
<1>1. a.keys \in Seq(DOMAIN Fold) /\ a.shaped \in BOOLEAN /\ DOMAIN a.at = ToSet(a.keys)
  BY DEF WellRows, Row
<1>. QED  BY <1>1 DEF Nested, Scalar

\* The left fields that are given to no slot, and the right fields left out for
\* being no scalars.
LeftOut(a, given) == {<<k, is_left_nested(a.at[k])>> : k \in ToSet(a.keys) \ given}
NotScalar(names, a, b, m) ==
  {k \in ToSet(b.keys) : m /\ Fold[k] \notin Folded(a.keys) /\ k \notin Binders(names) /\ k \notin Scalar(b)}

\* The parts of a plan.
IsPlan(plan, names, a, b, m) == plan = PlanOf(names, a, b, m)
PlanParts(plan, names, a, b, m) ==
  /\ plan.pair = <<a.keys, b.keys, m>>
  /\ plan.slots = joined_layout(names, a.keys, Nested(a), b.keys, Scalar(b), m)
  /\ Op(plan, "LeftNested") = Nested(a) \ Binders(names)
  /\ Op(plan, "LeftSlot") = Kept(a.keys, Nested(a), b.keys) \ Binders(names)
  /\ Op(plan, "RightSlot") = PromotedOf(names, a, b, m)
  /\ plan.lrest = LeftOut(a, Op(plan, "LeftSlot") \cup Op(plan, "LeftNested"))
  /\ plan.rkept = NotScalar(names, a, b, m)

LEMMA PlanIs ==
  ASSUME NEW names, NEW a \in WellRows, NEW b \in WellRows, NEW m \in BOOLEAN, NEW plan, IsPlan(plan, names, a, b, m)
  PROVE  PlanParts(plan, names, a, b, m)
<1>1. PICK slots : slots = joined_layout(names, a.keys, Nested(a), b.keys, Scalar(b), m)
  OBVIOUS
<1>2. PICK kept : kept = {k \in DOMAIN b.at : Fold[k] \notin Folded(a.keys) /\ k \notin Binders(names)
                                              /\ ~is_scalar_field(b.at[k])}
  OBVIOUS
<1>3. plan = [pair |-> <<a.keys, b.keys, m>>, slots |-> slots, lrest |-> lrest(a, slots),
              rkept |-> IF m THEN kept ELSE {}]
  BY <1>1, <1>2 DEF IsPlan, PlanOf
<1>4. plan.pair = <<a.keys, b.keys, m>> /\ plan.slots = slots /\ plan.lrest = lrest(a, slots)
      /\ plan.rkept = IF m THEN kept ELSE {}
  BY <1>3
<1>5. \A op : Op(plan, op) = OpKeys(slots, op)
  BY <1>4 DEF Op, OpKeys
<1>6. /\ OpKeys(slots, "LeftNested") = Nested(a) \ Binders(names)
      /\ OpKeys(slots, "LeftSlot") = Kept(a.keys, Nested(a), b.keys) \ Binders(names)
      /\ OpKeys(slots, "RightSlot") = PromotedOf(names, a, b, m)
  <2>1. /\ a.keys \in Seq(DOMAIN Fold) /\ b.keys \in Seq(DOMAIN Fold)
        /\ Nested(a) \in SUBSET ToSet(a.keys) /\ Scalar(b) \in SUBSET ToSet(b.keys)
    BY RowIs
  <2>2. /\ OpKeys(slots, "LeftNested") = Nested(a) \ Binders(names)
        /\ OpKeys(slots, "LeftSlot") = Kept(a.keys, Nested(a), b.keys) \ Binders(names)
        /\ OpKeys(slots, "RightSlot") = Promoted(names, a.keys, Scalar(b), m)
    <3>1. SlotsFrom(joined_layout(names, a.keys, Nested(a), b.keys, Scalar(b), m),
                    names, a.keys, Nested(a), b.keys, Scalar(b), m)
      BY <2>1, SlotsAre
    <3>. QED  BY <1>1, <3>1 DEF SlotsFrom
  <2>. QED  BY <2>2 DEF PromotedOf
<1>7. plan.lrest = LeftOut(a, Op(plan, "LeftSlot") \cup Op(plan, "LeftNested"))
  <2>1. PICK given : given = {slots[p].key : p \in {q \in DOMAIN slots : slots[q].op \in {"LeftSlot", "LeftNested"}}}
    OBVIOUS
  <2>2. given = OpKeys(slots, "LeftSlot") \cup OpKeys(slots, "LeftNested")
    BY <2>1 DEF OpKeys
  <2>3. DOMAIN a.at = ToSet(a.keys)
    BY RowIs
  <2>4. lrest(a, slots) = {<<k, is_left_nested(a.at[k])>> : k \in ToSet(a.keys) \ given}
    BY <2>1, <2>3 DEF lrest
  <2>5. lrest(a, slots) = LeftOut(a, given)
    BY <2>4 DEF LeftOut
  <2>. QED  BY <1>4, <1>5, <2>2, <2>5
<1>8. plan.rkept = NotScalar(names, a, b, m)
  <2>1. /\ DOMAIN b.at = ToSet(b.keys)
        /\ \A k \in ToSet(b.keys) : is_scalar_field(b.at[k]) <=> k \in Scalar(b)
    BY RowIs
  <2>2. kept = {k \in ToSet(b.keys) : Fold[k] \notin Folded(a.keys) /\ k \notin Binders(names) /\ k \notin Scalar(b)}
    BY <1>2, <2>1
  <2>3. CASE m
    BY <1>4, <2>2, <2>3 DEF NotScalar
  <2>4. CASE ~m
    BY <1>4, <2>4 DEF NotScalar
  <2>. QED  BY <2>3, <2>4
<1>. QED  BY <1>1, <1>4, <1>5, <1>6, <1>7, <1>8 DEF PlanParts

\* Its checks of the left row and of the right one.
LeftFits(plan, a) ==
  /\ \A rest \in plan.lrest : is_left_nested(a.at[rest[1]]) = rest[2]
  /\ \A k \in Op(plan, "LeftSlot") : ~is_left_nested(a.at[k])
  /\ \A k \in Op(plan, "LeftNested") : is_left_nested(a.at[k])
RightFits(plan, b) ==
  /\ \A k \in plan.rkept : ~is_scalar_field(b.at[k])
  /\ \A k \in Op(plan, "RightSlot") : is_scalar_field(b.at[k])

SameKeys(t, u) == t.keys = u.keys

\* The left checks pass on the left rows whose fields are records where those of
\* the plan's own left row are.
LEMMA LeftFitsIs ==
  ASSUME NEW names, NEW a0 \in WellRows, NEW b0 \in WellRows, NEW m \in BOOLEAN, NEW plan,
         IsPlan(plan, names, a0, b0, m), NEW a \in WellRows, SameKeys(a, a0)
  PROVE  LeftFits(plan, a) <=> Nested(a) = Nested(a0)
<1>0. PlanParts(plan, names, a0, b0, m)
  BY PlanIs
<1>1. /\ Op(plan, "LeftNested") = Nested(a0) \ Binders(names)
      /\ Op(plan, "LeftSlot") = Kept(a0.keys, Nested(a0), b0.keys) \ Binders(names)
      /\ plan.lrest = LeftOut(a0, Op(plan, "LeftSlot") \cup Op(plan, "LeftNested"))
  BY <1>0 DEF PlanParts
<1>2. PICK S, N, L : S = Op(plan, "LeftSlot") /\ N = Op(plan, "LeftNested") /\ L = ToSet(a0.keys)
  OBVIOUS
<1>3. /\ Nested(a0) \in SUBSET L /\ Nested(a) \in SUBSET L
      /\ \A k \in L : /\ is_left_nested(a0.at[k]) <=> k \in Nested(a0)
                      /\ is_left_nested(a.at[k]) <=> k \in Nested(a)
  BY <1>2, RowIs DEF SameKeys
<1>4. N \subseteq Nested(a0) /\ S \subseteq L \ Nested(a0)
  BY <1>1, <1>2 DEF Kept
<1>5. LeftFits(plan, a) <=>
        /\ \A rest \in plan.lrest : is_left_nested(a.at[rest[1]]) = rest[2]
        /\ \A k \in S : ~is_left_nested(a.at[k])
        /\ \A k \in N : is_left_nested(a.at[k])
  BY <1>2 DEF LeftFits
<1>6. (\A rest \in plan.lrest : is_left_nested(a.at[rest[1]]) = rest[2])
        <=> \A k \in L \ (S \cup N) : is_left_nested(a.at[k]) = is_left_nested(a0.at[k])
  <2>1. plan.lrest = {<<k, is_left_nested(a0.at[k])>> : k \in L \ (S \cup N)}
    BY <1>1, <1>2 DEF LeftOut
  <2>2. ASSUME NEW k \in L \ (S \cup N), \A rest \in plan.lrest : is_left_nested(a.at[rest[1]]) = rest[2]
        PROVE  is_left_nested(a.at[k]) = is_left_nested(a0.at[k])
    <3>1. PICK rest : rest = <<k, is_left_nested(a0.at[k])>>
      OBVIOUS
    <3>2. rest \in plan.lrest
      BY <2>1, <3>1
    <3>3. is_left_nested(a.at[rest[1]]) = rest[2]
      BY <2>2, <3>2
    <3>. QED  BY <3>1, <3>3
  <2>3. ASSUME NEW rest \in plan.lrest, \A k \in L \ (S \cup N) : is_left_nested(a.at[k]) = is_left_nested(a0.at[k])
        PROVE  is_left_nested(a.at[rest[1]]) = rest[2]
    <3>1. PICK k \in L \ (S \cup N) : rest = <<k, is_left_nested(a0.at[k])>>
      BY <2>1
    <3>2. rest[1] = k /\ rest[2] = is_left_nested(a0.at[k])
      BY <3>1
    <3>. QED  BY <2>3, <3>2
  <2>. QED  BY <2>2, <2>3
<1>7. ASSUME Nested(a) = Nested(a0)
      PROVE  LeftFits(plan, a)
  <2>1. \A k \in L : is_left_nested(a.at[k]) <=> is_left_nested(a0.at[k])
    BY <1>3, <1>7
  <2>2. \A k \in L : is_left_nested(a.at[k]) = is_left_nested(a0.at[k])
    BY <2>1 DEF is_left_nested
  <2>3. (\A k \in S : ~is_left_nested(a.at[k])) /\ (\A k \in N : is_left_nested(a.at[k]))
    BY <1>3, <1>4, <1>7
  <2>. QED  BY <1>5, <1>6, <2>2, <2>3
<1>8. ASSUME LeftFits(plan, a)
      PROVE  Nested(a) = Nested(a0)
  <2>1. \A k \in L : is_left_nested(a.at[k]) <=> is_left_nested(a0.at[k])
    <3>1. ASSUME NEW k \in S
          PROVE  is_left_nested(a.at[k]) <=> is_left_nested(a0.at[k])
      BY <1>3, <1>4, <1>5, <1>8, <3>1
    <3>2. ASSUME NEW k \in N
          PROVE  is_left_nested(a.at[k]) <=> is_left_nested(a0.at[k])
      BY <1>3, <1>4, <1>5, <1>8, <3>2
    <3>3. ASSUME NEW k \in L \ (S \cup N)
          PROVE  is_left_nested(a.at[k]) <=> is_left_nested(a0.at[k])
      BY <1>5, <1>6, <1>8, <3>3
    <3>. QED  BY <3>1, <3>2, <3>3
  <2>2. \A k \in L : k \in Nested(a) <=> k \in Nested(a0)
    BY <1>3, <2>1
  <2>. QED  BY <1>3, <2>2
<1>. QED  BY <1>7, <1>8

\* The right checks pass on the right rows that have the same fields promoted.
LEMMA RightFitsIs ==
  ASSUME NEW names, NEW a0 \in WellRows, NEW b0 \in WellRows, NEW m \in BOOLEAN, NEW plan,
         IsPlan(plan, names, a0, b0, m), NEW a, SameKeys(a, a0), NEW b \in WellRows, SameKeys(b, b0)
  PROVE  RightFits(plan, b) <=> PromotedOf(names, a, b, m) = PromotedOf(names, a0, b0, m)
<1>0. PlanParts(plan, names, a0, b0, m)
  BY PlanIs
<1>1. /\ Op(plan, "RightSlot") = PromotedOf(names, a0, b0, m)
      /\ plan.rkept = NotScalar(names, a0, b0, m)
  BY <1>0 DEF PlanParts
<1>2. PICK R, P, P0 : R = ToSet(b0.keys) /\ P = PromotedOf(names, a, b, m) /\ P0 = PromotedOf(names, a0, b0, m)
  OBVIOUS
<1>3. /\ Scalar(b0) \in SUBSET R /\ Scalar(b) \in SUBSET R
      /\ \A k \in R : is_scalar_field(b.at[k]) <=> k \in Scalar(b)
  BY <1>2, RowIs DEF SameKeys
<1>4. PICK C : C = {k \in R : m /\ Fold[k] \notin Folded(a0.keys) /\ k \notin Binders(names)}
  OBVIOUS
<1>5. P0 = C \cap Scalar(b0) /\ P = C \cap Scalar(b) /\ plan.rkept = C \ Scalar(b0) /\ C \subseteq R
  BY <1>1, <1>2, <1>3, <1>4 DEF PromotedOf, Promoted, NotScalar, SameKeys
<1>6. RightFits(plan, b) <=>
        /\ \A k \in plan.rkept : ~is_scalar_field(b.at[k])
        /\ \A k \in P0 : is_scalar_field(b.at[k])
  BY <1>1, <1>2 DEF RightFits
<1>7. RightFits(plan, b) <=>
        /\ \A k \in C \ Scalar(b0) : k \notin Scalar(b)
        /\ \A k \in C \cap Scalar(b0) : k \in Scalar(b)
  BY <1>3, <1>5, <1>6
<1>8. RightFits(plan, b) <=> P = P0
  BY <1>5, <1>7
<1>. QED  BY <1>2, <1>8

\* A plan all of whose checks pass lays the rows out as they should be.
RowLayout(names, a, b, m) == joined_layout(names, a.keys, Nested(a), b.keys, Scalar(b), m)

LEMMA FittingPlan ==
  ASSUME NEW names, NEW a0 \in WellRows, NEW b0 \in WellRows, NEW m \in BOOLEAN, NEW plan,
         IsPlan(plan, names, a0, b0, m), NEW a \in WellRows, SameKeys(a, a0), NEW b \in WellRows, SameKeys(b, b0),
         LeftFits(plan, a), RightFits(plan, b)
  PROVE  plan.slots = RowLayout(names, a, b, m)
<1>0. PlanParts(plan, names, a0, b0, m)
  BY PlanIs
<1>1. Nested(a) = Nested(a0)
  <2>1. LeftFits(plan, a) <=> Nested(a) = Nested(a0)
    BY LeftFitsIs
  <2>. QED  BY <2>1
<1>2. PromotedOf(names, a, b, m) = PromotedOf(names, a0, b0, m)
  <2>1. RightFits(plan, b) <=> PromotedOf(names, a, b, m) = PromotedOf(names, a0, b0, m)
    BY RightFitsIs
  <2>. QED  BY <2>1
<1>3. a.keys = a0.keys /\ b.keys = b0.keys
  BY DEF SameKeys
<1>4. plan.slots = joined_layout(names, a0.keys, Nested(a0), b0.keys, Scalar(b0), m)
  BY <1>0 DEF PlanParts
<1>5. plan.slots = joined_layout(names, a.keys, Nested(a), b.keys, Scalar(b0), m)
  BY <1>1, <1>3, <1>4
<1>6. Promoted(names, a.keys, Scalar(b0), m) = Promoted(names, a.keys, Scalar(b), m)
  BY <1>2, <1>3 DEF PromotedOf
<1>7. joined_layout(names, a.keys, Nested(a), b.keys, Scalar(b0), m)
        = joined_layout(names, a.keys, Nested(a), b.keys, Scalar(b), m)
  BY <1>6, SameLayout
<1>. QED  BY <1>5, <1>7 DEF RowLayout

\* A plan that leaves no right field out for being no scalar fits flat right rows,
\* and one for a missing right row fits any.
FlatUnder(names, b) == \A k \in DOMAIN b.at \ Binders(names) : is_scalar_field(b.at[k])

LEMMA FlatFits ==
  ASSUME NEW names, NEW a0 \in WellRows, NEW b0 \in WellRows, NEW m \in BOOLEAN, NEW plan,
         IsPlan(plan, names, a0, b0, m), plan.rkept = {}, NEW b \in WellRows, SameKeys(b, b0),
         m => FlatUnder(names, b)
  PROVE  RightFits(plan, b)
<1>0. PlanParts(plan, names, a0, b0, m)
  BY PlanIs
<1>1. Op(plan, "RightSlot") = PromotedOf(names, a0, b0, m)
  BY <1>0 DEF PlanParts
<1>2. ToSet(b.keys) = DOMAIN b.at /\ Scalar(b0) \in SUBSET ToSet(b.keys)
  BY RowIs DEF SameKeys
<1>3. ASSUME NEW k \in Op(plan, "RightSlot")
      PROVE  is_scalar_field(b.at[k])
  <2>1. k \in Scalar(b0) \ Binders(names) /\ m
    BY <1>1 DEF PromotedOf, Promoted
  <2>. QED  BY <1>2, <2>1 DEF FlatUnder
<1>. QED  BY <1>3 DEF RightFits

\* Compiled for a flat right row, or for none, it leaves no such field out.
LEMMA FlatKeepsAll ==
  ASSUME NEW names, NEW a \in WellRows, NEW b \in WellRows, NEW m \in BOOLEAN, NEW plan,
         IsPlan(plan, names, a, b, m), m => FlatUnder(names, b)
  PROVE  plan.rkept = {}
<1>0. PlanParts(plan, names, a, b, m)
  BY PlanIs
<1>1. plan.rkept = NotScalar(names, a, b, m)
  BY <1>0 DEF PlanParts
<1>2. /\ ToSet(b.keys) = DOMAIN b.at
      /\ \A k \in ToSet(b.keys) : is_scalar_field(b.at[k]) <=> k \in Scalar(b)
  BY RowIs
<1>. QED  BY <1>1, <1>2 DEF FlatUnder, NotScalar

-----------------------------------------------------------------------------
(* The invariant.                                                           *)

Plan == {PlanOf(names, a, b, m) : names \in (DOMAIN Fold) \X (DOMAIN Fold), a \in WellRows, b \in WellRows, m \in BOOLEAN}

Typed ==
  /\ left \in Seq(WellRows) /\ right \in Seq(WellRows) /\ null_right \in WellRows
  /\ join \in [names : (DOMAIN Fold) \X (DOMAIN Fold), changes : SUBSET (FieldKind \X FieldKind),
               keyed : BOOLEAN, outer : BOOLEAN]
  /\ pc \in {"right", "left", "done"} /\ l \in Nat \ {0} /\ r \in Nat \ {0}
  /\ right_flat \in BOOLEAN /\ plans \in Seq(Plan)

Unwritten == join.changes = {}

\* A plan is compiled for two rows that none of the plans before it fits.
MadeFor(q, a, b, m) ==
  /\ IsPlan(plans[q], join.names, a, b, m)
  /\ \A p \in 1 .. q - 1 : plans[p].pair = plans[q].pair => ~(LeftFits(plans[p], a) /\ RightFits(plans[p], b))
PlansMade == \A q \in DOMAIN plans : \E a \in WellRows, b \in WellRows, m \in BOOLEAN : MadeFor(q, a, b, m)

\* While no right row is checked, all are flat, and so were those of each plan.
FlatRows == Unwritten /\ right_flat => \A j \in DOMAIN right : (pc = "right" => j < r) => is_flat(right[j])
FlatPlans == Unwritten /\ right_flat => \A q \in DOMAIN plans : plans[q].rkept = {}

\* The left row that is not checked again would pass.
SameLeftRow ==
  last_plan # 0 =>
    /\ last_plan \in DOMAIN plans /\ last_left \in DOMAIN left
    /\ Unwritten => LeftFits(plans[last_plan], left[last_left])

Projector == PlansMade /\ FlatPlans /\ SameLeftRow /\ ProjectedAsMade
Invariant == Typed /\ FlatRows /\ Projector

LEMMA LayoutIs ==
  ASSUME NEW a, NEW b, NEW m
  PROVE  Layout(a, b, m) = RowLayout(join.names, a, b, m) /\ IsPlan(compile_join_plan(a, b, m), join.names, a, b, m)
  BY DEF Layout, RowLayout, compile_join_plan, IsPlan, PlanOf, rkept

-----------------------------------------------------------------------------
(* A projection.                                                            *)

Reuses(p, i, b, m) ==
  /\ p \in DOMAIN plans /\ plans[p].pair = <<left[i].keys, b.keys, m>>
  /\ LeftFits(plans[p], left[i]) \/ (last_plan = p /\ last_left = i)
  /\ right_flat \/ RightFits(plans[p], b)

NoneFits(a, b, m) ==
  \A p \in DOMAIN plans : plans[p].pair = <<a.keys, b.keys, m>> => ~(LeftFits(plans[p], a) /\ RightFits(plans[p], b))

Built(slots, a, b, m, checked) == [slots |-> slots, made |-> Layout(a, b, m), checked |-> checked]

\* It lays the row out anew, uses a plan that it has, or compiles one.
LEMMA ProjectIs ==
  ASSUME Typed, SameLeftRow, NEW i \in DOMAIN left, NEW b \in WellRows, NEW m \in BOOLEAN, project(i, b, m)
  PROVE  \/ /\ out' = Built(Layout(left[i], b, m), left[i], b, m, TRUE)
            /\ plans' = plans /\ last_plan' = last_plan /\ last_left' = last_left
         \/ \E p \in DOMAIN plans, checked \in BOOLEAN :
              /\ Reuses(p, i, b, m)
              /\ checked => LeftFits(plans[p], left[i]) /\ RightFits(plans[p], b)
              /\ out' = Built(plans[p].slots, left[i], b, m, checked)
              /\ plans' = plans /\ last_plan' = p /\ last_left' = i
         \/ /\ NoneFits(left[i], b, m)
            /\ plans' = Append(plans, compile_join_plan(left[i], b, m))
            /\ out' = Built(compile_join_plan(left[i], b, m).slots, left[i], b, m, TRUE)
            /\ last_plan' = Len(plans) + 1 /\ last_left' = i
<1>1. PICK a : a = left[i]
  OBVIOUS
<1>2. PICK again \in BOOLEAN :
        again <=> /\ last_plan # 0 /\ plans[last_plan].pair = <<a.keys, b.keys, m>>
                  /\ Fits(plans[last_plan], a, b, last_left # i, ~right_flat)
  OBVIOUS
<1>3. PICK fitting : fitting = Fitting(a, b, m, ~right_flat)
  OBVIOUS
<1>4. a.shaped \in BOOLEAN /\ b.shaped \in BOOLEAN /\ right_flat \in BOOLEAN
  <2>1. a \in WellRows /\ right_flat \in BOOLEAN
    BY <1>1 DEF Typed
  <2>. QED  BY <2>1, RowIs
<1>5. \A p \in DOMAIN plans :
        p \in fitting <=> /\ plans[p].pair = <<a.keys, b.keys, m>>
                          /\ LeftFits(plans[p], a) /\ (right_flat \/ RightFits(plans[p], b))
  BY <1>3, <1>4 DEF Fitting, Fits, LeftFits, RightFits
<1>6. fitting \in SUBSET DOMAIN plans
  BY <1>3 DEF Fitting
<1>7. CASE ~(a.shaped /\ b.shaped)
  <2>1. /\ out' = [slots |-> Layout(a, b, m), made |-> Layout(a, b, m), checked |-> TRUE]
        /\ UNCHANGED <<plans, last_plan, last_left>>
    BY <1>1, <1>4, <1>7 DEF project
  <2>. QED  BY <1>1, <2>1 DEF Built
<1>8. CASE a.shaped /\ b.shaped /\ again
  <2>1. PICK checked \in BOOLEAN : checked <=> last_left # i /\ ~right_flat
    OBVIOUS
  <2>2. /\ out' = [slots |-> plans[last_plan].slots, made |-> Layout(a, b, m), checked |-> last_left # i /\ ~right_flat]
        /\ last_plan' = last_plan /\ last_left' = i /\ plans' = plans
    BY <1>1, <1>2, <1>4, <1>8 DEF project
  <2>3. out' = Built(plans[last_plan].slots, a, b, m, checked)
    BY <2>1, <2>2 DEF Built
  <2>4. /\ last_left # i => LeftFits(plans[last_plan], a)
        /\ ~right_flat => RightFits(plans[last_plan], b)
    BY <1>2, <1>8 DEF Fits, LeftFits, RightFits
  <2>5. last_plan \in DOMAIN plans
    BY <1>2, <1>8 DEF SameLeftRow
  <2>6. Reuses(last_plan, i, b, m)
    BY <1>1, <1>2, <1>4, <1>8, <2>4, <2>5 DEF Reuses
  <2>. QED  BY <1>1, <2>1, <2>2, <2>3, <2>4, <2>5, <2>6
<1>9. CASE a.shaped /\ b.shaped /\ ~again /\ fitting # {}
  <2>1. PICK p : p = CHOOSE k \in fitting : \A q \in fitting : k <= q
    OBVIOUS
  <2>2. p \in fitting
    <3>1. fitting \in SUBSET Nat
      BY <1>6 DEF Typed
    <3>2. \E k \in fitting : \A q \in fitting : k <= q
      BY <1>9, <3>1, LeastNatural
    <3>. QED  BY <2>1, <3>2
  <2>3. /\ out' = [slots |-> plans[p].slots, made |-> Layout(a, b, m), checked |-> ~right_flat]
        /\ last_plan' = p /\ last_left' = i /\ plans' = plans
    BY <1>1, <1>2, <1>3, <1>4, <1>9, <2>1 DEF project
  <2>4. PICK checked \in BOOLEAN : checked <=> ~right_flat
    OBVIOUS
  <2>5. out' = Built(plans[p].slots, a, b, m, checked)
    BY <2>3, <2>4 DEF Built
  <2>6. p \in DOMAIN plans
    BY <1>6, <2>2
  <2>7. Reuses(p, i, b, m)
    BY <1>1, <1>5, <2>2, <2>6 DEF Reuses
  <2>8. checked => LeftFits(plans[p], a) /\ RightFits(plans[p], b)
    BY <1>5, <2>2, <2>4, <2>6
  <2>. QED  BY <1>1, <2>3, <2>5, <2>6, <2>7, <2>8
<1>10. CASE a.shaped /\ b.shaped /\ ~again /\ fitting = {}
  <2>1. /\ out' = [slots |-> compile_join_plan(a, b, m).slots, made |-> Layout(a, b, m), checked |-> TRUE]
        /\ last_plan' = Len(plans) + 1 /\ last_left' = i /\ plans' = Append(plans, compile_join_plan(a, b, m))
    BY <1>1, <1>2, <1>3, <1>4, <1>10 DEF project
  <2>2. NoneFits(a, b, m)
    BY <1>5, <1>10 DEF NoneFits
  <2>. QED  BY <1>1, <2>1, <2>2 DEF Built
<1>. QED  BY <1>2, <1>4, <1>7, <1>8, <1>9, <1>10

\* The right row is flat where none is checked; one that stands for a missing row
\* need not be.
FlatWhenUnchecked(b, m) == Unwritten /\ right_flat /\ m => FlatUnder(join.names, b)

\* The plan it uses fits: what was not checked holds, unless a body wrote.
LEMMA ReusedFits ==
  ASSUME Typed, Projector, NEW i \in DOMAIN left, NEW b \in WellRows, NEW m \in BOOLEAN,
         FlatWhenUnchecked(b, m), NEW p, Reuses(p, i, b, m)
  PROVE  /\ Unwritten => LeftFits(plans[p], left[i]) /\ RightFits(plans[p], b)
         /\ LeftFits(plans[p], left[i]) /\ RightFits(plans[p], b) =>
              plans[p].slots = RowLayout(join.names, left[i], b, m)
<1>1. PICK a \in WellRows : a = left[i]
  BY DEF Typed
<1>2. p \in DOMAIN plans /\ plans[p].pair = <<a.keys, b.keys, m>>
  BY <1>1 DEF Reuses
<1>3. PICK a0 \in WellRows, b0 \in WellRows, m0 \in BOOLEAN : IsPlan(plans[p], join.names, a0, b0, m0)
  BY <1>2 DEF Projector, PlansMade, MadeFor
<1>4. PICK plan : plan = plans[p]
  OBVIOUS
<1>5. PlanParts(plan, join.names, a0, b0, m0)
  BY <1>3, <1>4, PlanIs
<1>6. m0 = m /\ SameKeys(a, a0) /\ SameKeys(b, b0)
  BY <1>2, <1>4, <1>5 DEF PlanParts, SameKeys
<1>7. IsPlan(plan, join.names, a0, b0, m)
  BY <1>3, <1>4, <1>6
<1>8. ASSUME Unwritten
      PROVE  LeftFits(plan, a) /\ RightFits(plan, b)
  <2>1. LeftFits(plan, a)
    <3>1. p # 0
      BY <1>2 DEF Typed
    <3>2. CASE last_plan = p /\ last_left = i
      BY <1>1, <1>4, <1>8, <3>1, <3>2 DEF Projector, SameLeftRow
    <3>. QED  BY <1>1, <1>4, <3>2 DEF Reuses
  <2>2. CASE right_flat
    <3>1. plan.rkept = {}
      BY <1>2, <1>4, <1>8, <2>2 DEF Projector, FlatPlans
    <3>2. m => FlatUnder(join.names, b)
      BY <1>8, <2>2 DEF FlatWhenUnchecked
    <3>3. RightFits(plan, b)
      BY <1>6, <1>7, <3>1, <3>2, FlatFits
    <3>. QED  BY <2>1, <3>3
  <2>3. CASE ~right_flat
    BY <1>4, <2>1, <2>3 DEF Reuses
  <2>. QED  BY <2>2, <2>3
<1>9. ASSUME LeftFits(plan, a), RightFits(plan, b)
      PROVE  plan.slots = RowLayout(join.names, a, b, m)
  BY <1>6, <1>7, <1>9, FittingPlan
<1>. QED  BY <1>1, <1>4, <1>8, <1>9

LEMMA PlansKept ==
  ASSUME PlansMade, plans' = plans, join' = join
  PROVE  PlansMade'
BY DEF PlansMade, MadeFor

LEMMA ProjectStep ==
  ASSUME Typed, Projector, NEW i \in DOMAIN left, NEW b \in WellRows, NEW m \in BOOLEAN,
         FlatWhenUnchecked(b, m), project(i, b, m), UNCHANGED <<left, right, join, right_flat>>
  PROVE  Projector' /\ plans' \in Seq(Plan)
<1>1. PICK a \in WellRows : a = left[i]
  BY DEF Typed
<1>2. PlansMade /\ FlatPlans /\ SameLeftRow
  BY DEF Projector
<1>3. Layout(a, b, m) = RowLayout(join.names, a, b, m) /\ IsPlan(compile_join_plan(a, b, m), join.names, a, b, m)
  BY LayoutIs
<1>4. ASSUME out' = Built(Layout(a, b, m), a, b, m, TRUE),
             plans' = plans, last_plan' = last_plan, last_left' = last_left
      PROVE  Projector' /\ plans' \in Seq(Plan)
  <2>1. PlansMade'
    BY <1>2, <1>4, PlansKept
  <2>2. FlatPlans' /\ SameLeftRow'
    BY <1>2, <1>4 DEF FlatPlans, SameLeftRow, Unwritten
  <2>3. ProjectedAsMade'
    BY <1>4 DEF ProjectedAsMade, Built
  <2>. QED  BY <1>4, <2>1, <2>2, <2>3 DEF Projector, Typed
<1>5. ASSUME NEW p \in DOMAIN plans, NEW checked \in BOOLEAN, Reuses(p, i, b, m),
             checked => LeftFits(plans[p], a) /\ RightFits(plans[p], b),
             out' = Built(plans[p].slots, a, b, m, checked),
             plans' = plans, last_plan' = p, last_left' = i
      PROVE  Projector' /\ plans' \in Seq(Plan)
  <2>1. /\ Unwritten => LeftFits(plans[p], a) /\ RightFits(plans[p], b)
        /\ LeftFits(plans[p], a) /\ RightFits(plans[p], b) => plans[p].slots = RowLayout(join.names, a, b, m)
    BY <1>1, <1>5, ReusedFits
  <2>2. PlansMade'
    BY <1>2, <1>5, PlansKept
  <2>3. FlatPlans'
    BY <1>2, <1>5 DEF FlatPlans, Unwritten
  <2>4. SameLeftRow'
    BY <1>1, <1>5, <2>1 DEF SameLeftRow, Unwritten
  <2>5. ProjectedAsMade'
    <3>1. out'.slots = plans[p].slots /\ out'.made = Layout(a, b, m) /\ out'.checked = checked
      BY <1>5 DEF Built
    <3>2. checked \/ Unwritten => plans[p].slots = Layout(a, b, m)
      BY <1>3, <1>5, <2>1
    <3>. QED  BY <3>1, <3>2 DEF ProjectedAsMade, Unwritten
  <2>. QED  BY <1>5, <2>2, <2>3, <2>4, <2>5 DEF Projector, Typed
<1>6. ASSUME NoneFits(a, b, m), plans' = Append(plans, compile_join_plan(a, b, m)),
             out' = Built(compile_join_plan(a, b, m).slots, a, b, m, TRUE),
             last_plan' = Len(plans) + 1, last_left' = i
      PROVE  Projector' /\ plans' \in Seq(Plan)
  <2>1. PICK plan : plan = compile_join_plan(a, b, m)
    OBVIOUS
  <2>2. IsPlan(plan, join.names, a, b, m)
    BY <1>3, <2>1
  <2>3. PlanParts(plan, join.names, a, b, m)
    BY <2>2, PlanIs
  <2>4. plan \in Plan
    <3>1. join.names \in (DOMAIN Fold) \X (DOMAIN Fold)
      BY DEF Typed
    <3>. QED  BY <2>2, <3>1 DEF IsPlan, Plan
  <2>5. PICK n \in Nat : n = Len(plans)
    BY DEF Typed
  <2>6. plans \in Seq(Plan) /\ DOMAIN plans = 1 .. n
    BY <2>5 DEF Typed
  <2>7. /\ plans' \in Seq(Plan) /\ DOMAIN plans' = 1 .. n + 1
        /\ plans'[n + 1] = plan /\ \A q \in 1 .. n : plans'[q] = plans[q]
    BY <1>6, <2>1, <2>4, <2>5, <2>6
  <2>8. LeftFits(plan, a) /\ RightFits(plan, b)
    <3>1. SameKeys(a, a) /\ SameKeys(b, b)
      BY DEF SameKeys
    <3>2. LeftFits(plan, a) <=> Nested(a) = Nested(a)
      BY <2>2, <3>1, LeftFitsIs
    <3>3. RightFits(plan, b) <=> PromotedOf(join.names, a, b, m) = PromotedOf(join.names, a, b, m)
      BY SMTT(30), <2>2, <3>1, RightFitsIs
    <3>. QED  BY <3>2, <3>3
  <2>9. PlansMade'
    <3>1. ASSUME NEW q \in 1 .. n
          PROVE  \E a0 \in WellRows, b0 \in WellRows, m0 \in BOOLEAN : MadeFor(q, a0, b0, m0)'
      <4>1. PICK a0 \in WellRows, b0 \in WellRows, m0 \in BOOLEAN : MadeFor(q, a0, b0, m0)
        BY <1>2, <2>6 DEF PlansMade
      <4>2. \A p \in 1 .. q - 1 : p \in 1 .. n
        OBVIOUS
      <4>3. MadeFor(q, a0, b0, m0)'
        BY <2>7, <4>1, <4>2 DEF MadeFor
      <4>. QED  BY <4>3
    <3>2. MadeFor(n + 1, a, b, m)'
      <4>1. \A p \in 1 .. n + 1 - 1 : p \in 1 .. n
        OBVIOUS
      <4>2. plan.pair = <<a.keys, b.keys, m>>
        BY <2>3 DEF PlanParts
      <4>3. \A p \in 1 .. n : plans[p].pair = <<a.keys, b.keys, m>> => ~(LeftFits(plans[p], a) /\ RightFits(plans[p], b))
        BY <1>6, <2>6 DEF NoneFits
      <4>. QED  BY <2>2, <2>7, <4>1, <4>2, <4>3 DEF MadeFor
    <3>3. ASSUME NEW q \in DOMAIN plans'
          PROVE  \E a0 \in WellRows, b0 \in WellRows, m0 \in BOOLEAN : MadeFor(q, a0, b0, m0)'
      <4>1. q \in 1 .. n \/ q = n + 1
        BY <2>7
      <4>. QED  BY <3>1, <3>2, <4>1
    <3>. QED  BY <3>3 DEF PlansMade
  <2>10. FlatPlans'
    <3>1. ASSUME Unwritten, right_flat
          PROVE  plan.rkept = {}
      <4>1. m => FlatUnder(join.names, b)
        BY <3>1 DEF FlatWhenUnchecked
      <4>. QED  BY <2>2, <4>1, FlatKeepsAll
    <3>2. ASSUME Unwritten, right_flat, NEW q \in DOMAIN plans'
          PROVE  plans'[q].rkept = {}
      <4>1. q \in 1 .. n \/ q = n + 1
        BY <2>7
      <4>2. ASSUME q \in 1 .. n
            PROVE  plans'[q].rkept = {}
        BY <1>2, <2>6, <2>7, <3>2, <4>2 DEF FlatPlans
      <4>. QED  BY <2>7, <3>1, <3>2, <4>1, <4>2
    <3>. QED  BY <3>2 DEF FlatPlans, Unwritten
  <2>11. SameLeftRow'
    <3>1. last_plan' = n + 1 /\ last_plan' \in DOMAIN plans'
      BY <1>6, <2>5, <2>7
    <3>. QED  BY <1>1, <1>6, <2>7, <2>8, <3>1 DEF SameLeftRow
  <2>12. ProjectedAsMade'
    <3>1. plan.slots = Layout(a, b, m)
      BY <1>3, <2>3 DEF PlanParts, RowLayout
    <3>. QED  BY <1>6, <2>1, <3>1 DEF ProjectedAsMade, Built
  <2>. QED  BY <2>7, <2>9, <2>10, <2>11, <2>12 DEF Projector
<1>7. \/ /\ out' = Built(Layout(a, b, m), a, b, m, TRUE)
         /\ plans' = plans /\ last_plan' = last_plan /\ last_left' = last_left
      \/ \E p \in DOMAIN plans, checked \in BOOLEAN :
           /\ Reuses(p, i, b, m)
           /\ checked => LeftFits(plans[p], a) /\ RightFits(plans[p], b)
           /\ out' = Built(plans[p].slots, a, b, m, checked)
           /\ plans' = plans /\ last_plan' = p /\ last_left' = i
      \/ /\ NoneFits(a, b, m)
         /\ plans' = Append(plans, compile_join_plan(a, b, m))
         /\ out' = Built(compile_join_plan(a, b, m).slots, a, b, m, TRUE)
         /\ last_plan' = Len(plans) + 1 /\ last_left' = i
  BY <1>1, <1>2, ProjectIs
<1>. QED  BY <1>4, <1>5, <1>6, <1>7

-----------------------------------------------------------------------------
(* The actions.                                                             *)

\* The record for a missing right row is a row.
LEMMA NullRowIs ==
  ASSUME right \in Seq(WellRows)
  PROVE  make_null_record \in WellRows
<1>1. CASE right = <<>>
  <2>1. PICK t : t = [keys |-> <<>>, at |-> <<>>, shaped |-> FALSE]
    OBVIOUS
  <2>2. <<>> \in [{} -> FieldKind]
    OBVIOUS
  <2>3. <<>> \in UNION {[K -> FieldKind] : K \in SUBSET DOMAIN Fold}
    BY <2>2
  <2>4. t \in Row /\ t.at = <<>> /\ t.keys = <<>>
    <3>1. PICK none : none = <<>>
      OBVIOUS
    <3>2. none \in Seq(DOMAIN Fold)
      BY <3>1
    <3>4. none \in UNION {[K -> FieldKind] : K \in SUBSET DOMAIN Fold}
      BY <2>3, <3>1
    <3>3. t = [keys |-> none, at |-> none, shaped |-> FALSE]
      BY <2>1, <3>1
    <3>. QED  BY <3>1, <3>2, <3>3, <3>4 DEF Row
  <2>5. DOMAIN t.at = ToSet(t.keys)
    BY <2>4 DEF ToSet
  <2>. QED  BY <1>1, <2>1, <2>4, <2>5 DEF make_null_record, WellRows
<1>2. CASE right # <<>>
  <2>1. PICK u \in WellRows : u = right[1]
    BY <1>2
  <2>2. PICK t : t = [keys |-> u.keys, at |-> [k \in DOMAIN u.at |-> "null"], shaped |-> TRUE]
    OBVIOUS
  <2>3. u.keys \in Seq(DOMAIN Fold) /\ DOMAIN u.at = ToSet(u.keys)
    BY RowIs
  <2>4. DOMAIN u.at \in SUBSET DOMAIN Fold
    BY <2>3 DEF ToSet
  <2>5. t.keys = u.keys /\ t.at \in [DOMAIN u.at -> FieldKind] /\ DOMAIN t.at = DOMAIN u.at
    BY <2>2 DEF FieldKind
  <2>6. t.at \in UNION {[K -> FieldKind] : K \in SUBSET DOMAIN Fold}
    BY <2>4, <2>5
  <2>7. t \in Row
    BY <2>2, <2>3, <2>5, <2>6 DEF Row
  <2>. QED  BY <1>2, <2>1, <2>2, <2>3, <2>5, <2>7 DEF make_null_record, WellRows
<1>. QED  BY <1>1, <1>2

LEMMA InvariantInit == Init => Invariant
<1>. SUFFICES ASSUME Init PROVE Invariant
  OBVIOUS
<1>1. PICK c \in Cases : /\ left \in c.left /\ right \in c.right
                         /\ join \in [names : {c.names}, changes : {c.changes}, keyed : BOOLEAN, outer : BOOLEAN]
  BY DEF Init
<1>2. /\ c.names \in (DOMAIN Fold) \X (DOMAIN Fold) /\ c.changes \in SUBSET (FieldKind \X FieldKind)
      /\ \A t \in c.left \cup c.right :
           t \in Seq(Row) /\ \A i \in DOMAIN t : DOMAIN t[i].at = ToSet(t[i].keys)
  BY CasesAssumption
<1>3. ASSUME NEW t \in c.left \cup c.right
      PROVE  t \in Seq(WellRows)
  <2>1. PICK n \in Nat : n = Len(t)
    BY <1>2
  <2>2. DOMAIN t = 1 .. n /\ t \in [1 .. n -> Row] /\ \A i \in 1 .. n : DOMAIN t[i].at = ToSet(t[i].keys)
    BY <1>2, <2>1
  <2>3. t \in [1 .. n -> WellRows]
    BY <2>2 DEF WellRows
  <2>. QED  BY <2>3
<1>4. left \in Seq(WellRows) /\ right \in Seq(WellRows)
  BY <1>1, <1>3
<1>5. join \in [names : (DOMAIN Fold) \X (DOMAIN Fold), changes : SUBSET (FieldKind \X FieldKind),
                keyed : BOOLEAN, outer : BOOLEAN]
  BY <1>1, <1>2
<1>6. null_right \in WellRows
  BY <1>4, NullRowIs DEF Init
<1>7. Typed
  BY <1>4, <1>5, <1>6 DEF Init, Typed
<1>8. FlatRows
  BY <1>4 DEF Init, FlatRows
<1>9. Projector
  BY DEF Init, Projector, PlansMade, FlatPlans, SameLeftRow, ProjectedAsMade
<1>. QED  BY <1>7, <1>8, <1>9 DEF Invariant

LEMMA WriteStep ==
  ASSUME Invariant, Write
  PROVE  Invariant'
<1>1. Typed /\ FlatRows /\ Projector
  BY DEF Invariant
<1>2. UNCHANGED <<join, pc, l, r, null_right, right_flat, plans, last_plan, last_left, out>> /\ ~Unwritten
  BY DEF Write, Unwritten
<1>3. ASSUME NEW t \in WellRows, NEW k \in DOMAIN t.at, NEW kind \in FieldKind
      PROVE  Changed(t, k, kind) \in WellRows
  <2>1. PICK u : u = Changed(t, k, kind)
    OBVIOUS
  <2>2. t \in Row /\ DOMAIN t.at = ToSet(t.keys)
    BY DEF WellRows
  <2>3. PICK K \in SUBSET DOMAIN Fold : t.at \in [K -> FieldKind]
    BY <2>2 DEF Row
  <2>4. PICK f : f = [t.at EXCEPT ![k] = kind]
    OBVIOUS
  <2>5. f \in [K -> FieldKind] /\ DOMAIN f = DOMAIN t.at
    BY <2>3, <2>4
  <2>6. f \in UNION {[K1 -> FieldKind] : K1 \in SUBSET DOMAIN Fold}
    BY <2>5
  <2>7. u = [t EXCEPT !.at = f]
    BY <2>1, <2>4 DEF Changed
  <2>8. u \in Row /\ u.at = f /\ u.keys = t.keys
    BY <2>2, <2>6, <2>7 DEF Row
  <2>. QED  BY <2>1, <2>2, <2>5, <2>8 DEF WellRows
<1>4. ASSUME \E i \in DOMAIN left : \E k \in DOMAIN left[i].at, kind \in FieldKind :
               left' = [left EXCEPT ![i] = Changed(@, k, kind)] /\ UNCHANGED right
      PROVE  left' \in Seq(WellRows) /\ DOMAIN left' = DOMAIN left /\ right' = right
  <2>1. PICK i \in DOMAIN left : \E k \in DOMAIN left[i].at, kind \in FieldKind :
               left' = [left EXCEPT ![i] = Changed(@, k, kind)] /\ UNCHANGED right
    BY <1>4
  <2>2. PICK k \in DOMAIN left[i].at, kind \in FieldKind :
               left' = [left EXCEPT ![i] = Changed(@, k, kind)] /\ UNCHANGED right
    BY <2>1
  <2>3. PICK t : t = Changed(left[i], k, kind)
    OBVIOUS
  <2>4. t \in WellRows
    BY <1>1, <1>3, <2>3 DEF Typed
  <2>5. left' = [left EXCEPT ![i] = t]
    BY <2>2, <2>3
  <2>6. left' \in Seq(WellRows) /\ DOMAIN left' = DOMAIN left
    BY <1>1, <2>4, <2>5 DEF Typed
  <2>. QED  BY <2>2, <2>6
<1>5. ASSUME \E i \in DOMAIN right : \E k \in DOMAIN right[i].at, kind \in FieldKind :
               right' = [right EXCEPT ![i] = Changed(@, k, kind)] /\ UNCHANGED left
      PROVE  right' \in Seq(WellRows) /\ DOMAIN right' = DOMAIN right /\ left' = left
  <2>1. PICK i \in DOMAIN right : \E k \in DOMAIN right[i].at, kind \in FieldKind :
               right' = [right EXCEPT ![i] = Changed(@, k, kind)] /\ UNCHANGED left
    BY <1>5
  <2>2. PICK k \in DOMAIN right[i].at, kind \in FieldKind :
               right' = [right EXCEPT ![i] = Changed(@, k, kind)] /\ UNCHANGED left
    BY <2>1
  <2>3. PICK t : t = Changed(right[i], k, kind)
    OBVIOUS
  <2>4. t \in WellRows
    BY <1>1, <1>3, <2>3 DEF Typed
  <2>5. right' = [right EXCEPT ![i] = t]
    BY <2>2, <2>3
  <2>6. right' \in Seq(WellRows) /\ DOMAIN right' = DOMAIN right
    BY <1>1, <2>4, <2>5 DEF Typed
  <2>. QED  BY <2>2, <2>6
<1>6. left' \in Seq(WellRows) /\ right' \in Seq(WellRows) /\ DOMAIN left' = DOMAIN left /\ DOMAIN right' = DOMAIN right
  <2>1. \/ \E i \in DOMAIN left : \E k \in DOMAIN left[i].at, kind \in FieldKind :
             left' = [left EXCEPT ![i] = Changed(@, k, kind)] /\ UNCHANGED right
        \/ \E i \in DOMAIN right : \E k \in DOMAIN right[i].at, kind \in FieldKind :
             right' = [right EXCEPT ![i] = Changed(@, k, kind)] /\ UNCHANGED left
    BY DEF Write
  <2>2. left \in Seq(WellRows) /\ right \in Seq(WellRows)
    BY <1>1 DEF Typed
  <2>3. \/ left' \in Seq(WellRows) /\ DOMAIN left' = DOMAIN left /\ right' = right
        \/ right' \in Seq(WellRows) /\ DOMAIN right' = DOMAIN right /\ left' = left
    BY <1>4, <1>5, <2>1
  <2>. QED  BY <2>2, <2>3
<1>7. Typed' /\ FlatRows'
  BY <1>1, <1>2, <1>6 DEF Typed, FlatRows, Unwritten
<1>8. PlansMade'
  BY <1>1, <1>2, PlansKept DEF Projector
<1>9. FlatPlans' /\ SameLeftRow' /\ ProjectedAsMade'
  BY <1>1, <1>2, <1>6 DEF Projector, FlatPlans, SameLeftRow, ProjectedAsMade, Unwritten
<1>. QED  BY <1>7, <1>8, <1>9 DEF Invariant, Projector

LEMMA TestRightStep ==
  ASSUME Invariant, TestRight
  PROVE  Invariant'
<1>1. Typed /\ FlatRows /\ Projector
  BY DEF Invariant
<1>2. /\ pc = "right" /\ right_flat' = (right_flat /\ is_flat(right[r]))
      /\ \/ r < Len(right) /\ r' = r + 1 /\ pc' = pc
         \/ ~(r < Len(right)) /\ r' = 1 /\ pc' = "left"
      /\ UNCHANGED <<left, right, join, l, null_right, plans, last_plan, last_left, out>>
  BY DEF TestRight
<1>3. Typed'
  BY <1>1, <1>2 DEF Typed
<1>4. FlatRows'
  <2>1. \A t : is_flat(t)' <=> is_flat(t)
    BY <1>2 DEF is_flat
  <2>2. ASSUME Unwritten', right_flat', NEW j \in DOMAIN right', pc' = "right" => j < r'
        PROVE  is_flat(right[j])
    <3>1. Unwritten /\ right_flat /\ is_flat(right[r]) /\ j \in DOMAIN right
      BY <1>2, <2>2 DEF Unwritten
    <3>2. j \in 1 .. Len(right) /\ Len(right) \in Nat /\ r \in Nat
      BY <1>1, <3>1 DEF Typed
    <3>3. j < r \/ j = r
      BY <1>2, <2>2, <3>2
    <3>. QED  BY <1>1, <3>1, <3>3 DEF FlatRows
  <2>. QED  BY <1>2, <2>1, <2>2 DEF FlatRows
<1>5. PlansMade'
  BY <1>1, <1>2, PlansKept DEF Projector
<1>6. FlatPlans' /\ SameLeftRow' /\ ProjectedAsMade'
  BY <1>1, <1>2 DEF Projector, FlatPlans, SameLeftRow, ProjectedAsMade, Unwritten
<1>. QED  BY <1>3, <1>4, <1>5, <1>6 DEF Invariant, Projector

\* A right row that is looked at, or the record for a missing one, is flat where
\* no right row is checked.
LEMMA LookedAtIsFlat ==
  ASSUME Typed, FlatRows, pc = "left", NEW b \in WellRows, NEW m \in BOOLEAN,
         m => \E j \in DOMAIN right : b = right[j]
  PROVE  FlatWhenUnchecked(b, m)
BY DEF FlatRows, FlatWhenUnchecked, FlatUnder, is_flat

LEMMA FlatRowsKept ==
  ASSUME FlatRows, pc = "left", pc' # "right", UNCHANGED <<right, join, right_flat>>
  PROVE  FlatRows'
<1>1. \A t : is_flat(t)' <=> is_flat(t)
  BY DEF is_flat
<1>2. Unwritten /\ right_flat => \A j \in DOMAIN right : is_flat(right[j])
  BY DEF FlatRows
<1>. QED  BY <1>1, <1>2 DEF FlatRows, Unwritten

\* Nothing that it keeps changes when nothing is projected.
LEMMA NoProjection ==
  ASSUME Projector, UNCHANGED <<left, right, join, right_flat, plans, last_plan, last_left, out>>
  PROVE  Projector'
<1>1. PlansMade'
  BY PlansKept DEF Projector
<1>. QED  BY <1>1 DEF Projector, FlatPlans, SameLeftRow, ProjectedAsMade, Unwritten

LEMMA PairStep ==
  ASSUME Invariant, Pair
  PROVE  Invariant'
<1>1. Typed /\ FlatRows /\ Projector
  BY DEF Invariant
<1>2. /\ pc = "left" /\ l <= Len(left) /\ r <= Len(right) /\ r' = r + 1
      /\ UNCHANGED <<left, right, join, pc, l, null_right, right_flat>>
      /\ project(l, right[r], TRUE) \/ UNCHANGED <<plans, last_plan, last_left, out>>
  BY DEF Pair
<1>3. l \in DOMAIN left /\ r \in DOMAIN right /\ right[r] \in WellRows
  BY <1>1, <1>2 DEF Typed
<1>4. Projector' /\ plans' \in Seq(Plan)
  <2>1. CASE project(l, right[r], TRUE)
    <3>1. PICK b \in WellRows, m \in BOOLEAN : b = right[r] /\ m = TRUE
      BY <1>3
    <3>2. FlatWhenUnchecked(b, m)
      BY <1>1, <1>2, <1>3, <3>1, LookedAtIsFlat
    <3>3. project(l, b, m)
      BY <2>1, <3>1
    <3>. QED  BY <1>1, <1>2, <1>3, <3>2, <3>3, ProjectStep
  <2>2. CASE UNCHANGED <<plans, last_plan, last_left, out>>
    <3>1. Projector'
      BY <1>1, <1>2, <2>2, NoProjection
    <3>. QED  BY <1>1, <2>2, <3>1 DEF Typed
  <2>. QED  BY <1>2, <2>1, <2>2
<1>5. Typed'
  BY <1>1, <1>2, <1>4 DEF Typed
<1>6. FlatRows'
  BY <1>1, <1>2, FlatRowsKept
<1>. QED  BY <1>4, <1>5, <1>6 DEF Invariant

LEMMA NextLeftStep ==
  ASSUME Invariant, NextLeft
  PROVE  Invariant'
<1>1. Typed /\ FlatRows /\ Projector
  BY DEF Invariant
<1>2. /\ pc = "left" /\ l <= Len(left) /\ r' = 1 /\ l' = l + 1 /\ pc' \in {"done", "left"}
      /\ UNCHANGED <<left, right, join, null_right, right_flat>>
      /\ project(l, null_right, FALSE) \/ UNCHANGED <<plans, last_plan, last_left, out>>
  BY DEF NextLeft
<1>3. l \in DOMAIN left /\ null_right \in WellRows
  BY <1>1, <1>2 DEF Typed
<1>4. Projector' /\ plans' \in Seq(Plan)
  <2>1. CASE project(l, null_right, FALSE)
    <3>1. PICK b \in WellRows, m \in BOOLEAN : b = null_right /\ m = FALSE
      BY <1>3
    <3>2. FlatWhenUnchecked(b, m)
      BY <3>1 DEF FlatWhenUnchecked
    <3>3. project(l, b, m)
      BY <2>1, <3>1
    <3>. QED  BY <1>1, <1>2, <1>3, <3>2, <3>3, ProjectStep
  <2>2. CASE UNCHANGED <<plans, last_plan, last_left, out>>
    <3>1. Projector'
      BY <1>1, <1>2, <2>2, NoProjection
    <3>. QED  BY <1>1, <2>2, <3>1 DEF Typed
  <2>. QED  BY <1>2, <2>1, <2>2
<1>5. Typed'
  BY <1>1, <1>2, <1>4 DEF Typed
<1>6. FlatRows'
  BY <1>1, <1>2, FlatRowsKept
<1>. QED  BY <1>4, <1>5, <1>6 DEF Invariant

LEMMA AgainStep ==
  ASSUME Invariant, Again
  PROVE  Invariant'
<1>1. Typed
  BY DEF Invariant
<1>2. /\ join' \in {[join EXCEPT !.keyed = ~@, !.outer = o] : o \in BOOLEAN}
      /\ pc' = IF join'.keyed /\ right # <<>> THEN "right" ELSE "left"
      /\ l' = 1 /\ r' = 1 /\ right_flat' = (join'.keyed /\ right # <<>>)
      /\ null_right' = make_null_record
      /\ plans' = <<>> /\ last_plan' = 0 /\ last_left' = 0
      /\ out' = [slots |-> <<>>, made |-> <<>>, checked |-> TRUE]
      /\ left' = left /\ right' = right
  BY DEF Again
<1>3. join' \in [names : (DOMAIN Fold) \X (DOMAIN Fold), changes : SUBSET (FieldKind \X FieldKind),
                 keyed : BOOLEAN, outer : BOOLEAN]
  BY <1>1, <1>2 DEF Typed
<1>4. null_right' \in WellRows
  BY <1>1, <1>2, NullRowIs DEF Typed
<1>5. Typed'
  <2>1. pc' \in {"right", "left", "done"}
    BY <1>2
  <2>2. right_flat' \in BOOLEAN
    BY <1>2
  <2>3. plans' \in Seq(Plan)
    <3>1. plans' = <<>>
      BY <1>2
    <3>. QED  BY <3>1
  <2>4. left' \in Seq(WellRows) /\ right' \in Seq(WellRows) /\ l' \in Nat \ {0} /\ r' \in Nat \ {0}
    <3>1. left' = left /\ right' = right /\ l' = 1 /\ r' = 1
      BY <1>2
    <3>. QED  BY <1>1, <3>1 DEF Typed
  <2>. QED  BY <1>3, <1>4, <2>1, <2>2, <2>3, <2>4 DEF Typed
<1>6. FlatRows'
  <2>1. right_flat' => pc' = "right"
    BY <1>2
  <2>2. \A j \in DOMAIN right' : ~(j < r')
    <3>1. right' \in Seq(WellRows) /\ r' = 1
      BY <1>2, <1>5 DEF Typed
    <3>. QED  BY <3>1
  <2>. QED  BY <2>1, <2>2 DEF FlatRows
<1>7. Projector'
  <2>1. DOMAIN plans' = {} /\ last_plan' = 0
    <3>1. plans' = <<>> /\ last_plan' = 0
      BY <1>2
    <3>. QED  BY <3>1
  <2>2. PlansMade'
    BY <2>1 DEF PlansMade
  <2>3. FlatPlans' /\ SameLeftRow'
    BY <2>1 DEF FlatPlans, SameLeftRow
  <2>4. ProjectedAsMade'
    BY <1>2 DEF ProjectedAsMade
  <2>. QED  BY <2>2, <2>3, <2>4 DEF Projector
<1>. QED  BY <1>5, <1>6, <1>7 DEF Invariant

-----------------------------------------------------------------------------
(* The theorems.                                                            *)

\* The plans kept for a pair of shapes were compiled for rows that the plans
\* before them do not fit, and what is not checked of a row would pass.
THEOREM ProjectorInvariant == Spec => []Invariant
<1>1. Init => Invariant
  BY InvariantInit
<1>2. Invariant /\ [Next]_vars => Invariant'
  <2>. SUFFICES ASSUME Invariant, [Next]_vars PROVE Invariant'
    OBVIOUS
  <2>1. CASE Write
    BY <2>1, WriteStep
  <2>2. CASE TestRight
    BY <2>2, TestRightStep
  <2>3. CASE Pair
    BY <2>3, PairStep
  <2>4. CASE NextLeft
    BY <2>4, NextLeftStep
  <2>5. CASE Again
    BY <2>5, AgainStep
  <2>6. CASE UNCHANGED vars
    <3>1. Typed' /\ FlatRows'
      BY <2>6 DEF vars, Invariant, Typed, FlatRows, Unwritten, is_flat
    <3>2. Projector'
      BY <2>6, NoProjection DEF vars, Invariant
    <3>. QED  BY <3>1, <3>2 DEF Invariant
  <2>. QED  BY <2>1, <2>2, <2>3, <2>4, <2>5, <2>6 DEF Next
<1>. QED  BY <1>1, <1>2, PTL DEF Spec

\* Spec 7.4: a joined row is laid out from its own two elements, as
\* make_joined_row lays it out, whichever plan JoinProjector builds it with and
\* whichever checks it leaves out.
THEOREM RowsProjectedAsMade == Spec => []ProjectedAsMade
<1>1. Invariant => ProjectedAsMade
  BY DEF Invariant, Projector
<1>. QED  BY <1>1, ProjectorInvariant, PTL

\* No two of the plans kept for a pair of shapes fit the same rows: which of them
\* build_join_plan tries first makes no difference.
THEOREM OnePlanFits == Spec => []PlansTellApart
<1>1. ASSUME Invariant, NEW p \in DOMAIN plans, NEW q \in DOMAIN plans, p < q, plans[p].pair = plans[q].pair,
             NEW a \in WellRows, NEW b \in WellRows, plans[p].pair = <<a.keys, b.keys, TRUE>>,
             LeftFits(plans[p], a), RightFits(plans[p], b), LeftFits(plans[q], a), RightFits(plans[q], b)
      PROVE  FALSE
  <2>1. PlansMade
    BY <1>1 DEF Invariant, Projector
  <2>2. PICK aq \in WellRows, bq \in WellRows, mq \in BOOLEAN : MadeFor(q, aq, bq, mq)
    BY <2>1 DEF PlansMade
  <2>3. PICK ap \in WellRows, bp \in WellRows, mp \in BOOLEAN : MadeFor(p, ap, bp, mp)
    BY <2>1 DEF PlansMade
  <2>4. PICK P, Q, names : P = plans[p] /\ Q = plans[q] /\ names = join.names
    OBVIOUS
  <2>5. IsPlan(P, names, ap, bp, mp) /\ IsPlan(Q, names, aq, bq, mq)
    BY <2>2, <2>3, <2>4 DEF MadeFor
  <2>6. PlanParts(P, names, ap, bp, mp) /\ PlanParts(Q, names, aq, bq, mq)
    BY <2>5, PlanIs
  <2>7. P.pair = <<ap.keys, bp.keys, mp>> /\ Q.pair = <<aq.keys, bq.keys, mq>>
    BY <2>6 DEF PlanParts
  <2>8. PICK m \in BOOLEAN : m = TRUE
    OBVIOUS
  <2>9. P.pair = <<a.keys, b.keys, m>> /\ Q.pair = <<a.keys, b.keys, m>>
    BY <1>1, <2>4, <2>8
  <2>10. mp = m /\ mq = m
    BY <2>7, <2>9
  <2>11. IsPlan(P, names, ap, bp, m) /\ IsPlan(Q, names, aq, bq, m)
    BY <2>5, <2>10
  <2>12. /\ SameKeys(a, ap) /\ SameKeys(b, bp) /\ SameKeys(a, aq) /\ SameKeys(b, bq)
         /\ SameKeys(aq, ap) /\ SameKeys(bq, bp)
    BY <2>7, <2>9 DEF SameKeys
  <2>13. Nested(a) = Nested(ap)
    <3>1. LeftFits(P, a) <=> Nested(a) = Nested(ap)
      BY <2>11, <2>12, LeftFitsIs
    <3>. QED  BY <1>1, <2>4, <3>1
  <2>14. Nested(a) = Nested(aq)
    <3>1. LeftFits(Q, a) <=> Nested(a) = Nested(aq)
      BY <2>11, <2>12, LeftFitsIs
    <3>. QED  BY <1>1, <2>4, <3>1
  <2>15. PromotedOf(names, a, b, m) = PromotedOf(names, ap, bp, m)
    <3>1. RightFits(P, b) <=> PromotedOf(names, a, b, m) = PromotedOf(names, ap, bp, m)
      BY <2>11, <2>12, RightFitsIs
    <3>. QED  BY <1>1, <2>4, <3>1
  <2>16. PromotedOf(names, a, b, m) = PromotedOf(names, aq, bq, m)
    <3>1. RightFits(Q, b) <=> PromotedOf(names, a, b, m) = PromotedOf(names, aq, bq, m)
      BY <2>11, <2>12, RightFitsIs
    <3>. QED  BY <1>1, <2>4, <3>1
  <2>17. LeftFits(P, aq)
    <3>1. LeftFits(P, aq) <=> Nested(aq) = Nested(ap)
      BY <2>11, <2>12, LeftFitsIs
    <3>. QED  BY <2>13, <2>14, <3>1
  <2>18. RightFits(P, bq)
    <3>1. RightFits(P, bq) <=> PromotedOf(names, aq, bq, m) = PromotedOf(names, ap, bp, m)
      BY <2>11, <2>12, RightFitsIs
    <3>. QED  BY <2>15, <2>16, <3>1
  <2>19. p \in 1 .. q - 1
    BY <1>1 DEF Invariant, Typed
  <2>. QED  BY <1>1, <2>2, <2>4, <2>17, <2>18, <2>19 DEF MadeFor
<1>2. Invariant => PlansTellApart
  <2>. SUFFICES ASSUME Invariant, NEW p \in DOMAIN plans, NEW q \in DOMAIN plans, NEW i \in DOMAIN left,
                       NEW j \in DOMAIN right, p # q, plans[p].pair = plans[q].pair,
                       plans[p].pair = <<left[i].keys, right[j].keys, TRUE>>,
                       Fits(plans[p], left[i], right[j], TRUE, TRUE), Fits(plans[q], left[i], right[j], TRUE, TRUE)
                PROVE  FALSE
    BY DEF PlansTellApart
  <2>1. PICK a \in WellRows, b \in WellRows : a = left[i] /\ b = right[j]
    BY DEF Invariant, Typed
  <2>2. /\ LeftFits(plans[p], a) /\ RightFits(plans[p], b)
        /\ LeftFits(plans[q], a) /\ RightFits(plans[q], b)
    BY <2>1 DEF Fits, LeftFits, RightFits
  <2>3. p < q \/ q < p
    BY DEF Invariant, Typed
  <2>4. plans[p].pair = <<a.keys, b.keys, TRUE>> /\ plans[q].pair = <<a.keys, b.keys, TRUE>>
    BY <2>1
  <2>5. CASE p < q
    BY <1>1, <2>2, <2>4, <2>5
  <2>6. CASE q < p
    BY <1>1, <2>2, <2>4, <2>6
  <2>. QED  BY <2>3, <2>5, <2>6
<1>. QED  BY <1>2, ProjectorInvariant, PTL
=============================================================================
