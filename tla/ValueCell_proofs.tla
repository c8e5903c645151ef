--------------------------- MODULE ValueCell_proofs ---------------------------
(***************************************************************************)
(* Every cell a program can make is well made in one of its three          *)
(* representations (Good), and each operation, whatever representation it  *)
(* meets, makes of it what it makes of an ordered map: so ValueCell        *)
(* implements OrderedMap, for any cells, keys, atoms and bounds.           *)
(***************************************************************************)
EXTENDS ValueCell, DataInduction, TLAPS

\* The fields of a cell, and what makes them one value: the keys of its children,
\* wherever they are, differ; positions that are kept ascend; an index answers for
\* exactly the entries, each at its slot.
Kept == [rep : {"text", "index"}, at : Seq(Keys)]
Indexes == UNION {[S -> Nat] : S \in SUBSET Keys}
Inner ==
  [scalar : Atoms \cup {Absent}, list : BOOLEAN, shape : Seq(Keys) \cup {Absent},
   store : Seq(Atoms) \cup {Absent}, lkeys : Kept \cup {Absent},
   ents : Seq(Entries), index : Indexes \cup {Absent}]

Differ(ks) == \A i, j \in DOMAIN ks : ks[i] = ks[j] => i = j
Ascending(at) == at \in Seq(Nat) /\ \A i, j \in DOMAIN at : i < j => at[i] < at[j]
Answers(index, ents) ==
  /\ \A i \in DOMAIN ents : ents[i].key \in DOMAIN index
  /\ \A k \in DOMAIN index : index[k] \in DOMAIN ents /\ ents[index[k]].key = k

StoreOK(v) ==
  /\ v.store # Absent => v.ents = <<>> /\ v.index = Absent /\ (v.list <=> v.shape = Absent)
  /\ v.shape # Absent => v.store # Absent /\ Len(v.shape) = Len(v.store) /\ Differ(v.shape)
LkeysOK(v) ==
  v.lkeys # Absent =>
    /\ v.store # Absent /\ v.list
    /\ Len(v.lkeys.at) = Len(v.store) /\ Differ(v.lkeys.at)
    /\ v.lkeys.rep = "index" => Ascending(v.lkeys.at)
EntsOK(v) ==
  /\ \A i, j \in DOMAIN v.ents : v.ents[i].key = v.ents[j].key => i = j
  /\ v.index # Absent => Answers(v.index, v.ents)
Good(v) == v \in Inner /\ StoreOK(v) /\ LkeysOK(v) /\ EntsOK(v)

-----------------------------------------------------------------------------
(* Where a key is found. *)

Finds(slot, ks, k) ==
  IF \E i \in DOMAIN ks : ks[i] = k THEN slot \in DOMAIN ks /\ ks[slot] = k ELSE slot = 0

\* The least and the greatest of one.
LEMMA OnlyOne ==
  ASSUME NEW i \in Nat
  PROVE  Min({i}) = i /\ Max({i}) = i
<1>1. \A x \in {i} : \A y \in {i} : x <= y /\ x >= y
  OBVIOUS
<1>. QED  BY <1>1 DEF Min, Max

\* A scan for a key (FirstSlot), of keys that differ.
LEMMA ScanFinds ==
  ASSUME NEW ks, NEW n \in Nat, DOMAIN ks = 1 .. n, Differ(ks), NEW k
  PROVE  Finds(FirstSlot(ks, k), ks, k)
<1>1. ASSUME NEW i \in DOMAIN ks, ks[i] = k
      PROVE  FirstSlot(ks, k) = i
  <2>1. {j \in DOMAIN ks : ks[j] = k} = {i}
    BY <1>1 DEF Differ
  <2>2. Min({i}) = i
    BY OnlyOne
  <2>. QED  BY <1>1, <2>1, <2>2 DEF FirstSlot
<1>2. CASE \E i \in DOMAIN ks : ks[i] = k
  <2>1. PICK i \in DOMAIN ks : ks[i] = k
    BY <1>2
  <2>. QED  BY <1>1, <2>1 DEF Finds
<1>3. CASE ~\E i \in DOMAIN ks : ks[i] = k
  BY <1>3 DEF Finds, FirstSlot
<1>. QED  BY <1>2, <1>3

\* The hash of a shape or of entries whose keys differ.
LEMMA KeyMapIs ==
  ASSUME NEW ks, NEW n \in Nat, DOMAIN ks = 1 .. n, Differ(ks)
  PROVE  /\ DOMAIN KeyMap(ks) = Range(ks) /\ KeyMap(ks) \in [Range(ks) -> Nat]
         /\ \A i \in DOMAIN ks : KeyMap(ks)[ks[i]] = i
<1>1. ASSUME NEW i \in DOMAIN ks
      PROVE  Max({j \in DOMAIN ks : ks[j] = ks[i]}) = i
  <2>1. {j \in DOMAIN ks : ks[j] = ks[i]} = {i}
    BY DEF Differ
  <2>2. Max({i}) = i
    <3>1. i \in Nat
      OBVIOUS
    <3>. QED  BY <3>1, OnlyOne
  <2>. QED  BY <2>1, <2>2
<1>2. KeyMap(ks) = [k \in {ks[i] : i \in DOMAIN ks} |-> Max({j \in DOMAIN ks : ks[j] = k})]
  BY DEF KeyMap, Range
<1>3. ASSUME NEW i \in DOMAIN ks
      PROVE  KeyMap(ks)[ks[i]] = i
  BY <1>1, <1>2
<1>4. DOMAIN KeyMap(ks) = {ks[i] : i \in DOMAIN ks}
  BY <1>2
<1>5. \A k \in DOMAIN KeyMap(ks) : KeyMap(ks)[k] \in Nat
  BY <1>3, <1>4
<1>6. KeyMap(ks) \in [{ks[i] : i \in DOMAIN ks} -> Nat]
  BY <1>2, <1>4, <1>5
<1>. QED  BY <1>3, <1>4, <1>6 DEF Range

\* A look up in the hash of a shape or of entries (Shape::index, KeyMap).
LEMMA HashFinds ==
  ASSUME NEW ks, NEW n \in Nat, DOMAIN ks = 1 .. n, Differ(ks), NEW k
  PROVE  Finds(Mapped(KeyMap(ks), k), ks, k)
<1>. DEFINE map == KeyMap(ks)
<1>1. /\ DOMAIN map = {ks[i] : i \in DOMAIN ks}
      /\ \A i \in DOMAIN ks : map[ks[i]] = i
  BY KeyMapIs DEF Range
<1>. HIDE DEF map
<1>2. \A i \in DOMAIN ks : ks[i] = k => k \in DOMAIN map /\ map[k] = i
  BY <1>1
<1>3. (\A i \in DOMAIN ks : ks[i] # k) => k \notin DOMAIN map
  BY <1>1
<1>. QED  BY <1>2, <1>3 DEF Finds, Mapped, map

\* The recursion of a binary search, on the ranges it may come to.
Ranges(at) == (1 .. Len(at) + 1) \X (0 .. Len(at))
Half(at, n, f, r) ==
  LET mid == (r[1] + r[2]) \div 2
  IN  IF r[1] > r[2] THEN 0
      ELSE IF at[mid] = n THEN mid
      ELSE IF at[mid] < n THEN f[<<mid + 1, r[2]>>]
      ELSE f[<<r[1], mid - 1>>]
Searches(at, n, f) == f = [r \in Ranges(at) |-> Half(at, n, f, r)]

\* A binary search is the value of its recursion at the whole range.
LEMMA SearchIs ==
  ASSUME NEW at, NEW n
  PROVE  BinarySearch(at, n) = (CHOOSE f : Searches(at, n, f))[<<1, Len(at)>>]
BY DEF BinarySearch, Searches, Half, Ranges

Width(r) == r[2] + 1 - r[1]

\* A half of a range is a shorter range.
LEMMA HalfShorter ==
  ASSUME NEW at \in Seq(Nat), NEW r \in Ranges(at), r[1] <= r[2],
         NEW mid, mid = (r[1] + r[2]) \div 2
  PROVE  /\ mid \in Nat /\ mid \in 1 .. Len(at) /\ r[1] <= mid /\ mid <= r[2]
         /\ <<mid + 1, r[2]>> \in Ranges(at) /\ Width(<<mid + 1, r[2]>>) < Width(r)
         /\ <<r[1], mid - 1>> \in Ranges(at) /\ Width(<<r[1], mid - 1>>) < Width(r)
<1>1. Len(at) \in Nat /\ r[1] \in 1 .. Len(at) + 1 /\ r[2] \in 0 .. Len(at)
  BY DEF Ranges
<1>. DEFINE lo == r[1]
            hi == r[2]
<1>2. /\ lo \in Nat /\ hi \in Nat /\ mid \in Nat /\ lo <= mid /\ mid <= hi
      /\ mid + 1 \in 1 .. Len(at) + 1 /\ mid - 1 \in 0 .. Len(at) /\ mid \in 1 .. Len(at)
      /\ hi + 1 - (mid + 1) < hi + 1 - lo /\ (mid - 1) + 1 - lo < hi + 1 - lo
  <2>. HIDE DEF lo, hi
  <2>1. /\ lo \in Nat /\ hi \in Nat /\ lo >= 1 /\ hi <= Len(at) /\ lo <= hi
        /\ mid = (lo + hi) \div 2 /\ Len(at) \in Nat
    BY <1>1 DEF lo, hi
  <2>2. mid \in Nat /\ lo <= mid /\ mid <= hi
    BY <2>1
  <2>3. mid + 1 \in 1 .. Len(at) + 1 /\ mid - 1 \in 0 .. Len(at) /\ mid \in 1 .. Len(at)
    BY <2>1, <2>2
  <2>4. hi + 1 - (mid + 1) < hi + 1 - lo /\ (mid - 1) + 1 - lo < hi + 1 - lo
    <3>1. lo \in Nat /\ hi \in Nat /\ mid \in Nat /\ lo <= mid /\ mid <= hi
      BY <2>1, <2>2
    <3>2. hi + 1 - (mid + 1) < hi + 1 - lo
      BY <3>1
    <3>3. (mid - 1) + 1 - lo < hi + 1 - lo
      BY <3>1
    <3>. QED  BY <3>2, <3>3
  <2>. QED  BY <2>1, <2>2, <2>3, <2>4
<1>3. <<mid + 1, hi>> \in Ranges(at) /\ <<lo, mid - 1>> \in Ranges(at)
  BY <1>1, <1>2 DEF Ranges
<1>. QED  BY <1>2, <1>3 DEF Width

\* What a range comes to depends on shorter ranges only.
LEMMA HalfSame ==
  ASSUME NEW at \in Seq(Nat), NEW n, NEW f, NEW g, NEW r \in Ranges(at),
         \A s \in Ranges(at) : Width(s) < Width(r) => f[s] = g[s]
  PROVE  Half(at, n, f, r) = Half(at, n, g, r)
<1>1. CASE r[1] > r[2]
  BY <1>1 DEF Half
<1>2. CASE ~(r[1] > r[2])
  <2>. DEFINE mid == (r[1] + r[2]) \div 2
  <2>1. r[1] <= r[2]
    BY <1>2 DEF Ranges
  <2>. HIDE DEF mid
  <2>2. /\ <<mid + 1, r[2]>> \in Ranges(at) /\ Width(<<mid + 1, r[2]>>) < Width(r)
        /\ <<r[1], mid - 1>> \in Ranges(at) /\ Width(<<r[1], mid - 1>>) < Width(r)
    BY <2>1, HalfShorter DEF mid
  <2>3. f[<<mid + 1, r[2]>>] = g[<<mid + 1, r[2]>>] /\ f[<<r[1], mid - 1>>] = g[<<r[1], mid - 1>>]
    BY <2>2
  <2>. QED  BY <2>3 DEF Half, mid
<1>. QED  BY <1>1, <1>2

\* The recursion of a binary search defines a function.
LEMMA SearchExists ==
  ASSUME NEW at \in Seq(Nat), NEW n
  PROVE  \E f : Searches(at, n, f)
<1>. DEFINE UpTo(w, f) == \A r \in Ranges(at) : Width(r) <= w => f[r] = Half(at, n, f, r)
            S == {w \in Nat : \E f : UpTo(w, f)}
<1>1. \A r \in Ranges(at) : Width(r) \in Int /\ Width(r) <= Len(at) /\ r[1] \in Nat /\ r[2] \in Nat
  BY DEF Ranges, Width
<1>2. 0 \in S
  <2>1. UpTo(0, [r \in Ranges(at) |-> 0])
    <3>1. \A r \in Ranges(at) : Width(r) <= 0 => r[1] > r[2]
      BY <1>1 DEF Width
    <3>. QED  BY <3>1 DEF Half
  <2>2. \E f : UpTo(0, f)
    <3>. HIDE DEF UpTo
    <3>. QED  BY <2>1
  <2>. HIDE DEF UpTo
  <2>. QED  BY <2>2
<1>3. ASSUME NEW w \in Nat, w \in S
      PROVE  w + 1 \in S
  <2>1. PICK f : UpTo(w, f)
    BY <1>3
  <2>. DEFINE g == [r \in Ranges(at) |-> IF Width(r) <= w THEN f[r] ELSE Half(at, n, f, r)]
  <2>2. \A r \in Ranges(at) : Width(r) <= w => g[r] = f[r]
    OBVIOUS
  <2>3. \A r \in Ranges(at) : ~(Width(r) <= w) => g[r] = Half(at, n, f, r)
    OBVIOUS
  <2>. HIDE DEF g
  <2>4. ASSUME NEW r \in Ranges(at), Width(r) <= w + 1
        PROVE  g[r] = Half(at, n, g, r)
    <3>1. \A s \in Ranges(at) : Width(s) < Width(r) => f[s] = g[s]
      <4>1. \A s \in Ranges(at) : Width(s) < Width(r) => Width(s) <= w
        BY <1>1, <2>4
      <4>. QED  BY <4>1, <2>2
    <3>2. Half(at, n, f, r) = Half(at, n, g, r)
      BY <3>1, HalfSame
    <3>3. g[r] = Half(at, n, f, r)
      BY <2>1, <2>2, <2>3
    <3>. QED  BY <3>2, <3>3
  <2>5. UpTo(w + 1, g)
    BY <2>4
  <2>6. \E h : UpTo(w + 1, h)
    <3>. HIDE DEF UpTo
    <3>. QED  BY <2>5
  <2>. HIDE DEF UpTo
  <2>. QED  BY <2>6
<1>4. Len(at) \in S
  <2>. HIDE DEF S
  <2>. QED  BY SMTT(30), <1>2, <1>3, Induction
<1>5. PICK f : UpTo(Len(at), f)
  BY <1>4
<1>. DEFINE g == [r \in Ranges(at) |-> f[r]]
<1>6. \A r \in Ranges(at) : g[r] = f[r] /\ f[r] = Half(at, n, f, r)
  BY <1>1, <1>5
<1>7. \A r \in Ranges(at) : Half(at, n, f, r) = Half(at, n, g, r)
  <2>. HIDE DEF g
  <2>. QED  BY <1>6, HalfSame
<1>8. g = [r \in Ranges(at) |-> Half(at, n, g, r)]
  <2>1. \A r \in Ranges(at) : g[r] = Half(at, n, g, r)
    BY <1>6, <1>7
  <2>2. g = [r \in Ranges(at) |-> g[r]]
    OBVIOUS
  <2>. HIDE DEF g
  <2>. QED  BY <2>1, <2>2
<1>. HIDE DEF g
<1>. QED  BY <1>8 DEF Searches

\* A binary search finds what is in the range, of positions that ascend.
FindsIn(at, n, r, s) ==
  IF \E i \in r[1] .. r[2] : at[i] = n THEN s \in r[1] .. r[2] /\ at[s] = n ELSE s = 0

\* A range finds what its halves find, of positions that ascend.
LEMMA HalfFinds ==
  ASSUME NEW at, Ascending(at), NEW n \in Nat, NEW f, NEW r \in Ranges(at),
         \A s \in Ranges(at) : Width(s) < Width(r) => FindsIn(at, n, s, f[s])
  PROVE  FindsIn(at, n, r, Half(at, n, f, r))
<1>1. at \in Seq(Nat) /\ r[1] \in Nat /\ r[2] \in Nat /\ r[1] >= 1 /\ r[2] <= Len(at)
  BY DEF Ascending, Ranges
<1>2. CASE r[1] > r[2]
  <2>1. r[1] .. r[2] = {}
    BY <1>1, <1>2
  <2>. QED  BY <1>2, <2>1 DEF Half, FindsIn
<1>3. CASE r[1] <= r[2]
  <2>. DEFINE mid == (r[1] + r[2]) \div 2
              lo == r[1]
              hi == r[2]
  <2>1. /\ mid \in Nat /\ mid \in 1 .. Len(at) /\ lo <= mid /\ mid <= hi
        /\ <<mid + 1, hi>> \in Ranges(at) /\ Width(<<mid + 1, hi>>) < Width(r)
        /\ <<lo, mid - 1>> \in Ranges(at) /\ Width(<<lo, mid - 1>>) < Width(r)
    BY <1>1, <1>3, HalfShorter
  <2>2. /\ FindsIn(at, n, <<mid + 1, hi>>, f[<<mid + 1, hi>>])
        /\ FindsIn(at, n, <<lo, mid - 1>>, f[<<lo, mid - 1>>])
    <3>. HIDE DEF mid, lo, hi
    <3>. QED  BY <2>1
  <2>3. Half(at, n, f, r) = IF at[mid] = n THEN mid
                            ELSE IF at[mid] < n THEN f[<<mid + 1, hi>>] ELSE f[<<lo, mid - 1>>]
    BY <1>1, <1>3 DEF Half
  <2>4. lo \in Nat /\ hi \in Nat /\ lo >= 1 /\ hi <= Len(at) /\ Len(at) \in Nat
    BY <1>1
  <2>5. FindsIn(at, n, r, Half(at, n, f, r)) <=>
          IF \E i \in lo .. hi : at[i] = n
          THEN Half(at, n, f, r) \in lo .. hi /\ at[Half(at, n, f, r)] = n
          ELSE Half(at, n, f, r) = 0
    BY DEF FindsIn
  <2>6. /\ IF \E i \in mid + 1 .. hi : at[i] = n
           THEN f[<<mid + 1, hi>>] \in mid + 1 .. hi /\ at[f[<<mid + 1, hi>>]] = n
           ELSE f[<<mid + 1, hi>>] = 0
        /\ IF \E i \in lo .. mid - 1 : at[i] = n
           THEN f[<<lo, mid - 1>>] \in lo .. mid - 1 /\ at[f[<<lo, mid - 1>>]] = n
           ELSE f[<<lo, mid - 1>>] = 0
    BY <2>2 DEF FindsIn
  <2>. HIDE DEF mid, lo, hi
  <2>7. \A i \in lo .. hi : i \in DOMAIN at /\ at[i] \in Nat /\ mid \in DOMAIN at /\ at[mid] \in Nat
    <3>1. DOMAIN at = 1 .. Len(at) /\ \A i \in 1 .. Len(at) : at[i] \in Nat
      BY <1>1
    <3>2. lo .. hi \subseteq 1 .. Len(at)
      BY <2>4
    <3>. QED  BY <2>1, <3>1, <3>2
  <2>8. \A i \in lo .. hi : (i < mid => at[i] < at[mid]) /\ (mid < i => at[mid] < at[i])
    BY <2>7 DEF Ascending
  <2>9. CASE at[mid] = n
    BY <2>1, <2>3, <2>4, <2>5, <2>9
  <2>10. CASE at[mid] # n /\ at[mid] < n
    <3>1. \A i \in lo .. hi : at[i] = n => i \in mid + 1 .. hi
      <4>1. ASSUME NEW i \in lo .. hi, at[i] = n
            PROVE  mid < i
        <5>1. i # mid /\ ~(i < mid) /\ i \in Int /\ mid \in Int
          BY SMTT(30), <2>1, <2>4, <2>7, <2>8, <2>10, <4>1
        <5>. QED  BY <5>1
      <4>. QED  BY <2>1, <2>4, <4>1
    <3>2. \A i \in mid + 1 .. hi : i \in lo .. hi
      BY <2>1, <2>4
    <3>3. Half(at, n, f, r) = f[<<mid + 1, hi>>]
      BY <2>3, <2>10
    <3>. QED  BY <2>5, <2>6, <3>1, <3>2, <3>3
  <2>11. CASE at[mid] # n /\ ~(at[mid] < n)
    <3>1. \A i \in lo .. hi : at[i] = n => i \in lo .. mid - 1
      <4>1. ASSUME NEW i \in lo .. hi, at[i] = n
            PROVE  i < mid
        <5>1. i # mid /\ ~(mid < i) /\ i \in Int /\ mid \in Int
          BY SMTT(30), <2>1, <2>4, <2>7, <2>8, <2>11, <4>1
        <5>. QED  BY <5>1
      <4>. QED  BY <2>1, <2>4, <4>1
    <3>2. \A i \in lo .. mid - 1 : i \in lo .. hi
      BY <2>1, <2>4
    <3>3. Half(at, n, f, r) = f[<<lo, mid - 1>>]
      BY <2>3, <2>11
    <3>. QED  BY <2>5, <2>6, <3>1, <3>2, <3>3
  <2>. QED  BY <2>9, <2>10, <2>11
<1>. QED  BY <1>1, <1>2, <1>3

\* [T]::binary_search finds a position that is there, and no other, if they ascend.
LEMMA BinarySearchFinds ==
  ASSUME NEW at, Ascending(at), NEW n \in Nat
  PROVE  Finds(BinarySearch(at, n), at, n)
<1>1. at \in Seq(Nat)
  BY DEF Ascending
<1>. DEFINE f == CHOOSE g : Searches(at, n, g)
<1>2. Searches(at, n, f)
  BY <1>1, SearchExists
<1>. HIDE DEF f
<1>3. \A r \in Ranges(at) : f[r] = Half(at, n, f, r)
  BY <1>2 DEF Searches
<1>4. \A r \in Ranges(at) : Width(r) \in Int /\ Width(r) <= Len(at)
  BY <1>1 DEF Ranges, Width
<1>. DEFINE UpTo(w) == \A r \in Ranges(at) : Width(r) <= w => FindsIn(at, n, r, f[r])
            S == {w \in Nat : UpTo(w)}
<1>5. 0 \in S
  <2>1. ASSUME NEW r \in Ranges(at), Width(r) <= 0
        PROVE  FindsIn(at, n, r, f[r])
    <3>1. r[1] > r[2] /\ r[1] .. r[2] = {}
      BY <1>1, <2>1 DEF Ranges, Width
    <3>2. f[r] = 0
      BY <1>3, <3>1 DEF Half
    <3>. QED  BY <3>1, <3>2 DEF FindsIn
  <2>. QED  BY <2>1
<1>6. ASSUME NEW w \in Nat, w \in S
      PROVE  w + 1 \in S
  <2>1. ASSUME NEW r \in Ranges(at), Width(r) <= w + 1
        PROVE  FindsIn(at, n, r, f[r])
    <3>1. \A s \in Ranges(at) : Width(s) < Width(r) => Width(s) <= w
      BY <1>4, <2>1
    <3>2. \A s \in Ranges(at) : Width(s) < Width(r) => FindsIn(at, n, s, f[s])
      BY <1>6, <3>1
    <3>3. FindsIn(at, n, r, Half(at, n, f, r))
      BY <3>2, HalfFinds
    <3>. QED  BY <1>3, <3>3
  <2>. QED  BY <2>1
<1>7. UpTo(Len(at))
  <2>1. \A w \in Nat : w \in S
    <3>. HIDE DEF S
    <3>. QED  BY <1>5, <1>6, Induction
  <2>. QED  BY <1>1, <2>1
<1>8. <<1, Len(at)>> \in Ranges(at) /\ DOMAIN at = 1 .. Len(at)
  BY <1>1 DEF Ranges
<1>9. FindsIn(at, n, <<1, Len(at)>>, f[<<1, Len(at)>>])
  BY <1>4, <1>7, <1>8
<1>10. BinarySearch(at, n) = f[<<1, Len(at)>>]
  BY SearchIs DEF f
<1>. QED  BY <1>8, <1>9, <1>10 DEF FindsIn, Finds

-----------------------------------------------------------------------------
(* Reading a cell. *)

\* The three representations.
IsShaped(v) ==
  /\ v.shape # Absent /\ v.shape \in Seq(Keys) /\ v.store # Absent /\ v.store \in Seq(Atoms)
  /\ Len(v.shape) = Len(v.store) /\ Differ(v.shape)
  /\ v.list = FALSE /\ v.lkeys = Absent /\ v.ents = <<>> /\ v.index = Absent
IsListed(v) ==
  /\ v.shape = Absent /\ v.store # Absent /\ v.store \in Seq(Atoms) /\ v.list = TRUE
  /\ v.ents = <<>> /\ v.index = Absent
  /\ v.lkeys # Absent =>
       /\ v.lkeys.rep \in {"text", "index"} /\ v.lkeys.at \in Seq(Keys)
       /\ Len(v.lkeys.at) = Len(v.store) /\ Differ(v.lkeys.at)
       /\ v.lkeys.rep = "index" => Ascending(v.lkeys.at)
HasEntries(v) ==
  /\ v.shape = Absent /\ v.store = Absent /\ v.lkeys = Absent
  /\ v.ents \in Seq(Entries) /\ EntsOK(v) /\ v.index \in Indexes \cup {Absent}

\* A good cell is in one of the three representations.
LEMMA Representations ==
  ASSUME NEW v, Good(v)
  PROVE  /\ v.scalar \in Atoms \cup {Absent} /\ v.list \in BOOLEAN
         /\ IsShaped(v) \/ IsListed(v) \/ HasEntries(v)
<1>1. /\ v.scalar \in Atoms \cup {Absent} /\ v.list \in BOOLEAN
      /\ v.shape \in Seq(Keys) \cup {Absent} /\ v.store \in Seq(Atoms) \cup {Absent}
      /\ v.lkeys \in Kept \cup {Absent} /\ v.ents \in Seq(Entries)
      /\ v.index \in Indexes \cup {Absent}
  BY DEF Good, Inner
<1>2. v.lkeys # Absent => v.lkeys.rep \in {"text", "index"} /\ v.lkeys.at \in Seq(Keys)
  BY <1>1 DEF Kept
<1>3. CASE v.shape # Absent
  BY <1>1, <1>3 DEF Good, StoreOK, LkeysOK, IsShaped
<1>4. CASE v.shape = Absent /\ v.store # Absent
  BY <1>1, <1>2, <1>4 DEF Good, StoreOK, LkeysOK, IsListed
<1>5. CASE v.shape = Absent /\ v.store = Absent
  BY <1>1, <1>5 DEF Good, LkeysOK, HasEntries
<1>. QED  BY <1>1, <1>3, <1>4, <1>5

\* The keys and the values of a cell's children.
Reads(v, ks, vs, n) ==
  /\ n \in Nat /\ n = size(v)
  /\ ks = keys(v) /\ DOMAIN ks = 1 .. n /\ Len(ks) = n /\ Differ(ks)
  /\ vs = values(v) /\ vs \in Seq(Atoms) /\ DOMAIN vs = 1 .. n /\ Len(vs) = n

\* A record shape: its keys, its storage, and the shape's hash.
LEMMA ReadShaped ==
  ASSUME NEW v, IsShaped(v)
  PROVE  /\ Reads(v, v.shape, v.store, Len(v.store))
         /\ \A k : Finds(Slot(v, k), keys(v), k)
<1>1. Reads(v, v.shape, v.store, Len(v.store))
  BY DEF IsShaped, Reads, size, keys, values, Shaped
<1>2. ASSUME NEW k PROVE Finds(Slot(v, k), keys(v), k)
  BY <1>1, HashFinds DEF Reads, Slot, Shaped, IsShaped, keys
<1>. QED  BY <1>1, <1>2

\* A list: its storage, under its numbers or the keys a FILTER kept.
LEMMA ReadListed ==
  ASSUME NEW v, IsListed(v)
  PROVE  /\ Reads(v, keys(v), v.store, Len(v.store))
         /\ \A k \in Keys : Finds(Slot(v, k), keys(v), k)
         /\ v.lkeys # Absent => keys(v) = v.lkeys.at
         /\ v.lkeys = Absent => keys(v) = [i \in 1 .. Len(v.store) |-> i]
<1>1. /\ v.store \in Seq(Atoms) /\ DOMAIN v.store = 1 .. Len(v.store) /\ Len(v.store) \in Nat
      /\ ~Shaped(v) /\ Listed(v)
  BY DEF IsListed, Shaped, Listed
<1>2. size(v) = Len(v.store) /\ values(v) = v.store /\ keys(v) = ListKeysOf(v)
  BY <1>1 DEF size, values, keys, IsListed
<1>3. CASE v.lkeys # Absent
  <2>1. /\ keys(v) = v.lkeys.at /\ v.lkeys.at \in Seq(Keys)
        /\ Len(v.lkeys.at) = Len(v.store) /\ Differ(v.lkeys.at)
    BY <1>2, <1>3 DEF ListKeysOf, IsListed
  <2>2. DOMAIN v.lkeys.at = 1 .. Len(v.store)
    BY <2>1
  <2>3. ASSUME NEW k \in Keys PROVE Finds(Slot(v, k), keys(v), k)
    <3>1. Slot(v, k) = position(v.lkeys, k)
      BY <1>1, <1>3 DEF Slot, ListSlot
    <3>2. CASE v.lkeys.rep = "text"
      BY <1>1, <2>1, <2>2, <3>1, <3>2, ScanFinds DEF position
    <3>3. CASE v.lkeys.rep = "index" /\ k \in Nat
      <4>1. Ascending(v.lkeys.at)
        BY <1>3, <3>3 DEF IsListed
      <4>2. Finds(BinarySearch(v.lkeys.at, k), v.lkeys.at, k)
        BY <3>3, <4>1, BinarySearchFinds
      <4>3. position(v.lkeys, k) = BinarySearch(v.lkeys.at, k)
        BY <3>3 DEF position
      <4>. QED  BY <2>1, <3>1, <4>2, <4>3
    <3>4. CASE v.lkeys.rep = "index" /\ k \notin Nat
      <4>1. v.lkeys.at \in Seq(Nat)
        BY <1>3, <3>4 DEF IsListed, Ascending
      <4>2. \A i \in DOMAIN v.lkeys.at : v.lkeys.at[i] # k
        BY <3>4, <4>1
      <4>3. position(v.lkeys, k) = 0
        BY <3>4 DEF position
      <4>. QED  BY <2>1, <3>1, <4>2, <4>3 DEF Finds
    <3>. QED  BY <1>3, <3>2, <3>3, <3>4 DEF IsListed
  <2>. QED  BY <1>1, <1>2, <1>3, <2>1, <2>2, <2>3 DEF Reads
<1>4. CASE v.lkeys = Absent
  <2>1. keys(v) = [i \in 1 .. Len(v.store) |-> i]
    BY <1>1, <1>2, <1>4 DEF ListKeysOf
  <2>2. Differ(keys(v)) /\ DOMAIN keys(v) = 1 .. Len(v.store) /\ Len(keys(v)) = Len(v.store)
    BY <1>1, <2>1 DEF Differ
  <2>3. ASSUME NEW k \in Keys PROVE Finds(Slot(v, k), keys(v), k)
    <3>1. Slot(v, k) = IF k \in 1 .. Len(v.store) THEN k ELSE 0
      BY <1>1, <1>4 DEF Slot, ListSlot
    <3>. QED  BY <2>1, <3>1 DEF Finds
  <2>. QED  BY <1>1, <1>2, <1>4, <2>1, <2>2, <2>3 DEF Reads
<1>. QED  BY <1>3, <1>4

\* Entries: their keys and values, found by the hash or by a scan.
LEMMA ReadEntries ==
  ASSUME NEW v, HasEntries(v)
  PROVE  /\ Reads(v, EntryKeys(v), values(v), Len(v.ents))
         /\ \A k : Finds(Slot(v, k), keys(v), k) /\ Slot(v, k) = EntrySlot(v, k)
         /\ \A i \in DOMAIN v.ents : keys(v)[i] = v.ents[i].key /\ values(v)[i] = v.ents[i].val
<1>1. /\ v.ents \in Seq(Entries) /\ DOMAIN v.ents = 1 .. Len(v.ents) /\ Len(v.ents) \in Nat
      /\ ~Shaped(v) /\ ~Listed(v)
  BY DEF HasEntries, Shaped, Listed
<1>2. /\ size(v) = Len(v.ents) /\ values(v) = [i \in DOMAIN v.ents |-> v.ents[i].val]
      /\ keys(v) = EntryKeys(v) /\ EntryKeys(v) = [i \in DOMAIN v.ents |-> v.ents[i].key]
  BY <1>1 DEF size, values, keys, HasEntries, EntryKeys
<1>3. \A i \in DOMAIN v.ents : v.ents[i].val \in Atoms
  <2>1. \A e \in Entries : e.val \in Atoms
    BY DEF Entries
  <2>2. \A i \in DOMAIN v.ents : v.ents[i] \in Entries
    BY <1>1
  <2>. QED  BY <2>1, <2>2
<1>4. values(v) \in Seq(Atoms) /\ DOMAIN values(v) = 1 .. Len(v.ents) /\ Len(values(v)) = Len(v.ents)
  BY <1>1, <1>2, <1>3
<1>5. Differ(EntryKeys(v)) /\ DOMAIN EntryKeys(v) = 1 .. Len(v.ents) /\ Len(EntryKeys(v)) = Len(v.ents)
  BY <1>1, <1>2 DEF HasEntries, EntsOK, Differ
<1>6. ASSUME NEW k PROVE Finds(Slot(v, k), keys(v), k) /\ Slot(v, k) = EntrySlot(v, k)
  <2>1. Slot(v, k) = EntrySlot(v, k)
    BY <1>1 DEF Slot
  <2>2. CASE v.index = Absent
    BY <1>1, <1>2, <1>5, <2>1, <2>2, ScanFinds DEF EntrySlot
  <2>3. CASE v.index # Absent
    <3>1. Answers(v.index, v.ents)
      BY <2>3 DEF HasEntries, EntsOK
    <3>2. EntrySlot(v, k) = IF k \in DOMAIN v.index THEN v.index[k] ELSE 0
      BY <2>3 DEF EntrySlot, Mapped
    <3>. QED  BY <1>2, <2>1, <3>1, <3>2 DEF Answers, Finds
  <2>. QED  BY <2>1, <2>2, <2>3
<1>. QED  BY <1>1, <1>2, <1>4, <1>5, <1>6 DEF Reads

\* Whatever the representation: the children, and where a key is found.
LEMMA Reading ==
  ASSUME NEW v, Good(v)
  PROVE  /\ Reads(v, keys(v), values(v), size(v))
         /\ \A k \in Keys : Finds(Slot(v, k), keys(v), k)
         /\ entries(v) = [i \in 1 .. size(v) |-> [key |-> keys(v)[i], val |-> values(v)[i]]]
<1>1. Reads(v, keys(v), values(v), size(v)) /\ \A k \in Keys : Finds(Slot(v, k), keys(v), k)
  <2>1. CASE IsShaped(v)
    BY <2>1, ReadShaped DEF Reads
  <2>2. CASE IsListed(v)
    BY <2>2, ReadListed DEF Reads
  <2>3. CASE HasEntries(v)
    BY <2>3, ReadEntries DEF Reads
  <2>. QED  BY <2>1, <2>2, <2>3, Representations
<1>2. Len(keys(v)) = size(v) /\ Len(values(v)) = size(v) /\ size(v) \in Nat
  BY <1>1 DEF Reads
<1>3. Min({Len(keys(v)), Len(values(v))}) = size(v)
  <2>1. {Len(keys(v)), Len(values(v))} = {size(v)}
    BY <1>2
  <2>. QED  BY <1>2, <2>1, OnlyOne
<1>. QED  BY <1>1, <1>3 DEF entries

-----------------------------------------------------------------------------
(* Writing a cell. *)

\* Entries as a hash or a scan may have them: their keys differ.
KeysDiffer(ents) == \A i, j \in DOMAIN ents : ents[i].key = ents[j].key => i = j
Keyed(v) == \A i \in 1 .. size(v) : keys(v)[i] \in Keys

\* The fields of entries.
LEMMA EntryFields ==
  ASSUME NEW ents \in Seq(Entries)
  PROVE  /\ DOMAIN ents = 1 .. Len(ents) /\ Len(ents) \in Nat
         /\ \A i \in DOMAIN ents : /\ ents[i].key \in Keys /\ ents[i].val \in Atoms
                                   /\ ents[i] = [key |-> ents[i].key, val |-> ents[i].val]
<1>1. \A e \in Entries : e.key \in Keys /\ e.val \in Atoms /\ e = [key |-> e.key, val |-> e.val]
  BY DEF Entries
<1>2. \A i \in DOMAIN ents : ents[i] \in Entries
  OBVIOUS
<1>. QED  BY <1>1, <1>2

\* entries() of a cell are entries, of keys that differ.
LEMMA EntriesAre ==
  ASSUME NEW v, Good(v), Keyed(v)
  PROVE  /\ entries(v) \in Seq(Entries) /\ KeysDiffer(entries(v))
         /\ Len(entries(v)) = size(v) /\ DOMAIN entries(v) = 1 .. size(v)
         /\ \A i \in 1 .. size(v) : /\ entries(v)[i].key = keys(v)[i]
                                    /\ entries(v)[i].val = values(v)[i]
<1>1. /\ Reads(v, keys(v), values(v), size(v))
      /\ entries(v) = [i \in 1 .. size(v) |-> [key |-> keys(v)[i], val |-> values(v)[i]]]
  BY Reading
<1>2. \A i \in 1 .. size(v) : [key |-> keys(v)[i], val |-> values(v)[i]] \in Entries
  <2>1. \A i \in 1 .. size(v) : keys(v)[i] \in Keys /\ values(v)[i] \in Atoms
    BY <1>1 DEF Keyed, Reads
  <2>. QED  BY <2>1 DEF Entries
<1>3. size(v) \in Nat /\ DOMAIN keys(v) = 1 .. size(v) /\ Differ(keys(v))
  BY <1>1 DEF Reads
<1>. DEFINE ents == entries(v)
<1>4. /\ ents \in Seq(Entries) /\ Len(ents) = size(v) /\ DOMAIN ents = 1 .. size(v)
      /\ \A i \in 1 .. size(v) : ents[i].key = keys(v)[i] /\ ents[i].val = values(v)[i]
  BY <1>1, <1>2, <1>3
<1>. HIDE DEF ents
<1>5. KeysDiffer(ents)
  BY <1>3, <1>4 DEF KeysDiffer, Differ
<1>. QED  BY <1>4, <1>5 DEF ents

\* Where the abstract map has a key, and what storing there does.
Changed(ents, s, k, a) == [ents EXCEPT ![s] = [key |-> k, val |-> a]]
\* Put in an ordered map: a key that is there keeps its place, another goes last.
LEMMA PutIs ==
  ASSUME NEW ents \in Seq(Entries), KeysDiffer(ents), NEW k \in Keys, NEW a \in Atoms
  PROVE  /\ OM!Put(ents, k, a) \in Seq(Entries) /\ KeysDiffer(OM!Put(ents, k, a))
         /\ \A s \in DOMAIN ents : ents[s].key = k =>
              /\ OM!Put(ents, k, a) = Changed(ents, s, k, a)
              /\ Len(OM!Put(ents, k, a)) = Len(ents) /\ OM!Lookup(ents, k) = ents[s].val
         /\ (\A s \in DOMAIN ents : ents[s].key # k) =>
              /\ OM!Put(ents, k, a) = Append(ents, [key |-> k, val |-> a])
              /\ Len(OM!Put(ents, k, a)) = Len(ents) + 1 /\ OM!Lookup(ents, k) = Absent
<1>. DEFINE e == [key |-> k, val |-> a]
<1>1. e \in Entries /\ e.key = k
  BY DEF Entries
<1>2. /\ DOMAIN ents = 1 .. Len(ents) /\ Len(ents) \in Nat
      /\ \A i \in DOMAIN ents : ents[i] = [key |-> ents[i].key, val |-> ents[i].val]
  BY EntryFields
<1>3. ASSUME NEW s \in DOMAIN ents, ents[s].key = k
      PROVE  /\ OM!Put(ents, k, a) = [ents EXCEPT ![s] = e]
             /\ OM!Lookup(ents, k) = ents[s].val
             /\ [ents EXCEPT ![s] = e] \in Seq(Entries) /\ Len([ents EXCEPT ![s] = e]) = Len(ents)
             /\ KeysDiffer([ents EXCEPT ![s] = e])
  <2>1. k \in OM!KeysIn(ents) /\ OM!SlotOf(ents, k) = s
    BY <1>3 DEF OM!KeysIn, OM!SlotOf, KeysDiffer
  <2>2. [ents[s] EXCEPT !.val = a] = e
    BY <1>2, <1>3
  <2>3. OM!Put(ents, k, a) = [ents EXCEPT ![s] = e] /\ OM!Lookup(ents, k) = ents[s].val
    BY <2>1, <2>2 DEF OM!Put, OM!Lookup
  <2>4. [ents EXCEPT ![s] = e] \in Seq(Entries) /\ Len([ents EXCEPT ![s] = e]) = Len(ents)
    <3>. HIDE DEF e
    <3>. QED  BY <1>1
  <2>5. KeysDiffer([ents EXCEPT ![s] = e])
    <3>. HIDE DEF e
    <3>. QED  BY <1>1, <1>3 DEF KeysDiffer
  <2>. HIDE DEF e
  <2>. QED  BY <2>3, <2>4, <2>5
<1>4. ASSUME \A s \in DOMAIN ents : ents[s].key # k
      PROVE  /\ OM!Put(ents, k, a) = Append(ents, e)
             /\ OM!Lookup(ents, k) = Absent
             /\ Append(ents, e) \in Seq(Entries) /\ Len(Append(ents, e)) = Len(ents) + 1
             /\ KeysDiffer(Append(ents, e))
  <2>1. k \notin OM!KeysIn(ents)
    BY <1>4 DEF OM!KeysIn
  <2>2. OM!Put(ents, k, a) = Append(ents, e) /\ OM!Lookup(ents, k) = Absent
    BY <2>1 DEF OM!Put, OM!Lookup
  <2>. HIDE DEF e
  <2>3. Append(ents, e) \in Seq(Entries) /\ Len(Append(ents, e)) = Len(ents) + 1
    BY <1>1
  <2>4. KeysDiffer(Append(ents, e))
    BY <1>1, <1>2, <1>4 DEF KeysDiffer
  <2>. QED  BY <2>2, <2>3, <2>4
<1>. HIDE DEF e
<1>5. CASE \E s \in DOMAIN ents : ents[s].key = k
  <2>1. PICK s \in DOMAIN ents : ents[s].key = k
    BY <1>5
  <2>2. \A t \in DOMAIN ents : ents[t].key = k => t = s
    BY <2>1 DEF KeysDiffer
  <2>. QED  BY <1>3, <2>1, <2>2 DEF e, Changed
<1>6. CASE \A s \in DOMAIN ents : ents[s].key # k
  BY <1>4, <1>6 DEF e
<1>. QED  BY <1>5, <1>6

\* A cell that holds these entries, with an index of them or without.
WithEntries(v, ents, index) ==
  [v EXCEPT !.ents = ents, !.shape = Absent, !.store = Absent, !.lkeys = Absent, !.index = index]

\* Such a cell is good, and holds those entries.
LEMMA EntriesCell ==
  ASSUME NEW v, v \in Inner, NEW ents \in Seq(Entries), KeysDiffer(ents),
         NEW index, index = Absent \/ (index \in Indexes /\ Answers(index, ents)),
         NEW w, w = WithEntries(v, ents, index)
  PROVE  /\ Good(w) /\ HasEntries(w) /\ Keyed(w) /\ entries(w) = ents /\ size(w) = Len(ents)
         /\ w.scalar = v.scalar /\ w.list = v.list /\ w.ents = ents /\ w.index = index
         /\ w.store = Absent
<1>1. /\ w.scalar = v.scalar /\ w.list = v.list /\ w.ents = ents /\ w.index = index
      /\ w.shape = Absent /\ w.store = Absent /\ w.lkeys = Absent
  BY DEF WithEntries, Inner
<1>2. w \in Inner
  BY DEF WithEntries, Inner
<1>3. Good(w) /\ HasEntries(w)
  BY <1>1, <1>2 DEF Good, StoreOK, LkeysOK, EntsOK, HasEntries, KeysDiffer
<1>4. /\ size(w) = Len(ents) /\ DOMAIN ents = 1 .. Len(ents)
      /\ \A i \in DOMAIN ents : keys(w)[i] = ents[i].key /\ values(w)[i] = ents[i].val
  BY <1>1, <1>3, ReadEntries DEF Reads
<1>5. \A i \in DOMAIN ents : /\ ents[i].key \in Keys
                             /\ ents[i] = [key |-> ents[i].key, val |-> ents[i].val]
  BY EntryFields
<1>6. entries(w) = [i \in 1 .. size(w) |-> [key |-> keys(w)[i], val |-> values(w)[i]]]
  BY <1>3, Reading
<1>7. entries(w) = [i \in 1 .. Len(ents) |-> ents[i]]
  BY <1>4, <1>5, <1>6
<1>8. entries(w) = ents
  BY <1>7
<1>9. Keyed(w)
  BY <1>4, <1>5 DEF Keyed
<1>. QED  BY <1>1, <1>3, <1>4, <1>8, <1>9

\* rebuild_index answers for the entries there are.
LEMMA Reindexed ==
  ASSUME NEW v, NEW ents \in Seq(Entries), v.ents = ents, KeysDiffer(ents)
  PROVE  KeyMap(EntryKeys(v)) \in Indexes /\ Answers(KeyMap(EntryKeys(v)), ents)
<1>. DEFINE ks == EntryKeys(v)
<1>1. /\ ks = [i \in DOMAIN ents |-> ents[i].key] /\ DOMAIN ents = 1 .. Len(ents)
      /\ Len(ents) \in Nat /\ \A i \in DOMAIN ents : ents[i].key \in Keys
  BY EntryFields DEF EntryKeys
<1>2. Differ(ks) /\ DOMAIN ks = 1 .. Len(ents) /\ \A i \in DOMAIN ents : ks[i] = ents[i].key
  BY <1>1 DEF Differ, KeysDiffer
<1>. HIDE DEF ks
<1>. DEFINE map == KeyMap(ks)
<1>3. /\ DOMAIN map = Range(ks) /\ map \in [Range(ks) -> Nat]
      /\ \A i \in DOMAIN ks : map[ks[i]] = i
  BY <1>1, <1>2, KeyMapIs
<1>. HIDE DEF map
<1>4. Range(ks) \in SUBSET Keys
  BY <1>1, <1>2 DEF Range
<1>5. map \in Indexes
  BY <1>3, <1>4 DEF Indexes
<1>6. Answers(map, ents)
  <2>1. \A i \in DOMAIN ents : ents[i].key \in DOMAIN map
    BY <1>2, <1>3 DEF Range
  <2>2. ASSUME NEW k \in DOMAIN map
        PROVE  map[k] \in DOMAIN ents /\ ents[map[k]].key = k
    <3>1. PICK i \in DOMAIN ks : ks[i] = k
      BY <1>3 DEF Range
    <3>2. map[k] = i
      BY <1>3, <3>1
    <3>. QED  BY <1>1, <1>2, <3>1, <3>2
  <2>. QED  BY <2>1, <2>2 DEF Answers
<1>. QED  BY <1>5, <1>6 DEF ks, map

\* Entries are read as they are.
LEMMA EntriesAreEnts ==
  ASSUME NEW v, Good(v), HasEntries(v)
  PROVE  /\ entries(v) = v.ents /\ Keyed(v) /\ KeysDiffer(v.ents) /\ v.ents \in Seq(Entries)
         /\ size(v) = Len(v.ents)
<1>1. /\ v \in Inner /\ v.ents \in Seq(Entries) /\ KeysDiffer(v.ents)
      /\ v.index = Absent \/ (v.index \in Indexes /\ Answers(v.index, v.ents))
  BY DEF Good, HasEntries, EntsOK, KeysDiffer
<1>2. v = WithEntries(v, v.ents, v.index)
  BY <1>1 DEF WithEntries, HasEntries, Inner
<1>. QED  BY <1>1, <1>2, EntriesCell

\* An index stays exact under a new value, and is told of a new key.
LEMMA AnswersStill ==
  ASSUME NEW ents \in Seq(Entries), NEW index, Answers(index, ents),
         NEW s \in DOMAIN ents, NEW e, e.key = ents[s].key
  PROVE  Answers(index, [ents EXCEPT ![s] = e])
BY DEF Answers

Told(index, k, n) == [x \in DOMAIN index \cup {k} |-> IF x = k THEN n ELSE index[x]]

\* An index that is told of an appended entry's key answers for it too.
LEMMA AnswersMore ==
  ASSUME NEW ents \in Seq(Entries), NEW index \in Indexes, Answers(index, ents), NEW e \in Entries,
         NEW k, k = e.key, \A s \in DOMAIN ents : ents[s].key # k,
         NEW more, more = Told(index, k, Len(ents) + 1)
  PROVE  more \in Indexes /\ Answers(more, Append(ents, e))
<1>1. PICK S \in SUBSET Keys : index \in [S -> Nat]
  BY DEF Indexes
<1>2. k \in Keys /\ Len(ents) \in Nat
  BY DEF Entries
<1>3. more \in [S \cup {k} -> Nat] /\ S \cup {k} \in SUBSET Keys
  BY <1>1, <1>2 DEF Told
<1>4. more \in Indexes
  BY <1>3 DEF Indexes
<1>. DEFINE all == Append(ents, e)
<1>5. /\ DOMAIN all = 1 .. Len(ents) + 1 /\ DOMAIN ents = 1 .. Len(ents)
      /\ all[Len(ents) + 1] = e /\ \A i \in DOMAIN ents : all[i] = ents[i]
  BY <1>2
<1>. HIDE DEF all
<1>6. /\ DOMAIN more = DOMAIN index \cup {k} /\ more[k] = Len(ents) + 1
      /\ \A x \in DOMAIN index : x # k => more[x] = index[x]
  BY <1>1 DEF Told
<1>7. k \notin DOMAIN index
  BY DEF Answers
<1>8. \A i \in DOMAIN all : all[i].key \in DOMAIN more
  BY <1>2, <1>5, <1>6 DEF Answers
<1>9. \A x \in DOMAIN more : more[x] \in DOMAIN all /\ all[more[x]].key = x
  BY <1>2, <1>5, <1>6, <1>7 DEF Answers
<1>. QED  BY <1>4, <1>8, <1>9 DEF Answers, all

\* What a write makes of a cell: what an ordered map would hold.
Writes(v, w, ents) ==
  /\ Good(w) /\ Keyed(w) /\ entries(w) = ents /\ size(w) = Len(ents)
  /\ w.scalar = v.scalar /\ w.list = v.list

\* What has more entries, and an index of them or none, is such a cell.
Exact(index, ents) == index = Absent \/ (index \in Indexes /\ Answers(index, ents))
WithMore(v, ents) == [v EXCEPT !.ents = ents]
Indexed(more, index) == [more EXCEPT !.index = index]

\* A cell of more entries, with an exact index or none, is what the write makes.
LEMMA Indexing ==
  ASSUME NEW v, v \in Inner, HasEntries(v), NEW ents \in Seq(Entries), KeysDiffer(ents),
         NEW more, more = WithMore(v, ents),
         NEW index, Exact(index, ents), NEW w, w = Indexed(more, index)
  PROVE  Writes(v, w, ents)
<1>1. w = WithEntries(v, ents, index)
  BY DEF WithEntries, Inner, HasEntries, Indexed, WithMore
<1>2. index = Absent \/ (index \in Indexes /\ Answers(index, ents))
  BY DEF Exact
<1>3. /\ Good(w) /\ Keyed(w) /\ entries(w) = ents /\ size(w) = Len(ents)
      /\ w.scalar = v.scalar /\ w.list = v.list
  BY <1>1, <1>2, EntriesCell
<1>. QED  BY <1>3 DEF Writes

\* A write among entries.
LEMMA SetEntryIs ==
  ASSUME NEW v, Good(v), HasEntries(v), NEW k \in Keys, NEW a \in Atoms
  PROVE  Writes(v, SetEntry(v, k, a), OM!Put(entries(v), k, a))
<1>. DEFINE e == [key |-> k, val |-> a]
            slot == EntrySlot(v, k)
            w == SetEntry(v, k, a)
            more == [v EXCEPT !.ents = Append(@, e)]
<1>1. /\ entries(v) = v.ents /\ KeysDiffer(v.ents) /\ v.ents \in Seq(Entries) /\ v \in Inner
      /\ DOMAIN v.ents = 1 .. Len(v.ents) /\ Len(v.ents) \in Nat
      /\ \A i \in DOMAIN v.ents : v.ents[i] = [key |-> v.ents[i].key, val |-> v.ents[i].val]
  BY EntriesAreEnts, EntryFields DEF Good
<1>2. /\ IF \E i \in DOMAIN v.ents : v.ents[i].key = k
         THEN slot \in DOMAIN v.ents /\ v.ents[slot].key = k ELSE slot = 0
  <2>1. /\ Finds(slot, keys(v), k) /\ keys(v) = EntryKeys(v)
        /\ \A i \in DOMAIN v.ents : keys(v)[i] = v.ents[i].key
    BY ReadEntries DEF Reads
  <2>2. DOMAIN keys(v) = DOMAIN v.ents
    BY <2>1 DEF EntryKeys
  <2>. QED  BY <2>1, <2>2 DEF Finds
<1>3. e \in Entries /\ e.key = k
  BY DEF Entries
<1>4. /\ v.index = Absent \/ (v.index \in Indexes /\ Answers(v.index, v.ents))
      /\ v.shape = Absent /\ v.store = Absent /\ v.lkeys = Absent
  BY DEF HasEntries, EntsOK
<1>5. /\ OM!Put(v.ents, k, a) \in Seq(Entries) /\ KeysDiffer(OM!Put(v.ents, k, a))
      /\ \A s \in DOMAIN v.ents :
           v.ents[s].key = k => OM!Put(v.ents, k, a) = [v.ents EXCEPT ![s] = e]
      /\ (\A s \in DOMAIN v.ents : v.ents[s].key # k) => OM!Put(v.ents, k, a) = Append(v.ents, e)
  <2>. DEFINE old == v.ents
  <2>1. old \in Seq(Entries) /\ KeysDiffer(old)
    BY <1>1
  <2>. HIDE DEF old, slot, w, more
  <2>2. /\ OM!Put(old, k, a) \in Seq(Entries) /\ KeysDiffer(OM!Put(old, k, a))
        /\ \A s \in DOMAIN old : old[s].key = k => OM!Put(old, k, a) = Changed(old, s, k, a)
        /\ (\A s \in DOMAIN old : old[s].key # k) => OM!Put(old, k, a) = Append(old, e)
    BY <2>1, PutIs
  <2>. QED  BY <2>2 DEF old, Changed
<1>6. CASE slot # 0
  <2>1. slot \in DOMAIN v.ents /\ v.ents[slot].key = k
    BY <1>2, <1>6
  <2>2. w = [v EXCEPT !.ents = [v.ents EXCEPT ![slot] = [v.ents[slot] EXCEPT !.val = a]]]
    BY <1>1, <1>6 DEF SetEntry, Inner
  <2>3. [v.ents[slot] EXCEPT !.val = a] = e
    <3>. HIDE DEF slot
    <3>1. v.ents[slot] = [key |-> k, val |-> v.ents[slot].val]
      BY <1>1, <2>1
    <3>. QED  BY <3>1
  <2>. DEFINE ents == [v.ents EXCEPT ![slot] = e]
  <2>4. ents = OM!Put(v.ents, k, a)
    BY <1>5, <2>1
  <2>. HIDE DEF slot
  <2>5. v.index = Absent \/ (v.index \in Indexes /\ Answers(v.index, ents))
    <3>. HIDE DEF e
    <3>. QED  BY <1>1, <1>3, <1>4, <2>1, AnswersStill
  <2>6. w = [v EXCEPT !.ents = ents]
    BY <2>2, <2>3
  <2>. HIDE DEF ents, w
  <2>7. w = WithEntries(v, ents, v.index)
    BY <1>1, <1>4, <2>6 DEF WithEntries, Inner
  <2>. QED  BY <1>1, <1>5, <2>4, <2>5, <2>7, EntriesCell DEF Writes, w
<1>7. CASE slot = 0
  <2>1. \A s \in DOMAIN v.ents : v.ents[s].key # k
    BY <1>1, <1>2, <1>7
  <2>. DEFINE ents == Append(v.ents, e)
  <2>2. ents = OM!Put(v.ents, k, a) /\ Len(ents) = Len(v.ents) + 1
    BY <1>1, <1>5, <2>1
  <2>3. more = [v EXCEPT !.ents = ents] /\ more.ents = ents
    BY <1>1 DEF Inner
  <2>4. w = IF v.index # Absent
            THEN [more EXCEPT !.index = [x \in DOMAIN v.index \cup {k} |->
                                           IF x = k THEN Len(more.ents) ELSE v.index[x]]]
            ELSE IF Len(more.ents) >= IndexMin THEN rebuild_index(more) ELSE more
    BY <1>1, <1>7 DEF SetEntry, Inner
  <2>. HIDE DEF more, ents, slot, e
  <2>5. /\ v \in Inner /\ HasEntries(v) /\ ents \in Seq(Entries) /\ KeysDiffer(ents)
        /\ more = WithMore(v, ents) /\ ents = OM!Put(entries(v), k, a)
    BY <1>1, <1>5, <2>2, <2>3 DEF WithMore
  <2>6. CASE v.index # Absent
    <3>. DEFINE index == Told(v.index, k, Len(v.ents) + 1)
    <3>1. w = Indexed(more, index)
      BY <2>2, <2>3, <2>4, <2>6 DEF Indexed, Told
    <3>2. Exact(index, ents)
      <4>. DEFINE old == v.ents
                  was == v.index
      <4>1. /\ old \in Seq(Entries) /\ was \in Indexes /\ Answers(was, old) /\ e \in Entries
            /\ k = e.key /\ (\A s \in DOMAIN old : old[s].key # k) /\ ents = Append(old, e)
            /\ index = Told(was, k, Len(old) + 1)
        BY <1>1, <1>3, <1>4, <2>1, <2>6 DEF ents
      <4>. HIDE DEF index, old, was, w
      <4>2. index \in Indexes /\ Answers(index, Append(old, e))
        BY <4>1, AnswersMore
      <4>. QED  BY <4>1, <4>2 DEF Exact
    <3>. HIDE DEF index, w
    <3>4. Writes(v, w, ents)
      BY <2>5, <3>1, <3>2, Indexing
    <3>. QED  BY <2>5, <3>4 DEF w
  <2>7. CASE v.index = Absent /\ Len(more.ents) >= IndexMin
    <3>. DEFINE index == KeyMap(EntryKeys(more))
    <3>1. w = Indexed(more, index)
      BY <2>4, <2>7 DEF rebuild_index, Indexed
    <3>2. Exact(index, ents)
      BY <1>5, <2>2, <2>3, Reindexed DEF Exact
    <3>. HIDE DEF w, index
    <3>4. Writes(v, w, ents)
      BY <2>5, <3>1, <3>2, Indexing
    <3>. QED  BY <2>5, <3>4 DEF w
  <2>8. CASE v.index = Absent /\ ~(Len(more.ents) >= IndexMin)
    <3>1. w = more
      BY <2>4, <2>8
    <3>2. more = Indexed(more, v.index)
      BY <1>1, <2>3 DEF Inner, Indexed
    <3>3. Exact(v.index, ents)
      BY <2>8 DEF Exact
    <3>. HIDE DEF w
    <3>4. Writes(v, w, ents)
      BY <2>5, <3>1, <3>2, <3>3, Indexing
    <3>. QED  BY <2>5, <3>4 DEF w
  <2>. QED  BY <2>6, <2>7, <2>8
<1>. QED  BY <1>6, <1>7

\* A cell in one of the representations is good.
LEMMA ReprGood ==
  ASSUME NEW v \in Inner, IsShaped(v) \/ IsListed(v) \/ HasEntries(v)
  PROVE  Good(v)
<1>1. CASE IsShaped(v)
  BY <1>1 DEF Good, StoreOK, LkeysOK, EntsOK, IsShaped
<1>2. CASE IsListed(v)
  BY <1>2 DEF Good, StoreOK, LkeysOK, EntsOK, IsListed
<1>3. CASE HasEntries(v)
  BY <1>3 DEF Good, StoreOK, LkeysOK, HasEntries
<1>. QED  BY <1>1, <1>2, <1>3

\* Leaving a shape or a list for indexed entries.
LEMMA SpillIs ==
  ASSUME NEW v, Good(v), Keyed(v)
  PROVE  Writes(v, Spill(v), entries(v)) /\ HasEntries(Spill(v))
<1>. DEFINE u == [v EXCEPT !.ents = entries(v), !.shape = Absent, !.store = Absent, !.lkeys = Absent]
            index == KeyMap(EntryKeys(u))
<1>1. entries(v) \in Seq(Entries) /\ KeysDiffer(entries(v)) /\ v \in Inner
  BY EntriesAre DEF Good
<1>2. u.ents = entries(v)
  BY <1>1 DEF Inner
<1>3. index \in Indexes /\ Answers(index, entries(v))
  <2>. HIDE DEF u
  <2>. QED  BY <1>1, <1>2, Reindexed
<1>4. Spill(v) = [u EXCEPT !.index = index]
  BY DEF Spill, rebuild_index
<1>. DEFINE w == [u EXCEPT !.index = index]
<1>. HIDE DEF index
<1>5. w = WithEntries(v, entries(v), index)
  BY <1>1 DEF WithEntries, Inner
<1>. HIDE DEF w
<1>6. /\ Good(w) /\ HasEntries(w) /\ Keyed(w) /\ entries(w) = entries(v)
      /\ size(w) = Len(entries(v)) /\ w.scalar = v.scalar /\ w.list = v.list
  BY <1>1, <1>3, <1>5, EntriesCell
<1>. QED  BY <1>4, <1>6 DEF Writes, w

\* A write in place, in a shape's or a list's storage.
Stored(v, s, a) == [v EXCEPT !.store[s] = a]

\* A write in place changes one value, and no key.
LEMMA StoredIs ==
  ASSUME NEW v, Good(v), v.store # Absent, NEW s \in 1 .. size(v), NEW a \in Atoms,
         NEW w, w = Stored(v, s, a)
  PROVE  /\ Good(w) /\ size(w) = size(v) /\ keys(w) = keys(v)
         /\ values(w) = [values(v) EXCEPT ![s] = a]
         /\ w.scalar = v.scalar /\ w.list = v.list
<1>1. /\ v \in Inner /\ v.store \in Seq(Atoms) /\ size(v) = Len(v.store) /\ Len(v.store) \in Nat
  BY DEF Good, Inner, size
<1>. DEFINE store == [v.store EXCEPT ![s] = a]
<1>2. /\ store \in Seq(Atoms) /\ Len(store) = Len(v.store) /\ DOMAIN store = DOMAIN v.store
  BY <1>1
<1>3. w = [v EXCEPT !.store = store]
  BY <1>1 DEF Stored, Inner
<1>4. store # Absent
  BY <1>2, AbsentAssumption
<1>. HIDE DEF store
<1>5. /\ w \in Inner /\ w.store = store /\ w.scalar = v.scalar /\ w.list = v.list
      /\ w.shape = v.shape /\ w.lkeys = v.lkeys /\ w.ents = v.ents /\ w.index = v.index
  BY <1>1, <1>2, <1>3 DEF Inner
<1>6. Good(w)
  BY <1>2, <1>4, <1>5 DEF Good, StoreOK, LkeysOK, EntsOK
<1>7. size(w) = size(v) /\ values(w) = store /\ values(v) = v.store
  BY <1>1, <1>2, <1>4, <1>5 DEF size, values
<1>8. keys(w) = keys(v)
  BY <1>2, <1>4, <1>5 DEF keys, Shaped, Listed, ListKeysOf, EntryKeys
<1>. QED  BY <1>5, <1>6, <1>7, <1>8 DEF store

\* set: whatever the representation, what an ordered map would hold.
LEMMA SetIs ==
  ASSUME NEW v, Good(v), Keyed(v), NEW k \in Keys, NEW a \in Atoms
  PROVE  Writes(v, set(v, k, a), OM!Put(entries(v), k, a))
<1>1. /\ entries(v) \in Seq(Entries) /\ KeysDiffer(entries(v))
      /\ Len(entries(v)) = size(v) /\ DOMAIN entries(v) = 1 .. size(v)
      /\ \A i \in 1 .. size(v) : entries(v)[i].key = keys(v)[i] /\ entries(v)[i].val = values(v)[i]
  BY EntriesAre
<1>2. /\ Reads(v, keys(v), values(v), size(v)) /\ Finds(Slot(v, k), keys(v), k)
      /\ entries(v) = [i \in 1 .. size(v) |-> [key |-> keys(v)[i], val |-> values(v)[i]]]
  BY Reading
<1>3. CASE HasEntries(v)
  <2>1. set(v, k, a) = SetEntry(v, k, a)
    BY <1>3 DEF set, Shaped, Listed, HasEntries
  <2>. QED  BY <1>3, <2>1, SetEntryIs
<1>4. CASE (IsShaped(v) \/ IsListed(v)) /\ has(v, k)
  <2>. DEFINE s == Slot(v, k)
              w == Stored(v, s, a)
              ents == entries(v)
  <2>1. v.store # Absent /\ set(v, k, a) = w
    BY <1>4 DEF set, Shaped, Listed, IsShaped, IsListed, Stored
  <2>2. s \in 1 .. size(v) /\ keys(v)[s] = k
    BY <1>2, <1>4 DEF has, Finds, Reads
  <2>. HIDE DEF s, w
  <2>3. /\ Good(w) /\ size(w) = size(v) /\ keys(w) = keys(v)
        /\ values(w) = [values(v) EXCEPT ![s] = a]
        /\ w.scalar = v.scalar /\ w.list = v.list
    BY <2>1, <2>2, StoredIs DEF w
  <2>4. Keyed(w)
    BY <2>3 DEF Keyed
  <2>5. /\ OM!Put(ents, k, a) = [ents EXCEPT ![s] = [key |-> k, val |-> a]]
        /\ Len(OM!Put(ents, k, a)) = Len(ents) /\ OM!Put(ents, k, a) \in Seq(Entries)
    <3>1. ents \in Seq(Entries) /\ KeysDiffer(ents) /\ s \in DOMAIN ents /\ ents[s].key = k
      BY <1>1, <2>2
    <3>. HIDE DEF ents
    <3>2. /\ OM!Put(ents, k, a) \in Seq(Entries) /\ OM!Put(ents, k, a) = Changed(ents, s, k, a)
          /\ Len(OM!Put(ents, k, a)) = Len(ents)
      BY <3>1, PutIs
    <3>. QED  BY <3>2 DEF Changed
  <2>6. entries(w) = OM!Put(ents, k, a)
    <3>1. /\ entries(w) \in Seq(Entries) /\ DOMAIN entries(w) = 1 .. size(w)
          /\ Len(entries(w)) = size(w)
          /\ \A i \in 1 .. size(w) : /\ entries(w)[i].key = keys(w)[i]
                                     /\ entries(w)[i].val = values(w)[i]
      BY <2>3, <2>4, EntriesAre
    <3>2. ASSUME NEW i \in 1 .. size(v)
          PROVE  entries(w)[i] = [ents EXCEPT ![s] = [key |-> k, val |-> a]][i]
      <4>1. /\ entries(w)[i] = [key |-> entries(w)[i].key, val |-> entries(w)[i].val]
            /\ ents[i] = [key |-> ents[i].key, val |-> ents[i].val]
        BY <1>1, <2>3, <3>1, EntryFields
      <4>2. entries(w)[i].key = keys(v)[i] /\ entries(w)[i].val = [values(v) EXCEPT ![s] = a][i]
        BY <2>3, <3>1
      <4>3. DOMAIN values(v) = 1 .. size(v)
        BY <1>2 DEF Reads
      <4>4. CASE i = s
        BY <1>1, <2>2, <4>1, <4>2, <4>3, <4>4
      <4>5. CASE i # s
        BY <1>1, <2>2, <4>1, <4>2, <4>3, <4>5
      <4>. QED  BY <4>4, <4>5
    <3>3. Len(OM!Put(ents, k, a)) = size(w) /\ size(w) = size(v)
      BY <1>1, <2>3, <2>5
    <3>. QED  BY <2>5, <3>1, <3>2, <3>3
  <2>7. size(w) = Len(OM!Put(ents, k, a))
    BY <1>1, <2>3, <2>5
  <2>. QED  BY <2>1, <2>3, <2>4, <2>6, <2>7 DEF Writes
<1>5. CASE (IsShaped(v) \/ IsListed(v)) /\ ~has(v, k)
  <2>1. set(v, k, a) = SetEntry(Spill(v), k, a)
    BY <1>5 DEF set, Shaped, Listed, IsShaped, IsListed
  <2>2. Writes(v, Spill(v), entries(v)) /\ HasEntries(Spill(v))
    BY SpillIs
  <2>3. Writes(Spill(v), SetEntry(Spill(v), k, a), OM!Put(entries(v), k, a))
    BY <2>2, SetEntryIs DEF Writes
  <2>. QED  BY <2>1, <2>2, <2>3 DEF Writes
<1>. QED  BY <1>3, <1>4, <1>5, Representations

\* Testing the rows one after the other: FoldLeft, step by step.
Tested(run, rows, N, kept) ==
  /\ run \in [0 .. N -> Seq(1 .. N)] /\ run[0] = <<>>
  /\ \A n \in 1 .. N : run[n] = IF n \in kept THEN Append(run[n - 1], n) ELSE run[n - 1]
  /\ InOrder(rows, kept) = run[N] /\ OM!InOrder(rows, kept) = run[N]

\* What FILTER's fold comes to, row by row, and the ordered map's fold with it.
LEMMA InOrderRuns ==
  ASSUME NEW rows, NEW N \in Nat, DOMAIN rows = 1 .. N, NEW kept
  PROVE  \E run : Tested(run, rows, N, kept)
<1>. DEFINE T == Seq(1 .. N)
            D == DOMAIN [i \in DOMAIN rows |-> i]
            step == [p \in T \X (1 .. N) |->
                       IF p[2] \in kept THEN Append(p[1], p[2]) ELSE p[1]]
            Is(f) == f = [s \in SUBSET D |->
                            IF s = {} THEN <<>>
                            ELSE IF [i \in DOMAIN rows |-> i][Max(s)] \in kept
                                 THEN Append(f[s \ {Max(s)}], [i \in DOMAIN rows |-> i][Max(s)])
                                 ELSE f[s \ {Max(s)}]]
            it == CHOOSE f : Is(f)
<1>1. InOrder(rows, kept) = it[D]
  BY DEF InOrder, FoldLeftDomain, FoldLeft, MapThenFoldSet
<1>2. OM!InOrder(rows, kept) = it[D]
  BY DEF OM!InOrder, OM!FoldLeftDomain, OM!FoldLeft, OM!MapThenFoldSet, OM!Max, Max
<1>3. D = 1 .. N /\ <<>> \in T
  OBVIOUS
<1>4. step \in [T \X (1 .. N) -> T]
  <2>1. \A q \in T, n \in 1 .. N : Append(q, n) \in T
    OBVIOUS
  <2>2. \A p \in T \X (1 .. N) : p[1] \in T /\ p[2] \in 1 .. N
    OBVIOUS
  <2>. QED  BY <2>1, <2>2
<1>5. \A q \in T, n \in 1 .. N : step[<<q, n>>] = IF n \in kept THEN Append(q, n) ELSE q
  OBVIOUS
<1>6. \A s \in SUBSET (1 .. N) : s # {} => Max(s) \in 1 .. N /\ s \ {Max(s)} \in SUBSET (1 .. N)
  BY MaxIs
<1>7. PICK g : IsFold(g, N, T, <<>>, step)
  <2>. HIDE DEF step, T
  <2>1. IsStep(step, N, T)
    BY <1>4 DEF IsStep
  <2>. QED  BY <1>3, <2>1, FoldExists
<1>8. \A s \in SUBSET (1 .. N) :
        g[s] = IF s = {} THEN <<>>
               ELSE IF Max(s) \in kept THEN Append(g[s \ {Max(s)}], Max(s))
                    ELSE g[s \ {Max(s)}]
  <2>. HIDE DEF step, T
  <2>. QED  BY <1>5, <1>6, <1>7 DEF IsFold
<1>9. Is(g)
  BY <1>3, <1>6, <1>7, <1>8 DEF IsFold
<1>10. Is(it)
  <2>. HIDE DEF Is
  <2>. QED  BY <1>9
<1>11. Recurs(it, N, T, <<>>, step)
  <2>1. \A s \in SUBSET (1 .. N) :
          it[s] = IF s = {} THEN <<>>
                  ELSE IF Max(s) \in kept THEN Append(it[s \ {Max(s)}], Max(s))
                       ELSE it[s \ {Max(s)}]
    <3>. HIDE DEF it
    <3>. QED  BY <1>3, <1>6, <1>10
  <2>. HIDE DEF it, step, T
  <2>. QED  BY <2>1, <1>5, <1>6 DEF Recurs
<1>12. PICK run : IsRun(run, N, T, <<>>, step) /\ it[1 .. N] = run[N]
  <2>. HIDE DEF step, T, it
  <2>1. IsStep(step, N, T)
    BY <1>4 DEF IsStep
  <2>. QED  BY <1>3, <2>1, <1>11, FoldRuns
<1>13. \A n \in 1 .. N :
         run[n] = IF n \in kept THEN Append(run[n - 1], n) ELSE run[n - 1]
  <2>1. \A n \in 1 .. N : n - 1 \in 0 .. N
    OBVIOUS
  <2>. HIDE DEF step, T, it
  <2>. QED  BY <1>5, <1>12, <2>1 DEF IsRun
<1>. HIDE DEF it, step, D
<1>14. Tested(run, rows, N, kept)
  BY <1>1, <1>2, <1>3, <1>12, <1>13 DEF IsRun, Tested
<1>. QED  BY <1>14

\* The positions of the rows among the first n that are kept: they ascend, and they
\* are every row's only if none is dropped.
Sifted(q, n, kept) ==
  /\ Len(q) <= n
  /\ \A i \in DOMAIN q : q[i] <= n /\ q[i] \in kept
  /\ \A i, j \in DOMAIN q : i < j => q[i] < q[j]
  /\ \A k \in 1 .. n : k \in kept => \E i \in DOMAIN q : q[i] = k
  /\ Len(q) = n => \A i \in 1 .. n : q[i] = i

\* One more row that is kept is put last.
LEMMA SiftedMore ==
  ASSUME NEW n \in Nat, NEW kept, n + 1 \in kept, NEW L \in Nat,
         NEW q, Len(q) = L, DOMAIN q = 1 .. L, \A i \in 1 .. L : q[i] \in Nat,
         NEW p, Len(p) = L + 1, DOMAIN p = 1 .. L + 1,
         p[L + 1] = n + 1, \A i \in 1 .. L : p[i] = q[i],
         Sifted(q, n, kept)
  PROVE  Sifted(p, n + 1, kept)
<1>1. /\ L <= n
      /\ \A i \in 1 .. L : q[i] <= n /\ q[i] \in kept
      /\ \A i, j \in 1 .. L : i < j => q[i] < q[j]
      /\ \A k \in 1 .. n : k \in kept => \E i \in 1 .. L : q[i] = k
      /\ L = n => \A i \in 1 .. n : q[i] = i
  BY DEF Sifted
<1>2. \A i \in 1 .. L + 1 : i \in 1 .. L \/ i = L + 1
  OBVIOUS
<1>3. Len(p) <= n + 1
  BY <1>1
<1>4. \A i \in DOMAIN p : p[i] <= n + 1 /\ p[i] \in kept
  BY <1>1, <1>2
<1>5. ASSUME NEW i \in DOMAIN p, NEW j \in DOMAIN p, i < j
      PROVE  p[i] < p[j]
  <2>1. i \in 1 .. L
    BY <1>5
  <2>2. CASE j \in 1 .. L
    BY <1>1, <1>5, <2>1, <2>2
  <2>3. CASE j = L + 1
    BY <1>1, <2>1, <2>3
  <2>. QED  BY <1>2, <2>2, <2>3
<1>6. \A k \in 1 .. n + 1 : k \in kept => \E i \in DOMAIN p : p[i] = k
  <2>1. \A k \in 1 .. n + 1 : k \in 1 .. n \/ k = n + 1
    OBVIOUS
  <2>2. L + 1 \in DOMAIN p /\ \A i \in 1 .. L : i \in DOMAIN p /\ p[i] = q[i]
    OBVIOUS
  <2>3. ASSUME NEW k \in 1 .. n, k \in kept
        PROVE  \E i \in DOMAIN p : p[i] = k
    <3>1. PICK i \in 1 .. L : q[i] = k
      BY <1>1, <2>3
    <3>. QED  BY <2>2, <3>1
  <2>. QED  BY <2>1, <2>2, <2>3
<1>7. ASSUME Len(p) = n + 1, NEW i \in 1 .. n + 1
      PROVE  p[i] = i
  <2>1. L = n
    BY <1>7
  <2>2. i \in 1 .. n \/ i = n + 1
    OBVIOUS
  <2>. QED  BY <1>1, <2>1, <2>2
<1>. QED  BY <1>3, <1>4, <1>5, <1>6, <1>7 DEF Sifted

\* One more row that is dropped leaves the positions as they are.
LEMMA SiftedSame ==
  ASSUME NEW n \in Nat, NEW kept, n + 1 \notin kept, NEW L \in Nat,
         NEW q, Len(q) = L, DOMAIN q = 1 .. L, \A i \in 1 .. L : q[i] \in Nat,
         Sifted(q, n, kept)
  PROVE  Sifted(q, n + 1, kept)
<1>1. /\ L <= n
      /\ \A i \in 1 .. L : q[i] <= n /\ q[i] \in kept
      /\ \A i, j \in 1 .. L : i < j => q[i] < q[j]
      /\ \A k \in 1 .. n : k \in kept => \E i \in 1 .. L : q[i] = k
  BY DEF Sifted
<1>2. \A k \in 1 .. n + 1 : k \in kept => k \in 1 .. n
  OBVIOUS
<1>3. L <= n + 1 /\ L # n + 1 /\ \A i \in 1 .. L : q[i] <= n + 1
  BY <1>1
<1>. QED  BY <1>1, <1>2, <1>3 DEF Sifted

\* FILTER's positions, and the abstract FILTER's.
LEMMA InOrderIs ==
  ASSUME NEW rows, NEW N \in Nat, DOMAIN rows = 1 .. N, NEW kept
  PROVE  /\ OM!InOrder(rows, kept) = InOrder(rows, kept)
         /\ InOrder(rows, kept) \in Seq(1 .. N) /\ Sifted(InOrder(rows, kept), N, kept)
<1>1. PICK run : Tested(run, rows, N, kept)
  BY InOrderRuns
<1>. DEFINE S == {n \in 0 .. N : Sifted(run[n], n, kept)}
<1>2. 0 \in S
  BY <1>1 DEF Sifted, Tested
<1>3. ASSUME NEW n \in 0 .. N - 1, n \in S
      PROVE  n + 1 \in S
  <2>1. /\ n + 1 \in 1 .. N /\ n + 1 \in 0 .. N /\ (n + 1) - 1 = n /\ n \in 0 .. N /\ n \in Nat
        /\ run[n] \in Seq(1 .. N) /\ Sifted(run[n], n, kept)
    BY <1>1, <1>3 DEF Tested
  <2>2. run[n + 1] = IF n + 1 \in kept THEN Append(run[n], n + 1) ELSE run[n]
    BY <1>1, <2>1 DEF Tested
  <2>. DEFINE q == run[n]
              L == Len(q)
  <2>3. L \in Nat /\ DOMAIN q = 1 .. L /\ \A i \in 1 .. L : q[i] \in Nat
    <3>1. q \in Seq(1 .. N)
      BY <2>1
    <3>. HIDE DEF q
    <3>. QED  BY <3>1
  <2>4. CASE n + 1 \in kept
    <3>. DEFINE p == Append(q, n + 1)
    <3>1. /\ Len(p) = L + 1 /\ DOMAIN p = 1 .. L + 1
          /\ p[L + 1] = n + 1 /\ \A i \in 1 .. L : p[i] = q[i]
      BY <2>1, <2>3
    <3>2. Sifted(q, n, kept) /\ p = run[n + 1] /\ Len(q) = L
      BY <2>1, <2>2, <2>4
    <3>. HIDE DEF p, q, L
    <3>3. Sifted(p, n + 1, kept)
      BY <2>1, <2>3, <2>4, <3>1, <3>2, SiftedMore
    <3>. QED  BY <2>1, <3>2, <3>3
  <2>5. CASE n + 1 \notin kept
    <3>1. Sifted(q, n, kept) /\ q = run[n + 1] /\ Len(q) = L
      BY <2>1, <2>2, <2>5
    <3>. HIDE DEF q, L
    <3>2. Sifted(q, n + 1, kept)
      BY <2>1, <2>3, <2>5, <3>1, SiftedSame
    <3>. QED  BY <2>1, <3>1, <3>2
  <2>. QED  BY <2>4, <2>5
<1>4. N \in S
  <2>1. \A n \in 0 .. N : n \in S
    <3>. HIDE DEF S
    <3>. QED  BY <1>2, <1>3, InductionUpTo
  <2>2. N \in 0 .. N
    OBVIOUS
  <2>. HIDE DEF S
  <2>. QED  BY <2>1, <2>2
<1>. QED  BY <1>1, <1>4 DEF Tested

-----------------------------------------------------------------------------
(* Cells made anew. *)

\* Keys a list kept, and the keys it shows for its numbers when it kept none.
ListCell(vals, lkeys) ==
  [scalar |-> Absent, list |-> TRUE, shape |-> Absent, store |-> vals,
   lkeys |-> lkeys, ents |-> <<>>, index |-> Absent]
KeptKeys(lkeys, n) ==
  /\ lkeys \in Kept /\ Len(lkeys.at) = n /\ Differ(lkeys.at)
  /\ lkeys.rep = "index" => Ascending(lkeys.at)
ByNumber(n) == [i \in 1 .. n |-> i]

\* The children of such a list.
LEMMA ListCellIs ==
  ASSUME NEW vals \in Seq(Atoms), NEW lkeys, lkeys = Absent \/ KeptKeys(lkeys, Len(vals)),
         NEW w, w = ListCell(vals, lkeys)
  PROVE  /\ Good(w) /\ size(w) = Len(vals) /\ values(w) = vals
         /\ w.scalar = Absent /\ w.list = TRUE
         /\ lkeys = Absent => keys(w) = ByNumber(Len(vals))
         /\ lkeys # Absent => keys(w) = lkeys.at
<1>1. vals # Absent
  BY AbsentAssumption
<1>2. w = [scalar |-> Absent, list |-> TRUE, shape |-> Absent, store |-> vals,
           lkeys |-> lkeys, ents |-> <<>>, index |-> Absent]
  BY DEF ListCell
<1>3. /\ w.scalar = Absent /\ w.list = TRUE /\ w.shape = Absent /\ w.store = vals
      /\ w.lkeys = lkeys /\ w.ents = <<>> /\ w.index = Absent
  BY <1>2
<1>4. lkeys \in Kept \cup {Absent} /\ <<>> \in Seq(Entries)
  BY DEF KeptKeys
<1>5. w \in Inner
  BY <1>2, <1>4 DEF Inner
<1>6. lkeys # Absent => /\ lkeys.rep \in {"text", "index"} /\ lkeys.at \in Seq(Keys)
                        /\ Len(lkeys.at) = Len(vals) /\ Differ(lkeys.at)
                        /\ lkeys.rep = "index" => Ascending(lkeys.at)
  BY DEF Kept, KeptKeys
<1>7. IsListed(w)
  BY <1>1, <1>3, <1>6 DEF IsListed
<1>8. Good(w)
  BY <1>5, <1>7, ReprGood
<1>9. /\ Reads(w, keys(w), w.store, Len(w.store))
      /\ w.lkeys # Absent => keys(w) = w.lkeys.at
      /\ w.lkeys = Absent => keys(w) = [i \in 1 .. Len(w.store) |-> i]
  BY <1>7, ReadListed
<1>10. lkeys = Absent => keys(w) = ByNumber(Len(vals))
  BY <1>3, <1>9 DEF ByNumber
<1>11. size(w) = Len(vals) /\ values(w) = vals
  BY <1>3, <1>9 DEF Reads
<1>. QED  BY <1>3, <1>8, <1>9, <1>10, <1>11

\* The abstract list of some children.
LEMMA ListOfIs ==
  ASSUME NEW kids, NEW v, v.scalar = Absent, v.list = TRUE, entries(v) = kids
  PROVE  Contents(v) = OM!ListOf(kids)
<1>. DEFINE b == OM!Blank
<1>1. b \in [scalar : {Absent}, list : BOOLEAN, kids : {<<>>, kids}] /\ b.scalar = Absent
  BY DEF OM!Blank
<1>2. OM!ListOf(kids) = [b EXCEPT !.list = TRUE, !.kids = kids]
  BY DEF OM!ListOf
<1>. HIDE DEF b
<1>3. OM!ListOf(kids) = [scalar |-> Absent, list |-> TRUE, kids |-> kids]
  BY <1>1, <1>2
<1>. QED  BY <1>3 DEF Contents

\* The cell Value::list makes.
LEMMA ListIsCell ==
  ASSUME NEW vals
  PROVE  list(vals) = ListCell(vals, Absent)
<1>. DEFINE b == blank
<1>1. b \in [scalar : {Absent}, list : BOOLEAN, shape : {Absent}, store : {Absent, vals},
             lkeys : {Absent}, ents : {<<>>}, index : {Absent}]
  BY DEF blank
<1>2. list(vals) = [b EXCEPT !.list = TRUE, !.store = vals]
  BY DEF list
<1>. HIDE DEF b
<1>. QED  BY <1>1, <1>2 DEF ListCell

\* The ordered map a numbered list is.
LEMMA ListIs ==
  ASSUME NEW vals \in Seq(Atoms)
  PROVE  /\ Good(list(vals)) /\ size(list(vals)) = Len(vals)
         /\ Contents(list(vals)) = OM!ListOf(OM!Numbered(vals))
         /\ Len(vals) <= MaxLen => Keyed(list(vals))
<1>. DEFINE w == ListCell(vals, Absent)
<1>1. list(vals) = w
  BY ListIsCell
<1>. HIDE DEF w
<1>2. /\ Good(w) /\ size(w) = Len(vals) /\ values(w) = vals
      /\ w.scalar = Absent /\ w.list = TRUE /\ keys(w) = ByNumber(Len(vals))
  BY ListCellIs DEF w
<1>3. entries(w) = [i \in 1 .. size(w) |-> [key |-> keys(w)[i], val |-> values(w)[i]]]
  BY <1>2, Reading
<1>4. DOMAIN vals = 1 .. Len(vals) /\ Len(vals) \in Nat
  OBVIOUS
<1>5. entries(w) = OM!Numbered(vals)
  BY <1>2, <1>3, <1>4 DEF OM!Numbered, ByNumber
<1>6. Contents(w) = OM!ListOf(OM!Numbered(vals))
  BY <1>2, <1>5, ListOfIs
<1>7. Len(vals) <= MaxLen => Keyed(w)
  BY <1>2, <1>4, BoundsAssumption DEF Keyed, Keys, ByNumber
<1>. QED  BY <1>1, <1>2, <1>6, <1>7

\* The ordered map a list is that kept its keys.
Paired(at, vals) == [i \in 1 .. Len(vals) |-> [key |-> at[i], val |-> vals[i]]]

\* What Value::list_with_list_keys makes holds the rows under the keys they had.
LEMMA KeptListIs ==
  ASSUME NEW vals \in Seq(Atoms), NEW rep \in {"text", "index"}, NEW at \in Seq(Keys),
         Len(at) = Len(vals), Differ(at), rep = "index" => Ascending(at)
  PROVE  /\ Good(list_with_list_keys(vals, rep, at)) /\ Keyed(list_with_list_keys(vals, rep, at))
         /\ size(list_with_list_keys(vals, rep, at)) = Len(vals)
         /\ Contents(list_with_list_keys(vals, rep, at)) = OM!ListOf(Paired(at, vals))
<1>. DEFINE lkeys == [rep |-> rep, at |-> at]
            w == ListCell(vals, lkeys)
<1>1. list_with_list_keys(vals, rep, at) = w
  <2>. DEFINE l == list(vals)
  <2>1. l = ListCell(vals, Absent)
    BY ListIsCell
  <2>2. list_with_list_keys(vals, rep, at) = [l EXCEPT !.lkeys = lkeys]
    BY DEF list_with_list_keys
  <2>. HIDE DEF l, lkeys
  <2>3. l \in [scalar : {Absent}, list : BOOLEAN, shape : {Absent}, store : {vals},
               lkeys : {Absent, lkeys}, ents : {<<>>}, index : {Absent}] /\ l.list = TRUE
    BY <2>1 DEF ListCell
  <2>. QED  BY <2>2, <2>3 DEF ListCell
<1>2. lkeys \in Kept /\ lkeys.at = at /\ lkeys.rep = rep
  BY DEF Kept
<1>3. lkeys # Absent
  BY <1>2, AbsentAssumption DEF Kept
<1>. HIDE DEF lkeys
<1>4. KeptKeys(lkeys, Len(vals))
  BY <1>2 DEF KeptKeys
<1>. HIDE DEF w
<1>5. /\ Good(w) /\ size(w) = Len(vals) /\ values(w) = vals
      /\ w.scalar = Absent /\ w.list = TRUE /\ keys(w) = at
  BY <1>2, <1>3, <1>4, ListCellIs DEF w
<1>6. entries(w) = [i \in 1 .. size(w) |-> [key |-> keys(w)[i], val |-> values(w)[i]]]
  BY <1>5, Reading
<1>7. entries(w) = Paired(at, vals)
  BY <1>5, <1>6 DEF Paired
<1>8. Contents(w) = OM!ListOf(Paired(at, vals))
  BY <1>5, <1>7, ListOfIs
<1>9. Keyed(w)
  BY <1>5 DEF Keyed
<1>. QED  BY <1>1, <1>5, <1>8, <1>9

-----------------------------------------------------------------------------
(* Copying a cell, and walking its children. *)

\* The fields deep_copy sets first.
PlainOf(v) ==
  [scalar |-> v.scalar, list |-> v.list, shape |-> v.shape, store |-> Absent,
   lkeys |-> v.lkeys, ents |-> <<>>, index |-> Absent]

PlainMade(v) ==
  [blank EXCEPT !.scalar = v.scalar, !.list = v.list, !.shape = v.shape, !.lkeys = v.lkeys]

\* They are v's, and no children yet.
LEMMA PlainIs ==
  ASSUME NEW v, NEW w, w = PlainMade(v)
  PROVE  w = PlainOf(v)
<1>. DEFINE b == blank
            s == v.scalar
            l == v.list
            h == v.shape
            k == v.lkeys
<1>1. b \in [scalar : {Absent, s}, list : {FALSE, l}, shape : {Absent, h}, store : {Absent},
             lkeys : {Absent, k}, ents : {<<>>}, index : {Absent}]
  BY DEF blank
<1>2. w = [b EXCEPT !.scalar = s, !.list = l, !.shape = h, !.lkeys = k]
  BY DEF PlainMade
<1>. HIDE DEF b, s, l, h, k
<1>3. w = [scalar |-> s, list |-> l, shape |-> h, store |-> Absent, lkeys |-> k, ents |-> <<>>,
           index |-> Absent]
  BY <1>1, <1>2
<1>. QED  BY <1>3 DEF PlainOf, s, l, h, k

\* deep_copy: the same children, and an index made anew.
LEMMA CopyIs ==
  ASSUME NEW v, Good(v), Keyed(v)
  PROVE  Writes(v, deep_copy(v), entries(v))
<1>. DEFINE plain == PlainOf(v)
            w == deep_copy(v)
<1>1. v \in Inner /\ v.list \in BOOLEAN
  BY Representations DEF Good
<1>2. w = IF v.store # Absent THEN [plain EXCEPT !.store = v.store]
          ELSE IF v.ents # <<>> /\ v.index # Absent
               THEN rebuild_index([plain EXCEPT !.ents = v.ents])
               ELSE [plain EXCEPT !.ents = v.ents]
  <2>1. plain = PlainMade(v)
    BY <1>1, PlainIs
  <2>. HIDE DEF plain
  <2>. QED  BY <2>1 DEF deep_copy, PlainMade
<1>3. plain \in [scalar : {v.scalar}, list : {v.list}, shape : {v.shape}, store : {Absent, v.store},
                 lkeys : {v.lkeys}, ents : {<<>>, v.ents}, index : {Absent, v.index}]
      /\ plain.store = Absent /\ plain.ents = <<>> /\ plain.index = Absent
  BY DEF PlainOf
<1>4. v \in [scalar : {v.scalar}, list : {v.list}, shape : {v.shape}, store : {Absent, v.store},
             lkeys : {v.lkeys}, ents : {<<>>, v.ents}, index : {Absent, v.index}]
  BY <1>1 DEF Inner
<1>5. Writes(v, v, entries(v))
  BY EntriesAre DEF Writes
<1>. HIDE DEF plain, w
<1>6. CASE IsShaped(v) \/ IsListed(v)
  <2>1. v.store # Absent /\ v.ents = <<>> /\ v.index = Absent
    BY <1>6 DEF IsShaped, IsListed
  <2>2. w = v
    BY <1>2, <1>3, <1>4, <2>1
  <2>. QED  BY <1>5, <2>2 DEF w
<1>7. CASE HasEntries(v)
  <2>1. /\ v.store = Absent /\ v.shape = Absent /\ v.lkeys = Absent
        /\ v.ents \in Seq(Entries) /\ KeysDiffer(v.ents) /\ entries(v) = v.ents
    BY <1>7, EntriesAreEnts DEF HasEntries
  <2>. DEFINE more == [plain EXCEPT !.ents = v.ents]
  <2>2. more = WithEntries(v, v.ents, Absent)
    BY <1>1, <1>3, <1>4, <2>1 DEF WithEntries
  <2>3. more.ents = v.ents
    BY <1>3
  <2>. HIDE DEF more
  <2>. DEFINE index == KeyMap(EntryKeys(more))
  <2>4. index \in Indexes /\ Answers(index, v.ents)
    BY <2>1, <2>3, Reindexed
  <2>. HIDE DEF index
  <2>5. CASE v.ents # <<>> /\ v.index # Absent
    <3>1. w = Indexed(more, index)
      BY <1>2, <2>1, <2>5 DEF rebuild_index, Indexed, more, index
    <3>2. w = WithEntries(v, v.ents, index)
      BY <1>1, <2>2, <3>1 DEF WithEntries, Indexed, Inner
    <3>. QED  BY <1>1, <2>1, <2>4, <3>2, EntriesCell DEF Writes, w
  <2>6. CASE ~(v.ents # <<>> /\ v.index # Absent)
    <3>1. w = WithEntries(v, v.ents, Absent)
      BY <1>2, <2>1, <2>2, <2>6 DEF more
    <3>. QED  BY <1>1, <2>1, <3>1, EntriesCell DEF Writes, w
  <2>. QED  BY <2>5, <2>6
<1>. QED  BY <1>6, <1>7, Representations

\* What an aggregate walks: the children of the ordered map, and their keys, which
\* ascend unless they are texts.
Walks(v, es, n) ==
  /\ es \in Seq(Atoms) /\ Len(es) = n /\ n \in 0 .. MaxLen /\ DOMAIN es = 1 .. n
  /\ \A i \in 1 .. n : ElemKey(v, i) \in Keys
  /\ \A i, j \in 1 .. n : ElemKey(v, i) = ElemKey(v, j) => i = j
  /\ elems(v).rep # "text" =>
       /\ \A i \in 1 .. n : ElemKey(v, i) \in Nat
       /\ \A i, j \in 1 .. n : i < j => ElemKey(v, i) < ElemKey(v, j)
  /\ OM!Elements(Contents(v)) = [i \in 1 .. n |-> [key |-> ElemKey(v, i), val |-> es[i]]]

\* elems walks what the ordered map's aggregates walk.
LEMMA ElemsAre ==
  ASSUME NEW v, Good(v), Keyed(v), size(v) <= MaxLen
  PROVE  /\ Walks(v, elems(v).vals, Len(elems(v).vals))
         /\ is_null(v) => elems(v).vals = <<>>
<1>1. /\ Reads(v, keys(v), values(v), size(v))
      /\ entries(v) = [i \in 1 .. size(v) |-> [key |-> keys(v)[i], val |-> values(v)[i]]]
  BY Reading
<1>2. /\ size(v) \in Nat /\ DOMAIN keys(v) = 1 .. size(v) /\ Differ(keys(v))
      /\ values(v) \in Seq(Atoms) /\ Len(values(v)) = size(v) /\ DOMAIN values(v) = 1 .. size(v)
      /\ MaxLen \in Nat /\ MaxLen > 0
  BY <1>1, BoundsAssumption DEF Reads
<1>3. v.scalar \in Atoms \cup {Absent} /\ (IsShaped(v) \/ IsListed(v) \/ HasEntries(v))
  BY Representations
<1>4. Contents(v).kids = entries(v) /\ Contents(v).scalar = v.scalar
  BY DEF Contents
<1>5. CASE size(v) = 0 /\ v.scalar = Absent
  <2>1. elems(v) = [vals |-> <<>>, rep |-> "position"]
    BY <1>5 DEF elems
  <2>2. elems(v).vals = <<>> /\ <<>> \in Seq(Atoms) /\ Len(<<>>) = 0 /\ 0 \in 0 .. MaxLen
    BY <1>2, <2>1
  <2>3. OM!Elements(Contents(v)) = [i \in 1 .. 0 |-> [key |-> ElemKey(v, i), val |-> <<>>[i]]]
    BY <1>1, <1>4, <1>5 DEF OM!Elements
  <2>4. Walks(v, <<>>, 0)
    BY <2>2, <2>3 DEF Walks
  <2>. QED  BY <2>2, <2>4
<1>6. CASE size(v) = 0 /\ v.scalar # Absent
  <2>. DEFINE es == <<v.scalar>>
  <2>1. elems(v).vals = es /\ elems(v).rep = "position"
    BY <1>6 DEF elems
  <2>2. /\ es \in Seq(Atoms) /\ Len(es) = 1 /\ 1 \in 0 .. MaxLen /\ DOMAIN es = 1 .. 1
    BY <1>2, <1>3, <1>6
  <2>3. \A i : ElemKey(v, i) = i
    BY <2>1 DEF ElemKey
  <2>4. \A i \in 1 .. 1 : i \in Keys /\ i \in Nat
    BY <1>2 DEF Keys
  <2>5. entries(v) = <<>>
    BY <1>1, <1>6
  <2>6. OM!Elements(Contents(v)) = OM!Numbered(es)
    BY <1>4, <1>6, <2>5 DEF OM!Elements
  <2>. HIDE DEF es
  <2>7. OM!Elements(Contents(v)) = [i \in 1 .. 1 |-> [key |-> ElemKey(v, i), val |-> es[i]]]
    BY <2>2, <2>3, <2>6 DEF OM!Numbered
  <2>8. Walks(v, es, 1)
    BY <2>2, <2>3, <2>4, <2>7 DEF Walks
  <2>. QED  BY <1>6, <2>1, <2>2, <2>8 DEF is_null
<1>7. CASE size(v) # 0
  <2>. DEFINE n == size(v)
  <2>1. /\ elems(v).vals = values(v)
        /\ elems(v).rep = IF v.store = Absent \/ Shaped(v) THEN "text"
                          ELSE IF v.lkeys # Absent THEN v.lkeys.rep ELSE "position"
    BY <1>7 DEF elems
  <2>2. \A i \in 1 .. n : ElemKey(v, i) = keys(v)[i]
    <3>1. CASE elems(v).rep # "position"
      BY <3>1 DEF ElemKey
    <3>2. CASE elems(v).rep = "position"
      <4>1. IsListed(v) /\ v.lkeys = Absent
        BY <1>3, <2>1, <3>2 DEF IsShaped, IsListed, HasEntries, Shaped
      <4>2. keys(v) = [i \in 1 .. Len(v.store) |-> i] /\ Reads(v, keys(v), v.store, Len(v.store))
        BY <4>1, ReadListed
      <4>3. n = Len(v.store)
        BY <4>2 DEF Reads
      <4>. QED  BY <3>2, <4>2, <4>3 DEF ElemKey
    <3>. QED  BY <3>1, <3>2
  <2>3. ASSUME elems(v).rep # "text"
        PROVE  /\ \A i \in 1 .. n : keys(v)[i] \in Nat
               /\ \A i, j \in 1 .. n : i < j => keys(v)[i] < keys(v)[j]
    <3>1. IsListed(v)
      BY <1>3, <2>1, <2>3 DEF IsShaped, IsListed, HasEntries, Shaped
    <3>2. /\ Reads(v, keys(v), v.store, Len(v.store))
          /\ v.lkeys # Absent => keys(v) = v.lkeys.at
          /\ v.lkeys = Absent => keys(v) = [i \in 1 .. Len(v.store) |-> i]
      BY <3>1, ReadListed
    <3>3. n = Len(v.store)
      BY <3>2 DEF Reads
    <3>4. CASE v.lkeys = Absent
      BY <1>2, <3>2, <3>3, <3>4
    <3>5. CASE v.lkeys # Absent
      <4>1. Ascending(v.lkeys.at)
        BY <2>1, <2>3, <3>1, <3>5 DEF IsListed, Shaped
      <4>2. Ascending(keys(v))
        BY <3>2, <3>5, <4>1
      <4>. DEFINE ks == keys(v)
      <4>3. ks \in Seq(Nat) /\ DOMAIN ks = 1 .. n /\ \A i, j \in DOMAIN ks : i < j => ks[i] < ks[j]
        BY <1>2, <4>2 DEF Ascending
      <4>. HIDE DEF ks
      <4>4. \A i \in DOMAIN ks : ks[i] \in Nat
        <5>1. ks \in Seq(Nat)
          BY <4>3
        <5>. QED  BY <5>1
      <4>. QED  BY <4>3, <4>4 DEF ks
    <3>. QED  BY <3>4, <3>5
  <2>4. OM!Elements(Contents(v)) = entries(v)
    <3>1. entries(v) # <<>>
      BY <1>1, <1>2, <1>7
    <3>. QED  BY <1>4, <3>1 DEF OM!Elements
  <2>5. entries(v) = [i \in 1 .. n |-> [key |-> ElemKey(v, i), val |-> values(v)[i]]]
    BY <1>1, <2>2
  <2>6. \A i, j \in 1 .. n : ElemKey(v, i) = ElemKey(v, j) => i = j
    BY <1>2, <2>2 DEF Differ
  <2>. HIDE DEF n
  <2>7. Walks(v, values(v), n)
    BY <1>2, <2>2, <2>3, <2>4, <2>5, <2>6 DEF Walks, Keyed, n
  <2>8. ~is_null(v)
    BY <1>7 DEF is_null
  <2>. QED  BY <1>2, <2>1, <2>7, <2>8 DEF n
<1>. QED  BY <1>5, <1>6, <1>7

\* The values the ordered map's aggregates walk.
LEMMA ValuesAre ==
  ASSUME NEW v, NEW es, NEW n, Walks(v, es, n)
  PROVE  OM!Values(Contents(v)) = es
<1>1. /\ OM!Elements(Contents(v)) = [i \in 1 .. n |-> [key |-> ElemKey(v, i), val |-> es[i]]]
      /\ es \in Seq(Atoms) /\ DOMAIN es = 1 .. n
  BY DEF Walks
<1>2. OM!Values(Contents(v)) = [i \in 1 .. n |-> es[i]]
  BY <1>1 DEF OM!Values
<1>. QED  BY <1>1, <1>2

\* Which positions are kept depends on the number of rows only.
LEMMA InOrderSame ==
  ASSUME NEW rows, NEW others, NEW N \in Nat, DOMAIN rows = 1 .. N, DOMAIN others = 1 .. N, NEW kept
  PROVE  InOrder(rows, kept) = InOrder(others, kept)
<1>1. PICK run : Tested(run, rows, N, kept)
  BY InOrderRuns
<1>2. PICK run2 : Tested(run2, others, N, kept)
  BY InOrderRuns
<1>. DEFINE S == {n \in 0 .. N : run[n] = run2[n]}
<1>3. 0 \in S
  BY <1>1, <1>2 DEF Tested
<1>4. ASSUME NEW n \in 0 .. N - 1, n \in S
      PROVE  n + 1 \in S
  <2>1. n + 1 \in 1 .. N /\ n + 1 \in 0 .. N /\ (n + 1) - 1 = n
    OBVIOUS
  <2>2. /\ run[n + 1] = IF n + 1 \in kept THEN Append(run[n], n + 1) ELSE run[n]
        /\ run2[n + 1] = IF n + 1 \in kept THEN Append(run2[n], n + 1) ELSE run2[n]
    BY <1>1, <1>2, <2>1 DEF Tested
  <2>. QED  BY <1>4, <2>1, <2>2
<1>5. N \in S
  <2>1. \A n \in 0 .. N : n \in S
    <3>. HIDE DEF S
    <3>. QED  BY <1>3, <1>4, InductionUpTo
  <2>2. N \in 0 .. N
    OBVIOUS
  <2>. HIDE DEF S
  <2>. QED  BY <2>1, <2>2
<1>. QED  BY <1>1, <1>2, <1>5 DEF Tested

-----------------------------------------------------------------------------
(* FILTER, TAKE and DROP. *)

\* What FILTER keeps of the rows of n children, and of their keys.
KeptOf(f, order) == [i \in DOMAIN order |-> f[order[i]]]
KeysOf(v, order) == [i \in DOMAIN order |-> ElemKey(v, order[i])]

\* The keys and the values of the rows that are kept.
LEMMA KeptRows ==
  ASSUME NEW v, NEW es, NEW n \in Nat, Walks(v, es, n),
         NEW kept, NEW order \in Seq(1 .. n), Sifted(order, n, kept),
         NEW vals, vals = KeptOf(es, order), NEW at, at = KeysOf(v, order)
  PROVE  /\ vals \in Seq(Atoms) /\ Len(vals) = Len(order)
         /\ at \in Seq(Keys) /\ Len(at) = Len(order) /\ Differ(at)
         /\ elems(v).rep # "text" => Ascending(at)
<1>1. /\ DOMAIN order = 1 .. Len(order) /\ Len(order) \in Nat
      /\ \A i \in DOMAIN order : order[i] \in 1 .. n
  OBVIOUS
<1>2. \A i, j \in DOMAIN order : i < j => order[i] < order[j]
  BY DEF Sifted
<1>3. /\ \A i \in 1 .. n : es[i] \in Atoms /\ ElemKey(v, i) \in Keys
      /\ \A i, j \in 1 .. n : ElemKey(v, i) = ElemKey(v, j) => i = j
  BY DEF Walks
<1>. DEFINE L == Len(order)
<1>4. vals \in [1 .. L -> Atoms]
  BY <1>1, <1>3 DEF KeptOf
<1>5. \A i \in 1 .. L : at[i] = ElemKey(v, order[i])
  BY <1>1 DEF KeysOf
<1>6. at \in [1 .. L -> Keys]
  BY <1>1, <1>3 DEF KeysOf
<1>. HIDE DEF L
<1>7. vals \in Seq(Atoms) /\ Len(vals) = L /\ at \in Seq(Keys) /\ Len(at) = L /\ DOMAIN at = 1 .. L
  <2>1. L \in Nat
    BY <1>1 DEF L
  <2>. QED  BY <1>4, <1>6, <2>1
<1>8. Differ(at)
  <2>1. ASSUME NEW i \in 1 .. L, NEW j \in 1 .. L, at[i] = at[j]
        PROVE  i = j
    <3>1. order[i] = order[j]
      BY <1>1, <1>3, <1>5, <2>1 DEF L
    <3>2. i \in Int /\ j \in Int /\ order[i] \in Int /\ order[j] \in Int
      <4>1. i \in DOMAIN order /\ j \in DOMAIN order
        BY <1>1 DEF L
      <4>2. order[i] \in 1 .. n /\ order[j] \in 1 .. n
        BY <1>1, <4>1
      <4>. QED  BY <1>1, <4>1, <4>2
    <3>3. (i < j => order[i] < order[j]) /\ (j < i => order[j] < order[i])
      BY <1>1, <1>2 DEF L
    <3>. QED  BY <3>1, <3>2, <3>3
  <2>. QED  BY <1>7, <2>1 DEF Differ
<1>9. ASSUME elems(v).rep # "text"
      PROVE  Ascending(at)
  <2>1. /\ \A i \in 1 .. n : ElemKey(v, i) \in Nat
        /\ \A i, j \in 1 .. n : i < j => ElemKey(v, i) < ElemKey(v, j)
    BY <1>9 DEF Walks
  <2>2. \A i \in 1 .. L : at[i] \in Nat
    BY <1>1, <1>5, <2>1 DEF L
  <2>3. at \in Seq(Nat)
    <3>1. at \in [1 .. L -> Nat] /\ L \in Nat
      BY <1>1, <1>6, <2>2 DEF L
    <3>. QED  BY <3>1
  <2>4. \A i, j \in 1 .. L : i < j => at[i] < at[j]
    BY <1>1, <1>2, <1>5, <2>1 DEF L
  <2>. QED  BY <1>7, <2>3, <2>4 DEF Ascending
<1>. QED  BY <1>7, <1>8, <1>9 DEF L

\* The ordered map's FILTER keeps the same rows.
LEMMA PickIs ==
  ASSUME NEW v, NEW es, NEW n \in Nat, Walks(v, es, n), NEW kept,
         NEW order, order = InOrder(es, kept), order \in Seq(1 .. n),
         NEW vals, vals = KeptOf(es, order), Len(vals) = Len(order),
         NEW at, at = KeysOf(v, order)
  PROVE  OM!Filtered(Contents(v), kept) = OM!ListOf(Paired(at, vals))
<1>. DEFINE kids == OM!Elements(Contents(v))
<1>1. /\ kids = [i \in 1 .. n |-> [key |-> ElemKey(v, i), val |-> es[i]]]
      /\ DOMAIN es = 1 .. n
  BY DEF Walks
<1>2. DOMAIN kids = 1 .. n /\ \A i \in 1 .. n : kids[i] = [key |-> ElemKey(v, i), val |-> es[i]]
  BY <1>1
<1>. HIDE DEF kids
<1>3. OM!InOrder(kids, kept) = order
  <2>1. DOMAIN kids = 1 .. n /\ DOMAIN es = 1 .. n
    BY <1>1, <1>2
  <2>2. OM!InOrder(kids, kept) = InOrder(kids, kept)
    BY <2>1, InOrderIs
  <2>3. InOrder(kids, kept) = InOrder(es, kept)
    BY <2>1, InOrderSame
  <2>. QED  BY <2>2, <2>3
<1>4. OM!Pick(kids, kept) = KeptOf(kids, order)
  BY <1>3 DEF OM!Pick, KeptOf
<1>5. DOMAIN order = 1 .. Len(order) /\ \A i \in DOMAIN order : order[i] \in 1 .. n
  OBVIOUS
<1>6. KeptOf(kids, order) = [i \in 1 .. Len(order) |-> [key |-> at[i], val |-> vals[i]]]
  <2>1. \A i \in DOMAIN order : kids[order[i]] = [key |-> at[i], val |-> vals[i]]
    BY <1>2, <1>5 DEF KeptOf, KeysOf
  <2>. QED  BY <1>5, <2>1 DEF KeptOf
<1>7. OM!Pick(kids, kept) = Paired(at, vals)
  BY <1>4, <1>6 DEF Paired
<1>. QED  BY <1>7 DEF OM!Filtered, kids

\* What an operation that makes a value of v's rows makes of it.
Makes(w, om) == Good(w) /\ Keyed(w) /\ size(w) <= MaxLen /\ Contents(w) = om

\* FILTER: the rows that are kept under the keys they had.
LEMMA FilterIs ==
  ASSUME NEW v, Good(v), Keyed(v), size(v) <= MaxLen, NEW kept, kept \subseteq DOMAIN elems(v).vals
  PROVE  Makes(filter_rows(v, kept), OM!Filtered(Contents(v), kept))
<1>. DEFINE es == elems(v).vals
            n == Len(es)
            order == InOrder(es, kept)
            vals == KeptOf(es, order)
            at == KeysOf(v, order)
            rep == elems(v).rep
            w == filter_rows(v, kept)
<1>1. Walks(v, es, n)
  BY ElemsAre
<1>2. n \in Nat /\ n <= MaxLen /\ DOMAIN es = 1 .. n /\ es \in Seq(Atoms) /\ MaxLen \in Nat
  BY <1>1, BoundsAssumption DEF Walks
<1>3. w = IF Len(order) = n /\ \A i \in DOMAIN es : ElemKey(v, i) = i THEN list(vals)
          ELSE IF rep = "text" /\ kept # {}
          THEN list_with_list_keys(vals, "text", at)
          ELSE list_with_list_keys(vals, "index", at)
  BY DEF filter_rows, KeptOf, KeysOf
<1>. HIDE DEF es, n, w
<1>4. order \in Seq(1 .. n) /\ Sifted(order, n, kept)
  BY <1>2, InOrderIs
<1>. HIDE DEF order
<1>5. /\ vals \in Seq(Atoms) /\ Len(vals) = Len(order)
      /\ at \in Seq(Keys) /\ Len(at) = Len(order) /\ Differ(at)
      /\ elems(v).rep # "text" => Ascending(at)
  <2>. DEFINE xs == vals
              ks == at
  <2>1. xs = KeptOf(es, order) /\ ks = KeysOf(v, order)
    OBVIOUS
  <2>. HIDE DEF xs, ks
  <2>2. /\ xs \in Seq(Atoms) /\ Len(xs) = Len(order)
        /\ ks \in Seq(Keys) /\ Len(ks) = Len(order) /\ Differ(ks)
        /\ elems(v).rep # "text" => Ascending(ks)
    BY <1>1, <1>2, <1>4, <2>1, KeptRows
  <2>. QED  BY <2>2 DEF xs, ks
<1>6. vals = KeptOf(es, order) /\ at = KeysOf(v, order)
  OBVIOUS
<1>. HIDE DEF vals, at
<1>7. OM!Filtered(Contents(v), kept) = OM!ListOf(Paired(at, vals))
  BY <1>1, <1>2, <1>4, <1>5, <1>6, PickIs DEF order
<1>8. Len(order) <= n /\ Len(order) \in Nat /\ Len(vals) <= MaxLen
  BY <1>2, <1>4, <1>5 DEF Sifted
<1>9. CASE Len(order) = n /\ \A i \in DOMAIN es : ElemKey(v, i) = i
  <2>1. \A i \in 1 .. n : order[i] = i /\ ElemKey(v, i) = i
    BY <1>2, <1>4, <1>9 DEF Sifted
  <2>2. DOMAIN order = 1 .. n
    BY <1>4, <1>9
  <2>3. DOMAIN vals = 1 .. n /\ Len(vals) = n /\ \A i \in 1 .. n : at[i] = i
    BY <1>5, <1>6, <1>9, <2>1, <2>2 DEF KeysOf
  <2>4. Paired(at, vals) = OM!Numbered(vals)
    BY <2>3 DEF Paired, OM!Numbered
  <2>5. w = list(vals)
    BY <1>3, <1>9
  <2>. QED  BY <1>5, <1>7, <1>8, <2>4, <2>5, ListIs DEF Makes, w
<1>10. CASE /\ ~(Len(order) = n /\ \A i \in DOMAIN es : ElemKey(v, i) = i)
            /\ rep = "text" /\ kept # {}
  <2>1. w = list_with_list_keys(vals, "text", at)
    BY <1>3, <1>10
  <2>2. "text" \in {"text", "index"} /\ "text" # "index"
    OBVIOUS
  <2>. QED  BY <1>5, <1>7, <1>8, <2>1, <2>2, KeptListIs DEF Makes, w
<1>11. CASE /\ ~(Len(order) = n /\ \A i \in DOMAIN es : ElemKey(v, i) = i)
            /\ ~(rep = "text" /\ kept # {})
  <2>1. w = list_with_list_keys(vals, "index", at)
    BY <1>3, <1>11
  <2>2. Ascending(at)
    <3>1. CASE rep # "text"
      BY <1>5, <3>1
    <3>2. CASE kept = {}
      <4>1. Len(order) = 0
        <5>1. DOMAIN order = 1 .. Len(order) /\ \A i \in DOMAIN order : i \notin DOMAIN order
          BY <1>4, <3>2 DEF Sifted
        <5>. QED  BY <1>8, <5>1
      <4>2. at = <<>>
        BY <1>5, <4>1
      <4>. QED  BY <4>2 DEF Ascending
    <3>. QED  BY <1>11, <3>1, <3>2
  <2>3. "index" \in {"text", "index"}
    OBVIOUS
  <2>. QED  BY <1>5, <1>7, <1>8, <2>1, <2>2, <2>3, KeptListIs DEF Makes, w
<1>. QED  BY <1>9, <1>10, <1>11

\* Some of the rows, one after the other, are numbered anew.
LEMMA SomeRows ==
  ASSUME NEW es \in Seq(Atoms), NEW n \in Nat, Len(es) = n, n <= MaxLen, MaxLen \in Nat,
         NEW a \in 1 .. n + 1, NEW b \in 0 .. n
  PROVE  /\ SubSeq(es, a, b) \in Seq(Atoms) /\ Len(SubSeq(es, a, b)) <= MaxLen
         /\ a > b => SubSeq(es, a, b) = <<>>
<1>1. CASE a <= b
  <2>1. SubSeq(es, a, b) \in Seq(Atoms) /\ Len(SubSeq(es, a, b)) = b - a + 1
    BY <1>1
  <2>. QED  BY <1>1, <2>1
<1>2. CASE a > b
  <2>1. SubSeq(es, a, b) = <<>>
    BY <1>2
  <2>. QED  BY <1>2, <2>1
<1>. QED  BY <1>1, <1>2

\* The lesser of two.
LEMMA MinOfTwo ==
  ASSUME NEW a \in Nat, NEW b \in Nat
  PROVE  /\ Min({a, b}) = IF a <= b THEN a ELSE b
         /\ OM!Min({a, b}) = IF a <= b THEN a ELSE b
<1>. DEFINE m == IF a <= b THEN a ELSE b
<1>1. m \in {a, b} /\ (\A y \in {a, b} : m <= y)
      /\ \A x \in {a, b} : (\A y \in {a, b} : x <= y) => x = m
  OBVIOUS
<1>. HIDE DEF m
<1>2. Min({a, b}) = m /\ OM!Min({a, b}) = m
  BY <1>1 DEF Min, OM!Min
<1>. QED  BY <1>2 DEF m

\* TAKE and DROP: the rows at one end, numbered anew.
LEMMA FirstIs ==
  ASSUME NEW v, Good(v), Keyed(v), size(v) <= MaxLen, NEW n \in Nat
  PROVE  /\ Makes(FirstRows(v, n), OM!First(Contents(v), n))
         /\ Makes(RestRows(v, n), OM!Rest(Contents(v), n))
<1>. DEFINE es == elems(v).vals
            len == Len(es)
<1>1. Walks(v, es, len) /\ (is_null(v) => es = <<>>)
  BY ElemsAre
<1>2. /\ len \in Nat /\ len <= MaxLen /\ es \in Seq(Atoms) /\ MaxLen \in Nat
      /\ OM!Values(Contents(v)) = es
  <2>1. OM!Values(Contents(v)) = es
    <3>. HIDE DEF es
    <3>. QED  BY <1>1, ValuesAre
  <2>. QED  BY <1>1, <2>1, BoundsAssumption DEF Walks
<1>. DEFINE m == Min({n, Len(es)})
<1>3. m \in 0 .. len /\ OM!Min({n, len}) = m /\ (n = 0 => m = 0)
  <2>1. n \in Nat /\ len \in Nat
    BY <1>2
  <2>. HIDE DEF len
  <2>2. Min({n, len}) = (IF n <= len THEN n ELSE len) /\ OM!Min({n, len}) = Min({n, len})
    BY <2>1, MinOfTwo
  <2>. QED  BY <2>1, <2>2 DEF len
<1>4. /\ FirstRows(v, n) = list(IF n = 0 \/ is_null(v) THEN <<>> ELSE SubSeq(es, 1, m))
      /\ RestRows(v, n) = list(IF is_null(v) \/ n >= len THEN <<>> ELSE SubSeq(es, n + 1, len))
      /\ OM!First(Contents(v), n) = OM!ListOf(OM!Numbered(SubSeq(es, 1, m)))
      /\ OM!Rest(Contents(v), n) = OM!ListOf(OM!Numbered(SubSeq(es, n + 1, len)))
  BY <1>2, <1>3 DEF FirstRows, RestRows, OM!First, OM!Rest
<1>. HIDE DEF m, es
<1>. DEFINE first == SubSeq(es, 1, m)
            rest == SubSeq(es, n + 1, len)
<1>5. /\ first \in Seq(Atoms) /\ Len(first) <= MaxLen
      /\ (n = 0 \/ is_null(v)) => first = <<>>
  <2>1. is_null(v) => len = 0
    BY <1>1
  <2>2. 1 \in 1 .. len + 1 /\ ((n = 0 \/ is_null(v)) => 1 > m)
    BY <1>2, <1>3, <2>1
  <2>. HIDE DEF len
  <2>. QED  BY <1>2, <1>3, <2>2, SomeRows DEF len
<1>6. /\ rest \in Seq(Atoms) /\ Len(rest) <= MaxLen
      /\ (is_null(v) \/ n >= len) => rest = <<>>
  <2>1. is_null(v) => len = 0
    BY <1>1
  <2>2. CASE n <= len
    <3>1. n + 1 \in 1 .. len + 1 /\ len \in 0 .. len /\ ((is_null(v) \/ n >= len) => n + 1 > len)
      BY <1>2, <2>1, <2>2
    <3>. HIDE DEF len
    <3>. QED  BY <1>2, <3>1, SomeRows DEF len
  <2>3. CASE ~(n <= len)
    <3>1. rest = <<>>
      BY <1>2, <2>3
    <3>2. <<>> \in Seq(Atoms) /\ Len(<<>>) <= MaxLen
      BY <1>2
    <3>. HIDE DEF rest
    <3>. QED  BY <3>1, <3>2
  <2>. QED  BY <2>2, <2>3
<1>7. FirstRows(v, n) = list(first) /\ RestRows(v, n) = list(rest)
  <2>. HIDE DEF first, rest
  <2>1. (n = 0 \/ is_null(v)) => first = <<>>
    BY <1>5
  <2>2. (is_null(v) \/ n >= len) => rest = <<>>
    BY <1>6
  <2>. QED  BY <1>4, <2>1, <2>2 DEF first, rest
<1>8. /\ OM!First(Contents(v), n) = OM!ListOf(OM!Numbered(first))
      /\ OM!Rest(Contents(v), n) = OM!ListOf(OM!Numbered(rest))
  BY <1>4
<1>. HIDE DEF first, rest
<1>. QED  BY <1>5, <1>6, <1>7, <1>8, ListIs DEF Makes

-----------------------------------------------------------------------------
(* A record made of entries: FoldLeft, step by step. *)

Kids == {kids \in Seq(Entries) : KeysDiffer(kids)}
Made == {v \in Inner : Good(v) /\ Keyed(v)}
PutStep(p, ents) == OM!Put(p[1], ents[p[2]].key, ents[p[2]].val)
SetStep(p, ents) == set(p[1], ents[p[2]].key, ents[p[2]].val)

\* Storing entries one after the other in an ordered map, and in a cell.
PutRun(run, ents, N) ==
  /\ run \in [0 .. N -> Kids] /\ run[0] = <<>>
  /\ \A n \in 1 .. N : run[n] = OM!Put(run[n - 1], ents[n].key, ents[n].val)
SetRun(run, ents, N) ==
  /\ run \in [0 .. N -> Made] /\ run[0] = blank
  /\ \A n \in 1 .. N : run[n] = set(run[n - 1], ents[n].key, ents[n].val)

\* What PutAll comes to, entry by entry.
LEMMA PutAllRuns ==
  ASSUME NEW ents \in Seq(Entries), NEW N \in Nat, N = Len(ents)
  PROVE  \E run : PutRun(run, ents, N) /\ OM!PutAll(ents) = run[N]
<1>. DEFINE D == DOMAIN ents
            Is(f) == f = [s \in SUBSET D |->
                            IF s = {} THEN <<>>
                            ELSE OM!Put(f[s \ {Max(s)}], ents[Max(s)].key, ents[Max(s)].val)]
            it == CHOOSE f : Is(f)
<1>. PICK step : step = [p \in Kids \X (1 .. N) |-> PutStep(p, ents)]
  OBVIOUS
<1>1. OM!PutAll(ents) = it[D]
  BY DEF OM!PutAll, OM!FoldLeft, OM!MapThenFoldSet, OM!Max, Max
<1>2. /\ D = 1 .. N /\ <<>> \in Kids
      /\ \A n \in 1 .. N : ents[n].key \in Keys /\ ents[n].val \in Atoms
  BY EntryFields DEF Kids, KeysDiffer
<1>3. \A q \in Kids, n \in 1 .. N :
        /\ step[<<q, n>>] = OM!Put(q, ents[n].key, ents[n].val) /\ step[<<q, n>>] \in Kids
  <2>1. ASSUME NEW q \in Kids, NEW n \in 1 .. N
        PROVE  OM!Put(q, ents[n].key, ents[n].val) \in Kids
    <3>. DEFINE k == ents[n].key
                a == ents[n].val
    <3>1. k \in Keys /\ a \in Atoms /\ q \in Seq(Entries) /\ KeysDiffer(q)
      BY <1>2 DEF Kids
    <3>. HIDE DEF k, a
    <3>2. OM!Put(q, k, a) \in Seq(Entries) /\ KeysDiffer(OM!Put(q, k, a))
      BY <3>1, PutIs
    <3>. QED  BY <3>2 DEF Kids, k, a
  <2>2. \A q \in Kids, n \in 1 .. N : step[<<q, n>>] = OM!Put(q, ents[n].key, ents[n].val)
    BY DEF PutStep
  <2>3. \A q \in Kids, n \in 1 .. N :
          /\ step[<<q, n>>] = OM!Put(q, ents[n].key, ents[n].val) /\ step[<<q, n>>] \in Kids
    BY <2>1, <2>2
  <2>. QED  BY <2>3
<1>4. IsStep(step, N, Kids)
  <2>1. ASSUME NEW p \in Kids \X (1 .. N)
        PROVE  step[p] \in Kids
    <3>1. p = <<p[1], p[2]>> /\ p[1] \in Kids /\ p[2] \in 1 .. N
      OBVIOUS
    <3>. QED  BY <1>3, <3>1
  <2>2. step = [p \in Kids \X (1 .. N) |-> step[p]]
    OBVIOUS
  <2>. QED  BY <2>1, <2>2 DEF IsStep
<1>5. \A s \in SUBSET (1 .. N) : s # {} => Max(s) \in 1 .. N /\ s \ {Max(s)} \in SUBSET (1 .. N)
  BY MaxIs
<1>6. PICK g : IsFold(g, N, Kids, <<>>, step)
  BY <1>2, <1>4, FoldExists
<1>7. \A s \in SUBSET (1 .. N) :
        g[s] = IF s = {} THEN <<>>
               ELSE OM!Put(g[s \ {Max(s)}], ents[Max(s)].key, ents[Max(s)].val)
  <2>1. ASSUME NEW s \in SUBSET (1 .. N), s # {}
        PROVE  g[s] = OM!Put(g[s \ {Max(s)}], ents[Max(s)].key, ents[Max(s)].val)
    <3>1. g[s] = step[<<g[s \ {Max(s)}], Max(s)>>]
      BY <1>6, <2>1 DEF IsFold
    <3>2. g[s \ {Max(s)}] \in Kids /\ Max(s) \in 1 .. N
      BY <1>5, <1>6, <2>1 DEF IsFold
    <3>. QED  BY <1>3, <3>1, <3>2
  <2>2. g[{}] = <<>>
    BY <1>6 DEF IsFold
  <2>. QED  BY <2>1, <2>2
<1>8. Is(g)
  BY <1>2, <1>6, <1>7 DEF IsFold
<1>9. Is(it)
  <2>. HIDE DEF Is
  <2>. QED  BY <1>8
<1>10. Recurs(it, N, Kids, <<>>, step)
  <2>1. \A s \in SUBSET (1 .. N) :
          it[s] = IF s = {} THEN <<>>
                  ELSE OM!Put(it[s \ {Max(s)}], ents[Max(s)].key, ents[Max(s)].val)
    <3>. HIDE DEF it
    <3>. QED  BY <1>2, <1>9
  <2>. HIDE DEF it
  <2>. QED  BY <2>1, <1>3, <1>5 DEF Recurs
<1>. HIDE DEF it
<1>11. PICK run : IsRun(run, N, Kids, <<>>, step) /\ it[1 .. N] = run[N]
  <2>1. <<>> \in Kids
    BY <1>2
  <2>. QED  BY <1>4, <1>10, <2>1, FoldRuns
<1>12. PutRun(run, ents, N)
  <2>1. \A n \in 1 .. N : n - 1 \in 0 .. N
    OBVIOUS
  <2>. QED  BY <1>3, <1>11, <2>1 DEF IsRun, PutRun
<1>. QED  BY <1>1, <1>2, <1>11, <1>12

\* The folded entries of a record, and what its cell then is.
FoldedRecord(ents) == FoldLeft(LAMBDA v, e : set(v, e.key, e.val), blank, ents)

\* The cell Value::none makes.
LEMMA BlankIs ==
  /\ Good(blank) /\ Keyed(blank) /\ size(blank) = 0 /\ entries(blank) = <<>>
  /\ blank \in Inner /\ Contents(blank) = OM!Blank /\ blank.scalar = Absent /\ blank.list = FALSE
<1>1. /\ blank.scalar = Absent /\ blank.list = FALSE /\ blank.shape = Absent /\ blank.store = Absent
      /\ blank.lkeys = Absent /\ blank.ents = <<>> /\ blank.index = Absent /\ blank \in Inner
  BY DEF blank, Inner
<1>2. HasEntries(blank)
  BY <1>1 DEF HasEntries, EntsOK
<1>3. Good(blank)
  BY <1>1, <1>2, ReprGood
<1>4. entries(blank) = <<>> /\ Keyed(blank) /\ size(blank) = 0
  BY <1>1, <1>2, <1>3, EntriesAreEnts
<1>5. Contents(blank) = OM!Blank
  BY <1>1, <1>4 DEF Contents, OM!Blank
<1>. QED  BY <1>1, <1>3, <1>4, <1>5

\* What folding set over the entries comes to, entry by entry.
LEMMA FoldedRuns ==
  ASSUME NEW ents \in Seq(Entries), NEW N \in Nat, N = Len(ents)
  PROVE  \E run : SetRun(run, ents, N) /\ FoldedRecord(ents) = run[N]
<1>. DEFINE D == DOMAIN ents
            Is(f) == f = [s \in SUBSET D |->
                            IF s = {} THEN blank
                            ELSE set(f[s \ {Max(s)}], ents[Max(s)].key, ents[Max(s)].val)]
            it == CHOOSE f : Is(f)
<1>. PICK step : step = [p \in Made \X (1 .. N) |-> SetStep(p, ents)]
  OBVIOUS
<1>1. FoldedRecord(ents) = it[D]
  BY DEF FoldedRecord, FoldLeft, MapThenFoldSet
<1>2. /\ D = 1 .. N /\ blank \in Made
      /\ \A n \in 1 .. N : ents[n].key \in Keys /\ ents[n].val \in Atoms
  BY EntryFields, BlankIs DEF Made
<1>3. \A q \in Made, n \in 1 .. N :
        /\ step[<<q, n>>] = set(q, ents[n].key, ents[n].val) /\ step[<<q, n>>] \in Made
  <2>1. ASSUME NEW q \in Made, NEW n \in 1 .. N
        PROVE  set(q, ents[n].key, ents[n].val) \in Made
    <3>. DEFINE k == ents[n].key
                a == ents[n].val
    <3>1. k \in Keys /\ a \in Atoms /\ Good(q) /\ Keyed(q)
      BY <1>2 DEF Made
    <3>. HIDE DEF k, a
    <3>2. Good(set(q, k, a)) /\ Keyed(set(q, k, a))
      BY <3>1, SetIs DEF Writes
    <3>. QED  BY <3>2 DEF Made, Good, k, a
  <2>2. \A q \in Made, n \in 1 .. N : step[<<q, n>>] = set(q, ents[n].key, ents[n].val)
    BY DEF SetStep
  <2>3. \A q \in Made, n \in 1 .. N :
          /\ step[<<q, n>>] = set(q, ents[n].key, ents[n].val) /\ step[<<q, n>>] \in Made
    BY <2>1, <2>2
  <2>. QED  BY <2>3
<1>4. IsStep(step, N, Made)
  <2>1. ASSUME NEW p \in Made \X (1 .. N)
        PROVE  step[p] \in Made
    <3>1. p = <<p[1], p[2]>> /\ p[1] \in Made /\ p[2] \in 1 .. N
      OBVIOUS
    <3>. QED  BY <1>3, <3>1
  <2>2. step = [p \in Made \X (1 .. N) |-> step[p]]
    OBVIOUS
  <2>. QED  BY <2>1, <2>2 DEF IsStep
<1>5. \A s \in SUBSET (1 .. N) : s # {} => Max(s) \in 1 .. N /\ s \ {Max(s)} \in SUBSET (1 .. N)
  BY MaxIs
<1>6. PICK g : IsFold(g, N, Made, blank, step)
  BY <1>2, <1>4, FoldExists
<1>7. \A s \in SUBSET (1 .. N) :
        g[s] = IF s = {} THEN blank
               ELSE set(g[s \ {Max(s)}], ents[Max(s)].key, ents[Max(s)].val)
  <2>1. ASSUME NEW s \in SUBSET (1 .. N), s # {}
        PROVE  g[s] = set(g[s \ {Max(s)}], ents[Max(s)].key, ents[Max(s)].val)
    <3>1. g[s] = step[<<g[s \ {Max(s)}], Max(s)>>]
      BY <1>6, <2>1 DEF IsFold
    <3>2. g[s \ {Max(s)}] \in Made /\ Max(s) \in 1 .. N
      BY <1>5, <1>6, <2>1 DEF IsFold
    <3>. QED  BY <1>3, <3>1, <3>2
  <2>2. g[{}] = blank
    BY <1>6 DEF IsFold
  <2>. QED  BY <2>1, <2>2
<1>8. Is(g)
  BY <1>2, <1>6, <1>7 DEF IsFold
<1>9. Is(it)
  <2>. HIDE DEF Is
  <2>. QED  BY <1>8
<1>10. Recurs(it, N, Made, blank, step)
  <2>1. \A s \in SUBSET (1 .. N) :
          it[s] = IF s = {} THEN blank
                  ELSE set(it[s \ {Max(s)}], ents[Max(s)].key, ents[Max(s)].val)
    <3>. HIDE DEF it
    <3>. QED  BY <1>2, <1>9
  <2>. HIDE DEF it
  <2>. QED  BY <2>1, <1>3, <1>5 DEF Recurs
<1>. HIDE DEF it
<1>11. PICK run : IsRun(run, N, Made, blank, step) /\ it[1 .. N] = run[N]
  <2>1. blank \in Made
    BY <1>2
  <2>. QED  BY <1>4, <1>10, <2>1, FoldRuns
<1>12. SetRun(run, ents, N)
  <2>1. \A n \in 1 .. N : n - 1 \in 0 .. N
    OBVIOUS
  <2>. QED  BY <1>3, <1>11, <2>1 DEF IsRun, SetRun
<1>. QED  BY <1>1, <1>2, <1>11, <1>12

\* Storing one entry after another makes of a cell what it makes of an ordered map.
LEMMA FoldedIs ==
  ASSUME NEW ents \in Seq(Entries)
  PROVE  /\ Writes(blank, FoldedRecord(ents), OM!PutAll(ents))
         /\ Len(OM!PutAll(ents)) <= Len(ents)
<1>. DEFINE N == Len(ents)
<1>1. N \in Nat /\ \A n \in 1 .. N : ents[n].key \in Keys /\ ents[n].val \in Atoms
  BY EntryFields
<1>. HIDE DEF N
<1>2. PICK put : PutRun(put, ents, N) /\ OM!PutAll(ents) = put[N]
  BY <1>1, PutAllRuns DEF N
<1>3. PICK run : SetRun(run, ents, N) /\ FoldedRecord(ents) = run[N]
  BY <1>1, FoldedRuns DEF N
<1>. DEFINE S == {n \in 0 .. N : Writes(blank, run[n], put[n]) /\ Len(put[n]) <= n}
<1>4. 0 \in S
  <2>1. run[0] = blank /\ put[0] = <<>> /\ 0 \in 0 .. N
    BY <1>1, <1>2, <1>3 DEF PutRun, SetRun
  <2>2. Writes(blank, blank, <<>>)
    BY BlankIs DEF Writes
  <2>. QED  BY <2>1, <2>2
<1>5. ASSUME NEW n \in 0 .. N - 1, n \in S
      PROVE  n + 1 \in S
  <2>. DEFINE v == run[n]
              kids == put[n]
              k == ents[n + 1].key
              a == ents[n + 1].val
  <2>1. /\ n + 1 \in 1 .. N /\ n + 1 \in 0 .. N /\ (n + 1) - 1 = n /\ n \in 0 .. N /\ n \in Nat
        /\ k \in Keys /\ a \in Atoms
    BY <1>1
  <2>2. /\ run[n + 1] = set(v, k, a) /\ put[n + 1] = OM!Put(kids, k, a)
        /\ Writes(blank, v, kids) /\ Len(kids) <= n
        /\ kids \in Seq(Entries) /\ KeysDiffer(kids)
    BY <1>2, <1>3, <1>5, <2>1 DEF PutRun, SetRun, Kids
  <2>. HIDE DEF v, kids, k, a
  <2>3. Writes(v, set(v, k, a), OM!Put(kids, k, a))
    BY <2>1, <2>2, SetIs DEF Writes
  <2>4. Writes(blank, set(v, k, a), OM!Put(kids, k, a))
    BY <2>2, <2>3 DEF Writes
  <2>5. Len(OM!Put(kids, k, a)) <= n + 1
    <3>1. Len(kids) \in Nat
      BY <2>2
    <3>2. Len(OM!Put(kids, k, a)) = Len(kids) \/ Len(OM!Put(kids, k, a)) = Len(kids) + 1
      BY <2>1, <2>2, PutIs
    <3>. QED  BY <2>1, <2>2, <3>1, <3>2
  <2>. QED  BY <2>1, <2>2, <2>4, <2>5
<1>6. N \in S
  <2>1. \A n \in 0 .. N : n \in S
    <3>. HIDE DEF S
    <3>. QED  BY <1>1, <1>4, <1>5, InductionUpTo
  <2>2. N \in 0 .. N
    BY <1>1
  <2>. HIDE DEF S
  <2>. QED  BY <2>1, <2>2
<1>. QED  BY <1>2, <1>3, <1>6 DEF N

\* Entries whose keys differ are the ordered map they make.
LEMMA PutAllDiffering ==
  ASSUME NEW ents \in Seq(Entries), KeysDiffer(ents)
  PROVE  OM!PutAll(ents) = ents
<1>. DEFINE N == Len(ents)
            First(n) == [i \in 1 .. n |-> ents[i]]
<1>1. /\ N \in Nat /\ DOMAIN ents = 1 .. N /\ \A n \in 1 .. N : ents[n] \in Entries
      /\ \A n \in 1 .. N : /\ ents[n].key \in Keys /\ ents[n].val \in Atoms
                           /\ ents[n] = [key |-> ents[n].key, val |-> ents[n].val]
  BY EntryFields
<1>. HIDE DEF N
<1>2. PICK put : PutRun(put, ents, N) /\ OM!PutAll(ents) = put[N]
  BY <1>1, PutAllRuns DEF N
<1>. DEFINE S == {n \in 0 .. N : put[n] = First(n)}
<1>3. 0 \in S
  BY <1>1, <1>2 DEF PutRun
<1>4. ASSUME NEW n \in 0 .. N - 1, n \in S
      PROVE  n + 1 \in S
  <2>. DEFINE kids == First(n)
              k == ents[n + 1].key
              a == ents[n + 1].val
  <2>1. /\ n + 1 \in 1 .. N /\ n + 1 \in 0 .. N /\ (n + 1) - 1 = n /\ n \in 0 .. N /\ n \in Nat
        /\ k \in Keys /\ a \in Atoms /\ ents[n + 1] = [key |-> k, val |-> a]
    BY <1>1
  <2>2. put[n + 1] = OM!Put(kids, k, a) /\ kids \in Kids
    <3>1. put[n] = kids
      BY <1>4
    <3>. HIDE DEF kids
    <3>2. put[n] \in Kids
      BY <1>2, <2>1 DEF PutRun
    <3>3. put[n + 1] = OM!Put(put[n], k, a)
      BY <1>2, <2>1 DEF PutRun
    <3>. QED  BY <3>1, <3>2, <3>3
  <2>3. /\ kids \in Seq(Entries) /\ KeysDiffer(kids) /\ DOMAIN kids = 1 .. n /\ Len(kids) = n
        /\ \A i \in 1 .. n : kids[i] = ents[i]
    BY <2>1, <2>2 DEF Kids
  <2>4. \A i \in 1 .. n : ents[i].key # k
    <3>1. \A i \in 1 .. n : i \in DOMAIN ents /\ n + 1 \in DOMAIN ents /\ i # n + 1
      BY <1>1, <2>1
    <3>. QED  BY <3>1 DEF KeysDiffer
  <2>5. First(n + 1) = Append(kids, ents[n + 1])
    <3>1. Append(kids, ents[n + 1]) = [i \in 1 .. n + 1 |-> IF i = n + 1 THEN ents[n + 1] ELSE kids[i]]
      <4>. HIDE DEF kids
      <4>. QED  BY <1>1, <2>1, <2>3
    <3>2. \A i \in 1 .. n + 1 : i = n + 1 \/ i \in 1 .. n
      BY <2>1
    <3>. QED  BY <2>3, <3>1, <3>2
  <2>. HIDE DEF kids, k, a
  <2>6. OM!Put(kids, k, a) = Append(kids, [key |-> k, val |-> a])
    <3>1. \A i \in DOMAIN kids : kids[i].key # k
      BY <2>3, <2>4
    <3>2. kids \in Seq(Entries) /\ KeysDiffer(kids) /\ k \in Keys /\ a \in Atoms
      BY <2>1, <2>3
    <3>. QED  BY <3>1, <3>2, PutIs
  <2>. HIDE DEF First
  <2>7. put[n + 1] = First(n + 1)
    BY <2>1, <2>2, <2>5, <2>6
  <2>. QED  BY <2>1, <2>7
<1>5. N \in S
  <2>1. \A n \in 0 .. N : n \in S
    <3>. HIDE DEF S
    <3>. QED  BY <1>1, <1>3, <1>4, InductionUpTo
  <2>2. N \in 0 .. N
    BY <1>1
  <2>. HIDE DEF S
  <2>. QED  BY <2>1, <2>2
<1>6. put[N] = [i \in 1 .. N |-> ents[i]]
  BY <1>5
<1>7. ents = [i \in 1 .. N |-> ents[i]]
  BY <1>1
<1>. QED  BY <1>2, <1>6, <1>7

\* The cell of a record shape.
ShapedCell(ks, vals) ==
  [scalar |-> Absent, list |-> FALSE, shape |-> ks, store |-> vals,
   lkeys |-> Absent, ents |-> <<>>, index |-> Absent]

\* What Value::shaped_record makes holds the keys and values it is given.
LEMMA ShapedIs ==
  ASSUME NEW ks \in Seq(Keys), NEW vals \in Seq(Atoms), Len(ks) = Len(vals), Differ(ks)
  PROVE  /\ Good(shaped_record(ks, vals)) /\ Keyed(shaped_record(ks, vals))
         /\ size(shaped_record(ks, vals)) = Len(vals)
         /\ shaped_record(ks, vals).scalar = Absent /\ shaped_record(ks, vals).list = FALSE
         /\ entries(shaped_record(ks, vals)) = Paired(ks, vals)
<1>. DEFINE w == shaped_record(ks, vals)
            b == blank
<1>1. b \in [scalar : {Absent}, list : {FALSE}, shape : {Absent, ks}, store : {Absent, vals},
             lkeys : {Absent}, ents : {<<>>}, index : {Absent}]
  BY DEF blank
<1>2. w = [b EXCEPT !.shape = ks, !.store = vals]
  BY DEF shaped_record
<1>. HIDE DEF w, b
<1>3. w = ShapedCell(ks, vals)
  BY <1>1, <1>2 DEF ShapedCell
<1>4. vals # Absent /\ ks # Absent
  BY AbsentAssumption
<1>5. /\ w.scalar = Absent /\ w.list = FALSE /\ w.shape = ks /\ w.store = vals
      /\ w.lkeys = Absent /\ w.ents = <<>> /\ w.index = Absent
  BY <1>3 DEF ShapedCell
<1>6. w \in Inner
  BY <1>3 DEF Inner, ShapedCell
<1>7. IsShaped(w)
  BY <1>4, <1>5 DEF IsShaped
<1>8. Good(w)
  BY <1>6, <1>7, ReprGood
<1>9. size(w) = Len(vals) /\ keys(w) = ks /\ values(w) = vals /\ DOMAIN ks = 1 .. Len(vals)
  BY <1>5, <1>7, ReadShaped DEF Reads
<1>10. entries(w) = [i \in 1 .. size(w) |-> [key |-> keys(w)[i], val |-> values(w)[i]]]
  BY <1>8, Reading
<1>11. Keyed(w)
  BY <1>9 DEF Keyed
<1>12. entries(w) = Paired(ks, vals)
  BY <1>9, <1>10 DEF Paired
<1>. QED  BY <1>5, <1>8, <1>9, <1>11, <1>12 DEF w

\* record_from_entries: what an ordered map would hold, each key once.
LEMMA RecordIs ==
  ASSUME NEW ents \in Seq(Entries)
  PROVE  /\ Writes(blank, record_from_entries(ents), OM!PutAll(ents))
         /\ Len(OM!PutAll(ents)) <= Len(ents)
<1>. DEFINE ks == [i \in DOMAIN ents |-> ents[i].key]
            vals == [i \in DOMAIN ents |-> ents[i].val]
            w == record_from_entries(ents)
<1>1. w = IF ents # <<>> /\ IsInjective(ks) THEN shaped_record(ks, vals) ELSE FoldedRecord(ents)
  BY DEF record_from_entries, FoldedRecord
<1>2. /\ DOMAIN ents = 1 .. Len(ents) /\ Len(ents) \in Nat
      /\ \A i \in DOMAIN ents : /\ ents[i].key \in Keys /\ ents[i].val \in Atoms
                                /\ ents[i] = [key |-> ents[i].key, val |-> ents[i].val]
  BY EntryFields
<1>3. ks \in [1 .. Len(ents) -> Keys] /\ vals \in [1 .. Len(ents) -> Atoms]
  BY <1>2
<1>4. /\ DOMAIN ks = DOMAIN ents /\ DOMAIN vals = DOMAIN ents
      /\ \A i \in DOMAIN ents : ks[i] = ents[i].key /\ vals[i] = ents[i].val
  OBVIOUS
<1>. HIDE DEF ks, vals, w
<1>5. ks \in Seq(Keys) /\ Len(ks) = Len(ents) /\ vals \in Seq(Atoms) /\ Len(vals) = Len(ents)
  <2>. DEFINE n == Len(ents)
  <2>1. n \in Nat /\ ks \in [1 .. n -> Keys] /\ vals \in [1 .. n -> Atoms]
    BY <1>2, <1>3
  <2>. HIDE DEF n
  <2>2. ks \in Seq(Keys) /\ Len(ks) = n /\ vals \in Seq(Atoms) /\ Len(vals) = n
    BY <2>1
  <2>. QED  BY <2>2 DEF n
<1>6. CASE ents # <<>> /\ IsInjective(ks)
  <2>1. Differ(ks)
    BY <1>6 DEF Differ, IsInjective
  <2>2. KeysDiffer(ents)
    BY <1>4, <2>1 DEF Differ, KeysDiffer
  <2>3. Paired(ks, vals) = [i \in 1 .. Len(ents) |-> ents[i]]
    BY <1>2, <1>4, <1>5 DEF Paired
  <2>4. Paired(ks, vals) = ents
    BY <1>2, <2>3
  <2>5. OM!PutAll(ents) = ents
    BY <2>2, PutAllDiffering
  <2>6. w = shaped_record(ks, vals)
    BY <1>1, <1>6
  <2>7. Writes(blank, w, ents)
    BY <1>5, <2>1, <2>4, <2>6, ShapedIs, BlankIs DEF Writes
  <2>. QED  BY <1>2, <2>5, <2>7 DEF w
<1>7. CASE ~(ents # <<>> /\ IsInjective(ks))
  BY <1>1, <1>7, FoldedIs DEF w
<1>. QED  BY <1>6, <1>7

-----------------------------------------------------------------------------
(* The cells of a program. *)

CellsOK ==
  /\ cell \in [Cells -> Inner]
  /\ \A c \in Cells : Good(cell[c]) /\ Keyed(cell[c]) /\ size(cell[c]) <= MaxLen

\* What is stored in a cell is what the ordered map holds there.
LEMMA StoreIs ==
  ASSUME CellsOK, NEW c \in Cells, NEW w, NEW om, Makes(w, om), Store(c, w)
  PROVE  CellsOK' /\ OM!Store(c, om)
<1>1. /\ cell \in [Cells -> Inner] /\ cell' = [cell EXCEPT ![c] = w]
      /\ Good(w) /\ Keyed(w) /\ size(w) <= MaxLen /\ Contents(w) = om /\ w \in Inner
  BY DEF CellsOK, Store, Makes, Good
<1>2. cell' \in [Cells -> Inner] /\ \A d \in Cells : cell'[d] = IF d = c THEN w ELSE cell[d]
  BY <1>1
<1>3. CellsOK'
  BY <1>1, <1>2 DEF CellsOK
<1>4. [d \in Cells |-> Contents(cell'[d])] = [[d \in Cells |-> Contents(cell[d])] EXCEPT ![c] = om]
  BY <1>1, <1>2
<1>. QED  BY <1>3, <1>4 DEF OM!Store

\* What a write, a copy or a constructor makes.
LEMMA WritesMakes ==
  ASSUME NEW v, NEW w, NEW ents, Writes(v, w, ents), Len(ents) <= MaxLen
  PROVE  /\ Makes(w, [Contents(v) EXCEPT !.kids = ents])
         /\ ents = entries(v) => Makes(w, Contents(v))
<1>1. /\ Good(w) /\ Keyed(w) /\ size(w) <= MaxLen /\ entries(w) = ents
      /\ w.scalar = v.scalar /\ w.list = v.list
  BY DEF Writes
<1>2. [Contents(v) EXCEPT !.kids = ents] = [scalar |-> v.scalar, list |-> v.list, kids |-> ents]
  BY DEF Contents
<1>3. Contents(w) = [Contents(v) EXCEPT !.kids = ents]
  BY <1>1, <1>2 DEF Contents
<1>4. ents = entries(v) => Contents(w) = Contents(v)
  BY <1>1 DEF Contents
<1>. QED  BY <1>1, <1>3, <1>4 DEF Makes

\* A write keeps the bound the model puts on a cell's children.
LEMMA SetKeepsBound ==
  ASSUME NEW v, Good(v), Keyed(v), size(v) <= MaxLen, NEW k \in Keys, NEW a \in Atoms
  PROVE  /\ OM!Put(entries(v), k, a) \in Seq(Entries)
         /\ size(v) < MaxLen \/ has(v, k) => Len(OM!Put(entries(v), k, a)) <= MaxLen
<1>. DEFINE ents == entries(v)
<1>1. /\ ents \in Seq(Entries) /\ KeysDiffer(ents) /\ Len(ents) = size(v)
      /\ DOMAIN ents = 1 .. size(v) /\ \A i \in 1 .. size(v) : ents[i].key = keys(v)[i]
  BY EntriesAre
<1>2. Finds(Slot(v, k), keys(v), k) /\ DOMAIN keys(v) = 1 .. size(v) /\ size(v) \in Nat /\ MaxLen \in Nat
  BY Reading, BoundsAssumption DEF Reads
<1>. HIDE DEF ents
<1>3. OM!Put(ents, k, a) \in Seq(Entries)
  BY <1>1, PutIs
<1>4. CASE \E s \in DOMAIN ents : ents[s].key = k
  BY <1>1, <1>2, <1>3, <1>4, PutIs DEF ents
<1>5. CASE \A s \in DOMAIN ents : ents[s].key # k
  <2>1. ~has(v, k)
    BY <1>1, <1>2, <1>5 DEF Finds, has
  <2>2. Len(OM!Put(ents, k, a)) = Len(ents) + 1
    <3>1. ents \in Seq(Entries) /\ KeysDiffer(ents)
      BY <1>1
    <3>. QED  BY <1>5, <3>1, PutIs
  <2>. QED  BY <1>1, <1>2, <1>3, <2>1, <2>2 DEF ents
<1>. QED  BY <1>4, <1>5

\* A value of atoms a program writes down.
LEMMA BoundedSeqs ==
  ASSUME NEW S, NEW max \in Nat, NEW q \in BoundedSeqOf(S, max)
  PROVE  q \in Seq(S) /\ Len(q) <= max
<1>1. PICK n \in 0 .. max : q \in [1 .. n -> S]
  BY DEF BoundedSeqOf
<1>2. n \in Nat /\ n <= max
  OBVIOUS
<1>. QED  BY <1>1, <1>2

\* The cell Value::text and its like make.
LEMMA ScalarIs ==
  ASSUME NEW a \in Atoms
  PROVE  Makes([blank EXCEPT !.scalar = a], [OM!Blank EXCEPT !.scalar = a])
<1>. DEFINE w == [blank EXCEPT !.scalar = a]
<1>1. w.scalar = a /\ w.list = FALSE /\ w.shape = Absent /\ w.store = Absent
      /\ w.lkeys = Absent /\ w.ents = <<>> /\ w.index = Absent
  BY DEF blank
<1>2. w \in Inner
  BY BlankIs DEF Inner
<1>. HIDE DEF w
<1>3. HasEntries(w)
  BY <1>1 DEF HasEntries, EntsOK
<1>4. Good(w)
  BY <1>2, <1>3, ReprGood
<1>5. entries(w) = <<>> /\ Keyed(w) /\ size(w) = 0
  BY <1>1, <1>3, <1>4, EntriesAreEnts
<1>6. [OM!Blank EXCEPT !.scalar = a] = [scalar |-> a, list |-> FALSE, kids |-> <<>>]
  <2>. DEFINE b == OM!Blank
  <2>1. b \in [scalar : {Absent, a}, list : {FALSE}, kids : {<<>>}]
    BY DEF OM!Blank
  <2>2. PICK x : x = [b EXCEPT !.scalar = a]
    OBVIOUS
  <2>. HIDE DEF b
  <2>3. x = [scalar |-> a, list |-> FALSE, kids |-> <<>>]
    BY <2>1, <2>2
  <2>. QED  BY <2>2, <2>3 DEF b
<1>7. Contents(w) = [OM!Blank EXCEPT !.scalar = a]
  BY <1>1, <1>5, <1>6 DEF Contents
<1>. QED  BY <1>4, <1>5, <1>7, BoundsAssumption DEF Makes, w

\* Every step keeps the cells what they are, and is a step of the ordered map.
LEMMA StepIs ==
  ASSUME CellsOK, Next
  PROVE  CellsOK' /\ OM!Next
<1>1. MaxLen \in Nat /\ 0 <= MaxLen /\ MaxGiven \in Nat /\ MaxGiven <= MaxLen
  BY BoundsAssumption
<1>2. ASSUME NEW c \in Cells
      PROVE  Good(cell[c]) /\ Keyed(cell[c]) /\ size(cell[c]) <= MaxLen /\ size(cell[c]) \in Nat
  BY Reading DEF CellsOK, Reads
<1>. DEFINE value == [d \in Cells |-> Contents(cell[d])]
<1>3. ASSUME NEW c \in Cells, NewNone(c)
      PROVE  CellsOK' /\ OM!Next
  <2>1. Makes(blank, OM!Blank)
    BY <1>1, BlankIs DEF Makes
  <2>2. CellsOK' /\ OM!NewNone(c)
    BY <1>3, <2>1, StoreIs DEF NewNone, OM!NewNone
  <2>. QED  BY <2>2 DEF OM!Next
<1>4. ASSUME NEW c \in Cells, NEW a \in Atoms, NewScalar(c, a)
      PROVE  CellsOK' /\ OM!Next
  <2>1. CellsOK' /\ OM!NewScalar(c, a)
    BY <1>4, ScalarIs, StoreIs DEF NewScalar, OM!NewScalar
  <2>. QED  BY <2>1 DEF OM!Next
<1>5. ASSUME NEW c \in Cells, NEW vals \in BoundedSeqOf(Atoms, MaxLen), NewList(c, vals)
      PROVE  CellsOK' /\ OM!Next
  <2>1. vals \in Seq(Atoms) /\ Len(vals) <= MaxLen
    BY <1>1, BoundedSeqs
  <2>2. Makes(list(vals), OM!ListOf(OM!Numbered(vals)))
    BY <2>1, ListIs DEF Makes
  <2>3. CellsOK' /\ OM!NewList(c, vals)
    BY <1>5, <2>2, StoreIs DEF NewList, OM!NewList
  <2>. QED  BY <2>3 DEF OM!Next, OM!BoundedSeqOf, BoundedSeqOf
<1>6. ASSUME NEW c \in Cells, NEW k \in Keys, NEW a \in Atoms, Set(c, k, a)
      PROVE  CellsOK' /\ OM!Next
  <2>. DEFINE v == cell[c]
              ents == OM!Put(entries(v), k, a)
  <2>1. (size(v) < MaxLen \/ has(v, k)) /\ Store(c, set(v, k, a))
    BY <1>6 DEF Set
  <2>2. Good(v) /\ Keyed(v) /\ size(v) <= MaxLen /\ value[c] = Contents(v)
    BY <1>2
  <2>. HIDE DEF v
  <2>3. Len(ents) <= MaxLen
    BY <2>1, <2>2, SetKeepsBound
  <2>4. Makes(set(v, k, a), [Contents(v) EXCEPT !.kids = ents])
    BY <2>2, <2>3, SetIs, WritesMakes
  <2>5. [Contents(v) EXCEPT !.kids = ents] = [Contents(v) EXCEPT !.kids = OM!Put(@, k, a)]
    BY DEF Contents
  <2>6. CellsOK' /\ OM!Store(c, [Contents(v) EXCEPT !.kids = ents])
    BY <2>1, <2>4, StoreIs
  <2>7. OM!Set(c, k, a)
    <3>. HIDE DEF ents
    <3>. QED  BY <2>2, <2>5, <2>6 DEF OM!Set, v
  <2>8. k \in OM!Keys
    BY DEF Keys, OM!Keys
  <2>. QED  BY <2>6, <2>7, <2>8 DEF OM!Next
<1>7. ASSUME NEW c \in Cells, NEW d \in Cells, Copy(c, d)
      PROVE  CellsOK' /\ OM!Next
  <2>. DEFINE v == cell[c]
  <2>1. Good(v) /\ Keyed(v) /\ size(v) <= MaxLen /\ value[c] = Contents(v) /\ Store(d, deep_copy(v))
    BY <1>2, <1>7 DEF Copy
  <2>2. Len(entries(v)) <= MaxLen /\ Writes(v, deep_copy(v), entries(v))
    BY <2>1, EntriesAre, CopyIs
  <2>3. Makes(deep_copy(v), Contents(v))
    BY <2>2, WritesMakes
  <2>4. CellsOK' /\ OM!Copy(c, d)
    BY <2>1, <2>3, StoreIs DEF OM!Copy
  <2>. QED  BY <2>4 DEF OM!Next
<1>8. ASSUME NEW c \in Cells, NEW d \in Cells, NEW kept \in SUBSET DOMAIN elems(cell[c]).vals,
             Filter(c, d, kept)
      PROVE  CellsOK' /\ OM!Next
  <2>. DEFINE v == cell[c]
  <2>1. /\ Good(v) /\ Keyed(v) /\ size(v) <= MaxLen /\ value[c] = Contents(v)
        /\ Store(d, filter_rows(v, kept)) /\ kept \subseteq DOMAIN elems(v).vals
    BY <1>2, <1>8 DEF Filter
  <2>2. CellsOK' /\ OM!Filter(c, d, kept)
    BY <2>1, FilterIs, StoreIs DEF OM!Filter
  <2>3. DOMAIN OM!Elements(Contents(v)) = DOMAIN elems(v).vals
    BY <2>1, ElemsAre DEF Walks
  <2>4. kept \in SUBSET DOMAIN OM!Elements(value[c])
    BY <2>1, <2>3
  <2>. QED  BY <2>2, <2>4 DEF OM!Next
<1>9. ASSUME NEW c \in Cells, NEW d \in Cells, NEW n \in 0 .. MaxLen,
             fn_take(c, d, n) \/ fn_drop(c, d, n)
      PROVE  CellsOK' /\ OM!Next
  <2>. DEFINE v == cell[c]
  <2>1. Good(v) /\ Keyed(v) /\ size(v) <= MaxLen /\ value[c] = Contents(v) /\ n \in Nat
    BY <1>2
  <2>2. /\ Makes(FirstRows(v, n), OM!First(Contents(v), n))
        /\ Makes(RestRows(v, n), OM!Rest(Contents(v), n))
    BY <2>1, FirstIs
  <2>3. CASE fn_take(c, d, n)
    <3>1. CellsOK' /\ OM!Take(c, d, n)
      BY <2>1, <2>2, <2>3, StoreIs DEF fn_take, OM!Take
    <3>. QED  BY <3>1 DEF OM!Next
  <2>4. CASE fn_drop(c, d, n)
    <3>1. CellsOK' /\ OM!Drop(c, d, n)
      BY <2>1, <2>2, <2>4, StoreIs DEF fn_drop, OM!Drop
    <3>. QED  BY <3>1 DEF OM!Next
  <2>. QED  BY <1>9, <2>3, <2>4
<1>10. ASSUME NEW c \in Cells, NEW ents \in BoundedSeqOf(Entries, MaxGiven), NewRecord(c, ents)
       PROVE  CellsOK' /\ OM!Next
  <2>1. ents \in Seq(Entries) /\ Len(ents) <= MaxGiven /\ Len(ents) \in Nat
    BY <1>1, BoundedSeqs
  <2>2. /\ Writes(blank, record_from_entries(ents), OM!PutAll(ents))
        /\ Len(OM!PutAll(ents)) <= Len(ents)
    BY <2>1, RecordIs
  <2>3. Len(OM!PutAll(ents)) <= MaxLen
    <3>1. Len(OM!PutAll(ents)) \in Nat
      BY <2>2, EntriesAre DEF Writes
    <3>. QED  BY <1>1, <2>1, <2>2, <3>1
  <2>4. Makes(record_from_entries(ents), [OM!Blank EXCEPT !.kids = OM!PutAll(ents)])
    BY <2>2, <2>3, WritesMakes, BlankIs
  <2>5. CellsOK' /\ OM!NewRecord(c, ents)
    BY <1>10, <2>4, StoreIs DEF NewRecord, OM!NewRecord
  <2>6. ents \in OM!BoundedSeqOf(OM!Entries, MaxGiven)
    BY DEF OM!BoundedSeqOf, BoundedSeqOf, OM!Entries, Entries, OM!Keys, Keys
  <2>. QED  BY <2>5, <2>6 DEF OM!Next
<1>. QED  BY <1>3, <1>4, <1>5, <1>6, <1>7, <1>8, <1>9, <1>10 DEF Next

-----------------------------------------------------------------------------
(* What holds of every cell. *)

\* A key's slot and a walk of the children find the same.
LEMMA ReadsAre ==
  ASSUME NEW v, Good(v), Keyed(v)
  PROVE  /\ \A k \in Keys : /\ get(v, k) = OM!Lookup(entries(v), k)
                            /\ has(v, k) <=> k \in OM!KeysIn(entries(v))
         /\ size(v) = Len(entries(v)) /\ Len(keys(v)) = size(v)
         /\ is_null(v) <=> v.scalar = Absent /\ entries(v) = <<>> /\ ~v.list
<1>. DEFINE ents == entries(v)
            n == size(v)
<1>1. /\ ents \in Seq(Entries) /\ KeysDiffer(ents) /\ Len(ents) = n /\ DOMAIN ents = 1 .. n
      /\ \A i \in 1 .. n : ents[i].key = keys(v)[i] /\ ents[i].val = values(v)[i]
  BY EntriesAre
<1>2. /\ n \in Nat /\ Len(keys(v)) = n /\ DOMAIN keys(v) = 1 .. n
      /\ \A k \in Keys : Finds(Slot(v, k), keys(v), k)
  BY Reading DEF Reads
<1>. HIDE DEF ents, n
<1>3. ASSUME NEW k \in Keys
      PROVE  /\ get(v, k) = OM!Lookup(ents, k)
             /\ has(v, k) <=> k \in OM!KeysIn(ents)
  <2>. DEFINE s == Slot(v, k)
  <2>1. IF \E i \in 1 .. n : ents[i].key = k THEN s \in 1 .. n /\ ents[s].key = k ELSE s = 0
    BY <1>1, <1>2 DEF Finds
  <2>. HIDE DEF s
  <2>2. CASE \E i \in 1 .. n : ents[i].key = k
    <3>1. s \in 1 .. n /\ ents[s].key = k /\ s # 0
      BY <1>2, <2>1, <2>2
    <3>2. has(v, k) /\ get(v, k) = ents[s].val
      BY <1>1, <3>1 DEF has, get, s
    <3>3. k \in OM!KeysIn(ents) /\ OM!SlotOf(ents, k) = s
      BY <1>1, <3>1 DEF OM!KeysIn, OM!SlotOf, KeysDiffer
    <3>. QED  BY <3>2, <3>3 DEF OM!Lookup
  <2>3. CASE ~\E i \in 1 .. n : ents[i].key = k
    <3>1. s = 0
      BY <2>1, <2>3
    <3>2. k \notin OM!KeysIn(ents)
      BY <1>1, <2>3 DEF OM!KeysIn
    <3>. QED  BY <3>1, <3>2 DEF OM!Lookup, has, get, s
  <2>. QED  BY <2>2, <2>3
<1>4. ents = <<>> <=> n = 0
  BY <1>1, <1>2
<1>. QED  BY <1>1, <1>2, <1>3, <1>4 DEF is_null, ents, n

\* EQL of two cells compares what they hold and nothing else.
LEMMA EqlIs ==
  ASSUME NEW v, Good(v), NEW w, Good(w)
  PROVE  eql(v, w) <=> v.scalar = w.scalar /\ entries(v) = entries(w)
<1>. DEFINE n == size(v)
            m == size(w)
            ev == entries(v)
            ew == entries(w)
            kv == keys(v)
            kw == keys(w)
            vv == values(v)
            vw == values(w)
<1>1. /\ n \in Nat /\ ev = [i \in 1 .. n |-> [key |-> kv[i], val |-> vv[i]]]
      /\ DOMAIN vv = 1 .. n /\ vv \in Seq(Atoms)
  BY Reading DEF Reads
<1>2. /\ m \in Nat /\ ew = [i \in 1 .. m |-> [key |-> kw[i], val |-> vw[i]]]
      /\ DOMAIN vw = 1 .. m /\ vw \in Seq(Atoms)
  BY Reading DEF Reads
<1>3. eql(v, w) <=> /\ v.scalar = w.scalar
                    /\ n = m
                    /\ \/ n = 0
                       \/ Dense(v) /\ Dense(w) /\ v.store = w.store
                       \/ ~(Dense(v) /\ Dense(w)) /\ \A i \in DOMAIN ev : ev[i] = ew[i]
  BY DEF eql
<1>4. ASSUME Dense(v), Dense(w)
      PROVE  /\ v.store = vv /\ kv = [i \in 1 .. n |-> i]
             /\ w.store = vw /\ kw = [i \in 1 .. m |-> i]
  <2>1. IsListed(v) /\ v.lkeys = Absent /\ IsListed(w) /\ w.lkeys = Absent
    BY <1>4, Representations DEF Dense, Listed, IsShaped, IsListed, HasEntries
  <2>2. /\ Reads(v, kv, v.store, Len(v.store)) /\ kv = [i \in 1 .. Len(v.store) |-> i]
        /\ Reads(w, kw, w.store, Len(w.store)) /\ kw = [i \in 1 .. Len(w.store) |-> i]
    BY <2>1, ReadListed
  <2>. QED  BY <2>2 DEF Reads
<1>. HIDE DEF n, m, ev, ew, kv, kw, vv, vw
<1>5. ASSUME ev = ew
      PROVE  n = m /\ vv = vw
  <2>1. DOMAIN ev = 1 .. n /\ DOMAIN ew = 1 .. m
    BY <1>1, <1>2
  <2>2. Len(ev) = n /\ Len(ew) = m
    BY <1>1, <1>2
  <2>3. n = m
    BY <1>5, <2>2
  <2>4. ASSUME NEW i \in 1 .. n
        PROVE  vv[i] = vw[i]
    <3>1. ev[i].val = vv[i] /\ ew[i].val = vw[i]
      BY <1>1, <1>2, <2>3
    <3>. QED  BY <1>5, <3>1
  <2>. QED  BY <1>1, <1>2, <2>3, <2>4
<1>6. ASSUME n = m, \A i \in DOMAIN ev : ev[i] = ew[i]
      PROVE  ev = ew
  BY <1>1, <1>2, <1>6
<1>7. ASSUME n = m, n = 0
      PROVE  ev = ew
  BY <1>1, <1>2, <1>7
<1>8. ASSUME n = m, vv = vw, Dense(v), Dense(w)
      PROVE  ev = ew
  BY <1>1, <1>2, <1>4, <1>8
<1>. QED  BY <1>3, <1>4, <1>5, <1>6, <1>7, <1>8 DEF ev, ew

\* The inductive invariant: every cell is one of the three representations, well made,
\* under keys of the program, within the bound.
THEOREM CellsAreGood == Spec => []CellsOK
<1>1. Init => CellsOK
  <2>1. ASSUME Init
        PROVE  CellsOK
    <3>1. cell = [c \in Cells |-> blank]
      BY <2>1 DEF Init
    <3>. QED  BY <3>1, BlankIs, BoundsAssumption DEF CellsOK
  <2>. QED  BY <2>1
<1>2. CellsOK /\ [Next]_cell => CellsOK'
  <2>1. ASSUME CellsOK, cell' = cell
        PROVE  CellsOK'
    BY <2>1 DEF CellsOK
  <2>. QED  BY <2>1, StepIs
<1>. QED  BY <1>1, <1>2, PTL DEF Spec

\* The fields of every cell are ones a ValueInner can hold, whatever was done to it.
THEOREM Representation == Spec => []ReprOK
<1>1. CellsOK => ReprOK
  <2>1. ASSUME NEW v, Good(v)
        PROVE  /\ v.scalar \in Atoms \cup {Absent} /\ v.list \in BOOLEAN
               /\ v.store # Absent => v.store \in Seq(Atoms) /\ v.ents = <<>>
               /\ v.shape # Absent => /\ v.store # Absent /\ ~v.list
                                      /\ v.shape \in Seq(Keys)
                                      /\ Len(v.shape) = Len(v.store)
                                      /\ IsInjective(v.shape)
               /\ v.store # Absent => v.list \/ v.shape # Absent
               /\ v.lkeys # Absent => /\ v.store # Absent /\ v.list
                                      /\ v.lkeys.at \in Seq(Keys)
                                      /\ Len(v.lkeys.at) = Len(v.store)
                                      /\ IsInjective(v.lkeys.at)
               /\ v.ents \in Seq(Entries)
    <3>1. v.ents \in Seq(Entries)
      BY <2>1 DEF Good, Inner
    <3>2. \A ks : Differ(ks) => IsInjective(ks)
      BY DEF Differ, IsInjective
    <3>3. CASE IsShaped(v)
      BY <2>1, <3>1, <3>2, <3>3, Representations DEF IsShaped
    <3>4. CASE IsListed(v)
      BY <2>1, <3>1, <3>2, <3>4, Representations DEF IsListed
    <3>5. CASE HasEntries(v)
      BY <2>1, <3>1, <3>5, Representations DEF HasEntries
    <3>. QED  BY <2>1, <3>3, <3>4, <3>5, Representations
  <2>. QED  BY <2>1 DEF CellsOK, ReprOK
<1>. QED  BY <1>1, CellsAreGood, PTL

\* The hash index of every cell answers for exactly its entries, each at its slot.
THEOREM IndexesAreExact == Spec => []IndexExact
<1>1. CellsOK => IndexExact
  <2>1. ASSUME NEW v, Good(v), v.index # Absent
        PROVE  /\ v.store = Absent
               /\ DOMAIN v.index = Range(EntryKeys(v))
               /\ \A k \in DOMAIN v.index : EntryKeys(v)[v.index[k]] = k
    <3>1. HasEntries(v)
      BY <2>1, Representations DEF IsShaped, IsListed
    <3>2. v.store = Absent /\ Answers(v.index, v.ents)
      BY <2>1, <3>1 DEF HasEntries, EntsOK
    <3>. DEFINE ks == EntryKeys(v)
    <3>3. DOMAIN ks = DOMAIN v.ents /\ \A i \in DOMAIN v.ents : ks[i] = v.ents[i].key
      BY DEF EntryKeys
    <3>. HIDE DEF ks
    <3>4. \A k \in DOMAIN v.index : v.index[k] \in DOMAIN ks /\ ks[v.index[k]] = k
      BY <3>2, <3>3 DEF Answers
    <3>5. \A i \in DOMAIN ks : ks[i] \in DOMAIN v.index
      BY <3>2, <3>3 DEF Answers
    <3>6. DOMAIN v.index = Range(ks)
      BY <3>4, <3>5 DEF Range
    <3>. QED  BY <3>2, <3>4, <3>6 DEF ks
  <2>. QED  BY <2>1 DEF CellsOK, IndexExact
<1>. QED  BY <1>1, CellsAreGood, PTL

\* The hashed, searched and scanned reads of every cell agree with a walk of its children.
THEOREM ReadingAgrees == Spec => []ReadsAgree
<1>1. CellsOK => ReadsAgree
  BY ReadsAre DEF CellsOK, ReadsAgree
<1>. QED  BY <1>1, CellsAreGood, PTL

\* Every operation makes of a cell, in whatever representation, what it makes of an
\* ordered map.
THEOREM OperatingAgrees == Spec => []OperationsAgree
<1>1. ASSUME NEW v, Good(v), Keyed(v), size(v) <= MaxLen
      PROVE  /\ Contents(deep_copy(v)) = Contents(v)
             /\ \A k \in Keys, a \in Atoms :
                  Contents(set(v, k, a)) = [Contents(v) EXCEPT !.kids = OM!Put(@, k, a)]
             /\ \A kept \in SUBSET DOMAIN elems(v).vals :
                  Contents(filter_rows(v, kept)) = OM!Filtered(Contents(v), kept)
             /\ \A n \in 0 .. MaxLen :
                  /\ Contents(FirstRows(v, n)) = OM!First(Contents(v), n)
                  /\ Contents(RestRows(v, n)) = OM!Rest(Contents(v), n)
  <2>1. Contents(deep_copy(v)) = Contents(v)
    BY <1>1, CopyIs DEF Writes, Contents
  <2>2. ASSUME NEW k \in Keys, NEW a \in Atoms
        PROVE  Contents(set(v, k, a)) = [Contents(v) EXCEPT !.kids = OM!Put(@, k, a)]
    <3>. DEFINE ents == OM!Put(entries(v), k, a)
                w == set(v, k, a)
    <3>1. entries(w) = ents /\ w.scalar = v.scalar /\ w.list = v.list
      BY <1>1, SetIs DEF Writes
    <3>. HIDE DEF w
    <3>2. [Contents(v) EXCEPT !.kids = OM!Put(@, k, a)]
            = [scalar |-> v.scalar, list |-> v.list, kids |-> ents]
      BY DEF Contents
    <3>. QED  BY <3>1, <3>2 DEF Contents, w
  <2>3. ASSUME NEW kept \in SUBSET DOMAIN elems(v).vals
        PROVE  Contents(filter_rows(v, kept)) = OM!Filtered(Contents(v), kept)
    BY <1>1, FilterIs DEF Makes
  <2>4. ASSUME NEW n \in 0 .. MaxLen
        PROVE  /\ Contents(FirstRows(v, n)) = OM!First(Contents(v), n)
               /\ Contents(RestRows(v, n)) = OM!Rest(Contents(v), n)
    BY <1>1, FirstIs DEF Makes
  <2>. QED  BY <2>1, <2>2, <2>3, <2>4
<1>2. CellsOK => OperationsAgree
  BY <1>1 DEF CellsOK, OperationsAgree
<1>. QED  BY <1>2, CellsAreGood, PTL

\* EQL is sameness of what is held, between any two values made of one cell.
THEOREM EqualityAgrees == Spec => []EqlAgrees
<1>1. ASSUME NEW v, Good(v), Keyed(v), size(v) <= MaxLen, NEW w \in Near(v)
      PROVE  Good(w)
  <2>. DEFINE made == {deep_copy(v)} \cup {filter_rows(v, kept) : kept \in SUBSET DOMAIN elems(v).vals}
                        \cup {FirstRows(v, n) : n \in 0 .. MaxLen}
                        \cup {RestRows(v, n) : n \in 0 .. MaxLen}
                        \cup {set(v, k, a) : k \in Keys, a \in Atoms}
  <2>1. ASSUME NEW x \in {v} \cup made
        PROVE  Good(x) /\ Keyed(x)
    <3>1. Good(deep_copy(v)) /\ Keyed(deep_copy(v))
      BY <1>1, CopyIs DEF Writes
    <3>2. \A kept \in SUBSET DOMAIN elems(v).vals :
            Good(filter_rows(v, kept)) /\ Keyed(filter_rows(v, kept))
      BY <1>1, FilterIs DEF Makes
    <3>3. \A n \in 0 .. MaxLen : /\ Good(FirstRows(v, n)) /\ Keyed(FirstRows(v, n))
                                 /\ Good(RestRows(v, n)) /\ Keyed(RestRows(v, n))
      BY <1>1, FirstIs DEF Makes
    <3>4. \A k \in Keys, a \in Atoms : Good(set(v, k, a)) /\ Keyed(set(v, k, a))
      BY <1>1, SetIs DEF Writes
    <3>. QED  BY <1>1, <3>1, <3>2, <3>3, <3>4
  <2>2. ASSUME NEW x \in {v} \cup made
        PROVE  Good(record_from_entries(entries(x)))
    BY <2>1, EntriesAre, RecordIs DEF Writes
  <2>3. Near(v) = {v} \cup made \cup {record_from_entries(entries(x)) : x \in {v} \cup made}
    BY DEF Near
  <2>. HIDE DEF made
  <2>. QED  BY <2>1, <2>2, <2>3
<1>2. CellsOK => EqlAgrees
  BY <1>1, EqlIs DEF CellsOK, EqlAgrees
<1>. QED  BY <1>2, CellsAreGood, PTL

\* Whatever a program does to its cells, what they hold is what an ordered map of text
\* keys would hold: ValueCell implements OrderedMap.
THEOREM CellsImplementOrderedMap == Spec => ImplementsOrderedMap
<1>1. Init => OM!Init
  BY BlankIs DEF Init, OM!Init
<1>2. CellsOK /\ [Next]_cell => [OM!Next]_([c \in Cells |-> Contents(cell[c])])
  <2>1. ASSUME cell' = cell
        PROVE  [c \in Cells |-> Contents(cell[c])]' = [c \in Cells |-> Contents(cell[c])]
    BY <2>1
  <2>. QED  BY <2>1, StepIs
<1>. QED  BY <1>1, <1>2, CellsAreGood, PTL DEF Spec, ImplementsOrderedMap, OM!Spec

=============================================================================
