-------------------------- MODULE Assignment_proofs --------------------------
(***************************************************************************)
(* Proofs about Assignment: whatever a program names, reads, assigns and   *)
(* collects, and however deep and large its values, the cells of its heap  *)
(* do what VariableTree does, and the other four properties of the run     *)
(* `assign' hold.                                                          *)
(*                                                                         *)
(* Inv says that the heap is of cells that each lead to a tree (Good),     *)
(* that what waits and what was yielded are cells of it (Leavable), that   *)
(* a comma's copies share nothing with the variables nor with each other   *)
(* (OwnedApart), and that the variables are within the depth limit.  The   *)
(* tree under a cell is given by its layout: the cell at each path, each   *)
(* at one path only (Lays).                                                *)
(*                                                                         *)
(* A step is taken apart in two.  First it makes a heap, what then waits   *)
(* and a value (Moves): it adds cells nothing leads to, or puts one of     *)
(* them into the tree of the variables, at a key, and leaves every other   *)
(* tree as it was (Spares).  Then it leaves them (Left): the same cells    *)
(* under other names, so with the same trees.                              *)
(***************************************************************************)
EXTENDS Assignment, DataInduction, SequenceTheorems

-----------------------------------------------------------------------------
(* Paths.                                                                   *)

Keys == Names \cup Nat
Path == Seq(Keys)
Rest(n, q) == SubSeq(q, n + 1, Len(q))

LEMMA PathStep ==
  ASSUME NEW p \in Path, NEW k \in Keys
  PROVE  /\ Append(p, k) \in Path /\ Append(p, k) # <<>>
         /\ Len(Append(p, k)) = Len(p) + 1 /\ Len(p) \in Nat
         /\ Front(Append(p, k)) = p /\ Last(Append(p, k)) = k
<1>1. /\ Append(p, k) \in Path /\ Append(p, k) # <<>>
      /\ Len(Append(p, k)) = Len(p) + 1 /\ Len(p) \in Nat
      /\ \A i \in 1 .. Len(p) : Append(p, k)[i] = p[i]
      /\ Append(p, k)[Len(p) + 1] = k
  BY DEF Path
<1>2. Last(Append(p, k)) = k
  BY <1>1 DEF Last
<1>3. Front(Append(p, k)) = p
  BY DEF Front, Path
<1>. QED  BY <1>1, <1>2, <1>3

LEMMA PathEnds ==
  ASSUME NEW p \in Path, p # <<>>
  PROVE  /\ Front(p) \in Path /\ Last(p) \in Keys /\ p = Append(Front(p), Last(p))
         /\ Len(Front(p)) = Len(p) - 1 /\ Len(p) \in Nat \ {0}
<1>1. PICK q \in Seq(Keys), k \in Keys : p = Append(q, k)
  BY SequenceEmptyOrAppend DEF Path
<1>2. Front(p) = q /\ Last(p) = k /\ Len(p) = Len(q) + 1 /\ Len(q) \in Nat
  BY <1>1, PathStep DEF Path
<1>. QED  BY <1>1, <1>2 DEF Path

LEMMA SameStep ==
  ASSUME NEW p \in Path, NEW q \in Path, NEW k \in Keys, NEW l \in Keys,
         Append(p, k) = Append(q, l)
  PROVE  p = q /\ k = l
<1>1. Front(Append(p, k)) = p /\ Last(Append(p, k)) = k
  BY PathStep
<1>2. Front(Append(q, l)) = q /\ Last(Append(q, l)) = l
  BY PathStep
<1>. QED  BY <1>1, <1>2

\* What extends a path and what does not.
LEMMA Extending ==
  ASSUME NEW a \in Path, NEW r \in Path
  PROVE  /\ a \o r \in Path /\ IsPrefix(a, a \o r) /\ Rest(Len(a), a \o r) = r
         /\ Len(a \o r) = Len(a) + Len(r)
         /\ a \o <<>> = a /\ <<>> \o a = a
         /\ \A k \in Keys : a \o Append(r, k) = Append(a \o r, k)
<1>1. a \o r \in Path /\ Len(a \o r) = Len(a) + Len(r) /\ Len(a) \in Nat /\ Len(r) \in Nat
  BY DEF Path
<1>2. IsPrefix(a, a \o r)
  BY <1>1 DEF IsPrefix, Path
<1>3. Rest(Len(a), a \o r) = r
  BY <1>1 DEF Rest, Path
<1>4. a \o <<>> = a /\ <<>> \o a = a
  BY DEF Path
<1>5. ASSUME NEW k \in Keys PROVE a \o Append(r, k) = Append(a \o r, k)
  BY <1>1 DEF Path
<1>. QED  BY <1>1, <1>2, <1>3, <1>4, <1>5

LEMMA Extended ==
  ASSUME NEW a \in Path, NEW q \in Path, IsPrefix(a, q)
  PROVE  /\ Rest(Len(a), q) \in Path /\ q = a \o Rest(Len(a), q)
         /\ \A k \in Keys : IsPrefix(a, Append(q, k))
<1>1. Len(a) \in Nat /\ Len(q) \in Nat /\ Len(a) <= Len(q)
      /\ SubSeq(a, 1, Len(a)) = SubSeq(q, 1, Len(a))
  BY DEF Path, IsPrefix
<1>2. Rest(Len(a), q) \in Path
  BY <1>1 DEF Path, Rest
<1>3. q = a \o Rest(Len(a), q)
  BY <1>1 DEF Path, Rest
<1>4. ASSUME NEW k \in Keys PROVE IsPrefix(a, Append(q, k))
  BY <1>1 DEF Path, IsPrefix
<1>. QED  BY <1>2, <1>3, <1>4

LEMMA Extends1 ==
  ASSUME NEW a \in Path, NEW q \in Path, NEW k \in Keys,
         IsPrefix(a, Append(q, k)), ~IsPrefix(a, q)
  PROVE  a = Append(q, k)
<1>1. Len(a) \in Nat /\ Len(q) \in Nat /\ Len(a) <= Len(q) + 1
      /\ SubSeq(a, 1, Len(a)) = SubSeq(Append(q, k), 1, Len(a))
  BY DEF Path, IsPrefix
<1>2. CASE Len(a) <= Len(q)
  BY <1>1, <1>2 DEF Path, IsPrefix
<1>3. CASE Len(a) = Len(q) + 1
  BY <1>1, <1>3 DEF Path, IsPrefix
<1>. QED  BY <1>1, <1>2, <1>3

-----------------------------------------------------------------------------
(* Heaps whose cells are trees.                                             *)

\* Heaps whose cells have the addresses from 0 on, and cells of theirs as children.
Cell(D) == [scalar : Texts \cup {Absent}, kids : Seq([key : Keys, cell : D])]
IsHeap(h) == \E n \in Nat : h \in [0 .. n - 1 -> Cell(0 .. n - 1)]
HasKid(h, c, k, d) ==
  \E i \in DOMAIN h[c].kids : h[c].kids[i].key = k /\ h[c].kids[i].cell = d
KeysDiffer(h) ==
  \A c \in DOMAIN h : \A i, j \in DOMAIN h[c].kids :
    h[c].kids[i].key = h[c].kids[j].key => i = j

\* L is the cell at each path under c, and no cell is at two.
Lays(h, c, L) ==
  /\ L = [p \in DOMAIN L |-> L[p]] /\ DOMAIN L \subseteq Path
  /\ <<>> \in DOMAIN L /\ L[<<>>] = c
  /\ \A p \in DOMAIN L : L[p] \in DOMAIN h
  /\ \A p \in DOMAIN L, k \in Keys : \A d : HasKid(h, L[p], k, d) =>
       Append(p, k) \in DOMAIN L /\ L[Append(p, k)] = d
  /\ \A p \in DOMAIN L : p = <<>> \/ \E q \in DOMAIN L, k \in Keys :
       p = Append(q, k) /\ HasKid(h, L[q], k, L[p])
  /\ \A p, q \in DOMAIN L : L[p] = L[q] => p = q

Layout(h, c) == CHOOSE L : Lays(h, c, L)
Cells(h, c) == {Layout(h, c)[p] : p \in DOMAIN Layout(h, c)}
\* Under every cell there is a tree: it reaches no cell twice, and so no cycle.
Good(h) ==
  IsHeap(h) /\ KeysDiffer(h) /\ \A c \in DOMAIN h : \E L : Lays(h, c, L)

\* What holds at c, and below each path where it holds, holds all the way down.
LEMMA DownLayout ==
  ASSUME NEW h, NEW c, NEW L, Lays(h, c, L), NEW S, <<>> \in S,
         \A p \in DOMAIN L, k \in Keys :
           p \in S /\ Append(p, k) \in DOMAIN L /\ HasKid(h, L[p], k, L[Append(p, k)])
             => Append(p, k) \in S
  PROVE  DOMAIN L \subseteq S
<1>. DEFINE T == {n \in Nat : \A p \in DOMAIN L : Len(p) = n => p \in S}
<1>1. DOMAIN L \subseteq Path /\ \A p \in DOMAIN L : Len(p) \in Nat
  BY DEF Lays, Path
<1>2. 0 \in T
  <2>1. ASSUME NEW p \in DOMAIN L, Len(p) = 0 PROVE p \in S
    <3>1. p = <<>>
      BY <1>1, <2>1 DEF Path
    <3>. QED  BY <3>1
  <2>. QED  BY <2>1
<1>3. ASSUME NEW n \in Nat, n \in T PROVE n + 1 \in T
  <2>1. ASSUME NEW p \in DOMAIN L, Len(p) = n + 1 PROVE p \in S
    <3>1. p # <<>>
      BY <2>1
    <3>2. PICK q \in DOMAIN L, k \in Keys : p = Append(q, k) /\ HasKid(h, L[q], k, L[p])
      BY <3>1 DEF Lays
    <3>3. Len(q) = n
      BY <1>1, <2>1, <3>2, PathStep
    <3>4. q \in S
      BY <1>3, <3>3
    <3>. QED  BY <3>2, <3>4
  <2>. QED  BY <2>1
<1>4. \A n \in Nat : n \in T
  <2>. HIDE DEF T
  <2>. QED  BY <1>2, <1>3, Induction
<1>. QED  BY <1>1, <1>4

LEMMA LaysWithin ==
  ASSUME NEW h, NEW c, NEW L, NEW M, Lays(h, c, L), Lays(h, c, M)
  PROVE  \A p \in DOMAIN L : p \in DOMAIN M /\ M[p] = L[p]
<1>. DEFINE S == {p \in DOMAIN L : p \in DOMAIN M /\ M[p] = L[p]}
<1>1. <<>> \in S
  BY DEF Lays
<1>2. ASSUME NEW p \in DOMAIN L, NEW k \in Keys,
             p \in S /\ Append(p, k) \in DOMAIN L /\ HasKid(h, L[p], k, L[Append(p, k)])
      PROVE  Append(p, k) \in S
  BY <1>2 DEF Lays
<1>3. DOMAIN L \subseteq S
  <2>. HIDE DEF S
  <2>. QED  BY <1>1, <1>2, DownLayout
<1>. QED  BY <1>3

LEMMA LaysOnce ==
  ASSUME NEW h, NEW c, NEW L, Lays(h, c, L)
  PROVE  Layout(h, c) = L
<1>. DEFINE M == Layout(h, c)
<1>1. Lays(h, c, M)
  BY DEF Layout
<1>. HIDE DEF M
<1>2. \A p \in DOMAIN L : p \in DOMAIN M /\ M[p] = L[p]
  BY <1>1, LaysWithin
<1>3. \A p \in DOMAIN M : p \in DOMAIN L /\ M[p] = L[p]
  BY <1>1, LaysWithin
<1>4. DOMAIN L = DOMAIN M
  BY <1>2, <1>3
<1>5. L = [p \in DOMAIN L |-> L[p]] /\ M = [p \in DOMAIN M |-> M[p]]
  BY <1>1 DEF Lays
<1>6. M = L
  BY <1>3, <1>4, <1>5
<1>. QED  BY <1>6 DEF M

LEMMA LayoutLays ==
  ASSUME NEW h, Good(h), NEW c \in DOMAIN h
  PROVE  Lays(h, c, Layout(h, c))
BY DEF Good, Layout

\* The cells under c: c, their children, and no others.
LEMMA CellsClosed ==
  ASSUME NEW h, Good(h), NEW c \in DOMAIN h
  PROVE  /\ c \in Cells(h, c) /\ Cells(h, c) \subseteq DOMAIN h
         /\ \A e \in Cells(h, c), k \in Keys : \A d : HasKid(h, e, k, d) => d \in Cells(h, c)
<1>1. Lays(h, c, Layout(h, c))
  BY LayoutLays
<1>. QED  BY <1>1 DEF Lays, Cells

LEMMA CellsLeast ==
  ASSUME NEW h, Good(h), NEW c \in DOMAIN h, NEW S, c \in S,
         \A e \in S, k \in Keys : \A d : e \in Cells(h, c) /\ HasKid(h, e, k, d) => d \in S
  PROVE  Cells(h, c) \subseteq S
<1>. DEFINE L == Layout(h, c)
            U == {p \in DOMAIN L : L[p] \in S}
<1>1. Lays(h, c, L)
  BY LayoutLays
<1>2. \A p \in DOMAIN L : L[p] \in Cells(h, c)
  BY DEF Cells
<1>. HIDE DEF L
<1>3. <<>> \in U
  BY <1>1 DEF Lays
<1>4. ASSUME NEW p \in DOMAIN L, NEW k \in Keys,
             p \in U /\ Append(p, k) \in DOMAIN L /\ HasKid(h, L[p], k, L[Append(p, k)])
      PROVE  Append(p, k) \in U
  BY <1>2, <1>4
<1>5. DOMAIN L \subseteq U
  <2>. HIDE DEF U
  <2>. QED  BY <1>1, <1>3, <1>4, DownLayout
<1>. QED  BY <1>5 DEF L, Cells

LEMMA CellsWithin ==
  ASSUME NEW h, Good(h), NEW c \in DOMAIN h, NEW d \in Cells(h, c)
  PROVE  d \in DOMAIN h /\ Cells(h, d) \subseteq Cells(h, c)
<1>1. /\ d \in DOMAIN h
      /\ \A e \in Cells(h, c), k \in Keys : \A f : HasKid(h, e, k, f) => f \in Cells(h, c)
  BY CellsClosed
<1>. QED  BY <1>1, CellsLeast

-----------------------------------------------------------------------------
(* The order in which cells are met.                                        *)

\* Sequences that have each of their elements once.
Once(C) == {t \in Seq(C) : \A i, j \in 1 .. Len(t) : t[i] = t[j] => i = j}
MeetOne(met, c) == IF c \in Range(met) THEN met ELSE Append(met, c)

LEMMA RangeIs ==
  ASSUME NEW C, NEW t \in Seq(C)
  PROVE  /\ Range(t) = {t[i] : i \in 1 .. Len(t)} /\ Range(t) \subseteq C
         /\ \A c : c \in Range(t) <=> \E i \in 1 .. Len(t) : t[i] = c
<1>1. DOMAIN t = 1 .. Len(t) /\ \A i \in 1 .. Len(t) : t[i] \in C
  OBVIOUS
<1>. QED  BY <1>1 DEF Range

LEMMA MeetOneIs ==
  ASSUME NEW C, NEW t \in Once(C), NEW c \in C
  PROVE  /\ MeetOne(t, c) \in Once(C)
         /\ Range(MeetOne(t, c)) = Range(t) \cup {c}
         /\ Len(t) <= Len(MeetOne(t, c))
         /\ \A i \in 1 .. Len(t) : MeetOne(t, c)[i] = t[i]
<1>1. t \in Seq(C) /\ Len(t) \in Nat
  BY DEF Once
<1>2. CASE c \in Range(t)
  BY <1>1, <1>2 DEF MeetOne
<1>3. CASE c \notin Range(t)
  <2>1. MeetOne(t, c) = Append(t, c)
    BY <1>3 DEF MeetOne
  <2>. DEFINE u == Append(t, c)
  <2>2. /\ u \in Seq(C) /\ Len(u) = Len(t) + 1 /\ u[Len(t) + 1] = c
        /\ \A i \in 1 .. Len(t) : u[i] = t[i]
    BY <1>1
  <2>. HIDE DEF u
  <2>3. \A i \in 1 .. Len(t) : t[i] # c
    BY <1>1, <1>3, RangeIs
  <2>4. u \in Once(C)
    BY <1>1, <2>2, <2>3 DEF Once
  <2>5. \A d : d \in Range(u) <=> d \in Range(t) \/ d = c
    <3>1. \A d : d \in Range(u) <=> \E i \in 1 .. Len(t) + 1 : u[i] = d
      BY <2>2, RangeIs
    <3>2. \A d : d \in Range(t) <=> \E i \in 1 .. Len(t) : t[i] = d
      BY <1>1, RangeIs
    <3>3. ASSUME NEW d, d \in Range(u) PROVE d \in Range(t) \/ d = c
      <4>1. PICK i \in 1 .. Len(t) + 1 : u[i] = d
        BY <3>1, <3>3
      <4>2. CASE i = Len(t) + 1
        BY <2>2, <4>1, <4>2
      <4>3. CASE i # Len(t) + 1
        BY <1>1, <2>2, <3>2, <4>1, <4>3
      <4>. QED  BY <4>2, <4>3
    <3>4. ASSUME NEW d, d \in Range(t) \/ d = c PROVE d \in Range(u)
      <4>1. CASE d = c
        BY <1>1, <2>2, <3>1, <4>1
      <4>2. CASE d \in Range(t)
        <5>1. PICK i \in 1 .. Len(t) : t[i] = d
          BY <3>2, <4>2
        <5>2. i \in 1 .. Len(t) + 1 /\ u[i] = d
          BY <1>1, <2>2, <5>1
        <5>. QED  BY <3>1, <5>2
      <4>. QED  BY <3>4, <4>1, <4>2
    <3>. QED  BY <3>3, <3>4
  <2>6. Range(u) = Range(t) \cup {c}
    BY <2>5
  <2>. QED  BY <1>1, <2>1, <2>2, <2>4, <2>6 DEF u
<1>. QED  BY <1>2, <1>3

LEMMA MeetRuns ==
  ASSUME NEW C, NEW seen \in Once(C), NEW cells \in Seq(C), NEW N \in Nat, N = Len(cells)
  PROVE  \E run : /\ run \in [0 .. N -> Once(C)] /\ run[0] = seen
                  /\ \A n \in 1 .. N : run[n] = MeetOne(run[n - 1], cells[n])
                  /\ Meet(seen, cells) = run[N]
<1>. DEFINE D == DOMAIN cells
            T == Once(C)
            Is(f) == f = [s \in SUBSET D |->
                            IF s = {} THEN seen
                            ELSE MeetOne(f[s \ {Max(s)}], cells[Max(s)])]
            it == CHOOSE f : Is(f)
<1>. PICK step : step = [p \in T \X (1 .. N) |-> MeetOne(p[1], cells[p[2]])]
  OBVIOUS
<1>1. Meet(seen, cells) = it[D]
  BY DEF Meet, MeetOne, FoldLeft, MapThenFoldSet
<1>2. D = 1 .. N /\ seen \in T /\ \A n \in 1 .. N : cells[n] \in C
  OBVIOUS
<1>. HIDE DEF T
<1>3. \A q \in T, n \in 1 .. N :
        step[<<q, n>>] = MeetOne(q, cells[n]) /\ step[<<q, n>>] \in T
  <2>1. \A q \in T, n \in 1 .. N : MeetOne(q, cells[n]) \in T
    BY <1>2, MeetOneIs DEF T
  <2>. QED  BY <2>1
<1>4. IsStep(step, N, T)
  <2>1. ASSUME NEW p \in T \X (1 .. N) PROVE step[p] \in T
    <3>1. p = <<p[1], p[2]>> /\ p[1] \in T /\ p[2] \in 1 .. N
      OBVIOUS
    <3>. QED  BY <1>3, <3>1
  <2>2. step = [p \in T \X (1 .. N) |-> step[p]]
    OBVIOUS
  <2>. QED  BY <2>1, <2>2 DEF IsStep
<1>5. \A s \in SUBSET (1 .. N) : s # {} => Max(s) \in 1 .. N /\ s \ {Max(s)} \in SUBSET (1 .. N)
  BY MaxIs
<1>6. PICK g : IsFold(g, N, T, seen, step)
  BY <1>2, <1>4, FoldExists
<1>7. \A s \in SUBSET (1 .. N) :
        g[s] = IF s = {} THEN seen ELSE MeetOne(g[s \ {Max(s)}], cells[Max(s)])
  <2>1. ASSUME NEW s \in SUBSET (1 .. N), s # {}
        PROVE  g[s] = MeetOne(g[s \ {Max(s)}], cells[Max(s)])
    <3>1. g[s] = step[<<g[s \ {Max(s)}], Max(s)>>]
      BY <1>6, <2>1 DEF IsFold
    <3>2. g[s \ {Max(s)}] \in T /\ Max(s) \in 1 .. N
      BY <1>5, <1>6, <2>1 DEF IsFold
    <3>. QED  BY <1>3, <3>1, <3>2
  <2>2. g[{}] = seen
    BY <1>6 DEF IsFold
  <2>. QED  BY <2>1, <2>2
<1>8. Is(g)
  BY <1>2, <1>6, <1>7 DEF IsFold
<1>9. Is(it)
  <2>. HIDE DEF Is
  <2>. QED  BY <1>8
<1>10. Recurs(it, N, T, seen, step)
  <2>1. \A s \in SUBSET (1 .. N) :
          it[s] = IF s = {} THEN seen ELSE MeetOne(it[s \ {Max(s)}], cells[Max(s)])
    <3>. HIDE DEF it
    <3>. QED  BY <1>2, <1>9
  <2>. HIDE DEF it
  <2>. QED  BY <2>1, <1>3, <1>5 DEF Recurs
<1>. HIDE DEF it
<1>11. PICK run : IsRun(run, N, T, seen, step) /\ it[1 .. N] = run[N]
  BY <1>2, <1>4, <1>10, FoldRuns
<1>12. \A n \in 1 .. N : n - 1 \in 0 .. N
  OBVIOUS
<1>13. /\ run \in [0 .. N -> Once(C)] /\ run[0] = seen
       /\ \A n \in 1 .. N : run[n] = MeetOne(run[n - 1], cells[n])
  BY <1>3, <1>11, <1>12 DEF IsRun, T
<1>. QED  BY <1>1, <1>2, <1>11, <1>13

LEMMA MeetIs ==
  ASSUME NEW C, NEW seen \in Once(C), NEW cells \in Seq(C)
  PROVE  /\ Meet(seen, cells) \in Once(C)
         /\ Range(Meet(seen, cells)) = Range(seen) \cup Range(cells)
         /\ Len(seen) <= Len(Meet(seen, cells))
         /\ \A i \in 1 .. Len(seen) : Meet(seen, cells)[i] = seen[i]
<1>1. PICK N \in Nat : N = Len(cells)
  OBVIOUS
<1>2. PICK run : /\ run \in [0 .. N -> Once(C)] /\ run[0] = seen
                 /\ \A n \in 1 .. N : run[n] = MeetOne(run[n - 1], cells[n])
                 /\ Meet(seen, cells) = run[N]
  BY <1>1, MeetRuns
<1>3. \A t \in Once(C) : Len(t) \in Nat
  BY DEF Once
<1>. DEFINE S == {n \in 0 .. N :
                    /\ Range(run[n]) = Range(seen) \cup {cells[i] : i \in 1 .. n}
                    /\ Len(seen) <= Len(run[n])
                    /\ \A i \in 1 .. Len(seen) : run[n][i] = seen[i]}
<1>4. 0 \in S
  BY <1>2, <1>3
<1>5. ASSUME NEW n \in 0 .. N - 1, n \in S PROVE n + 1 \in S
  <2>1. n + 1 \in 1 .. N /\ n + 1 \in 0 .. N /\ (n + 1) - 1 = n /\ n \in 0 .. N
    OBVIOUS
  <2>2. run[n + 1] = MeetOne(run[n], cells[n + 1]) /\ run[n] \in Once(C) /\ cells[n + 1] \in C
    BY <1>1, <1>2, <2>1
  <2>3. /\ Range(run[n + 1]) = Range(run[n]) \cup {cells[n + 1]}
        /\ Len(run[n]) <= Len(run[n + 1])
        /\ \A i \in 1 .. Len(run[n]) : run[n + 1][i] = run[n][i]
    <3>1. PICK t, c : t = run[n] /\ c = cells[n + 1]
      OBVIOUS
    <3>2. t \in Once(C) /\ c \in C
      BY <2>2, <3>1
    <3>3. /\ Range(MeetOne(t, c)) = Range(t) \cup {c}
          /\ Len(t) <= Len(MeetOne(t, c))
          /\ \A i \in 1 .. Len(t) : MeetOne(t, c)[i] = t[i]
      BY <3>2, MeetOneIs
    <3>. QED  BY <2>2, <3>1, <3>3
  <2>4. {cells[i] : i \in 1 .. n + 1} = {cells[i] : i \in 1 .. n} \cup {cells[n + 1]}
    <3>1. \A i : i \in 1 .. n + 1 <=> i \in 1 .. n \/ i = n + 1
      OBVIOUS
    <3>. QED  BY <3>1
  <2>5. Range(run[n + 1]) = Range(seen) \cup {cells[i] : i \in 1 .. n + 1}
    BY <1>5, <2>3, <2>4
  <2>6. Len(run[n]) \in Nat /\ Len(run[n + 1]) \in Nat /\ Len(seen) \in Nat
    BY <1>2, <1>3, <2>1
  <2>7. Len(seen) <= Len(run[n + 1]) /\ \A i \in 1 .. Len(seen) : run[n + 1][i] = seen[i]
    BY <1>5, <2>3, <2>6
  <2>. QED  BY <2>1, <2>5, <2>7
<1>6. \A n \in 0 .. N : n \in S
  <2>. HIDE DEF S
  <2>. QED  BY <1>4, <1>5, InductionUpTo
<1>7. N \in S
  <2>. HIDE DEF S
  <2>. QED  BY <1>6
<1>8. Range(cells) = {cells[i] : i \in 1 .. N}
  BY <1>1, RangeIs
<1>. QED  BY <1>2, <1>7, <1>8

LEMMA HeapIs ==
  ASSUME NEW h, IsHeap(h)
  PROVE  \E n \in Nat : /\ DOMAIN h = 0 .. n - 1 /\ Cardinality(DOMAIN h) = n
                        /\ h \in [0 .. n - 1 -> Cell(0 .. n - 1)]
<1>1. PICK n \in Nat : h \in [0 .. n - 1 -> Cell(0 .. n - 1)]
  BY DEF IsHeap
<1>2. DOMAIN h = 0 .. n - 1
  BY <1>1
<1>3. Cardinality(0 .. n - 1) = n
  <2>1. 0 \in Int /\ n - 1 \in Int
    OBVIOUS
  <2>2. Cardinality(0 .. n - 1) = IF 0 > n - 1 THEN 0 ELSE n - 1 - 0 + 1
    BY <2>1, FS_Interval
  <2>. QED  BY <2>2
<1>. QED  BY <1>1, <1>2, <1>3

LEMMA CellIs ==
  ASSUME NEW h, IsHeap(h), NEW c \in DOMAIN h
  PROVE  /\ h[c].scalar \in Texts \cup {Absent}
         /\ h[c].kids \in Seq([key : Keys, cell : DOMAIN h])
         /\ h[c] = [scalar |-> h[c].scalar, kids |-> h[c].kids]
         /\ Len(h[c].kids) \in Nat /\ DOMAIN h[c].kids = 1 .. Len(h[c].kids)
         /\ \A i \in DOMAIN h[c].kids :
              h[c].kids[i].key \in Keys /\ h[c].kids[i].cell \in DOMAIN h
<1>1. PICK n \in Nat : /\ DOMAIN h = 0 .. n - 1
                       /\ h \in [0 .. n - 1 -> Cell(0 .. n - 1)]
  BY HeapIs
<1>2. h[c] \in Cell(DOMAIN h)
  BY <1>1
<1>3. /\ h[c].scalar \in Texts \cup {Absent}
      /\ h[c].kids \in Seq([key : Keys, cell : DOMAIN h])
      /\ h[c] = [scalar |-> h[c].scalar, kids |-> h[c].kids]
  BY <1>2 DEF Cell
<1>4. PICK s : s = h[c].kids
  OBVIOUS
<1>5. /\ Len(s) \in Nat /\ DOMAIN s = 1 .. Len(s)
      /\ \A i \in DOMAIN s : s[i] \in [key : Keys, cell : DOMAIN h]
  <2>1. PICK E : E = [key : Keys, cell : DOMAIN h]
    OBVIOUS
  <2>2. s \in Seq(E)
    BY <1>3, <1>4, <2>1
  <2>3. Len(s) \in Nat /\ DOMAIN s = 1 .. Len(s) /\ \A i \in 1 .. Len(s) : s[i] \in E
    BY <2>2, LenProperties, ElementOfSeq
  <2>. QED  BY <2>1, <2>3
<1>6. \A i \in DOMAIN s : s[i].key \in Keys /\ s[i].cell \in DOMAIN h
  BY <1>5
<1>. QED  BY <1>3, <1>4, <1>5, <1>6

LEMMA KidsAre ==
  ASSUME NEW h, IsHeap(h), NEW c \in DOMAIN h
  PROVE  /\ Kids(h, c) \in Seq(DOMAIN h) /\ Len(Kids(h, c)) = Len(h[c].kids)
         /\ \A i \in DOMAIN h[c].kids : Kids(h, c)[i] = h[c].kids[i].cell
         /\ \A d : d \in Range(Kids(h, c)) <=> \E k \in Keys : HasKid(h, c, k, d)
         /\ \A k \in Keys : \A d : HasKid(h, c, k, d) => d \in DOMAIN h
<1>1. /\ Len(h[c].kids) \in Nat /\ DOMAIN h[c].kids = 1 .. Len(h[c].kids)
      /\ \A i \in DOMAIN h[c].kids :
           h[c].kids[i].key \in Keys /\ h[c].kids[i].cell \in DOMAIN h
  BY CellIs
<1>. DEFINE n == Len(h[c].kids)
            s == Kids(h, c)
<1>2. s = [i \in 1 .. n |-> h[c].kids[i].cell]
  BY <1>1 DEF Kids
<1>3. s \in Seq(DOMAIN h) /\ Len(s) = n /\ \A i \in 1 .. n : s[i] = h[c].kids[i].cell
  BY <1>1, <1>2
<1>. HIDE DEF s
<1>4. \A d : d \in Range(s) <=> \E i \in 1 .. n : s[i] = d
  BY <1>3, RangeIs
<1>5. \A d : d \in Range(s) <=> \E k \in Keys : HasKid(h, c, k, d)
  BY <1>1, <1>3, <1>4 DEF HasKid
<1>6. \A k \in Keys : \A d : HasKid(h, c, k, d) => d \in DOMAIN h
  BY <1>1 DEF HasKid
<1>. QED  BY <1>1, <1>3, <1>5, <1>6 DEF s

LEMMA OnceFits ==
  ASSUME NEW n \in Nat, NEW t \in Once(0 .. n - 1)
  PROVE  Len(t) \in Nat /\ Len(t) <= n
<1>1. t \in Seq(0 .. n - 1) /\ Len(t) \in Nat /\ t \in [1 .. Len(t) -> 0 .. n - 1]
  BY DEF Once
<1>2. t \in Injection(1 .. Len(t), 0 .. n - 1)
  BY <1>1 DEF Once, Injection, IsInjective
<1>3. \A a, b \in Int : IsFiniteSet(a .. b) /\ Cardinality(a .. b) = IF a > b THEN 0 ELSE b - a + 1
  BY FS_Interval
<1>4. IsFiniteSet(0 .. n - 1)
  BY <1>3
<1>5. Cardinality(1 .. Len(t)) <= Cardinality(0 .. n - 1)
  BY <1>2, <1>4, FS_Injection
<1>6. Cardinality(1 .. Len(t)) = Len(t)
  <2>1. 1 \in Int /\ Len(t) \in Int
    BY <1>1
  <2>2. Cardinality(1 .. Len(t)) = IF 1 > Len(t) THEN 0 ELSE Len(t) - 1 + 1
    BY <2>1, <1>3
  <2>. QED  BY <2>2, <1>1
<1>7. Cardinality(0 .. n - 1) = n
  <2>1. 0 \in Int /\ n - 1 \in Int
    OBVIOUS
  <2>2. Cardinality(0 .. n - 1) = IF 0 > n - 1 THEN 0 ELSE n - 1 - 0 + 1
    BY <2>1, <1>3
  <2>. QED  BY <2>2
<1>. QED  BY <1>1, <1>5, <1>6, <1>7

\* One more of the cells met has its children among them.
MetStep(h, seen, n) == IF n > Len(seen) THEN seen ELSE Meet(seen, Kids(h, seen[n]))

LEMMA MetStepIs ==
  ASSUME NEW h, IsHeap(h), NEW t \in Once(DOMAIN h), NEW n \in Nat \ {0}
  PROVE  /\ MetStep(h, t, n) \in Once(DOMAIN h)
         /\ Len(t) <= Len(MetStep(h, t, n)) /\ Range(t) \subseteq Range(MetStep(h, t, n))
         /\ \A i \in 1 .. Len(t) : MetStep(h, t, n)[i] = t[i]
         /\ \A d \in Range(MetStep(h, t, n)) : d \in Range(t) \/
              (n <= Len(t) /\ \E k \in Keys : HasKid(h, t[n], k, d))
         /\ n <= Len(t) => \A k \in Keys : \A d :
              HasKid(h, t[n], k, d) => d \in Range(MetStep(h, t, n))
<1>1. t \in Seq(DOMAIN h) /\ Len(t) \in Nat
  BY DEF Once
<1>2. CASE n > Len(t)
  BY <1>1, <1>2 DEF MetStep
<1>3. CASE n <= Len(t)
  <2>1. MetStep(h, t, n) = Meet(t, Kids(h, t[n]))
    BY <1>1, <1>3 DEF MetStep
  <2>2. PICK c \in DOMAIN h : c = t[n]
    BY <1>1, <1>3
  <2>3. PICK s : s = Kids(h, c)
    OBVIOUS
  <2>4. s \in Seq(DOMAIN h) /\ \A d : d \in Range(s) <=> \E k \in Keys : HasKid(h, c, k, d)
    BY <2>3, KidsAre
  <2>5. /\ Meet(t, s) \in Once(DOMAIN h)
        /\ Range(Meet(t, s)) = Range(t) \cup Range(s)
        /\ Len(t) <= Len(Meet(t, s))
        /\ \A i \in 1 .. Len(t) : Meet(t, s)[i] = t[i]
    BY <2>4, MeetIs
  <2>. QED  BY <1>3, <2>1, <2>2, <2>3, <2>4, <2>5
<1>. QED  BY <1>1, <1>2, <1>3

LEMMA ReachedRuns ==
  ASSUME NEW h, IsHeap(h), NEW cells \in Seq(DOMAIN h)
  PROVE  \E f : /\ f \in [Nat -> Once(DOMAIN h)] /\ f[0] = Meet(<<>>, cells)
                /\ \A n \in Nat \ {0} : f[n] = MetStep(h, f[n - 1], n)
                /\ Reached(h, cells) = f[Cardinality(DOMAIN h)]
<1>. DEFINE T == Once(DOMAIN h)
            base == Meet(<<>>, cells)
            Is(f) == f = [n \in Nat |-> IF n = 0 THEN base ELSE MetStep(h, f[n - 1], n)]
            met == CHOOSE f : Is(f)
<1>1. Reached(h, cells) = met[Cardinality(DOMAIN h)]
  BY DEF Reached, MetStep
<1>2. base \in T
  <2>1. <<>> \in Seq(DOMAIN h) /\ Len(<<>>) = 0
    OBVIOUS
  <2>2. <<>> \in Once(DOMAIN h)
    BY <2>1 DEF Once
  <2>. QED  BY <2>2, MeetIs
<1>. PICK step : step = [p \in T \X (Nat \ {0}) |-> MetStep(h, p[1], p[2])]
  OBVIOUS
<1>. HIDE DEF base, T
<1>3. \A t \in T, n \in Nat \ {0} : step[<<t, n>>] = MetStep(h, t, n) /\ step[<<t, n>>] \in T
  <2>1. \A t \in T, n \in Nat \ {0} : MetStep(h, t, n) \in T
    BY MetStepIs DEF T
  <2>. QED  BY <2>1
<1>4. IsNatStep(step, T)
  <2>1. ASSUME NEW p \in T \X (Nat \ {0}) PROVE step[p] \in T
    <3>1. p = <<p[1], p[2]>> /\ p[1] \in T /\ p[2] \in Nat \ {0}
      OBVIOUS
    <3>. QED  BY <1>3, <3>1
  <2>2. step = [p \in T \X (Nat \ {0}) |-> step[p]]
    OBVIOUS
  <2>. QED  BY <2>1, <2>2 DEF IsNatStep
<1>5. PICK g : /\ g \in [Nat -> T] /\ g[0] = base
               /\ \A n \in Nat \ {0} : g[n] = step[<<g[n - 1], n>>]
  <2>1. \E g : NatRecurs(g, T, base, step)
    BY <1>2, <1>4, NatRecursion
  <2>. QED  BY <2>1 DEF NatRecurs
<1>6. \A n \in Nat \ {0} : g[n] = MetStep(h, g[n - 1], n)
  <2>1. \A n \in Nat \ {0} : n - 1 \in Nat
    OBVIOUS
  <2>. QED  BY <1>3, <1>5, <2>1
<1>7. Is(g)
  <2>1. \A n \in Nat : g[n] = IF n = 0 THEN base ELSE MetStep(h, g[n - 1], n)
    BY <1>5, <1>6
  <2>. QED  BY <1>5, <2>1
<1>8. Is(met)
  <2>. HIDE DEF Is
  <2>. QED  BY <1>7
<1>9. \A n \in Nat : met[n] = IF n = 0 THEN base ELSE MetStep(h, met[n - 1], n)
  <2>. HIDE DEF met
  <2>. QED  BY <1>8
<1>. DEFINE S == {n \in Nat : met[n] = g[n]}
<1>. HIDE DEF met
<1>10. 0 \in S
  BY <1>5, <1>9
<1>11. ASSUME NEW n \in Nat, n \in S PROVE n + 1 \in S
  <2>1. n + 1 \in Nat \ {0} /\ (n + 1) - 1 = n
    OBVIOUS
  <2>. QED  BY <1>6, <1>9, <1>11, <2>1
<1>12. \A n \in Nat : met[n] = g[n]
  <2>1. \A n \in Nat : n \in S
    <3>. HIDE DEF S
    <3>. QED  BY <1>10, <1>11, Induction
  <2>. QED  BY <2>1
<1>13. Cardinality(DOMAIN h) \in Nat
  BY HeapIs
<1>. QED  BY <1>1, <1>5, <1>6, <1>12, <1>13 DEF T, base

LEMMA ReachedIs ==
  ASSUME NEW h, IsHeap(h), NEW cells \in Seq(DOMAIN h)
  PROVE  /\ Reached(h, cells) \in Once(DOMAIN h)
         /\ Range(cells) \subseteq Range(Reached(h, cells))
         /\ \A e \in Range(Reached(h, cells)), k \in Keys : \A d :
              HasKid(h, e, k, d) => d \in Range(Reached(h, cells))
         /\ \A S : /\ Range(cells) \subseteq S
                   /\ \A e \in S, k \in Keys : \A d : HasKid(h, e, k, d) => d \in S
                   => Range(Reached(h, cells)) \subseteq S
<1>1. PICK f : /\ f \in [Nat -> Once(DOMAIN h)] /\ f[0] = Meet(<<>>, cells)
               /\ \A n \in Nat \ {0} : f[n] = MetStep(h, f[n - 1], n)
               /\ Reached(h, cells) = f[Cardinality(DOMAIN h)]
  BY ReachedRuns
<1>2. PICK N \in Nat : DOMAIN h = 0 .. N - 1 /\ Cardinality(DOMAIN h) = N
  BY HeapIs
<1>3. Range(f[0]) = Range(cells)
  <2>1. <<>> \in Seq(DOMAIN h) /\ Len(<<>>) = 0
    OBVIOUS
  <2>2. <<>> \in Once(DOMAIN h) /\ Range(<<>>) = {}
    BY <2>1 DEF Once, Range
  <2>3. Range(Meet(<<>>, cells)) = Range(<<>>) \cup Range(cells)
    BY <2>2, MeetIs
  <2>. QED  BY <1>1, <2>2, <2>3
<1>4. \A n \in Nat : f[n] \in Once(DOMAIN h) /\ f[n] \in Seq(DOMAIN h) /\ Len(f[n]) \in Nat
                     /\ Len(f[n]) <= N
  BY <1>1, <1>2, OnceFits DEF Once
<1>5. ASSUME NEW n \in Nat
      PROVE  /\ Len(f[n]) <= Len(f[n + 1]) /\ Range(f[n]) \subseteq Range(f[n + 1])
             /\ \A i \in 1 .. Len(f[n]) : f[n + 1][i] = f[n][i]
             /\ \A d \in Range(f[n + 1]) : d \in Range(f[n]) \/
                  (n + 1 <= Len(f[n]) /\ \E k \in Keys : HasKid(h, f[n][n + 1], k, d))
             /\ n + 1 <= Len(f[n]) => \A k \in Keys : \A d :
                  HasKid(h, f[n][n + 1], k, d) => d \in Range(f[n + 1])
  <2>1. n + 1 \in Nat \ {0} /\ (n + 1) - 1 = n
    OBVIOUS
  <2>2. f[n + 1] = MetStep(h, f[n], n + 1)
    BY <1>1, <2>1
  <2>3. PICK t, m : t = f[n] /\ m = n + 1
    OBVIOUS
  <2>4. t \in Once(DOMAIN h) /\ m \in Nat \ {0}
    BY <1>4, <2>1, <2>3
  <2>5. /\ Len(t) <= Len(MetStep(h, t, m)) /\ Range(t) \subseteq Range(MetStep(h, t, m))
        /\ \A i \in 1 .. Len(t) : MetStep(h, t, m)[i] = t[i]
        /\ \A d \in Range(MetStep(h, t, m)) : d \in Range(t) \/
             (m <= Len(t) /\ \E k \in Keys : HasKid(h, t[m], k, d))
        /\ m <= Len(t) => \A k \in Keys : \A d :
             HasKid(h, t[m], k, d) => d \in Range(MetStep(h, t, m))
    BY <2>4, MetStepIs
  <2>. QED  BY <2>2, <2>3, <2>5
<1>. DEFINE ClosedTo(n) == \A i \in 1 .. n : i <= Len(f[n]) =>
                      \A k \in Keys : \A d : HasKid(h, f[n][i], k, d) => d \in Range(f[n])
            A == {n \in Nat : Range(cells) \subseteq Range(f[n]) /\ ClosedTo(n)}
<1>6. 0 \in A
  BY <1>3
<1>7. ASSUME NEW n \in Nat, n \in A PROVE n + 1 \in A
  <2>1. Range(cells) \subseteq Range(f[n + 1])
    BY <1>5, <1>7
  <2>2. ASSUME NEW i \in 1 .. n + 1, i <= Len(f[n + 1]),
               NEW k \in Keys, NEW d, HasKid(h, f[n + 1][i], k, d)
        PROVE  d \in Range(f[n + 1])
    <3>0. Len(f[n]) \in Nat
      BY <1>4
    <3>1. CASE i <= Len(f[n])
      <4>0. i \in 1 .. Len(f[n])
        BY <3>0, <3>1
      <4>1. f[n + 1][i] = f[n][i]
        BY <1>5, <4>0
      <4>2. CASE i = n + 1
        BY <1>5, <2>2, <3>1, <4>1, <4>2
      <4>3. CASE i # n + 1
        <5>1. i \in 1 .. n
          BY <4>3
        <5>2. d \in Range(f[n])
          BY <1>7, <2>2, <3>1, <4>1, <5>1
        <5>. QED  BY <1>5, <5>2
      <4>. QED  BY <4>2, <4>3
    <3>2. CASE i > Len(f[n])
      <4>1. ~(n + 1 <= Len(f[n]))
        BY <3>0, <3>2
      <4>2. Range(f[n + 1]) = Range(f[n])
        BY <1>5, <4>1
      <4>3. f[n + 1] = f[n]
        <5>1. n + 1 \in Nat \ {0} /\ (n + 1) - 1 = n /\ n + 1 > Len(f[n])
          BY <3>0, <4>1
        <5>. QED  BY <1>1, <5>1 DEF MetStep
      <4>. QED  BY <2>2, <3>0, <3>2, <4>3
    <3>. QED  BY <3>0, <3>1, <3>2
  <2>. QED  BY <2>1, <2>2
<1>8. N \in A
  <2>1. \A n \in Nat : n \in A
    <3>. HIDE DEF A
    <3>. QED  BY <1>6, <1>7, Induction
  <2>. QED  BY <2>1
<1>9. ASSUME NEW e \in Range(f[N]), NEW k \in Keys, NEW d, HasKid(h, e, k, d)
      PROVE  d \in Range(f[N])
  <2>1. PICK i \in 1 .. Len(f[N]) : f[N][i] = e
    BY <1>4, RangeIs
  <2>2. i \in 1 .. N
    <3>1. Len(f[N]) \in Nat /\ Len(f[N]) <= N
      BY <1>4
    <3>. QED  BY <2>1, <3>1
  <2>. QED  BY <1>8, <1>9, <2>1, <2>2
<1>10. ASSUME NEW S, Range(cells) \subseteq S,
              \A e \in S, k \in Keys : \A d : HasKid(h, e, k, d) => d \in S
       PROVE  Range(f[N]) \subseteq S
  <2>. DEFINE B == {n \in Nat : Range(f[n]) \subseteq S}
  <2>1. 0 \in B
    BY <1>3, <1>10
  <2>2. ASSUME NEW n \in Nat, n \in B PROVE n + 1 \in B
    <3>1. ASSUME NEW d \in Range(f[n + 1]) PROVE d \in S
      <4>1. CASE d \in Range(f[n])
        BY <2>2, <4>1
      <4>2. CASE n + 1 <= Len(f[n]) /\ \E k \in Keys : HasKid(h, f[n][n + 1], k, d)
        <5>1. f[n][n + 1] \in Range(f[n])
          <6>1. f[n] \in Seq(DOMAIN h) /\ Len(f[n]) \in Nat
            BY <1>4
          <6>2. n + 1 \in 1 .. Len(f[n])
            BY <4>2, <6>1
          <6>. QED  BY <6>1, <6>2, RangeIs
        <5>. QED  BY <1>10, <2>2, <4>2, <5>1
      <4>. QED  BY <1>5, <4>1, <4>2
    <3>. QED  BY <3>1
  <2>3. N \in B
    <3>1. \A n \in Nat : n \in B
      <4>. HIDE DEF B
      <4>. QED  BY <2>1, <2>2, Induction
    <3>. QED  BY <3>1
  <2>. QED  BY <2>3
<1>. QED  BY <1>1, <1>2, <1>4, <1>8, <1>9, <1>10

LEMMA UnderIs ==
  ASSUME NEW h, Good(h), NEW c \in DOMAIN h
  PROVE  Under(h, c) = Cells(h, c)
<1>1. IsHeap(h) /\ <<c>> \in Seq(DOMAIN h)
  BY DEF Good
<1>2. \A d : d \in Range(<<c>>) <=> d = c
  BY DEF Range
<1>. DEFINE R == Range(Reached(h, <<c>>))
<1>3. /\ Range(<<c>>) \subseteq R
      /\ \A e \in R, k \in Keys : \A d : HasKid(h, e, k, d) => d \in R
      /\ \A S : /\ Range(<<c>>) \subseteq S
                /\ \A e \in S, k \in Keys : \A d : HasKid(h, e, k, d) => d \in S
                => R \subseteq S
  BY <1>1, ReachedIs
<1>. HIDE DEF R
<1>4. R \subseteq Cells(h, c)
  BY <1>2, <1>3, CellsClosed
<1>5. Cells(h, c) \subseteq R
  BY <1>2, <1>3, CellsLeast
<1>. QED  BY <1>4, <1>5 DEF R, Under

-----------------------------------------------------------------------------
(* The same cells under other addresses.                                    *)

\* The cells of h in S are in g as they were, name giving each its address there.
Renames(h, g, S, name) ==
  /\ S \subseteq DOMAIN h
  /\ \A c \in S :
       /\ name[c] \in DOMAIN g /\ g[name[c]].scalar = h[c].scalar
       /\ DOMAIN g[name[c]].kids = DOMAIN h[c].kids
       /\ \A i \in DOMAIN h[c].kids :
            /\ h[c].kids[i].cell \in S /\ g[name[c]].kids[i].key = h[c].kids[i].key
            /\ g[name[c]].kids[i].cell = name[h[c].kids[i].cell]
  /\ \A c, d \in S : name[c] = name[d] => c = d

\* What a cell shows besides the cells it leads to.
Node(h, c) ==
  [scalar |-> h[c].scalar, keys |-> [i \in DOMAIN h[c].kids |-> h[c].kids[i].key]]

LEMMA RenamedKids ==
  ASSUME NEW h, NEW g, NEW S, NEW name, Renames(h, g, S, name), NEW c \in S
  PROVE  /\ \A k \in Keys : \A d : HasKid(h, c, k, d) => d \in S /\ HasKid(g, name[c], k, name[d])
         /\ \A k \in Keys : \A e : HasKid(g, name[c], k, e) =>
              \E d \in S : e = name[d] /\ HasKid(h, c, k, d)
         /\ Node(g, name[c]) = Node(h, c)
<1>1. /\ DOMAIN g[name[c]].kids = DOMAIN h[c].kids /\ g[name[c]].scalar = h[c].scalar
      /\ \A i \in DOMAIN h[c].kids :
            /\ h[c].kids[i].cell \in S /\ g[name[c]].kids[i].key = h[c].kids[i].key
            /\ g[name[c]].kids[i].cell = name[h[c].kids[i].cell]
  BY DEF Renames
<1>2. Node(g, name[c]) = Node(h, c)
  BY <1>1 DEF Node
<1>. QED  BY <1>1, <1>2 DEF HasKid

LEMMA RenamedLays ==
  ASSUME NEW h, NEW g, NEW S, NEW name, Renames(h, g, S, name),
         NEW c \in S, NEW L, Lays(h, c, L)
  PROVE  /\ Lays(g, name[c], [p \in DOMAIN L |-> name[L[p]]])
         /\ \A p \in DOMAIN L : L[p] \in S
<1>. DEFINE U == {p \in DOMAIN L : L[p] \in S}
<1>1. <<>> \in U
  BY DEF Lays
<1>2. ASSUME NEW p \in DOMAIN L, NEW k \in Keys,
             p \in U /\ Append(p, k) \in DOMAIN L /\ HasKid(h, L[p], k, L[Append(p, k)])
      PROVE  Append(p, k) \in U
  BY <1>2, RenamedKids
<1>3. \A p \in DOMAIN L : L[p] \in S
  <2>1. DOMAIN L \subseteq U
    <3>. HIDE DEF U
    <3>. QED  BY <1>1, <1>2, DownLayout
  <2>. QED  BY <2>1
<1>4. PICK M : M = [p \in DOMAIN L |-> name[L[p]]]
  OBVIOUS
<1>5. DOMAIN M = DOMAIN L /\ (\A p \in DOMAIN L : M[p] = name[L[p]]) /\ M = [p \in DOMAIN M |-> M[p]]
  BY <1>4
<1>6. \A p \in DOMAIN M : M[p] \in DOMAIN g
  BY <1>3, <1>5 DEF Renames
<1>7. ASSUME NEW p \in DOMAIN M, NEW k \in Keys, NEW e, HasKid(g, M[p], k, e)
      PROVE  Append(p, k) \in DOMAIN M /\ M[Append(p, k)] = e
  <2>1. L[p] \in S /\ HasKid(g, name[L[p]], k, e)
    BY <1>3, <1>5, <1>7
  <2>2. PICK d \in S : e = name[d] /\ HasKid(h, L[p], k, d)
    BY <2>1, RenamedKids
  <2>3. Append(p, k) \in DOMAIN L /\ L[Append(p, k)] = d
    BY <1>5, <2>2 DEF Lays
  <2>. QED  BY <1>5, <2>2, <2>3
<1>8. ASSUME NEW p \in DOMAIN M, p # <<>>
      PROVE  \E q \in DOMAIN M, k \in Keys : p = Append(q, k) /\ HasKid(g, M[q], k, M[p])
  <2>1. PICK q \in DOMAIN L, k \in Keys : p = Append(q, k) /\ HasKid(h, L[q], k, L[p])
    BY <1>5, <1>8 DEF Lays
  <2>2. L[q] \in S
    BY <1>3
  <2>3. HasKid(g, name[L[q]], k, name[L[p]])
    BY <2>1, <2>2, RenamedKids
  <2>. QED  BY <1>5, <2>1, <2>3
<1>9. \A p, q \in DOMAIN M : M[p] = M[q] => p = q
  BY <1>3, <1>5 DEF Lays, Renames
<1>10. Lays(g, name[c], M)
  BY <1>5, <1>6, <1>7, <1>8, <1>9 DEF Lays
<1>. QED  BY <1>3, <1>4, <1>10

\* name numbers what is in old from first on.
Numbers(name, old, first) ==
  /\ DOMAIN name = Range(old)
  /\ \A i \in 1 .. Len(old) : name[old[i]] = first + i - 1
  /\ \A c \in Range(old) : \E i \in 1 .. Len(old) : c = old[i] /\ name[c] = first + i - 1
  /\ \A c, d \in Range(old) : name[c] = name[d] => c = d

LEMMA AddressesAre ==
  ASSUME NEW C, NEW old \in Once(C), NEW first \in Nat
  PROVE  Numbers(Addresses(old, first), old, first)
<1>1. old \in Seq(C) /\ DOMAIN old = 1 .. Len(old) /\ Len(old) \in Nat
      /\ \A i, j \in 1 .. Len(old) : old[i] = old[j] => i = j
  BY DEF Once
<1>2. \A c : c \in Range(old) <=> \E i \in 1 .. Len(old) : old[i] = c
  BY <1>1, RangeIs
<1>3. ASSUME NEW i \in 1 .. Len(old)
      PROVE  old[i] \in Range(old) /\ Addresses(old, first)[old[i]] = first + i - 1
  <2>1. old[i] \in Range(old)
    BY <1>2
  <2>2. PICK j : j = CHOOSE l \in DOMAIN old : old[l] = old[i]
    OBVIOUS
  <2>3. j \in DOMAIN old /\ old[j] = old[i]
    BY <1>1, <2>2
  <2>4. j = i
    BY <1>1, <2>3
  <2>5. Addresses(old, first)[old[i]] = first + j - 1
    BY <2>1, <2>2 DEF Addresses
  <2>. QED  BY <2>1, <2>4, <2>5
<1>4. ASSUME NEW c \in Range(old)
      PROVE  \E i \in 1 .. Len(old) : c = old[i] /\ Addresses(old, first)[c] = first + i - 1
  BY <1>2, <1>3
<1>5. ASSUME NEW c \in Range(old), NEW d \in Range(old),
             Addresses(old, first)[c] = Addresses(old, first)[d]
      PROVE  c = d
  <2>1. PICK i \in 1 .. Len(old) : c = old[i] /\ Addresses(old, first)[c] = first + i - 1
    BY <1>4
  <2>2. PICK j \in 1 .. Len(old) : d = old[j] /\ Addresses(old, first)[d] = first + j - 1
    BY <1>4
  <2>3. i = j
    BY <1>5, <2>1, <2>2
  <2>. QED  BY <2>1, <2>2, <2>3
<1>6. DOMAIN Addresses(old, first) = Range(old)
  BY DEF Addresses
<1>. QED  BY <1>3, <1>4, <1>5, <1>6 DEF Numbers

\* The cell d, its children under the addresses name gives them.
Twin(d, name) ==
  [scalar |-> d.scalar,
   kids |-> [i \in DOMAIN d.kids |-> [key |-> d.kids[i].key, cell |-> name[d.kids[i].cell]]]]

IsTwin(u, d, name) ==
  /\ u.scalar = d.scalar /\ DOMAIN u.kids = DOMAIN d.kids
  /\ \A i \in DOMAIN d.kids : /\ u.kids[i].key = d.kids[i].key
                               /\ u.kids[i].cell = name[d.kids[i].cell]
LeadsInto(d, name, D) == \A i \in DOMAIN d.kids : name[d.kids[i].cell] \in D

LEMMA TwinIs ==
  ASSUME NEW h, IsHeap(h), NEW c \in DOMAIN h, NEW name, NEW D, LeadsInto(h[c], name, D)
  PROVE  Twin(h[c], name) \in Cell(D) /\ IsTwin(Twin(h[c], name), h[c], name)
<1>1. /\ h[c].scalar \in Texts \cup {Absent}
      /\ Len(h[c].kids) \in Nat /\ DOMAIN h[c].kids = 1 .. Len(h[c].kids)
      /\ \A i \in DOMAIN h[c].kids : h[c].kids[i].key \in Keys
  BY CellIs
<1>. DEFINE s == [i \in DOMAIN h[c].kids |->
                    [key |-> h[c].kids[i].key, cell |-> name[h[c].kids[i].cell]]]
<1>2. s \in Seq([key : Keys, cell : D])
  <2>1. PICK n \in Nat : n = Len(h[c].kids)
    BY <1>1
  <2>2. PICK E : E = [key : Keys, cell : D]
    OBVIOUS
  <2>3. \A i \in 1 .. n : [key |-> h[c].kids[i].key, cell |-> name[h[c].kids[i].cell]] \in E
    BY <1>1, <2>1, <2>2 DEF LeadsInto
  <2>4. s \in [1 .. n -> E]
    BY <1>1, <2>1, <2>3
  <2>5. s \in Seq(E)
    <3>. HIDE DEF s
    <3>. QED  BY <2>4
  <2>. QED  BY <2>2, <2>5
<1>3. Twin(h[c], name) = [scalar |-> h[c].scalar, kids |-> s]
  BY DEF Twin
<1>4. Twin(h[c], name) \in Cell(D)
  <2>. HIDE DEF s
  <2>. QED  BY <1>1, <1>2, <1>3 DEF Cell
<1>. QED  BY <1>3, <1>4 DEF IsTwin

\* The cells old of h, from address first on.
IsMoved(m, h, old, first, name) ==
  /\ DOMAIN m = first .. first + Len(old) - 1
  /\ \A i \in 1 .. Len(old) : m[first + i - 1] = Twin(h[old[i]], name)

LEMMA MovedIs ==
  ASSUME NEW h, NEW old, NEW first \in Nat, Len(old) \in Nat
  PROVE  IsMoved(Moved(h, old, first), h, old, first, Addresses(old, first))
<1>1. Moved(h, old, first) =
        [e \in first .. first + Len(old) - 1 |-> Twin(h[old[e - first + 1]], Addresses(old, first))]
  BY DEF Moved, Twin
<1>2. ASSUME NEW i \in 1 .. Len(old)
      PROVE  first + i - 1 \in first .. first + Len(old) - 1 /\ (first + i - 1) - first + 1 = i
  OBVIOUS
<1>. QED  BY <1>1, <1>2 DEF IsMoved

\* S has the children of its cells; h has g's cells; D is where g has those of S.
Closed(h, S) == \A e \in S, k \in Keys : \A d : HasKid(h, e, k, d) => d \in S
Extends(g, h) == DOMAIN g \subseteq DOMAIN h /\ \A c \in DOMAIN g : h[c] = g[c]
Fills(g, S, name, D) ==
  /\ \A e \in D : e \in DOMAIN g /\ g[e] \in Cell(D) /\ \E c \in S : e = name[c]
  /\ \A c \in S : name[c] \in D

\* Cells that lead to one another only, moved to addresses that follow.
LEMMA MovedRenames ==
  ASSUME NEW h, IsHeap(h), NEW old \in Once(DOMAIN h), NEW first \in Nat, NEW N \in Nat,
         N = Len(old), NEW g, Closed(h, Range(old)), Extends(Moved(h, old, first), g)
  PROVE  /\ Renames(h, g, Range(old), Addresses(old, first))
         /\ Fills(g, Range(old), Addresses(old, first), first .. first + N - 1)
<1>0. PICK name, S : name = Addresses(old, first) /\ S = Range(old)
  OBVIOUS
<1>1. /\ \A i \in 1 .. N : name[old[i]] = first + i - 1
      /\ \A c \in S : \E i \in 1 .. N : c = old[i] /\ name[c] = first + i - 1
      /\ \A c, d \in S : name[c] = name[d] => c = d
  <2>1. Numbers(name, old, first)
    BY <1>0, AddressesAre
  <2>. QED  BY <1>0, <2>1 DEF Numbers
<1>2. old \in Seq(DOMAIN h)
  BY DEF Once
<1>3. S \subseteq DOMAIN h /\ \A i \in 1 .. N : old[i] \in S
  BY <1>0, <1>2, RangeIs
<1>4. /\ DOMAIN Moved(h, old, first) = first .. first + N - 1
      /\ \A i \in 1 .. N : Moved(h, old, first)[first + i - 1] = Twin(h[old[i]], name)
  <2>1. IsMoved(Moved(h, old, first), h, old, first, Addresses(old, first))
    BY MovedIs
  <2>. QED  BY <1>0, <2>1 DEF IsMoved
<1>40. Closed(h, S) /\ \A e \in first .. first + N - 1 : e \in DOMAIN g /\ g[e] = Moved(h, old, first)[e]
  BY <1>0, <1>4 DEF Extends
<1>5. \A c \in S : name[c] \in first .. first + N - 1
  BY <1>1
<1>6. ASSUME NEW c \in S
      PROVE  name[c] \in DOMAIN g /\ g[name[c]] = Twin(h[c], name)
  <2>1. PICK i \in 1 .. N : c = old[i] /\ name[c] = first + i - 1
    BY <1>1
  <2>. QED  BY <1>4, <1>40, <1>5, <2>1
<1>7. ASSUME NEW c \in S, NEW i \in DOMAIN h[c].kids
      PROVE  h[c].kids[i].cell \in S
  <2>1. h[c].kids[i].key \in Keys
    BY <1>3, <1>7, CellIs
  <2>2. HasKid(h, c, h[c].kids[i].key, h[c].kids[i].cell)
    BY DEF HasKid
  <2>. QED  BY <1>40, <2>1, <2>2 DEF Closed
<1>8. ASSUME NEW c \in S
      PROVE  /\ g[name[c]] \in Cell(first .. first + N - 1)
             /\ g[name[c]].scalar = h[c].scalar
             /\ DOMAIN g[name[c]].kids = DOMAIN h[c].kids
             /\ \A i \in DOMAIN h[c].kids :
                  /\ g[name[c]].kids[i].key = h[c].kids[i].key
                  /\ g[name[c]].kids[i].cell = name[h[c].kids[i].cell]
  <2>1. \A i \in DOMAIN h[c].kids : name[h[c].kids[i].cell] \in first .. first + N - 1
    BY <1>5, <1>7
  <2>2. PICK D : D = first .. first + N - 1
    OBVIOUS
  <2>3. c \in DOMAIN h /\ LeadsInto(h[c], name, D)
    BY <1>3, <2>1, <2>2 DEF LeadsInto
  <2>4. Twin(h[c], name) \in Cell(D) /\ IsTwin(Twin(h[c], name), h[c], name)
    BY <2>3, TwinIs
  <2>. QED  BY <1>6, <2>2, <2>4 DEF IsTwin
<1>9. Renames(h, g, S, name)
  BY <1>1, <1>3, <1>6, <1>7, <1>8 DEF Renames
<1>10. ASSUME NEW e \in first .. first + N - 1
       PROVE  /\ \E c \in S : e = name[c]
              /\ e \in DOMAIN g /\ g[e] \in Cell(first .. first + N - 1)
  <2>1. e - first + 1 \in 1 .. N /\ first + (e - first + 1) - 1 = e
    OBVIOUS
  <2>2. PICK i \in 1 .. N : e = first + i - 1
    BY <2>1
  <2>3. PICK c \in S : e = name[c]
    BY <1>1, <1>3, <2>2
  <2>. QED  BY <1>6, <1>8, <2>3
<1>. QED  BY <1>0, <1>5, <1>9, <1>10 DEF Fills

-----------------------------------------------------------------------------
(* A heap with more cells.                                                  *)

LEMMA ExtendsLays ==
  ASSUME NEW g, NEW h, Extends(g, h), NEW c \in DOMAIN g, NEW L, Lays(g, c, L)
  PROVE  Lays(h, c, L)
<1>1. \A e \in DOMAIN g : \A k, d : HasKid(h, e, k, d) <=> HasKid(g, e, k, d)
  BY DEF Extends, HasKid
<1>2. \A p \in DOMAIN L : L[p] \in DOMAIN g /\ L[p] \in DOMAIN h
  BY DEF Lays, Extends
<1>. QED  BY <1>1, <1>2 DEF Lays

LEMMA ExtendsLayout ==
  ASSUME NEW g, NEW h, Good(g), Extends(g, h), NEW c \in DOMAIN g
  PROVE  Layout(h, c) = Layout(g, c) /\ Cells(h, c) = Cells(g, c)
<1>1. Lays(h, c, Layout(g, c))
  BY LayoutLays, ExtendsLays
<1>2. Layout(h, c) = Layout(g, c)
  BY <1>1, LaysOnce
<1>. QED  BY <1>2 DEF Cells

LEMMA CellGrows ==
  ASSUME NEW D, NEW E, D \subseteq E
  PROVE  Cell(D) \subseteq Cell(E)
<1>1. PICK A, B : A = [key : Keys, cell : D] /\ B = [key : Keys, cell : E]
  OBVIOUS
<1>2. A \subseteq B
  BY <1>1
<1>3. \A s \in Seq(A) : s \in Seq(B)
  BY <1>2, SeqMonotonic
<1>. QED  BY <1>1, <1>3 DEF Cell

\* The cells of h that g has not are the tree under v.
Fresh(g, h, v) == v \in DOMAIN h /\ Cells(h, v) = DOMAIN h \ DOMAIN g
\* What is under v in h is what is under c in g.
Alike(g, c, h, v) ==
  /\ DOMAIN Layout(h, v) = DOMAIN Layout(g, c)
  /\ \A p \in DOMAIN Layout(g, c) : Node(h, Layout(h, v)[p]) = Node(g, Layout(g, c)[p])

\* A heap made of g's cells and of ones after them.
Follows(m, n, N) ==
  DOMAIN m = n .. n + N - 1 /\ \A e \in n .. n + N - 1 : m[e] \in Cell(0 .. n + N - 1)
Grown(g, m, h, n, N) ==
  /\ h \in [0 .. n + N - 1 -> Cell(0 .. n + N - 1)]
  /\ Extends(g, h) /\ DOMAIN h = 0 .. n + N - 1
  /\ \A e \in n .. n + N - 1 : h[e] = m[e]

LEMMA HeapGrown ==
  ASSUME NEW g, NEW n \in Nat, NEW N \in Nat, g \in [0 .. n - 1 -> Cell(0 .. n - 1)],
         NEW m, Follows(m, n, N)
  PROVE  Grown(g, m, With(g, m), n, N)
<1>. USE DEF Follows
<1>1. DOMAIN g = 0 .. n - 1
  OBVIOUS
<1>2. \A e : e \in 0 .. n + N - 1 <=> e \in n .. n + N - 1 \/ e \in 0 .. n - 1
  OBVIOUS
<1>3. PICK h : h = With(g, m)
  OBVIOUS
<1>4. /\ DOMAIN h = 0 .. n + N - 1 /\ h = [x \in DOMAIN h |-> h[x]]
      /\ \A e \in n .. n + N - 1 : h[e] = m[e]
      /\ \A e \in 0 .. n - 1 : h[e] = g[e]
  <2>1. DOMAIN m \cup DOMAIN g = 0 .. n + N - 1
    BY <1>1, <1>2
  <2>2. \A e \in 0 .. n - 1 : e \in DOMAIN g \ DOMAIN m
    BY <1>1
  <2>. QED  BY <1>3, <2>1, <2>2 DEF With
<1>5. \A e \in 0 .. n - 1 : g[e] \in Cell(0 .. n + N - 1)
  <2>1. 0 .. n - 1 \subseteq 0 .. n + N - 1
    OBVIOUS
  <2>. QED  BY <2>1, CellGrows
<1>6. \A e \in 0 .. n + N - 1 : h[e] \in Cell(0 .. n + N - 1)
  BY <1>2, <1>4, <1>5
<1>7. h \in [0 .. n + N - 1 -> Cell(0 .. n + N - 1)]
  BY <1>4, <1>6
<1>8. Extends(g, h)
  BY <1>1, <1>2, <1>4 DEF Extends
<1>. QED  BY <1>3, <1>4, <1>7, <1>8 DEF Grown

\* r.heap is g and a copy of the tree at c, at r.at, of cells g does not have.
Copies(g, c, r) ==
  /\ Good(r.heap) /\ Extends(g, r.heap) /\ Fresh(g, r.heap, r.at)
  /\ Alike(g, c, r.heap, r.at)

LEMMA CopyIs ==
  ASSUME NEW g, Good(g), NEW c \in DOMAIN g
  PROVE  Copies(g, c, deep_copy(g, c))
<1>1. PICK n \in Nat : /\ DOMAIN g = 0 .. n - 1 /\ Cardinality(DOMAIN g) = n
                       /\ g \in [0 .. n - 1 -> Cell(0 .. n - 1)]
  BY HeapIs DEF Good
<1>2. PICK old, S : old = Reached(g, <<c>>) /\ S = Range(old)
  OBVIOUS
<1>3. S = Cells(g, c) /\ old \in Once(DOMAIN g)
  <2>1. Under(g, c) = Cells(g, c)
    BY UnderIs
  <2>2. <<c>> \in Seq(DOMAIN g) /\ IsHeap(g)
    BY DEF Good
  <2>3. Reached(g, <<c>>) \in Once(DOMAIN g)
    BY <2>2, ReachedIs
  <2>. QED  BY <1>2, <2>1, <2>3 DEF Under
<1>4. PICK m, name : m = Moved(g, old, n) /\ name = Addresses(old, n)
  OBVIOUS
<1>5. PICK h : h = With(g, m)
  OBVIOUS
<1>6. PICK r : r = deep_copy(g, c)
  OBVIOUS
<1>7. r.heap = h /\ r.at = name[c]
  BY <1>1, <1>2, <1>4, <1>5, <1>6 DEF deep_copy
<1>8. PICK N \in Nat : N = Len(old)
  BY <1>3 DEF Once
<1>9. IsMoved(m, g, old, n, name)
  BY <1>4, <1>8, MovedIs
<1>10. /\ c \in S /\ S \subseteq DOMAIN g
       /\ Closed(g, S)
  BY <1>3, CellsClosed DEF Closed
<1>11. DOMAIN m = n .. n + N - 1
  BY <1>8, <1>9 DEF IsMoved
<1>12. Extends(m, m)
  BY DEF Extends
<1>13. \A e \in DOMAIN m : m[e] \in Cell(0 .. n + N - 1)
  <2>1. IsHeap(g)
    BY DEF Good
  <2>0. Closed(g, Range(old)) /\ Extends(Moved(g, old, n), m)
    BY <1>2, <1>4, <1>10, <1>12
  <2>2. Fills(m, Range(old), Addresses(old, n), n .. n + N - 1)
    BY <1>3, <1>8, <2>0, <2>1, MovedRenames
  <2>3. n .. n + N - 1 \subseteq 0 .. n + N - 1
    OBVIOUS
  <2>4. Cell(n .. n + N - 1) \subseteq Cell(0 .. n + N - 1)
    BY <2>3, CellGrows
  <2>. QED  BY <1>11, <2>2, <2>4 DEF Fills
<1>14. /\ h \in [0 .. n + N - 1 -> Cell(0 .. n + N - 1)]
       /\ Extends(g, h) /\ DOMAIN h = 0 .. n + N - 1
       /\ \A e \in n .. n + N - 1 : h[e] = m[e]
  <2>1. Follows(m, n, N)
    BY <1>11, <1>13 DEF Follows
  <2>. QED  BY <1>1, <1>5, <2>1, HeapGrown DEF Grown
<1>15. /\ Renames(g, h, S, name)
       /\ \A e \in n .. n + N - 1 : \E d \in S : e = name[d]
       /\ \A d \in S : name[d] \in n .. n + N - 1
  <2>1. IsHeap(g)
    BY DEF Good
  <2>2. Closed(g, Range(old)) /\ Extends(Moved(g, old, n), h)
    BY <1>2, <1>4, <1>10, <1>11, <1>14 DEF Extends
  <2>3. /\ Renames(g, h, Range(old), Addresses(old, n))
        /\ Fills(h, Range(old), Addresses(old, n), n .. n + N - 1)
    BY <1>3, <1>8, <2>1, <2>2, MovedRenames
  <2>. QED  BY <1>2, <1>4, <2>3 DEF Fills
<1>16. \A e \in DOMAIN h : e \in DOMAIN g \/ \E d \in S : e = name[d]
  BY <1>1, <1>14, <1>15
<1>17. IsHeap(h)
  <2>1. n + N \in Nat
    OBVIOUS
  <2>. QED  BY <1>14, <2>1 DEF IsHeap
<1>18. KeysDiffer(h)
  <2>1. ASSUME NEW e \in DOMAIN h, NEW i \in DOMAIN h[e].kids, NEW j \in DOMAIN h[e].kids,
               h[e].kids[i].key = h[e].kids[j].key
        PROVE  i = j
    <3>1. CASE e \in DOMAIN g
      BY <1>14, <2>1, <3>1 DEF Good, KeysDiffer, Extends
    <3>2. ASSUME NEW d \in S, e = name[d] PROVE i = j
      BY <1>10, <1>15, <2>1, <3>2 DEF Good, KeysDiffer, Renames
    <3>. QED  BY <1>16, <3>1, <3>2
  <2>. QED  BY <2>1 DEF KeysDiffer
<1>19. ASSUME NEW e \in DOMAIN h
       PROVE  \E L : Lays(h, e, L)
  <2>1. CASE e \in DOMAIN g
    BY <1>14, <2>1, LayoutLays, ExtendsLays
  <2>2. ASSUME NEW d \in S, e = name[d] PROVE \E L : Lays(h, e, L)
    <3>1. Lays(g, d, Layout(g, d))
      BY <1>10, LayoutLays
    <3>. QED  BY <1>15, <2>2, <3>1, RenamedLays
  <2>. QED  BY <1>16, <2>1, <2>2
<1>20. Good(h)
  BY <1>17, <1>18, <1>19 DEF Good
<1>21. PICK L : L = Layout(g, c)
  OBVIOUS
<1>22. Lays(g, c, L) /\ \A p \in DOMAIN L : L[p] \in S
  BY <1>3, <1>21, LayoutLays DEF Cells
<1>23. PICK M : M = [p \in DOMAIN L |-> name[L[p]]]
  OBVIOUS
<1>24. Layout(h, name[c]) = M
  <2>1. Lays(h, name[c], M)
    BY <1>10, <1>15, <1>22, <1>23, RenamedLays
  <2>. QED  BY <2>1, LaysOnce
<1>25. Alike(g, c, h, name[c])
  <2>1. \A p \in DOMAIN L : Node(h, M[p]) = Node(g, L[p])
    BY <1>15, <1>22, <1>23, RenamedKids
  <2>. QED  BY <1>21, <1>23, <1>24, <2>1 DEF Alike
<1>26. Fresh(g, h, name[c])
  <2>1. Cells(h, name[c]) = {M[p] : p \in DOMAIN M}
    BY <1>24 DEF Cells
  <2>2. \A d \in S : \E p \in DOMAIN L : d = L[p]
    BY <1>3, <1>21 DEF Cells
  <2>3. \A e : e \in Cells(h, name[c]) <=> \E d \in S : e = name[d]
    BY <1>22, <1>23, <2>1, <2>2
  <2>4. \A e : e \in DOMAIN h \ DOMAIN g <=> e \in n .. n + N - 1
    BY <1>1, <1>14
  <2>5. \A e : e \in Cells(h, name[c]) <=> e \in DOMAIN h \ DOMAIN g
    BY <1>15, <2>3, <2>4
  <2>6. name[c] \in DOMAIN h
    BY <1>10, <1>15 DEF Renames
  <2>. QED  BY <2>5, <2>6 DEF Fresh
<1>. QED  BY <1>6, <1>7, <1>14, <1>20, <1>25, <1>26 DEF Copies

\* One cell more, over cells that are there.
AddsCell(g, cell, r) ==
  /\ IsHeap(r.heap) /\ Extends(g, r.heap) /\ r.at \notin DOMAIN g
  /\ DOMAIN r.heap = DOMAIN g \cup {r.at} /\ r.heap[r.at] = cell

LEMMA AllocIs ==
  ASSUME NEW g, IsHeap(g), NEW cell \in Cell(DOMAIN g)
  PROVE  AddsCell(g, cell, Alloc(g, cell))
<1>1. PICK n \in Nat : /\ DOMAIN g = 0 .. n - 1 /\ Cardinality(DOMAIN g) = n
                       /\ g \in [0 .. n - 1 -> Cell(0 .. n - 1)]
  BY HeapIs
<1>2. PICK m : m = [c \in {n} |-> cell]
  OBVIOUS
<1>3. PICK r : r = Alloc(g, cell)
  OBVIOUS
<1>4. r.heap = With(g, m) /\ r.at = n
  BY <1>1, <1>2, <1>3 DEF Alloc
<1>5. n + 1 \in Nat /\ n .. n + 1 - 1 = {n} /\ 0 .. n - 1 \subseteq 0 .. n + 1 - 1
  OBVIOUS
<1>6. Follows(m, n, 1)
  <2>1. Cell(0 .. n - 1) \subseteq Cell(0 .. n + 1 - 1)
    BY <1>5, CellGrows
  <2>. QED  BY <1>1, <1>2, <1>5, <2>1 DEF Follows
<1>7. Grown(g, m, r.heap, n, 1)
  BY <1>1, <1>4, <1>6, HeapGrown
<1>8. /\ r.heap \in [0 .. (n + 1) - 1 -> Cell(0 .. (n + 1) - 1)] /\ Extends(g, r.heap)
      /\ DOMAIN r.heap = 0 .. n + 1 - 1 /\ r.heap[n] = m[n]
  BY <1>5, <1>7 DEF Grown
<1>9. \A e : e \in 0 .. n + 1 - 1 <=> e \in 0 .. n - 1 \/ e = n
  OBVIOUS
<1>10. IsHeap(r.heap)
  BY <1>5, <1>8 DEF IsHeap
<1>11. DOMAIN r.heap = DOMAIN g \cup {n} /\ n \notin DOMAIN g
  BY <1>1, <1>8, <1>9
<1>. QED  BY <1>2, <1>3, <1>4, <1>8, <1>10, <1>11 DEF AddsCell

LEMMA AddedGood ==
  ASSUME NEW g, Good(g), NEW cell, NEW r, AddsCell(g, cell, r), NEW L,
         Lays(r.heap, r.at, L),
         \A i, j \in DOMAIN cell.kids : cell.kids[i].key = cell.kids[j].key => i = j
  PROVE  Good(r.heap)
<1>1. KeysDiffer(r.heap)
  <2>1. ASSUME NEW e \in DOMAIN r.heap, NEW i \in DOMAIN r.heap[e].kids,
               NEW j \in DOMAIN r.heap[e].kids, r.heap[e].kids[i].key = r.heap[e].kids[j].key
        PROVE  i = j
    <3>1. CASE e \in DOMAIN g
      BY <2>1, <3>1 DEF Good, KeysDiffer, Extends, AddsCell
    <3>2. CASE e = r.at
      BY <2>1, <3>2 DEF AddsCell
    <3>. QED  BY <3>1, <3>2 DEF AddsCell
  <2>. QED  BY <2>1 DEF KeysDiffer
<1>2. ASSUME NEW e \in DOMAIN r.heap PROVE \E M : Lays(r.heap, e, M)
  <2>1. CASE e \in DOMAIN g
    BY <2>1, LayoutLays, ExtendsLays DEF AddsCell
  <2>. QED  BY <2>1 DEF AddsCell
<1>. QED  BY <1>1, <1>2 DEF Good, AddsCell

\* A cell without children.
AddsLeaf(g, r) ==
  /\ Good(r.heap) /\ Extends(g, r.heap) /\ Fresh(g, r.heap, r.at)
  /\ Layout(r.heap, r.at) = [p \in {<<>>} |-> r.at]

LEMMA NewIs ==
  ASSUME NEW g, Good(g), NEW t \in Texts \cup {Absent}
  PROVE  /\ AddsLeaf(g, Alloc(g, NewCell(t)))
         /\ AddsCell(g, NewCell(t), Alloc(g, NewCell(t)))
<1>1. NewCell(t) \in Cell(DOMAIN g) /\ NewCell(t).kids = <<>>
  BY DEF NewCell, Cell
<1>2. PICK r : r = Alloc(g, NewCell(t))
  OBVIOUS
<1>3. AddsCell(g, NewCell(t), r)
  BY <1>1, <1>2, AllocIs DEF Good
<1>4. PICK L : L = [p \in {<<>>} |-> r.at]
  OBVIOUS
<1>5. DOMAIN L = {<<>>} /\ L[<<>>] = r.at /\ L = [p \in DOMAIN L |-> L[p]] /\ r.at \in DOMAIN r.heap
  BY <1>3, <1>4 DEF AddsCell
<1>6. \A k, d : ~HasKid(r.heap, r.at, k, d)
  <2>1. DOMAIN r.heap[r.at].kids = {}
    BY <1>1, <1>3 DEF AddsCell
  <2>. QED  BY <2>1 DEF HasKid
<1>7. DOMAIN L \subseteq Path
  BY <1>5 DEF Path
<1>8. Lays(r.heap, r.at, L)
  BY <1>5, <1>6, <1>7 DEF Lays
<1>9. DOMAIN NewCell(t).kids = {}
  BY <1>1
<1>10. Good(r.heap)
  BY <1>3, <1>8, <1>9, AddedGood
<1>11. Layout(r.heap, r.at) = L
  BY <1>8, LaysOnce
<1>12. Fresh(g, r.heap, r.at)
  BY <1>3, <1>5, <1>11 DEF Fresh, Cells, AddsCell
<1>13. AddsLeaf(g, r)
  BY <1>3, <1>4, <1>10, <1>11, <1>12 DEF AddsLeaf, AddsCell
<1>. QED  BY <1>2, <1>3, <1>13

\* A container of cells that have nothing in common.
AllApart(g, cells) ==
  \A i, j \in 1 .. Len(cells) : i # j => Cells(g, cells[i]) \cap Cells(g, cells[j]) = {}
AddsList(g, r) ==
  Good(r.heap) /\ Extends(g, r.heap) /\ r.at \in DOMAIN r.heap

LEMMA ListIs ==
  ASSUME NEW g, Good(g), NEW cells \in Seq(DOMAIN g), AllApart(g, cells)
  PROVE  AddsList(g, list(g, cells))
<1>1. PICK n \in Nat : n = Len(cells) /\ DOMAIN cells = 1 .. n
  OBVIOUS
<1>2. PICK cell : cell = [scalar |-> Absent,
                          kids |-> [i \in DOMAIN cells |-> [key |-> i, cell |-> cells[i]]]]
  OBVIOUS
<1>3. /\ cell.scalar = Absent /\ DOMAIN cell.kids = 1 .. n
      /\ \A i \in 1 .. n : cell.kids[i] = [key |-> i, cell |-> cells[i]]
      /\ \A i \in 1 .. n : cell.kids[i].key = i /\ cell.kids[i].cell = cells[i]
  BY <1>1, <1>2
<1>4. cell \in Cell(DOMAIN g)
  <2>1. PICK E : E = [key : Keys, cell : DOMAIN g]
    OBVIOUS
  <2>2. \A i \in 1 .. n : cells[i] \in DOMAIN g /\ i \in Keys
    BY <1>1 DEF Keys
  <2>3. \A i \in 1 .. n : [key |-> i, cell |-> cells[i]] \in E
    BY <2>1, <2>2
  <2>4. [i \in 1 .. n |-> [key |-> i, cell |-> cells[i]]] \in Seq(E)
    BY <2>3
  <2>5. cell.kids \in Seq(E)
    BY <1>1, <1>2, <2>4
  <2>. QED  BY <1>2, <2>1, <2>5 DEF Cell
<1>5. PICK r : r = list(g, cells)
  OBVIOUS
<1>6. AddsCell(g, cell, r)
  <2>1. r = Alloc(g, cell)
    BY <1>2, <1>5 DEF list
  <2>. QED  BY <1>4, <2>1, AllocIs DEF Good
<1>7. PICK h, new : h = r.heap /\ new = r.at
  OBVIOUS
<1>8. /\ Extends(g, h) /\ new \notin DOMAIN g /\ DOMAIN h = DOMAIN g \cup {new} /\ h[new] = cell
  BY <1>6, <1>7 DEF AddsCell
<1>9. \A k, d : HasKid(h, new, k, d) <=> k \in 1 .. n /\ d = cells[k]
  BY <1>3, <1>8 DEF HasKid
<1>10. \A i \in 1 .. n : cells[i] \in DOMAIN g /\ i \in Keys /\ <<i>> \in Path
  BY <1>1 DEF Keys, Path
<1>11. PICK M : M = [i \in 1 .. n |-> Layout(g, cells[i])]
  OBVIOUS
<1>12. ASSUME NEW i \in 1 .. n
       PROVE  /\ Lays(g, cells[i], M[i]) /\ Lays(h, cells[i], M[i])
              /\ \A q \in DOMAIN M[i] : q \in Path /\ M[i][q] \in DOMAIN g
  <2>1. Lays(g, cells[i], Layout(g, cells[i]))
    BY <1>10, LayoutLays
  <2>2. Lays(g, cells[i], M[i])
    BY <1>11, <2>1
  <2>3. Lays(h, cells[i], M[i])
    BY <1>8, <1>10, <2>2, ExtendsLays
  <2>. QED  BY <2>2, <2>3 DEF Lays
<1>13. ASSUME NEW i \in 1 .. n, NEW q \in DOMAIN M[i]
       PROVE  /\ <<i>> \o q \in Path /\ <<i>> \o q # <<>>
              /\ (<<i>> \o q)[1] = i /\ Tail(<<i>> \o q) = q
              /\ \A k \in Keys : <<i>> \o Append(q, k) = Append(<<i>> \o q, k)
  BY <1>10, <1>12 DEF Path
<1>. DEFINE Below(p) == \E i \in 1 .. n : \E q \in DOMAIN M[i] : p = <<i>> \o q
<1>14. PICK D : D = {p \in Path : p = <<>> \/ Below(p)}
  OBVIOUS
<1>140. <<>> \in Path /\ \A p : Below(p) => p \in Path /\ p # <<>>
  <2>1. ASSUME NEW p, Below(p) PROVE p \in Path /\ p # <<>>
    <3>1. PICK i \in 1 .. n : \E q \in DOMAIN M[i] : p = <<i>> \o q
      BY <2>1
    <3>2. PICK q \in DOMAIN M[i] : p = <<i>> \o q
      BY <3>1
    <3>. QED  BY <1>13, <3>2
  <2>2. <<>> \in Path
    BY DEF Path
  <2>. HIDE DEF Below
  <2>. QED  BY <2>1, <2>2
<1>15. \A p : p \in D <=> p = <<>> \/ Below(p)
  <2>. HIDE DEF Below
  <2>. QED  BY <1>14, <1>140
<1>16. PICK L : L = [p \in D |-> IF p = <<>> THEN new ELSE M[p[1]][Tail(p)]]
  OBVIOUS
<1>170. DOMAIN L = D /\ L = [p \in DOMAIN L |-> L[p]] /\ <<>> \in D /\ L[<<>>] = new
  <2>1. <<>> \in D
    BY <1>15
  <2>. QED  BY <1>16, <2>1
<1>171. ASSUME NEW i \in 1 .. n, NEW q \in DOMAIN M[i]
        PROVE  <<i>> \o q \in D /\ L[<<i>> \o q] = M[i][q]
  <2>1. <<i>> \o q \in D
    BY <1>15
  <2>. QED  BY <1>13, <1>16, <2>1
<1>17. /\ DOMAIN L = D /\ L[<<>>] = new /\ <<>> \in D /\ L = [p \in DOMAIN L |-> L[p]]
       /\ \A i \in 1 .. n : \A q \in DOMAIN M[i] : <<i>> \o q \in D /\ L[<<i>> \o q] = M[i][q]
  BY <1>170, <1>171
<1>18. ASSUME NEW p \in DOMAIN L PROVE p \in Path /\ L[p] \in DOMAIN h
  <2>1. CASE p = <<>>
    BY <1>8, <1>140, <1>17, <2>1
  <2>2. ASSUME NEW i \in 1 .. n, NEW q \in DOMAIN M[i], p = <<i>> \o q
        PROVE  p \in Path /\ L[p] \in DOMAIN h
    BY <1>8, <1>12, <1>13, <1>17, <2>2
  <2>. QED  BY <1>15, <1>17, <2>1, <2>2
<1>19. ASSUME NEW p \in DOMAIN L, NEW k \in Keys, NEW d, HasKid(h, L[p], k, d)
       PROVE  Append(p, k) \in DOMAIN L /\ L[Append(p, k)] = d
  <2>1. CASE p = <<>>
    <3>1. k \in 1 .. n /\ d = cells[k]
      BY <1>9, <1>17, <1>19, <2>1
    <3>2. Lays(h, cells[k], M[k])
      BY <1>12, <3>1
    <3>3. <<>> \in DOMAIN M[k] /\ M[k][<<>>] = d
      BY <3>1, <3>2 DEF Lays
    <3>4. <<k>> \o <<>> = Append(p, k)
      BY <2>1, <3>1
    <3>. QED  BY <1>17, <3>1, <3>3, <3>4
  <2>2. ASSUME NEW i \in 1 .. n, NEW q \in DOMAIN M[i], p = <<i>> \o q
        PROVE  Append(p, k) \in DOMAIN L /\ L[Append(p, k)] = d
    <3>1. HasKid(h, M[i][q], k, d)
      BY <1>17, <1>19, <2>2
    <3>2. Lays(h, cells[i], M[i])
      BY <1>12
    <3>3. Append(q, k) \in DOMAIN M[i] /\ M[i][Append(q, k)] = d
      BY <3>1, <3>2 DEF Lays
    <3>4. <<i>> \o Append(q, k) = Append(p, k)
      BY <1>13, <2>2
    <3>5. <<i>> \o Append(q, k) \in DOMAIN L /\ L[<<i>> \o Append(q, k)] = M[i][Append(q, k)]
      BY <1>17, <3>3
    <3>. QED  BY <3>3, <3>4, <3>5
  <2>3. CASE p # <<>>
    <3>1. PICK i \in 1 .. n : \E q \in DOMAIN M[i] : p = <<i>> \o q
      BY <1>15, <1>17, <2>3
    <3>2. PICK q \in DOMAIN M[i] : p = <<i>> \o q
      BY <3>1
    <3>. QED  BY <2>2, <3>2
  <2>. QED  BY <2>1, <2>3
<1>20. ASSUME NEW p \in DOMAIN L, p # <<>>
       PROVE  \E q \in DOMAIN L, k \in Keys : p = Append(q, k) /\ HasKid(h, L[q], k, L[p])
  <2>1. PICK i \in 1 .. n : \E q \in DOMAIN M[i] : p = <<i>> \o q
    BY <1>15, <1>17, <1>20
  <2>2. PICK q \in DOMAIN M[i] : p = <<i>> \o q
    BY <2>1
  <2>3. CASE q = <<>>
    <3>1. p = Append(<<>>, i)
      BY <2>2, <2>3
    <3>2. Lays(h, cells[i], M[i])
      BY <1>12
    <3>3. L[p] = cells[i]
      BY <1>17, <2>2, <2>3, <3>2 DEF Lays
    <3>4. HasKid(h, L[<<>>], i, L[p]) /\ <<>> \in DOMAIN L /\ i \in Keys
      BY <1>9, <1>10, <1>17, <3>3
    <3>. QED  BY <3>1, <3>4
  <2>4. CASE q # <<>>
    <3>0. Lays(h, cells[i], M[i])
      BY <1>12
    <3>1. PICK u \in DOMAIN M[i], k \in Keys : q = Append(u, k) /\ HasKid(h, M[i][u], k, M[i][q])
      BY <2>4, <3>0 DEF Lays
    <3>2. p = Append(<<i>> \o u, k)
      BY <1>13, <2>2, <3>1
    <3>3. L[<<i>> \o u] = M[i][u] /\ L[p] = M[i][q] /\ <<i>> \o u \in DOMAIN L
      BY <1>17, <2>2
    <3>. QED  BY <3>1, <3>2, <3>3
  <2>. QED  BY <2>3, <2>4
<1>21. ASSUME NEW p \in DOMAIN L, NEW q \in DOMAIN L, L[p] = L[q]
       PROVE  p = q
  <2>1. \A i \in 1 .. n : \A u \in DOMAIN M[i] : M[i][u] \in Cells(g, cells[i])
    BY <1>11 DEF Cells
  <2>2. ASSUME NEW u \in DOMAIN L, u # <<>> PROVE L[u] # new
    <3>1. PICK i \in 1 .. n : \E w \in DOMAIN M[i] : u = <<i>> \o w
      BY <1>15, <1>17, <2>2
    <3>2. PICK w \in DOMAIN M[i] : u = <<i>> \o w
      BY <3>1
    <3>. QED  BY <1>8, <1>12, <1>17, <3>2
  <2>3. CASE p # <<>> /\ q # <<>>
    <3>1. PICK i \in 1 .. n : \E u \in DOMAIN M[i] : p = <<i>> \o u
      BY <1>15, <1>17, <2>3
    <3>2. PICK u \in DOMAIN M[i] : p = <<i>> \o u
      BY <3>1
    <3>3. PICK j \in 1 .. n : \E w \in DOMAIN M[j] : q = <<j>> \o w
      BY <1>15, <1>17, <2>3
    <3>4. PICK w \in DOMAIN M[j] : q = <<j>> \o w
      BY <3>3
    <3>5. M[i][u] = M[j][w]
      BY <1>17, <1>21, <3>2, <3>4
    <3>6. i = j
      BY <1>1, <2>1, <3>5 DEF AllApart
    <3>7. Lays(h, cells[i], M[i])
      BY <1>12
    <3>8. u = w
      BY <3>5, <3>6, <3>7 DEF Lays
    <3>. QED  BY <3>2, <3>4, <3>6, <3>8
  <2>. QED  BY <1>17, <1>21, <2>2, <2>3
<1>22. Lays(h, new, L)
  <2>1. new \in DOMAIN h /\ DOMAIN L \subseteq Path /\ \A p \in DOMAIN L : L[p] \in DOMAIN h
    BY <1>8, <1>18
  <2>. QED  BY <1>17, <1>19, <1>20, <1>21, <2>1 DEF Lays
<1>23. Good(h)
  <2>1. Lays(r.heap, r.at, L)
    BY <1>7, <1>22
  <2>2. \A i, j \in DOMAIN cell.kids : cell.kids[i].key = cell.kids[j].key => i = j
    BY <1>3
  <2>3. Good(r.heap)
    BY <1>6, <2>1, <2>2, AddedGood
  <2>. QED  BY <1>7, <2>3
<1>. QED  BY <1>5, <1>7, <1>8, <1>23 DEF AddsList

-----------------------------------------------------------------------------
(* A child put at a key.                                                    *)

LEMMA GetIs ==
  ASSUME NEW h, IsHeap(h), KeysDiffer(h), NEW c \in DOMAIN h, NEW k
  PROVE  /\ k \in KeysIn(h, c) <=> \E d : HasKid(h, c, k, d)
         /\ k \in KeysIn(h, c) =>
              HasKid(h, c, k, get(h, c, k)) /\ get(h, c, k) \in DOMAIN h /\ k \in Keys
         /\ \A d : HasKid(h, c, k, d) => d = get(h, c, k)
<1>1. k \in KeysIn(h, c) <=> \E i \in DOMAIN h[c].kids : h[c].kids[i].key = k
  BY DEF KeysIn
<1>2. PICK s : s = SlotOf(h, c, k)
  OBVIOUS
<1>3. k \in KeysIn(h, c) => s \in DOMAIN h[c].kids /\ h[c].kids[s].key = k
  BY <1>1, <1>2 DEF SlotOf
<1>4. get(h, c, k) = h[c].kids[s].cell
  BY <1>2 DEF get
<1>5. \A i \in DOMAIN h[c].kids :
        h[c].kids[i].key \in Keys /\ h[c].kids[i].cell \in DOMAIN h
  BY CellIs
<1>6. \A i \in DOMAIN h[c].kids : h[c].kids[i].key = k => i = s
  BY <1>1, <1>3 DEF KeysDiffer
<1>. QED  BY <1>1, <1>3, <1>4, <1>5, <1>6 DEF HasKid

\* h is g but for c, which has v at k.
Puts(g, c, k, v, h) ==
  /\ DOMAIN h = DOMAIN g /\ IsHeap(h) /\ KeysDiffer(h)
  /\ \A e \in DOMAIN g : e # c => h[e] = g[e]
  /\ h[c].scalar = g[c].scalar
  /\ \A l, d : HasKid(h, c, l, d) <=> IF l = k THEN d = v ELSE HasKid(g, c, l, d)
  /\ Node(h, c).keys = IF k \in KeysIn(g, c) THEN Node(g, c).keys
                       ELSE Append(Node(g, c).keys, k)

LEMMA HeapWith ==
  ASSUME NEW g, IsHeap(g), NEW c \in DOMAIN g, NEW s \in Seq([key : Keys, cell : DOMAIN g])
  PROVE  IsHeap([g EXCEPT ![c].kids = s])
<1>1. PICK n \in Nat : /\ DOMAIN g = 0 .. n - 1
                       /\ g \in [0 .. n - 1 -> Cell(0 .. n - 1)]
  BY HeapIs
<1>2. g[c].scalar \in Texts \cup {Absent} /\ g[c] = [scalar |-> g[c].scalar, kids |-> g[c].kids]
  BY CellIs
<1>3. PICK x : x = [g[c] EXCEPT !.kids = s]
  OBVIOUS
<1>4. x = [scalar |-> g[c].scalar, kids |-> s]
  BY <1>2, <1>3
<1>5. x \in Cell(0 .. n - 1)
  BY <1>1, <1>2, <1>4 DEF Cell
<1>6. [g EXCEPT ![c] = x] \in [0 .. n - 1 -> Cell(0 .. n - 1)]
  BY <1>1, <1>5
<1>. QED  BY <1>3, <1>6 DEF IsHeap

LEMMA SetIs ==
  ASSUME NEW g, IsHeap(g), KeysDiffer(g), NEW c \in DOMAIN g, NEW k \in Keys,
         NEW v \in DOMAIN g
  PROVE  Puts(g, c, k, v, set(g, c, k, v))
<1>. DEFINE kids == g[c].kids
<1>1. PICK E : E = [key : Keys, cell : DOMAIN g]
  OBVIOUS
<1>2. /\ kids \in Seq(E) /\ g[c] = [scalar |-> g[c].scalar, kids |-> kids]
      /\ Len(kids) \in Nat /\ DOMAIN kids = 1 .. Len(kids)
      /\ \A i \in DOMAIN kids : kids[i].key \in Keys /\ kids[i].cell \in DOMAIN g
  BY <1>1, CellIs
<1>3. \A i \in DOMAIN kids : kids[i] \in E /\ kids[i] = [key |-> kids[i].key, cell |-> kids[i].cell]
  <2>1. PICK t : t = kids
    OBVIOUS
  <2>2. \A i \in 1 .. Len(t) : t[i] \in E
    BY <1>2, <2>1
  <2>3. \A i \in DOMAIN kids : kids[i] \in E
    BY <1>2, <2>1, <2>2
  <2>. QED  BY <1>1, <2>3
<1>4. \A i, j \in DOMAIN kids : kids[i].key = kids[j].key => i = j
  BY DEF KeysDiffer
<1>5. k \in KeysIn(g, c) <=> \E i \in DOMAIN kids : kids[i].key = k
  BY DEF KeysIn
<1>6. Node(g, c).keys = [i \in DOMAIN kids |-> kids[i].key]
  BY DEF Node
<1>7. PICK h : h = set(g, c, k, v)
  OBVIOUS
<1>. DEFINE Made(s) ==
              /\ s \in Seq(E) /\ h = [g EXCEPT ![c].kids = s]
              /\ \A i, j \in DOMAIN s : s[i].key = s[j].key => i = j
              /\ \A l, d : (\E i \in DOMAIN s : s[i].key = l /\ s[i].cell = d)
                   <=> IF l = k THEN d = v ELSE HasKid(g, c, l, d)
              /\ [i \in DOMAIN s |-> s[i].key] =
                   IF k \in KeysIn(g, c) THEN Node(g, c).keys
                   ELSE Append(Node(g, c).keys, k)
<1>7a. ASSUME NEW s, Made(s) PROVE Puts(g, c, k, v, h)
  <2>1. IsHeap(h)
    BY <1>1, <1>7a, HeapWith
  <2>2. DOMAIN h = DOMAIN g /\ \A e \in DOMAIN g : e # c => h[e] = g[e]
    BY <1>7a
  <2>3. h[c] = [g[c] EXCEPT !.kids = s]
    BY <1>7a
  <2>4. h[c].scalar = g[c].scalar /\ h[c].kids = s
    BY <1>2, <2>3
  <2>5. KeysDiffer(h)
    <3>1. ASSUME NEW e \in DOMAIN h, NEW i \in DOMAIN h[e].kids, NEW j \in DOMAIN h[e].kids,
                 h[e].kids[i].key = h[e].kids[j].key
          PROVE  i = j
      <4>1. CASE e = c
        BY <1>7a, <2>4, <3>1, <4>1
      <4>2. CASE e # c
        BY <2>2, <3>1, <4>2 DEF KeysDiffer
      <4>. QED  BY <4>1, <4>2
    <3>. QED  BY <3>1 DEF KeysDiffer
  <2>6. \A l, d : HasKid(h, c, l, d) <=> IF l = k THEN d = v ELSE HasKid(g, c, l, d)
    <3>1. \A l, d : HasKid(h, c, l, d) <=> \E i \in DOMAIN s : s[i].key = l /\ s[i].cell = d
      BY <2>4 DEF HasKid
    <3>2. ASSUME NEW l, NEW d
          PROVE  (\E i \in DOMAIN s : s[i].key = l /\ s[i].cell = d)
                   <=> IF l = k THEN d = v ELSE HasKid(g, c, l, d)
      BY <1>7a
    <3>. QED  BY <3>1, <3>2
  <2>7. Node(h, c).keys = [i \in DOMAIN s |-> s[i].key]
    BY <2>4 DEF Node
  <2>. QED  BY <1>7a, <2>1, <2>2, <2>4, <2>5, <2>6, <2>7 DEF Puts
<1>8. \A s : Made(s) => Puts(g, c, k, v, h)
  BY <1>7a
<1>9. CASE k \in KeysIn(g, c)
  <2>1. PICK n : n = SlotOf(g, c, k)
    OBVIOUS
  <2>2. n \in DOMAIN kids /\ kids[n].key = k
    BY <1>5, <1>9, <2>1 DEF SlotOf
  <2>3. h = [g EXCEPT ![c].kids[n].cell = v]
    BY <1>7, <1>9, <2>1 DEF set
  <2>4. PICK s : s = [kids EXCEPT ![n].cell = v]
    OBVIOUS
  <2>5. h = [g EXCEPT ![c].kids = s]
    BY <2>3, <2>4
  <2>6. s[n] = [key |-> k, cell |-> v] /\ DOMAIN s = DOMAIN kids
        /\ \A i \in DOMAIN kids : i # n => s[i] = kids[i]
    <3>1. s[n] = [kids[n] EXCEPT !.cell = v]
      BY <2>2, <2>4
    <3>2. s[n] = [key |-> k, cell |-> v]
      BY <1>3, <2>2, <3>1
    <3>. QED  BY <2>4, <3>2
  <2>7. \A i \in DOMAIN s : s[i].key = kids[i].key /\ s[i].cell = IF i = n THEN v ELSE kids[i].cell
    BY <2>2, <2>6
  <2>8. s \in Seq(E)
    <3>1. [key |-> k, cell |-> v] \in E
      BY <1>1
    <3>2. \A i \in 1 .. Len(kids) : s[i] \in E
      BY <1>2, <1>3, <2>6, <3>1
    <3>3. s = [i \in 1 .. Len(kids) |-> s[i]]
      BY <1>2, <2>4
    <3>4. s \in [1 .. Len(kids) -> E]
      BY <3>2, <3>3
    <3>. QED  BY <1>2, <3>4
  <2>9. \A i, j \in DOMAIN s : s[i].key = s[j].key => i = j
    BY <1>4, <2>6, <2>7
  <2>10. \A l, d : (\E i \in DOMAIN s : s[i].key = l /\ s[i].cell = d)
           <=> IF l = k THEN d = v ELSE HasKid(g, c, l, d)
    <3>1. ASSUME NEW l, NEW d, l = k
          PROVE  (\E i \in DOMAIN s : s[i].key = l /\ s[i].cell = d) <=> d = v
      BY <1>4, <2>2, <2>6, <2>7, <3>1
    <3>2. ASSUME NEW l, NEW d, l # k
          PROVE  (\E i \in DOMAIN s : s[i].key = l /\ s[i].cell = d) <=> HasKid(g, c, l, d)
      BY <2>2, <2>6, <2>7, <3>2 DEF HasKid
    <3>. QED  BY <3>1, <3>2
  <2>11. [i \in DOMAIN s |-> s[i].key] = [i \in DOMAIN kids |-> kids[i].key]
    BY <2>6, <2>7
  <2>12. Made(s)
    BY <1>6, <1>9, <2>5, <2>8, <2>9, <2>10, <2>11
  <2>. HIDE DEF Made
  <2>. QED  BY <1>7, <1>8, <2>12
<1>10. CASE k \notin KeysIn(g, c)
  <2>1. PICK e, s, n : e = [key |-> k, cell |-> v] /\ s = Append(kids, e) /\ n = Len(kids)
    OBVIOUS
  <2>2. h = [g EXCEPT ![c].kids = s]
    BY <1>7, <1>10, <2>1 DEF set
  <2>3. e \in E /\ e.key = k /\ e.cell = v
    BY <1>1, <2>1
  <2>4. /\ s \in Seq(E) /\ DOMAIN s = 1 .. n + 1 /\ s[n + 1] = e /\ n \in Nat
        /\ DOMAIN kids = 1 .. n /\ \A i \in 1 .. n : s[i] = kids[i]
    BY <1>2, <2>1, <2>3
  <2>5. \A i \in 1 .. n : s[i].key # k
    BY <1>5, <1>10, <2>4
  <2>50. \A i \in 1 .. n + 1 : i = n + 1 \/ i \in 1 .. n
    BY <2>4
  <2>51. n + 1 \in 1 .. n + 1 /\ \A i \in 1 .. n : i \in 1 .. n + 1
    BY <2>4
  <2>6. \A i, j \in DOMAIN s : s[i].key = s[j].key => i = j
    BY <1>4, <2>3, <2>4, <2>5, <2>50
  <2>7. \A l, d : (\E i \in DOMAIN s : s[i].key = l /\ s[i].cell = d)
           <=> IF l = k THEN d = v ELSE HasKid(g, c, l, d)
    <3>1. ASSUME NEW l, NEW d, l = k
          PROVE  (\E i \in DOMAIN s : s[i].key = l /\ s[i].cell = d) <=> d = v
      BY <2>3, <2>4, <2>5, <2>50, <2>51, <3>1
    <3>2. ASSUME NEW l, NEW d, l # k
          PROVE  (\E i \in DOMAIN s : s[i].key = l /\ s[i].cell = d) <=> HasKid(g, c, l, d)
      BY <2>3, <2>4, <2>50, <2>51, <3>2 DEF HasKid
    <3>. QED  BY <3>1, <3>2
  <2>8. [i \in DOMAIN s |-> s[i].key] = Append(Node(g, c).keys, k)
    <3>1. PICK t : t = [i \in 1 .. n |-> kids[i].key]
      OBVIOUS
    <3>2. t \in Seq(Keys) /\ Len(t) = n
      BY <1>2, <2>4, <3>1
    <3>3. Append(t, k) = [i \in 1 .. n + 1 |-> s[i].key]
      <4>1. /\ Append(t, k) \in Seq(Keys) /\ Len(Append(t, k)) = n + 1
            /\ Append(t, k)[n + 1] = k /\ \A i \in 1 .. n : Append(t, k)[i] = t[i]
        BY <3>2
      <4>2. \A i \in 1 .. n + 1 : Append(t, k)[i] = s[i].key
        BY <2>3, <2>4, <2>50, <3>1, <4>1
      <4>3. PICK u : u = Append(t, k)
        OBVIOUS
      <4>4. u = [i \in 1 .. n + 1 |-> u[i]]
        <5>1. u \in Seq(Keys) /\ Len(u) = n + 1
          BY <4>1, <4>3
        <5>. QED  BY <5>1
      <4>. QED  BY <4>2, <4>3, <4>4
    <3>4. Node(g, c).keys = t
      BY <1>6, <2>4, <3>1
    <3>. QED  BY <2>4, <3>3, <3>4
  <2>9. Made(s)
    BY <1>10, <2>2, <2>4, <2>6, <2>7, <2>8
  <2>. HIDE DEF Made
  <2>. QED  BY <1>7, <1>8, <2>9
<1>. QED  BY <1>7, <1>9, <1>10

\* The layout L with V at a.
Graft(L, a, V) ==
  [q \in {u \in DOMAIN L : ~IsPrefix(a, u)} \cup {a \o r : r \in DOMAIN V} |->
     IF IsPrefix(a, q) THEN V[Rest(Len(a), q)] ELSE L[q]]
\* M is L with V in place of what it has from a down.
IsGraft(M, L, a, V) ==
  /\ M = [q \in DOMAIN M |-> M[q]] /\ DOMAIN M \subseteq Path
  /\ \A q \in DOMAIN L : ~IsPrefix(a, q) => q \in DOMAIN M /\ M[q] = L[q]
  /\ \A r \in DOMAIN V : a \o r \in DOMAIN M /\ M[a \o r] = V[r]
  /\ \A q \in DOMAIN M : (q \in DOMAIN L /\ ~IsPrefix(a, q)) \/ \E r \in DOMAIN V : q = a \o r

LEMMA GraftIs ==
  ASSUME NEW a \in Path, NEW L, NEW V, DOMAIN L \subseteq Path, DOMAIN V \subseteq Path
  PROVE  IsGraft(Graft(L, a, V), L, a, V)
<1>1. PICK D : D = {u \in DOMAIN L : ~IsPrefix(a, u)} \cup {a \o r : r \in DOMAIN V}
  OBVIOUS
<1>2. PICK M : M = Graft(L, a, V)
  OBVIOUS
<1>3. M = [q \in D |-> IF IsPrefix(a, q) THEN V[Rest(Len(a), q)] ELSE L[q]]
  BY <1>1, <1>2 DEF Graft
<1>4. DOMAIN M = D /\ M = [q \in DOMAIN M |-> M[q]]
  BY <1>3
<1>5. \A r \in DOMAIN V : a \o r \in Path /\ IsPrefix(a, a \o r) /\ Rest(Len(a), a \o r) = r
  BY Extending
<1>6. \A q : q \in D <=> (q \in DOMAIN L /\ ~IsPrefix(a, q)) \/ \E r \in DOMAIN V : q = a \o r
  BY <1>1
<1>7. \A r \in DOMAIN V : a \o r \in D
  BY <1>6
<1>8. \A r \in DOMAIN V : a \o r \in DOMAIN M /\ M[a \o r] = V[r]
  BY <1>3, <1>5, <1>7
<1>9. \A q \in DOMAIN L : ~IsPrefix(a, q) => q \in DOMAIN M /\ M[q] = L[q]
  BY <1>3, <1>6
<1>10. DOMAIN M \subseteq Path
  BY <1>4, <1>5, <1>6
<1>. QED  BY <1>2, <1>4, <1>6, <1>8, <1>9, <1>10 DEF IsGraft

\* Nothing leads into the tree at v from outside it.
Loose(g, v) ==
  /\ v \in DOMAIN g
  /\ \A d \in DOMAIN g : d \in Cells(g, v) \/ Cells(g, d) \cap Cells(g, v) = {}

LEMMA GraftLays ==
  ASSUME NEW g, Good(g), NEW h, NEW c \in DOMAIN g, NEW k \in Keys, NEW v,
         Puts(g, c, k, v, h), Loose(g, v), c \notin Cells(g, v),
         NEW d \in DOMAIN g, NEW p \in DOMAIN Layout(g, d), Layout(g, d)[p] = c
  PROVE  /\ p \in Path
         /\ Lays(h, d, Graft(Layout(g, d), Append(p, k), Layout(g, v)))
<1>1. PICK L, V, a : L = Layout(g, d) /\ V = Layout(g, v) /\ a = Append(p, k)
  OBVIOUS
<1>2. Lays(g, d, L) /\ Lays(g, v, V) /\ p \in DOMAIN L /\ L[p] = c
  BY <1>1, LayoutLays DEF Loose
<1>3. DOMAIN L \subseteq Path /\ DOMAIN V \subseteq Path /\ p \in Path
  BY <1>2 DEF Lays
<1>4. a \in Path /\ a # <<>> /\ Len(a) = Len(p) + 1 /\ Len(p) \in Nat
  BY <1>1, <1>3, PathStep
<1>5. PICK M : M = Graft(L, a, V)
  OBVIOUS
<1>6. /\ M = [q \in DOMAIN M |-> M[q]] /\ DOMAIN M \subseteq Path
      /\ \A q \in DOMAIN L : ~IsPrefix(a, q) => q \in DOMAIN M /\ M[q] = L[q]
      /\ \A r \in DOMAIN V : a \o r \in DOMAIN M /\ M[a \o r] = V[r]
      /\ \A q \in DOMAIN M : (q \in DOMAIN L /\ ~IsPrefix(a, q)) \/ \E r \in DOMAIN V : q = a \o r
  BY <1>3, <1>4, <1>5, GraftIs DEF IsGraft
<1>7. \A r \in DOMAIN V : V[r] \in Cells(g, v)
  BY <1>1 DEF Cells
<1>8. \A q \in DOMAIN L : L[q] \in Cells(g, d)
  BY <1>1 DEF Cells
<1>9. Cells(g, d) \cap Cells(g, v) = {}
  <2>1. d \in Cells(g, v) => Cells(g, d) \subseteq Cells(g, v)
    BY CellsWithin DEF Loose
  <2>2. d \notin Cells(g, v)
    BY <1>2, <1>8, <2>1
  <2>. QED  BY <2>2 DEF Loose
<1>10. ~IsPrefix(a, p) /\ ~IsPrefix(a, <<>>) /\ IsPrefix(a, a)
  <2>1. \A q : IsPrefix(a, q) => Len(a) <= Len(q)
    BY DEF IsPrefix
  <2>2. IsPrefix(a, a)
    BY <1>4 DEF IsPrefix
  <2>3. Len(<<>>) = 0
    OBVIOUS
  <2>. QED  BY <1>4, <2>1, <2>2, <2>3
<1>11. \A q \in DOMAIN L, l \in Keys :
         ~IsPrefix(a, q) /\ IsPrefix(a, Append(q, l)) => q = p /\ l = k
  <2>1. ASSUME NEW q \in DOMAIN L, NEW l \in Keys, ~IsPrefix(a, q), IsPrefix(a, Append(q, l))
        PROVE  q = p /\ l = k
    <3>1. q \in Path /\ a = Append(q, l)
      BY <1>3, <1>4, <2>1, Extends1
    <3>2. Append(q, l) = Append(p, k) /\ p \in Path
      BY <1>1, <1>3, <3>1
    <3>3. q = p /\ l = k
      BY <3>1, <3>2, SameStep
    <3>. QED  BY <3>3
  <2>. QED  BY <2>1
<1>12. \A e \in DOMAIN g : \A l, f : e # c => (HasKid(h, e, l, f) <=> HasKid(g, e, l, f))
  BY DEF Puts, HasKid
<1>13. \A l, f : HasKid(h, c, l, f) <=> IF l = k THEN f = v ELSE HasKid(g, c, l, f)
  BY DEF Puts
<1>14. <<>> \in DOMAIN M /\ M[<<>>] = d /\ <<>> \in DOMAIN V /\ V[<<>>] = v
  BY <1>2, <1>6, <1>10 DEF Lays
<1>15. ASSUME NEW q \in DOMAIN M PROVE M[q] \in DOMAIN h
  <2>1. CASE q \in DOMAIN L /\ ~IsPrefix(a, q)
    BY <1>2, <1>6, <2>1 DEF Lays, Puts
  <2>2. ASSUME NEW r \in DOMAIN V, q = a \o r PROVE M[q] \in DOMAIN h
    BY <1>2, <1>6, <2>2 DEF Lays, Puts
  <2>. QED  BY <1>6, <2>1, <2>2
<1>16. ASSUME NEW q \in DOMAIN M, NEW l \in Keys, NEW f, HasKid(h, M[q], l, f)
       PROVE  Append(q, l) \in DOMAIN M /\ M[Append(q, l)] = f
  <2>1. CASE q \in DOMAIN L /\ ~IsPrefix(a, q)
    <3>1. M[q] = L[q] /\ L[q] \in DOMAIN g
      BY <1>2, <1>6, <2>1 DEF Lays
    <3>2. CASE q = p /\ l = k
      <4>1. f = v /\ Append(q, l) = a
        BY <1>1, <1>2, <1>13, <1>16, <3>1, <3>2
      <4>2. a \o <<>> = a
        BY <1>4, <1>3, Extending
      <4>. QED  BY <1>6, <1>14, <4>1, <4>2
    <3>3. CASE ~(q = p /\ l = k)
      <4>1. L[q] = c => q = p
        BY <1>2, <2>1 DEF Lays
      <4>2. HasKid(g, L[q], l, f)
        BY <1>12, <1>13, <1>16, <3>1, <3>3, <4>1
      <4>3. Append(q, l) \in DOMAIN L /\ L[Append(q, l)] = f
        BY <1>2, <2>1, <4>2 DEF Lays
      <4>4. ~IsPrefix(a, Append(q, l))
        BY <1>11, <2>1, <3>3
      <4>. QED  BY <1>6, <4>3, <4>4
    <3>. QED  BY <3>2, <3>3
  <2>2. ASSUME NEW r \in DOMAIN V, q = a \o r
        PROVE  Append(q, l) \in DOMAIN M /\ M[Append(q, l)] = f
    <3>1. M[q] = V[r] /\ V[r] \in DOMAIN g /\ V[r] # c
      BY <1>2, <1>6, <1>7, <2>2 DEF Lays
    <3>2. HasKid(g, V[r], l, f)
      BY <1>12, <1>16, <3>1
    <3>3. Append(r, l) \in DOMAIN V /\ V[Append(r, l)] = f
      BY <1>2, <3>2 DEF Lays
    <3>4. a \o Append(r, l) = Append(q, l)
      <4>1. r \in Path
        BY <1>3
      <4>2. \A x \in Keys : a \o Append(r, x) = Append(a \o r, x)
        BY <1>4, <4>1, Extending
      <4>. QED  BY <2>2, <4>2
    <3>. QED  BY <1>6, <3>3, <3>4
  <2>. QED  BY <1>6, <2>1, <2>2
<1>17. ASSUME NEW q \in DOMAIN M, q # <<>>
       PROVE  \E u \in DOMAIN M, l \in Keys : q = Append(u, l) /\ HasKid(h, M[u], l, M[q])
  <2>1. CASE q \in DOMAIN L /\ ~IsPrefix(a, q)
    <3>1. PICK u \in DOMAIN L, l \in Keys : q = Append(u, l) /\ HasKid(g, L[u], l, L[q])
      BY <1>2, <1>17, <2>1 DEF Lays
    <3>2. ~IsPrefix(a, u)
      BY <1>3, <1>4, <2>1, <3>1, Extended
    <3>3. L[u] = c => l # k
      <4>1. L[u] = c => u = p
        BY <1>2 DEF Lays
      <4>. QED  BY <1>1, <1>10, <2>1, <3>1, <4>1
    <3>4. HasKid(h, L[u], l, L[q])
      <4>1. L[u] \in DOMAIN g
        BY <1>2 DEF Lays
      <4>. QED  BY <1>12, <1>13, <3>1, <3>3, <4>1
    <3>5. u \in DOMAIN M /\ M[u] = L[u] /\ M[q] = L[q]
      BY <1>6, <2>1, <3>2
    <3>. QED  BY <3>1, <3>4, <3>5
  <2>2. ASSUME NEW r \in DOMAIN V, q = a \o r
        PROVE  \E u \in DOMAIN M, l \in Keys : q = Append(u, l) /\ HasKid(h, M[u], l, M[q])
    <3>0. M[q] = V[r]
      BY <1>6, <2>2
    <3>1. CASE r = <<>>
      <4>1. q = a
        BY <1>3, <1>4, <2>2, <3>1, Extending
      <4>2. p \in DOMAIN M /\ M[p] = c
        BY <1>2, <1>6, <1>10
      <4>3. HasKid(h, c, k, v)
        BY <1>13
      <4>. QED  BY <1>1, <1>14, <3>0, <3>1, <4>1, <4>2, <4>3
    <3>2. CASE r # <<>>
      <4>1. PICK u \in DOMAIN V, l \in Keys : r = Append(u, l) /\ HasKid(g, V[u], l, V[r])
        BY <1>2, <3>2 DEF Lays
      <4>2. V[u] \in DOMAIN g /\ V[u] # c
        BY <1>2, <1>7 DEF Lays
      <4>3. HasKid(h, V[u], l, V[r])
        BY <1>12, <4>1, <4>2
      <4>4. a \o u \in DOMAIN M /\ M[a \o u] = V[u]
        BY <1>6
      <4>5. q = Append(a \o u, l)
        <5>1. u \in Path
          BY <1>3
        <5>2. \A x \in Keys : a \o Append(u, x) = Append(a \o u, x)
          BY <1>4, <5>1, Extending
        <5>. QED  BY <2>2, <4>1, <5>2
      <4>. QED  BY <3>0, <4>3, <4>4, <4>5
    <3>. QED  BY <3>1, <3>2
  <2>. QED  BY <1>6, <2>1, <2>2
<1>18. ASSUME NEW q \in DOMAIN M, NEW u \in DOMAIN M, M[q] = M[u] PROVE q = u
  <2>1. CASE q \in DOMAIN L /\ ~IsPrefix(a, q) /\ u \in DOMAIN L /\ ~IsPrefix(a, u)
    BY <1>2, <1>6, <1>18, <2>1 DEF Lays
  <2>2. ASSUME NEW r \in DOMAIN V, q = a \o r, NEW s \in DOMAIN V, u = a \o s PROVE q = u
    <3>1. V[r] = V[s]
      BY <1>6, <1>18, <2>2
    <3>. QED  BY <1>2, <2>2, <3>1 DEF Lays
  <2>3. \A x, y \in DOMAIN M : ~(x \in DOMAIN L /\ ~IsPrefix(a, x) /\ M[x] = M[y]
                                 /\ \E r \in DOMAIN V : y = a \o r)
    BY <1>6, <1>7, <1>8, <1>9
  <2>. QED  BY <1>6, <1>18, <2>1, <2>2, <2>3
<1>19. Lays(h, d, M)
  BY <1>6, <1>14, <1>15, <1>16, <1>17, <1>18 DEF Lays
<1>. QED  BY <1>1, <1>3, <1>5, <1>19

LEMMA UntouchedLays ==
  ASSUME NEW g, Good(g), NEW c \in DOMAIN g, NEW k, NEW v, NEW h, Puts(g, c, k, v, h),
         NEW d \in DOMAIN g, c \notin Cells(g, d)
  PROVE  /\ Lays(h, d, Layout(g, d))
         /\ \A e \in Cells(g, d) : h[e] = g[e]
<1>1. PICK L : L = Layout(g, d)
  OBVIOUS
<1>2. Lays(g, d, L)
  BY <1>1, LayoutLays
<1>3. \A p \in DOMAIN L : L[p] \in Cells(g, d) /\ L[p] # c /\ L[p] \in DOMAIN g
  BY <1>1, <1>2 DEF Cells, Lays
<1>4. \A e \in DOMAIN g : \A l, f : e # c => (HasKid(h, e, l, f) <=> HasKid(g, e, l, f))
  BY DEF Puts, HasKid
<1>5. \A p \in DOMAIN L : \A l, f : HasKid(h, L[p], l, f) <=> HasKid(g, L[p], l, f)
  BY <1>3, <1>4
<1>6. Lays(h, d, L)
  BY <1>2, <1>3, <1>5 DEF Lays, Puts
<1>7. \A e \in Cells(g, d) : h[e] = g[e]
  <2>1. \A e \in Cells(g, d) : e \in DOMAIN g
    BY CellsClosed
  <2>. QED  BY <2>1 DEF Puts
<1>. QED  BY <1>1, <1>6, <1>7

\* What is under c: its node at each path.
TreeOf(h, c) == [p \in DOMAIN Layout(h, c) |-> Node(h, Layout(h, c)[p])]
\* The tree T with V as the child at k of the node at p.
PutTree(T, p, k, V) ==
  [q \in {u \in DOMAIN T : ~IsPrefix(Append(p, k), u)} \cup {Append(p, k) \o r : r \in DOMAIN V} |->
     IF IsPrefix(Append(p, k), q) THEN V[Rest(Len(Append(p, k)), q)]
     ELSE IF q = p /\ Append(p, k) \notin DOMAIN T
     THEN [scalar |-> T[q].scalar, keys |-> Append(T[q].keys, k)]
     ELSE T[q]]

\* What is under d is the same cells, unchanged.
Kept(g, h, d) == Layout(h, d) = Layout(g, d) /\ \A e \in Cells(g, d) : h[e] = g[e]

LEMMA KeptIs ==
  ASSUME NEW g, NEW h, NEW d, Kept(g, h, d)
  PROVE  Cells(h, d) = Cells(g, d) /\ TreeOf(h, d) = TreeOf(g, d)
<1>1. PICK L : L = Layout(g, d) /\ L = Layout(h, d)
  BY DEF Kept
<1>2. Cells(h, d) = Cells(g, d)
  BY <1>1 DEF Cells
<1>3. \A p \in DOMAIN L : h[L[p]] = g[L[p]]
  BY <1>1 DEF Cells, Kept
<1>4. \A p \in DOMAIN L : Node(h, L[p]) = Node(g, L[p])
  BY <1>3 DEF Node
<1>5. TreeOf(h, d) = TreeOf(g, d)
  BY <1>1, <1>4 DEF TreeOf
<1>. QED  BY <1>2, <1>5

\* h is g with v as the child of c at k: c's ancestors gain v's tree there, and
\* what c is not part of stays as it was.
Attaches(g, c, k, v, h) ==
  /\ Good(h) /\ DOMAIN h = DOMAIN g
  /\ \A e \in DOMAIN g : h[e].scalar = g[e].scalar
  /\ \A d \in DOMAIN g : c \notin Cells(g, d) => Kept(g, h, d)
  /\ \A d \in DOMAIN g : Cells(h, d) \subseteq Cells(g, d) \cup Cells(g, v)
AttachesAt(g, c, k, v, h, d, p) ==
  /\ p \in Path /\ TreeOf(h, d) = PutTree(TreeOf(g, d), p, k, TreeOf(g, v))
  /\ IsGraft(Layout(h, d), Layout(g, d), Append(p, k), Layout(g, v))

LEMMA AttachIs ==
  ASSUME NEW g, Good(g), NEW c \in DOMAIN g, NEW k \in Keys, NEW v,
         Loose(g, v), c \notin Cells(g, v)
  PROVE  /\ Attaches(g, c, k, v, set(g, c, k, v))
         /\ \A d \in DOMAIN g : \A p \in DOMAIN Layout(g, d) :
              Layout(g, d)[p] = c => AttachesAt(g, c, k, v, set(g, c, k, v), d, p)
<1>1. PICK h : h = set(g, c, k, v)
  OBVIOUS
<1>2. Puts(g, c, k, v, h)
  BY <1>1, SetIs DEF Good, Loose
<1>3. ASSUME NEW d \in DOMAIN g, c \notin Cells(g, d)
      PROVE  Lays(h, d, Layout(g, d)) /\ Kept(g, h, d)
  <2>1. Lays(h, d, Layout(g, d)) /\ \A e \in Cells(g, d) : h[e] = g[e]
    BY <1>2, <1>3, UntouchedLays
  <2>2. Layout(h, d) = Layout(g, d)
    BY <2>1, LaysOnce
  <2>. QED  BY <2>1, <2>2 DEF Kept
<1>4. \A d \in DOMAIN g : c \in Cells(g, d) =>
        \E p \in DOMAIN Layout(g, d) : Layout(g, d)[p] = c
  BY DEF Cells
<1>5. ASSUME NEW d \in DOMAIN g, NEW p \in DOMAIN Layout(g, d), Layout(g, d)[p] = c
      PROVE  /\ p \in Path
             /\ Lays(h, d, Graft(Layout(g, d), Append(p, k), Layout(g, v)))
  BY <1>2, <1>5, GraftLays
<1>6. Good(h)
  <2>1. ASSUME NEW d \in DOMAIN h PROVE \E L : Lays(h, d, L)
    <3>1. d \in DOMAIN g
      BY <1>2 DEF Puts
    <3>. QED  BY <1>3, <1>4, <1>5, <3>1
  <2>. QED  BY <1>2, <2>1 DEF Good, Puts
<1>7. ASSUME NEW d \in DOMAIN g, NEW p \in DOMAIN Layout(g, d), Layout(g, d)[p] = c
      PROVE  /\ AttachesAt(g, c, k, v, h, d, p)
             /\ Cells(h, d) \subseteq Cells(g, d) \cup Cells(g, v)
  <2>1. PICK L, V, a : L = Layout(g, d) /\ V = Layout(g, v) /\ a = Append(p, k)
    OBVIOUS
  <2>2. PICK M : M = Graft(L, a, V)
    OBVIOUS
  <2>3. p \in Path /\ Lays(h, d, M)
    BY <1>5, <1>7, <2>1, <2>2
  <2>4. M = Layout(h, d)
    BY <2>3, LaysOnce
  <2>5. Lays(g, d, L) /\ Lays(g, v, V)
    BY <2>1, LayoutLays DEF Loose
  <2>6. a \in Path
    BY <2>1, <2>3, PathStep
  <2>7. IsGraft(M, L, a, V)
    BY <2>2, <2>5, <2>6, GraftIs DEF Lays
  <2>8. Cells(h, d) \subseteq Cells(g, d) \cup Cells(g, v)
    <3>1. Cells(h, d) = {M[q] : q \in DOMAIN M}
      BY <2>4 DEF Cells
    <3>2. \A q \in DOMAIN L : L[q] \in Cells(g, d)
      BY <2>1 DEF Cells
    <3>3. \A r \in DOMAIN V : V[r] \in Cells(g, v)
      BY <2>1 DEF Cells
    <3>4. ASSUME NEW q \in DOMAIN M PROVE M[q] \in Cells(g, d) \cup Cells(g, v)
      <4>1. CASE q \in DOMAIN L /\ ~IsPrefix(a, q)
        BY <2>7, <3>2, <4>1 DEF IsGraft
      <4>2. ASSUME NEW r \in DOMAIN V, q = a \o r PROVE M[q] \in Cells(g, v)
        BY <2>7, <3>3, <4>2 DEF IsGraft
      <4>. QED  BY <2>7, <4>1, <4>2 DEF IsGraft
    <3>. QED  BY <3>1, <3>4
  <2>9. TreeOf(h, d) = PutTree(TreeOf(g, d), p, k, TreeOf(g, v))
    <3>1. PICK T, W : T = TreeOf(g, d) /\ W = TreeOf(g, v)
      OBVIOUS
    <3>2. /\ DOMAIN T = DOMAIN L /\ \A q \in DOMAIN L : T[q] = Node(g, L[q])
          /\ DOMAIN W = DOMAIN V /\ \A q \in DOMAIN V : W[q] = Node(g, V[q])
      BY <2>1, <3>1 DEF TreeOf
    <3>3. PICK D : D = {u \in DOMAIN L : ~IsPrefix(a, u)} \cup {a \o r : r \in DOMAIN V}
      OBVIOUS
    <3>4. DOMAIN M = D /\ \A q \in D : M[q] = IF IsPrefix(a, q) THEN V[Rest(Len(a), q)] ELSE L[q]
      BY <2>2, <3>3 DEF Graft
    <3>5. PutTree(T, p, k, W) =
            [q \in D |-> IF IsPrefix(a, q) THEN W[Rest(Len(a), q)]
                         ELSE IF q = p /\ a \notin DOMAIN L
                         THEN [scalar |-> T[q].scalar, keys |-> Append(T[q].keys, k)]
                         ELSE T[q]]
      BY <2>1, <3>2, <3>3 DEF PutTree
    <3>6. TreeOf(h, d) = [q \in D |-> Node(h, M[q])]
      BY <2>4, <3>4 DEF TreeOf
    <3>7. \A e \in DOMAIN g : e # c => Node(h, e) = Node(g, e)
      BY <1>2 DEF Puts, Node
    <3>8. Node(h, c) = IF k \in KeysIn(g, c) THEN Node(g, c)
                       ELSE [scalar |-> Node(g, c).scalar, keys |-> Append(Node(g, c).keys, k)]
      <4>1. Node(h, c).scalar = Node(g, c).scalar
        BY <1>2 DEF Puts, Node
      <4>2. Node(h, c).keys = IF k \in KeysIn(g, c) THEN Node(g, c).keys
                              ELSE Append(Node(g, c).keys, k)
        BY <1>2 DEF Puts
      <4>3. Node(h, c) = [scalar |-> Node(h, c).scalar, keys |-> Node(h, c).keys]
            /\ Node(g, c) = [scalar |-> Node(g, c).scalar, keys |-> Node(g, c).keys]
        BY DEF Node
      <4>. QED  BY <4>1, <4>2, <4>3
    <3>9. k \in KeysIn(g, c) <=> a \in DOMAIN L
      <4>1. k \in KeysIn(g, c) <=> \E f : HasKid(g, c, k, f)
        BY GetIs DEF Good
      <4>2. (\E f : HasKid(g, c, k, f)) => a \in DOMAIN L
        BY <1>7, <2>1, <2>5 DEF Lays
      <4>3. ASSUME a \in DOMAIN L PROVE \E f : HasKid(g, c, k, f)
        <5>1. a # <<>>
          BY <2>1, <2>3, PathStep
        <5>2. PICK q \in DOMAIN L, l \in Keys : a = Append(q, l) /\ HasKid(g, L[q], l, L[a])
          BY <2>5, <4>3, <5>1 DEF Lays
        <5>3. Append(p, k) = Append(q, l) /\ q \in Path
          BY <2>1, <2>5, <5>2 DEF Lays
        <5>4. p = q /\ k = l
          BY <2>3, <5>3, SameStep
        <5>. QED  BY <1>7, <2>1, <5>2, <5>4
      <4>. QED  BY <4>1, <4>2, <4>3
    <3>10. ASSUME NEW q \in D
           PROVE  Node(h, M[q]) =
                    IF IsPrefix(a, q) THEN W[Rest(Len(a), q)]
                    ELSE IF q = p /\ a \notin DOMAIN L
                    THEN [scalar |-> T[q].scalar, keys |-> Append(T[q].keys, k)]
                    ELSE T[q]
      <4>1. CASE IsPrefix(a, q)
        <5>1. PICK r \in DOMAIN V : q = a \o r
          BY <3>3, <4>1
        <5>2. Rest(Len(a), q) = r
          <6>1. r \in Path
            BY <2>5 DEF Lays
          <6>. QED  BY <2>6, <5>1, <6>1, Extending
        <5>3. M[q] = V[r] /\ V[r] \in DOMAIN g /\ V[r] # c
          BY <2>1, <2>5, <3>4, <4>1, <5>2 DEF Lays, Cells
        <5>. QED  BY <3>2, <3>7, <4>1, <5>2, <5>3
      <4>2. CASE ~IsPrefix(a, q)
        <5>1. q \in DOMAIN L /\ M[q] = L[q] /\ L[q] \in DOMAIN g
          <6>1. q \in DOMAIN L
            <7>1. ASSUME NEW r \in DOMAIN V, q = a \o r PROVE FALSE
              <8>1. r \in Path
                BY <2>5 DEF Lays
              <8>. QED  BY <2>6, <4>2, <7>1, <8>1, Extending
            <7>. QED  BY <3>3, <7>1
          <6>. QED  BY <2>5, <3>4, <4>2, <6>1 DEF Lays
        <5>2. L[q] = c <=> q = p
          BY <1>7, <2>1, <2>5, <5>1 DEF Lays
        <5>. QED  BY <3>2, <3>7, <3>8, <3>9, <4>2, <5>1, <5>2
      <4>. QED  BY <4>1, <4>2
    <3>. QED  BY <3>1, <3>5, <3>6, <3>10
  <2>. QED  BY <2>1, <2>3, <2>4, <2>7, <2>8, <2>9 DEF AttachesAt
<1>8. ASSUME NEW d \in DOMAIN g
      PROVE  Cells(h, d) \subseteq Cells(g, d) \cup Cells(g, v)
  <2>1. CASE c \in Cells(g, d)
    BY <1>4, <1>7, <2>1
  <2>2. CASE c \notin Cells(g, d)
    BY <1>3, <2>2, KeptIs
  <2>. QED  BY <2>1, <2>2
<1>9. \A e \in DOMAIN g : h[e].scalar = g[e].scalar
  BY <1>2 DEF Puts
<1>10. Attaches(g, c, k, v, h)
  BY <1>2, <1>3, <1>6, <1>8, <1>9 DEF Attaches, Puts
<1>. QED  BY <1>1, <1>7, <1>10

-----------------------------------------------------------------------------
(* What the walk to a target and the store at its end leave of a heap.       *)

Apart(h, c, d) == Cells(h, c) \cap Cells(h, d) = {}
\* No cell outside v's tree leads into it, and the root is not in it.
Alone(h, v) == Loose(h, v) /\ root \notin Cells(h, v)

\* h has all of g, and a tree of its own under v.
Joins(g, h, v) ==
  /\ \A d \in DOMAIN g : Kept(g, h, d)
  /\ \A u \in DOMAIN g : Alone(g, u) => Alone(h, u)
  /\ Alone(h, v)

LEMMA ExtendsKept ==
  ASSUME NEW g, NEW h, Good(g), Extends(g, h), NEW d \in DOMAIN g
  PROVE  Kept(g, h, d)
<1>1. Layout(h, d) = Layout(g, d)
  BY ExtendsLayout
<1>2. \A e \in Cells(g, d) : h[e] = g[e]
  BY CellsClosed DEF Extends
<1>. QED  BY <1>1, <1>2 DEF Kept

LEMMA FreshJoins ==
  ASSUME NEW g, NEW h, Good(g), Good(h), Extends(g, h), NEW v, Fresh(g, h, v),
         root \in DOMAIN g
  PROVE  Joins(g, h, v)
<1>1. \A d \in DOMAIN g : Kept(g, h, d)
  BY ExtendsKept
<1>2. \A d \in DOMAIN g : Cells(h, d) = Cells(g, d)
  BY <1>1, KeptIs
<1>3. \A d \in DOMAIN g : Cells(g, d) \subseteq DOMAIN g /\ d \in Cells(g, d)
  BY CellsClosed
<1>4. v \in DOMAIN h /\ Cells(h, v) = DOMAIN h \ DOMAIN g
  BY DEF Fresh
<1>5. \A d \in DOMAIN h : d \notin DOMAIN g => d \in Cells(h, v) /\ Cells(h, d) \subseteq Cells(h, v)
  <2>1. \A d \in Cells(h, v) : Cells(h, d) \subseteq Cells(h, v)
    BY <1>4, CellsWithin
  <2>. QED  BY <1>4, <2>1
<1>6. Alone(h, v)
  BY <1>2, <1>3, <1>4, <1>5 DEF Alone, Loose
<1>7. ASSUME NEW u \in DOMAIN g, Alone(g, u) PROVE Alone(h, u)
  <2>1. u \in DOMAIN h /\ root \notin Cells(h, u)
    BY <1>2, <1>7 DEF Alone, Extends
  <2>2. ASSUME NEW d \in DOMAIN h
        PROVE  d \in Cells(h, u) \/ Cells(h, d) \cap Cells(h, u) = {}
    <3>1. CASE d \in DOMAIN g
      BY <1>2, <1>7, <3>1 DEF Alone, Loose
    <3>2. CASE d \notin DOMAIN g
      BY <1>2, <1>3, <1>4, <1>5, <3>2
    <3>. QED  BY <3>1, <3>2
  <2>. QED  BY <2>1, <2>2 DEF Alone, Loose
<1>. QED  BY <1>1, <1>6, <1>7 DEF Joins

LEMMA AloneApart ==
  ASSUME NEW h, root \in DOMAIN h, NEW v, Alone(h, v)
  PROVE  Apart(h, root, v)
BY DEF Alone, Loose, Apart

\* The store of v under the root.
StoresIn(g, v, h) ==
  /\ Good(h) /\ DOMAIN h = DOMAIN g
  /\ \A e \in DOMAIN g : h[e].scalar = g[e].scalar
  /\ \A d \in DOMAIN g : d \notin Cells(g, v) /\ Apart(g, root, d) => Apart(h, root, d) /\ Kept(g, h, d)
  /\ \A u \in DOMAIN g : Alone(g, u) /\ u \notin Cells(g, v) => Alone(h, u)
  /\ Kept(g, h, v)

LEMMA StoreIs ==
  ASSUME NEW g, Good(g), root \in DOMAIN g, NEW c \in Cells(g, root), NEW k \in Keys,
         NEW v, Alone(g, v)
  PROVE  /\ StoresIn(g, v, set(g, c, k, v))
         /\ \A p \in DOMAIN Layout(g, root) :
              Layout(g, root)[p] = c => AttachesAt(g, c, k, v, set(g, c, k, v), root, p)
<1>1. PICK h : h = set(g, c, k, v)
  OBVIOUS
<1>2. c \in DOMAIN g
  BY CellsClosed
<1>3. Loose(g, v) /\ v \in DOMAIN g /\ Cells(g, root) \cap Cells(g, v) = {} /\ c \notin Cells(g, v)
  BY DEF Alone, Loose
<1>4. /\ Attaches(g, c, k, v, h)
      /\ \A d \in DOMAIN g : \A p \in DOMAIN Layout(g, d) :
           Layout(g, d)[p] = c => AttachesAt(g, c, k, v, h, d, p)
  BY <1>1, <1>2, <1>3, AttachIs
<1>5. /\ Good(h) /\ DOMAIN h = DOMAIN g
      /\ \A e \in DOMAIN g : h[e].scalar = g[e].scalar
      /\ \A d \in DOMAIN g : c \notin Cells(g, d) => Kept(g, h, d)
      /\ \A d \in DOMAIN g : Cells(h, d) \subseteq Cells(g, d) \cup Cells(g, v)
  BY <1>4 DEF Attaches
<1>6. \A d \in DOMAIN g : Kept(g, h, d) => Cells(h, d) = Cells(g, d)
  BY KeptIs
<1>7. Kept(g, h, v)
  BY <1>3, <1>5
<1>8. ASSUME NEW d \in DOMAIN g, d \notin Cells(g, v), Apart(g, root, d)
      PROVE  Apart(h, root, d) /\ Kept(g, h, d)
  <2>1. c \notin Cells(g, d)
    BY <1>8 DEF Apart
  <2>2. Kept(g, h, d) /\ Cells(h, d) = Cells(g, d)
    BY <1>5, <1>6, <2>1
  <2>3. Cells(g, d) \cap Cells(g, v) = {}
    BY <1>3, <1>8 DEF Loose
  <2>4. Apart(h, root, d)
    BY <1>5, <1>8, <2>2, <2>3 DEF Apart
  <2>. QED  BY <2>2, <2>4
<1>9. ASSUME NEW u \in DOMAIN g, Alone(g, u), u \notin Cells(g, v) PROVE Alone(h, u)
  <2>1. Cells(g, root) \cap Cells(g, u) = {}
    BY <1>9 DEF Alone, Loose
  <2>2. Kept(g, h, u) /\ Cells(h, u) = Cells(g, u)
    BY <1>5, <1>6, <2>1
  <2>3. Cells(g, u) \cap Cells(g, v) = {}
    BY <1>3, <1>9 DEF Loose
  <2>4. ASSUME NEW d \in DOMAIN h
        PROVE  d \in Cells(h, u) \/ Cells(h, d) \cap Cells(h, u) = {}
    BY <1>5, <1>9, <2>2, <2>3 DEF Alone, Loose
  <2>. QED  BY <1>5, <1>9, <2>2, <2>4 DEF Alone, Loose
<1>10. StoresIn(g, v, h)
  BY <1>5, <1>7, <1>8, <1>9 DEF StoresIn
<1>. QED  BY <1>1, <1>4, <1>10

LEMMA LaysPrefix ==
  ASSUME NEW h, NEW c, NEW L, Lays(h, c, L), NEW a \in Path, NEW q \in DOMAIN L,
         IsPrefix(a, q)
  PROVE  a \in DOMAIN L
<1>. DEFINE S == {u \in DOMAIN L : IsPrefix(a, u) => a \in DOMAIN L}
<1>1. <<>> \in S
  <2>1. <<>> \in DOMAIN L
    BY DEF Lays
  <2>2. IsPrefix(a, <<>>) => a = <<>>
    <3>1. Len(<<>>) = 0
      OBVIOUS
    <3>2. IsPrefix(a, <<>>) => Len(a) <= 0
      BY <3>1 DEF IsPrefix
    <3>3. Len(a) \in Nat /\ (Len(a) = 0 => a = <<>>)
      BY DEF Path
    <3>. QED  BY <3>2, <3>3
  <2>. QED  BY <2>1, <2>2
<1>2. ASSUME NEW p \in DOMAIN L, NEW k \in Keys,
             p \in S /\ Append(p, k) \in DOMAIN L /\ HasKid(h, L[p], k, L[Append(p, k)])
      PROVE  Append(p, k) \in S
  <2>1. p \in Path
    BY DEF Lays
  <2>2. IsPrefix(a, Append(p, k)) /\ ~IsPrefix(a, p) => a = Append(p, k)
    BY <2>1, Extends1
  <2>. QED  BY <1>2, <2>2
<1>3. DOMAIN L \subseteq S
  <2>. HIDE DEF S
  <2>. QED  BY <1>1, <1>2, DownLayout
<1>. QED  BY <1>3

\* A heap changed under its root only.
RootOnly(g, h) ==
  /\ Good(h) /\ DOMAIN g \subseteq DOMAIN h
  /\ \A e \in DOMAIN g : h[e].scalar = g[e].scalar
  /\ \A d \in DOMAIN g : Apart(g, root, d) => Apart(h, root, d) /\ Kept(g, h, d)
  /\ \A u \in DOMAIN g : Alone(g, u) => Alone(h, u) /\ Kept(g, h, u)

LEMMA KeptOn ==
  ASSUME NEW f, NEW g, NEW h, NEW d, Kept(f, g, d), Kept(g, h, d)
  PROVE  Kept(f, h, d)
<1>1. Cells(g, d) = Cells(f, d)
  BY KeptIs
<1>. QED  BY <1>1 DEF Kept

LEMMA RootOnlyOn ==
  ASSUME NEW f, NEW g, NEW h, RootOnly(f, g), RootOnly(g, h)
  PROVE  RootOnly(f, h)
<1>1. ASSUME NEW d \in DOMAIN f, Apart(f, root, d)
      PROVE  Apart(h, root, d) /\ Kept(f, h, d)
  BY <1>1, KeptOn DEF RootOnly
<1>2. ASSUME NEW u \in DOMAIN f, Alone(f, u) PROVE Alone(h, u) /\ Kept(f, h, u)
  BY <1>2, KeptOn DEF RootOnly
<1>. QED  BY <1>1, <1>2 DEF RootOnly

LEMMA RootOnlySame ==
  ASSUME NEW g, Good(g)
  PROVE  RootOnly(g, g)
BY DEF RootOnly, Kept

NullTree == [p \in {<<>>} |-> [scalar |-> Absent, keys |-> <<>>]]
GrowOne(T, p, k) ==
  IF Append(p, k) \in DOMAIN T THEN T ELSE PutTree(T, p, k, NullTree)
\* One level of the walk, from the node at p to the one at k below it.
Descends(g, p, k, h, at) ==
  /\ RootOnly(g, h)
  /\ \A q \in DOMAIN Layout(g, root) :
       q \in DOMAIN Layout(h, root) /\ Layout(h, root)[q] = Layout(g, root)[q]
  /\ Append(p, k) \in DOMAIN Layout(h, root) /\ Layout(h, root)[Append(p, k)] = at
  /\ TreeOf(h, root) = GrowOne(TreeOf(g, root), p, k)

LEMMA DescendIs ==
  ASSUME NEW g, Good(g), root \in DOMAIN g, NEW k \in Keys,
         NEW p \in DOMAIN Layout(g, root), NEW s, s.heap = g, s.at = Layout(g, root)[p],
         s = [heap |-> s.heap, at |-> s.at]
  PROVE  /\ Descends(g, p, k, Descend(s, k).heap, Descend(s, k).at)
         /\ Descend(s, k) = [heap |-> Descend(s, k).heap, at |-> Descend(s, k).at]
<1>1. PICK c, L, a : c = s.at /\ L = Layout(g, root) /\ a = Append(p, k)
  OBVIOUS
<1>2. Lays(g, root, L) /\ p \in DOMAIN L /\ L[p] = c
  BY <1>1, LayoutLays
<1>3. c \in Cells(g, root) /\ c \in DOMAIN g /\ p \in Path
  BY <1>1, <1>2 DEF Cells, Lays
<1>4. a \in Path /\ a # <<>>
  BY <1>1, <1>3, PathStep
<1>5. CASE k \in KeysIn(g, c)
  <2>1. Descend(s, k) = [s EXCEPT !.at = get(g, c, k)]
    BY <1>1, <1>5 DEF Descend
  <2>2. Descend(s, k) = [heap |-> g, at |-> get(g, c, k)]
    BY <2>1
  <2>3. HasKid(g, c, k, get(g, c, k))
    BY <1>3, <1>5, GetIs DEF Good
  <2>4. a \in DOMAIN L /\ L[a] = get(g, c, k)
    BY <1>1, <1>2, <2>3 DEF Lays
  <2>5. TreeOf(g, root) = GrowOne(TreeOf(g, root), p, k)
    BY <1>1, <2>4 DEF GrowOne, TreeOf
  <2>. QED  BY <1>1, <2>2, <2>4, <2>5, RootOnlySame DEF Descends
<1>6. CASE k \notin KeysIn(g, c)
  <2>1. PICK new, v, f : new = Alloc(g, NewCell(Absent)) /\ v = new.at /\ f = new.heap
    OBVIOUS
  <2>2. new = [heap |-> f, at |-> v]
    BY <2>1 DEF Alloc
  <2>3. /\ AddsLeaf(g, new) /\ AddsCell(g, NewCell(Absent), new)
        /\ Layout(new.heap, new.at) = [q \in {<<>>} |-> new.at]
    <3>1. PICK t \in Texts \cup {Absent} : t = Absent
      OBVIOUS
    <3>2. /\ AddsLeaf(g, Alloc(g, NewCell(t)))
          /\ AddsCell(g, NewCell(t), Alloc(g, NewCell(t)))
      BY NewIs
    <3>3. AddsLeaf(g, new) /\ AddsCell(g, NewCell(Absent), new)
      BY <2>1, <3>1, <3>2
    <3>. QED  BY <3>3 DEF AddsLeaf
  <2>4. Good(f) /\ Extends(g, f) /\ Fresh(g, f, v) /\ Joins(g, f, v)
    BY <2>1, <2>3, FreshJoins DEF AddsLeaf
  <2>5. PICK h : h = set(f, c, k, v)
    OBVIOUS
  <2>6. Descend(s, k) = [heap |-> h, at |-> v]
    <3>1. Descend(s, k) = [new EXCEPT !.heap = set(new.heap, s.at, k, new.at)]
      BY <1>1, <1>6, <2>1 DEF Descend
    <3>. QED  BY <1>1, <2>1, <2>2, <2>5, <3>1
  <2>7. Kept(g, f, root) /\ Layout(f, root) = L /\ TreeOf(f, root) = TreeOf(g, root)
        /\ Cells(f, root) = Cells(g, root) /\ root \in DOMAIN f /\ DOMAIN g \subseteq DOMAIN f
    BY <1>1, <2>4, KeptIs DEF Joins, Kept, Extends
  <2>8. /\ StoresIn(f, v, h)
        /\ \A q \in DOMAIN Layout(f, root) :
             Layout(f, root)[q] = c => AttachesAt(f, c, k, v, h, root, q)
    <3>1. c \in Cells(f, root) /\ Alone(f, v)
      BY <1>3, <2>4, <2>7 DEF Joins
    <3>. QED  BY <2>4, <2>5, <2>7, <3>1, StoreIs
  <2>9. AttachesAt(f, c, k, v, h, root, p)
    BY <1>2, <2>7, <2>8
  <2>10. Cells(f, v) = {v} /\ v \notin DOMAIN g
    <3>1. Layout(f, v) = [q \in {<<>>} |-> v]
      BY <2>1, <2>3
    <3>2. Cells(f, v) = {v}
      BY <3>1 DEF Cells
    <3>. QED  BY <2>4, <3>2 DEF Fresh
  <2>11. TreeOf(f, v) = NullTree
    <3>1. Layout(f, v) = [q \in {<<>>} |-> v]
      BY <2>1, <2>3
    <3>2. f[v] = NewCell(Absent)
      BY <2>1, <2>3 DEF AddsCell
    <3>3. Node(f, v) = [scalar |-> Absent, keys |-> <<>>]
      <4>1. f[v].scalar = Absent /\ f[v].kids = <<>> /\ DOMAIN <<>> = {}
        BY <3>2 DEF NewCell
      <4>2. [i \in {} |-> f[v].kids[i].key] = <<>>
        OBVIOUS
      <4>. QED  BY <4>1, <4>2 DEF Node
    <3>. QED  BY <3>1, <3>3 DEF TreeOf, NullTree
  <2>12. a \notin DOMAIN L
    <3>1. SUFFICES ASSUME a \in DOMAIN L PROVE FALSE
      OBVIOUS
    <3>2. PICK q \in DOMAIN L, l \in Keys : a = Append(q, l) /\ HasKid(g, L[q], l, L[a])
      BY <1>2, <1>4, <3>1 DEF Lays
    <3>3. q \in Path /\ Append(p, k) = Append(q, l)
      BY <1>1, <1>2, <3>2 DEF Lays
    <3>4. p = q /\ k = l
      BY <1>3, <3>3, SameStep
    <3>5. HasKid(g, c, k, L[a])
      BY <1>2, <3>2, <3>4
    <3>. QED  BY <1>3, <1>6, <3>5, GetIs DEF Good
  <2>13. \A q \in DOMAIN L : ~IsPrefix(a, q)
    BY <1>2, <1>4, <2>12, LaysPrefix
  <2>14. PICK M, V : M = Layout(h, root) /\ V = Layout(f, v)
    OBVIOUS
  <2>15. IsGraft(M, L, a, V)
    BY <1>1, <2>7, <2>9, <2>14 DEF AttachesAt
  <2>16. <<>> \in DOMAIN V /\ V[<<>>] = v /\ a \o <<>> = a
    <3>1. V = [q \in {<<>>} |-> v]
      BY <2>1, <2>3, <2>14
    <3>. QED  BY <3>1, <1>4, <1>3, Extending
  <2>17. a \in DOMAIN M /\ M[a] = v
    BY <2>15, <2>16 DEF IsGraft
  <2>18. \A q \in DOMAIN L : q \in DOMAIN M /\ M[q] = L[q]
    BY <2>13, <2>15 DEF IsGraft
  <2>19. TreeOf(h, root) = GrowOne(TreeOf(g, root), p, k)
    <3>1. TreeOf(h, root) = PutTree(TreeOf(g, root), p, k, NullTree)
      BY <2>7, <2>9, <2>11 DEF AttachesAt
    <3>2. a \notin DOMAIN TreeOf(g, root)
      BY <1>1, <2>12 DEF TreeOf
    <3>. QED  BY <1>1, <3>1, <3>2 DEF GrowOne
  <2>20. RootOnly(g, h)
    <3>1. /\ \A d \in DOMAIN g : Kept(g, f, d) /\ Cells(f, d) = Cells(g, d)
          /\ \A u \in DOMAIN g : Alone(g, u) => Alone(f, u)
      BY <2>4, KeptIs DEF Joins
    <3>2. /\ Good(h) /\ DOMAIN h = DOMAIN f
          /\ \A e \in DOMAIN f : h[e].scalar = f[e].scalar
          /\ \A d \in DOMAIN f : d \notin Cells(f, v) /\ Apart(f, root, d) => Apart(h, root, d) /\ Kept(f, h, d)
          /\ \A u \in DOMAIN f : Alone(f, u) /\ u \notin Cells(f, v) => Alone(h, u)
      BY <2>8 DEF StoresIn
    <3>3. \A e \in DOMAIN g : h[e].scalar = g[e].scalar
      BY <2>4, <2>7, <3>2 DEF Extends
    <3>4. ASSUME NEW d \in DOMAIN g, Apart(g, root, d)
          PROVE  Apart(h, root, d) /\ Kept(g, h, d)
      <4>1. Apart(f, root, d) /\ d \in DOMAIN f /\ d \notin Cells(f, v)
        BY <2>7, <2>10, <3>1, <3>4 DEF Apart
      <4>. QED  BY <3>1, <3>2, <4>1, KeptOn
    <3>5. ASSUME NEW u \in DOMAIN g, Alone(g, u)
          PROVE  Alone(h, u) /\ Kept(g, h, u)
      <4>1. u \in DOMAIN f /\ u \notin Cells(f, v) /\ Alone(f, u)
        BY <2>7, <2>10, <3>1, <3>5
      <4>2. Apart(g, root, u)
        BY <3>5, AloneApart
      <4>. QED  BY <3>2, <3>4, <4>1, <4>2
    <3>. QED  BY <2>7, <3>2, <3>3, <3>4, <3>5 DEF RootOnly
  <2>21. Descends(g, p, k, h, v)
    BY <1>1, <2>14, <2>17, <2>18, <2>19, <2>20 DEF Descends
  <2>. QED  BY <2>6, <2>21
<1>. QED  BY <1>5, <1>6

-----------------------------------------------------------------------------
(* Trees as VariableTree has them.                                          *)

\* A node for each path, and for each prefix of one.
IsTree(T) ==
  /\ T = [q \in DOMAIN T |-> T[q]] /\ DOMAIN T \subseteq Path /\ <<>> \in DOMAIN T
  /\ \A q \in DOMAIN T, a \in Path : IsPrefix(a, q) => a \in DOMAIN T
  /\ \A q \in DOMAIN T : T[q] = [scalar |-> T[q].scalar, keys |-> T[q].keys]

LEMMA TreeOfIs ==
  ASSUME NEW h, Good(h), NEW c \in DOMAIN h
  PROVE  IsTree(TreeOf(h, c))
<1>1. PICK L : L = Layout(h, c)
  OBVIOUS
<1>2. Lays(h, c, L)
  BY <1>1, LayoutLays
<1>3. PICK T : T = TreeOf(h, c)
  OBVIOUS
<1>4. DOMAIN T = DOMAIN L /\ T = [q \in DOMAIN T |-> T[q]]
      /\ \A q \in DOMAIN T : T[q] = Node(h, L[q])
  BY <1>1, <1>3 DEF TreeOf
<1>5. \A q \in DOMAIN T : T[q] = [scalar |-> T[q].scalar, keys |-> T[q].keys]
  BY <1>4 DEF Node
<1>6. \A q \in DOMAIN T, a \in Path : IsPrefix(a, q) => a \in DOMAIN T
  BY <1>2, <1>4, LaysPrefix
<1>7. DOMAIN T \subseteq Path /\ <<>> \in DOMAIN T
  BY <1>2, <1>4 DEF Lays
<1>. QED  BY <1>3, <1>4, <1>5, <1>6, <1>7 DEF IsTree

\* Grown of VariableTree, of any tree.
Lacks(T, p) == {q \in Prefixes(p) : q \notin DOMAIN T}
KeyAfter(p, q) == p[Len(q) + 1]
Bears(T, p, q) == q # p /\ IsPrefix(q, p) /\ Append(q, KeyAfter(p, q)) \in Lacks(T, p)
NodeWas(T, p, q) == IF q \in Lacks(T, p) THEN [scalar |-> Absent, keys |-> <<>>] ELSE T[q]
GrownTree(T, p) ==
  [q \in DOMAIN T \cup Lacks(T, p) |->
     IF Bears(T, p, q) THEN [NodeWas(T, p, q) EXCEPT !.keys = Append(@, KeyAfter(p, q))]
     ELSE NodeWas(T, p, q)]

LEMMA PrefixesAre ==
  ASSUME NEW p \in Path
  PROVE  \A q : q \in Prefixes(p) <=> q \in Path /\ IsPrefix(q, p)
<1>1. ASSUME NEW q, q \in Prefixes(p) PROVE q \in Path /\ IsPrefix(q, p)
  <2>1. PICK l \in 0 .. Len(p) : q = SubSeq(p, 1, l)
    BY <1>1 DEF Prefixes
  <2>2. q \in Path /\ Len(q) = l
    BY <2>1 DEF Path
  <2>3. SubSeq(q, 1, Len(q)) = q
    BY <2>2 DEF Path
  <2>. QED  BY <2>1, <2>2, <2>3 DEF IsPrefix, Path
<1>2. ASSUME NEW q, q \in Path /\ IsPrefix(q, p) PROVE q \in Prefixes(p)
  <2>1. Len(q) \in 0 .. Len(p) /\ SubSeq(q, 1, Len(q)) = SubSeq(p, 1, Len(q))
    BY <1>2 DEF IsPrefix, Path
  <2>2. q = SubSeq(q, 1, Len(q))
    BY <1>2 DEF Path
  <2>. QED  BY <2>1, <2>2 DEF Prefixes
<1>. QED  BY <1>1, <1>2

LEMMA PrefixOfStep ==
  ASSUME NEW p \in Path, NEW k \in Keys, NEW q \in Path
  PROVE  /\ IsPrefix(q, Append(p, k)) <=> q = Append(p, k) \/ IsPrefix(q, p)
         /\ IsPrefix(q, p) => Len(q) <= Len(p)
         /\ IsPrefix(q, p) /\ q # p =>
              /\ Len(q) < Len(p) /\ KeyAfter(Append(p, k), q) = KeyAfter(p, q)
              /\ KeyAfter(p, q) \in Keys /\ Append(q, KeyAfter(p, q)) # Append(p, k)
              /\ IsPrefix(Append(q, KeyAfter(p, q)), p)
         /\ KeyAfter(Append(p, k), p) = k /\ IsPrefix(p, p)
<1>1. Len(p) \in Nat /\ Len(q) \in Nat /\ Append(p, k) \in Path /\ Len(Append(p, k)) = Len(p) + 1
  BY PathStep DEF Path
<1>2. IsPrefix(q, p) => Len(q) <= Len(p)
  BY DEF IsPrefix
<1>3. IsPrefix(p, p) /\ IsPrefix(Append(p, k), Append(p, k))
  BY <1>1 DEF IsPrefix
<1>4. IsPrefix(q, p) => IsPrefix(q, Append(p, k))
  BY Extended
<1>5. IsPrefix(q, Append(p, k)) /\ ~IsPrefix(q, p) => q = Append(p, k)
  BY Extends1
<1>6. KeyAfter(Append(p, k), p) = k
  BY <1>1 DEF KeyAfter, Path
<1>7. ASSUME IsPrefix(q, p), q # p
      PROVE  /\ Len(q) < Len(p) /\ KeyAfter(Append(p, k), q) = KeyAfter(p, q)
             /\ KeyAfter(p, q) \in Keys /\ Append(q, KeyAfter(p, q)) # Append(p, k)
             /\ IsPrefix(Append(q, KeyAfter(p, q)), p)
  <2>1. Len(q) < Len(p)
    BY <1>1, <1>7 DEF IsPrefix, Path
  <2>2. PICK l \in Keys : l = KeyAfter(p, q)
    BY <1>1, <2>1 DEF KeyAfter, Path
  <2>3. KeyAfter(Append(p, k), q) = l
    BY <1>1, <2>1, <2>2 DEF KeyAfter, Path
  <2>4. Append(q, l) # Append(p, k)
    BY <1>7, SameStep
  <2>5. IsPrefix(Append(q, l), p)
    <3>1. Len(Append(q, l)) = Len(q) + 1 /\ Append(q, l) \in Path
      BY PathStep
    <3>2. \A i \in 1 .. Len(q) : q[i] = p[i]
      <4>1. SubSeq(q, 1, Len(q)) = SubSeq(p, 1, Len(q))
        BY <1>7 DEF IsPrefix
      <4>2. \A i \in 1 .. Len(q) : SubSeq(q, 1, Len(q))[i] = q[i] /\ SubSeq(p, 1, Len(q))[i] = p[i]
        BY <1>1, <2>1 DEF Path
      <4>. QED  BY <4>1, <4>2
    <3>3. PICK u, w : u = SubSeq(Append(q, l), 1, Len(q) + 1) /\ w = SubSeq(p, 1, Len(q) + 1)
      OBVIOUS
    <3>4. u \in Path /\ w \in Path /\ Len(u) = Len(q) + 1 /\ Len(w) = Len(q) + 1
      BY <1>1, <2>1, <3>1, <3>3 DEF Path
    <3>5. \A i \in 1 .. Len(q) + 1 : u[i] = w[i]
      <4>1. ASSUME NEW i \in 1 .. Len(q) + 1 PROVE u[i] = w[i]
        <5>1. u[i] = Append(q, l)[i] /\ w[i] = p[i]
          BY <1>1, <2>1, <3>1, <3>3 DEF Path
        <5>2. CASE i = Len(q) + 1
          BY <1>1, <2>2, <5>1, <5>2 DEF KeyAfter, Path
        <5>3. CASE i \in 1 .. Len(q)
          BY <1>1, <3>2, <5>1, <5>3 DEF Path
        <5>. QED  BY <1>1, <5>2, <5>3
      <4>. QED  BY <4>1
    <3>6. u = w
      BY <1>1, <3>4, <3>5 DEF Path
    <3>. QED  BY <1>1, <2>1, <3>1, <3>3, <3>6 DEF IsPrefix
  <2>. QED  BY <2>1, <2>2, <2>3, <2>4, <2>5
<1>. QED  BY <1>2, <1>3, <1>4, <1>5, <1>6, <1>7

LEMMA GrownIs ==
  ASSUME NEW T, IsTree(T), NEW p \in Path
  PROVE  /\ IsTree(GrownTree(T, p))
         /\ DOMAIN GrownTree(T, p) = DOMAIN T \cup Lacks(T, p)
         /\ \A q : q \in Lacks(T, p) <=> q \in Path /\ IsPrefix(q, p) /\ q \notin DOMAIN T
         /\ p \in DOMAIN GrownTree(T, p)
<1>1. \A q : q \in Lacks(T, p) <=> q \in Path /\ IsPrefix(q, p) /\ q \notin DOMAIN T
  BY PrefixesAre DEF Lacks
<1>2. PICK G : G = GrownTree(T, p)
  OBVIOUS
<1>3. DOMAIN G = DOMAIN T \cup Lacks(T, p) /\ G = [q \in DOMAIN G |-> G[q]]
      /\ \A q \in DOMAIN G : G[q] =
           IF Bears(T, p, q) THEN [NodeWas(T, p, q) EXCEPT !.keys = Append(@, KeyAfter(p, q))]
           ELSE NodeWas(T, p, q)
  BY <1>2 DEF GrownTree
<1>4. /\ DOMAIN T \subseteq Path /\ <<>> \in DOMAIN T
      /\ \A q \in DOMAIN T, a \in Path : IsPrefix(a, q) => a \in DOMAIN T
      /\ \A q \in DOMAIN T : T[q] = [scalar |-> T[q].scalar, keys |-> T[q].keys]
  BY DEF IsTree
<1>5. ASSUME NEW q \in DOMAIN G, NEW a \in Path, IsPrefix(a, q) PROVE a \in DOMAIN G
  <2>1. CASE q \in DOMAIN T
    BY <1>3, <1>4, <1>5, <2>1
  <2>2. CASE q \in Lacks(T, p)
    <3>1. IsPrefix(a, p)
      BY <1>1, <1>5, <2>2 DEF IsPrefix, Path
    <3>. QED  BY <1>1, <1>3, <3>1
  <2>. QED  BY <1>3, <2>1, <2>2
<1>6. \A q \in DOMAIN G : NodeWas(T, p, q) = [scalar |-> NodeWas(T, p, q).scalar, keys |-> NodeWas(T, p, q).keys]
  BY <1>3, <1>4 DEF NodeWas
<1>7. ASSUME NEW q \in DOMAIN G PROVE G[q] = [scalar |-> G[q].scalar, keys |-> G[q].keys]
  <2>1. PICK n : n = NodeWas(T, p, q) /\ n = [scalar |-> n.scalar, keys |-> n.keys]
    BY <1>6
  <2>2. G[q] = IF Bears(T, p, q) THEN [n EXCEPT !.keys = Append(@, KeyAfter(p, q))] ELSE n
    BY <1>3, <2>1
  <2>. QED  BY <2>1, <2>2
<1>8. p \in DOMAIN G
  <2>1. IsPrefix(p, p)
    BY DEF IsPrefix, Path
  <2>. QED  BY <1>1, <1>3, <2>1
<1>9. IsTree(G)
  BY <1>1, <1>3, <1>4, <1>5, <1>7 DEF IsTree
<1>. QED  BY <1>1, <1>2, <1>3, <1>8, <1>9

LEMMA GrownWhole ==
  ASSUME NEW T, IsTree(T), NEW p \in Path, p \in DOMAIN T
  PROVE  GrownTree(T, p) = T
<1>1. Lacks(T, p) = {}
  <2>1. \A q : q \in Lacks(T, p) <=> q \in Path /\ IsPrefix(q, p) /\ q \notin DOMAIN T
    BY GrownIs
  <2>2. \A q \in Path : IsPrefix(q, p) => q \in DOMAIN T
    BY DEF IsTree
  <2>. QED  BY <2>1, <2>2
<1>2. T = [q \in DOMAIN T |-> T[q]]
  BY DEF IsTree
<1>3. GrownTree(T, p) = [q \in DOMAIN T |-> T[q]]
  BY <1>1 DEF GrownTree, Bears, NodeWas
<1>. QED  BY <1>2, <1>3

\* A path grows the tree by each of its levels.
LEMMA GrownStep ==
  ASSUME NEW T, IsTree(T), NEW p \in Path, NEW k \in Keys
  PROVE  GrowOne(GrownTree(T, p), p, k) = GrownTree(T, Append(p, k))
<1>1. PICK a, G, H : a = Append(p, k) /\ G = GrownTree(T, p) /\ H = GrownTree(T, a)
  OBVIOUS
<1>2. a \in Path /\ Len(a) = Len(p) + 1 /\ Len(p) \in Nat
  BY <1>1, PathStep
<1>3. /\ IsTree(G) /\ DOMAIN G = DOMAIN T \cup Lacks(T, p)
      /\ \A q : q \in Lacks(T, p) <=> q \in Path /\ IsPrefix(q, p) /\ q \notin DOMAIN T
  BY <1>1, GrownIs
<1>4. /\ IsTree(H) /\ DOMAIN H = DOMAIN T \cup Lacks(T, a)
      /\ \A q : q \in Lacks(T, a) <=> q \in Path /\ IsPrefix(q, a) /\ q \notin DOMAIN T
  BY <1>1, <1>2, GrownIs
<1>5. \A q \in Path :
         /\ IsPrefix(q, a) <=> q = a \/ IsPrefix(q, p)
         /\ IsPrefix(q, p) => Len(q) <= Len(p)
         /\ IsPrefix(q, p) /\ q # p =>
              /\ Len(q) < Len(p) /\ KeyAfter(a, q) = KeyAfter(p, q)
              /\ KeyAfter(p, q) \in Keys /\ Append(q, KeyAfter(p, q)) # a
              /\ IsPrefix(Append(q, KeyAfter(p, q)), p)
         /\ KeyAfter(a, p) = k /\ IsPrefix(p, p)
  BY <1>1, PrefixOfStep
<1>6. ~IsPrefix(a, p) /\ a # p
  BY <1>2, <1>5
<1>7. /\ DOMAIN T \subseteq Path
      /\ \A q \in DOMAIN T, b \in Path : IsPrefix(b, q) => b \in DOMAIN T
  BY DEF IsTree
<1>8. CASE a \in DOMAIN T
  <2>1. p \in DOMAIN T
    BY <1>5, <1>7, <1>8
  <2>2. G = T /\ H = T
    BY <1>1, <1>2, <1>8, <2>1, GrownWhole
  <2>. QED  BY <1>1, <1>8, <2>2 DEF GrowOne
<1>9. CASE a \notin DOMAIN T
  <2>1. a \notin DOMAIN G
    BY <1>3, <1>6, <1>9
  <2>2. \A q \in DOMAIN G : ~IsPrefix(a, q)
    BY <1>2, <1>3, <2>1 DEF IsTree
  <2>3. DOMAIN H = DOMAIN G \cup {a}
    BY <1>2, <1>3, <1>4, <1>5, <1>9
  <2>4. PICK P : P = PutTree(G, p, k, NullTree)
    OBVIOUS
  <2>5. a \o <<>> = a /\ IsPrefix(a, a) /\ Rest(Len(a), a) = <<>>
    <3>1. <<>> \in Path
      BY DEF Path
    <3>2. IsPrefix(a, a \o <<>>) /\ Rest(Len(a), a \o <<>>) = <<>> /\ a \o <<>> = a
      BY <1>2, <3>1, Extending
    <3>. QED  BY <3>2
  <2>6. {u \in DOMAIN G : ~IsPrefix(a, u)} \cup {a \o r : r \in DOMAIN NullTree} = DOMAIN G \cup {a}
    BY <2>2, <2>5 DEF NullTree
  <2>7. P = [q \in DOMAIN G \cup {a} |->
               IF IsPrefix(a, q) THEN NullTree[Rest(Len(a), q)]
               ELSE IF q = p THEN [scalar |-> G[q].scalar, keys |-> Append(G[q].keys, k)]
               ELSE G[q]]
    BY <1>1, <2>1, <2>4, <2>6 DEF PutTree
  <2>8. P[a] = [scalar |-> Absent, keys |-> <<>>]
    BY <2>5, <2>7 DEF NullTree
  <2>9. \A q \in DOMAIN H : H[q] =
          IF Bears(T, a, q) THEN [NodeWas(T, a, q) EXCEPT !.keys = Append(@, KeyAfter(a, q))]
          ELSE NodeWas(T, a, q)
    BY <1>1 DEF GrownTree
  <2>10. \A q \in DOMAIN G : G[q] =
           IF Bears(T, p, q) THEN [NodeWas(T, p, q) EXCEPT !.keys = Append(@, KeyAfter(p, q))]
           ELSE NodeWas(T, p, q)
    BY <1>1 DEF GrownTree
  <2>11. a \in Lacks(T, a) /\ a \in DOMAIN H
    BY <1>2, <1>4, <1>9, <2>5
  <2>12. H[a] = [scalar |-> Absent, keys |-> <<>>]
    BY <2>9, <2>11 DEF Bears, NodeWas
  <2>13. \A q \in DOMAIN G : q \in Lacks(T, a) <=> q \in Lacks(T, p)
    BY <1>3, <1>4, <1>5, <1>9, <2>1, <1>7
  <2>14. \A q \in DOMAIN G : NodeWas(T, a, q) = NodeWas(T, p, q)
    BY <2>13 DEF NodeWas
  <2>15. p \in DOMAIN G /\ H[p] = [scalar |-> G[p].scalar, keys |-> Append(G[p].keys, k)]
    <3>1. p \in DOMAIN G
      BY <1>1, GrownIs
    <3>2. Bears(T, a, p) /\ KeyAfter(a, p) = k
      BY <1>1, <1>5, <1>6, <2>11 DEF Bears
    <3>3. G[p] = NodeWas(T, p, p)
      BY <2>10, <3>1 DEF Bears
    <3>4. H[p] = [G[p] EXCEPT !.keys = Append(@, k)]
      BY <2>3, <2>9, <2>14, <3>1, <3>2, <3>3
    <3>5. G[p] = [scalar |-> G[p].scalar, keys |-> G[p].keys]
      BY <1>3, <3>1 DEF IsTree
    <3>. QED  BY <3>1, <3>4, <3>5
  <2>16. ASSUME NEW q \in DOMAIN G, q # p PROVE H[q] = G[q]
    <3>0. q \in Path
      BY <1>3 DEF IsTree
    <3>1. Bears(T, a, q) <=> Bears(T, p, q)
      <4>1. CASE IsPrefix(q, p)
        <5>1. /\ IsPrefix(q, a) /\ q # a /\ KeyAfter(a, q) = KeyAfter(p, q)
              /\ Append(q, KeyAfter(p, q)) # a
              /\ IsPrefix(Append(q, KeyAfter(p, q)), p)
          BY <1>5, <2>1, <2>16, <3>0, <4>1
        <5>2. PICK b \in Path : b = Append(q, KeyAfter(p, q))
          BY <1>5, <2>16, <3>0, <4>1, PathStep
        <5>3. b \in Lacks(T, a) <=> b \in Lacks(T, p)
          BY <1>3, <1>4, <1>5, <5>1, <5>2
        <5>. QED  BY <2>16, <4>1, <5>1, <5>2, <5>3 DEF Bears
      <4>2. CASE ~IsPrefix(q, p)
        BY <1>5, <2>1, <3>0, <4>2 DEF Bears
      <4>. QED  BY <4>1, <4>2
    <3>2. Bears(T, p, q) => KeyAfter(a, q) = KeyAfter(p, q)
      BY <1>5, <2>16, <3>0 DEF Bears
    <3>. QED  BY <2>3, <2>9, <2>10, <2>14, <3>1, <3>2
  <2>17. \A q \in DOMAIN H : P[q] = H[q]
    <3>1. P[a] = H[a]
      BY <2>8, <2>12
    <3>2. \A q \in DOMAIN G : P[q] = H[q]
      BY <2>2, <2>7, <2>15, <2>16
    <3>. QED  BY <2>3, <3>1, <3>2
  <2>18. P = H
    <3>1. P = [q \in DOMAIN H |-> P[q]]
      BY <2>3, <2>7
    <3>2. H = [q \in DOMAIN H |-> H[q]]
      BY <1>4 DEF IsTree
    <3>. QED  BY <2>17, <3>1, <3>2
  <2>. QED  BY <1>1, <2>1, <2>4, <2>18 DEF GrowOne
<1>. QED  BY <1>8, <1>9

-----------------------------------------------------------------------------
(* The walk.                                                                *)

Heaps == UNION {[0 .. n - 1 -> Cell(0 .. n - 1)] : n \in Nat}
\* Where a walk can be: at a cell under the root.
Walks == {s \in [heap : Heaps, at : Nat] :
            Good(s.heap) /\ root \in DOMAIN s.heap /\ s.at \in Cells(s.heap, root)}

LEMMA WalkIn ==
  ASSUME NEW s, s = [heap |-> s.heap, at |-> s.at], Good(s.heap), root \in DOMAIN s.heap,
         s.at \in Cells(s.heap, root)
  PROVE  s \in Walks
<1>1. PICK n \in Nat : DOMAIN s.heap = 0 .. n - 1 /\ s.heap \in [0 .. n - 1 -> Cell(0 .. n - 1)]
  BY HeapIs DEF Good
<1>2. s.heap \in Heaps
  BY <1>1 DEF Heaps
<1>3. s.at \in DOMAIN s.heap
  BY CellsClosed
<1>4. s.at \in Nat
  BY <1>1, <1>3
<1>5. s \in [heap : Heaps, at : Nat]
  BY <1>2, <1>4
<1>. QED  BY <1>5 DEF Walks

LEMMA DescendIn ==
  ASSUME NEW s \in Walks, NEW k \in Keys
  PROVE  Descend(s, k) \in Walks
<1>1. PICK g : g = s.heap
  OBVIOUS
<1>2. Good(g) /\ root \in DOMAIN g /\ s.at \in Cells(g, root) /\ s = [heap |-> s.heap, at |-> s.at]
  BY <1>1 DEF Walks
<1>3. PICK p \in DOMAIN Layout(g, root) : s.at = Layout(g, root)[p]
  BY <1>2 DEF Cells
<1>4. PICK r : r = Descend(s, k)
  OBVIOUS
<1>5. Descends(g, p, k, r.heap, r.at) /\ r = [heap |-> r.heap, at |-> r.at]
  BY <1>1, <1>2, <1>3, <1>4, DescendIs
<1>6. Good(r.heap) /\ root \in DOMAIN r.heap /\ r.at \in Cells(r.heap, root)
  BY <1>2, <1>5 DEF Descends, RootOnly, Cells
<1>. QED  BY <1>4, <1>5, <1>6, WalkIn

LEMMA WalkRuns ==
  ASSUME NEW h, Good(h), root \in DOMAIN h, NEW path \in Path, NEW N \in Nat, N = Len(path)
  PROVE  \E run : /\ run \in [0 .. N -> Walks] /\ run[0] = [heap |-> h, at |-> root]
                  /\ \A n \in 1 .. N : run[n] = Descend(run[n - 1], path[n])
                  /\ walk_create(h, path) = run[N]
<1>. DEFINE D == DOMAIN path
            T == Walks
            start == [heap |-> h, at |-> root]
            Is(f) == f = [s \in SUBSET D |->
                            IF s = {} THEN start
                            ELSE Descend(f[s \ {Max(s)}], path[Max(s)])]
            it == CHOOSE f : Is(f)
<1>. PICK step : step = [p \in T \X (1 .. N) |-> Descend(p[1], path[p[2]])]
  OBVIOUS
<1>1. walk_create(h, path) = it[D]
  BY DEF walk_create, FoldLeft, MapThenFoldSet
<1>2. D = 1 .. N /\ start \in T /\ \A n \in 1 .. N : path[n] \in Keys
  <2>1. start \in T
    <3>1. root \in Cells(h, root)
      BY CellsClosed
    <3>2. start.heap = h /\ start.at = root /\ start = [heap |-> start.heap, at |-> start.at]
      OBVIOUS
    <3>. HIDE DEF start
    <3>. QED  BY <3>1, <3>2, WalkIn
  <2>. QED  BY <2>1 DEF Path
<1>. HIDE DEF T, start
<1>3. \A q \in T, n \in 1 .. N :
        step[<<q, n>>] = Descend(q, path[n]) /\ step[<<q, n>>] \in T
  <2>1. \A q \in T, n \in 1 .. N : Descend(q, path[n]) \in T
    BY <1>2, DescendIn DEF T
  <2>. QED  BY <2>1
<1>4. IsStep(step, N, T)
  <2>1. ASSUME NEW p \in T \X (1 .. N) PROVE step[p] \in T
    <3>1. p = <<p[1], p[2]>> /\ p[1] \in T /\ p[2] \in 1 .. N
      OBVIOUS
    <3>. QED  BY <1>3, <3>1
  <2>2. step = [p \in T \X (1 .. N) |-> step[p]]
    OBVIOUS
  <2>. QED  BY <2>1, <2>2 DEF IsStep
<1>5. \A s \in SUBSET (1 .. N) : s # {} => Max(s) \in 1 .. N /\ s \ {Max(s)} \in SUBSET (1 .. N)
  BY MaxIs
<1>6. PICK g : IsFold(g, N, T, start, step)
  BY <1>2, <1>4, FoldExists
<1>7. \A s \in SUBSET (1 .. N) :
        g[s] = IF s = {} THEN start ELSE Descend(g[s \ {Max(s)}], path[Max(s)])
  <2>1. ASSUME NEW s \in SUBSET (1 .. N), s # {}
        PROVE  g[s] = Descend(g[s \ {Max(s)}], path[Max(s)])
    <3>1. g[s] = step[<<g[s \ {Max(s)}], Max(s)>>]
      BY <1>6, <2>1 DEF IsFold
    <3>2. g[s \ {Max(s)}] \in T /\ Max(s) \in 1 .. N
      BY <1>5, <1>6, <2>1 DEF IsFold
    <3>. QED  BY <1>3, <3>1, <3>2
  <2>2. g[{}] = start
    BY <1>6 DEF IsFold
  <2>. QED  BY <2>1, <2>2
<1>8. Is(g)
  BY <1>2, <1>6, <1>7 DEF IsFold
<1>9. Is(it)
  <2>. HIDE DEF Is
  <2>. QED  BY <1>8
<1>10. Recurs(it, N, T, start, step)
  <2>1. \A s \in SUBSET (1 .. N) :
          it[s] = IF s = {} THEN start ELSE Descend(it[s \ {Max(s)}], path[Max(s)])
    <3>. HIDE DEF it
    <3>. QED  BY <1>2, <1>9
  <2>. HIDE DEF it
  <2>. QED  BY <2>1, <1>3, <1>5 DEF Recurs
<1>. HIDE DEF it
<1>11. PICK run : IsRun(run, N, T, start, step) /\ it[1 .. N] = run[N]
  BY <1>2, <1>4, <1>10, FoldRuns
<1>12. \A n \in 1 .. N : n - 1 \in 0 .. N
  OBVIOUS
<1>13. /\ run \in [0 .. N -> Walks] /\ run[0] = start
       /\ \A n \in 1 .. N : run[n] = Descend(run[n - 1], path[n])
  BY <1>3, <1>11, <1>12 DEF IsRun, T
<1>. QED  BY <1>1, <1>2, <1>11, <1>13 DEF start

\* The whole walk: the tree has grown along the path, and w.at is at its end.
WalkedTo(h, path, w) ==
  /\ RootOnly(h, w.heap)
  /\ \A q \in DOMAIN Layout(h, root) :
       q \in DOMAIN Layout(w.heap, root) /\ Layout(w.heap, root)[q] = Layout(h, root)[q]
  /\ path \in DOMAIN Layout(w.heap, root) /\ Layout(w.heap, root)[path] = w.at
  /\ TreeOf(w.heap, root) = GrownTree(TreeOf(h, root), path)

LEMMA WalkIs ==
  ASSUME NEW h, Good(h), root \in DOMAIN h, NEW path \in Path
  PROVE  WalkedTo(h, path, walk_create(h, path))
<1>1. PICK N \in Nat : N = Len(path)
  BY DEF Path
<1>2. PICK run : /\ run \in [0 .. N -> Walks] /\ run[0] = [heap |-> h, at |-> root]
                 /\ \A n \in 1 .. N : run[n] = Descend(run[n - 1], path[n])
                 /\ walk_create(h, path) = run[N]
  BY <1>1, WalkRuns
<1>3. PICK part : part = [n \in 0 .. N |-> SubSeq(path, 1, n)]
  OBVIOUS
<1>4. /\ part[0] = <<>> /\ part[N] = path
      /\ \A n \in 0 .. N : part[n] \in Path
      /\ \A n \in 0 .. N - 1 : path[n + 1] \in Keys /\ part[n + 1] = Append(part[n], path[n + 1])
  <2>1. \A n \in 0 .. N : part[n] = SubSeq(path, 1, n) /\ SubSeq(path, 1, n) \in Path
    BY <1>1, <1>3 DEF Path
  <2>2. part[0] = <<>> /\ part[N] = path
    BY <1>1, <2>1 DEF Path
  <2>3. ASSUME NEW n \in 0 .. N - 1
        PROVE  path[n + 1] \in Keys /\ part[n + 1] = Append(part[n], path[n + 1])
    <3>1. n \in 0 .. N /\ n + 1 \in 0 .. N
      OBVIOUS
    <3>2. SubSeq(path, 1, n + 1) = Append(SubSeq(path, 1, n), path[n + 1])
      BY <1>1 DEF Path
    <3>. QED  BY <1>1, <2>1, <3>1, <3>2 DEF Path
  <2>. QED  BY <2>1, <2>2, <2>3
<1>. DEFINE S == {n \in 0 .. N : WalkedTo(h, part[n], run[n])}
<1>5. 0 \in S
  <2>1. run[0].heap = h /\ run[0].at = root /\ part[0] = <<>>
    BY <1>2, <1>4
  <2>2. Lays(h, root, Layout(h, root))
    BY LayoutLays
  <2>3. <<>> \in DOMAIN Layout(h, root) /\ Layout(h, root)[<<>>] = root
    BY <2>2 DEF Lays
  <2>4. GrownTree(TreeOf(h, root), <<>>) = TreeOf(h, root)
    <3>1. PICK T : T = TreeOf(h, root)
      OBVIOUS
    <3>2. IsTree(T) /\ <<>> \in Path /\ <<>> \in DOMAIN T
      BY <3>1, <2>3, TreeOfIs DEF TreeOf, Path
    <3>3. GrownTree(T, <<>>) = T
      BY <3>2, GrownWhole
    <3>. QED  BY <3>1, <3>3
  <2>5. RootOnly(h, h)
    BY RootOnlySame
  <2>. QED  BY <2>1, <2>3, <2>4, <2>5 DEF WalkedTo
<1>6. ASSUME NEW n \in 0 .. N - 1, n \in S PROVE n + 1 \in S
  <2>1. n + 1 \in 1 .. N /\ n + 1 \in 0 .. N /\ (n + 1) - 1 = n /\ n \in 0 .. N
    OBVIOUS
  <2>2. PICK s, k, p : s = run[n] /\ k = path[n + 1] /\ p = part[n]
    OBVIOUS
  <2>3. PICK g : g = s.heap
    OBVIOUS
  <2>4. s \in Walks /\ k \in Keys /\ p \in Path
    BY <1>2, <1>4, <2>1, <2>2
  <2>5. Good(g) /\ root \in DOMAIN g /\ s = [heap |-> s.heap, at |-> s.at]
    BY <2>3, <2>4 DEF Walks
  <2>6. WalkedTo(h, p, s)
    BY <1>6, <2>2
  <2>7. p \in DOMAIN Layout(g, root) /\ s.at = Layout(g, root)[p]
    BY <2>3, <2>6 DEF WalkedTo
  <2>8. PICK r : r = Descend(s, k)
    OBVIOUS
  <2>9. Descends(g, p, k, r.heap, r.at)
    BY <2>3, <2>4, <2>5, <2>7, <2>8, DescendIs
  <2>10. run[n + 1] = r /\ part[n + 1] = Append(p, k)
    BY <1>2, <1>4, <2>1, <2>2, <2>8
  <2>11. RootOnly(h, r.heap)
    BY <2>3, <2>6, <2>9, RootOnlyOn DEF WalkedTo, Descends
  <2>12. TreeOf(r.heap, root) = GrownTree(TreeOf(h, root), Append(p, k))
    <3>1. PICK T : T = TreeOf(h, root)
      OBVIOUS
    <3>2. IsTree(T)
      BY <3>1, TreeOfIs
    <3>3. TreeOf(r.heap, root) = GrowOne(GrownTree(T, p), p, k)
      BY <2>3, <2>6, <2>9, <3>1 DEF WalkedTo, Descends
    <3>4. GrowOne(GrownTree(T, p), p, k) = GrownTree(T, Append(p, k))
      BY <2>4, <3>2, GrownStep
    <3>. QED  BY <3>1, <3>3, <3>4
  <2>13. \A q \in DOMAIN Layout(h, root) :
           q \in DOMAIN Layout(r.heap, root) /\ Layout(r.heap, root)[q] = Layout(h, root)[q]
    BY <2>3, <2>6, <2>9 DEF WalkedTo, Descends
  <2>14. WalkedTo(h, Append(p, k), r)
    BY <2>9, <2>11, <2>12, <2>13 DEF WalkedTo, Descends
  <2>. QED  BY <2>1, <2>10, <2>14
<1>7. N \in S
  <2>1. \A n \in 0 .. N : n \in S
    <3>. HIDE DEF S
    <3>. QED  BY <1>5, <1>6, InductionUpTo
  <2>. HIDE DEF S
  <2>. QED  BY <2>1
<1>. QED  BY <1>2, <1>4, <1>7

\* Stored of VariableTree, of any tree.
StoreOver(H, a, V) ==
  [q \in {u \in DOMAIN H : ~IsPrefix(a, u)} \cup {a \o r : r \in DOMAIN V} |->
     IF IsPrefix(a, q) THEN V[Rest(Len(a), q)] ELSE H[q]]
StoredTree(T, p, V) == StoreOver(GrownTree(T, p), p, V)

LEMMA PutGrown ==
  ASSUME NEW G, IsTree(G), NEW p \in DOMAIN G, NEW k \in Keys, NEW V, DOMAIN V \subseteq Path
  PROVE  PutTree(G, p, k, V) = StoreOver(GrowOne(G, p, k), Append(p, k), V)
<1>1. PICK a, H : a = Append(p, k) /\ H = GrowOne(G, p, k)
  OBVIOUS
<1>2. p \in Path /\ a \in Path /\ a # <<>>
  BY <1>1, PathStep DEF IsTree
<1>3. PutTree(G, p, k, V) =
        [q \in {u \in DOMAIN G : ~IsPrefix(a, u)} \cup {a \o r : r \in DOMAIN V} |->
           IF IsPrefix(a, q) THEN V[Rest(Len(a), q)]
           ELSE IF q = p /\ a \notin DOMAIN G
           THEN [scalar |-> G[q].scalar, keys |-> Append(G[q].keys, k)]
           ELSE G[q]]
  BY <1>1 DEF PutTree
<1>4. CASE a \in DOMAIN G
  BY <1>1, <1>3, <1>4 DEF GrowOne, StoreOver
<1>5. CASE a \notin DOMAIN G
  <2>1. a \o <<>> = a /\ IsPrefix(a, a)
    <3>1. <<>> \in Path
      BY DEF Path
    <3>2. IsPrefix(a, a \o <<>>) /\ a \o <<>> = a
      BY <1>2, <3>1, Extending
    <3>. QED  BY <3>2
  <2>2. H = PutTree(G, p, k, NullTree)
    BY <1>1, <1>5 DEF GrowOne
  <2>3. DOMAIN NullTree = {<<>>}
    BY DEF NullTree
  <2>4. DOMAIN H = {u \in DOMAIN G : ~IsPrefix(a, u)} \cup {a}
    <3>1. DOMAIN H = {u \in DOMAIN G : ~IsPrefix(a, u)} \cup {a \o r : r \in {<<>>}}
      BY <1>1, <2>2, <2>3 DEF PutTree
    <3>. QED  BY <2>1, <3>1
  <2>5. \A q \in DOMAIN H : ~IsPrefix(a, q) => H[q] =
          IF q = p THEN [scalar |-> G[q].scalar, keys |-> Append(G[q].keys, k)] ELSE G[q]
    BY <1>1, <1>5, <2>2 DEF PutTree
  <2>6. {u \in DOMAIN H : ~IsPrefix(a, u)} = {u \in DOMAIN G : ~IsPrefix(a, u)}
    BY <2>1, <2>4
  <2>7. StoreOver(H, a, V) =
          [q \in {u \in DOMAIN G : ~IsPrefix(a, u)} \cup {a \o r : r \in DOMAIN V} |->
             IF IsPrefix(a, q) THEN V[Rest(Len(a), q)] ELSE H[q]]
    BY <2>6 DEF StoreOver
  <2>8. PICK D : D = {u \in DOMAIN G : ~IsPrefix(a, u)} \cup {a \o r : r \in DOMAIN V}
    OBVIOUS
  <2>9. ASSUME NEW q \in D, ~IsPrefix(a, q) PROVE q \in DOMAIN H
    <3>1. CASE q \in DOMAIN G
      BY <2>4, <2>9, <3>1
    <3>2. ASSUME NEW r \in DOMAIN V, q = a \o r PROVE q \in DOMAIN H
      <4>1. r \in Path /\ a \in Path
        BY <1>2
      <4>2. IsPrefix(a, a \o r)
        BY <4>1, Extending
      <4>. QED  BY <2>9, <3>2, <4>2
    <3>. QED  BY <2>8, <3>1, <3>2
  <2>10. \A q \in D : ~IsPrefix(a, q) => H[q] =
           IF q = p THEN [scalar |-> G[q].scalar, keys |-> Append(G[q].keys, k)] ELSE G[q]
    BY <2>5, <2>9
  <2>. QED  BY <1>1, <1>3, <1>5, <2>7, <2>8, <2>10
<1>. QED  BY <1>4, <1>5

\* g is h with v's tree stored at the path, and nothing held elsewhere changed.
StoredAt(h, path, v, g) ==
  /\ Good(g) /\ DOMAIN h \subseteq DOMAIN g
  /\ \A e \in DOMAIN h : g[e].scalar = h[e].scalar
  /\ \A d \in DOMAIN h : d \notin Cells(h, v) /\ Apart(h, root, d) => Apart(g, root, d) /\ Kept(h, g, d)
  /\ \A u \in DOMAIN h : Alone(h, u) /\ u \notin Cells(h, v) => Alone(g, u)
  /\ Kept(h, g, v)
  /\ TreeOf(g, root) = StoredTree(TreeOf(h, root), path, TreeOf(h, v))

LEMMA StoreAtIs ==
  ASSUME NEW h, Good(h), root \in DOMAIN h, NEW path \in Path, path # <<>>,
         NEW v, Alone(h, v)
  PROVE  StoredAt(h, path, v, StoreAt(h, path, v))
<1>1. PICK p, k, w : p = Front(path) /\ k = Last(path) /\ w = walk_create(h, Front(path))
  OBVIOUS
<1>2. p \in Path /\ k \in Keys /\ path = Append(p, k)
  BY <1>1, PathEnds
<1>3. PICK g, f : g = StoreAt(h, path, v) /\ f = w.heap
  OBVIOUS
<1>4. g = set(f, w.at, k, v)
  BY <1>1, <1>3 DEF StoreAt
<1>5. WalkedTo(h, p, w)
  BY <1>1, <1>2, WalkIs
<1>6. /\ RootOnly(h, f) /\ p \in DOMAIN Layout(f, root) /\ Layout(f, root)[p] = w.at
      /\ TreeOf(f, root) = GrownTree(TreeOf(h, root), p)
  BY <1>3, <1>5 DEF WalkedTo
<1>7. /\ Good(f) /\ DOMAIN h \subseteq DOMAIN f
      /\ \A e \in DOMAIN h : f[e].scalar = h[e].scalar
      /\ \A d \in DOMAIN h : Apart(h, root, d) => Apart(f, root, d) /\ Kept(h, f, d)
      /\ \A u \in DOMAIN h : Alone(h, u) => Alone(f, u) /\ Kept(h, f, u)
  BY <1>6 DEF RootOnly
<1>8. v \in DOMAIN h /\ Alone(f, v) /\ Kept(h, f, v)
  BY <1>7 DEF Alone, Loose
<1>9. w.at \in Cells(f, root)
  BY <1>6 DEF Cells
<1>10. /\ StoresIn(f, v, g)
       /\ \A q \in DOMAIN Layout(f, root) :
            Layout(f, root)[q] = w.at => AttachesAt(f, w.at, k, v, g, root, q)
  <2>1. PICK c : c = w.at
    OBVIOUS
  <2>2. c \in Cells(f, root) /\ root \in DOMAIN f
    BY <1>7, <1>9, <2>1
  <2>3. /\ StoresIn(f, v, set(f, c, k, v))
        /\ \A q \in DOMAIN Layout(f, root) :
             Layout(f, root)[q] = c => AttachesAt(f, c, k, v, set(f, c, k, v), root, q)
    BY <1>2, <1>7, <1>8, <2>2, StoreIs
  <2>. QED  BY <1>4, <2>1, <2>3
<1>11. AttachesAt(f, w.at, k, v, g, root, p)
  BY <1>6, <1>10
<1>12. Cells(f, v) = Cells(h, v) /\ TreeOf(f, v) = TreeOf(h, v)
  BY <1>8, KeptIs
<1>13. TreeOf(g, root) = StoredTree(TreeOf(h, root), path, TreeOf(h, v))
  <2>1. PICK T, G, V : T = TreeOf(h, root) /\ G = GrownTree(T, p) /\ V = TreeOf(h, v)
    OBVIOUS
  <2>2. TreeOf(g, root) = PutTree(G, p, k, V)
    BY <1>6, <1>11, <1>12, <2>1 DEF AttachesAt
  <2>3. IsTree(T) /\ IsTree(V)
    BY <1>8, <2>1, TreeOfIs
  <2>4. IsTree(G) /\ p \in DOMAIN G
    BY <1>2, <2>1, <2>3, GrownIs
  <2>5. PutTree(G, p, k, V) = StoreOver(GrowOne(G, p, k), Append(p, k), V)
    <3>1. DOMAIN V \subseteq Path
      BY <2>3 DEF IsTree
    <3>. QED  BY <1>2, <2>4, <3>1, PutGrown
  <2>6. GrowOne(GrownTree(T, p), p, k) = GrownTree(T, Append(p, k))
    BY <1>2, <2>3, GrownStep
  <2>. QED  BY <1>2, <2>1, <2>2, <2>5, <2>6 DEF StoredTree
<1>14. /\ Good(g) /\ DOMAIN g = DOMAIN f
       /\ \A e \in DOMAIN f : g[e].scalar = f[e].scalar
       /\ \A d \in DOMAIN f : d \notin Cells(f, v) /\ Apart(f, root, d) => Apart(g, root, d) /\ Kept(f, g, d)
       /\ \A u \in DOMAIN f : Alone(f, u) /\ u \notin Cells(f, v) => Alone(g, u)
       /\ Kept(f, g, v)
  BY <1>10 DEF StoresIn
<1>15. \A d \in DOMAIN h : d \notin Cells(h, v) /\ Apart(h, root, d) => Apart(g, root, d) /\ Kept(h, g, d)
  BY <1>7, <1>12, <1>14, KeptOn
<1>16. \A u \in DOMAIN h : Alone(h, u) /\ u \notin Cells(h, v) => Alone(g, u)
  BY <1>7, <1>12, <1>14
<1>17. Kept(h, g, v)
  BY <1>8, <1>14, KeptOn
<1>18. \A e \in DOMAIN h : g[e].scalar = h[e].scalar
  BY <1>7, <1>14
<1>. QED  BY <1>3, <1>7, <1>13, <1>14, <1>15, <1>16, <1>17, <1>18 DEF StoredAt

-----------------------------------------------------------------------------
(* The copies a collector makes.                                            *)

\* Copies made of cells of h: trees with nothing in common, nor with h.
Copying(h) ==
  {s \in [heap : Heaps, got : Seq(Nat)] :
     /\ Good(s.heap) /\ Extends(h, s.heap) /\ s.got \in Seq(DOMAIN s.heap)
     /\ \A i \in 1 .. Len(s.got) : Cells(s.heap, s.got[i]) \cap DOMAIN h = {}
     /\ AllApart(s.heap, s.got)}
CopyOne(s, c) ==
  [heap |-> deep_copy(s.heap, c).heap, got |-> Append(s.got, deep_copy(s.heap, c).at)]

LEMMA CopyingIs ==
  ASSUME NEW h, NEW s, s = [heap |-> s.heap, got |-> s.got], Good(s.heap),
         Extends(h, s.heap), s.got \in Seq(DOMAIN s.heap),
         \A i \in 1 .. Len(s.got) : Cells(s.heap, s.got[i]) \cap DOMAIN h = {},
         AllApart(s.heap, s.got)
  PROVE  s \in Copying(h)
<1>1. PICK n \in Nat : DOMAIN s.heap = 0 .. n - 1 /\ s.heap \in [0 .. n - 1 -> Cell(0 .. n - 1)]
  BY HeapIs DEF Good
<1>2. s.heap \in Heaps
  BY <1>1 DEF Heaps
<1>3. s.got \in Seq(Nat)
  <2>1. DOMAIN s.heap \subseteq Nat
    BY <1>1
  <2>. QED  BY <2>1, SeqMonotonic
<1>4. s \in [heap : Heaps, got : Seq(Nat)]
  BY <1>2, <1>3
<1>. QED  BY <1>4 DEF Copying

LEMMA CopyOneIs ==
  ASSUME NEW h, NEW s \in Copying(h), NEW c \in DOMAIN h
  PROVE  CopyOne(s, c) \in Copying(h)
<1>1. PICK g, t : g = s.heap /\ t = s.got
  OBVIOUS
<1>2. /\ Good(g) /\ Extends(h, g) /\ t \in Seq(DOMAIN g)
      /\ \A i \in 1 .. Len(t) : Cells(g, t[i]) \cap DOMAIN h = {}
      /\ AllApart(g, t) /\ c \in DOMAIN g
  BY <1>1 DEF Copying, Extends
<1>3. PICK r : r = deep_copy(g, c)
  OBVIOUS
<1>4. PICK f, v : f = r.heap /\ v = r.at
  OBVIOUS
<1>5. Copies(g, c, r)
  BY <1>2, <1>3, CopyIs
<1>6. Good(f) /\ Extends(g, f) /\ v \in DOMAIN f /\ Cells(f, v) = DOMAIN f \ DOMAIN g
  BY <1>4, <1>5 DEF Copies, Fresh
<1>7. \A d \in DOMAIN g : Cells(f, d) = Cells(g, d) /\ Cells(g, d) \subseteq DOMAIN g
  <2>1. \A d \in DOMAIN g : Cells(f, d) = Cells(g, d)
    BY <1>2, <1>6, ExtendsLayout
  <2>2. \A d \in DOMAIN g : Cells(g, d) \subseteq DOMAIN g
    BY <1>2, CellsClosed
  <2>. QED  BY <2>1, <2>2
<1>8. PICK n \in Nat : n = Len(t)
  BY <1>2
<1>9. \A i \in 1 .. n : t[i] \in DOMAIN g
  BY <1>2, <1>8
<1>10. PICK u : u = Append(t, v)
  OBVIOUS
<1>11. /\ u \in Seq(DOMAIN f) /\ Len(u) = n + 1 /\ u[n + 1] = v
       /\ \A i \in 1 .. n : u[i] = t[i]
  <2>1. t \in Seq(DOMAIN f)
    BY <1>2, <1>6, SeqMonotonic DEF Extends
  <2>. QED  BY <1>6, <1>8, <1>10, <2>1
<1>12. \A i \in 1 .. n + 1 : i = n + 1 \/ i \in 1 .. n
  OBVIOUS
<1>13. Extends(h, f)
  BY <1>2, <1>6 DEF Extends
<1>14. ASSUME NEW i \in 1 .. n + 1 PROVE Cells(f, u[i]) \cap DOMAIN h = {}
  <2>1. CASE i = n + 1
    BY <1>2, <1>6, <1>11, <2>1 DEF Extends
  <2>2. CASE i \in 1 .. n
    BY <1>2, <1>7, <1>8, <1>9, <1>11, <2>2
  <2>. QED  BY <1>12, <2>1, <2>2
<1>15. ASSUME NEW i \in 1 .. n + 1, NEW j \in 1 .. n + 1, i # j
       PROVE  Cells(f, u[i]) \cap Cells(f, u[j]) = {}
  <2>1. CASE i \in 1 .. n /\ j \in 1 .. n
    BY <1>2, <1>7, <1>8, <1>9, <1>11, <1>15, <2>1 DEF AllApart
  <2>2. ASSUME NEW l \in 1 .. n PROVE Cells(f, u[l]) \cap Cells(f, v) = {}
    BY <1>6, <1>7, <1>9, <1>11
  <2>. QED  BY <1>11, <1>12, <1>15, <2>1, <2>2
<1>16. PICK s2 : s2 = CopyOne(s, c)
  OBVIOUS
<1>17. s2.heap = f /\ s2.got = u /\ s2 = [heap |-> s2.heap, got |-> s2.got]
  BY <1>1, <1>3, <1>4, <1>10, <1>16 DEF CopyOne
<1>18. AllApart(f, u)
  BY <1>11, <1>15 DEF AllApart
<1>19. s2 \in Copying(h)
  <2>1. /\ Good(s2.heap) /\ Extends(h, s2.heap) /\ s2.got \in Seq(DOMAIN s2.heap)
        /\ AllApart(s2.heap, s2.got)
    BY <1>6, <1>11, <1>13, <1>17, <1>18
  <2>2. \A i \in 1 .. Len(s2.got) : Cells(s2.heap, s2.got[i]) \cap DOMAIN h = {}
    BY <1>11, <1>14, <1>17
  <2>. QED  BY <1>17, <2>1, <2>2, CopyingIs
<1>. QED  BY <1>16, <1>19

LEMMA CopyEachIs ==
  ASSUME NEW h, Good(h), NEW cells \in Seq(DOMAIN h)
  PROVE  CopyEach(h, cells) \in Copying(h)
<1>. DEFINE D == DOMAIN cells
            T == Copying(h)
            start == [heap |-> h, got |-> <<>>]
            Is(f) == f = [s \in SUBSET D |->
                            IF s = {} THEN start
                            ELSE CopyOne(f[s \ {Max(s)}], cells[Max(s)])]
            it == CHOOSE f : Is(f)
<1>0. PICK N \in Nat : N = Len(cells)
  OBVIOUS
<1>. PICK step : step = [p \in T \X (1 .. N) |-> CopyOne(p[1], cells[p[2]])]
  OBVIOUS
<1>1. CopyEach(h, cells) = it[D]
  BY DEF CopyEach, CopyOne, FoldLeft, MapThenFoldSet
<1>2. D = 1 .. N /\ start \in T /\ \A n \in 1 .. N : cells[n] \in DOMAIN h
  <2>1. start \in T
    <3>1. start.heap = h /\ start.got = <<>> /\ start = [heap |-> start.heap, got |-> start.got]
          /\ Extends(h, h)
      BY DEF Extends
    <3>2. Len(<<>>) = 0 /\ <<>> \in Seq(DOMAIN h)
      OBVIOUS
    <3>3. AllApart(h, <<>>)
      BY <3>2 DEF AllApart
    <3>. HIDE DEF start
    <3>4. \A i \in 1 .. Len(start.got) : Cells(start.heap, start.got[i]) \cap DOMAIN h = {}
      BY <3>1, <3>2
    <3>5. /\ Good(start.heap) /\ Extends(h, start.heap) /\ start.got \in Seq(DOMAIN start.heap)
          /\ AllApart(start.heap, start.got)
      BY <3>1, <3>2, <3>3
    <3>. QED  BY <3>1, <3>4, <3>5, CopyingIs
  <2>. QED  BY <1>0, <2>1
<1>. HIDE DEF T, start
<1>3. \A q \in T, n \in 1 .. N :
        step[<<q, n>>] = CopyOne(q, cells[n]) /\ step[<<q, n>>] \in T
  <2>1. \A q \in T, n \in 1 .. N : CopyOne(q, cells[n]) \in T
    BY <1>2, CopyOneIs DEF T
  <2>. QED  BY <2>1
<1>4. IsStep(step, N, T)
  <2>1. ASSUME NEW p \in T \X (1 .. N) PROVE step[p] \in T
    <3>1. p = <<p[1], p[2]>> /\ p[1] \in T /\ p[2] \in 1 .. N
      OBVIOUS
    <3>. QED  BY <1>3, <3>1
  <2>2. step = [p \in T \X (1 .. N) |-> step[p]]
    OBVIOUS
  <2>. QED  BY <2>1, <2>2 DEF IsStep
<1>5. \A s \in SUBSET (1 .. N) : s # {} => Max(s) \in 1 .. N /\ s \ {Max(s)} \in SUBSET (1 .. N)
  BY MaxIs
<1>6. PICK g : IsFold(g, N, T, start, step)
  BY <1>2, <1>4, FoldExists
<1>7. \A s \in SUBSET (1 .. N) :
        g[s] = IF s = {} THEN start ELSE CopyOne(g[s \ {Max(s)}], cells[Max(s)])
  <2>1. ASSUME NEW s \in SUBSET (1 .. N), s # {}
        PROVE  g[s] = CopyOne(g[s \ {Max(s)}], cells[Max(s)])
    <3>1. g[s] = step[<<g[s \ {Max(s)}], Max(s)>>]
      BY <1>6, <2>1 DEF IsFold
    <3>2. g[s \ {Max(s)}] \in T /\ Max(s) \in 1 .. N
      BY <1>5, <1>6, <2>1 DEF IsFold
    <3>. QED  BY <1>3, <3>1, <3>2
  <2>2. g[{}] = start
    BY <1>6 DEF IsFold
  <2>. QED  BY <2>1, <2>2
<1>8. Is(g)
  BY <1>2, <1>6, <1>7 DEF IsFold
<1>9. Is(it)
  <2>. HIDE DEF Is
  <2>. QED  BY <1>8
<1>10. Recurs(it, N, T, start, step)
  <2>1. \A s \in SUBSET (1 .. N) :
          it[s] = IF s = {} THEN start ELSE CopyOne(it[s \ {Max(s)}], cells[Max(s)])
    <3>. HIDE DEF it
    <3>. QED  BY <1>2, <1>9
  <2>. HIDE DEF it
  <2>. QED  BY <2>1, <1>3, <1>5 DEF Recurs
<1>. HIDE DEF it
<1>11. PICK run : IsRun(run, N, T, start, step) /\ it[1 .. N] = run[N]
  BY <1>2, <1>4, <1>10, FoldRuns
<1>12. run[N] \in T
  BY <1>11 DEF IsRun
<1>. QED  BY <1>1, <1>2, <1>11, <1>12 DEF T

-----------------------------------------------------------------------------
(* The cells in use, and the heap a step leaves.                            *)

\* The operations that may wait, and what is so of each: a target leaves room for
\* its keys within the depth limit, and an index, a TAKE or a DROP has its object.
Kinds == {"=", "+=", "index", "TAKE", "DROP", "LIST", "comma"}
Ops(D) ==
  {op \in [kind : Kinds, path : Path, left : Nat, got : Seq(D)] :
     /\ Assigns(op) => op.path # <<>> /\ Len(op.path) + op.left <= MaxDepth
     /\ op.kind \in {"index", "TAKE", "DROP"} => op.got # <<>>}

Joined(cells, op) == cells \o op.got
Gathered(p) == FoldLeft(Joined, <<root>>, p)
FromRoot(D) == {t \in Seq(D) : Len(t) >= 1 /\ t[1] = root}

LEMMA JoinedIs ==
  ASSUME NEW D, NEW t \in FromRoot(D), NEW op \in Ops(D)
  PROVE  /\ Joined(t, op) \in FromRoot(D)
         /\ \A i \in 1 .. Len(t) : \E j \in 1 .. Len(Joined(t, op)) : Joined(t, op)[j] = t[i]
         /\ \A i \in 1 .. Len(op.got) :
              \E j \in 1 .. Len(Joined(t, op)) : Joined(t, op)[j] = op.got[i]
<1>1. PICK u : u = op.got
  OBVIOUS
<1>2. t \in Seq(D) /\ u \in Seq(D) /\ Len(t) \in Nat /\ Len(u) \in Nat /\ Len(t) >= 1 /\ t[1] = root
  BY <1>1 DEF Ops, FromRoot
<1>3. PICK w : w = t \o u
  OBVIOUS
<1>4. /\ w \in Seq(D) /\ Len(w) = Len(t) + Len(u)
      /\ \A i \in 1 .. Len(t) : w[i] = t[i]
      /\ \A i \in 1 .. Len(u) : w[Len(t) + i] = u[i]
  BY <1>2, <1>3
<1>5. w \in FromRoot(D)
  BY <1>2, <1>4 DEF FromRoot
<1>6. \A i \in 1 .. Len(t) : i \in 1 .. Len(w)
  BY <1>2, <1>4
<1>7. \A i \in 1 .. Len(u) : Len(t) + i \in 1 .. Len(w)
  BY <1>2, <1>4
<1>. QED  BY <1>1, <1>3, <1>4, <1>5, <1>6, <1>7 DEF Joined

GatheredRun(run, D, ops, N) ==
  /\ run \in [0 .. N -> FromRoot(D)] /\ run[0] = <<root>>
  /\ \A n \in 1 .. N : run[n] = Joined(run[n - 1], ops[n])

LEMMA GatheredRuns ==
  ASSUME NEW D, root \in D, NEW ops \in Seq(Ops(D)), NEW N \in Nat, N = Len(ops)
  PROVE  \E run : GatheredRun(run, D, ops, N) /\ Gathered(ops) = run[N]
<1>. DEFINE Dom == DOMAIN ops
            T == FromRoot(D)
            start == <<root>>
            Is(f) == f = [s \in SUBSET Dom |->
                            IF s = {} THEN start
                            ELSE Joined(f[s \ {Max(s)}], ops[Max(s)])]
            it == CHOOSE f : Is(f)
<1>. PICK step : step = [p \in T \X (1 .. N) |-> Joined(p[1], ops[p[2]])]
  OBVIOUS
<1>1. Gathered(ops) = it[Dom]
  BY DEF Gathered, Joined, FoldLeft, MapThenFoldSet
<1>2. Dom = 1 .. N /\ start \in T /\ \A n \in 1 .. N : ops[n] \in Ops(D)
  <2>1. <<root>> \in Seq(D) /\ Len(<<root>>) = 1 /\ <<root>>[1] = root
    OBVIOUS
  <2>. QED  BY <2>1 DEF FromRoot
<1>. HIDE DEF T, start
<1>3. \A q \in T, n \in 1 .. N :
        step[<<q, n>>] = Joined(q, ops[n]) /\ step[<<q, n>>] \in T
  <2>1. \A q \in T, n \in 1 .. N : Joined(q, ops[n]) \in T
    BY <1>2, JoinedIs DEF T
  <2>. QED  BY <2>1
<1>4. IsStep(step, N, T)
  <2>1. ASSUME NEW p \in T \X (1 .. N) PROVE step[p] \in T
    <3>1. p = <<p[1], p[2]>> /\ p[1] \in T /\ p[2] \in 1 .. N
      OBVIOUS
    <3>. QED  BY <1>3, <3>1
  <2>2. step = [p \in T \X (1 .. N) |-> step[p]]
    OBVIOUS
  <2>. QED  BY <2>1, <2>2 DEF IsStep
<1>5. \A s \in SUBSET (1 .. N) : s # {} => Max(s) \in 1 .. N /\ s \ {Max(s)} \in SUBSET (1 .. N)
  BY MaxIs
<1>6. PICK g : IsFold(g, N, T, start, step)
  BY <1>2, <1>4, FoldExists
<1>7. \A s \in SUBSET (1 .. N) :
        g[s] = IF s = {} THEN start ELSE Joined(g[s \ {Max(s)}], ops[Max(s)])
  <2>1. ASSUME NEW s \in SUBSET (1 .. N), s # {}
        PROVE  g[s] = Joined(g[s \ {Max(s)}], ops[Max(s)])
    <3>1. g[s] = step[<<g[s \ {Max(s)}], Max(s)>>]
      BY <1>6, <2>1 DEF IsFold
    <3>2. g[s \ {Max(s)}] \in T /\ Max(s) \in 1 .. N
      BY <1>5, <1>6, <2>1 DEF IsFold
    <3>. QED  BY <1>3, <3>1, <3>2
  <2>2. g[{}] = start
    BY <1>6 DEF IsFold
  <2>. QED  BY <2>1, <2>2
<1>8. Is(g)
  BY <1>2, <1>6, <1>7 DEF IsFold
<1>9. Is(it)
  <2>. HIDE DEF Is
  <2>. QED  BY <1>8
<1>10. Recurs(it, N, T, start, step)
  <2>1. \A s \in SUBSET (1 .. N) :
          it[s] = IF s = {} THEN start ELSE Joined(it[s \ {Max(s)}], ops[Max(s)])
    <3>. HIDE DEF it
    <3>. QED  BY <1>2, <1>9
  <2>. HIDE DEF it
  <2>. QED  BY <2>1, <1>3, <1>5 DEF Recurs
<1>. HIDE DEF it
<1>11. PICK run : IsRun(run, N, T, start, step) /\ it[1 .. N] = run[N]
  BY <1>2, <1>4, <1>10, FoldRuns
<1>12. \A n \in 1 .. N : n - 1 \in 0 .. N
  OBVIOUS
<1>13. /\ run \in [0 .. N -> T] /\ run[0] = start
       /\ \A n \in 1 .. N : run[n] = Joined(run[n - 1], ops[n])
  BY <1>3, <1>11, <1>12 DEF IsRun
<1>14. GatheredRun(run, D, ops, N)
  BY <1>13 DEF GatheredRun, T, start
<1>. QED  BY <1>1, <1>2, <1>11, <1>14

\* t lists the root and every cell that p holds.
Holds(D, p, t) ==
  /\ t \in Seq(D) /\ Len(t) >= 1 /\ t[1] = root
  /\ \A i \in 1 .. Len(p) : \A j \in 1 .. Len(p[i].got) : \E l \in 1 .. Len(t) : t[l] = p[i].got[j]

LEMMA GatheredIs ==
  ASSUME NEW D, root \in D, NEW ops \in Seq(Ops(D))
  PROVE  Holds(D, ops, Gathered(ops))
<1>1. PICK N \in Nat : N = Len(ops)
  OBVIOUS
<1>0. PICK run : GatheredRun(run, D, ops, N) /\ Gathered(ops) = run[N]
  BY <1>1, GatheredRuns
<1>2. /\ run \in [0 .. N -> FromRoot(D)] /\ run[0] = <<root>>
      /\ \A n \in 1 .. N : run[n] = Joined(run[n - 1], ops[n])
      /\ Gathered(ops) = run[N]
  BY <1>0 DEF GatheredRun
<1>. DEFINE Has(n, x) == \E l \in 1 .. Len(run[n]) : run[n][l] = x
            S == {n \in 0 .. N : \A i \in 1 .. n : \A j \in 1 .. Len(ops[i].got) : Has(n, ops[i].got[j])}
<1>3. 0 \in S
  OBVIOUS
<1>4. ASSUME NEW n \in 0 .. N - 1, n \in S PROVE n + 1 \in S
  <2>1. n + 1 \in 1 .. N /\ n + 1 \in 0 .. N /\ (n + 1) - 1 = n /\ n \in 0 .. N
    OBVIOUS
  <2>2. PICK t, op : t = run[n] /\ op = ops[n + 1]
    OBVIOUS
  <2>3. t \in FromRoot(D) /\ op \in Ops(D) /\ run[n + 1] = Joined(t, op)
    BY <1>1, <1>2, <2>1, <2>2
  <2>4. /\ \A i \in 1 .. Len(t) : \E j \in 1 .. Len(Joined(t, op)) : Joined(t, op)[j] = t[i]
        /\ \A i \in 1 .. Len(op.got) :
             \E j \in 1 .. Len(Joined(t, op)) : Joined(t, op)[j] = op.got[i]
    BY <2>3, JoinedIs
  <2>5. \A x : Has(n, x) => Has(n + 1, x)
    <3>1. ASSUME NEW x, NEW l \in 1 .. Len(t), t[l] = x PROVE Has(n + 1, x)
      <4>1. PICK j \in 1 .. Len(Joined(t, op)) : Joined(t, op)[j] = t[l]
        BY <2>4
      <4>. QED  BY <2>3, <3>1, <4>1
    <3>2. \A x : Has(n, x) => \E l \in 1 .. Len(t) : t[l] = x
      BY <2>2
    <3>. QED  BY <3>1, <3>2
  <2>6. \A i \in 1 .. Len(ops[n + 1].got) : Has(n + 1, ops[n + 1].got[i])
    BY <2>2, <2>3, <2>4
  <2>7. ASSUME NEW i \in 1 .. n + 1, NEW j \in 1 .. Len(ops[i].got)
        PROVE  Has(n + 1, ops[i].got[j])
    <3>. HIDE DEF Has
    <3>1. CASE i = n + 1
      BY <2>6, <3>1
    <3>2. CASE i # n + 1
      <4>1. i \in 1 .. n
        BY <3>2
      <4>. QED  BY <1>4, <2>5, <4>1
    <3>. QED  BY <3>1, <3>2
  <2>. QED  BY <2>1, <2>7
<1>5. N \in S
  <2>1. \A n \in 0 .. N : n \in S
    <3>. HIDE DEF S
    <3>. QED  BY <1>3, <1>4, InductionUpTo
  <2>. HIDE DEF S
  <2>. QED  BY <2>1
<1>6. run[N] \in FromRoot(D)
  BY <1>2
<1>7. \A i \in 1 .. Len(ops) : \A j \in 1 .. Len(ops[i].got) :
        \E l \in 1 .. Len(run[N]) : run[N][l] = ops[i].got[j]
  BY <1>1, <1>5
<1>. QED  BY <1>2, <1>6, <1>7 DEF Holds, FromRoot

LEMMA HeldIs ==
  ASSUME NEW D, root \in D, NEW ops \in Seq(Ops(D)), NEW r, IsCell(r) => r \in D
  PROVE  /\ Holds(D, ops, Held(ops, r))
         /\ IsCell(r) => \E l \in 1 .. Len(Held(ops, r)) : Held(ops, r)[l] = r
<1>1. PICK t : t = Gathered(ops)
  OBVIOUS
<1>2. Holds(D, ops, t)
  BY <1>1, GatheredIs
<1>3. Held(ops, r) = t \o IF IsCell(r) THEN <<r>> ELSE <<>>
  BY <1>1 DEF Held, Gathered, Joined
<1>4. t \in Seq(D) /\ Len(t) \in Nat
  BY <1>2 DEF Holds
<1>5. CASE ~IsCell(r)
  <2>1. Held(ops, r) = t
    BY <1>3, <1>4, <1>5
  <2>. QED  BY <1>2, <1>5, <2>1
<1>6. CASE IsCell(r)
  <2>1. PICK w : w = Append(t, r)
    OBVIOUS
  <2>2. Held(ops, r) = w
    BY <1>3, <1>4, <1>6, <2>1
  <2>3. w \in Seq(D) /\ Len(w) = Len(t) + 1 /\ w[Len(t) + 1] = r /\ \A i \in 1 .. Len(t) : w[i] = t[i]
    BY <1>4, <1>6, <2>1
  <2>4. Len(t) + 1 \in 1 .. Len(w) /\ \A i \in 1 .. Len(t) : i \in 1 .. Len(w)
    BY <1>4, <2>3
  <2>5. Holds(D, ops, w)
    <3>1. Len(w) >= 1 /\ w[1] = root
      BY <1>2, <1>4, <2>3 DEF Holds
    <3>2. \A i \in 1 .. Len(ops) : \A j \in 1 .. Len(ops[i].got) :
            \E l \in 1 .. Len(w) : w[l] = ops[i].got[j]
      <4>1. ASSUME NEW i \in 1 .. Len(ops), NEW j \in 1 .. Len(ops[i].got)
            PROVE  \E l \in 1 .. Len(w) : w[l] = ops[i].got[j]
        <5>1. PICK l \in 1 .. Len(t) : t[l] = ops[i].got[j]
          BY <1>2, <4>1 DEF Holds
        <5>. QED  BY <2>3, <2>4, <5>1
      <4>. QED  BY <4>1
    <3>. QED  BY <2>3, <3>1, <3>2 DEF Holds
  <2>. QED  BY <2>2, <2>3, <2>4, <2>5
<1>. QED  BY <1>5, <1>6

LEMMA MeetFirst ==
  ASSUME NEW C, NEW cells \in Seq(C), Len(cells) >= 1
  PROVE  /\ Len(Meet(<<>>, cells)) >= 1 /\ Meet(<<>>, cells)[1] = cells[1]
<1>1. PICK N \in Nat : N = Len(cells)
  OBVIOUS
<1>2. <<>> \in Once(C)
  <2>1. <<>> \in Seq(C) /\ Len(<<>>) = 0
    OBVIOUS
  <2>. QED  BY <2>1 DEF Once
<1>3. PICK run : /\ run \in [0 .. N -> Once(C)] /\ run[0] = <<>>
                 /\ \A n \in 1 .. N : run[n] = MeetOne(run[n - 1], cells[n])
                 /\ Meet(<<>>, cells) = run[N]
  BY <1>1, <1>2, MeetRuns
<1>. DEFINE S == {n \in 0 .. N : n = 0 \/ (Len(run[n]) >= 1 /\ run[n][1] = cells[1])}
<1>4. 0 \in S
  OBVIOUS
<1>5. ASSUME NEW n \in 0 .. N - 1, n \in S PROVE n + 1 \in S
  <2>1. n + 1 \in 1 .. N /\ n + 1 \in 0 .. N /\ (n + 1) - 1 = n /\ n \in 0 .. N
    OBVIOUS
  <2>2. PICK t, c : t = run[n] /\ c = cells[n + 1]
    OBVIOUS
  <2>3. t \in Once(C) /\ c \in C /\ run[n + 1] = MeetOne(t, c)
    BY <1>1, <1>3, <2>1, <2>2
  <2>4. CASE n = 0
    <3>1. t = <<>> /\ c = cells[1]
      BY <1>3, <2>2, <2>4
    <3>2. MeetOne(t, c) = <<c>>
      <4>1. Range(<<>>) = {}
        BY DEF Range
      <4>. QED  BY <3>1, <4>1 DEF MeetOne
    <3>3. Len(run[n + 1]) >= 1 /\ run[n + 1][1] = cells[1]
      BY <2>3, <3>1, <3>2
    <3>. QED  BY <2>1, <3>3
  <2>5. CASE n # 0
    <3>1. Len(t) >= 1 /\ t[1] = cells[1] /\ Len(t) \in Nat
      BY <1>5, <2>2, <2>3, <2>5 DEF Once
    <3>2. Len(t) <= Len(MeetOne(t, c)) /\ \A i \in 1 .. Len(t) : MeetOne(t, c)[i] = t[i]
      BY <2>3, MeetOneIs
    <3>3. Len(MeetOne(t, c)) \in Nat
      BY <2>3, MeetOneIs DEF Once
    <3>4. Len(run[n + 1]) >= 1 /\ run[n + 1][1] = cells[1]
      BY <2>3, <3>1, <3>2, <3>3
    <3>. QED  BY <2>1, <3>4
  <2>. QED  BY <2>4, <2>5
<1>6. N \in S
  <2>1. \A n \in 0 .. N : n \in S
    <3>. HIDE DEF S
    <3>. QED  BY <1>4, <1>5, InductionUpTo
  <2>. HIDE DEF S
  <2>. QED  BY <2>1
<1>. QED  BY <1>1, <1>3, <1>6

LEMMA ReachedFirst ==
  ASSUME NEW h, IsHeap(h), NEW cells \in Seq(DOMAIN h), Len(cells) >= 1
  PROVE  Len(Reached(h, cells)) >= 1 /\ Reached(h, cells)[1] = cells[1]
<1>1. PICK f : /\ f \in [Nat -> Once(DOMAIN h)] /\ f[0] = Meet(<<>>, cells)
               /\ \A n \in Nat \ {0} : f[n] = MetStep(h, f[n - 1], n)
               /\ Reached(h, cells) = f[Cardinality(DOMAIN h)]
  BY ReachedRuns
<1>. DEFINE S == {n \in Nat : Len(f[n]) >= 1 /\ f[n][1] = cells[1]}
<1>2. 0 \in S
  BY <1>1, MeetFirst
<1>3. ASSUME NEW n \in Nat, n \in S PROVE n + 1 \in S
  <2>1. n + 1 \in Nat \ {0} /\ (n + 1) - 1 = n
    OBVIOUS
  <2>2. PICK t, m : t = f[n] /\ m = n + 1
    OBVIOUS
  <2>3. t \in Once(DOMAIN h) /\ m \in Nat \ {0} /\ f[n + 1] = MetStep(h, t, m)
    BY <1>1, <2>1, <2>2
  <2>4. /\ MetStep(h, t, m) \in Once(DOMAIN h) /\ Len(t) <= Len(MetStep(h, t, m))
        /\ \A i \in 1 .. Len(t) : MetStep(h, t, m)[i] = t[i]
    BY <2>3, MetStepIs
  <2>5. Len(t) \in Nat /\ Len(MetStep(h, t, m)) \in Nat /\ Len(t) >= 1 /\ t[1] = cells[1]
    BY <1>3, <2>2, <2>3, <2>4 DEF Once
  <2>. QED  BY <2>3, <2>4, <2>5
<1>4. \A n \in Nat : n \in S
  <2>. HIDE DEF S
  <2>. QED  BY <1>2, <1>3, Induction
<1>5. PICK m \in Nat : m = Cardinality(DOMAIN h)
  BY HeapIs
<1>6. m \in S
  BY <1>4
<1>. QED  BY <1>1, <1>5, <1>6

LEMMA RenamedGood ==
  ASSUME NEW h, Good(h), NEW g, IsHeap(g), NEW S, NEW name, Renames(h, g, S, name),
         \A e \in DOMAIN g : \E c \in S : e = name[c]
  PROVE  Good(g)
<1>1. KeysDiffer(g)
  <2>1. ASSUME NEW e \in DOMAIN g, NEW i \in DOMAIN g[e].kids, NEW j \in DOMAIN g[e].kids,
               g[e].kids[i].key = g[e].kids[j].key
        PROVE  i = j
    <3>1. PICK c \in S : e = name[c]
      OBVIOUS
    <3>. QED  BY <2>1, <3>1 DEF Good, KeysDiffer, Renames
  <2>. QED  BY <2>1 DEF KeysDiffer
<1>2. ASSUME NEW e \in DOMAIN g PROVE \E L : Lays(g, e, L)
  <2>1. PICK c \in S : e = name[c]
    OBVIOUS
  <2>2. Lays(h, c, Layout(h, c))
    BY LayoutLays DEF Renames
  <2>. QED  BY <2>1, <2>2, RenamedLays
<1>. QED  BY <1>1, <1>2 DEF Good

\* What a step leaves of h, p and r when name gives the cells in S their addresses.
Named(name, got) == [j \in DOMAIN got |-> name[got[j]]]
Left(h, p, r, S, name) ==
  /\ Renames(h, heap', S, name) /\ Good(heap')
  /\ root \in S /\ name[root] = root
  /\ \A i \in 1 .. Len(p) : \A j \in 1 .. Len(p[i].got) : p[i].got[j] \in S
  /\ IsCell(r) => r \in S
  /\ pending' = [i \in DOMAIN p |-> [p[i] EXCEPT !.got = Named(name, @)]]
  /\ result' = IF IsCell(r) THEN name[r] ELSE r

Leavable(h, p, r) ==
  /\ Good(h) /\ root \in DOMAIN h /\ p \in Seq(Ops(DOMAIN h))
  /\ IsCell(r) => r \in DOMAIN h

LEMMA LeaveIs ==
  ASSUME NEW h, NEW p, NEW r, Leavable(h, p, r), Leave(h, p, r)
  PROVE  \E S, name : Left(h, p, r, S, name)
<1>. USE DEF Leavable
<1>1. PICK t : t = Held(p, r)
  OBVIOUS
<1>3. Holds(DOMAIN h, p, t)
  BY <1>1, HeldIs
<1>4. t \in Seq(DOMAIN h) /\ Len(t) >= 1 /\ t[1] = root /\ Len(t) \in Nat /\ IsHeap(h)
  BY <1>3 DEF Holds, Good
<1>5. PICK live : live = Reached(h, t)
  OBVIOUS
<1>6. PICK S, name : S = Range(live) /\ name = Addresses(live, 0)
  OBVIOUS
<1>7. /\ live \in Once(DOMAIN h) /\ Range(t) \subseteq S /\ Closed(h, S)
      /\ Len(live) >= 1 /\ live[1] = root
  BY <1>4, <1>5, <1>6, ReachedIs, ReachedFirst DEF Closed
<1>8. \A l \in 1 .. Len(t) : t[l] \in S
  BY <1>4, <1>7, RangeIs
<1>9. PICK g : g = heap'
  OBVIOUS
<1>10. /\ g = Moved(h, live, 0)
       /\ pending' = [i \in DOMAIN p |-> [p[i] EXCEPT !.got = Named(name, @)]]
       /\ result' = IF IsCell(r) THEN name[r] ELSE r
  BY <1>1, <1>5, <1>6, <1>9 DEF Leave, Named
<1>11. PICK N \in Nat : N = Len(live)
  BY <1>7 DEF Once
<1>12. DOMAIN g = 0 .. N - 1
  <2>1. IsMoved(Moved(h, live, 0), h, live, 0, Addresses(live, 0))
    BY <1>11, MovedIs
  <2>2. 0 + N - 1 = N - 1
    OBVIOUS
  <2>. QED  BY <1>10, <1>11, <2>1, <2>2 DEF IsMoved
<1>13. /\ Renames(h, g, S, name)
       /\ \A e \in DOMAIN g : g[e] \in Cell(0 .. N - 1) /\ \E c \in S : e = name[c]
  <2>1. Closed(h, Range(live)) /\ Extends(Moved(h, live, 0), g)
    BY <1>6, <1>7, <1>10 DEF Extends
  <2>2. /\ Renames(h, g, Range(live), Addresses(live, 0))
        /\ Fills(g, Range(live), Addresses(live, 0), 0 .. 0 + N - 1)
    BY <1>4, <1>7, <1>11, <2>1, MovedRenames
  <2>3. 0 .. 0 + N - 1 = 0 .. N - 1
    OBVIOUS
  <2>. QED  BY <1>6, <1>12, <2>2, <2>3 DEF Fills
<1>14. IsHeap(g)
  <2>1. g = [e \in DOMAIN g |-> g[e]]
    BY <1>10 DEF Moved
  <2>2. g \in [0 .. N - 1 -> Cell(0 .. N - 1)]
    BY <1>12, <1>13, <2>1
  <2>. QED  BY <2>2 DEF IsHeap
<1>15. Good(g)
  BY <1>13, <1>14, RenamedGood
<1>16. root \in S /\ name[root] = root
  <2>1. Numbers(name, live, 0)
    BY <1>6, <1>7, AddressesAre
  <2>2. 1 \in 1 .. Len(live) /\ 0 + 1 - 1 = root
    BY <1>7, <1>11 DEF root
  <2>3. name[live[1]] = 0 + 1 - 1
    BY <2>1, <2>2 DEF Numbers
  <2>4. root \in S
    BY <1>4, <1>8
  <2>. QED  BY <1>7, <2>2, <2>3, <2>4
<1>17. \A i \in 1 .. Len(p) : \A j \in 1 .. Len(p[i].got) : p[i].got[j] \in S
  BY <1>3, <1>8 DEF Holds
<1>18. IsCell(r) => r \in S
  <2>1. IsCell(r) => \E l \in 1 .. Len(t) : t[l] = r
    BY <1>1, HeldIs
  <2>. QED  BY <1>8, <2>1
<1>19. Left(h, p, r, S, name)
  BY <1>9, <1>10, <1>13, <1>15, <1>16, <1>17, <1>18 DEF Left
<1>. QED  BY <1>19

-----------------------------------------------------------------------------
(* What every state keeps.                                                   *)

Collects(p, i) == i \in 1 .. Len(p) /\ p[i].kind = "comma"
\* What a comma has collected shares nothing with the variables, nor with
\* anything else that is collected.
OwnedApart(h, p) ==
  /\ \A i \in 1 .. Len(p) : Collects(p, i) =>
       \A j \in 1 .. Len(p[i].got) : Apart(h, root, p[i].got[j])
  /\ \A i, k \in 1 .. Len(p) : Collects(p, i) /\ Collects(p, k) =>
       \A j \in 1 .. Len(p[i].got), l \in 1 .. Len(p[k].got) :
         i # k \/ j # l => Apart(h, p[i].got[j], p[k].got[l])
Within(h, c, n) == \A q \in DOMAIN Layout(h, c) : Len(q) <= n
Fits(h, p, r) == Leavable(h, p, r) /\ OwnedApart(h, p) /\ Within(h, root, MaxDepth)

LEMMA RenamedTree ==
  ASSUME NEW h, Good(h), NEW g, NEW S, NEW name, Renames(h, g, S, name), NEW c \in S
  PROVE  /\ DOMAIN Layout(g, name[c]) = DOMAIN Layout(h, c)
         /\ TreeOf(g, name[c]) = TreeOf(h, c)
         /\ Cells(h, c) \subseteq S
         /\ \A e \in Cells(g, name[c]) : \E d \in Cells(h, c) : e = name[d]
         /\ g[name[c]].scalar = h[c].scalar /\ name[c] \in DOMAIN g
<1>1. PICK L : L = Layout(h, c)
  OBVIOUS
<1>2. Lays(h, c, L)
  BY <1>1, LayoutLays DEF Renames
<1>3. PICK M : M = [p \in DOMAIN L |-> name[L[p]]]
  OBVIOUS
<1>4. Lays(g, name[c], M) /\ \A p \in DOMAIN L : L[p] \in S
  BY <1>2, <1>3, RenamedLays
<1>5. M = Layout(g, name[c])
  BY <1>4, LaysOnce
<1>6. \A p \in DOMAIN L : Node(g, M[p]) = Node(h, L[p])
  BY <1>3, <1>4, RenamedKids
<1>7. TreeOf(g, name[c]) = TreeOf(h, c)
  BY <1>1, <1>3, <1>5, <1>6 DEF TreeOf
<1>8. Cells(h, c) \subseteq S /\ \A p \in DOMAIN L : L[p] \in Cells(h, c)
  BY <1>1, <1>4 DEF Cells
<1>9. \A e \in Cells(g, name[c]) : \E d \in Cells(h, c) : e = name[d]
  BY <1>3, <1>5, <1>8 DEF Cells
<1>10. g[name[c]].scalar = h[c].scalar /\ name[c] \in DOMAIN g
  BY DEF Renames
<1>. QED  BY <1>1, <1>3, <1>5, <1>7, <1>8, <1>9, <1>10

LEMMA RenamedApart ==
  ASSUME NEW h, Good(h), NEW g, NEW S, NEW name, Renames(h, g, S, name),
         NEW c \in S, NEW d \in S, Apart(h, c, d)
  PROVE  Apart(g, name[c], name[d])
<1>1. Cells(h, c) \subseteq S /\ \A e \in Cells(g, name[c]) : \E f \in Cells(h, c) : e = name[f]
  BY RenamedTree
<1>2. Cells(h, d) \subseteq S /\ \A e \in Cells(g, name[d]) : \E f \in Cells(h, d) : e = name[f]
  BY RenamedTree
<1>3. \A e, f \in S : name[e] = name[f] => e = f
  BY DEF Renames
<1>. QED  BY <1>1, <1>2, <1>3 DEF Apart

\* op is the operation was, its cells renamed.
OpLeft(op, D, was, name) ==
  /\ op \in Ops(D) /\ op.kind = was.kind /\ op.path = was.path /\ op.left = was.left
  /\ Len(op.got) = Len(was.got)
  /\ \A j \in 1 .. Len(was.got) : op.got[j] = name[was.got[j]]

LEMMA NamedOp ==
  ASSUME NEW C, NEW op \in Ops(C), NEW D, NEW name,
         \A j \in 1 .. Len(op.got) : name[op.got[j]] \in D
  PROVE  OpLeft([op EXCEPT !.got = Named(name, @)], D, op, name)
<1>1. PICK got, n : got = op.got /\ n = Len(op.got)
  OBVIOUS
<1>2. /\ op = [kind |-> op.kind, path |-> op.path, left |-> op.left, got |-> got]
      /\ op.kind \in Kinds /\ op.path \in Path /\ op.left \in Nat /\ got \in Seq(C)
      /\ Assigns(op) => op.path # <<>> /\ Len(op.path) + op.left <= MaxDepth
      /\ op.kind \in {"index", "TAKE", "DROP"} => got # <<>>
  BY <1>1 DEF Ops
<1>3. n \in Nat /\ DOMAIN got = 1 .. n
  BY <1>1, <1>2
<1>4. PICK new : new = Named(name, got)
  OBVIOUS
<1>5. new = [j \in 1 .. n |-> name[got[j]]]
  BY <1>3, <1>4 DEF Named
<1>6. new \in Seq(D) /\ Len(new) = n /\ \A j \in 1 .. n : new[j] = name[got[j]]
  BY <1>1, <1>3, <1>5
<1>7. PICK u : u = [op EXCEPT !.got = Named(name, @)]
  OBVIOUS
<1>8. u = [kind |-> op.kind, path |-> op.path, left |-> op.left, got |-> new]
  BY <1>1, <1>2, <1>4, <1>7
<1>9. got # <<>> => new # <<>>
  <2>1. got # <<>> => n # 0
    BY <1>1, <1>2
  <2>. QED  BY <1>6, <2>1
<1>10. u \in [kind : Kinds, path : Path, left : Nat, got : Seq(D)]
  BY <1>2, <1>6, <1>8
<1>11. u \in Ops(D)
  <2>1. u.kind = op.kind /\ u.path = op.path /\ u.left = op.left /\ u.got = new
    BY <1>8
  <2>2. Assigns(u) <=> Assigns(op)
    BY <2>1 DEF Assigns
  <2>. QED  BY <1>2, <1>9, <1>10, <2>1, <2>2 DEF Ops
<1>. QED  BY <1>1, <1>6, <1>7, <1>8, <1>11 DEF OpLeft

LEMMA LeftPending ==
  ASSUME NEW h, NEW p, NEW r, Leavable(h, p, r), NEW S, NEW name, Left(h, p, r, S, name)
  PROVE  /\ pending' \in Seq(Ops(DOMAIN heap')) /\ Len(pending') = Len(p)
         /\ \A i \in 1 .. Len(p) : OpLeft(pending'[i], DOMAIN heap', p[i], name)
<1>1. PICK n \in Nat : n = Len(p) /\ DOMAIN p = 1 .. n
  BY DEF Leavable
<1>2. \A i \in 1 .. n : p[i] \in Ops(DOMAIN h)
  BY <1>1 DEF Leavable
<1>3. PICK E : E = Ops(DOMAIN heap')
  OBVIOUS
<1>4. ASSUME NEW i \in 1 .. n
      PROVE  OpLeft([p[i] EXCEPT !.got = Named(name, @)], DOMAIN heap', p[i], name)
  <2>1. PICK op : op = p[i]
    OBVIOUS
  <2>2. \A j \in 1 .. Len(op.got) : name[op.got[j]] \in DOMAIN heap'
    BY <1>1, <2>1 DEF Left, Renames
  <2>3. op \in Ops(DOMAIN h)
    BY <1>2, <2>1
  <2>4. OpLeft([op EXCEPT !.got = Named(name, @)], DOMAIN heap', op, name)
    BY <2>2, <2>3, NamedOp
  <2>. QED  BY <2>1, <2>4
<1>5. PICK q : q = pending'
  OBVIOUS
<1>6. q = [i \in 1 .. n |-> [p[i] EXCEPT !.got = Named(name, @)]]
  BY <1>1, <1>5 DEF Left
<1>7. \A i \in 1 .. n : OpLeft(q[i], DOMAIN heap', p[i], name)
  BY <1>4, <1>6
<1>8. \A i \in 1 .. n : q[i] \in E
  BY <1>3, <1>7 DEF OpLeft
<1>9. q \in Seq(E) /\ Len(q) = n
  <2>1. q = [i \in 1 .. n |-> q[i]]
    BY <1>6
  <2>. QED  BY <1>8, <2>1
<1>. QED  BY <1>1, <1>3, <1>5, <1>7, <1>9

LEMMA LeftFits ==
  ASSUME NEW h, NEW p, NEW r, Fits(h, p, r), NEW S, NEW name, Left(h, p, r, S, name)
  PROVE  Fits(heap', pending', result')
<1>1. PICK g, q : g = heap' /\ q = pending'
  OBVIOUS
<1>2. /\ Renames(h, g, S, name) /\ Good(g) /\ root \in S /\ name[root] = root
      /\ \A i \in 1 .. Len(p) : \A j \in 1 .. Len(p[i].got) : p[i].got[j] \in S
      /\ IsCell(r) => r \in S
  BY <1>1 DEF Left
<1>3. Good(h)
  BY DEF Fits, Leavable
<1>4. /\ q \in Seq(Ops(DOMAIN g)) /\ Len(q) = Len(p)
      /\ \A i \in 1 .. Len(p) : OpLeft(q[i], DOMAIN g, p[i], name)
  BY <1>1, LeftPending DEF Fits
<1>5. \A c \in S : name[c] \in DOMAIN g
  BY <1>2 DEF Renames
<1>6. IsCell(result') => result' \in DOMAIN g
  BY <1>2, <1>5 DEF Left
<1>7. Leavable(g, q, result')
  BY <1>2, <1>4, <1>5, <1>6 DEF Leavable
<1>8. \A c, d \in S : Apart(h, c, d) => Apart(g, name[c], name[d])
  BY <1>2, <1>3, RenamedApart
<1>9. \A i \in 1 .. Len(q) : Collects(q, i) <=> Collects(p, i)
  BY <1>4 DEF Collects, OpLeft
<1>10. \A i \in 1 .. Len(p) : Len(q[i].got) = Len(p[i].got)
         /\ \A j \in 1 .. Len(p[i].got) : q[i].got[j] = name[p[i].got[j]]
  BY <1>4 DEF OpLeft
<1>11. OwnedApart(g, q)
  <2>1. ASSUME NEW i \in 1 .. Len(q), Collects(q, i), NEW j \in 1 .. Len(q[i].got)
        PROVE  Apart(g, root, q[i].got[j])
    <3>1. Apart(h, root, p[i].got[j]) /\ p[i].got[j] \in S /\ q[i].got[j] = name[p[i].got[j]]
      BY <1>2, <1>4, <1>9, <1>10, <2>1 DEF Fits, OwnedApart
    <3>. QED  BY <1>2, <1>8, <3>1
  <2>2. ASSUME NEW i \in 1 .. Len(q), Collects(q, i), NEW j \in 1 .. Len(q[i].got),
               NEW k \in 1 .. Len(q), Collects(q, k), NEW l \in 1 .. Len(q[k].got),
               i # k \/ j # l
        PROVE  Apart(g, q[i].got[j], q[k].got[l])
    <3>1. /\ i \in 1 .. Len(p) /\ k \in 1 .. Len(p) /\ Collects(p, i) /\ Collects(p, k)
          /\ j \in 1 .. Len(p[i].got) /\ l \in 1 .. Len(p[k].got)
      BY <1>4, <1>9, <1>10, <2>2
    <3>2. Apart(h, p[i].got[j], p[k].got[l])
      BY <2>2, <3>1 DEF Fits, OwnedApart
    <3>3. /\ p[i].got[j] \in S /\ q[i].got[j] = name[p[i].got[j]]
          /\ p[k].got[l] \in S /\ q[k].got[l] = name[p[k].got[l]]
      BY <1>2, <1>10, <3>1
    <3>. QED  BY <1>8, <3>2, <3>3
  <2>. QED  BY <2>1, <2>2 DEF OwnedApart
<1>12. Within(g, root, MaxDepth)
  <2>1. DOMAIN Layout(g, name[root]) = DOMAIN Layout(h, root)
    BY <1>2, <1>3, RenamedTree
  <2>. QED  BY <1>2, <2>1 DEF Fits, Within
<1>. QED  BY <1>1, <1>7, <1>11, <1>12 DEF Fits

-----------------------------------------------------------------------------
(* A step: the heap it makes, what then waits, and what it yields.          *)

\* h has all of g, with the scalars it had; what shares nothing with the
\* variables still does not, and is as it was.
Spares(g, h) ==
  /\ Good(h) /\ DOMAIN g \subseteq DOMAIN h
  /\ \A e \in DOMAIN g : h[e].scalar = g[e].scalar
  /\ \A d \in DOMAIN g : Apart(g, root, d) => Apart(h, root, d) /\ Kept(g, h, d)

LEMMA SparesFits ==
  ASSUME NEW g, NEW p, NEW s, Fits(g, p, s), NEW h, Spares(g, h),
         Within(h, root, MaxDepth), NEW r, IsCell(r) => r \in DOMAIN h
  PROVE  Fits(h, p, r)
<1>1. /\ p \in Seq(Ops(DOMAIN g)) /\ root \in DOMAIN g /\ OwnedApart(g, p)
      /\ Good(h) /\ DOMAIN g \subseteq DOMAIN h
  BY DEF Fits, Leavable, Spares
<1>2. \A op \in Ops(DOMAIN g) : op \in Ops(DOMAIN h)
  <2>1. Seq(DOMAIN g) \subseteq Seq(DOMAIN h)
    BY <1>1
  <2>. QED  BY <2>1 DEF Ops
<1>3. p \in Seq(Ops(DOMAIN h))
  <2>1. Ops(DOMAIN g) \subseteq Ops(DOMAIN h)
    BY <1>2
  <2>. QED  BY <1>1, <2>1
<1>4. \A i \in 1 .. Len(p) : \A j \in 1 .. Len(p[i].got) : p[i].got[j] \in DOMAIN g
  <2>1. ASSUME NEW i \in 1 .. Len(p), NEW j \in 1 .. Len(p[i].got)
        PROVE  p[i].got[j] \in DOMAIN g
    <3>1. p[i] \in Ops(DOMAIN g)
      BY <1>1
    <3>2. p[i].got \in Seq(DOMAIN g)
      BY <3>1 DEF Ops
    <3>. QED  BY <3>2
  <2>. QED  BY <2>1
<1>5. \A i \in 1 .. Len(p) : Collects(p, i) => \A j \in 1 .. Len(p[i].got) :
        Apart(h, root, p[i].got[j]) /\ Kept(g, h, p[i].got[j])
  BY <1>1, <1>4 DEF OwnedApart, Spares
<1>6. ASSUME NEW c, NEW d, Kept(g, h, c), Kept(g, h, d), Apart(g, c, d)
      PROVE  Apart(h, c, d)
  <2>1. Cells(h, c) = Cells(g, c) /\ Cells(h, d) = Cells(g, d)
    BY <1>6, KeptIs
  <2>. QED  BY <1>6, <2>1 DEF Apart
<1>7. OwnedApart(h, p)
  <2>1. ASSUME NEW i \in 1 .. Len(p), Collects(p, i), NEW j \in 1 .. Len(p[i].got),
               NEW k \in 1 .. Len(p), Collects(p, k), NEW l \in 1 .. Len(p[k].got),
               i # k \/ j # l
        PROVE  Apart(h, p[i].got[j], p[k].got[l])
    <3>1. Apart(g, p[i].got[j], p[k].got[l])
      BY <1>1, <2>1 DEF OwnedApart
    <3>2. Kept(g, h, p[i].got[j]) /\ Kept(g, h, p[k].got[l])
      BY <1>5, <2>1
    <3>. QED  BY <1>6, <3>1, <3>2
  <2>. QED  BY <1>5, <2>1 DEF OwnedApart
<1>8. Leavable(h, p, r)
  BY <1>1, <1>3 DEF Leavable
<1>. QED  BY <1>7, <1>8 DEF Fits

LEMMA ExtendsSpares ==
  ASSUME NEW g, Good(g), root \in DOMAIN g, NEW h, Good(h), Extends(g, h)
  PROVE  /\ Spares(g, h) /\ Layout(h, root) = Layout(g, root)
         /\ \A n : Within(g, root, n) => Within(h, root, n)
<1>1. DOMAIN g \subseteq DOMAIN h /\ \A e \in DOMAIN g : h[e] = g[e]
  BY DEF Extends
<1>2. \A d \in DOMAIN g : Kept(g, h, d) /\ Cells(h, d) = Cells(g, d)
  BY ExtendsKept, ExtendsLayout
<1>3. \A d \in DOMAIN g : Apart(g, root, d) => Apart(h, root, d)
  BY <1>2 DEF Apart
<1>4. Layout(h, root) = Layout(g, root)
  BY ExtendsLayout
<1>. QED  BY <1>1, <1>2, <1>3, <1>4 DEF Spares, Within

LEMMA SparesOn ==
  ASSUME NEW f, NEW g, NEW h, Spares(f, g), Spares(g, h)
  PROVE  Spares(f, h)
<1>1. \A d \in DOMAIN f : Kept(f, g, d) /\ Kept(g, h, d) => Kept(f, h, d)
  BY KeptOn
<1>. QED  BY <1>1 DEF Spares

LEMMA SparesSame ==
  ASSUME NEW g, Good(g)
  PROVE  Spares(g, g)
BY DEF Spares, Kept

LEMMA RootOnlySpares ==
  ASSUME NEW g, NEW h, RootOnly(g, h)
  PROVE  Spares(g, h)
BY DEF RootOnly, Spares

\* A tree of its own stored among the variables: nothing else is touched.
LEMMA StoredSpares ==
  ASSUME NEW f, Good(f), root \in DOMAIN f, NEW g, Good(g), Extends(f, g), NEW v,
         Fresh(f, g, v), NEW path, NEW h, StoredAt(g, path, v, h)
  PROVE  Spares(f, h)
<1>1. Spares(f, g)
  BY ExtendsSpares
<1>2. \A d \in DOMAIN f : d \in DOMAIN g /\ d \notin Cells(g, v)
  BY <1>1 DEF Fresh, Spares
<1>3. ASSUME NEW d \in DOMAIN f, Apart(f, root, d)
      PROVE  Apart(h, root, d) /\ Kept(f, h, d)
  <2>1. Apart(g, root, d) /\ Kept(f, g, d)
    BY <1>1, <1>3 DEF Spares
  <2>2. Apart(h, root, d) /\ Kept(g, h, d)
    BY <1>2, <2>1 DEF StoredAt
  <2>. QED  BY <2>1, <2>2, KeptOn
<1>4. /\ Good(h) /\ DOMAIN f \subseteq DOMAIN h
      /\ \A e \in DOMAIN f : h[e].scalar = f[e].scalar
  BY <1>1, <1>2 DEF Spares, StoredAt
<1>. QED  BY <1>3, <1>4 DEF Spares

-----------------------------------------------------------------------------
(* What waits.                                                             *)

LEMMA OpsAre ==
  ASSUME NEW D, NEW p \in Seq(Ops(D)), NEW i \in 1 .. Len(p)
  PROVE  /\ p[i] \in Ops(D) /\ p[i].got \in Seq(D) /\ Len(p[i].got) \in Nat
         /\ \A j \in 1 .. Len(p[i].got) : p[i].got[j] \in D
<1>1. p[i] \in Ops(D)
  OBVIOUS
<1>2. p[i].got \in Seq(D)
  BY <1>1 DEF Ops
<1>. QED  BY <1>1, <1>2

LEMMA OpIs ==
  ASSUME NEW D, NEW kind \in Kinds, NEW path \in Path, NEW left \in Nat, NEW got \in Seq(D),
         kind \in {"=", "+="} => path # <<>> /\ Len(path) + left <= MaxDepth,
         kind \in {"index", "TAKE", "DROP"} => got # <<>>
  PROVE  /\ Op(kind, path, left, got) \in Ops(D)
         /\ Op(kind, path, left, got).kind = kind /\ Op(kind, path, left, got).got = got
         /\ Op(kind, path, left, got).path = path /\ Op(kind, path, left, got).left = left
<1>1. PICK op : op = Op(kind, path, left, got)
  OBVIOUS
<1>2. op = [kind |-> kind, path |-> path, left |-> left, got |-> got]
  BY <1>1 DEF Op
<1>3. op \in [kind : Kinds, path : Path, left : Nat, got : Seq(D)]
  BY <1>2
<1>4. op.kind = kind /\ op.path = path /\ op.left = left /\ op.got = got
  BY <1>2
<1>5. op \in Ops(D)
  BY <1>3, <1>4 DEF Ops, Assigns
<1>. QED  BY <1>1, <1>4, <1>5

\* The outermost operations alone.
LEMMA FitsPrefix ==
  ASSUME NEW h, NEW p, NEW r, Fits(h, p, r), NEW n \in 0 .. Len(p)
  PROVE  Fits(h, SubSeq(p, 1, n), r)
<1>1. p \in Seq(Ops(DOMAIN h)) /\ Len(p) \in Nat
  BY DEF Fits, Leavable
<1>2. PICK q : q = SubSeq(p, 1, n)
  OBVIOUS
<1>3. q \in Seq(Ops(DOMAIN h)) /\ Len(q) = n /\ \A i \in 1 .. n : q[i] = p[i] /\ i \in 1 .. Len(p)
  BY <1>1, <1>2
<1>4. \A i \in 1 .. n : Collects(q, i) => Collects(p, i)
  BY <1>3 DEF Collects
<1>5. OwnedApart(h, q)
  BY <1>3, <1>4 DEF Fits, OwnedApart
<1>. QED  BY <1>2, <1>3, <1>5 DEF Fits, Leavable

\* One more, and if it collects, what shares nothing with what is owned.
Adds(h, p, op) ==
  op.kind = "comma" =>
    /\ \A j \in 1 .. Len(op.got) : Apart(h, root, op.got[j])
    /\ AllApart(h, op.got)
    /\ \A i \in 1 .. Len(p) : Collects(p, i) => \A j \in 1 .. Len(p[i].got), l \in 1 .. Len(op.got) :
         Apart(h, p[i].got[j], op.got[l])

LEMMA FitsPush ==
  ASSUME NEW h, NEW p, NEW r, Fits(h, p, r), NEW op \in Ops(DOMAIN h), Adds(h, p, op)
  PROVE  Fits(h, Append(p, op), r)
<1>1. p \in Seq(Ops(DOMAIN h)) /\ Len(p) \in Nat
  BY DEF Fits, Leavable
<1>2. PICK q, n : q = Append(p, op) /\ n = Len(p)
  OBVIOUS
<1>3. /\ q \in Seq(Ops(DOMAIN h)) /\ Len(q) = n + 1 /\ q[n + 1] = op /\ n \in Nat
      /\ \A i \in 1 .. n : q[i] = p[i]
  BY <1>1, <1>2
<1>4. \A i \in 1 .. n : Collects(q, i) => Collects(p, i)
  BY <1>2, <1>3 DEF Collects
<1>5. \A i \in 1 .. n + 1 : i \in 1 .. n \/ i = n + 1
  BY <1>3
<1>6. \A c, d : Apart(h, c, d) => Apart(h, d, c)
  BY DEF Apart
<1>7. Collects(q, n + 1) => op.kind = "comma"
  BY <1>3 DEF Collects
<1>8. \A i \in 1 .. n + 1 : Collects(q, i) => \A j \in 1 .. Len(q[i].got) : Apart(h, root, q[i].got[j])
  <2>1. ASSUME NEW i \in 1 .. n, Collects(q, i), NEW j \in 1 .. Len(q[i].got)
        PROVE  Apart(h, root, q[i].got[j])
    BY <1>2, <1>3, <1>4, <2>1 DEF Fits, OwnedApart
  <2>. QED  BY <1>3, <1>5, <1>7, <2>1 DEF Adds
<1>9. ASSUME NEW i \in 1 .. n + 1, NEW k \in 1 .. n + 1, Collects(q, i), Collects(q, k),
             NEW j \in 1 .. Len(q[i].got), NEW l \in 1 .. Len(q[k].got), i # k \/ j # l
      PROVE  Apart(h, q[i].got[j], q[k].got[l])
  <2>1. CASE i \in 1 .. n /\ k \in 1 .. n
    BY <1>2, <1>3, <1>4, <1>9, <2>1 DEF Fits, OwnedApart
  <2>2. CASE i \in 1 .. n /\ k = n + 1
    BY <1>2, <1>3, <1>4, <1>7, <1>9, <2>2 DEF Adds
  <2>3. CASE i = n + 1 /\ k \in 1 .. n
    <3>1. Apart(h, q[k].got[l], q[i].got[j])
      BY <1>2, <1>3, <1>4, <1>7, <1>9, <2>3 DEF Adds
    <3>. QED  BY <1>6, <3>1
  <2>4. CASE i = n + 1 /\ k = n + 1
    BY <1>2, <1>3, <1>7, <1>9, <2>4 DEF Adds, AllApart, Apart
  <2>. QED  BY <1>5, <2>1, <2>2, <2>3, <2>4
<1>10. OwnedApart(h, q)
  BY <1>3, <1>8, <1>9 DEF OwnedApart
<1>. QED  BY <1>2, <1>3, <1>10 DEF Fits, Leavable

LEMMA FitsYields ==
  ASSUME NEW h, NEW p, NEW s, Fits(h, p, s), NEW r, IsCell(r) => r \in DOMAIN h
  PROVE  Fits(h, p, r)
BY DEF Fits, Leavable
-----------------------------------------------------------------------------
(* Depths.                                                                  *)

LEMMA ChildrenAre ==
  ASSUME NEW h, IsHeap(h), NEW c \in DOMAIN h
  PROVE  \A d : d \in Children(h, c) <=> \E k \in Keys : HasKid(h, c, k, d)
<1>1. \A i \in DOMAIN h[c].kids : h[c].kids[i].key \in Keys
  BY CellIs
<1>. QED  BY <1>1 DEF Children, HasKid

LEMMA LaysLevels ==
  ASSUME NEW h, IsHeap(h), NEW c, NEW L, Lays(h, c, L), NEW n \in Nat \ {0}
  PROVE  \A d : (\E p \in DOMAIN L : Len(p) = n /\ d = L[p]) <=>
                \E q \in DOMAIN L : Len(q) = n - 1 /\ d \in Children(h, L[q])
<1>1. \A q \in DOMAIN L : q \in Path /\ L[q] \in DOMAIN h /\ Len(q) \in Nat
  BY DEF Lays, Path
<1>2. \A q \in DOMAIN L : \A d : d \in Children(h, L[q]) <=> \E k \in Keys : HasKid(h, L[q], k, d)
  BY <1>1, ChildrenAre
<1>3. \A q \in DOMAIN L, k \in Keys : Len(Append(q, k)) = Len(q) + 1 /\ Len(q) \in Nat
  BY <1>1, PathStep
<1>4. ASSUME NEW p \in DOMAIN L, Len(p) = n
      PROVE  \E q \in DOMAIN L : Len(q) = n - 1 /\ L[p] \in Children(h, L[q])
  <2>1. p # <<>>
    BY <1>4
  <2>2. PICK q \in DOMAIN L, k \in Keys : p = Append(q, k) /\ HasKid(h, L[q], k, L[p])
    BY <2>1 DEF Lays
  <2>3. Len(q) = n - 1
    BY <1>3, <1>4, <2>2
  <2>. QED  BY <1>2, <2>2, <2>3
<1>5. ASSUME NEW q \in DOMAIN L, Len(q) = n - 1, NEW d, d \in Children(h, L[q])
      PROVE  \E p \in DOMAIN L : Len(p) = n /\ d = L[p]
  <2>1. PICK k \in Keys : HasKid(h, L[q], k, d)
    BY <1>2, <1>5
  <2>2. Append(q, k) \in DOMAIN L /\ L[Append(q, k)] = d
    BY <2>1 DEF Lays
  <2>3. Len(Append(q, k)) = n
    BY <1>3, <1>5
  <2>. QED  BY <2>2, <2>3
<1>. QED  BY <1>4, <1>5

\* The cells n levels down.
Level(L, n) == {L[p] : p \in {q \in DOMAIN L : Len(q) = n}}

LEMMA TooDeepIs ==
  ASSUME NEW h, Good(h), NEW c \in DOMAIN h, NEW depth \in 0 .. MaxDepth
  PROVE  TooDeep(h, c, depth) <=>
           \E q \in DOMAIN Layout(h, c) : Len(q) = MaxDepth + 1 - depth
<1>. DEFINE Is(f) == f = [n \in Nat |-> IF n = 0 THEN {c}
                                        ELSE UNION {Children(h, d) : d \in f[n - 1]}]
            level == CHOOSE f : Is(f)
<1>1. TooDeep(h, c, depth) <=> level[MaxDepth + 1 - depth] # {}
  BY DEF TooDeep
<1>2. PICK L : L = Layout(h, c)
  OBVIOUS
<1>3. Lays(h, c, L) /\ IsHeap(h)
  BY <1>2, LayoutLays DEF Good
<1>4. \A q \in DOMAIN L : q \in Path /\ Len(q) \in Nat /\ (Len(q) = 0 => q = <<>>)
  BY <1>3 DEF Lays, Path
<1>5. Level(L, 0) = {c}
  <2>1. <<>> \in DOMAIN L /\ L[<<>>] = c /\ Len(<<>>) = 0
    BY <1>3 DEF Lays
  <2>. QED  BY <1>4, <2>1 DEF Level
<1>6. \A n \in Nat \ {0} : Level(L, n) = UNION {Children(h, d) : d \in Level(L, n - 1)}
  <2>1. ASSUME NEW n \in Nat \ {0}
        PROVE  \A d : d \in Level(L, n) <=> \E e \in Level(L, n - 1) : d \in Children(h, e)
    <3>1. \A d : (\E p \in DOMAIN L : Len(p) = n /\ d = L[p]) <=>
                 \E q \in DOMAIN L : Len(q) = n - 1 /\ d \in Children(h, L[q])
      BY <1>3, LaysLevels
    <3>. QED  BY <3>1 DEF Level
  <2>. QED  BY <2>1
<1>7. PICK g : g = [n \in Nat |-> Level(L, n)]
  OBVIOUS
<1>8. Is(g)
  <2>1. \A n \in Nat : g[n] = IF n = 0 THEN {c} ELSE UNION {Children(h, d) : d \in g[n - 1]}
    <3>1. \A n \in Nat \ {0} : n - 1 \in Nat
      OBVIOUS
    <3>. QED  BY <1>5, <1>6, <1>7, <3>1
  <2>2. g = [n \in Nat |-> g[n]]
    BY <1>7
  <2>. QED  BY <2>1, <2>2
<1>9. Is(level)
  <2>. HIDE DEF Is
  <2>. QED  BY <1>8
<1>10. \A n \in Nat : level[n] = IF n = 0 THEN {c} ELSE UNION {Children(h, d) : d \in level[n - 1]}
  <2>. HIDE DEF level
  <2>. QED  BY <1>9
<1>. DEFINE S == {n \in Nat : level[n] = Level(L, n)}
<1>. HIDE DEF level
<1>11. 0 \in S
  BY <1>5, <1>10
<1>12. ASSUME NEW n \in Nat, n \in S PROVE n + 1 \in S
  <2>1. n + 1 \in Nat \ {0} /\ (n + 1) - 1 = n
    OBVIOUS
  <2>2. level[n + 1] = UNION {Children(h, d) : d \in level[n]}
    BY <1>10, <2>1
  <2>3. Level(L, n + 1) = UNION {Children(h, d) : d \in Level(L, n)}
    BY <1>6, <2>1
  <2>4. PICK A : A = Level(L, n)
    OBVIOUS
  <2>5. level[n] = A
    BY <1>12, <2>4
  <2>6. level[n + 1] = Level(L, n + 1)
    BY <2>2, <2>3, <2>4, <2>5
  <2>. QED  BY <2>1, <2>6
<1>13. \A n \in Nat : n \in S
  <2>. HIDE DEF S
  <2>. QED  BY <1>11, <1>12, Induction
<1>14. MaxDepth + 1 - depth \in Nat
  BY MaxDepthAssumption
<1>15. level[MaxDepth + 1 - depth] = Level(L, MaxDepth + 1 - depth)
  BY <1>13, <1>14
<1>. QED  BY <1>1, <1>2, <1>15 DEF Level

LEMMA WithinIs ==
  ASSUME NEW h, Good(h), NEW c \in DOMAIN h, NEW depth \in 0 .. MaxDepth
  PROVE  TooDeep(h, c, depth) <=> ~Within(h, c, MaxDepth - depth)
<1>1. PICK L, n : L = Layout(h, c) /\ n = MaxDepth - depth
  OBVIOUS
<1>2. Lays(h, c, L)
  BY <1>1, LayoutLays
<1>3. n \in Nat /\ n + 1 = MaxDepth + 1 - depth
  BY <1>1, MaxDepthAssumption
<1>4. \A q \in DOMAIN L : q \in Path /\ Len(q) \in Nat
  BY <1>2 DEF Lays, Path
<1>5. ASSUME NEW q \in DOMAIN L, ~(Len(q) <= n)
      PROVE  \E a \in DOMAIN L : Len(a) = n + 1
  <2>1. PICK a : a = SubSeq(q, 1, n + 1)
    OBVIOUS
  <2>2. a \in Path /\ Len(a) = n + 1
    BY <1>3, <1>4, <1>5, <2>1 DEF Path
  <2>3. IsPrefix(a, q)
    <3>1. q \in Seq(Keys) /\ Len(q) \in Nat /\ n + 1 <= Len(q)
      BY <1>3, <1>4, <1>5 DEF Path
    <3>2. Len(a) <= Len(q) /\ SubSeq(q, 1, Len(a)) = a
      BY <2>1, <2>2, <3>1
    <3>. QED  BY <3>1, <3>2 DEF IsPrefix
  <2>4. a \in DOMAIN L
    BY <1>2, <2>2, <2>3, LaysPrefix
  <2>. QED  BY <2>2, <2>4
<1>6. \A q \in DOMAIN L : Len(q) = n + 1 => ~(Len(q) <= n)
  BY <1>3
<1>7. TooDeep(h, c, depth) <=> \E q \in DOMAIN L : Len(q) = n + 1
  BY <1>1, <1>3, TooDeepIs
<1>. QED  BY <1>1, <1>5, <1>6, <1>7 DEF Within
-----------------------------------------------------------------------------
(* What is read of a value.                                                 *)

\* Where a value without a scalar is read: at its first child.
SourceStep(h, d) ==
  IF h[d].scalar # Absent \/ h[d].kids = <<>> THEN d ELSE h[d].kids[1].cell

LEMMA SourceStepIs ==
  ASSUME NEW h, IsHeap(h), NEW d \in DOMAIN h
  PROVE  SourceStep(h, d) \in DOMAIN h
<1>1. /\ h[d].kids \in Seq([key : Keys, cell : DOMAIN h]) /\ DOMAIN h[d].kids = 1 .. Len(h[d].kids)
      /\ \A i \in DOMAIN h[d].kids : h[d].kids[i].cell \in DOMAIN h
  BY CellIs
<1>2. h[d].kids # <<>> => 1 \in DOMAIN h[d].kids
  <2>1. PICK s : s = h[d].kids
    OBVIOUS
  <2>2. s # <<>> => 1 \in DOMAIN s
    BY <1>1, <2>1
  <2>. QED  BY <2>1, <2>2
<1>. QED  BY <1>1, <1>2 DEF SourceStep

LEMMA AsTextIs ==
  ASSUME NEW h, IsHeap(h), NEW c \in DOMAIN h
  PROVE  as_text(h, c) \in Texts \cup {Absent} /\ (as_text(h, c) # Absent => as_text(h, c) \in Keys)
<1>. DEFINE T == DOMAIN h
            Is(f) == f = [n \in Nat |-> IF n = 0 THEN c ELSE SourceStep(h, f[n - 1])]
            source == CHOOSE f : Is(f)
<1>1. as_text(h, c) = h[source[MaxDepth + 1]].scalar
  BY DEF as_text, SourceStep
<1>. PICK step : step = [p \in T \X (Nat \ {0}) |-> SourceStep(h, p[1])]
  OBVIOUS
<1>2. \A t \in T, n \in Nat \ {0} : step[<<t, n>>] = SourceStep(h, t) /\ step[<<t, n>>] \in T
  BY SourceStepIs
<1>3. IsNatStep(step, T)
  <2>1. ASSUME NEW p \in T \X (Nat \ {0}) PROVE step[p] \in T
    <3>1. p = <<p[1], p[2]>> /\ p[1] \in T /\ p[2] \in Nat \ {0}
      OBVIOUS
    <3>. QED  BY <1>2, <3>1
  <2>2. step = [p \in T \X (Nat \ {0}) |-> step[p]]
    OBVIOUS
  <2>. QED  BY <2>1, <2>2 DEF IsNatStep
<1>4. PICK g : /\ g \in [Nat -> T] /\ g[0] = c
               /\ \A n \in Nat \ {0} : g[n] = step[<<g[n - 1], n>>]
  <2>1. \E g : NatRecurs(g, T, c, step)
    BY <1>3, NatRecursion
  <2>. QED  BY <2>1 DEF NatRecurs
<1>5. Is(g)
  <2>1. \A n \in Nat \ {0} : n - 1 \in Nat
    OBVIOUS
  <2>2. \A n \in Nat : g[n] = IF n = 0 THEN c ELSE SourceStep(h, g[n - 1])
    BY <1>2, <1>4, <2>1
  <2>. QED  BY <1>4, <2>2
<1>6. Is(source)
  <2>. HIDE DEF Is
  <2>. QED  BY <1>5
<1>7. \A n \in Nat : source[n] = IF n = 0 THEN c ELSE SourceStep(h, source[n - 1])
  <2>. HIDE DEF source
  <2>. QED  BY <1>6
<1>. DEFINE S == {n \in Nat : source[n] \in T}
<1>. HIDE DEF source
<1>8. 0 \in S
  BY <1>7
<1>9. ASSUME NEW n \in Nat, n \in S PROVE n + 1 \in S
  <2>1. n + 1 \in Nat \ {0} /\ (n + 1) - 1 = n
    OBVIOUS
  <2>2. source[n + 1] = SourceStep(h, source[n]) /\ source[n] \in T
    BY <1>7, <1>9, <2>1
  <2>3. source[n + 1] \in T
    BY <2>2, SourceStepIs
  <2>. QED  BY <2>1, <2>3
<1>10. \A n \in Nat : n \in S
  <2>. HIDE DEF S
  <2>. QED  BY <1>8, <1>9, Induction
<1>11. MaxDepth + 1 \in Nat
  BY MaxDepthAssumption
<1>12. source[MaxDepth + 1] \in T
  BY <1>10, <1>11
<1>13. h[source[MaxDepth + 1]].scalar \in Texts \cup {Absent}
  BY <1>12, CellIs
<1>. QED  BY <1>1, <1>13, TextsAssumption DEF Keys

\* The children of a cell share nothing.
LEMMA KidsApart ==
  ASSUME NEW h, Good(h), NEW c \in DOMAIN h
  PROVE  AllApart(h, Kids(h, c))
<1>1. PICK L : L = Layout(h, c)
  OBVIOUS
<1>2. Lays(h, c, L) /\ IsHeap(h) /\ KeysDiffer(h)
  BY <1>1, LayoutLays DEF Good
<1>3. /\ DOMAIN h[c].kids = 1 .. Len(h[c].kids)
      /\ \A i \in DOMAIN h[c].kids :
           h[c].kids[i].key \in Keys /\ h[c].kids[i].cell \in DOMAIN h
  BY <1>2, CellIs
<1>4. /\ Len(Kids(h, c)) = Len(h[c].kids)
      /\ \A i \in DOMAIN h[c].kids : Kids(h, c)[i] = h[c].kids[i].cell
  BY <1>2, KidsAre
<1>5. <<>> \in DOMAIN L /\ L[<<>>] = c /\ <<>> \in Path
  BY <1>2 DEF Lays, Path
<1>6. \A q \in DOMAIN L : q \in Path
  BY <1>2 DEF Lays
\* Under a child, a cell's path begins with the child's key.
<1>7. ASSUME NEW k \in Keys, NEW d, HasKid(h, c, k, d), d \in DOMAIN h
      PROVE  \A e \in Cells(h, d) : \E q \in DOMAIN L : L[q] = e /\ Len(q) >= 1 /\ q[1] = k
  <2>. DEFINE U == {e \in DOMAIN h : \E q \in DOMAIN L : L[q] = e /\ Len(q) >= 1 /\ q[1] = k}
  <2>1. d \in U
    <3>1. Append(<<>>, k) \in DOMAIN L /\ L[Append(<<>>, k)] = d
      <4>1. \A p \in DOMAIN L, l \in Keys : \A e : HasKid(h, L[p], l, e) =>
              Append(p, l) \in DOMAIN L /\ L[Append(p, l)] = e
        BY <1>2 DEF Lays
      <4>2. HasKid(h, L[<<>>], k, d)
        BY <1>5, <1>7
      <4>. QED  BY <1>5, <4>1, <4>2
    <3>2. Len(Append(<<>>, k)) = 1 /\ Append(<<>>, k)[1] = k
      OBVIOUS
    <3>. QED  BY <1>7, <3>1, <3>2
  <2>2. ASSUME NEW e \in U, NEW l \in Keys, NEW f, HasKid(h, e, l, f)
        PROVE  f \in U
    <3>1. PICK q \in DOMAIN L : L[q] = e /\ Len(q) >= 1 /\ q[1] = k
      OBVIOUS
    <3>2. Append(q, l) \in DOMAIN L /\ L[Append(q, l)] = f
      BY <1>2, <2>2, <3>1 DEF Lays
    <3>3. Len(Append(q, l)) >= 1 /\ Append(q, l)[1] = k
      BY <1>6, <3>1 DEF Path
    <3>4. f \in DOMAIN h
      BY <1>2, <3>2 DEF Lays
    <3>. QED  BY <3>2, <3>3, <3>4
  <2>3. Cells(h, d) \subseteq U
    <3>1. \A e \in U, l \in Keys : \A f : e \in Cells(h, d) /\ HasKid(h, e, l, f) => f \in U
      BY <2>2
    <3>. HIDE DEF U
    <3>. QED  BY <1>7, <2>1, <3>1, CellsLeast
  <2>. QED  BY <2>3
<1>8. ASSUME NEW i \in DOMAIN h[c].kids, NEW j \in DOMAIN h[c].kids, i # j
      PROVE  Cells(h, h[c].kids[i].cell) \cap Cells(h, h[c].kids[j].cell) = {}
  <2>1. PICK k, l, d, e : /\ k = h[c].kids[i].key /\ d = h[c].kids[i].cell
                          /\ l = h[c].kids[j].key /\ e = h[c].kids[j].cell
    OBVIOUS
  <2>2. k \in Keys /\ l \in Keys /\ d \in DOMAIN h /\ e \in DOMAIN h
    BY <1>3, <2>1
  <2>3. HasKid(h, c, k, d) /\ HasKid(h, c, l, e)
    BY <2>1 DEF HasKid
  <2>4. k # l
    BY <1>2, <1>8, <2>1 DEF KeysDiffer
  <2>5. \A f \in Cells(h, d) : \E q \in DOMAIN L : L[q] = f /\ Len(q) >= 1 /\ q[1] = k
    BY <1>7, <2>2, <2>3
  <2>6. \A f \in Cells(h, e) : \E q \in DOMAIN L : L[q] = f /\ Len(q) >= 1 /\ q[1] = l
    BY <1>7, <2>2, <2>3
  <2>7. \A p, q \in DOMAIN L : L[p] = L[q] => p = q
    BY <1>2 DEF Lays
  <2>. QED  BY <2>1, <2>4, <2>5, <2>6, <2>7
<1>. QED  BY <1>3, <1>4, <1>8 DEF AllApart

\* What an aggregate walks.
Elements(h, t) == t \in Seq(DOMAIN h) /\ AllApart(h, t)

LEMMA ElementsAre ==
  ASSUME NEW h, Good(h), NEW c \in DOMAIN h
  PROVE  Elements(h, elems(h, c)) /\ Elements(h, <<c>>) /\ Elements(h, Contributed(h, c))
<1>1. Elements(h, <<c>>)
  <2>1. <<c>> \in Seq(DOMAIN h) /\ Len(<<c>>) = 1
    OBVIOUS
  <2>. QED  BY <2>1 DEF Elements, AllApart
<1>2. Elements(h, Kids(h, c))
  BY KidsAre, KidsApart DEF Elements, Good
<1>3. Elements(h, elems(h, c))
  BY <1>1, <1>2 DEF elems
<1>. QED  BY <1>1, <1>3 DEF Contributed

LEMMA ElementsOf ==
  ASSUME NEW h, NEW t, Elements(h, t), NEW m \in Nat, NEW n \in Nat, n <= Len(t)
  PROVE  Elements(h, SubSeq(t, m + 1, n))
<1>1. t \in Seq(DOMAIN h) /\ Len(t) \in Nat
  BY DEF Elements
<1>2. PICK s : s = SubSeq(t, m + 1, n)
  OBVIOUS
<1>3. /\ s \in Seq(DOMAIN h)
      /\ \A i \in 1 .. Len(s) : s[i] = t[m + i] /\ m + i \in 1 .. Len(t)
  BY <1>1, <1>2
<1>4. AllApart(h, s)
  <2>1. \A i, j \in 1 .. Len(s) : i # j => m + i # m + j
    BY <1>1, <1>3
  <2>. QED  BY <1>3, <2>1 DEF AllApart, Elements
<1>. QED  BY <1>2, <1>3, <1>4 DEF Elements
-----------------------------------------------------------------------------
(* The assignments under way.                                               *)

Goal(op) == [path |-> op.path, left |-> op.left]
Goals == [path : Path, left : Nat]
OpenOne(open, op) == IF Assigns(op) THEN Append(open, [path |-> op.path, left |-> op.left])
                     ELSE open
Opens(p) == FoldLeft(OpenOne, <<>>, p)

OpensRun(run, ops, N) ==
  /\ run \in [0 .. N -> Seq(Goals)] /\ run[0] = <<>>
  /\ \A n \in 1 .. N : run[n] = OpenOne(run[n - 1], ops[n])

LEMMA OpenOneIs ==
  ASSUME NEW D, NEW t \in Seq(Goals), NEW op \in Ops(D)
  PROVE  OpenOne(t, op) \in Seq(Goals)
<1>1. [path |-> op.path, left |-> op.left] \in Goals
  BY DEF Ops, Goals
<1>. QED  BY <1>1 DEF OpenOne

LEMMA OpensRuns ==
  ASSUME NEW D, NEW ops \in Seq(Ops(D)), NEW N \in Nat, N = Len(ops)
  PROVE  \E run : OpensRun(run, ops, N) /\ Opens(ops) = run[N]
<1>. DEFINE Dom == DOMAIN ops
            T == Seq(Goals)
            start == <<>>
            Is(f) == f = [s \in SUBSET Dom |->
                            IF s = {} THEN start
                            ELSE OpenOne(f[s \ {Max(s)}], ops[Max(s)])]
            it == CHOOSE f : Is(f)
<1>. PICK step : step = [p \in T \X (1 .. N) |-> OpenOne(p[1], ops[p[2]])]
  OBVIOUS
<1>1. Opens(ops) = it[Dom]
  BY DEF Opens, OpenOne, FoldLeft, MapThenFoldSet
<1>2. Dom = 1 .. N /\ start \in T /\ \A n \in 1 .. N : ops[n] \in Ops(D)
  OBVIOUS
<1>. HIDE DEF T, start
<1>3. \A q \in T, n \in 1 .. N :
        step[<<q, n>>] = OpenOne(q, ops[n]) /\ step[<<q, n>>] \in T
  <2>1. \A q \in T, n \in 1 .. N : OpenOne(q, ops[n]) \in T
    BY <1>2, OpenOneIs DEF T
  <2>. QED  BY <2>1
<1>4. IsStep(step, N, T)
  <2>1. ASSUME NEW p \in T \X (1 .. N) PROVE step[p] \in T
    <3>1. p = <<p[1], p[2]>> /\ p[1] \in T /\ p[2] \in 1 .. N
      OBVIOUS
    <3>. QED  BY <1>3, <3>1
  <2>2. step = [p \in T \X (1 .. N) |-> step[p]]
    OBVIOUS
  <2>. QED  BY <2>1, <2>2 DEF IsStep
<1>5. \A s \in SUBSET (1 .. N) : s # {} => Max(s) \in 1 .. N /\ s \ {Max(s)} \in SUBSET (1 .. N)
  BY MaxIs
<1>6. PICK g : IsFold(g, N, T, start, step)
  BY <1>2, <1>4, FoldExists
<1>7. \A s \in SUBSET (1 .. N) :
        g[s] = IF s = {} THEN start ELSE OpenOne(g[s \ {Max(s)}], ops[Max(s)])
  <2>1. ASSUME NEW s \in SUBSET (1 .. N), s # {}
        PROVE  g[s] = OpenOne(g[s \ {Max(s)}], ops[Max(s)])
    <3>1. g[s] = step[<<g[s \ {Max(s)}], Max(s)>>]
      BY <1>6, <2>1 DEF IsFold
    <3>2. g[s \ {Max(s)}] \in T /\ Max(s) \in 1 .. N
      BY <1>5, <1>6, <2>1 DEF IsFold
    <3>. QED  BY <1>3, <3>1, <3>2
  <2>2. g[{}] = start
    BY <1>6 DEF IsFold
  <2>. QED  BY <2>1, <2>2
<1>8. Is(g)
  BY <1>2, <1>6, <1>7 DEF IsFold
<1>9. Is(it)
  <2>. HIDE DEF Is
  <2>. QED  BY <1>8
<1>10. Recurs(it, N, T, start, step)
  <2>1. \A s \in SUBSET (1 .. N) :
          it[s] = IF s = {} THEN start ELSE OpenOne(it[s \ {Max(s)}], ops[Max(s)])
    <3>. HIDE DEF it
    <3>. QED  BY <1>2, <1>9
  <2>. HIDE DEF it
  <2>. QED  BY <2>1, <1>3, <1>5 DEF Recurs
<1>. HIDE DEF it
<1>11. PICK run : IsRun(run, N, T, start, step) /\ it[1 .. N] = run[N]
  BY <1>2, <1>4, <1>10, FoldRuns
<1>12. \A n \in 1 .. N : n - 1 \in 0 .. N
  OBVIOUS
<1>13. OpensRun(run, ops, N)
  <2>1. \A n \in 1 .. N : run[n] = OpenOne(run[n - 1], ops[n])
    BY <1>3, <1>11, <1>12 DEF IsRun
  <2>. QED  BY <1>11, <2>1 DEF IsRun, OpensRun, T, start
<1>. QED  BY <1>1, <1>2, <1>11, <1>13

\* Runs over operations that agree on what is under way agree.
LEMMA OpensAgree ==
  ASSUME NEW N \in Nat, NEW M \in Nat, N <= M, NEW ops, NEW pos, NEW f, NEW g,
         OpensRun(f, ops, N), OpensRun(g, pos, M),
         \A n \in 1 .. N : /\ Assigns(ops[n]) <=> Assigns(pos[n])
                           /\ ops[n].path = pos[n].path /\ ops[n].left = pos[n].left
  PROVE  \A n \in 0 .. N : f[n] = g[n]
<1>. DEFINE S == {n \in Nat : n \in 0 .. N => f[n] = g[n]}
<1>1. 0 \in S
  BY DEF OpensRun
<1>2. ASSUME NEW n \in Nat, n \in S PROVE n + 1 \in S
  <2>1. ASSUME n + 1 \in 0 .. N PROVE f[n + 1] = g[n + 1]
    <3>1. n \in 0 .. N /\ n + 1 \in 1 .. N /\ n + 1 \in 1 .. M /\ (n + 1) - 1 = n
      BY <2>1
    <3>2. f[n + 1] = OpenOne(f[n], ops[n + 1]) /\ g[n + 1] = OpenOne(g[n], pos[n + 1])
      BY <3>1 DEF OpensRun
    <3>3. f[n] = g[n]
      BY <1>2, <3>1
    <3>. QED  BY <3>1, <3>2, <3>3 DEF OpenOne
  <2>. QED  BY <2>1
<1>3. \A n \in Nat : n \in S
  <2>. HIDE DEF S
  <2>. QED  BY <1>1, <1>2, Induction
<1>. QED  BY <1>3

SameGoals(p, q) ==
  \A n \in 1 .. Len(p) : /\ Assigns(p[n]) <=> Assigns(q[n])
                         /\ p[n].path = q[n].path /\ p[n].left = q[n].left

LEMMA OpensSame ==
  ASSUME NEW D, NEW E, NEW p \in Seq(Ops(D)), NEW q \in Seq(Ops(E)), Len(p) = Len(q),
         SameGoals(p, q)
  PROVE  Opens(q) = Opens(p) /\ Opens(p) \in Seq(Goals)
<1>1. PICK N \in Nat : N = Len(p)
  OBVIOUS
<1>2. PICK f : OpensRun(f, p, N) /\ Opens(p) = f[N]
  BY <1>1, OpensRuns
<1>3. PICK g : OpensRun(g, q, N) /\ Opens(q) = g[N]
  BY <1>1, OpensRuns
<1>4. \A n \in 0 .. N : f[n] = g[n]
  BY <1>1, <1>2, <1>3, OpensAgree DEF SameGoals
<1>. QED  BY <1>1, <1>2, <1>3, <1>4 DEF OpensRun

LEMMA OpensPush ==
  ASSUME NEW D, NEW p \in Seq(Ops(D)), NEW op \in Ops(D)
  PROVE  Opens(Append(p, op)) = OpenOne(Opens(p), op) /\ Opens(p) \in Seq(Goals)
<1>1. PICK N \in Nat : N = Len(p)
  OBVIOUS
<1>2. PICK q : q = Append(p, op)
  OBVIOUS
<1>3. q \in Seq(Ops(D)) /\ Len(q) = N + 1 /\ q[N + 1] = op /\ \A n \in 1 .. N : q[n] = p[n]
  BY <1>1, <1>2
<1>4. PICK f : OpensRun(f, p, N) /\ Opens(p) = f[N]
  BY <1>1, OpensRuns
<1>5. PICK g : OpensRun(g, q, N + 1) /\ Opens(q) = g[N + 1]
  BY <1>3, OpensRuns
<1>6. \A n \in 0 .. N : f[n] = g[n]
  BY <1>3, <1>4, <1>5, OpensAgree
<1>7. N + 1 \in 1 .. N + 1 /\ (N + 1) - 1 = N /\ N \in 0 .. N
  OBVIOUS
<1>8. g[N + 1] = OpenOne(g[N], op)
  BY <1>3, <1>5, <1>7 DEF OpensRun
<1>. QED  BY <1>2, <1>4, <1>5, <1>6, <1>7, <1>8 DEF OpensRun

\* The assignments under way among the outermost operations come first.
LEMMA OpensPrefix ==
  ASSUME NEW D, NEW p \in Seq(Ops(D)), NEW n \in 0 .. Len(p)
  PROVE  /\ Opens(SubSeq(p, 1, n)) = Opens(p) \/ IsStrictPrefix(Opens(SubSeq(p, 1, n)), Opens(p))
         /\ Opens(SubSeq(p, 1, n)) \in Seq(Goals)
<1>1. PICK N \in Nat : N = Len(p)
  OBVIOUS
<1>2. PICK f : OpensRun(f, p, N) /\ Opens(p) = f[N]
  BY <1>1, OpensRuns
<1>3. PICK q : q = SubSeq(p, 1, n)
  OBVIOUS
<1>4. q \in Seq(Ops(D)) /\ Len(q) = n /\ n \in Nat /\ \A i \in 1 .. n : q[i] = p[i]
  BY <1>3
<1>5. PICK g : OpensRun(g, q, n) /\ Opens(q) = g[n]
  BY <1>4, OpensRuns
<1>6. \A i \in 0 .. n : g[i] = f[i]
  BY <1>1, <1>2, <1>4, <1>5, OpensAgree
<1>. DEFINE S == {m \in Nat : n <= m /\ m <= N => IsPrefix(f[n], f[m])}
<1>7. \A m \in 0 .. N : f[m] \in Seq(Goals)
  BY <1>2 DEF OpensRun
<1>8. \A t \in Seq(Goals) : IsPrefix(t, t)
  BY DEF IsPrefix
<1>9. 0 \in S
  BY <1>1, <1>4, <1>7, <1>8
<1>10. ASSUME NEW m \in Nat, m \in S PROVE m + 1 \in S
  <2>1. CASE n <= m /\ m + 1 <= N
    <3>1. m \in 0 .. N /\ m + 1 \in 1 .. N /\ (m + 1) - 1 = m /\ n \in 0 .. N
      BY <1>1, <2>1
    <3>2. f[m + 1] = OpenOne(f[m], p[m + 1])
      BY <1>2, <3>1 DEF OpensRun
    <3>3. PICK s, t, u : s = f[n] /\ t = f[m] /\ u = f[m + 1]
      OBVIOUS
    <3>4. s \in Seq(Goals) /\ t \in Seq(Goals) /\ IsPrefix(s, t)
      BY <1>7, <1>10, <2>1, <3>1, <3>3
    <3>5. u = t \/ u = Append(t, Goal(p[m + 1]))
      BY <3>2, <3>3 DEF OpenOne, Goal
    <3>6. \A e : IsPrefix(s, Append(t, e))
      BY <3>4 DEF IsPrefix
    <3>7. IsPrefix(s, u)
      BY <3>4, <3>5, <3>6
    <3>. QED  BY <3>3, <3>7
  <2>2. CASE ~(n <= m) /\ n <= m + 1
    <3>1. n = m + 1
      BY <1>4, <2>2
    <3>. QED  BY <1>1, <1>7, <1>8, <3>1
  <2>. QED  BY <2>1, <2>2
<1>11. \A m \in Nat : m \in S
  <2>. HIDE DEF S
  <2>. QED  BY <1>9, <1>10, Induction
<1>12. IsPrefix(f[n], f[N])
  BY <1>1, <1>4, <1>11
<1>13. Opens(q) = f[n] /\ f[n] \in Seq(Goals)
  BY <1>1, <1>4, <1>5, <1>6, <1>7
<1>. QED  BY <1>2, <1>3, <1>12, <1>13 DEF IsStrictPrefix
-----------------------------------------------------------------------------
(* What a step does to the variables: VariableTree's actions, on the tree T *)
(* and the assignments o under way, y being what is yielded.                *)

NewGoal(T, o, T2, o2) ==
  \E x \in Names, n \in Nat :
    /\ o2 = Append(o, [path |-> <<x>>, left |-> n])
    /\ T2 = IF n > 0 THEN GrownTree(T, <<x>>) ELSE T
NextKey(T, o, T2, o2) ==
  \E k \in Keys :
    /\ o # <<>> /\ Last(o).left > 0
    /\ o2 = Append(Front(o), [path |-> Append(Last(o).path, k), left |-> Last(o).left - 1])
    /\ T2 = IF Last(o).left > 1 THEN GrownTree(T, Append(Last(o).path, k)) ELSE T
ReadGoal(T, o, T2, o2, y2) ==
  /\ o # <<>> /\ Last(o).left = 0
  /\ T2 = GrownTree(T, Front(Last(o).path))
  /\ o2 = o \/ (o2 = Front(o) /\ y2 = {})
PutGoal(T, o, T2, o2, y2) ==
  /\ o # <<>> /\ Last(o).left = 0 /\ o2 = Front(o)
  /\ \E v \in y2 : T2 = StoredTree(T, Last(o).path, v)
DropGoals(T, o, T2, o2, y2) ==
  T2 = T /\ y2 = {} /\ IsStrictPrefix(o2, o)

TreeMoves(T, o, T2, o2, y2) ==
  \/ T2 = T /\ o2 = o
  \/ NewGoal(T, o, T2, o2) \/ NextKey(T, o, T2, o2)
  \/ ReadGoal(T, o, T2, o2, y2) \/ PutGoal(T, o, T2, o2, y2) \/ DropGoals(T, o, T2, o2, y2)

\* The value yielded, as VariableTree has it: one tree or none.
YieldOf(h, r) == IF IsCell(r) THEN {TreeOf(h, r)} ELSE {}

\* What an operation held it holds still.
Carries(p, q) ==
  \A i \in 1 .. Len(p) : i <= Len(q) => \A j \in 1 .. Len(p[i].got) :
    j \in 1 .. Len(q[i].got) /\ q[i].got[j] = p[i].got[j]

Inv == Fits(heap, pending, result)
Moves(h, p, r) ==
  /\ Fits(h, p, r) /\ Spares(heap, h) /\ Carries(pending, p)
  /\ TreeMoves(TreeOf(heap, root), Opens(pending), TreeOf(h, root), Opens(p), YieldOf(h, r))

LEMMA InvIs ==
  ASSUME Inv
  PROVE  /\ Good(heap) /\ IsHeap(heap) /\ root \in DOMAIN heap /\ pending \in Seq(Ops(DOMAIN heap))
         /\ Len(pending) \in Nat /\ OwnedApart(heap, pending) /\ Within(heap, root, MaxDepth)
         /\ Yielded => result \in DOMAIN heap
BY DEF Inv, Fits, Leavable, Good, Yielded

LEMMA CarriesSame ==
  ASSUME NEW D, NEW p \in Seq(Ops(D))
  PROVE  Carries(p, p)
BY DEF Carries

LEMMA CarriesPrefix ==
  ASSUME NEW D, NEW p \in Seq(Ops(D)), NEW n \in 0 .. Len(p)
  PROVE  Carries(p, SubSeq(p, 1, n))
<1>1. PICK q : q = SubSeq(p, 1, n)
  OBVIOUS
<1>2. Len(q) = n /\ \A i \in 1 .. n : q[i] = p[i]
  BY <1>1
<1>3. \A i \in 1 .. Len(p) : i <= n => i \in 1 .. n
  OBVIOUS
<1>. QED  BY <1>1, <1>2, <1>3 DEF Carries

\* op holds what was holds, and may be more.
Keeps(was, op) ==
  \A j \in 1 .. Len(was.got) : j \in 1 .. Len(op.got) /\ op.got[j] = was.got[j]

LEMMA CarriesPush ==
  ASSUME NEW D, NEW p \in Seq(Ops(D)), NEW op
  PROVE  /\ Carries(p, Append(p, op))
         /\ p # <<>> /\ Keeps(Last(p), op) => Carries(p, Append(Front(p), op))
<1>1. PICK n \in Nat : n = Len(p)
  OBVIOUS
<1>2. Carries(p, Append(p, op))
  <2>1. PICK q : q = Append(p, op)
    OBVIOUS
  <2>2. Len(q) = n + 1 /\ \A i \in 1 .. n : q[i] = p[i]
    BY <1>1, <2>1
  <2>. QED  BY <1>1, <2>1, <2>2 DEF Carries
<1>3. ASSUME p # <<>>, Keeps(Last(p), op) PROVE Carries(p, Append(Front(p), op))
  <2>1. n >= 1 /\ Last(p) = p[n] /\ Front(p) = SubSeq(p, 1, n - 1)
    BY <1>1, <1>3 DEF Front, Last
  <2>2. PICK q : q = Append(Front(p), op)
    OBVIOUS
  <2>3. Len(q) = n /\ q[n] = op /\ \A i \in 1 .. n - 1 : q[i] = p[i]
    BY <1>1, <2>1, <2>2
  <2>4. \A i \in 1 .. n : i = n \/ i \in 1 .. n - 1
    BY <2>1
  <2>5. \A i \in 1 .. n : \A j \in 1 .. Len(p[i].got) :
          j \in 1 .. Len(q[i].got) /\ q[i].got[j] = p[i].got[j]
    <3>1. \A j \in 1 .. Len(p[n].got) : j \in 1 .. Len(q[n].got) /\ q[n].got[j] = p[n].got[j]
      BY <1>3, <2>1, <2>3 DEF Keeps
    <3>. QED  BY <2>3, <2>4, <3>1
  <2>. QED  BY <1>1, <2>2, <2>5 DEF Carries
<1>. QED  BY <1>2, <1>3

LEMMA TopIs ==
  ASSUME Inv, Top.kind \in Kinds
  PROVE  /\ pending # <<>> /\ Top = Last(pending) /\ Top \in Ops(DOMAIN heap)
         /\ Front(pending) \in Seq(Ops(DOMAIN heap))
         /\ pending = Append(Front(pending), Top)
         /\ Len(pending) - 1 \in 0 .. Len(pending)
         /\ Front(pending) = SubSeq(pending, 1, Len(pending) - 1)
         /\ Len(pending) \in 1 .. Len(pending) /\ pending[Len(pending)] = Top
         /\ Top = [kind |-> Top.kind, path |-> Top.path, left |-> Top.left, got |-> Top.got]
<1>1. pending \in Seq(Ops(DOMAIN heap))
  BY InvIs
<1>2. pending # <<>>
  <2>1. ASSUME pending = <<>> PROVE FALSE
    <3>1. Top.kind = "program"
      BY <2>1 DEF Top, Op
    <3>. QED  BY <3>1 DEF Kinds
  <2>. QED  BY <2>1
<1>3. Top = Last(pending)
  BY <1>2 DEF Top
<1>4. /\ Len(pending) \in 1 .. Len(pending) /\ Last(pending) = pending[Len(pending)]
      /\ Front(pending) = SubSeq(pending, 1, Len(pending) - 1)
      /\ Len(pending) - 1 \in 0 .. Len(pending)
  BY <1>1, <1>2 DEF Last, Front
<1>5. Last(pending) \in Ops(DOMAIN heap)
  BY <1>1, <1>4
<1>6. /\ Front(pending) \in Seq(Ops(DOMAIN heap))
      /\ pending = Append(Front(pending), Last(pending))
  BY <1>1, <1>4
<1>7. Top = [kind |-> Top.kind, path |-> Top.path, left |-> Top.left, got |-> Top.got]
  BY <1>3, <1>5 DEF Ops
<1>. QED  BY <1>2, <1>3, <1>4, <1>5, <1>6, <1>7

\* The variables are as they were, and so is what is under way.
LEMMA CalmIs ==
  ASSUME Inv, NEW h, Good(h), Extends(heap, h), NEW p, NEW r, Fits(h, p, r),
         Opens(p) = Opens(pending), Carries(pending, p)
  PROVE  Moves(h, p, r)
<1>1. Spares(heap, h) /\ Layout(h, root) = Layout(heap, root)
  BY InvIs, ExtendsSpares
<1>2. Kept(heap, h, root)
  BY InvIs, ExtendsKept
<1>3. TreeOf(h, root) = TreeOf(heap, root)
  BY <1>2, KeptIs
<1>4. TreeMoves(TreeOf(heap, root), Opens(pending), TreeOf(h, root), Opens(p), YieldOf(h, r))
  BY <1>3 DEF TreeMoves
<1>. QED  BY <1>1, <1>4 DEF Moves

LEMMA ExtendsFits ==
  ASSUME Inv, NEW h, Good(h), Extends(heap, h), NEW r, IsCell(r) => r \in DOMAIN h
  PROVE  Fits(h, pending, r)
<1>1. Spares(heap, h) /\ Within(h, root, MaxDepth)
  BY InvIs, ExtendsSpares
<1>. QED  BY <1>1, SparesFits DEF Inv

LEMMA ExtendsSame ==
  ASSUME NEW h
  PROVE  Extends(h, h)
BY DEF Extends

LEMMA ExtendsOn ==
  ASSUME NEW f, NEW g, NEW h, Extends(f, g), Extends(g, h)
  PROVE  Extends(f, h)
BY DEF Extends

\* The same operations wait.
LEMMA StayIs ==
  ASSUME Inv, NEW h, Good(h), Extends(heap, h), NEW r, IsCell(r) => r \in DOMAIN h
  PROVE  Moves(h, pending, r)
<1>1. Fits(h, pending, r)
  BY ExtendsFits
<1>2. Carries(pending, pending)
  BY InvIs, CarriesSame
<1>. QED  BY <1>1, <1>2, CalmIs

\* Some of the innermost are abandoned.
LEMMA DropIs ==
  ASSUME Inv, NEW n \in 0 .. Len(pending), NEW err, ~IsCell(err)
  PROVE  Moves(heap, SubSeq(pending, 1, n), err)
<1>1. PICK q : q = SubSeq(pending, 1, n)
  OBVIOUS
<1>2. Fits(heap, pending, err)
  BY FitsYields DEF Inv
<1>3. Fits(heap, q, err)
  BY <1>1, <1>2, FitsPrefix
<1>4. Carries(pending, q)
  BY <1>1, InvIs, CarriesPrefix
<1>5. Spares(heap, heap)
  BY InvIs, SparesSame
<1>6. YieldOf(heap, err) = {}
  BY DEF YieldOf
<1>7. Opens(q) = Opens(pending) \/ IsStrictPrefix(Opens(q), Opens(pending))
  BY <1>1, InvIs, OpensPrefix
<1>8. TreeMoves(TreeOf(heap, root), Opens(pending), TreeOf(heap, root), Opens(q), YieldOf(heap, err))
  BY <1>6, <1>7 DEF TreeMoves, DropGoals
<1>. QED  BY <1>1, <1>3, <1>4, <1>5, <1>8 DEF Moves

LEMMA FailIs ==
  ASSUME Inv, Top.kind \in Kinds, NEW err, ~IsCell(err)
  PROVE  Moves(heap, Front(pending), err)
<1>1. Len(pending) - 1 \in 0 .. Len(pending) /\ Front(pending) = SubSeq(pending, 1, Len(pending) - 1)
  BY TopIs
<1>2. Moves(heap, SubSeq(pending, 1, Len(pending) - 1), err)
  BY <1>1, DropIs
<1>. QED  BY <1>1, <1>2

\* The innermost operation, not an assignment, has its value.
LEMMA PopIs ==
  ASSUME Inv, Top.kind \in Kinds, ~Assigns(Top), NEW h, Good(h), Extends(heap, h),
         NEW r, IsCell(r) => r \in DOMAIN h
  PROVE  Moves(h, Front(pending), r)
<1>1. PICK q : q = Front(pending)
  OBVIOUS
<1>2. /\ Len(pending) - 1 \in 0 .. Len(pending) /\ q = SubSeq(pending, 1, Len(pending) - 1)
      /\ pending = Append(q, Top) /\ Top \in Ops(DOMAIN heap) /\ q \in Seq(Ops(DOMAIN heap))
  BY <1>1, TopIs
<1>3. Fits(h, pending, r)
  BY ExtendsFits
<1>4. Fits(h, SubSeq(pending, 1, Len(pending) - 1), r)
  BY <1>2, <1>3, FitsPrefix
<1>5. Carries(pending, SubSeq(pending, 1, Len(pending) - 1))
  BY <1>2, InvIs, CarriesPrefix
<1>6. Opens(Append(q, Top)) = OpenOne(Opens(q), Top)
  BY <1>2, OpensPush
<1>7. Opens(q) = Opens(pending)
  BY <1>2, <1>6 DEF OpenOne
<1>8. Fits(h, q, r) /\ Carries(pending, q)
  BY <1>2, <1>4, <1>5
<1>9. Moves(h, q, r)
  BY <1>7, <1>8, CalmIs
<1>. QED  BY <1>1, <1>9

\* Another operation that is not an assignment waits.
LEMMA PushIs ==
  ASSUME Inv, NEW h, Good(h), Extends(heap, h), NEW op \in Ops(DOMAIN h), ~Assigns(op),
         Adds(h, pending, op), NEW r, IsCell(r) => r \in DOMAIN h
  PROVE  Moves(h, Append(pending, op), r)
<1>1. Fits(h, pending, r)
  BY ExtendsFits
<1>2. Fits(h, Append(pending, op), r)
  BY <1>1, FitsPush
<1>3. Carries(pending, Append(pending, op))
  BY InvIs, CarriesPush
<1>4. pending \in Seq(Ops(DOMAIN h))
  BY <1>1 DEF Fits, Leavable
<1>5. Opens(Append(pending, op)) = OpenOne(Opens(pending), op)
  BY <1>4, OpensPush
<1>6. Opens(Append(pending, op)) = Opens(pending)
  BY <1>5 DEF OpenOne
<1>. QED  BY <1>2, <1>3, <1>6, CalmIs

\* The innermost operation, not an assignment, goes on waiting.
LEMMA TurnIs ==
  ASSUME Inv, Top.kind \in Kinds, ~Assigns(Top), NEW h, Good(h), Extends(heap, h),
         NEW op \in Ops(DOMAIN h), ~Assigns(op), Keeps(Top, op), Adds(h, Front(pending), op),
         NEW r, IsCell(r) => r \in DOMAIN h
  PROVE  Moves(h, Replace(op), r)
<1>1. PICK q : q = Front(pending)
  OBVIOUS
<1>2. Moves(h, q, r)
  BY <1>1, PopIs
<1>3. Fits(h, q, r)
  BY <1>2 DEF Moves
<1>4. Fits(h, Append(q, op), r)
  BY <1>1, <1>3, FitsPush
<1>5. /\ pending # <<>> /\ Top = Last(pending) /\ Top \in Ops(DOMAIN heap)
      /\ q \in Seq(Ops(DOMAIN heap)) /\ pending = Append(q, Top)
  BY <1>1, TopIs
<1>6. Carries(pending, Append(Front(pending), op))
  BY <1>5, InvIs, CarriesPush
<1>7. q \in Seq(Ops(DOMAIN h))
  BY <1>3 DEF Fits, Leavable
<1>8. /\ Opens(Append(q, op)) = OpenOne(Opens(q), op)
      /\ Opens(Append(q, Top)) = OpenOne(Opens(q), Top)
  BY <1>5, <1>7, OpensPush
<1>9. Opens(Append(q, op)) = Opens(pending)
  BY <1>5, <1>8 DEF OpenOne
<1>10. Carries(pending, Append(q, op))
  BY <1>1, <1>6
<1>11. Moves(h, Append(q, op), r)
  BY <1>4, <1>9, <1>10, CalmIs
<1>. QED  BY <1>1, <1>11 DEF Replace
-----------------------------------------------------------------------------
(* Each action, then, but those of an assignment.                           *)

Stepped == \E h, p, r : Moves(h, p, r) /\ Leave(h, p, r)

LEMMA SteppedTo ==
  ASSUME NEW h, NEW p, NEW r, Moves(h, p, r), Leave(h, p, r)
  PROVE  Stepped
BY DEF Stepped

LEMMA FailSteps ==
  ASSUME Inv, Top.kind \in Kinds, NEW err \in {Missing, Failed}, Fail(err)
  PROVE  Stepped
<1>1. ~IsCell(err)
  BY DEF IsCell
<1>2. Moves(heap, Front(pending), err)
  BY <1>1, FailIs
<1>. QED  BY <1>2, SteppedTo DEF Fail

LEMMA NotCells == ~IsCell(Absent) /\ ~IsCell(Missing) /\ ~IsCell(Failed)
BY DEF IsCell

LEMMA LiteralSteps ==
  ASSUME Inv, Literal
  PROVE  Stepped
<1>1. PICK t \in Texts \cup {Absent} :
        Leave(Alloc(heap, NewCell(t)).heap, pending, Alloc(heap, NewCell(t)).at)
  BY DEF Literal
<1>2. AddsLeaf(heap, Alloc(heap, NewCell(t)))
  BY InvIs, NewIs
<1>3. PICK new : new = Alloc(heap, NewCell(t))
  OBVIOUS
<1>4. Good(new.heap) /\ Extends(heap, new.heap) /\ new.at \in DOMAIN new.heap
  BY <1>2, <1>3 DEF AddsLeaf, Fresh
<1>5. Moves(new.heap, pending, new.at)
  BY <1>4, StayIs
<1>. QED  BY <1>1, <1>3, <1>5, SteppedTo

LEMMA lookupSteps ==
  ASSUME Inv, lookup
  PROVE  Stepped
<1>0. PICK x \in Names :
        Leave(heap, pending,
              IF x \in KeysIn(heap, root) THEN get(heap, root, x) ELSE Missing)
  BY DEF lookup
<1>1. PICK r : /\ r = (IF x \in KeysIn(heap, root) THEN get(heap, root, x) ELSE Missing)
               /\ Leave(heap, pending, r)
  BY <1>0
<1>2. IsCell(r) => r \in DOMAIN heap
  <2>1. x \in KeysIn(heap, root) => get(heap, root, x) \in DOMAIN heap
    BY InvIs, GetIs DEF Good
  <2>. QED  BY <1>1, <2>1, NotCells
<1>3. Moves(heap, pending, r)
  BY <1>2, InvIs, ExtendsSame, StayIs
<1>. QED  BY <1>1, <1>3, SteppedTo

LEMMA SequenceSteps ==
  ASSUME Inv, Sequence
  PROVE  Stepped
<1>1. Moves(heap, pending, Absent)
  BY NotCells, InvIs, ExtendsSame, StayIs
<1>. QED  BY <1>1, SteppedTo DEF Sequence

LEMMA HoldSteps ==
  ASSUME Inv, NEW kind \in {"index", "TAKE", "DROP", "LIST"}, Hold(kind)
  PROVE  Stepped
<1>1. result \in DOMAIN heap
  BY InvIs DEF Hold
<1>2. PICK op : op = Op(kind, <<>>, 0, <<result>>)
  OBVIOUS
<1>3. op \in Ops(DOMAIN heap) /\ op.kind = kind
  <2>1. kind \in Kinds /\ kind \notin {"=", "+="}
    BY DEF Kinds
  <2>2. PICK path, got : path = <<>> /\ got = <<result>>
    OBVIOUS
  <2>3. path \in Path /\ 0 \in Nat
    BY <2>2 DEF Path
  <2>4. got \in Seq(DOMAIN heap) /\ Len(got) = 1 /\ got # <<>>
    BY <1>1, <2>2
  <2>5. op = Op(kind, path, 0, got)
    BY <1>2, <2>2
  <2>. QED  BY <2>1, <2>3, <2>4, <2>5, OpIs
<1>4. ~Assigns(op) /\ Adds(heap, pending, op)
  BY <1>3 DEF Assigns, Adds
<1>5. Moves(heap, Append(pending, op), Absent)
  BY <1>3, <1>4, NotCells, InvIs, ExtendsSame, PushIs
<1>. QED  BY <1>2, <1>5, SteppedTo DEF Hold

\* What holds its first value.
LEMMA HoldsOne ==
  ASSUME Inv, Top.kind \in {"index", "TAKE", "DROP"}
  PROVE  Top.kind \in Kinds /\ ~Assigns(Top) /\ Top.got[1] \in DOMAIN heap
<1>1. Top.kind \in Kinds /\ ~Assigns(Top)
  BY DEF Kinds, Assigns
<1>2. Top \in Ops(DOMAIN heap)
  BY <1>1, TopIs
<1>3. Top.got \in Seq(DOMAIN heap) /\ Top.got # <<>>
  BY <1>2 DEF Ops
<1>. QED  BY <1>1, <1>3

LEMMA eval_indexSteps ==
  ASSUME Inv, eval_index
  PROVE  Stepped
<1>1. PICK obj, k : obj = Top.got[1] /\ k = as_text(heap, result)
  OBVIOUS
<1>2. Yielded /\ Top.kind = "index"
  BY DEF eval_index
<1>3. Top.kind \in Kinds /\ ~Assigns(Top) /\ obj \in DOMAIN heap
  BY <1>1, <1>2, HoldsOne
<1>4. CASE Fail(Failed) \/ Fail(Missing)
  BY <1>3, <1>4, FailSteps
<1>5. CASE k \in KeysIn(heap, obj) /\ Leave(heap, Front(pending), get(heap, obj, k))
  <2>1. get(heap, obj, k) \in DOMAIN heap
    BY <1>3, <1>5, InvIs, GetIs DEF Good
  <2>2. PICK r : r = get(heap, obj, k)
    OBVIOUS
  <2>3. Moves(heap, Front(pending), r)
    BY <1>3, <2>1, <2>2, InvIs, ExtendsSame, PopIs
  <2>. QED  BY <1>5, <2>2, <2>3, SteppedTo
<1>. QED  BY <1>1, <1>4, <1>5 DEF eval_index

\* A container of cells that share nothing is what the operation yields.
LEMMA ListSteps ==
  ASSUME Inv, Top.kind \in Kinds, ~Assigns(Top), NEW g, Good(g), Extends(heap, g),
         NEW cells, Elements(g, cells),
         Leave(list(g, cells).heap, Front(pending), list(g, cells).at)
  PROVE  Stepped
<1>1. AddsList(g, list(g, cells))
  BY ListIs DEF Elements
<1>2. PICK new : new = list(g, cells)
  OBVIOUS
<1>3. Good(new.heap) /\ Extends(g, new.heap) /\ new.at \in DOMAIN new.heap
  BY <1>1, <1>2 DEF AddsList
<1>4. Extends(heap, new.heap)
  BY <1>3, ExtendsOn
<1>5. Moves(new.heap, Front(pending), new.at)
  BY <1>3, <1>4, PopIs
<1>. QED  BY <1>2, <1>5, SteppedTo

LEMMA LeastIs ==
  ASSUME NEW m \in Nat, NEW n \in Nat
  PROVE  Min({m, n}) \in Nat /\ Min({m, n}) <= n
<1>1. \E x \in {m, n} : \A y \in {m, n} : x <= y
  OBVIOUS
<1>2. Min({m, n}) \in {m, n} /\ \A y \in {m, n} : Min({m, n}) <= y
  BY <1>1 DEF Min
<1>. QED  BY <1>2

LEMMA fn_takeSteps ==
  ASSUME Inv, fn_take
  PROVE  Stepped
<1>1. PICK n, all : n = as_text(heap, result) /\ all = elems(heap, Top.got[1])
  OBVIOUS
<1>2. Yielded /\ Top.kind = "TAKE"
  BY DEF fn_take
<1>3. Top.kind \in Kinds /\ ~Assigns(Top) /\ Top.got[1] \in DOMAIN heap /\ result \in DOMAIN heap
  BY <1>2, HoldsOne, InvIs
<1>4. CASE Fail(Failed)
  BY <1>3, <1>4, FailSteps
<1>5. CASE n # Absent /\ Leave(list(heap, SubSeq(all, 1, Min({n, Len(all)}))).heap, Front(pending),
                              list(heap, SubSeq(all, 1, Min({n, Len(all)}))).at)
  <2>1. Elements(heap, all) /\ Len(all) \in Nat
    <3>1. PICK c : c = Top.got[1]
      OBVIOUS
    <3>2. Elements(heap, elems(heap, c))
      BY <1>3, <3>1, InvIs, ElementsAre
    <3>3. Elements(heap, all)
      BY <1>1, <3>1, <3>2
    <3>. QED  BY <3>3 DEF Elements
  <2>2. n \in Nat
    BY <1>1, <1>3, <1>5, InvIs, AsTextIs, TextsAssumption
  <2>3. PICK least : least = Min({n, Len(all)})
    OBVIOUS
  <2>4. least \in Nat /\ least <= Len(all)
    BY <2>1, <2>2, <2>3, LeastIs
  <2>5. Elements(heap, SubSeq(all, 0 + 1, least))
    BY <2>1, <2>4, ElementsOf
  <2>6. PICK cells : cells = SubSeq(all, 1, Min({n, Len(all)}))
    OBVIOUS
  <2>7. Elements(heap, cells)
    <3>1. 0 + 1 = 1
      OBVIOUS
    <3>. QED  BY <2>3, <2>5, <2>6, <3>1
  <2>8. Leave(list(heap, cells).heap, Front(pending), list(heap, cells).at)
    BY <1>5, <2>6
  <2>. QED  BY <1>3, <2>7, <2>8, InvIs, ExtendsSame, ListSteps
<1>. QED  BY <1>1, <1>4, <1>5 DEF fn_take

LEMMA fn_dropSteps ==
  ASSUME Inv, fn_drop
  PROVE  Stepped
<1>1. PICK n, all : n = as_text(heap, result) /\ all = elems(heap, Top.got[1])
  OBVIOUS
<1>2. Yielded /\ Top.kind = "DROP"
  BY DEF fn_drop
<1>3. Top.kind \in Kinds /\ ~Assigns(Top) /\ Top.got[1] \in DOMAIN heap /\ result \in DOMAIN heap
  BY <1>2, HoldsOne, InvIs
<1>4. CASE Fail(Failed)
  BY <1>3, <1>4, FailSteps
<1>5. CASE n # Absent /\ Leave(list(heap, SubSeq(all, n + 1, Len(all))).heap, Front(pending),
                              list(heap, SubSeq(all, n + 1, Len(all))).at)
  <2>1. Elements(heap, all) /\ Len(all) \in Nat
    <3>1. PICK c : c = Top.got[1]
      OBVIOUS
    <3>2. Elements(heap, elems(heap, c))
      BY <1>3, <3>1, InvIs, ElementsAre
    <3>3. Elements(heap, all)
      BY <1>1, <3>1, <3>2
    <3>. QED  BY <3>3 DEF Elements
  <2>2. n \in Nat
    BY <1>1, <1>3, <1>5, InvIs, AsTextIs, TextsAssumption
  <2>3. Elements(heap, SubSeq(all, n + 1, Len(all)))
    BY <2>1, <2>2, ElementsOf
  <2>4. PICK cells : cells = SubSeq(all, n + 1, Len(all))
    OBVIOUS
  <2>5. Elements(heap, cells)
    BY <2>3, <2>4
  <2>6. Leave(list(heap, cells).heap, Front(pending), list(heap, cells).at)
    BY <1>5, <2>4
  <2>. QED  BY <1>3, <2>5, <2>6, InvIs, ExtendsSame, ListSteps
<1>. QED  BY <1>1, <1>4, <1>5 DEF fn_drop

LEMMA CatchSteps ==
  ASSUME Inv, Catch
  PROVE  Stepped
<1>1. PICK n \in 0 .. Len(pending) : Leave(heap, SubSeq(pending, 1, n), Absent)
  BY DEF Catch
<1>2. Moves(heap, SubSeq(pending, 1, n), Absent)
  BY NotCells, DropIs
<1>. QED  BY <1>1, <1>2, SteppedTo

LEMMA NewRunSteps ==
  ASSUME Inv, NewRun
  PROVE  Stepped
<1>1. Leave(heap, <<>>, Absent)
  BY DEF NewRun
<1>2. 0 \in 0 .. Len(pending) /\ SubSeq(pending, 1, 0) = <<>>
  <2>1. Len(pending) \in Nat /\ pending \in Seq(Ops(DOMAIN heap))
    BY InvIs
  <2>. QED  BY <2>1
<1>3. Moves(heap, SubSeq(pending, 1, 0), Absent)
  BY <1>2, NotCells, DropIs
<1>. QED  BY <1>1, <1>2, <1>3, SteppedTo

LEMMA ArgumentSteps ==
  ASSUME Inv, Argument
  PROVE  Stepped
<1>1. /\ Yielded /\ Top.kind = "LIST"
      /\ Leave(heap, Replace([Top EXCEPT !.got = Append(@, result)]), Absent)
  BY DEF Argument
<1>2. Top.kind \in Kinds /\ ~Assigns(Top)
  BY <1>1 DEF Kinds, Assigns
<1>3. /\ Top \in Ops(DOMAIN heap) /\ result \in DOMAIN heap
      /\ Top = [kind |-> Top.kind, path |-> Top.path, left |-> Top.left, got |-> Top.got]
  BY <1>1, <1>2, TopIs, InvIs
<1>4. /\ Top.path \in Path /\ Top.left \in Nat /\ Top.got \in Seq(DOMAIN heap)
  BY <1>3 DEF Ops
<1>5. PICK got : got = Append(Top.got, result)
  OBVIOUS
<1>6. /\ got \in Seq(DOMAIN heap)
      /\ \A j \in 1 .. Len(Top.got) : j \in 1 .. Len(got) /\ got[j] = Top.got[j]
  BY <1>3, <1>4, <1>5
<1>7. PICK op : op = [Top EXCEPT !.got = Append(@, result)]
  OBVIOUS
<1>8. op = Op("LIST", Top.path, Top.left, got)
  BY <1>1, <1>3, <1>5, <1>7 DEF Op
<1>9. op \in Ops(DOMAIN heap) /\ op.kind = "LIST" /\ op.got = got
  <2>1. "LIST" \in Kinds /\ "LIST" \notin {"=", "+=", "index", "TAKE", "DROP"}
    BY DEF Kinds
  <2>. QED  BY <1>4, <1>6, <1>8, <2>1, OpIs
<1>10. ~Assigns(op) /\ Keeps(Top, op) /\ Adds(heap, Front(pending), op)
  BY <1>6, <1>9 DEF Assigns, Keeps, Adds
<1>11. Moves(heap, Replace(op), Absent)
  BY <1>2, <1>9, <1>10, NotCells, InvIs, ExtendsSame, TurnIs
<1>. QED  BY <1>1, <1>7, <1>11, SteppedTo
\* Copies share nothing with what was there.
LEMMA CopiedApart ==
  ASSUME NEW g, Good(g), NEW s \in Copying(g), NEW d \in DOMAIN g
  PROVE  \A i \in 1 .. Len(s.got) : Apart(s.heap, d, s.got[i])
<1>1. Extends(g, s.heap) /\ \A i \in 1 .. Len(s.got) : Cells(s.heap, s.got[i]) \cap DOMAIN g = {}
  BY DEF Copying
<1>2. Cells(s.heap, d) = Cells(g, d)
  BY <1>1, ExtendsLayout
<1>3. Cells(g, d) \subseteq DOMAIN g
  BY CellsClosed
<1>. QED  BY <1>1, <1>2, <1>3 DEF Apart

LEMMA CopiesAre ==
  ASSUME NEW h, NEW s \in Copying(h)
  PROVE  /\ Good(s.heap) /\ Extends(h, s.heap) /\ s.got \in Seq(DOMAIN s.heap)
         /\ Elements(s.heap, s.got)
BY DEF Copying, Elements

LEMMA fn_listSteps ==
  ASSUME Inv, fn_list
  PROVE  Stepped
<1>1. Top.kind = "LIST"
  BY DEF fn_list
<1>2. Top.kind \in Kinds /\ ~Assigns(Top)
  BY <1>1 DEF Kinds, Assigns
<1>3. CASE Fail(Failed)
  BY <1>2, <1>3, FailSteps
<1>4. ASSUME NEW s, s = CopyEach(heap, Top.got),
             Leave(list(s.heap, s.got).heap, Front(pending), list(s.heap, s.got).at)
      PROVE  Stepped
  <2>1. Top \in Ops(DOMAIN heap)
    BY <1>2, TopIs
  <2>2. PICK got : got = Top.got
    OBVIOUS
  <2>3. got \in Seq(DOMAIN heap)
    BY <2>1, <2>2 DEF Ops
  <2>4. CopyEach(heap, got) \in Copying(heap)
    BY <2>3, InvIs, CopyEachIs
  <2>5. s \in Copying(heap)
    BY <1>4, <2>2, <2>4
  <2>6. Good(s.heap) /\ Extends(heap, s.heap) /\ Elements(s.heap, s.got)
    BY <2>5, CopiesAre
  <2>7. PICK g, cells : g = s.heap /\ cells = s.got
    OBVIOUS
  <2>8. Good(g) /\ Extends(heap, g) /\ Elements(g, cells)
    BY <2>6, <2>7
  <2>9. Leave(list(g, cells).heap, Front(pending), list(g, cells).at)
    BY <1>4, <2>7
  <2>. QED  BY <1>2, <2>8, <2>9, ListSteps
<1>5. Fail(Failed) \/ \E s : /\ s = CopyEach(heap, Top.got)
                             /\ Leave(list(s.heap, s.got).heap, Front(pending), list(s.heap, s.got).at)
  BY DEF fn_list
<1>. QED  BY <1>3, <1>4, <1>5

LEMMA ContributedCopies ==
  ASSUME Inv, NEW c \in DOMAIN heap, NEW s, s = CopyEach(heap, Contributed(heap, c))
  PROVE  s \in Copying(heap)
<1>1. PICK t : t = Contributed(heap, c)
  OBVIOUS
<1>2. t \in Seq(DOMAIN heap)
  BY <1>1, InvIs, ElementsAre DEF Elements
<1>3. CopyEach(heap, t) \in Copying(heap)
  BY <1>2, InvIs, CopyEachIs
<1>. QED  BY <1>1, <1>3

\* An operation that collects, and what it holds.
LEMMA CommaIs ==
  ASSUME NEW D, NEW got \in Seq(D)
  PROVE  /\ Op("comma", <<>>, 0, got) \in Ops(D) /\ ~Assigns(Op("comma", <<>>, 0, got))
         /\ Op("comma", <<>>, 0, got).got = got /\ Op("comma", <<>>, 0, got).kind = "comma"
<1>1. "comma" \in Kinds /\ "comma" \notin {"=", "+=", "index", "TAKE", "DROP"}
  BY DEF Kinds
<1>2. PICK path : path = <<>>
  OBVIOUS
<1>3. path \in Path /\ 0 \in Nat
  BY <1>2 DEF Path
<1>4. PICK op, kind : op = Op(kind, path, 0, got) /\ kind = "comma"
  OBVIOUS
<1>5. op \in Ops(D) /\ op.got = got /\ op.kind = "comma"
  <2>1. kind \in Kinds /\ kind \notin {"=", "+=", "index", "TAKE", "DROP"}
    BY <1>1, <1>4
  <2>2. /\ kind \in {"=", "+="} => path # <<>> /\ Len(path) + 0 <= MaxDepth
        /\ kind \in {"index", "TAKE", "DROP"} => got # <<>>
    BY <2>1
  <2>. QED  BY <1>3, <1>4, <2>1, <2>2, OpIs
<1>6. ~Assigns(op)
  BY <1>5 DEF Assigns
<1>. QED  BY <1>2, <1>4, <1>5, <1>6

LEMMA BeginListSteps ==
  ASSUME Inv, BeginList
  PROVE  Stepped
<1>1. result \in DOMAIN heap
  BY InvIs DEF BeginList
<1>2. CASE Leave(heap, pending, Failed)
  <2>1. Moves(heap, pending, Failed)
    BY NotCells, InvIs, ExtendsSame, StayIs
  <2>. QED  BY <1>2, <2>1, SteppedTo
<1>3. ASSUME NEW s, s = CopyEach(heap, Contributed(heap, result)),
             Leave(s.heap, Append(pending, Op("comma", <<>>, 0, s.got)), Absent)
      PROVE  Stepped
  <2>1. s \in Copying(heap)
    BY <1>1, <1>3, ContributedCopies
  <2>2. PICK g, got : g = s.heap /\ got = s.got
    OBVIOUS
  <2>3. Good(g) /\ Extends(heap, g) /\ got \in Seq(DOMAIN g) /\ AllApart(g, got)
    BY <2>1, <2>2, CopiesAre DEF Elements
  <2>4. \A d \in DOMAIN heap : \A i \in 1 .. Len(got) : Apart(g, d, got[i])
    BY <2>1, <2>2, InvIs, CopiedApart
  <2>5. PICK op : op = Op("comma", <<>>, 0, got)
    OBVIOUS
  <2>6. op \in Ops(DOMAIN g) /\ ~Assigns(op) /\ op.got = got
    BY <2>3, <2>5, CommaIs
  <2>7. Adds(g, pending, op)
    <3>1. \A i \in 1 .. Len(pending) : \A j \in 1 .. Len(pending[i].got) :
            pending[i].got[j] \in DOMAIN heap
      BY InvIs, OpsAre
    <3>. QED  BY <2>3, <2>4, <2>6, <3>1, InvIs DEF Adds
  <2>8. Moves(g, Append(pending, op), Absent)
    BY <2>3, <2>6, <2>7, NotCells, PushIs
  <2>9. Leave(g, Append(pending, op), Absent)
    BY <1>3, <2>2, <2>5
  <2>. QED  BY <2>8, <2>9, SteppedTo
<1>4. Leave(heap, pending, Failed) \/
      \E s : /\ s = CopyEach(heap, Contributed(heap, result))
             /\ Leave(s.heap, Append(pending, Op("comma", <<>>, 0, s.got)), Absent)
  BY DEF BeginList
<1>. QED  BY <1>2, <1>3, <1>4

\* What a comma had collected, and the copies of one more operand.
LEMMA CollectedMore ==
  ASSUME Inv, Top.kind = "comma", NEW s \in Copying(heap), NEW got, got = Top.got \o s.got,
         NEW op, op = [Top EXCEPT !.got = got]
  PROVE  /\ Elements(s.heap, got) /\ op \in Ops(DOMAIN s.heap) /\ ~Assigns(op)
         /\ Keeps(Top, op) /\ Adds(s.heap, Front(pending), op)
<1>1. Top.kind \in Kinds
  BY DEF Kinds
<1>2. PICK g, had, new, m, n : /\ g = s.heap /\ had = Top.got /\ new = s.got
                               /\ m = Len(had) /\ n = Len(new)
  OBVIOUS
<1>3. /\ Good(g) /\ Extends(heap, g) /\ new \in Seq(DOMAIN g) /\ AllApart(g, new)
      /\ DOMAIN heap \subseteq DOMAIN g
  BY <1>2, CopiesAre DEF Elements, Extends
<1>4. \A d \in DOMAIN heap : \A i \in 1 .. n : Apart(g, d, new[i])
  BY <1>2, InvIs, CopiedApart
<1>5. /\ Top \in Ops(DOMAIN heap) /\ Len(pending) \in 1 .. Len(pending)
      /\ pending[Len(pending)] = Top
      /\ Front(pending) = SubSeq(pending, 1, Len(pending) - 1)
      /\ Top = [kind |-> Top.kind, path |-> Top.path, left |-> Top.left, got |-> Top.got]
  BY <1>1, TopIs
<1>6. had \in Seq(DOMAIN heap)
  BY <1>2, <1>5 DEF Ops
<1>7. m \in Nat /\ n \in Nat
  BY <1>2, <1>3, <1>6
<1>8. had \in Seq(DOMAIN g) /\ \A i \in 1 .. m : had[i] \in DOMAIN heap
  BY <1>2, <1>3, <1>6
<1>9. (\A i \in 1 .. m + n : i \in 1 .. m \/ i \in m + 1 .. m + n) /\ (\A i \in 1 .. m : i \in 1 .. m + n)
  BY <1>7
<1>10. got = had \o new
  BY <1>2
<1>11. got \in Seq(DOMAIN g) /\ Len(got) = m + n /\ \A i \in 1 .. m : got[i] = had[i]
  <2>1. PICK D : D = DOMAIN g
    OBVIOUS
  <2>2. had \in Seq(D) /\ new \in Seq(D) /\ m = Len(had) /\ n = Len(new)
    BY <1>2, <1>3, <1>8, <2>1
  <2>3. got \in Seq(D) /\ Len(got) = m + n
    BY <1>10, <2>2
  <2>4. \A i \in 1 .. m : got[i] = had[i]
    BY <1>7, <1>10, <2>2
  <2>. QED  BY <2>1, <2>3, <2>4
<1>12. ASSUME NEW i \in m + 1 .. m + n PROVE i - m \in 1 .. n /\ got[i] = new[i - m]
  <2>1. i - m \in 1 .. n /\ i \in 1 .. m + n /\ i > m
    BY <1>7
  <2>2. got[i] = new[i - m]
    BY <1>2, <1>3, <1>8, <1>7, <1>10, <2>1
  <2>. QED  BY <2>1, <2>2
<1>13. Fits(g, pending, Absent)
  BY <1>3, NotCells, ExtendsFits
<1>14. OwnedApart(g, pending)
  BY <1>13 DEF Fits
<1>15. Collects(pending, Len(pending))
  BY <1>5 DEF Collects
<1>16. \A c, d : Apart(g, c, d) => Apart(g, d, c)
  BY DEF Apart
<1>17. \A i \in 1 .. m : Apart(g, root, had[i])
  BY <1>2, <1>5, <1>14, <1>15 DEF OwnedApart
<1>18. \A i \in m + 1 .. m + n : i - m \in 1 .. n /\ got[i] = new[i - m]
  BY <1>12
<1>19. \A d \in DOMAIN heap : \A i \in m + 1 .. m + n : Apart(g, d, got[i])
  BY <1>4, <1>18
<1>20. \A i \in 1 .. m + n : Apart(g, root, got[i])
  <2>1. root \in DOMAIN heap /\ \A i \in 1 .. m : Apart(g, root, got[i])
    BY <1>11, <1>17, InvIs
  <2>. QED  BY <1>9, <1>19, <2>1
<1>21. \A i, j \in 1 .. m : i # j => Apart(g, had[i], had[j])
  BY <1>2, <1>5, <1>14, <1>15 DEF OwnedApart
<1>22. \A i, j \in 1 .. m + n : i # j => Apart(g, got[i], got[j])
  <2>1. ASSUME NEW i \in 1 .. m + n, NEW j \in 1 .. m + n, i # j
        PROVE  Apart(g, got[i], got[j])
    <3>1. CASE i \in 1 .. m /\ j \in 1 .. m
      BY <1>11, <1>21, <2>1, <3>1
    <3>2. CASE i \in 1 .. m /\ j \in m + 1 .. m + n
      BY <1>8, <1>11, <1>19, <3>2
    <3>3. CASE i \in m + 1 .. m + n /\ j \in 1 .. m
      BY <1>8, <1>11, <1>16, <1>19, <3>3
    <3>4. CASE i \in m + 1 .. m + n /\ j \in m + 1 .. m + n
      <4>1. i - m # j - m
        BY <1>7, <2>1
      <4>2. \A a, b \in 1 .. n : a # b => Apart(g, new[a], new[b])
        BY <1>2, <1>3 DEF AllApart, Apart
      <4>3. i - m \in 1 .. n /\ got[i] = new[i - m] /\ j - m \in 1 .. n /\ got[j] = new[j - m]
        BY <1>18, <3>4
      <4>4. Apart(g, new[i - m], new[j - m])
        BY <4>1, <4>2, <4>3
      <4>. QED  BY <4>3, <4>4
    <3>5. (i \in 1 .. m \/ i \in m + 1 .. m + n) /\ (j \in 1 .. m \/ j \in m + 1 .. m + n)
      BY <1>9
    <3>. QED  BY <3>1, <3>2, <3>3, <3>4, <3>5
  <2>. QED  BY <2>1
<1>23. AllApart(g, got)
  BY <1>11, <1>22 DEF AllApart, Apart
<1>24. /\ op = [kind |-> "comma", path |-> Top.path, left |-> Top.left, got |-> got]
       /\ op.kind = "comma" /\ op.got = got
  BY <1>5
<1>25. op \in Ops(DOMAIN g) /\ ~Assigns(op)
  <2>1. ~Assigns(op)
    BY <1>24 DEF Assigns
  <2>2. Top.path \in Path /\ Top.left \in Nat
    BY <1>5 DEF Ops
  <2>3. op \in [kind : Kinds, path : Path, left : Nat, got : Seq(DOMAIN g)]
    BY <1>1, <1>11, <1>24, <2>2
  <2>. QED  BY <1>24, <2>1, <2>3 DEF Ops
<1>26. Keeps(Top, op)
  BY <1>2, <1>11, <1>24, <1>9 DEF Keeps
<1>27. Adds(g, Front(pending), op)
  <2>1. PICK q, l : q = Front(pending) /\ l = Len(pending)
    OBVIOUS
  <2>2. Len(q) = l - 1 /\ \A i \in 1 .. l - 1 : q[i] = pending[i] /\ i \in 1 .. l /\ i # l
    <3>1. l \in Nat /\ l >= 1 /\ pending \in Seq(Ops(DOMAIN heap))
      BY <1>5, <2>1, InvIs
    <3>2. q = SubSeq(pending, 1, l - 1)
      BY <1>5, <2>1
    <3>. QED  BY <2>1, <3>1, <3>2
  <2>3. \A i \in 1 .. l - 1 : Collects(q, i) => Collects(pending, i)
    BY <2>1, <2>2 DEF Collects
  <2>4. \A i \in 1 .. l - 1 : \A j \in 1 .. Len(q[i].got) : q[i].got[j] \in DOMAIN heap
    BY <2>1, <2>2, InvIs, OpsAre
  <2>5. ASSUME NEW i \in 1 .. l - 1, Collects(q, i), NEW j \in 1 .. Len(q[i].got),
               NEW k \in 1 .. m + n
        PROVE  Apart(g, q[i].got[j], got[k])
    <3>1. CASE k \in 1 .. m
      <4>1. Apart(g, pending[i].got[j], pending[l].got[k])
        BY <1>2, <1>5, <1>14, <1>15, <2>1, <2>2, <2>3, <2>5, <3>1 DEF OwnedApart
      <4>. QED  BY <1>2, <1>5, <1>11, <2>1, <2>2, <3>1, <4>1
    <3>2. CASE k \in m + 1 .. m + n
      BY <1>19, <2>4, <2>5, <3>2
    <3>3. k \in 1 .. m \/ k \in m + 1 .. m + n
      BY <1>9
    <3>. QED  BY <3>1, <3>2, <3>3
  <2>. QED  BY <1>11, <1>20, <1>23, <1>24, <2>1, <2>2, <2>5 DEF Adds
<1>. QED  BY <1>2, <1>11, <1>23, <1>25, <1>26, <1>27 DEF Elements

LEMMA eval_listSteps ==
  ASSUME Inv, eval_list
  PROVE  Stepped
<1>1. Yielded /\ Top.kind = "comma"
  BY DEF eval_list
<1>2. Top.kind \in Kinds /\ ~Assigns(Top) /\ result \in DOMAIN heap
  BY <1>1, InvIs DEF Kinds, Assigns
<1>3. CASE Fail(Failed)
  BY <1>2, <1>3, FailSteps
<1>. DEFINE Goes(s, got) ==
       \/ Leave(s.heap, Replace([Top EXCEPT !.got = got]), Absent)
       \/ Leave(list(s.heap, got).heap, Front(pending), list(s.heap, got).at)
<1>4. ASSUME NEW s, s = CopyEach(heap, Contributed(heap, result)), NEW got, got = Top.got \o s.got,
             Goes(s, got)
      PROVE  Stepped
  <2>1. s \in Copying(heap)
    BY <1>2, <1>4, ContributedCopies
  <2>2. PICK g, op : g = s.heap /\ op = [Top EXCEPT !.got = got]
    OBVIOUS
  <2>3. /\ Elements(g, got) /\ op \in Ops(DOMAIN g) /\ ~Assigns(op)
        /\ Keeps(Top, op) /\ Adds(g, Front(pending), op)
    BY <1>1, <1>4, <2>1, <2>2, CollectedMore
  <2>4. Good(g) /\ Extends(heap, g)
    BY <2>1, <2>2, CopiesAre
  <2>5. CASE Leave(s.heap, Replace([Top EXCEPT !.got = got]), Absent)
    <3>1. Moves(g, Replace(op), Absent)
      BY <1>2, <2>3, <2>4, NotCells, TurnIs
    <3>2. Leave(g, Replace(op), Absent)
      BY <2>2, <2>5
    <3>. QED  BY <3>1, <3>2, SteppedTo
  <2>6. CASE Leave(list(s.heap, got).heap, Front(pending), list(s.heap, got).at)
    <3>1. Leave(list(g, got).heap, Front(pending), list(g, got).at)
      BY <2>2, <2>6
    <3>. QED  BY <1>2, <2>3, <2>4, <3>1, ListSteps
  <2>. QED  BY <1>4, <2>5, <2>6
<1>5. Fail(Failed) \/
      \E s, got : /\ s = CopyEach(heap, Contributed(heap, result)) /\ got = Top.got \o s.got
                  /\ Goes(s, got)
  BY DEF eval_list
<1>. QED
  <2>. HIDE DEF Goes
  <2>. QED  BY <1>3, <1>4, <1>5
-----------------------------------------------------------------------------
(* The actions of an assignment.                                            *)

LEMMA CellsAreCells ==
  ASSUME NEW h, IsHeap(h), NEW c \in DOMAIN h
  PROVE  IsCell(c)
<1>1. c \in Nat
  BY HeapIs
<1>. QED  BY <1>1, MarksAssumption DEF IsCell

\* The assignment innermost is the last of those under way.
LEMMA GoalIs ==
  ASSUME Inv, Assigns(Top)
  PROVE  /\ Top.kind \in Kinds /\ Top.path \in Path /\ Top.path # <<>> /\ Top.left \in Nat
         /\ Len(Top.path) + Top.left <= MaxDepth
         /\ Opens(pending) # <<>> /\ Front(Opens(pending)) = Opens(Front(pending))
         /\ Last(Opens(pending)).path = Top.path /\ Last(Opens(pending)).left = Top.left
         /\ Opens(pending) = Append(Opens(Front(pending)), [path |-> Top.path, left |-> Top.left])
         /\ Opens(Front(pending)) \in Seq(Goals)
<1>1. Top.kind \in Kinds
  BY DEF Assigns, Kinds
<1>2. PICK q : q = Front(pending)
  OBVIOUS
<1>3. /\ Top \in Ops(DOMAIN heap) /\ q \in Seq(Ops(DOMAIN heap)) /\ pending = Append(q, Top)
  BY <1>1, <1>2, TopIs
<1>4. /\ Top.path \in Path /\ Top.path # <<>> /\ Top.left \in Nat
      /\ Len(Top.path) + Top.left <= MaxDepth
  BY <1>3 DEF Ops
<1>5. Opens(Append(q, Top)) = OpenOne(Opens(q), Top) /\ Opens(q) \in Seq(Goals)
  BY <1>3, OpensPush
<1>6. PICK o, g : o = Opens(q) /\ g = [path |-> Top.path, left |-> Top.left]
  OBVIOUS
<1>7. Opens(pending) = Append(o, g) /\ o \in Seq(Goals)
  BY <1>3, <1>5, <1>6 DEF OpenOne
<1>8. g \in Goals /\ g.path = Top.path /\ g.left = Top.left
  BY <1>4, <1>6 DEF Goals
<1>9. Append(o, g) # <<>> /\ Front(Append(o, g)) = o /\ Last(Append(o, g)) = g
  BY <1>7, <1>8 DEF Front, Last
<1>. QED  BY <1>1, <1>2, <1>4, <1>6, <1>7, <1>8, <1>9

\* The levels a walk makes are within the depth its path is.
LEMMA WalkFits ==
  ASSUME Inv, NEW path \in Path, Len(path) <= MaxDepth, NEW w, w = walk_create(heap, path)
  PROVE  /\ Spares(heap, w.heap) /\ Within(w.heap, root, MaxDepth)
         /\ \A r : ~IsCell(r) => Fits(w.heap, pending, r)
         /\ TreeOf(w.heap, root) = GrownTree(TreeOf(heap, root), path)
         /\ w.at \in DOMAIN w.heap
<1>1. Good(heap) /\ root \in DOMAIN heap
  BY InvIs
<1>2. WalkedTo(heap, path, w)
  BY <1>1, WalkIs
<1>3. Spares(heap, w.heap)
  BY <1>2, RootOnlySpares DEF WalkedTo
<1>4. PICK T : T = TreeOf(heap, root)
  OBVIOUS
<1>5. IsTree(T) /\ DOMAIN T = DOMAIN Layout(heap, root)
  BY <1>1, <1>4, TreeOfIs DEF TreeOf
<1>6. /\ DOMAIN GrownTree(T, path) = DOMAIN T \cup Lacks(T, path)
      /\ \A q : q \in Lacks(T, path) => q \in Path /\ IsPrefix(q, path)
  BY <1>5, GrownIs
<1>7. \A q \in Path : IsPrefix(q, path) => Len(q) <= Len(path)
  BY PathEnds DEF IsPrefix
<1>8. DOMAIN Layout(w.heap, root) = DOMAIN GrownTree(T, path)
  <2>1. DOMAIN TreeOf(w.heap, root) = DOMAIN Layout(w.heap, root)
    BY DEF TreeOf
  <2>. QED  BY <1>2, <1>4, <2>1 DEF WalkedTo
<1>9. ASSUME NEW q \in DOMAIN Layout(w.heap, root) PROVE Len(q) <= MaxDepth
  <2>1. CASE q \in DOMAIN T
    BY <1>5, <2>1, InvIs DEF Within
  <2>2. CASE q \in Lacks(T, path)
    <3>1. q \in Path /\ Len(q) <= Len(path)
      BY <1>6, <1>7, <2>2
    <3>2. Len(q) \in Nat /\ Len(path) \in Nat /\ MaxDepth \in Nat
      BY <3>1, MaxDepthAssumption DEF Path
    <3>. QED  BY <3>1, <3>2
  <2>. QED  BY <1>6, <1>8, <2>1, <2>2
<1>10. Within(w.heap, root, MaxDepth)
  BY <1>9 DEF Within
<1>11. \A r : ~IsCell(r) => Fits(w.heap, pending, r)
  BY <1>3, <1>10, SparesFits DEF Inv
<1>12. w.at \in DOMAIN w.heap
  <2>1. Good(w.heap) /\ root \in DOMAIN w.heap
    BY <1>1, <1>3 DEF Spares
  <2>2. Lays(w.heap, root, Layout(w.heap, root))
    BY <2>1, LayoutLays
  <2>. QED  BY <1>2, <2>2 DEF WalkedTo, Lays
<1>. QED  BY <1>2, <1>3, <1>4, <1>10, <1>11, <1>12 DEF WalkedTo

LEMMA TargetSteps ==
  ASSUME Inv, NEW kind \in {"=", "+="}, Target(kind)
  PROVE  Stepped
<1>1. PICK x \in Names, n \in 0 .. MaxDepth :
        IF n + 1 > MaxDepth THEN Leave(heap, pending, Failed)
        ELSE Leave(IF n > 0 THEN walk_create(heap, <<x>>).heap ELSE heap,
                   Append(pending, Op(kind, <<x>>, n, <<>>)), Absent)
  BY DEF Target
<1>2. CASE n + 1 > MaxDepth
  <2>1. Moves(heap, pending, Failed)
    BY NotCells, InvIs, ExtendsSame, StayIs
  <2>. QED  BY <1>1, <1>2, <2>1, SteppedTo
<1>3. CASE ~(n + 1 > MaxDepth)
  <2>1. n \in Nat /\ MaxDepth \in Nat /\ 1 + n <= MaxDepth
    BY <1>3, MaxDepthAssumption
  <2>2. PICK path, got, h, op : /\ path = <<x>> /\ got = <<>>
                           /\ h = (IF n > 0 THEN walk_create(heap, path).heap ELSE heap)
                           /\ op = Op(kind, path, n, got)
    OBVIOUS
  <2>3. path \in Path /\ path # <<>> /\ Len(path) = 1
    BY <2>2 DEF Path, Keys
  <2>4. /\ Spares(heap, h) /\ Fits(h, pending, Absent)
        /\ TreeOf(h, root) = IF n > 0 THEN GrownTree(TreeOf(heap, root), path)
                             ELSE TreeOf(heap, root)
    <3>1. CASE n > 0
      <4>1. PICK w : w = walk_create(heap, path)
        OBVIOUS
      <4>2. Len(path) <= MaxDepth
        BY <2>1, <2>3
      <4>. QED  BY <2>2, <2>3, <3>1, <4>1, <4>2, WalkFits, NotCells
    <3>2. CASE ~(n > 0)
      <4>1. Spares(heap, heap) /\ Fits(heap, pending, Absent)
        BY InvIs, SparesSame, FitsYields, NotCells DEF Inv
      <4>. QED  BY <2>2, <3>2, <4>1
    <3>. QED  BY <3>1, <3>2
  <2>5. op \in Ops(DOMAIN h) /\ op.kind = kind /\ op.path = path /\ op.left = n
    <3>1. kind \in Kinds /\ kind \notin {"index", "TAKE", "DROP"}
      BY DEF Kinds
    <3>2. got \in Seq(DOMAIN h)
      BY <2>2
    <3>3. op = [kind |-> kind, path |-> path, left |-> n, got |-> got]
      BY <2>2 DEF Op
    <3>4. op.kind = kind /\ op.path = path /\ op.left = n
      BY <3>3
    <3>5. op \in [kind : Kinds, path : Path, left : Nat, got : Seq(DOMAIN h)]
      BY <2>1, <2>3, <3>1, <3>2, <3>3
    <3>6. Len(path) + n <= MaxDepth
      BY <2>1, <2>3
    <3>. QED  BY <2>3, <3>1, <3>4, <3>5, <3>6 DEF Ops
  <2>6. Assigns(op) /\ Adds(h, pending, op)
    BY <2>5 DEF Assigns, Adds
  <2>7. PICK p : p = Append(pending, op)
    OBVIOUS
  <2>8. Fits(h, p, Absent)
    BY <2>4, <2>5, <2>6, <2>7, FitsPush
  <2>9. Carries(pending, p)
    BY <2>7, InvIs, CarriesPush
  <2>10. pending \in Seq(Ops(DOMAIN h))
    BY <2>4 DEF Fits, Leavable
  <2>11. Opens(p) = OpenOne(Opens(pending), op)
    BY <2>5, <2>7, <2>10, OpensPush
  <2>12. Opens(p) = Append(Opens(pending), [path |-> <<x>>, left |-> n])
    BY <2>2, <2>5, <2>6, <2>11 DEF OpenOne
  <2>13. TreeOf(h, root) = IF n > 0 THEN GrownTree(TreeOf(heap, root), <<x>>)
                           ELSE TreeOf(heap, root)
    BY <2>2, <2>4
  <2>14. NewGoal(TreeOf(heap, root), Opens(pending), TreeOf(h, root), Opens(p))
    BY <2>1, <2>12, <2>13 DEF NewGoal
  <2>15. Moves(h, p, Absent)
    BY <2>4, <2>8, <2>9, <2>14 DEF Moves, TreeMoves
  <2>16. Leave(h, p, Absent)
    BY <1>1, <1>3, <2>2, <2>7
  <2>. QED  BY <2>15, <2>16, SteppedTo
<1>. QED  BY <1>2, <1>3
\* The assignment innermost goes on, its target further on.
LEMMA AheadIs ==
  ASSUME Inv, Assigns(Top), NEW h, Spares(heap, h), Fits(h, pending, Absent),
         NEW op \in Ops(DOMAIN h), Assigns(op), Keeps(Top, op)
  PROVE  /\ Fits(h, Replace(op), Absent) /\ Carries(pending, Replace(op))
         /\ Opens(Replace(op)) = Append(Front(Opens(pending)), [path |-> op.path, left |-> op.left])
<1>1. PICK q : q = Front(pending)
  OBVIOUS
<1>2. Top.kind \in Kinds /\ Front(Opens(pending)) = Opens(q)
  BY <1>1, GoalIs
<1>3. /\ Len(pending) - 1 \in 0 .. Len(pending) /\ q = SubSeq(pending, 1, Len(pending) - 1)
      /\ pending # <<>> /\ Top = Last(pending)
  BY <1>1, <1>2, TopIs
<1>4. Fits(h, SubSeq(pending, 1, Len(pending) - 1), Absent)
  BY <1>3, FitsPrefix
<1>5. Fits(h, q, Absent) /\ q \in Seq(Ops(DOMAIN h))
  BY <1>3, <1>4 DEF Fits, Leavable
<1>6. Adds(h, q, op)
  BY DEF Adds, Assigns
<1>7. Fits(h, Append(q, op), Absent)
  BY <1>5, <1>6, FitsPush
<1>8. Carries(pending, Append(q, op))
  BY <1>1, <1>3, InvIs, CarriesPush
<1>9. Opens(Append(q, op)) = OpenOne(Opens(q), op)
  BY <1>5, OpensPush
<1>. QED  BY <1>1, <1>2, <1>7, <1>8, <1>9 DEF Replace, OpenOne

LEMMA resolve_targetSteps ==
  ASSUME Inv, resolve_target
  PROVE  Stepped
<1>1. PICK k, path : k = as_text(heap, result) /\ path = Append(Top.path, k)
  OBVIOUS
<1>2. Yielded /\ Assigns(Top) /\ Top.left > 0
  BY DEF resolve_target
<1>3. /\ Top.kind \in Kinds /\ Top.path \in Path /\ Top.path # <<>> /\ Top.left \in Nat
      /\ Len(Top.path) + Top.left <= MaxDepth /\ Opens(pending) # <<>>
      /\ Last(Opens(pending)).path = Top.path /\ Last(Opens(pending)).left = Top.left
  BY <1>2, GoalIs
<1>4. result \in DOMAIN heap
  BY <1>2, InvIs
<1>5. CASE Fail(Failed)
  BY <1>3, <1>5, FailSteps
<1>6. CASE k # Absent /\
           Leave(IF Top.left > 1 THEN walk_create(heap, path).heap ELSE heap,
                 Replace([Top EXCEPT !.path = path, !.left = @ - 1]), Absent)
  <2>1. k \in Keys
    BY <1>1, <1>4, <1>6, InvIs, AsTextIs
  <2>2. PICK l, m : l = Top.left /\ m = Len(Top.path)
    OBVIOUS
  <2>3. l \in Nat /\ l > 0 /\ m \in Nat /\ m + l <= MaxDepth /\ MaxDepth \in Nat
    BY <1>2, <1>3, <2>2, MaxDepthAssumption DEF Path
  <2>4. path \in Path /\ path # <<>> /\ Len(path) = m + 1
    BY <1>1, <1>3, <2>1, <2>2, PathStep
  <2>5. PICK h : h = IF l > 1 THEN walk_create(heap, path).heap ELSE heap
    OBVIOUS
  <2>6. /\ Spares(heap, h) /\ Fits(h, pending, Absent)
        /\ TreeOf(h, root) = IF l > 1 THEN GrownTree(TreeOf(heap, root), path)
                             ELSE TreeOf(heap, root)
    <3>1. CASE l > 1
      <4>1. PICK w : w = walk_create(heap, path)
        OBVIOUS
      <4>2. Len(path) <= MaxDepth
        BY <2>3, <2>4, <3>1
      <4>. QED  BY <2>4, <2>5, <3>1, <4>1, <4>2, WalkFits, NotCells
    <3>2. CASE ~(l > 1)
      <4>1. Spares(heap, heap) /\ Fits(heap, pending, Absent)
        BY InvIs, SparesSame, FitsYields, NotCells DEF Inv
      <4>. QED  BY <2>5, <3>2, <4>1
    <3>. QED  BY <3>1, <3>2
  <2>7. PICK op : op = [Top EXCEPT !.path = path, !.left = @ - 1]
    OBVIOUS
  <2>8. pending \in Seq(Ops(DOMAIN h)) /\ pending[Len(pending)] = Top /\ Len(pending) \in 1 .. Len(pending)
        /\ Top = [kind |-> Top.kind, path |-> Top.path, left |-> Top.left, got |-> Top.got]
    BY <1>3, <2>6, TopIs DEF Fits, Leavable
  <2>9. Top.got \in Seq(DOMAIN h)
    BY <2>8, OpsAre
  <2>10. op = [kind |-> Top.kind, path |-> path, left |-> l - 1, got |-> Top.got]
    BY <2>2, <2>7, <2>8
  <2>11. op.kind = Top.kind /\ op.path = path /\ op.left = l - 1 /\ op.got = Top.got
    BY <2>10
  <2>12. Assigns(op) /\ Keeps(Top, op)
    BY <1>2, <2>11 DEF Assigns, Keeps
  <2>13. op \in Ops(DOMAIN h)
    <3>1. l - 1 \in Nat /\ Len(path) + (l - 1) <= MaxDepth
      BY <2>3, <2>4
    <3>2. op \in [kind : Kinds, path : Path, left : Nat, got : Seq(DOMAIN h)]
      BY <1>3, <2>4, <2>9, <2>10, <3>1
    <3>3. op.kind \notin {"index", "TAKE", "DROP"}
      BY <1>2, <2>11 DEF Assigns
    <3>. QED  BY <2>4, <2>11, <3>1, <3>2, <3>3 DEF Ops
  <2>14. PICK p : p = Replace(op)
    OBVIOUS
  <2>15. /\ Fits(h, p, Absent) /\ Carries(pending, p)
         /\ Opens(p) = Append(Front(Opens(pending)), [path |-> path, left |-> l - 1])
    BY <1>2, <2>6, <2>11, <2>12, <2>13, <2>14, AheadIs
  <2>16. NextKey(TreeOf(heap, root), Opens(pending), TreeOf(h, root), Opens(p))
    <3>1. Last(Opens(pending)).path = Top.path /\ Last(Opens(pending)).left = l
      BY <1>3, <2>2
    <3>2. path = Append(Last(Opens(pending)).path, k)
      BY <1>1, <3>1
    <3>. QED  BY <1>3, <2>1, <2>3, <2>6, <2>15, <3>1, <3>2 DEF NextKey
  <2>17. Moves(h, p, Absent)
    BY <2>6, <2>15, <2>16 DEF Moves, TreeMoves
  <2>18. Leave(h, p, Absent)
    BY <1>6, <2>2, <2>5, <2>7, <2>14
  <2>. QED  BY <2>17, <2>18, SteppedTo
<1>. QED  BY <1>1, <1>5, <1>6 DEF resolve_target

LEMMA ReadTargetSteps ==
  ASSUME Inv, ReadTarget
  PROVE  Stepped
<1>1. PICK w, k, path : /\ path = Front(Top.path) /\ w = walk_create(heap, path)
                        /\ k = Last(Top.path)
  OBVIOUS
<1>2. Top.kind = "+=" /\ Top.left = 0 /\ Top.got = <<>>
  BY DEF ReadTarget, ReadsTarget
<1>3. Assigns(Top)
  BY <1>2 DEF Assigns
<1>4. /\ Top.kind \in Kinds /\ Top.path \in Path /\ Top.path # <<>>
      /\ Len(Top.path) + Top.left <= MaxDepth /\ Opens(pending) # <<>>
      /\ Last(Opens(pending)).path = Top.path /\ Last(Opens(pending)).left = Top.left
      /\ Front(Opens(pending)) = Opens(Front(pending))
      /\ Opens(pending) = Append(Front(Opens(pending)), [path |-> Top.path, left |-> Top.left])
  BY <1>3, GoalIs
<1>5. path \in Path /\ Len(path) = Len(Top.path) - 1 /\ Len(Top.path) \in Nat
  BY <1>1, <1>4, PathEnds
<1>6. Len(path) <= MaxDepth
  BY <1>2, <1>4, <1>5, MaxDepthAssumption
<1>7. PICK h : h = w.heap
  OBVIOUS
<1>8. /\ Spares(heap, h) /\ \A r : ~IsCell(r) => Fits(h, pending, r)
      /\ TreeOf(h, root) = GrownTree(TreeOf(heap, root), path) /\ w.at \in DOMAIN h
  BY <1>1, <1>5, <1>6, <1>7, WalkFits
<1>9. Fits(h, pending, Absent) /\ Fits(h, pending, Missing)
  BY <1>8, NotCells
<1>10. CASE k \in KeysIn(h, w.at) /\
            Leave(h, Replace([Top EXCEPT !.got = <<get(h, w.at, k)>>]), Absent)
  <2>1. PICK op, got : /\ got = <<get(h, w.at, k)>>
                       /\ op = [Top EXCEPT !.got = <<get(h, w.at, k)>>]
    OBVIOUS
  <2>2. got \in Seq(DOMAIN h)
    <3>1. Good(h)
      BY <1>8 DEF Spares
    <3>2. get(h, w.at, k) \in DOMAIN h
      BY <1>8, <1>10, <3>1, GetIs DEF Good
    <3>. QED  BY <2>1, <3>2
  <2>3. pending \in Seq(Ops(DOMAIN h)) /\ pending[Len(pending)] = Top /\ Len(pending) \in 1 .. Len(pending)
        /\ Top = [kind |-> Top.kind, path |-> Top.path, left |-> Top.left, got |-> Top.got]
    BY <1>4, <1>9, TopIs DEF Fits, Leavable
  <2>4. op = [kind |-> Top.kind, path |-> Top.path, left |-> Top.left, got |-> got]
    BY <2>1, <2>3
  <2>5. op.kind = Top.kind /\ op.path = Top.path /\ op.left = Top.left /\ op.got = got
    BY <2>4
  <2>6. Assigns(op) /\ Keeps(Top, op)
    <3>1. Len(Top.got) = 0
      BY <1>2
    <3>. QED  BY <1>3, <2>5, <3>1 DEF Assigns, Keeps
  <2>7. op \in Ops(DOMAIN h)
    <3>1. Top \in Ops(DOMAIN h)
      BY <2>3, OpsAre
    <3>2. op \in [kind : Kinds, path : Path, left : Nat, got : Seq(DOMAIN h)]
      BY <2>2, <2>4, <3>1 DEF Ops
    <3>3. op.kind \notin {"index", "TAKE", "DROP"}
      BY <1>2, <2>5
    <3>. QED  BY <1>4, <2>5, <3>2, <3>3 DEF Ops
  <2>8. PICK p : p = Replace(op)
    OBVIOUS
  <2>9. /\ Fits(h, p, Absent) /\ Carries(pending, p)
        /\ Opens(p) = Append(Front(Opens(pending)), [path |-> Top.path, left |-> Top.left])
    BY <1>3, <1>8, <1>9, <2>5, <2>6, <2>7, <2>8, AheadIs
  <2>10. Opens(p) = Opens(pending)
    BY <1>4, <2>9
  <2>11. ReadGoal(TreeOf(heap, root), Opens(pending), TreeOf(h, root), Opens(p), YieldOf(h, Absent))
    BY <1>1, <1>2, <1>4, <1>8, <2>10 DEF ReadGoal
  <2>12. Moves(h, p, Absent)
    BY <1>8, <2>9, <2>11 DEF Moves, TreeMoves
  <2>. QED  BY <1>10, <2>1, <2>8, <2>12, SteppedTo
<1>11. CASE Leave(h, Front(pending), Missing)
  <2>1. PICK p : p = Front(pending)
    OBVIOUS
  <2>2. Len(pending) - 1 \in 0 .. Len(pending) /\ p = SubSeq(pending, 1, Len(pending) - 1)
    BY <1>4, <2>1, TopIs
  <2>3. Fits(h, SubSeq(pending, 1, Len(pending) - 1), Missing)
    BY <1>9, <2>2, FitsPrefix
  <2>4. Carries(pending, SubSeq(pending, 1, Len(pending) - 1))
    BY <2>2, InvIs, CarriesPrefix
  <2>5. YieldOf(h, Missing) = {}
    BY NotCells DEF YieldOf
  <2>6. ReadGoal(TreeOf(heap, root), Opens(pending), TreeOf(h, root), Opens(p), YieldOf(h, Missing))
    BY <1>1, <1>2, <1>4, <1>8, <2>1, <2>5 DEF ReadGoal
  <2>7. Moves(h, p, Missing)
    BY <1>8, <2>2, <2>3, <2>4, <2>6 DEF Moves, TreeMoves
  <2>. QED  BY <1>11, <2>1, <2>7, SteppedTo
<1>. QED  BY <1>1, <1>7, <1>10, <1>11 DEF ReadTarget
\* A tree of its own, stored at the target of the assignment innermost.
LEMMA StoreMoves ==
  ASSUME Inv, Assigns(Top), Top.left = 0, NEW g, Good(g), Extends(heap, g), NEW v,
         Fresh(heap, g, v),
         \A r \in DOMAIN Layout(g, v) : Len(Top.path) + Len(r) <= MaxDepth
  PROVE  Moves(StoreAt(g, Top.path, v), Front(pending), v)
<1>1. PICK h, path, p : h = StoreAt(g, Top.path, v) /\ path = Top.path /\ p = Front(pending)
  OBVIOUS
<1>2. /\ Top.kind \in Kinds /\ path \in Path /\ path # <<>>
      /\ Len(path) + Top.left <= MaxDepth /\ Opens(pending) # <<>>
      /\ Last(Opens(pending)).path = path /\ Last(Opens(pending)).left = Top.left
      /\ Front(Opens(pending)) = Opens(p)
  BY <1>1, GoalIs
<1>3. Good(heap) /\ root \in DOMAIN heap /\ root \in DOMAIN g /\ v \in DOMAIN g
  BY InvIs DEF Extends, Fresh
<1>4. Joins(heap, g, v)
  BY <1>3, FreshJoins
<1>5. Alone(g, v)
  BY <1>4 DEF Joins
<1>6. StoredAt(g, path, v, h)
  BY <1>1, <1>2, <1>3, <1>5, StoreAtIs
<1>7. Spares(heap, h)
  BY <1>3, <1>6, StoredSpares
<1>8. Kept(heap, g, root)
  BY <1>3, ExtendsKept
<1>9. PICK T, V : T = TreeOf(heap, root) /\ V = TreeOf(g, v)
  OBVIOUS
<1>10. TreeOf(g, root) = T
  BY <1>8, <1>9, KeptIs
<1>11. TreeOf(h, root) = StoredTree(T, path, V)
  BY <1>6, <1>9, <1>10 DEF StoredAt
<1>12. TreeOf(h, v) = V /\ v \in DOMAIN h /\ Good(h)
  <2>1. Kept(g, h, v) /\ DOMAIN g \subseteq DOMAIN h /\ Good(h)
    BY <1>6 DEF StoredAt
  <2>. QED  BY <1>3, <1>9, <2>1, KeptIs
<1>13. IsCell(v)
  BY <1>12, CellsAreCells DEF Good
<1>14. Within(h, root, MaxDepth)
  <2>1. IsTree(T) /\ DOMAIN T = DOMAIN Layout(heap, root) /\ DOMAIN V = DOMAIN Layout(g, v)
    BY <1>3, <1>9, TreeOfIs DEF TreeOf
  <2>2. /\ DOMAIN GrownTree(T, path) = DOMAIN T \cup Lacks(T, path)
        /\ \A q : q \in Lacks(T, path) => q \in Path /\ IsPrefix(q, path)
    BY <1>2, <2>1, GrownIs
  <2>3. \A q \in Path : IsPrefix(q, path) => Len(q) <= Len(path)
    BY DEF IsPrefix
  <2>4. Len(path) \in Nat /\ Len(path) <= MaxDepth /\ MaxDepth \in Nat
    BY <1>2, MaxDepthAssumption DEF Path
  <2>5. DOMAIN Layout(h, root) = DOMAIN StoredTree(T, path, V)
    <3>1. DOMAIN TreeOf(h, root) = DOMAIN Layout(h, root)
      BY DEF TreeOf
    <3>. QED  BY <1>11, <3>1
  <2>6. DOMAIN StoredTree(T, path, V) \subseteq
          DOMAIN GrownTree(T, path) \cup {path \o r : r \in DOMAIN V}
    BY DEF StoredTree, StoreOver
  <2>7. DOMAIN V \subseteq Path
    <3>1. Lays(g, v, Layout(g, v))
      BY <1>3, LayoutLays
    <3>. QED  BY <2>1, <3>1 DEF Lays
  <2>8. ASSUME NEW q \in DOMAIN Layout(h, root) PROVE Len(q) <= MaxDepth
    <3>1. CASE q \in DOMAIN T
      BY <2>1, <3>1, InvIs DEF Within
    <3>2. CASE q \in Lacks(T, path)
      <4>1. q \in Path /\ Len(q) <= Len(path) /\ Len(q) \in Nat
        BY <2>2, <2>3, <3>2 DEF Path
      <4>. QED  BY <2>4, <4>1
    <3>3. CASE q \in {path \o r : r \in DOMAIN V}
      <4>1. PICK r \in DOMAIN V : q = path \o r
        BY <3>3
      <4>2. Len(q) = Len(path) + Len(r)
        BY <1>2, <2>7, <4>1, Extending
      <4>3. Len(Top.path) + Len(r) <= MaxDepth
        BY <2>1, <4>1
      <4>. QED  BY <1>1, <4>2, <4>3
    <3>. QED  BY <2>2, <2>5, <2>6, <3>1, <3>2, <3>3
  <2>. QED  BY <2>8 DEF Within
<1>15. Fits(h, pending, v)
  BY <1>7, <1>12, <1>14, SparesFits DEF Inv
<1>16. Len(pending) - 1 \in 0 .. Len(pending) /\ p = SubSeq(pending, 1, Len(pending) - 1)
  BY <1>1, <1>2, TopIs
<1>17. Fits(h, SubSeq(pending, 1, Len(pending) - 1), v)
  BY <1>15, <1>16, FitsPrefix
<1>18. Carries(pending, SubSeq(pending, 1, Len(pending) - 1))
  BY <1>16, InvIs, CarriesPrefix
<1>19. V \in YieldOf(h, v)
  BY <1>12, <1>13 DEF YieldOf
<1>20. PutGoal(TreeOf(heap, root), Opens(pending), TreeOf(h, root), Opens(p), YieldOf(h, v))
  BY <1>2, <1>9, <1>11, <1>19 DEF PutGoal
<1>21. Moves(h, p, v)
  BY <1>7, <1>16, <1>17, <1>18, <1>20 DEF Moves, TreeMoves
<1>. QED  BY <1>1, <1>21

LEMMA AssignSteps ==
  ASSUME Inv, Assign
  PROVE  Stepped
<1>1. Yielded /\ Top.kind = "=" /\ Top.left = 0
  BY DEF Assign
<1>2. Assigns(Top) /\ result \in DOMAIN heap
  BY <1>1, InvIs DEF Assigns
<1>3. Top.kind \in Kinds /\ Top.path \in Path /\ Len(Top.path) + Top.left <= MaxDepth
  BY <1>2, GoalIs
<1>4. CASE Fail(Failed)
  BY <1>3, <1>4, FailSteps
<1>5. ASSUME ~TooDeep(heap, result, Len(Top.path)), NEW copy, copy = deep_copy(heap, result),
             Leave(StoreAt(copy.heap, Top.path, copy.at), Front(pending), copy.at)
      PROVE  Stepped
  <2>1. PICK n : n = Len(Top.path)
    OBVIOUS
  <2>2. n \in Nat /\ MaxDepth \in Nat /\ n \in 0 .. MaxDepth
    BY <1>1, <1>3, <2>1, MaxDepthAssumption DEF Path
  <2>3. Within(heap, result, MaxDepth - n)
    BY <1>2, <1>5, <2>1, <2>2, InvIs, WithinIs
  <2>4. Copies(heap, result, copy)
    BY <1>2, <1>5, InvIs, CopyIs
  <2>5. PICK g, v : g = copy.heap /\ v = copy.at
    OBVIOUS
  <2>6. /\ Good(g) /\ Extends(heap, g) /\ Fresh(heap, g, v)
        /\ DOMAIN Layout(g, v) = DOMAIN Layout(heap, result)
    BY <2>4, <2>5 DEF Copies, Alike
  <2>7. \A r \in DOMAIN Layout(g, v) : n + Len(r) <= MaxDepth
    <3>1. Lays(heap, result, Layout(heap, result))
      BY <1>2, InvIs, LayoutLays
    <3>2. \A r \in DOMAIN Layout(g, v) : Len(r) \in Nat /\ Len(r) <= MaxDepth - n
      BY <2>3, <2>6, <3>1 DEF Lays, Path, Within
    <3>. QED  BY <2>2, <3>2
  <2>8. Moves(StoreAt(g, Top.path, v), Front(pending), v)
    BY <1>1, <1>2, <2>1, <2>6, <2>7, StoreMoves
  <2>. QED  BY <1>5, <2>5, <2>8, SteppedTo
<1>6. Fail(Failed) \/
      (~TooDeep(heap, result, Len(Top.path)) /\
       \E copy : /\ copy = deep_copy(heap, result)
                 /\ Leave(StoreAt(copy.heap, Top.path, copy.at), Front(pending), copy.at))
  BY DEF Assign, CopyDepth
<1>. QED  BY <1>4, <1>5, <1>6

LEMMA CompoundAssignSteps ==
  ASSUME Inv, CompoundAssign
  PROVE  Stepped
<1>1. Yielded /\ Top.kind = "+=" /\ Top.left = 0
  BY DEF CompoundAssign
<1>2. Assigns(Top)
  BY <1>1 DEF Assigns
<1>3. Top.kind \in Kinds /\ Top.path \in Path /\ Len(Top.path) + Top.left <= MaxDepth
  BY <1>2, GoalIs
<1>4. CASE Fail(Failed)
  BY <1>3, <1>4, FailSteps
<1>5. ASSUME NEW t \in Texts, NEW new, new = Alloc(heap, NewCell(t)),
             Leave(StoreAt(new.heap, Top.path, new.at), Front(pending), new.at)
      PROVE  Stepped
  <2>1. AddsLeaf(heap, new)
    BY <1>5, InvIs, NewIs
  <2>2. PICK g, v : g = new.heap /\ v = new.at
    OBVIOUS
  <2>3. /\ Good(g) /\ Extends(heap, g) /\ Fresh(heap, g, v)
        /\ Layout(g, v) = [p \in {<<>>} |-> v]
    BY <2>1, <2>2 DEF AddsLeaf
  <2>4. \A r \in DOMAIN Layout(g, v) : Len(Top.path) + Len(r) <= MaxDepth
    <3>1. DOMAIN Layout(g, v) = {<<>>} /\ Len(<<>>) = 0
      BY <2>3
    <3>2. Len(Top.path) \in Nat /\ Len(Top.path) <= MaxDepth
      BY <1>1, <1>3 DEF Path
    <3>. QED  BY <3>1, <3>2
  <2>5. Moves(StoreAt(g, Top.path, v), Front(pending), v)
    BY <1>1, <1>2, <2>3, <2>4, StoreMoves
  <2>. QED  BY <1>5, <2>2, <2>5, SteppedTo
<1>6. Fail(Failed) \/
      \E t \in Texts : \E new :
        /\ new = Alloc(heap, NewCell(t))
        /\ Leave(StoreAt(new.heap, Top.path, new.at), Front(pending), new.at)
  BY DEF CompoundAssign
<1>. QED  BY <1>4, <1>5, <1>6
-----------------------------------------------------------------------------
(* The tree under a cell, as TreeAt finds it and as its layout gives it.    *)

LEMMA PathShort ==
  ASSUME NEW h, Good(h), NEW c \in DOMAIN h, NEW q \in DOMAIN Layout(h, c)
  PROVE  Len(q) \in Nat /\ Cardinality(DOMAIN h) \in Nat /\ Len(q) <= Cardinality(DOMAIN h)
<1>1. PICK L, m : L = Layout(h, c) /\ m = Len(q)
  OBVIOUS
<1>2. Lays(h, c, L)
  BY <1>1, LayoutLays
<1>3. PICK n \in Nat : DOMAIN h = 0 .. n - 1 /\ Cardinality(DOMAIN h) = n
  BY HeapIs DEF Good
<1>4. q \in Seq(Keys) /\ q \in DOMAIN L /\ m \in Nat
  BY <1>1, <1>2 DEF Lays, Path
<1>5. ASSUME NEW i \in 1 .. m + 1
      PROVE  SubSeq(q, 1, i - 1) \in DOMAIN L /\ Len(SubSeq(q, 1, i - 1)) = i - 1
  <2>1. PICK a : a = SubSeq(q, 1, i - 1)
    OBVIOUS
  <2>2. a \in Path /\ Len(a) = i - 1 /\ Len(a) <= Len(q)
    BY <1>1, <1>4, <2>1 DEF Path
  <2>3. IsPrefix(a, q)
    <3>1. SubSeq(q, 1, Len(a)) = a
      BY <2>1, <2>2
    <3>. QED  BY <1>4, <2>2, <3>1 DEF IsPrefix
  <2>4. a \in DOMAIN L
    BY <1>2, <1>4, <2>2, <2>3, LaysPrefix
  <2>. QED  BY <2>1, <2>2, <2>4
<1>6. PICK t : t = [i \in 1 .. m + 1 |-> L[SubSeq(q, 1, i - 1)]]
  OBVIOUS
<1>7. \A i \in 1 .. m + 1 : t[i] \in 0 .. n - 1
  BY <1>2, <1>3, <1>5, <1>6 DEF Lays
<1>8. t \in Seq(0 .. n - 1) /\ Len(t) = m + 1
  <2>1. PICK K \in Nat : K = m + 1
    BY <1>4
  <2>2. t = [i \in 1 .. K |-> t[i]] /\ \A i \in 1 .. K : t[i] \in 0 .. n - 1
    BY <1>6, <1>7, <2>1
  <2>3. t \in Seq(0 .. n - 1) /\ Len(t) = K
    BY <2>2
  <2>. QED  BY <2>1, <2>3
<1>9. ASSUME NEW i \in 1 .. m + 1, NEW j \in 1 .. m + 1, t[i] = t[j] PROVE i = j
  <2>1. PICK a, b : a = SubSeq(q, 1, i - 1) /\ b = SubSeq(q, 1, j - 1)
    OBVIOUS
  <2>2. a \in DOMAIN L /\ b \in DOMAIN L /\ Len(a) = i - 1 /\ Len(b) = j - 1
    BY <1>5, <2>1
  <2>3. L[a] = L[b]
    BY <1>6, <1>9, <2>1
  <2>4. a = b
    BY <1>2, <2>2, <2>3 DEF Lays
  <2>5. i - 1 = j - 1
    BY <2>2, <2>4
  <2>. QED  BY <1>4, <2>5
<1>10. t \in Once(0 .. n - 1)
  BY <1>8, <1>9 DEF Once
<1>11. Len(t) <= n
  BY <1>10, OnceFits
<1>. QED  BY <1>1, <1>3, <1>4, <1>8, <1>11

\* What TreeAt has found after n rounds: the paths no longer than that.
Found(L, n) == {[path |-> p, cell |-> L[p]] : p \in {q \in DOMAIN L : Len(q) <= n}}
BelowIn(h, e) == {[path |-> Append(e.path, h[e.cell].kids[i].key),
                   cell |-> h[e.cell].kids[i].cell] : i \in DOMAIN h[e.cell].kids}

LEMMA FoundNext ==
  ASSUME NEW h, IsHeap(h), NEW c, NEW L, Lays(h, c, L), NEW n \in Nat
  PROVE  Found(L, n + 1) = Found(L, n) \cup UNION {BelowIn(h, e) : e \in Found(L, n)}
<1>1. \A q \in DOMAIN L : q \in Path /\ L[q] \in DOMAIN h /\ Len(q) \in Nat
  BY DEF Lays, Path
<1>2. \A q \in DOMAIN L, k \in Keys : Len(Append(q, k)) = Len(q) + 1
  BY <1>1, PathStep
<1>3. \A q \in DOMAIN L : \A i \in DOMAIN h[L[q]].kids : h[L[q]].kids[i].key \in Keys
  BY <1>1, CellIs
<1>4. ASSUME NEW p \in DOMAIN L, Len(p) <= n + 1
      PROVE  [path |-> p, cell |-> L[p]] \in
               Found(L, n) \cup UNION {BelowIn(h, e) : e \in Found(L, n)}
  <2>1. CASE Len(p) <= n
    BY <2>1 DEF Found
  <2>2. CASE ~(Len(p) <= n)
    <3>1. p # <<>>
      BY <2>2
    <3>2. PICK q \in DOMAIN L, k \in Keys : p = Append(q, k) /\ HasKid(h, L[q], k, L[p])
      BY <3>1 DEF Lays
    <3>3. Len(q) <= n
      BY <1>1, <1>2, <1>4, <3>2
    <3>4. PICK e : e = [path |-> q, cell |-> L[q]]
      OBVIOUS
    <3>5. e \in Found(L, n) /\ e.path = q /\ e.cell = L[q]
      BY <3>3, <3>4 DEF Found
    <3>6. PICK i \in DOMAIN h[L[q]].kids : h[L[q]].kids[i].key = k /\ h[L[q]].kids[i].cell = L[p]
      BY <3>2 DEF HasKid
    <3>7. [path |-> p, cell |-> L[p]] \in BelowIn(h, e)
      BY <3>2, <3>5, <3>6 DEF BelowIn
    <3>. QED  BY <3>5, <3>7
  <2>. QED  BY <2>1, <2>2
<1>5. ASSUME NEW q \in DOMAIN L, Len(q) <= n, NEW e, e = [path |-> q, cell |-> L[q]],
             NEW f \in BelowIn(h, e)
      PROVE  f \in Found(L, n + 1)
  <2>1. e.path = q /\ e.cell = L[q]
    BY <1>5
  <2>2. PICK i \in DOMAIN h[L[q]].kids :
          f = [path |-> Append(q, h[L[q]].kids[i].key), cell |-> h[L[q]].kids[i].cell]
    BY <2>1 DEF BelowIn
  <2>3. PICK k, d : k = h[L[q]].kids[i].key /\ d = h[L[q]].kids[i].cell
    OBVIOUS
  <2>4. k \in Keys /\ HasKid(h, L[q], k, d)
    BY <1>3, <2>3 DEF HasKid
  <2>5. Append(q, k) \in DOMAIN L /\ L[Append(q, k)] = d
    BY <2>4 DEF Lays
  <2>6. Len(Append(q, k)) <= n + 1
    BY <1>1, <1>2, <1>5, <2>4
  <2>7. f = [path |-> Append(q, k), cell |-> L[Append(q, k)]]
    BY <2>2, <2>3, <2>5
  <2>. QED  BY <2>5, <2>6, <2>7 DEF Found
<1>6. Found(L, n) \subseteq Found(L, n + 1)
  BY <1>1 DEF Found
<1>7. Found(L, n + 1) \subseteq Found(L, n) \cup UNION {BelowIn(h, e) : e \in Found(L, n)}
  BY <1>4 DEF Found
<1>8. UNION {BelowIn(h, e) : e \in Found(L, n)} \subseteq Found(L, n + 1)
  BY <1>5 DEF Found
<1>. QED  BY <1>6, <1>7, <1>8

LEMMA TreeAtIs ==
  ASSUME NEW h, Good(h), NEW c \in DOMAIN h
  PROVE  TreeAt(h, c) = TreeOf(h, c)
<1>. DEFINE Is(f) == f = [n \in Nat |->
                        IF n = 0 THEN {[path |-> <<>>, cell |-> c]}
                        ELSE f[n - 1] \cup UNION {BelowIn(h, e) : e \in f[n - 1]}]
            within == CHOOSE f : Is(f)
            all == within[Cardinality(DOMAIN h)]
            TreeIn(A) == [p \in {e.path : e \in A} |->
                             Node(h, (CHOOSE e \in A : e.path = p).cell)]
<1>1. TreeAt(h, c) = TreeIn(all)
  BY DEF TreeAt, Node, BelowIn
<1>2. PICK L : L = Layout(h, c)
  OBVIOUS
<1>3. Lays(h, c, L) /\ IsHeap(h)
  BY <1>2, LayoutLays DEF Good
<1>4. \A q \in DOMAIN L : q \in Path /\ Len(q) \in Nat /\ (Len(q) <= 0 => q = <<>>)
  BY <1>3 DEF Lays, Path
<1>5. Found(L, 0) = {[path |-> <<>>, cell |-> c]}
  <2>1. <<>> \in DOMAIN L /\ L[<<>>] = c /\ Len(<<>>) <= 0
    BY <1>3 DEF Lays
  <2>2. \A q \in DOMAIN L : Len(q) <= 0 <=> q = <<>>
    BY <1>4, <2>1
  <2>. QED  BY <2>1, <2>2 DEF Found
<1>6. \A n \in Nat : Found(L, n + 1) = Found(L, n) \cup UNION {BelowIn(h, e) : e \in Found(L, n)}
  BY <1>3, FoundNext
<1>7. PICK g : g = [n \in Nat |-> Found(L, n)]
  OBVIOUS
<1>8. Is(g)
  <2>1. ASSUME NEW n \in Nat \ {0}
        PROVE  g[n] = g[n - 1] \cup UNION {BelowIn(h, e) : e \in g[n - 1]}
    <3>1. PICK m \in Nat : m = n - 1 /\ m + 1 = n
      OBVIOUS
    <3>2. Found(L, m + 1) = Found(L, m) \cup UNION {BelowIn(h, e) : e \in Found(L, m)}
      BY <1>6
    <3>3. g[n] = Found(L, m + 1) /\ g[n - 1] = Found(L, m)
      BY <1>7, <3>1
    <3>4. PICK A : A = Found(L, m)
      OBVIOUS
    <3>5. g[n - 1] = A /\ g[n] = A \cup UNION {BelowIn(h, e) : e \in A}
      BY <3>2, <3>3, <3>4
    <3>. QED  BY <3>5
  <2>2. g[0] = {[path |-> <<>>, cell |-> c]}
    BY <1>5, <1>7
  <2>3. \A n \in Nat : g[n] = IF n = 0 THEN {[path |-> <<>>, cell |-> c]}
                              ELSE g[n - 1] \cup UNION {BelowIn(h, e) : e \in g[n - 1]}
    BY <2>1, <2>2
  <2>4. g = [n \in Nat |-> g[n]]
    BY <1>7
  <2>. QED  BY <2>3, <2>4
<1>9. Is(within)
  <2>. HIDE DEF Is
  <2>. QED  BY <1>8
<1>10. \A n \in Nat : within[n] = IF n = 0 THEN {[path |-> <<>>, cell |-> c]}
                                 ELSE within[n - 1] \cup UNION {BelowIn(h, e) : e \in within[n - 1]}
  <2>. HIDE DEF within
  <2>. QED  BY <1>9
<1>. HIDE DEF within
<1>. DEFINE S == {n \in Nat : within[n] = Found(L, n)}
<1>11. 0 \in S
  BY <1>5, <1>10
<1>12. ASSUME NEW n \in Nat, n \in S PROVE n + 1 \in S
  <2>1. n + 1 \in Nat /\ n + 1 # 0 /\ (n + 1) - 1 = n
    OBVIOUS
  <2>2. within[n + 1] = within[n] \cup UNION {BelowIn(h, e) : e \in within[n]}
    BY <1>10, <2>1
  <2>3. PICK A : A = Found(L, n)
    OBVIOUS
  <2>4. within[n] = A
    BY <1>12, <2>3
  <2>5. within[n + 1] = A \cup UNION {BelowIn(h, e) : e \in A}
    BY <2>2, <2>4
  <2>6. Found(L, n + 1) = A \cup UNION {BelowIn(h, e) : e \in A}
    BY <1>6, <2>3
  <2>. QED  BY <2>1, <2>5, <2>6
<1>13. \A n \in Nat : n \in S
  <2>. HIDE DEF S
  <2>. QED  BY <1>11, <1>12, Induction
<1>14. PICK A : A = all
  OBVIOUS
<1>15. Cardinality(DOMAIN h) \in Nat
  BY HeapIs DEF Good
<1>16. A = Found(L, Cardinality(DOMAIN h))
  BY <1>13, <1>14, <1>15
<1>17. \A q \in DOMAIN L : Len(q) <= Cardinality(DOMAIN h)
  BY <1>2, PathShort
<1>18. A = {[path |-> p, cell |-> L[p]] : p \in DOMAIN L}
  BY <1>16, <1>17 DEF Found
<1>19. {e.path : e \in A} = DOMAIN L
  <2>1. \A e \in A : e.path \in DOMAIN L
    BY <1>18
  <2>2. ASSUME NEW p \in DOMAIN L PROVE \E e \in A : e.path = p
    <3>1. PICK e : e = [path |-> p, cell |-> L[p]]
      OBVIOUS
    <3>2. e \in A /\ e.path = p
      BY <1>18, <3>1
    <3>. QED  BY <3>2
  <2>. QED  BY <2>1, <2>2
<1>20. \A p \in DOMAIN L : (CHOOSE e \in A : e.path = p) = [path |-> p, cell |-> L[p]]
  <2>1. ASSUME NEW p \in DOMAIN L
        PROVE  /\ [path |-> p, cell |-> L[p]] \in A
               /\ \A e \in A : e.path = p => e = [path |-> p, cell |-> L[p]]
    BY <1>18
  <2>2. ASSUME NEW p \in DOMAIN L
        PROVE  (CHOOSE e \in A : e.path = p) = [path |-> p, cell |-> L[p]]
    <3>1. PICK r : r = [path |-> p, cell |-> L[p]]
      OBVIOUS
    <3>2. r \in A /\ r.path = p /\ \A e \in A : e.path = p => e = r
      BY <2>1, <3>1
    <3>3. (CHOOSE e \in A : e.path = p) \in A /\ (CHOOSE e \in A : e.path = p).path = p
      BY <3>2
    <3>. QED  BY <3>1, <3>2, <3>3
  <2>. QED  BY <2>2
<1>21. ASSUME NEW p \in DOMAIN L PROVE (CHOOSE e \in A : e.path = p).cell = L[p]
  <2>1. PICK e : e = (CHOOSE f \in A : f.path = p)
    OBVIOUS
  <2>2. e = [path |-> p, cell |-> L[p]]
    BY <1>20, <2>1
  <2>3. e.cell = L[p]
    BY <2>2
  <2>. QED  BY <2>1, <2>3
<1>22. TreeIn(A) = [p \in DOMAIN L |-> Node(h, L[p])]
  BY <1>19, <1>21
<1>. QED  BY <1>1, <1>2, <1>14, <1>22 DEF TreeOf
-----------------------------------------------------------------------------
(* The invariant, and the properties it gives.                              *)

LEMMA NextSteps ==
  ASSUME Inv, Next
  PROVE  Stepped
<1>1. CASE Literal
  BY <1>1, LiteralSteps
<1>2. CASE lookup
  BY <1>2, lookupSteps
<1>3. CASE Sequence
  BY <1>3, SequenceSteps
<1>4. CASE Target("=") \/ Target("+=")
  BY <1>4, TargetSteps
<1>5. CASE resolve_target
  BY <1>5, resolve_targetSteps
<1>6. CASE ReadTarget
  BY <1>6, ReadTargetSteps
<1>7. CASE Assign
  BY <1>7, AssignSteps
<1>8. CASE CompoundAssign
  BY <1>8, CompoundAssignSteps
<1>9. CASE \E kind \in {"index", "TAKE", "DROP", "LIST"} : Hold(kind)
  BY <1>9, HoldSteps
<1>10. CASE eval_index
  BY <1>10, eval_indexSteps
<1>11. CASE fn_take
  BY <1>11, fn_takeSteps
<1>12. CASE fn_drop
  BY <1>12, fn_dropSteps
<1>13. CASE Argument
  BY <1>13, ArgumentSteps
<1>14. CASE fn_list
  BY <1>14, fn_listSteps
<1>15. CASE BeginList
  BY <1>15, BeginListSteps
<1>16. CASE eval_list
  BY <1>16, eval_listSteps
<1>17. CASE Catch
  BY <1>17, CatchSteps
<1>18. CASE NewRun
  BY <1>18, NewRunSteps
<1>. QED
  BY <1>1, <1>2, <1>3, <1>4, <1>5, <1>6, <1>7, <1>8, <1>9, <1>10, <1>11, <1>12, <1>13,
     <1>14, <1>15, <1>16, <1>17, <1>18 DEF Next

\* A step moves to a heap, what then waits and a value, and leaves them renamed.
LEMMA StepLeaves ==
  ASSUME Inv, Next
  PROVE  \E h, p, r, S, name : Moves(h, p, r) /\ Left(h, p, r, S, name)
<1>1. PICK h, p, r : Moves(h, p, r) /\ Leave(h, p, r)
  BY NextSteps DEF Stepped
<1>2. Leavable(h, p, r)
  BY <1>1 DEF Moves, Fits
<1>3. \E S, name : Left(h, p, r, S, name)
  BY <1>1, <1>2, LeaveIs
<1>. QED  BY <1>1, <1>3

LEMMA InitInv ==
  ASSUME Init
  PROVE  Inv
<1>1. PICK h : h = heap
  OBVIOUS
<1>2. DOMAIN h = {0} /\ h = [c \in {0} |-> NewCell(Absent)] /\ h[0] = NewCell(Absent)
  BY <1>1 DEF Init, root
<1>3. h[0].scalar = Absent /\ h[0].kids = <<>> /\ DOMAIN h[0].kids = {}
  BY <1>2 DEF NewCell
<1>4. IsHeap(h)
  <2>1. 0 .. 1 - 1 = {0}
    OBVIOUS
  <2>2. PICK e : e = NewCell(Absent)
    OBVIOUS
  <2>3. e = [scalar |-> Absent, kids |-> <<>>]
    BY <2>2 DEF NewCell
  <2>4. <<>> \in Seq([key : Keys, cell : {0}])
    OBVIOUS
  <2>5. e \in Cell({0})
    BY <2>3, <2>4 DEF Cell
  <2>6. h \in [{0} -> Cell({0})]
    BY <1>2, <2>2, <2>5
  <2>7. 1 \in Nat /\ h \in [0 .. 1 - 1 -> Cell(0 .. 1 - 1)]
    BY <2>1, <2>6
  <2>. QED  BY <2>7 DEF IsHeap
<1>5. KeysDiffer(h)
  BY <1>2, <1>3 DEF KeysDiffer
<1>6. Lays(h, 0, [p \in {<<>>} |-> 0])
  <2>1. PICK L : L = [p \in {<<>>} |-> 0]
    OBVIOUS
  <2>2. DOMAIN L = {<<>>} /\ L[<<>>] = 0 /\ L = [p \in DOMAIN L |-> L[p]] /\ <<>> \in Path
    BY <2>1 DEF Path
  <2>3. \A k, d : ~HasKid(h, 0, k, d)
    BY <1>3 DEF HasKid
  <2>4. Lays(h, 0, L)
    BY <1>2, <2>2, <2>3 DEF Lays
  <2>. QED  BY <2>1, <2>4
<1>7. Good(h)
  BY <1>2, <1>4, <1>5, <1>6 DEF Good
<1>8. Layout(h, root) = [p \in {<<>>} |-> 0]
  BY <1>6, LaysOnce DEF root
<1>9. Within(h, root, MaxDepth)
  BY <1>8, MaxDepthAssumption DEF Within
<1>10. pending = <<>> /\ result = Absent /\ root \in DOMAIN h
  BY <1>2 DEF Init, root
<1>11. pending \in Seq(Ops(DOMAIN h)) /\ Len(pending) = 0
  BY <1>10
<1>12. Leavable(h, pending, result)
  BY <1>7, <1>10, <1>11, NotCells DEF Leavable
<1>13. OwnedApart(h, pending)
  BY <1>11 DEF OwnedApart
<1>. QED  BY <1>1, <1>9, <1>12, <1>13 DEF Inv, Fits

LEMMA NextInv ==
  ASSUME Inv, Next
  PROVE  Inv'
<1>1. PICK h, p, r, S, name : Moves(h, p, r) /\ Left(h, p, r, S, name)
  BY StepLeaves
<1>2. Fits(heap', pending', result')
  BY <1>1, LeftFits DEF Moves
<1>. QED  BY <1>2 DEF Inv

LEMMA SameInv ==
  ASSUME Inv, UNCHANGED vars
  PROVE  Inv'
<1>1. heap' = heap /\ pending' = pending /\ result' = result
  BY DEF vars
<1>2. Fits(heap', pending', result')
  BY <1>1 DEF Inv
<1>. QED  BY <1>2 DEF Inv

\* The heap is of cells that each lead to a tree, whose keys differ; what waits
\* holds cells alive and targets within the depth limit; what a comma has
\* collected shares nothing with the variables nor with anything else collected.
THEOREM Invariant == Spec => []Inv
<1>1. Init => Inv
  BY InitInv
<1>2. Inv /\ [Next]_vars => Inv'
  BY NextInv, SameInv
<1>. QED  BY <1>1, <1>2, PTL DEF Spec

\* No assignment, however its target and its value were come by, makes the
\* variables deeper than the limit (eval_assign's depth check).
THEOREM DepthHolds == Spec => []VariablesWithinDepth
<1>1. Inv => VariablesWithinDepth
  <2>1. ASSUME Inv PROVE ~TooDeep(heap, root, 0)
    <3>1. 0 \in 0 .. MaxDepth /\ MaxDepth - 0 = MaxDepth
      BY MaxDepthAssumption
    <3>2. Good(heap) /\ root \in DOMAIN heap /\ Within(heap, root, MaxDepth)
      BY <2>1, InvIs
    <3>. QED  BY <3>1, <3>2, WithinIs
  <2>. QED  BY <2>1 DEF VariablesWithinDepth
<1>. QED  BY <1>1, Invariant, PTL

\* Two places of cells that are owned, in trees o and u.
LEMMA OnePlace ==
  ASSUME NEW h, Good(h), NEW o \in DOMAIN h, NEW u \in DOMAIN h, o = u \/ Apart(h, o, u),
         NEW c \in Cells(h, o), NEW e \in Cells(h, u),
         NEW i \in DOMAIN h[c].kids, NEW j \in DOMAIN h[e].kids
  PROVE  /\ h[c].kids[i].cell = h[e].kids[j].cell => c = e /\ i = j
         /\ h[c].kids[i].cell # u
<1>1. IsHeap(h) /\ KeysDiffer(h)
  BY DEF Good
<1>2. c \in DOMAIN h /\ e \in DOMAIN h
  BY CellsClosed
<1>3. PICK k, l, d, f : /\ k = h[c].kids[i].key /\ d = h[c].kids[i].cell
                        /\ l = h[e].kids[j].key /\ f = h[e].kids[j].cell
  OBVIOUS
<1>4. k \in Keys /\ l \in Keys
  BY <1>1, <1>2, <1>3, CellIs
<1>5. HasKid(h, c, k, d) /\ HasKid(h, e, l, f)
  BY <1>3 DEF HasKid
<1>6. d \in Cells(h, o) /\ f \in Cells(h, u) /\ o \in Cells(h, o) /\ u \in Cells(h, u)
  BY <1>4, <1>5, CellsClosed
<1>7. CASE o # u
  <2>1. Cells(h, o) \cap Cells(h, u) = {}
    BY <1>7 DEF Apart
  <2>. QED  BY <1>3, <1>6, <2>1
<1>8. CASE o = u
  <2>1. PICK L : L = Layout(h, o)
    OBVIOUS
  <2>2. Lays(h, o, L)
    BY <2>1, LayoutLays
  <2>3. PICK p \in DOMAIN L : c = L[p]
    BY <2>1 DEF Cells
  <2>4. PICK q \in DOMAIN L : e = L[q]
    BY <1>8, <2>1 DEF Cells
  <2>5. /\ Append(p, k) \in DOMAIN L /\ L[Append(p, k)] = d
        /\ Append(q, l) \in DOMAIN L /\ L[Append(q, l)] = f
    BY <1>4, <1>5, <2>2, <2>3, <2>4 DEF Lays
  <2>6. p \in Path /\ q \in Path /\ <<>> \in DOMAIN L /\ L[<<>>] = o
    BY <2>2 DEF Lays
  <2>7. d # u
    <3>1. Append(p, k) # <<>>
      BY <1>4, <2>6, PathStep
    <3>. QED  BY <1>8, <2>2, <2>5, <2>6, <3>1 DEF Lays
  <2>8. ASSUME d = f PROVE c = e /\ i = j
    <3>0. \A a, b \in DOMAIN L : L[a] = L[b] => a = b
      BY <2>2 DEF Lays
    <3>1. Append(p, k) = Append(q, l)
      <4>1. PICK a, b : a = Append(p, k) /\ b = Append(q, l)
        OBVIOUS
      <4>2. a \in DOMAIN L /\ b \in DOMAIN L /\ L[a] = L[b]
        BY <2>5, <2>8, <4>1
      <4>3. a = b
        BY <3>0, <4>2
      <4>. QED  BY <4>1, <4>3
    <3>2. p = q /\ k = l
      BY <1>4, <2>6, <3>1, SameStep
    <3>3. c = e
      BY <2>3, <2>4, <3>2
    <3>. QED  BY <1>1, <1>2, <1>3, <3>2, <3>3 DEF KeysDiffer
  <2>. QED  BY <1>3, <2>7, <2>8
<1>. QED  BY <1>7, <1>8

LEMMA InvOwned ==
  ASSUME Inv
  PROVE  /\ Collected \cup {root} \subseteq DOMAIN heap
         /\ \A o, u \in Collected \cup {root} : o = u \/ Apart(heap, o, u)
<1>1. /\ pending \in Seq(Ops(DOMAIN heap)) /\ root \in DOMAIN heap /\ Len(pending) \in Nat
      /\ OwnedApart(heap, pending) /\ DOMAIN pending = 1 .. Len(pending)
  BY InvIs
<1>2. ASSUME NEW o \in Collected
      PROVE  \E i \in 1 .. Len(pending) : Collects(pending, i) /\
               \E j \in 1 .. Len(pending[i].got) : o = pending[i].got[j]
  <2>1. PICK i \in DOMAIN pending : pending[i].kind = "comma" /\ o \in Range(pending[i].got)
    BY DEF Collected
  <2>2. pending[i].got \in Seq(DOMAIN heap)
    BY <1>1, <2>1, OpsAre
  <2>3. \E j \in 1 .. Len(pending[i].got) : o = pending[i].got[j]
    BY <2>1, <2>2, RangeIs
  <2>. QED  BY <1>1, <2>1, <2>3 DEF Collects
<1>3. \A o \in Collected : o \in DOMAIN heap
  BY <1>1, <1>2, OpsAre
<1>4. \A o \in Collected : Apart(heap, root, o)
  BY <1>1, <1>2 DEF OwnedApart
<1>5. \A o, u : Apart(heap, o, u) => Apart(heap, u, o)
  BY DEF Apart
<1>6. ASSUME NEW o \in Collected, NEW u \in Collected, o # u
      PROVE  Apart(heap, o, u)
  <2>1. PICK i \in 1 .. Len(pending) : Collects(pending, i) /\
          \E j \in 1 .. Len(pending[i].got) : o = pending[i].got[j]
    BY <1>2
  <2>2. PICK j \in 1 .. Len(pending[i].got) : o = pending[i].got[j]
    BY <2>1
  <2>3. PICK k \in 1 .. Len(pending) : Collects(pending, k) /\
          \E l \in 1 .. Len(pending[k].got) : u = pending[k].got[l]
    BY <1>2
  <2>4. PICK l \in 1 .. Len(pending[k].got) : u = pending[k].got[l]
    BY <2>3
  <2>5. i # k \/ j # l
    BY <1>6, <2>2, <2>4
  <2>. QED  BY <1>1, <2>1, <2>2, <2>3, <2>4, <2>5 DEF OwnedApart
<1>. QED  BY <1>1, <1>3, <1>4, <1>5, <1>6

\* No variable shares structure with another, nor with what a comma has
\* collected: every cell among them is at one place (deep_copy at every store).
THEOREM OnePlaceHolds == Spec => []OnePlaceEach
<1>1. ASSUME Inv PROVE OnePlaceEach
  <2>1. Good(heap)
    BY <1>1, InvIs
  <2>2. /\ Collected \cup {root} \subseteq DOMAIN heap
        /\ \A o, u \in Collected \cup {root} : o = u \/ Apart(heap, o, u)
    BY <1>1, InvOwned
  <2>. DEFINE In(s) == heap[s[1]].kids[s[2]].cell
  <2>3. ASSUME NEW s \in Slots
        PROVE  /\ s = <<s[1], s[2]>> /\ s[2] \in DOMAIN heap[s[1]].kids
               /\ \E o \in Collected \cup {root} : s[1] \in Cells(heap, o)
    <3>1. PICK c \in Owned : s \in {c} \X DOMAIN heap[c].kids
      BY DEF Slots
    <3>2. PICK o \in Collected \cup {root} : c \in Under(heap, o)
      BY DEF Owned
    <3>3. Under(heap, o) = Cells(heap, o)
      BY <2>1, <2>2, UnderIs
    <3>. QED  BY <3>1, <3>2, <3>3
  <2>4. ASSUME NEW s \in Slots, NEW t \in Slots, In(s) = In(t) PROVE s = t
    <3>1. PICK o \in Collected \cup {root} : s[1] \in Cells(heap, o)
      BY <2>3
    <3>2. PICK u \in Collected \cup {root} : t[1] \in Cells(heap, u)
      BY <2>3
    <3>3. PICK c, e, i, j : c = s[1] /\ e = t[1] /\ i = s[2] /\ j = t[2]
      OBVIOUS
    <3>4. i \in DOMAIN heap[c].kids /\ j \in DOMAIN heap[e].kids
      BY <2>3, <3>3
    <3>5. heap[c].kids[i].cell = heap[e].kids[j].cell
      BY <2>4, <3>3
    <3>6. c = e /\ i = j
      BY <2>1, <2>2, <3>1, <3>2, <3>3, <3>4, <3>5, OnePlace
    <3>. QED  BY <2>3, <3>3, <3>6
  <2>5. ASSUME NEW s \in Slots, NEW u \in Collected \cup {root} PROVE In(s) # u
    <3>1. PICK o \in Collected \cup {root} : s[1] \in Cells(heap, o)
      BY <2>3
    <3>2. PICK c, i : c = s[1] /\ i = s[2]
      OBVIOUS
    <3>3. c \in Cells(heap, o) /\ i \in DOMAIN heap[c].kids /\ o \in DOMAIN heap
      BY <2>2, <2>3, <3>1, <3>2
    <3>4. PICK d : d = heap[c].kids[i].cell
      OBVIOUS
    <3>5. d # u
      <4>1. c \in DOMAIN heap
        BY <2>1, <3>3, CellsClosed
      <4>2. heap[c].kids[i].key \in Keys /\ HasKid(heap, c, heap[c].kids[i].key, d)
        BY <2>1, <3>3, <3>4, <4>1, CellIs DEF HasKid, Good
      <4>3. d \in Cells(heap, o)
        BY <2>1, <3>3, <4>2, CellsClosed
      <4>4. u \in Cells(heap, u)
        BY <2>1, <2>2, CellsClosed
      <4>5. CASE o = u
        BY <2>1, <3>3, <3>4, <4>5, OnePlace
      <4>6. CASE o # u
        BY <2>2, <4>3, <4>4, <4>6 DEF Apart
      <4>. QED  BY <4>5, <4>6
    <3>. QED  BY <3>2, <3>4, <3>5
  <2>. QED  BY <2>4, <2>5 DEF OnePlaceEach
<1>. QED  BY <1>1, Invariant, PTL

\* What an operation holds before a step and after it is one cell under two names.
LEMMA HeldKept ==
  ASSUME NEW h, NEW p, NEW r, NEW S, NEW name, Inv, Moves(h, p, r), Left(h, p, r, S, name),
         NEW s \in StillHeld
  PROVE  /\ HeldBefore(s) \in S /\ HeldBefore(s) \in DOMAIN heap
         /\ HeldAfter(s) = name[HeldBefore(s)]
         /\ pending[s[1]].kind = "comma" => Apart(heap, root, HeldBefore(s))
<1>1. PICK i, j : i = s[1] /\ j = s[2]
  OBVIOUS
<1>2. i \in DOMAIN pending /\ i \in DOMAIN pending' /\ j \in DOMAIN pending[i].got
  <2>1. PICK m \in DOMAIN pending \cap DOMAIN pending' : s \in {m} \X DOMAIN pending[m].got
    BY DEF StillHeld
  <2>. QED  BY <1>1, <2>1
<1>3. Leavable(h, p, r) /\ Carries(pending, p)
  BY DEF Moves, Fits
<1>4. /\ pending' \in Seq(Ops(DOMAIN heap')) /\ Len(pending') = Len(p)
      /\ \A m \in 1 .. Len(p) : OpLeft(pending'[m], DOMAIN heap', p[m], name)
  BY <1>3, LeftPending
<1>5. pending \in Seq(Ops(DOMAIN heap)) /\ OwnedApart(heap, pending)
  BY InvIs
<1>6. i \in 1 .. Len(pending) /\ i \in 1 .. Len(p) /\ i <= Len(p)
  <2>1. i \in 1 .. Len(pending) /\ i \in 1 .. Len(pending')
    BY <1>2, <1>4, <1>5
  <2>2. p \in Seq(Ops(DOMAIN h))
    BY <1>3 DEF Leavable
  <2>. QED  BY <1>4, <2>1, <2>2
<1>7. /\ pending[i].got \in Seq(DOMAIN heap)
      /\ \A m \in 1 .. Len(pending[i].got) : pending[i].got[m] \in DOMAIN heap
  BY <1>5, <1>6, OpsAre
<1>8. j \in 1 .. Len(pending[i].got)
  BY <1>2, <1>7
<1>9. j \in 1 .. Len(p[i].got) /\ p[i].got[j] = pending[i].got[j]
  BY <1>3, <1>6, <1>8 DEF Carries
<1>10. OpLeft(pending'[i], DOMAIN heap', p[i], name)
  BY <1>4, <1>6
<1>11. pending'[i].got[j] = name[p[i].got[j]]
  BY <1>9, <1>10 DEF OpLeft
<1>12. p[i].got[j] \in S
  BY <1>6, <1>9 DEF Left
<1>13. pending[i].kind = "comma" => Apart(heap, root, pending[i].got[j])
  BY <1>5, <1>6, <1>8 DEF OwnedApart, Collects
<1>14. HeldBefore(s) = pending[i].got[j] /\ HeldAfter(s) = pending'[i].got[j]
  BY <1>1 DEF HeldBefore, HeldAfter
<1>. QED  BY <1>1, <1>7, <1>8, <1>9, <1>11, <1>12, <1>13, <1>14

LEMMA HeldStays ==
  ASSUME Inv, Next, NEW s \in StillHeld
  PROVE  /\ heap'[HeldAfter(s)].scalar = heap[HeldBefore(s)].scalar
         /\ pending[s[1]].kind = "comma" =>
              TreeAt(heap', HeldAfter(s)) = TreeAt(heap, HeldBefore(s))
<1>1. PICK h, p, r, S, name : Moves(h, p, r) /\ Left(h, p, r, S, name)
  BY StepLeaves
<1>2. PICK c, d : c = HeldBefore(s) /\ d = HeldAfter(s)
  OBVIOUS
<1>3. /\ c \in S /\ c \in DOMAIN heap /\ d = name[c]
      /\ pending[s[1]].kind = "comma" => Apart(heap, root, c)
  BY <1>1, <1>2, HeldKept
<1>4. Renames(h, heap', S, name) /\ Good(heap') /\ Good(h) /\ Good(heap)
  BY <1>1, InvIs DEF Left, Moves, Spares
<1>5. /\ TreeOf(heap', name[c]) = TreeOf(h, c) /\ heap'[name[c]].scalar = h[c].scalar
      /\ name[c] \in DOMAIN heap'
  BY <1>3, <1>4, RenamedTree
<1>6. /\ h[c].scalar = heap[c].scalar
      /\ Apart(heap, root, c) => Kept(heap, h, c)
  BY <1>1, <1>3 DEF Moves, Spares
<1>7. ASSUME Apart(heap, root, c) PROVE TreeOf(h, c) = TreeOf(heap, c)
  BY <1>6, <1>7 DEF Kept, TreeOf, Node, Cells
<1>8. TreeAt(heap', d) = TreeOf(heap', d) /\ TreeAt(heap, c) = TreeOf(heap, c)
  BY <1>3, <1>4, <1>5, TreeAtIs
<1>9. pending[s[1]].kind = "comma" => TreeAt(heap', d) = TreeAt(heap, c)
  BY <1>3, <1>5, <1>7, <1>8
<1>10. heap'[d].scalar = heap[c].scalar
  BY <1>3, <1>5, <1>6
<1>. QED  BY <1>2, <1>9, <1>10

\* An operand read before an assignment keeps the scalar it read: set replaces
\* the cell at a key, and no step rewrites a scalar in place.
THEOREM ScalarsHold == Spec => ScalarsKept
<1>1. Inv /\ [Next]_vars =>
        [\A s \in StillHeld : heap'[HeldAfter(s)].scalar = heap[HeldBefore(s)].scalar]_vars
  BY HeldStays
<1>. QED  BY <1>1, Invariant, PTL DEF Spec, ScalarsKept

\* What a comma has collected is the same tree after whatever the operands after
\* it assign (eval_list copies each operand as it is evaluated).
THEOREM CollectedHolds == Spec => CollectedKept
<1>1. Inv /\ [Next]_vars =>
        [\A s \in StillHeld :
           pending[s[1]].kind = "comma" =>
             TreeAt(heap', HeldAfter(s)) = TreeAt(heap, HeldBefore(s))]_vars
  BY HeldStays
<1>. QED  BY <1>1, Invariant, PTL DEF Spec, CollectedKept

-----------------------------------------------------------------------------
(* The refinement of VariableTree.                                          *)

LEMMA SameSequences ==
  /\ \A p : Tree!Prefixes(p) = Prefixes(p)
  /\ \A p, q : Tree!IsPrefix(p, q) <=> IsPrefix(p, q)
  /\ \A p, q : Tree!IsStrictPrefix(p, q) <=> IsStrictPrefix(p, q)
  /\ \A p : Tree!Last(p) = Last(p) /\ Tree!Front(p) = Front(p)
<1>1. \A p : Tree!Prefixes(p) = Prefixes(p)
  BY DEF Tree!Prefixes, Prefixes
<1>2. \A p, q : Tree!IsPrefix(p, q) <=> IsPrefix(p, q)
  BY DEF Tree!IsPrefix, IsPrefix
<1>3. \A p, q : Tree!IsStrictPrefix(p, q) <=> IsStrictPrefix(p, q)
  BY <1>2 DEF Tree!IsStrictPrefix, IsStrictPrefix
<1>4. \A p : Tree!Last(p) = Last(p) /\ Tree!Front(p) = Front(p)
  BY DEF Tree!Last, Last, Tree!Front, Front
<1>. QED  BY <1>1, <1>2, <1>3, <1>4

\* What VariableTree's operators make of the variables is what the trees of the
\* lemmas are.
LEMMA TreeGrown ==
  ASSUME NEW T, T = TreeAt(heap, root), NEW p
  PROVE  Tree!Grown(p) = GrownTree(T, p)
<1>1. PICK N : N = Lacks(T, p)
  OBVIOUS
<1>2. {q \in Tree!Prefixes(p) : q \notin DOMAIN TreeAt(heap, root)} = N
  BY <1>1, SameSequences DEF Lacks
<1>3. \A q : Tree!IsPrefix(q, p) <=> IsPrefix(q, p)
  BY SameSequences
<1>4. Tree!Grown(p) =
        [q \in DOMAIN T \cup N |->
           IF q # p /\ IsPrefix(q, p) /\ Append(q, p[Len(q) + 1]) \in N
           THEN [(IF q \in N THEN [scalar |-> Absent, keys |-> <<>>] ELSE T[q])
                   EXCEPT !.keys = Append(@, p[Len(q) + 1])]
           ELSE IF q \in N THEN [scalar |-> Absent, keys |-> <<>>] ELSE T[q]]
  BY <1>2, <1>3 DEF Tree!Grown
<1>5. GrownTree(T, p) =
        [q \in DOMAIN T \cup N |->
           IF q # p /\ IsPrefix(q, p) /\ Append(q, p[Len(q) + 1]) \in N
           THEN [(IF q \in N THEN [scalar |-> Absent, keys |-> <<>>] ELSE T[q])
                   EXCEPT !.keys = Append(@, p[Len(q) + 1])]
           ELSE IF q \in N THEN [scalar |-> Absent, keys |-> <<>>] ELSE T[q]]
  BY <1>1 DEF GrownTree, Bears, NodeWas, KeyAfter
<1>. QED  BY <1>4, <1>5

LEMMA TreeStored ==
  ASSUME NEW T, T = TreeAt(heap, root), NEW p, NEW v
  PROVE  Tree!Stored(p, v) = StoredTree(T, p, v)
<1>1. PICK H : H = GrownTree(T, p)
  OBVIOUS
<1>2. Tree!Grown(p) = H
  BY <1>1, TreeGrown
<1>3. \A q : Tree!IsPrefix(p, q) <=> IsPrefix(p, q)
  BY SameSequences
<1>4. Tree!Stored(p, v) =
        [q \in {u \in DOMAIN H : ~IsPrefix(p, u)} \cup {p \o r : r \in DOMAIN v} |->
           IF IsPrefix(p, q) THEN v[Rest(Len(p), q)] ELSE H[q]]
  BY <1>2, <1>3 DEF Tree!Stored, Tree!From, Rest
<1>. QED  BY <1>1, <1>4 DEF StoredTree, StoreOver

LEMMA OpenTargetsAre ==
  /\ OpenTargets = Opens(pending)
  /\ OpenTargets' = Opens(pending')
<1>1. OpenTargets = Opens(pending)
  BY DEF OpenTargets, Opens, OpenOne, FoldLeft, MapThenFoldSet
<1>2. OpenTargets' = Opens(pending')
  BY DEF OpenTargets, Opens, OpenOne, FoldLeft, MapThenFoldSet
<1>. QED  BY <1>1, <1>2

\* A step moves the variables' tree, the targets and the value as VariableTree's do.
LEMMA TreeSteps ==
  ASSUME Inv, Next
  PROVE  /\ TreeMoves(TreeOf(heap, root), Opens(pending),
                      TreeOf(heap', root), Opens(pending'), YieldOf(heap', result'))
         /\ Opens(pending) \in Seq(Goals) /\ Opens(pending') \in Seq(Goals)
<1>1. PICK h, p, r, S, name : Moves(h, p, r) /\ Left(h, p, r, S, name)
  BY StepLeaves
<1>2. Good(h) /\ p \in Seq(Ops(DOMAIN h)) /\ Leavable(h, p, r) /\ (IsCell(r) => r \in DOMAIN h)
  BY <1>1 DEF Moves, Fits, Leavable
<1>3. /\ Renames(h, heap', S, name) /\ Good(heap') /\ root \in S /\ name[root] = root
      /\ IsCell(r) => r \in S
      /\ result' = IF IsCell(r) THEN name[r] ELSE r
  BY <1>1 DEF Left
<1>4. TreeOf(heap', root) = TreeOf(h, root)
  <2>1. TreeOf(heap', name[root]) = TreeOf(h, root)
    BY <1>2, <1>3, RenamedTree
  <2>. QED  BY <1>3, <2>1
<1>5. Opens(pending') = Opens(p) /\ Opens(p) \in Seq(Goals)
  <2>1. PICK q : q = pending'
    OBVIOUS
  <2>2. /\ q \in Seq(Ops(DOMAIN heap')) /\ Len(q) = Len(p)
        /\ \A i \in 1 .. Len(p) : OpLeft(q[i], DOMAIN heap', p[i], name)
    BY <1>1, <1>2, <2>1, LeftPending
  <2>3. SameGoals(p, q)
    BY <2>2 DEF SameGoals, OpLeft, Assigns
  <2>4. Opens(q) = Opens(p) /\ Opens(p) \in Seq(Goals)
    BY <1>2, <2>2, <2>3, OpensSame
  <2>. QED  BY <2>1, <2>4
<1>6. YieldOf(heap', result') = YieldOf(h, r)
  <2>1. CASE IsCell(r)
    <3>1. TreeOf(heap', name[r]) = TreeOf(h, r) /\ name[r] \in DOMAIN heap'
      BY <1>2, <1>3, <2>1, RenamedTree
    <3>2. IsHeap(heap')
      BY <1>3 DEF Good
    <3>3. IsCell(name[r])
      BY <3>1, <3>2, CellsAreCells
    <3>. QED  BY <1>3, <2>1, <3>1, <3>3 DEF YieldOf
  <2>2. CASE ~IsCell(r)
    BY <1>3, <2>2 DEF YieldOf
  <2>. QED  BY <2>1, <2>2
<1>7. Opens(pending) \in Seq(Goals)
  <2>1. pending \in Seq(Ops(DOMAIN heap)) /\ Len(pending) = Len(pending)
    BY InvIs
  <2>2. SameGoals(pending, pending)
    BY DEF SameGoals
  <2>. QED  BY <2>1, <2>2, OpensSame
<1>. QED  BY <1>1, <1>4, <1>5, <1>6, <1>7 DEF Moves

\* The last of a list of targets, and the rest, after one is put at its end.
LEMMA LastGoal ==
  ASSUME NEW o \in Seq(Goals), NEW g
  PROVE  Append(o, g) # <<>> /\ Last(Append(o, g)) = g
<1>1. Len(Append(o, g)) = Len(o) + 1 /\ Len(o) \in Nat /\ Append(o, g)[Len(o) + 1] = g
  OBVIOUS
<1>2. Append(o, g) # <<>>
  BY <1>1
<1>. QED  BY <1>1, <1>2 DEF Last

LEMMA FrontGoal ==
  ASSUME NEW o \in Seq(Goals), o # <<>>
  PROVE  Front(o) \in Seq(Goals) /\ Last(o) \in Goals
<1>1. PICK q \in Seq(Goals), g \in Goals : o = Append(q, g)
  BY SequenceEmptyOrAppend
<1>2. Front(o) = q /\ Last(o) = g
  BY <1>1 DEF Front, Last
<1>. QED  BY <1>1, <1>2

LEMMA TreeNext ==
  ASSUME Inv, Next
  PROVE  Tree!Next
<1>1. PICK T, o, T2, o2, y2 :
        /\ T = TreeOf(heap, root) /\ o = Opens(pending)
        /\ T2 = TreeOf(heap', root) /\ o2 = Opens(pending') /\ y2 = YieldOf(heap', result')
  OBVIOUS
<1>2. TreeMoves(T, o, T2, o2, y2) /\ o \in Seq(Goals) /\ o2 \in Seq(Goals)
  BY <1>1, TreeSteps
<1>3. T = TreeAt(heap, root)
  BY <1>1, InvIs, TreeAtIs
<1>4. Good(heap') /\ root \in DOMAIN heap' /\ (IsCell(result') => result' \in DOMAIN heap')
  <2>1. Fits(heap', pending', result')
    BY NextInv DEF Inv
  <2>. QED  BY <2>1 DEF Fits, Leavable
<1>5. TreeAt(heap, root)' = T2
  <2>1. TreeAt(heap', root) = T2
    BY <1>1, <1>4, TreeAtIs
  <2>. QED  BY <2>1
<1>6. OpenTargets = o /\ OpenTargets' = o2
  BY <1>1, OpenTargetsAre
<1>7. (IF Yielded THEN {TreeAt(heap, result)} ELSE {})' = y2
  <2>1. IsCell(result') => TreeAt(heap', result') = TreeOf(heap', result')
    BY <1>4, TreeAtIs
  <2>. QED  BY <1>1, <2>1 DEF YieldOf, Yielded
<1>8. \A p : Tree!Grown(p) = GrownTree(T, p)
  BY <1>3, TreeGrown
<1>9. \A p, v : Tree!Stored(p, v) = StoredTree(T, p, v)
  BY <1>3, TreeStored
<1>10. \A p : Tree!Last(p) = Last(p) /\ Tree!Front(p) = Front(p)
  BY SameSequences
<1>11. CASE T2 = T /\ o2 = o
  BY <1>3, <1>5, <1>6, <1>11 DEF Tree!Next, Tree!Yield
<1>12. CASE NewGoal(T, o, T2, o2)
  <2>1. PICK x \in Names, n \in Nat :
          /\ o2 = Append(o, [path |-> <<x>>, left |-> n])
          /\ T2 = IF n > 0 THEN GrownTree(T, <<x>>) ELSE T
    BY <1>12 DEF NewGoal
  <2>2. o2 # <<>> /\ Last(o2) = [path |-> <<x>>, left |-> n]
    BY <1>2, <2>1, LastGoal
  <2>3. Tree!Last(o2).path[1] = x /\ Tree!Last(o2).left = n
    BY <1>10, <2>2
  <2>4. Tree!Target(x, n)
    BY <1>3, <1>5, <1>6, <1>8, <2>1 DEF Tree!Target
  <2>. QED  BY <1>6, <2>2, <2>3, <2>4 DEF Tree!Next
<1>13. CASE NextKey(T, o, T2, o2)
  <2>1. PICK k \in Keys :
          /\ o # <<>> /\ Last(o).left > 0
          /\ o2 = Append(Front(o), [path |-> Append(Last(o).path, k), left |-> Last(o).left - 1])
          /\ T2 = IF Last(o).left > 1 THEN GrownTree(T, Append(Last(o).path, k)) ELSE T
    BY <1>13 DEF NextKey
  <2>2. Front(o) \in Seq(Goals) /\ Last(o).path \in Path
    BY <1>2, <2>1, FrontGoal DEF Goals
  <2>3. /\ o2 # <<>>
        /\ Last(o2) = [path |-> Append(Last(o).path, k), left |-> Last(o).left - 1]
    BY <2>1, <2>2, LastGoal
  <2>4. Last(Append(Last(o).path, k)) = k
    BY <2>2, PathStep
  <2>5. Tree!Last(Tree!Last(o2).path) = k
    <3>1. Tree!Last(o2).path = Append(Last(o).path, k)
      BY <1>10, <2>3
    <3>2. Tree!Last(Append(Last(o).path, k)) = k
      BY <1>10, <2>4
    <3>. QED  BY <3>1, <3>2
  <2>6. Tree!Key(k)
    BY <1>3, <1>5, <1>6, <1>8, <1>10, <2>1 DEF Tree!Key, Tree!Top
  <2>. QED  BY <1>6, <2>3, <2>5, <2>6 DEF Tree!Next
<1>14. CASE ReadGoal(T, o, T2, o2, y2)
  <2>1. Tree!Read
    BY <1>3, <1>5, <1>6, <1>7, <1>8, <1>10, <1>14 DEF ReadGoal, Tree!Read, Tree!Top
  <2>. QED  BY <2>1 DEF Tree!Next
<1>15. CASE PutGoal(T, o, T2, o2, y2)
  <2>1. Tree!Put
    BY <1>3, <1>5, <1>6, <1>7, <1>9, <1>10, <1>15 DEF PutGoal, Tree!Put, Tree!Top
  <2>. QED  BY <2>1 DEF Tree!Next
<1>16. CASE DropGoals(T, o, T2, o2, y2)
  <2>1. IsStrictPrefix(o2, o) => Tree!IsStrictPrefix(o2, o)
    BY SameSequences
  <2>2. Tree!Abandon
    BY <1>3, <1>5, <1>6, <1>7, <1>16, <2>1 DEF DropGoals, Tree!Abandon
  <2>. QED  BY <2>2 DEF Tree!Next
<1>. QED  BY <1>2, <1>11, <1>12, <1>13, <1>14, <1>15, <1>16 DEF TreeMoves

LEMMA OpensNone == Opens(<<>>) = <<>>
<1>1. PICK p : p = <<>>
  OBVIOUS
<1>2. p \in Seq(Ops({root})) /\ 0 \in Nat /\ 0 = Len(p)
  BY <1>1
<1>3. PICK run : OpensRun(run, p, 0) /\ Opens(p) = run[0]
  BY <1>2, OpensRuns
<1>. QED  BY <1>1, <1>3 DEF OpensRun

LEMMA TreeInit ==
  ASSUME Init
  PROVE  Tree!Init
<1>1. Inv
  BY InitInv
<1>2. heap = [c \in {0} |-> NewCell(Absent)] /\ pending = <<>> /\ result = Absent
  BY DEF Init, root
<1>3. heap[0].scalar = Absent /\ heap[0].kids = <<>>
  BY <1>2 DEF NewCell
<1>4. Lays(heap, 0, [p \in {<<>>} |-> 0])
  <2>1. PICK L : L = [p \in {<<>>} |-> 0]
    OBVIOUS
  <2>2. DOMAIN L = {<<>>} /\ L[<<>>] = 0 /\ L = [p \in DOMAIN L |-> L[p]] /\ <<>> \in Path
    BY <2>1 DEF Path
  <2>3. \A k, d : ~HasKid(heap, 0, k, d)
    BY <1>3 DEF HasKid
  <2>4. DOMAIN heap = {0}
    BY <1>2
  <2>5. Lays(heap, 0, L)
    BY <2>2, <2>3, <2>4 DEF Lays
  <2>. QED  BY <2>1, <2>5
<1>5. Layout(heap, root) = [p \in {<<>>} |-> 0]
  BY <1>1, <1>4, InvIs, LaysOnce DEF root
<1>6. Node(heap, 0) = [scalar |-> Absent, keys |-> <<>>]
  <2>1. [i \in DOMAIN heap[0].kids |-> heap[0].kids[i].key] = <<>>
    BY <1>3
  <2>. QED  BY <1>3, <2>1 DEF Node
<1>7. TreeAt(heap, root) = TreeOf(heap, root)
  BY <1>1, InvIs, TreeAtIs
<1>8. TreeOf(heap, root) = [p \in {<<>>} |-> [scalar |-> Absent, keys |-> <<>>]]
  BY <1>5, <1>6 DEF TreeOf
<1>9. OpenTargets = <<>>
  BY <1>2, OpenTargetsAre, OpensNone
<1>10. ~Yielded
  BY <1>2 DEF Yielded, IsCell
<1>. QED  BY <1>7, <1>8, <1>9, <1>10 DEF Tree!Init

\* What a program does to its variables through cells that are read, held and
\* replaced in any order is what VariableTree does to one tree: an assignment
\* changes its own path and no other (walk_create, set and the copy in
\* eval_assign).
THEOREM Implements == Spec => ImplementsVariableTree
<1>1. Init => Tree!Init
  BY TreeInit
<1>2. Inv /\ [Next]_vars => [Tree!Next]_(Tree!vars)
  <2>1. ASSUME Inv, Next PROVE Tree!Next
    BY <2>1, TreeNext
  <2>2. ASSUME UNCHANGED vars PROVE UNCHANGED Tree!vars
    <3>1. heap' = heap /\ pending' = pending /\ result' = result
      BY <2>2 DEF vars
    <3>2. TreeAt(heap, root)' = TreeAt(heap, root)
      BY <3>1
    <3>3. OpenTargets' = OpenTargets
      BY <3>1, OpenTargetsAre
    <3>4. (IF Yielded THEN {TreeAt(heap, result)} ELSE {})' =
            IF Yielded THEN {TreeAt(heap, result)} ELSE {}
      BY <3>1 DEF Yielded
    <3>. QED  BY <3>2, <3>3, <3>4 DEF Tree!vars
  <2>. QED  BY <2>1, <2>2
<1>. QED  BY <1>1, <1>2, Invariant, PTL DEF Spec, ImplementsVariableTree, Tree!Spec
=============================================================================
