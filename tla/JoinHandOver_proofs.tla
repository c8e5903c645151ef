------------------------- MODULE JoinHandOver_proofs -------------------------
(***************************************************************************)
(* Why what a FILTER and its joins tell each other reaches the one it is   *)
(* for, for every depth limit and every program.  What was handed down is  *)
(* on a way of waiting nodes from its FILTER; each node on that way        *)
(* remembers what it owes those above it, and every action either keeps    *)
(* the way, makes it one node longer, or empties the slot as it breaks it. *)
(* News of dropped rows comes back along the same way.                     *)
(***************************************************************************)
EXTENDS JoinHandOver, FiniteSetTheorems, SequenceTheorems, TLAPS

Owns == {"simple", "partial", "blocked", "total"}
Stage == [filter : Nat, own : Owns, above : Nat]
LeftKinds == {"link", "over", "filter", "leaf"}
OverPhases == {"plan", "source", "body", "done"}
FilterPhases == OverPhases \cup {"call", "piped"}
\* A LINK's, until its sources are read, and once they are.
EarlyPhases == {"call", "head", "piped", "left", "right", "right_first", "down", "as_written",
                "link_body", "again"}
LatePhases == {"rows", "verdict", "fallback", "predicate", "left_rows_alone", "no_left_rows",
               "no_right_rows", "done"}
Phases == FilterPhases \cup EarlyPhases \cup LatePhases \cup {"try", "else"}

Entries ==
  [kind : Kinds, phase : Phases, fields : BOOLEAN,
   own : Owns, over : BOOLEAN, had : BOOLEAN, readsK : BOOLEAN, unobserved : BOOLEAN, read : Nat,
   stages : Seq(Stage), deep : BOOLEAN, equi : BOOLEAN, left : LeftKinds,
   err : Errors \cup {"none"}, below : BOOLEAN, lost : BOOLEAN, dropped : BOOLEAN,
   errored : BOOLEAN, walk : Nat]

TypeOK ==
  /\ stack \in Seq(Entries)
  /\ handed \in [stages : Seq(Stage), deep : BOOLEAN]
  /\ right_null \in BOOLEAN
  /\ report \in [reader : Nat, dropped : BOOLEAN, errored : BOOLEAN, rest : {"any", "total", "none"}]
  /\ result \in {"none", "ok"} \cup Errors

\* Where each kind of node may stand, and what a deep join knows of itself.
Fits(e) ==
  /\ e.kind = "guard" => e.phase \in {"try", "else"}
  /\ e.kind = "over" => e.phase \in OverPhases
  /\ e.kind = "filter" => e.phase \in FilterPhases
  /\ e.kind = "link" => e.phase \in EarlyPhases \cup LatePhases
  /\ e.fields => e.kind = "guard"
  /\ e.phase \in {"right_first", "down"} => e.deep /\ e.equi /\ e.left # "leaf"
  /\ e.walk <= Len(e.stages) /\ Walked(e.stages, e.walk)
  /\ e.walk # 0 => e.kind = "link" /\ e.phase \in LatePhases

LinksOn(k, first, last) == {j \in first .. last : k[j].kind = "link"}

\* The way of conjuncts from their FILTERs to place p of the stack k: OnTheWay,
\* and what the nodes on it remember.
StageOn(k, s, p, i) ==
  /\ s[i].filter \in 1 .. p
  /\ k[s[i].filter].kind = "over" /\ k[s[i].filter].own = s[i].own
  /\ i < Len(s) => k[s[i].filter].had
  /\ s[i].above = Cardinality(LinksOn(k, s[i].filter, p))
  /\ \A j \in s[i].filter .. p :
       /\ Waiting(k[j])
       /\ k[j].kind = "over" => \E m \in 1 .. i : s[m].filter = j
       /\ k[j].kind = "link" => k[j].stages # <<>> /\ k[j].equi
Way(k, s, p) ==
  /\ \A i \in DOMAIN s : StageOn(k, s, p, i)
  /\ \A i, j \in DOMAIN s : i < j => s[i].filter > s[j].filter

\* Drops on that way need keep no places.
Unseen(k, s, p) ==
  \A q \in Last(s).filter .. p :
    k[q].kind = "over" =>
      /\ ~k[q].readsK
      /\ k[q].unobserved \/ (q > 1 /\ k[q - 1].kind = "link" /\ k[q - 1].phase = "down")

\* A node of the stack k.  Below a FILTER over a join there is a join; a FILTER that
\* took conjuncts stands below a node that waits; it reads its own join's report.
NodeOK(k, p) ==
  /\ Fits(k[p])
  /\ k[p].had => p > 1 /\ Waiting(k[p - 1])
  /\ p > 1 /\ k[p - 1].kind = "over" /\ k[p - 1].phase = "source" => k[p].kind = "link"
  /\ Way(k, k[p].stages, p - 1)
  /\ k[p].deep => k[p].stages # <<>> /\ Unseen(k, k[p].stages, p - 1)
  /\ k[p].kind = "over" => k[p].read \in {0, p}
NodesOK(k) == \A p \in DOMAIN k : NodeOK(k, p)

\* The slots: conjuncts there are some, on their way, deep below a join; an IS_NULL
\* is directly below its own FILTER.
AskerOf(k) ==
  IF k # <<>> /\ k[Len(k)].phase \in {"call", "plan", "head"} THEN Len(k) - 1 ELSE Len(k)
SlotsOK(k, h, null) ==
  /\ Way(k, h.stages, AskerOf(k))
  /\ h # Nothing => h.stages # <<>> /\ (k[AskerOf(k)].kind = "link" => h.deep)
  /\ h.deep => Unseen(k, h.stages, AskerOf(k))
  /\ null => /\ h = Nothing /\ AskerOf(k) \in DOMAIN k
             /\ k[AskerOf(k)].kind = "over" /\ k[AskerOf(k)].phase = "source"

\* The report: its reader waits; once a join has read its own, one that is there
\* is for the node directly above it or for one below that.
ReportOK(k, r, res) ==
  /\ r # NoReport => /\ r.reader \in DOMAIN k
                     /\ \/ Waiting(k[r.reader])
                        \/ r.reader = Len(k) /\ k[Len(k)].phase = "link_body"
  /\ r.reader = 0 => r = NoReport
  /\ \A p \in DOMAIN k :
       k[p].kind = "link" /\ k[p].phase \in LatePhases => r.reader = 0 \/ r.reader >= p - 1
  /\ k # <<>> /\ k[Len(k)].kind = "over" /\ k[Len(k)].phase = "source" /\ res = "ok" =>
       r.reader \in {0, Len(k)}

IInv ==
  /\ TypeOK
  /\ NodesOK(stack)
  /\ SlotsOK(stack, handed, right_null)
  /\ ReportOK(stack, report, result)

-----------------------------------------------------------------------------
(* Ways. *)

\* The same node, but for what it may have lost.
Same(d, e) ==
  /\ d.kind = e.kind /\ d.phase = e.phase /\ d.fields = e.fields /\ d.own = e.own
  /\ d.had = e.had /\ d.readsK = e.readsK /\ d.unobserved = e.unobserved
  /\ d.read = e.read /\ d.stages = e.stages /\ d.deep = e.deep
  /\ d.equi = e.equi /\ d.left = e.left /\ d.walk = e.walk

\* A way's stages come from places up to its end.
LEMMA WayPlaces ==
  ASSUME NEW k, NEW s \in Seq(Stage), NEW p \in Nat, Way(k, s, p)
  PROVE  /\ Len(s) \in Nat /\ DOMAIN s = 1 .. Len(s)
         /\ \A i \in DOMAIN s : /\ i \in Nat /\ s[i] \in Stage
                                /\ s[i].filter \in Nat /\ s[i].above \in Nat
                                /\ s[i].filter >= 1 /\ s[i].filter <= p
<1>1. /\ Len(s) \in Nat /\ DOMAIN s = 1 .. Len(s)
      /\ \A i \in DOMAIN s : i \in Nat /\ s[i] \in Stage
  OBVIOUS
<1>2. \A e \in Stage : e.filter \in Nat /\ e.above \in Nat
  BY DEF Stage
<1>3. \A i \in DOMAIN s : s[i].filter \in 1 .. p
  BY DEF Way, StageOn
<1>. QED  BY <1>1, <1>2, <1>3

\* A way is kept by whatever leaves its nodes as they were.
LEMMA WayStays ==
  ASSUME NEW k \in Seq(Entries), NEW l \in Seq(Entries), NEW s \in Seq(Stage), NEW p \in Nat,
         \A i \in 1 .. p : Same(l[i], k[i]),
         Way(k, s, p)
  PROVE  Way(l, s, p)
<1>1. ASSUME NEW i \in DOMAIN s
      PROVE  StageOn(l, s, p, i)
  <2>1. /\ StageOn(k, s, p, i) /\ s[i].filter \in 1 .. p /\ s[i].filter \in Nat
        /\ \A j \in s[i].filter .. p : j \in 1 .. p
    BY WayPlaces DEF Way, StageOn
  <2>2. LinksOn(l, s[i].filter, p) = LinksOn(k, s[i].filter, p)
    BY <2>1 DEF Same, LinksOn
  <2>3. ASSUME NEW j \in s[i].filter .. p
        PROVE  /\ Waiting(l[j])
               /\ l[j].kind = "over" => \E m \in 1 .. i : s[m].filter = j
               /\ l[j].kind = "link" => l[j].stages # <<>> /\ l[j].equi
    <3>1. Same(l[j], k[j])
      BY <2>1
    <3>2. /\ Waiting(k[j])
          /\ k[j].kind = "over" => \E m \in 1 .. i : s[m].filter = j
          /\ k[j].kind = "link" => k[j].stages # <<>> /\ k[j].equi
      BY <2>1 DEF StageOn
    <3>. QED  BY <3>1, <3>2 DEF Same, Waiting
  <2>5. /\ l[s[i].filter].kind = "over" /\ l[s[i].filter].own = s[i].own
        /\ i < Len(s) => l[s[i].filter].had
    BY <2>1 DEF StageOn, Same
  <2>6. s[i].above = Cardinality(LinksOn(l, s[i].filter, p))
    BY <2>1, <2>2 DEF StageOn
  <2>. QED  BY <2>1, <2>3, <2>5, <2>6 DEF StageOn
<1>. QED  BY <1>1 DEF Way

\* Drops stay unseen while the way's nodes are as they were.
LEMMA UnseenStays ==
  ASSUME NEW k \in Seq(Entries), NEW l \in Seq(Entries), NEW s \in Seq(Stage), NEW p \in Nat,
         \A i \in 1 .. p : Same(l[i], k[i]),
         s # <<>>, Way(k, s, p), Unseen(k, s, p)
  PROVE  Unseen(l, s, p)
<1>1. Last(s).filter \in Nat /\ Last(s).filter >= 1
  <2>1. Len(s) \in DOMAIN s
    OBVIOUS
  <2>. QED  BY <2>1, WayPlaces DEF Last
<1>2. ASSUME NEW q \in Last(s).filter .. p
      PROVE  Same(l[q], k[q]) /\ (q > 1 => Same(l[q - 1], k[q - 1]))
  BY <1>1
<1>3. ASSUME NEW q \in Last(s).filter .. p, l[q].kind = "over"
      PROVE  /\ ~l[q].readsK
             /\ l[q].unobserved \/ (q > 1 /\ l[q - 1].kind = "link" /\ l[q - 1].phase = "down")
  <2>1. Same(l[q], k[q]) /\ (q > 1 => Same(l[q - 1], k[q - 1]))
    BY <1>2
  <2>2. k[q].kind = "over"
    BY <2>1, <1>3 DEF Same
  <2>3. /\ ~k[q].readsK
        /\ k[q].unobserved \/ (q > 1 /\ k[q - 1].kind = "link" /\ k[q - 1].phase = "down")
    BY <2>2 DEF Unseen
  <2>. QED  BY <2>1, <2>3 DEF Same
<1>. QED  BY <1>3 DEF Unseen

\* An empty way leads anywhere.
LEMMA NoWay ==
  ASSUME NEW k, NEW p
  PROVE  Way(k, <<>>, p)
BY DEF Way

\* Nor is there anything on an empty walk.
LEMMA NoWalk ==
  ASSUME NEW s
  PROVE  Walked(s, 0)
BY DEF Walked

\* Conjuncts are on their way only while the last node of the way waits.
LEMMA WayWaits ==
  ASSUME NEW k, NEW s \in Seq(Stage), NEW p \in Nat, Way(k, s, p), s # <<>>
  PROVE  p >= 1 /\ Waiting(k[p])
<1>1. 1 \in DOMAIN s /\ s[1].filter \in 1 .. p /\ s[1].filter \in Nat
  BY WayPlaces
<1>2. p \in s[1].filter .. p /\ p >= 1
  BY <1>1
<1>. QED  BY <1>1, <1>2 DEF Way, StageOn

\* A stage whose way goes on through one more waiting node.
LEMMA StageFurther ==
  ASSUME NEW l \in Seq(Entries), NEW s \in Seq(Stage), NEW t \in Seq(Stage), NEW p \in Nat,
         NEW i \in DOMAIN s, NEW h \in DOMAIN t, Way(l, s, p),
         t[h].filter = s[i].filter, t[h].own = s[i].own, h < Len(t) => i < Len(s),
         Waiting(l[p + 1]),
         l[p + 1].kind = "over" => t[1].filter = p + 1 /\ t[h].above = s[i].above,
         l[p + 1].kind = "link" => /\ l[p + 1].stages # <<>> /\ l[p + 1].equi
                                   /\ t[h].above = s[i].above + 1,
         \A m \in 1 .. i : \E g \in 1 .. h : t[g].filter = s[m].filter
  PROVE  StageOn(l, t, p + 1, h)
<1>. DEFINE f == s[i].filter
            P == LinksOn(l, f, p)
<1>1. /\ StageOn(l, s, p, i) /\ i \in Nat /\ h \in Nat /\ h >= 1
      /\ f \in Nat /\ f >= 1 /\ f <= p /\ t[h].filter = f
      /\ s[i].above \in Nat /\ s[i].above = Cardinality(P)
  <2>1. StageOn(l, s, p, i)
    BY DEF Way
  <2>2. h \in Nat /\ h >= 1
    OBVIOUS
  <2>. QED  BY <2>1, <2>2, WayPlaces DEF StageOn
<1>2. \A j \in f .. p + 1 : j \in f .. p \/ j = p + 1
  BY <1>1
<1>3. t[h].above = Cardinality(LinksOn(l, f, p + 1))
  <2>1. IsFiniteSet(P)
    <3>1. P \subseteq f .. p
      BY DEF LinksOn
    <3>2. f \in Int /\ p \in Int
      BY <1>1
    <3>3. IsFiniteSet(f .. p)
      BY <3>2, FS_Interval
    <3>. QED  BY <3>1, <3>3, FS_Subset
  <2>2. p + 1 \notin P
    BY <1>1 DEF LinksOn
  <2>3. CASE l[p + 1].kind = "over"
    <3>1. LinksOn(l, f, p + 1) = P
      BY <2>3, <1>1, <1>2 DEF LinksOn
    <3>. QED  BY <3>1, <2>3, <1>1
  <2>4. CASE l[p + 1].kind = "link"
    <3>1. LinksOn(l, f, p + 1) = P \cup {p + 1}
      BY SMTT(30), <2>4, <1>1, <1>2 DEF LinksOn
    <3>2. Cardinality(P \cup {p + 1}) = Cardinality(P) + 1
      <4>. HIDE DEF P
      <4>1. Cardinality(P \cup {p + 1}) = IF p + 1 \in P THEN Cardinality(P) ELSE Cardinality(P) + 1
        BY <2>1, FS_AddElement
      <4>. QED  BY <4>1, <2>2
    <3>. QED  BY <3>1, <3>2, <2>4, <1>1
  <2>. QED  BY <2>3, <2>4 DEF Waiting
<1>4. ASSUME NEW j \in f .. p + 1
      PROVE  /\ Waiting(l[j])
             /\ l[j].kind = "over" => \E g \in 1 .. h : t[g].filter = j
             /\ l[j].kind = "link" => l[j].stages # <<>> /\ l[j].equi
  <2>1. CASE j = p + 1
    <3>1. 1 \in 1 .. h
      BY <1>1
    <3>. QED  BY <2>1, <3>1
  <2>2. CASE j \in f .. p
    <3>1. /\ Waiting(l[j])
          /\ l[j].kind = "over" => \E m \in 1 .. i : s[m].filter = j
          /\ l[j].kind = "link" => l[j].stages # <<>> /\ l[j].equi
      BY <2>2, <1>1 DEF StageOn
    <3>2. \A m \in 1 .. i : s[m].filter = j => \E g \in 1 .. h : t[g].filter = j
      OBVIOUS
    <3>. QED  BY <3>1, <3>2
  <2>. QED  BY <2>1, <2>2, <1>2
<1>5. f \in 1 .. p + 1
  <2>. HIDE DEF f
  <2>. QED  BY <1>1
<1>6. /\ l[f].kind = "over" /\ l[f].own = t[h].own
      /\ h < Len(t) => l[f].had
  BY <1>1 DEF StageOn
<1>. QED  BY <1>1, <1>3, <1>4, <1>5, <1>6 DEF StageOn

\* A FILTER that hands its conjuncts down makes the way one node longer.
LEMMA WayThroughFilter ==
  ASSUME NEW l \in Seq(Entries), NEW s \in Seq(Stage), NEW p \in Nat, Way(l, s, p),
         NEW own \in Owns, l[p + 1].kind = "over", l[p + 1].phase = "source", l[p + 1].own = own,
         s # <<>> => l[p + 1].had
  PROVE  Way(l, <<[filter |-> p + 1, own |-> own, above |-> 0]>> \o s, p + 1)
<1>. DEFINE first == [filter |-> p + 1, own |-> own, above |-> 0]
            t == <<first>> \o s
<1>1. first \in Stage
  BY DEF Stage
<1>. HIDE DEF first
<1>2. /\ t \in Seq(Stage) /\ Len(t) = Len(s) + 1 /\ Len(s) \in Nat
      /\ t[1] = first /\ DOMAIN t = 1 .. Len(t) /\ DOMAIN s = 1 .. Len(s)
      /\ \A i \in DOMAIN s : i + 1 \in DOMAIN t /\ t[i + 1] = s[i]
      /\ \A i \in DOMAIN t : i = 1 \/ (i - 1 \in DOMAIN s /\ t[i] = s[i - 1])
  <2>1. <<first>> \in Seq(Stage) /\ Len(<<first>>) = 1 /\ <<first>>[1] = first
    BY <1>1
  <2>2. t \in Seq(Stage) /\ Len(t) = Len(s) + 1 /\ Len(s) \in Nat
    BY <2>1
  <2>3. \A i \in 1 .. Len(t) : t[i] = IF i <= 1 THEN first ELSE s[i - 1]
    BY <2>1
  <2>4. DOMAIN t = 1 .. Len(t) /\ DOMAIN s = 1 .. Len(s)
    BY <2>2
  <2>. HIDE DEF t
  <2>5. t[1] = first
    BY <2>2, <2>3
  <2>6. \A i \in DOMAIN s : i + 1 \in DOMAIN t /\ t[i + 1] = s[i]
    BY <2>2, <2>3, <2>4
  <2>7. ASSUME NEW i \in DOMAIN t, i # 1
        PROVE  i - 1 \in DOMAIN s /\ t[i] = s[i - 1]
    BY <2>2, <2>3, <2>4, <2>7
  <2>. QED  BY <2>2, <2>4, <2>5, <2>6, <2>7
<1>3. first.filter = p + 1 /\ first.own = own /\ first.above = 0
  BY DEF first
<1>. HIDE DEF t
<1>4. ASSUME NEW h \in DOMAIN t
      PROVE  StageOn(l, t, p + 1, h)
  <2>1. CASE h = 1
    <3>1. LinksOn(l, p + 1, p + 1) = {}
      BY DEF LinksOn
    <3>2. Cardinality(LinksOn(l, p + 1, p + 1)) = 0
      BY <3>1, FS_EmptySet
    <3>3. 1 < Len(t) => l[p + 1].had
      BY <1>2
    <3>4. \A j \in p + 1 .. p + 1 : j = p + 1
      OBVIOUS
    <3>5. \E m \in 1 .. 1 : t[m].filter = p + 1
      BY <1>2, <1>3
    <3>6. p + 1 \in 1 .. p + 1
      OBVIOUS
    <3>. QED  BY <2>1, <3>2, <3>3, <3>4, <3>5, <3>6, <1>2, <1>3 DEF Waiting, StageOn
  <2>2. CASE h # 1
    <3>1. h - 1 \in DOMAIN s /\ t[h] = s[h - 1] /\ (h < Len(t) => h - 1 < Len(s)) /\ h \in Nat
      BY <2>2, <1>2
    <3>2. \A m \in 1 .. h - 1 : m + 1 \in 1 .. h /\ t[m + 1].filter = s[m].filter
      BY SMTT(30), <3>1, <1>2
    <3>3. t[1].filter = p + 1 /\ Waiting(l[p + 1])
      BY <1>2, <1>3 DEF Waiting
    <3>4. t[h].filter = s[h - 1].filter /\ t[h].own = s[h - 1].own /\ t[h].above = s[h - 1].above
      BY <3>1
    <3>5. l[p + 1].kind # "link"
      OBVIOUS
    <3>6. \A m \in 1 .. h - 1 : \E g \in 1 .. h : t[g].filter = s[m].filter
      BY <3>2
    <3>7. t \in Seq(Stage)
      BY <1>2
    <3>. QED  BY <3>1, <3>3, <3>4, <3>5, <3>6, <3>7, StageFurther
  <2>. QED  BY <2>1, <2>2
<1>5. ASSUME NEW g \in DOMAIN t, NEW h \in DOMAIN t, g < h
      PROVE  t[g].filter > t[h].filter
  <2>1. h - 1 \in DOMAIN s /\ t[h] = s[h - 1]
    BY <1>2, <1>5
  <2>2. s[h - 1].filter \in Nat /\ s[h - 1].filter <= p
    BY <2>1, WayPlaces
  <2>3. CASE g = 1
    BY <2>1, <2>2, <2>3, <1>2, <1>3
  <2>4. CASE g # 1
    <3>1. g - 1 \in DOMAIN s /\ t[g] = s[g - 1] /\ g - 1 < h - 1
      BY <2>4, <1>2, <1>5
    <3>. QED  BY <3>1, <2>1 DEF Way
  <2>. QED  BY <2>3, <2>4
<1>6. Way(l, t, p + 1)
  BY <1>4, <1>5 DEF Way
<1>. QED  BY <1>6 DEF t, first

\* A stage that is past one more join.
LEMMA OnePast ==
  ASSUME NEW e \in Stage
  PROVE  /\ [e EXCEPT !.above = @ + 1] \in Stage
         /\ [e EXCEPT !.above = @ + 1].filter = e.filter
         /\ [e EXCEPT !.above = @ + 1].own = e.own
         /\ [e EXCEPT !.above = @ + 1].above = e.above + 1
BY DEF Stage

\* A LINK that hands on the first n stages counts itself among those they are past.
LEMMA WayThroughLink ==
  ASSUME NEW l \in Seq(Entries), NEW s \in Seq(Stage), NEW p \in Nat, Way(l, s, p), NEW n \in 1 .. Len(s),
         l[p + 1].kind = "link", l[p + 1].phase = "down", l[p + 1].stages # <<>>, l[p + 1].equi
  PROVE  /\ [i \in 1 .. n |-> [s[i] EXCEPT !.above = @ + 1]] \in Seq(Stage)
         /\ Way(l, [i \in 1 .. n |-> [s[i] EXCEPT !.above = @ + 1]], p + 1)
<1>. DEFINE past(i) == [s[i] EXCEPT !.above = @ + 1]
            t == [i \in 1 .. n |-> past(i)]
<1>1. n \in Nat /\ Len(s) \in Nat /\ n <= Len(s) /\ \A i \in 1 .. n : i \in DOMAIN s /\ s[i] \in Stage
  OBVIOUS
<1>2. ASSUME NEW e \in Stage
      PROVE  /\ [e EXCEPT !.above = @ + 1] \in Stage
             /\ [e EXCEPT !.above = @ + 1].filter = e.filter
             /\ [e EXCEPT !.above = @ + 1].own = e.own
             /\ [e EXCEPT !.above = @ + 1].above = e.above + 1
  BY OnePast
<1>3. \A i \in 1 .. n : /\ past(i) \in Stage /\ past(i).filter = s[i].filter
                        /\ past(i).own = s[i].own /\ past(i).above = s[i].above + 1
  BY <1>1, <1>2
<1>. HIDE DEF past
<1>4. t \in Seq(Stage) /\ Len(t) = n /\ DOMAIN t = 1 .. n /\ \A i \in 1 .. n : t[i] = past(i)
  BY <1>1, <1>3
<1>. HIDE DEF t
<1>5. ASSUME NEW h \in DOMAIN t
      PROVE  StageOn(l, t, p + 1, h)
  <2>1. /\ h \in DOMAIN s /\ h \in 1 .. n /\ t[h].filter = s[h].filter /\ t[h].own = s[h].own
        /\ t[h].above = s[h].above + 1 /\ (h < Len(t) => h < Len(s))
    BY <1>1, <1>3, <1>4
  <2>2. \A m \in 1 .. h : m \in 1 .. n /\ t[m].filter = s[m].filter
    BY <2>1, <1>1, <1>3, <1>4
  <2>3. Waiting(l[p + 1])
    BY DEF Waiting
  <2>. QED  BY <2>1, <2>2, <2>3, <1>4, StageFurther
<1>6. \A i, j \in DOMAIN t : i < j => t[i].filter > t[j].filter
  BY <1>1, <1>3, <1>4 DEF Way
<1>7. Way(l, t, p + 1)
  BY <1>5, <1>6 DEF Way
<1>. QED  BY <1>4, <1>7 DEF t, past

-----------------------------------------------------------------------------
(* The stack, when its top changes, a node is asked or one is left. *)

\* A node stays as it should be while it and those above it are the same.
LEMMA NodeStays ==
  ASSUME NEW k \in Seq(Entries), NEW l \in Seq(Entries), NEW p \in DOMAIN k, NodeOK(k, p),
         \A i \in 1 .. p : Same(l[i], k[i])
  PROVE  NodeOK(l, p)
<1>1. /\ p \in Nat /\ p >= 1 /\ p \in 1 .. p /\ p - 1 \in Nat /\ k[p] \in Entries
      /\ \A i \in 1 .. p - 1 : i \in 1 .. p
  OBVIOUS
<1>2. Same(l[p], k[p]) /\ \A i \in 1 .. p - 1 : Same(l[i], k[i])
  BY <1>1
<1>3. k[p].stages \in Seq(Stage)
  BY <1>1 DEF Entries
<1>4. Fits(l[p])
  BY <1>2 DEF NodeOK, Fits, Same
<1>5. Way(l, l[p].stages, p - 1)
  <2>1. Way(l, k[p].stages, p - 1)
    BY <1>1, <1>2, <1>3, WayStays DEF NodeOK
  <2>. QED  BY <2>1, <1>2 DEF Same
<1>6. l[p].deep => l[p].stages # <<>> /\ Unseen(l, l[p].stages, p - 1)
  <2>1. k[p].deep => k[p].stages # <<>> /\ Unseen(l, k[p].stages, p - 1)
    BY <1>1, <1>2, <1>3, UnseenStays DEF NodeOK
  <2>. QED  BY <2>1, <1>2 DEF Same
<1>7. p > 1 => Same(l[p - 1], k[p - 1])
  BY <1>1, <1>2
<1>8. /\ l[p].had => p > 1 /\ Waiting(l[p - 1])
      /\ p > 1 /\ l[p - 1].kind = "over" /\ l[p - 1].phase = "source" => l[p].kind = "link"
      /\ l[p].kind = "over" => l[p].read \in {0, p}
  BY <1>2, <1>7 DEF NodeOK, Same, Waiting
<1>. QED  BY <1>4, <1>5, <1>6, <1>8 DEF NodeOK

\* What the top of a stack may become.
MayBecome(k, e) ==
  /\ Fits(e) /\ e.kind = k[Len(k)].kind
  /\ e.had => k[Len(k)].had \/ (Len(k) > 1 /\ Waiting(k[Len(k) - 1]))
  /\ Way(k, e.stages, Len(k) - 1)
  /\ e.deep => e.stages # <<>> /\ Unseen(k, e.stages, Len(k) - 1)
  /\ e.kind = "over" => e.read \in {0, Len(k)}

\* In particular what only moves on, or forgets what it was asked for.
LEMMA MovesOn ==
  ASSUME NEW k \in Seq(Entries), NodesOK(k), k # <<>>,
         NEW e \in Entries, Fits(e), e.kind = k[Len(k)].kind,
         \/ /\ e.had = k[Len(k)].had /\ e.stages = k[Len(k)].stages
            /\ e.deep = k[Len(k)].deep /\ e.read = k[Len(k)].read
         \/ ~e.had /\ e.stages = <<>> /\ ~e.deep /\ (e.kind = "over" => e.read \in {0, Len(k)})
  PROVE  MayBecome(k, e)
<1>1. NodeOK(k, Len(k))
  BY DEF NodesOK
<1>2. Way(k, <<>>, Len(k) - 1)
  BY NoWay
<1>. QED  BY <1>1, <1>2 DEF NodeOK, MayBecome

\* The top may change as its own part of the invariant allows.
LEMMA TopChanges ==
  ASSUME NEW k \in Seq(Entries), NEW l \in Seq(Entries), NodesOK(k), k # <<>>, Len(l) = Len(k),
         \A i \in 1 .. Len(k) - 1 : Same(l[i], k[i]),
         NEW e \in Entries, l[Len(k)] = e, MayBecome(k, e)
  PROVE  NodesOK(l)
<1>. DEFINE n == Len(k)
<1>1. /\ n \in Nat /\ n >= 1 /\ n \in DOMAIN k /\ n - 1 \in Nat
      /\ DOMAIN l = 1 .. n /\ DOMAIN k = 1 .. n
  OBVIOUS
<1>2. ASSUME NEW p \in DOMAIN l, p # n
      PROVE  NodeOK(l, p)
  <2>1. p \in DOMAIN k /\ NodeOK(k, p) /\ \A i \in 1 .. p : i \in 1 .. n - 1
    BY <1>1, <1>2 DEF NodesOK
  <2>. QED  BY <2>1, NodeStays
<1>3. NodeOK(l, n)
  <2>1. e.stages \in Seq(Stage)
    BY DEF Entries
  <2>2. Way(l, e.stages, n - 1)
    BY <2>1, <1>1, WayStays DEF MayBecome
  <2>3. e.deep => e.stages # <<>> /\ Unseen(l, e.stages, n - 1)
    BY <2>1, <1>1, UnseenStays DEF MayBecome
  <2>4. n > 1 => Same(l[n - 1], k[n - 1])
    BY <1>1
  <2>5. NodeOK(k, n)
    BY <1>1 DEF NodesOK
  <2>6. e.had => n > 1 /\ Waiting(l[n - 1])
    BY <2>4, <2>5 DEF NodeOK, Same, Waiting, MayBecome
  <2>7. n > 1 /\ l[n - 1].kind = "over" /\ l[n - 1].phase = "source" => e.kind = "link"
    BY <2>4, <2>5 DEF NodeOK, Same, MayBecome
  <2>. QED  BY <2>2, <2>3, <2>6, <2>7 DEF NodeOK, MayBecome
<1>. QED  BY <1>2, <1>3 DEF NodesOK

\* A node that is asked has nothing yet; a FILTER over a join asks a join.
LEMMA Pushed ==
  ASSUME NEW k \in Seq(Entries), NodesOK(k), NEW e \in Entries, Fits(e),
         ~e.had, ~e.deep, e.stages = <<>>, e.read = 0,
         k # <<>> /\ k[Len(k)].kind = "over" /\ k[Len(k)].phase = "source" => e.kind = "link"
  PROVE  NodesOK(Append(k, e))
<1>. DEFINE l == Append(k, e)
            n == Len(k) + 1
<1>1. /\ l \in Seq(Entries) /\ DOMAIN l = 1 .. n /\ n \in Nat /\ n >= 1 /\ l[n] = e
      /\ DOMAIN k = 1 .. n - 1 /\ \A i \in 1 .. n - 1 : l[i] = k[i]
  OBVIOUS
<1>. HIDE DEF l
<1>2. ASSUME NEW p \in DOMAIN l, p # n
      PROVE  NodeOK(l, p)
  <2>1. p \in DOMAIN k /\ NodeOK(k, p) /\ \A i \in 1 .. p : i \in 1 .. n - 1 /\ l[i] = k[i]
    BY <1>1, <1>2 DEF NodesOK
  <2>2. \A i \in 1 .. p : Same(l[i], k[i])
    BY <2>1 DEF Same
  <2>. QED  BY <2>1, <2>2, <1>1, NodeStays
<1>3. NodeOK(l, n)
  <2>1. Way(l, <<>>, n - 1)
    BY NoWay
  <2>2. n > 1 => n - 1 \in 1 .. n - 1 /\ n - 1 = Len(k) /\ k # <<>>
    BY <1>1
  <2>. QED  BY <2>1, <2>2, <1>1 DEF NodeOK
<1>4. NodesOK(l)
  BY <1>2, <1>3 DEF NodesOK
<1>. QED  BY <1>4 DEF l

\* Leaving a node leaves the others.
LEMMA Popped ==
  ASSUME NEW k \in Seq(Entries), NodesOK(k), k # <<>>
  PROVE  /\ Front(k) \in Seq(Entries) /\ Len(Front(k)) = Len(k) - 1
         /\ \A i \in 1 .. Len(k) - 1 : Front(k)[i] = k[i]
         /\ NodesOK(Front(k))
<1>1. /\ Front(k) \in Seq(Entries) /\ Len(Front(k)) = Len(k) - 1
      /\ DOMAIN Front(k) = 1 .. Len(k) - 1
      /\ \A i \in 1 .. Len(k) - 1 : Front(k)[i] = k[i]
  <2>1. Len(k) \in Nat /\ Len(k) >= 1 /\ \A i \in 1 .. Len(k) - 1 : k[i] \in Entries
    OBVIOUS
  <2>2. Front(k) = [i \in 1 .. Len(k) - 1 |-> k[i]]
    BY <2>1 DEF Front
  <2>. QED  BY <2>1, <2>2
<1>2. ASSUME NEW p \in DOMAIN Front(k)
      PROVE  NodeOK(Front(k), p)
  <2>1. p \in DOMAIN k /\ NodeOK(k, p) /\ \A i \in 1 .. p : i \in 1 .. Len(k) - 1
    BY <1>1 DEF NodesOK
  <2>2. \A i \in 1 .. p : Same(Front(k)[i], k[i])
    BY <2>1, <1>1 DEF Same
  <2>. QED  BY <2>1, <2>2, <1>1, NodeStays
<1>. QED  BY <1>1, <1>2 DEF NodesOK

-----------------------------------------------------------------------------
(* The slots. *)

\* Nothing may lie in the slots anywhere.
LEMMA EmptySlots ==
  ASSUME NEW k
  PROVE  SlotsOK(k, Nothing, FALSE)
<1>1. Nothing.stages = <<>> /\ Nothing.deep = FALSE
  BY DEF Nothing
<1>. QED  BY <1>1, NoWay DEF SlotsOK

\* What lies in a slot stays there while its way does.
LEMMA SlotsStay ==
  ASSUME NEW k \in Seq(Entries), NEW l \in Seq(Entries),
         NEW h \in [stages : Seq(Stage), deep : BOOLEAN], NEW null \in BOOLEAN,
         SlotsOK(k, h, null), AskerOf(l) = AskerOf(k), AskerOf(k) <= Len(l),
         \A i \in 1 .. AskerOf(k) : Same(l[i], k[i])
  PROVE  SlotsOK(l, h, null)
<1>. DEFINE a == AskerOf(k)
<1>1. a \in Nat /\ \A i \in 1 .. a : i \in DOMAIN l
  BY DEF AskerOf
<1>2. h.stages \in Seq(Stage)
  OBVIOUS
<1>3. Way(l, h.stages, a)
  BY <1>1, <1>2, WayStays DEF SlotsOK
<1>4. h.deep => h # Nothing
  BY DEF Nothing
<1>5. h.deep => Unseen(l, h.stages, a)
  BY <1>1, <1>2, <1>4, UnseenStays DEF SlotsOK
<1>6. h # Nothing => (l[a].kind = "link" => h.deep)
  <2>1. h # Nothing => a >= 1
    BY <1>1, <1>2, WayWaits DEF SlotsOK
  <2>2. h # Nothing => Same(l[a], k[a])
    BY <2>1, <1>1
  <2>. QED  BY <2>2 DEF SlotsOK, Same
<1>7. null => /\ h = Nothing /\ a \in DOMAIN l
              /\ l[a].kind = "over" /\ l[a].phase = "source"
  <2>1. null => a \in 1 .. a
    BY <1>1 DEF SlotsOK
  <2>. QED  BY <2>1, <1>1 DEF SlotsOK, Same
<1>. QED  BY <1>3, <1>5, <1>6, <1>7 DEF SlotsOK

\* No conjuncts and no IS_NULL while anything but a source is evaluated.
LEMMA NothingHanded ==
  ASSUME NEW k \in Seq(Entries), NEW h \in [stages : Seq(Stage), deep : BOOLEAN],
         NEW null \in BOOLEAN, SlotsOK(k, h, null),
         k # <<>> => k[Len(k)].phase \notin {"call", "plan", "head"} /\ ~Waiting(k[Len(k)])
  PROVE  h = Nothing /\ null = FALSE
<1>1. AskerOf(k) = Len(k) /\ Len(k) \in Nat /\ (Len(k) >= 1 => k # <<>>)
  BY DEF AskerOf
<1>2. h.stages \in Seq(Stage)
  OBVIOUS
<1>3. h = Nothing
  BY <1>1, <1>2, WayWaits DEF SlotsOK
<1>4. ~null
  BY <1>1 DEF SlotsOK, Waiting
<1>. QED  BY <1>3, <1>4

-----------------------------------------------------------------------------
(* The report. *)

\* An empty report slot asks for nothing.
LEMMA NoReportOK ==
  ASSUME NEW k, NEW res
  PROVE  ReportOK(k, NoReport, res)
BY DEF ReportOK, NoReport

\* A report stays for whom it was made while another node than that one goes on.
LEMMA ReportStays ==
  ASSUME NEW k \in Seq(Entries), NEW l \in Seq(Entries), k # <<>>, Len(l) = Len(k),
         \A i \in 1 .. Len(k) - 1 : Same(l[i], k[i]),
         NEW r, NEW was, NEW res, ReportOK(k, r, was),
         ~Waiting(k[Len(k)]), k[Len(k)].phase # "link_body",
         l[Len(k)].kind = "link" /\ l[Len(k)].phase \in LatePhases =>
           k[Len(k)].kind = "link" /\ k[Len(k)].phase \in LatePhases,
         res = "ok" => ~Waiting(l[Len(k)])
  PROVE  ReportOK(l, r, res)
<1>. DEFINE n == Len(k)
<1>1. n \in Nat /\ n >= 1 /\ DOMAIN k = 1 .. n /\ DOMAIN l = 1 .. n /\ l # <<>>
  OBVIOUS
<1>2. r # NoReport => r.reader \in 1 .. n - 1 /\ Waiting(k[r.reader])
  BY <1>1 DEF ReportOK
<1>3. r # NoReport => Waiting(l[r.reader])
  BY <1>2 DEF Waiting, Same
<1>4. ASSUME NEW p \in DOMAIN l, l[p].kind = "link", l[p].phase \in LatePhases
      PROVE  r.reader = 0 \/ r.reader >= p - 1
  <2>1. p # n => p \in 1 .. n - 1
    BY <1>1
  <2>2. k[p].kind = "link" /\ k[p].phase \in LatePhases
    BY <2>1, <1>1, <1>4 DEF Same
  <2>. QED  BY <2>2, <1>1 DEF ReportOK
<1>. QED  BY <1>1, <1>2, <1>3, <1>4 DEF ReportOK, Waiting

\* A report for a node above stays as a node is left, with an answer for a FILTER
\* over a join only by the join.
LEMMA ReportLeft ==
  ASSUME NEW k \in Seq(Entries), k # <<>>, NodesOK(k),
         NEW r, NEW was, NEW res, ReportOK(k, r, was),
         ~Waiting(k[Len(k)]), k[Len(k)].phase # "link_body",
         res = "ok" /\ k[Len(k)].kind = "link" => k[Len(k)].phase \in LatePhases
  PROVE  ReportOK(Front(k), r, res)
<1>. DEFINE n == Len(k)
            l == Front(k)
<1>1. /\ n \in Nat /\ n >= 1 /\ DOMAIN k = 1 .. n /\ l \in Seq(Entries) /\ Len(l) = n - 1
      /\ DOMAIN l = 1 .. n - 1 /\ \A i \in 1 .. n - 1 : l[i] = k[i]
  BY SMTT(30), Popped
<1>. HIDE DEF l
<1>2. r # NoReport => r.reader \in 1 .. n - 1 /\ Waiting(k[r.reader])
  BY <1>1 DEF ReportOK
<1>3. ASSUME l # <<>>, l[Len(l)].kind = "over", l[Len(l)].phase = "source", res = "ok"
      PROVE  r.reader \in {0, Len(l)}
  <2>1. Len(l) = n - 1 /\ n > 1 /\ n - 1 \in 1 .. n - 1 /\ l[n - 1] = k[n - 1]
    BY <1>1, <1>3
  <2>2. NodeOK(k, n)
    BY <1>1 DEF NodesOK
  <2>3. k[n].kind = "link" /\ k[n].phase \in LatePhases
    BY <2>1, <2>2, <1>3 DEF NodeOK
  <2>4. r.reader = 0 \/ r.reader >= n - 1
    BY <2>3, <1>1 DEF ReportOK
  <2>5. r = NoReport \/ r.reader = n - 1
    BY <2>4, <1>1, <1>2 DEF ReportOK
  <2>. QED  BY <2>1, <2>5 DEF NoReport
<1>4. r # NoReport => r.reader \in DOMAIN l /\ Waiting(l[r.reader])
  BY <1>1, <1>2
<1>5. \A p \in DOMAIN l : p \in DOMAIN k /\ l[p] = k[p]
  BY <1>1
<1>6. ReportOK(l, r, res)
  BY <1>3, <1>4, <1>5 DEF ReportOK
<1>. QED  BY <1>6 DEF l

\* One made for the node above the last.
LEMMA ReportMade ==
  ASSUME NEW k \in Seq(Entries), NEW p \in Nat, p >= 1, Waiting(k[p]), Len(k) \in {p, p + 1},
         NEW r, r.reader = p, NEW res,
         Len(k) = p + 1 => ~Waiting(k[p + 1])
  PROVE  ReportOK(k, r, res)
<1>1. k # <<>> /\ p \in DOMAIN k /\ \A q \in DOMAIN k : q \in Nat /\ q <= p + 1
  OBVIOUS
<1>. QED  BY <1>1 DEF ReportOK, Waiting

-----------------------------------------------------------------------------
(* Steps. *)

\* The node at the top is one of the stack's.
LEMMA TopIsLast ==
  ASSUME stack \in Seq(Entries), stack # <<>>
  PROVE  /\ Here \in Nat /\ Here >= 1 /\ Here \in DOMAIN stack
         /\ Top = stack[Here] /\ Top \in Entries
BY DEF Top, Here

\* A phase that is not the root's is a node's.
LEMMA PhaseOfNode ==
  ASSUME Top.phase # "run"
  PROVE  stack # <<>>
BY DEF Top, Root

\* Become replaces the node on top and no other.
LEMMA Became ==
  ASSUME stack \in Seq(Entries), stack # <<>>, NEW e \in Entries, Become(e)
  PROVE  /\ stack' \in Seq(Entries) /\ Len(stack') = Here /\ stack'[Here] = e
         /\ \A i \in 1 .. Here - 1 : Same(stack'[i], stack[i])
<1>1. Here \in Nat /\ Here >= 1 /\ DOMAIN stack = 1 .. Here
  BY DEF Here
<1>2. stack' = [stack EXCEPT ![Here] = e]
  BY DEF Become
<1>3. stack' \in Seq(Entries) /\ Len(stack') = Here /\ stack'[Here] = e
  BY <1>1, <1>2 DEF Here
<1>4. \A i \in 1 .. Here - 1 : stack'[i] = stack[i]
  BY <1>1, <1>2
<1>. QED  BY <1>3, <1>4 DEF Same

\* Moving on to another phase, with everything else as it was.
LEMMA TopTo ==
  ASSUME IInv, stack # <<>>, NEW p \in Phases, To(p),
         Top.kind = "guard" => p \in {"try", "else"},
         Top.kind = "over" => p \in OverPhases,
         Top.kind = "filter" => p \in FilterPhases,
         Top.kind = "link" => p \in EarlyPhases \cup LatePhases,
         p \in {"right_first", "down"} => Top.phase \in {"right_first", "down"},
         Top.kind = "link" /\ Top.phase \in LatePhases => p \in LatePhases
  PROVE  /\ stack' \in Seq(Entries) /\ Len(stack') = Here
         /\ stack'[Here].kind = Top.kind /\ stack'[Here].phase = p
         /\ stack'[Here].stages = Top.stages /\ stack'[Here].equi = Top.equi
         /\ stack'[Here].left = Top.left /\ stack'[Here].deep = Top.deep
         /\ \A i \in 1 .. Here - 1 : Same(stack'[i], stack[i])
         /\ NodesOK(stack')
<1>. DEFINE e == [Top EXCEPT !.phase = p]
<1>1. /\ stack \in Seq(Entries) /\ NodesOK(stack) /\ Here \in DOMAIN stack
      /\ Top = stack[Here] /\ Top \in Entries
  BY TopIsLast DEF IInv, TypeOK
<1>2. e = [Top EXCEPT !.phase = p] /\ Become(e)
  BY DEF To
<1>. HIDE DEF e
<1>3. /\ e \in Entries /\ e.phase = p /\ e.kind = Top.kind /\ e.fields = Top.fields
      /\ e.own = Top.own /\ e.had = Top.had /\ e.read = Top.read /\ e.stages = Top.stages
      /\ e.deep = Top.deep /\ e.equi = Top.equi /\ e.left = Top.left /\ e.walk = Top.walk
  BY <1>1, <1>2 DEF Entries
<1>4. Fits(Top)
  BY <1>1 DEF NodesOK, NodeOK
<1>5. Fits(e)
  BY <1>3, <1>4 DEF Fits
<1>6. MayBecome(stack, e)
  BY <1>1, <1>3, <1>5, MovesOn DEF Here
<1>7. /\ stack' \in Seq(Entries) /\ Len(stack') = Here /\ stack'[Here] = e
      /\ \A i \in 1 .. Here - 1 : Same(stack'[i], stack[i])
  BY <1>1, <1>2, <1>3, Became
<1>8. NodesOK(stack')
  BY <1>1, <1>3, <1>6, <1>7, TopChanges DEF Here
<1>. QED  BY <1>3, <1>7, <1>8

\* A node goes on from one phase to another, neither of them one in which it asks
\* for a source it hands conjuncts to or takes what was handed to it.
LEMMA GoesOn ==
  ASSUME IInv, stack # <<>>, stack' \in Seq(Entries), Len(stack') = Here,
         \A i \in 1 .. Here - 1 : Same(stack'[i], stack[i]), NodesOK(stack'),
         Top.phase \notin {"call", "plan", "head", "link_body"}, ~Waiting(Top),
         stack'[Here].phase \notin {"call", "plan", "head"}, ~Waiting(stack'[Here]),
         stack'[Here].kind = "link" /\ stack'[Here].phase \in LatePhases =>
           Top.kind = "link" /\ Top.phase \in LatePhases,
         UNCHANGED <<handed, right_null, report>>,
         result' \in {"none", "ok"} \cup Errors
  PROVE  IInv'
<1>1. /\ stack \in Seq(Entries) /\ Top = stack[Len(stack)]
      /\ handed \in [stages : Seq(Stage), deep : BOOLEAN] /\ right_null \in BOOLEAN
      /\ SlotsOK(stack, handed, right_null) /\ ReportOK(stack, report, result)
  BY TopIsLast DEF IInv, TypeOK, Here
<1>2. TypeOK'
  BY DEF IInv, TypeOK
<1>3. handed' = Nothing /\ right_null' = FALSE
  BY <1>1, NothingHanded
<1>4. SlotsOK(stack', handed', right_null')
  BY <1>3, EmptySlots
<1>5. ReportOK(stack', report', result')
  BY <1>1, ReportStays DEF Here
<1>. QED  BY <1>2, <1>4, <1>5 DEF IInv

\* An answer that is no join's leaves the report as it was.
LEMMA ReportAnswered ==
  ASSUME NEW k, NEW r, NEW was, NEW res, ReportOK(k, r, was),
         res = "ok" => k = <<>> \/ k[Len(k)].kind # "over" \/ k[Len(k)].phase # "source"
  PROVE  ReportOK(k, r, res)
BY DEF ReportOK

\* A report stays for whom it was made when a node is pushed.
LEMMA ReportPushed ==
  ASSUME NEW k \in Seq(Entries), NEW e \in Entries, NEW r, NEW res, ReportOK(k, r, res),
         k # <<>> => k[Len(k)].phase # "link_body",
         e.phase \notin LatePhases, e.phase # "source"
  PROVE  ReportOK(Append(k, e), r, res)
<1>. DEFINE l == Append(k, e)
<1>1. /\ Len(k) \in Nat /\ DOMAIN l = 1 .. Len(k) + 1 /\ DOMAIN k = 1 .. Len(k)
      /\ \A i \in DOMAIN k : l[i] = k[i]
      /\ l[Len(k) + 1] = e /\ Len(l) = Len(k) + 1
  OBVIOUS
<1>. HIDE DEF l
<1>2. r # NoReport => r.reader \in DOMAIN k /\ Waiting(k[r.reader])
  BY <1>1 DEF ReportOK
<1>3. r # NoReport => r.reader \in DOMAIN l /\ Waiting(l[r.reader])
  BY <1>1, <1>2
<1>4. ASSUME NEW p \in DOMAIN l, l[p].kind = "link", l[p].phase \in LatePhases
      PROVE  r.reader = 0 \/ r.reader >= p - 1
  <2>1. p \in DOMAIN k /\ l[p] = k[p]
    BY <1>1, <1>4
  <2>. QED  BY <2>1, <1>4 DEF ReportOK
<1>5. r.reader = 0 => r = NoReport
  BY DEF ReportOK
<1>6. ReportOK(l, r, res)
  BY <1>1, <1>3, <1>4, <1>5 DEF ReportOK
<1>. QED  BY <1>6 DEF l

\* A node that takes what was handed asks for nothing; a FILTER over a join asks for
\* the join, and a join for a source that can take what it hands down.
LEMMA AskedNode ==
  ASSUME IInv, NEW kind \in Asked
  PROVE  /\ Top.phase \notin {"call", "plan", "head", "link_body"}
         /\ At("over", "source") => kind = "link"
         /\ Waiting(Top) => kind # "guard"
<1>1. stack # <<>> => Fits(Top) /\ Top \in Entries
  BY TopIsLast DEF IInv, TypeOK, NodesOK, NodeOK
<1>2. Top.fields => Top.kind = "guard" /\ Top.phase \in {"try", "else"}
  <2>1. CASE stack = <<>>
    BY <2>1 DEF Top, Root
  <2>2. CASE stack # <<>>
    BY <1>1, <2>2 DEF Fits
  <2>. QED  BY <2>1, <2>2
<1>3. Top.phase \in {"call", "plan", "head", "link_body"} => ~InFields
  BY <1>2 DEF InFields, At
<1>4. Top.phase \notin {"call", "plan", "head", "link_body"}
  BY <1>3 DEF Asked, At
<1>5. Waiting(Top) => ~InFields /\ stack # <<>>
  BY <1>2 DEF InFields, At, Waiting, Top, Root
<1>6. At("over", "source") => kind = "link"
  BY <1>5 DEF Asked, At, Waiting
<1>7. At("link", "down") => kind # "guard"
  BY <1>1, <1>5 DEF Asked, At, Waiting, Entries, LeftKinds
<1>. QED  BY <1>4, <1>6, <1>7 DEF At, Waiting

\* What eval_node pushes: a node at its beginning, that owes no one anything.
LEMMA NewNode ==
  ASSUME NEW kind \in Kinds, stack \in Seq(Entries),
         InFields => kind = "guard", InFields \in BOOLEAN
  PROVE  LET e == Node(kind)
         IN  /\ e \in Entries /\ Fits(e) /\ e.kind = kind /\ e.phase \in {"try", "plan", "call"}
             /\ (e.phase = "try" <=> kind = "guard")
             /\ ~e.had /\ ~e.deep /\ e.stages = <<>> /\ e.read = 0
<1>. DEFINE e == Node(kind)
<1>1. /\ e.kind = kind /\ e.had = FALSE /\ e.deep = FALSE /\ e.stages = <<>> /\ e.read = 0
      /\ e.walk = 0 /\ e.fields = InFields
      /\ e.phase = CASE kind = "guard" -> "try" [] kind = "over" -> "plan" [] OTHER -> "call"
  BY DEF Node
<1>2. e.phase \in Phases
  BY <1>1 DEF Phases, FilterPhases, OverPhases
<1>3. /\ "blocked" \in Owns /\ "leaf" \in LeftKinds /\ "none" \in Errors \cup {"none"}
      /\ <<>> \in Seq(Stage) /\ 0 \in Nat
  BY DEF Owns, LeftKinds
<1>4. \A p \in Phases :
        [kind |-> kind, phase |-> p, fields |-> InFields,
         own |-> "blocked", over |-> FALSE, had |-> FALSE, readsK |-> FALSE,
         unobserved |-> FALSE, read |-> 0,
         stages |-> <<>>, deep |-> FALSE, equi |-> FALSE, left |-> "leaf",
         err |-> "none", below |-> FALSE, lost |-> FALSE, dropped |-> FALSE,
         errored |-> FALSE, walk |-> 0] \in Entries
  BY <1>3 DEF Entries
<1>5. e \in Entries
  BY <1>2, <1>4 DEF Node
<1>. HIDE DEF e
<1>6. Walked(<<>>, 0) /\ Len(<<>>) = 0
  BY DEF Walked
<1>7. Fits(e)
  BY <1>1, <1>6 DEF Fits, Kinds, FilterPhases, OverPhases, EarlyPhases
<1>. QED  BY <1>1, <1>5, <1>7 DEF Kinds, e

-----------------------------------------------------------------------------
(* The actions of eval.rs. *)

\* An error that empties join_prefilter (Clear) leaves the slots well.
LEMMA EmptyHanded ==
  ASSUME NEW k, NEW h, NEW null, SlotsOK(k, h, null)
  PROVE  SlotsOK(k, Nothing, null)
<1>1. Nothing.stages = <<>> /\ Nothing.deep = FALSE
  BY DEF Nothing
<1>. QED  BY <1>1, NoWay DEF SlotsOK

\* The two empty slots and the errors are of their types.
LEMMA Types ==
  /\ Nothing \in [stages : Seq(Stage), deep : BOOLEAN]
  /\ NoReport \in [reader : Nat, dropped : BOOLEAN, errored : BOOLEAN, rest : {"any", "total", "none"}]
  /\ \A e \in Errors : e # "ok" /\ e # "none"
  /\ Caught \cup {"E_OTHER"} \subseteq Errors /\ "E_DEPTH" \in Errors
BY DEF Nothing, NoReport, Errors, Caught

\* eval_node: a node asks for its next argument.
LEMMA EvalNodeStep ==
  ASSUME IInv, NEW kind \in Kinds \cup {"leaf"}, eval_node(kind)
  PROVE  IInv'
<1>1. /\ stack \in Seq(Entries) /\ NodesOK(stack) /\ result = "none" /\ kind \in Asked
      /\ handed \in [stages : Seq(Stage), deep : BOOLEAN] /\ right_null \in BOOLEAN
      /\ SlotsOK(stack, handed, right_null) /\ ReportOK(stack, report, result)
      /\ (stack # <<>> => Top = stack[Len(stack)])
  BY TopIsLast DEF IInv, TypeOK, eval_node, Here
<1>2. /\ Top.phase \notin {"call", "plan", "head", "link_body"}
      /\ At("over", "source") => kind = "link"
      /\ Waiting(Top) => kind # "guard"
  BY <1>1, AskedNode
<1>3. CASE UNCHANGED <<stack, handed, report>> /\ result' = "E_DEPTH"
  <2>1. TypeOK'
    BY <1>3, Types DEF IInv, TypeOK, eval_node
  <2>2. ReportOK(stack', report', result')
    BY <1>1, <1>3, ReportAnswered
  <2>. QED  BY <1>1, <1>3, <2>1, <2>2 DEF IInv, eval_node
<1>4. CASE UNCHANGED <<stack, handed, report>> /\ result' = "ok" /\ kind = "leaf"
  <2>1. TypeOK'
    BY <1>4 DEF IInv, TypeOK, eval_node
  <2>2. ReportOK(stack', report', result')
    BY <1>1, <1>2, <1>4, ReportAnswered DEF At
  <2>. QED  BY <1>1, <1>4, <2>1, <2>2 DEF IInv, eval_node
<1>5. CASE UNCHANGED stack /\ Clear /\ result' \in Caught \cup {"E_OTHER"}
  <2>1. handed' = Nothing /\ report' = NoReport /\ result' \in Errors
    BY <1>5, Types DEF Clear
  <2>2. TypeOK'
    BY <1>5, <2>1, Types DEF IInv, TypeOK, eval_node
  <2>3. ReportOK(stack', report', result')
    BY <2>1, NoReportOK
  <2>4. SlotsOK(stack', handed', right_null')
    BY <1>1, <1>5, <2>1, EmptyHanded DEF eval_node
  <2>. QED  BY <1>1, <1>5, <2>2, <2>3, <2>4 DEF IInv
<1>6. CASE kind \in Kinds /\ stack' = Append(stack, Node(kind)) /\ UNCHANGED <<handed, report, result>>
  <2>. DEFINE e == Node(kind)
  <2>1. InFields \in BOOLEAN /\ (InFields => kind = "guard")
    BY <1>1, <1>6 DEF InFields, Asked, Kinds
  <2>2. /\ e \in Entries /\ Fits(e) /\ e.kind = kind /\ e.phase \in {"try", "plan", "call"}
        /\ (e.phase = "try" <=> kind = "guard")
        /\ ~e.had /\ ~e.deep /\ e.stages = <<>> /\ e.read = 0
    BY <1>1, <1>6, <2>1, NewNode
  <2>. HIDE DEF e
  <2>3. /\ stack' = Append(stack, e) /\ stack' \in Seq(Entries) /\ Len(stack') = Len(stack) + 1
        /\ stack'[Len(stack')] = e /\ Len(stack) \in Nat /\ stack' # <<>>
        /\ \A i \in 1 .. Len(stack) : stack'[i] = stack[i]
    BY <1>1, <1>6, <2>2 DEF e
  <2>4. TypeOK'
    BY <1>6, <2>3 DEF IInv, TypeOK, eval_node
  <2>5. NodesOK(stack')
    BY <1>1, <1>2, <2>2, <2>3, Pushed DEF At
  <2>6. ReportOK(stack', report', result')
    <3>1. e.phase \notin LatePhases /\ e.phase # "source"
      BY <2>2 DEF LatePhases
    <3>2. ReportOK(stack', report, result)
      BY <1>1, <1>2, <2>2, <2>3, <3>1, ReportPushed
    <3>. QED  BY <3>2, <1>6
  <2>7. SlotsOK(stack', handed', right_null')
    <3>1. CASE kind = "guard"
      <4>1. handed = Nothing /\ right_null = FALSE
        BY <1>1, <1>2, <3>1, NothingHanded
      <4>. QED  BY <4>1, <1>6, EmptySlots DEF eval_node
    <3>2. CASE kind # "guard"
      <4>1. AskerOf(stack') = Len(stack) /\ AskerOf(stack) = Len(stack)
        BY <1>1, <1>2, <2>2, <2>3, <3>2 DEF AskerOf
      <4>2. \A i \in 1 .. AskerOf(stack) : Same(stack'[i], stack[i])
        BY <2>3, <4>1 DEF Same
      <4>3. SlotsOK(stack', handed, right_null)
        <5>1. AskerOf(stack) <= Len(stack') /\ AskerOf(stack') = AskerOf(stack)
          BY <2>3, <4>1
        <5>2. /\ stack \in Seq(Entries) /\ stack' \in Seq(Entries)
              /\ handed \in [stages : Seq(Stage), deep : BOOLEAN] /\ right_null \in BOOLEAN
              /\ SlotsOK(stack, handed, right_null)
          BY <1>1, <2>3
        <5>. QED  BY <4>2, <5>1, <5>2, SlotsStay
      <4>. QED  BY <4>3, <1>6 DEF eval_node
    <3>. QED  BY <3>1, <3>2
  <2>. QED  BY <2>4, <2>5, <2>6, <2>7 DEF IInv
<1>7. kind # "leaf" => kind \in Kinds
  OBVIOUS
<1>. QED  BY <1>3, <1>4, <1>5, <1>6, <1>7 DEF eval_node

\* An error leaves the node on top.
LEMMA FailStep ==
  ASSUME IInv, Fail
  PROVE  IInv'
<1>1. /\ stack \in Seq(Entries) /\ stack # <<>> /\ NodesOK(stack) /\ right_null \in BOOLEAN
      /\ stack' = Front(stack) /\ result' = result /\ result \in Errors
      /\ handed' = Nothing /\ report' = NoReport
      /\ right_null' = (right_null /\ Top.phase # "source")
      /\ Top = stack[Len(stack)] /\ SlotsOK(stack, handed, right_null)
  BY TopIsLast DEF IInv, TypeOK, Fail, Leave, Clear, Here
<1>2. /\ stack' \in Seq(Entries) /\ NodesOK(stack') /\ Len(stack') = Len(stack) - 1
      /\ \A i \in 1 .. Len(stack) - 1 : stack'[i] = stack[i]
  BY <1>1, Popped
<1>3. TypeOK'
  BY <1>1, <1>2, Types DEF IInv, TypeOK
<1>4. SlotsOK(stack', Nothing, right_null')
  <2>1. CASE right_null'
    <3>1. /\ AskerOf(stack) \in DOMAIN stack /\ stack[AskerOf(stack)].kind = "over"
          /\ stack[AskerOf(stack)].phase = "source" /\ Top.phase # "source"
      BY <1>1, <2>1 DEF SlotsOK
    <3>2. AskerOf(stack) = Len(stack) - 1 /\ Len(stack) - 1 \in 1 .. Len(stack) - 1
      BY <1>1, <3>1 DEF AskerOf
    <3>3. AskerOf(stack') = Len(stack) - 1 /\ Len(stack) - 1 \in DOMAIN stack'
      BY <1>2, <3>1, <3>2 DEF AskerOf
    <3>4. SlotsOK(stack', Nothing, FALSE)
      BY EmptySlots
    <3>. QED  BY <1>2, <3>1, <3>2, <3>3, <3>4 DEF SlotsOK
  <2>2. CASE ~right_null'
    BY <1>1, <2>2, EmptySlots
  <2>. QED  BY <2>1, <2>2
<1>5. ReportOK(stack', report', result')
  BY <1>1, NoReportOK
<1>. QED  BY <1>1, <1>2, <1>3, <1>4, <1>5 DEF IInv

\* What was asked for has its value.
LEMMA ResumeStep ==
  ASSUME IInv, Resume
  PROVE  IInv'
<1>1. UNCHANGED <<stack, handed, right_null, report>> /\ result' = "none"
  BY DEF Resume
<1>2. TypeOK'
  BY <1>1 DEF IInv, TypeOK
<1>3. ReportOK(stack', report', result')
  BY <1>1, ReportAnswered DEF IInv
<1>. QED  BY <1>1, <1>2, <1>3 DEF IInv

\* The next run, after an error.
LEMMA NewRunStep ==
  ASSUME IInv, NewRun
  PROVE  IInv'
<1>1. /\ UNCHANGED stack /\ handed' = Nothing /\ report' = NoReport /\ right_null' = FALSE
      /\ result' = "none"
  BY DEF NewRun, Clear
<1>2. TypeOK'
  BY <1>1, Types DEF IInv, TypeOK
<1>. QED  BY <1>1, <1>2, NoReportOK, EmptySlots DEF IInv

\* The node on top has its value.
LEMMA ReturnStep ==
  ASSUME IInv, Return
  PROVE  IInv'
<1>1. /\ stack \in Seq(Entries) /\ NodesOK(stack)
      /\ handed \in [stages : Seq(Stage), deep : BOOLEAN] /\ right_null \in BOOLEAN
      /\ SlotsOK(stack, handed, right_null) /\ ReportOK(stack, report, result)
      /\ stack' = Front(stack) /\ result' = "ok"
      /\ UNCHANGED <<handed, right_null, report>>
      /\ Top.phase \in {"body", "predicate", "done", "try", "else"}
  BY DEF IInv, TypeOK, Return, Leave
<1>2. stack # <<>> /\ Top = stack[Len(stack)]
  BY <1>1, PhaseOfNode, TopIsLast DEF Here
<1>3. Fits(Top)
  BY <1>1, <1>2, TopIsLast DEF NodesOK, NodeOK, Here
<1>4. stack' \in Seq(Entries) /\ NodesOK(stack')
  BY <1>1, <1>2, Popped
<1>5. TypeOK'
  BY <1>1, <1>4 DEF IInv, TypeOK
<1>6. ~Waiting(Top) /\ (Top.kind = "link" => Top.phase \in LatePhases)
  BY <1>1, <1>3 DEF Waiting, Fits, EarlyPhases, LatePhases
<1>7. handed = Nothing /\ right_null = FALSE
  BY <1>1, <1>2, <1>6, NothingHanded
<1>8. ReportOK(stack', report', result')
  BY <1>1, <1>2, <1>6, ReportLeft
<1>. QED  BY <1>1, <1>4, <1>5, <1>7, <1>8, EmptySlots DEF IInv

\* ?? goes to its other operand, after a value or a caught error.
LEMMA FallBackStep ==
  ASSUME IInv, FallBack
  PROVE  IInv'
<1>1. /\ Top.phase = "try" /\ To("else") /\ result' = "none"
      /\ UNCHANGED <<handed, right_null, report>>
  BY DEF FallBack
<1>2. stack # <<>>
  BY <1>1, PhaseOfNode
<1>3. Top.kind = "guard" /\ ~Waiting(Top)
  <2>1. Fits(Top) /\ Top.kind \in Kinds
    BY <1>2, TopIsLast DEF IInv, TypeOK, NodesOK, NodeOK, Entries
  <2>. QED  BY <1>1, <2>1 DEF Fits, Kinds, OverPhases, FilterPhases, EarlyPhases, LatePhases, Waiting
<1>4. /\ stack' \in Seq(Entries) /\ Len(stack') = Here /\ NodesOK(stack')
      /\ stack'[Here].kind = "guard" /\ stack'[Here].phase = "else"
      /\ \A i \in 1 .. Here - 1 : Same(stack'[i], stack[i])
  BY <1>1, <1>2, <1>3, TopTo DEF Phases
<1>. QED  BY <1>1, <1>2, <1>3, <1>4, GoesOn DEF Waiting

\* What the invariant says of the node at the top.
LEMMA AtTop ==
  ASSUME IInv, stack # <<>>
  PROVE  /\ stack \in Seq(Entries) /\ NodesOK(stack)
         /\ Here = Len(stack) /\ Here \in Nat /\ Here >= 1 /\ Here \in DOMAIN stack
         /\ Top = stack[Here] /\ Top \in Entries /\ Top.kind \in Kinds
         /\ NodeOK(stack, Here) /\ Fits(Top)
         /\ handed \in [stages : Seq(Stage), deep : BOOLEAN] /\ handed.stages \in Seq(Stage)
         /\ right_null \in BOOLEAN
         /\ SlotsOK(stack, handed, right_null) /\ ReportOK(stack, report, result)
<1>1. /\ stack \in Seq(Entries) /\ NodesOK(stack) /\ Here = Len(stack)
      /\ handed \in [stages : Seq(Stage), deep : BOOLEAN] /\ right_null \in BOOLEAN
      /\ SlotsOK(stack, handed, right_null) /\ ReportOK(stack, report, result)
  BY DEF IInv, TypeOK, Here
<1>2. /\ Here \in Nat /\ Here >= 1 /\ Here \in DOMAIN stack
      /\ Top = stack[Here] /\ Top \in Entries
  BY <1>1, TopIsLast
<1>3. NodeOK(stack, Here) /\ Fits(Top)
  BY <1>1, <1>2 DEF NodesOK, NodeOK
<1>4. Top.kind \in Kinds
  BY <1>2 DEF Entries
<1>. QED  BY <1>1, <1>2, <1>3, <1>4

\* A node that changes as it may leaves every node what it has to be.
LEMMA BecameOK ==
  ASSUME IInv, stack # <<>>, NEW e \in Entries, Become(e), MayBecome(stack, e)
  PROVE  /\ stack' \in Seq(Entries) /\ Len(stack') = Here /\ stack' # <<>> /\ stack'[Here] = e
         /\ \A i \in 1 .. Here - 1 : Same(stack'[i], stack[i])
         /\ NodesOK(stack')
<1>1. /\ stack' \in Seq(Entries) /\ Len(stack') = Here /\ stack'[Here] = e
      /\ \A i \in 1 .. Here - 1 : Same(stack'[i], stack[i])
  BY AtTop, Became
<1>2. NodesOK(stack')
  BY <1>1, AtTop, TopChanges
<1>3. stack' # <<>>
  BY <1>1, AtTop
<1>. QED  BY <1>1, <1>2, <1>3

\* An opening IS_NULL waits for a join only.
LEMMA NullForJoin ==
  ASSUME IInv, stack # <<>>, Top.phase \in {"call", "plan", "head"}, Top.kind # "link"
  PROVE  right_null = FALSE
<1>1. SUFFICES ASSUME right_null
               PROVE  FALSE
  BY AtTop
<1>2. /\ AskerOf(stack) = Here - 1 /\ Here - 1 \in DOMAIN stack
      /\ stack[Here - 1].kind = "over" /\ stack[Here - 1].phase = "source"
  BY <1>1, AtTop DEF SlotsOK, AskerOf
<1>. QED  BY <1>2, AtTop DEF NodeOK

\* eval_call: directly, or as a pipeline if the slots are empty.
LEMMA EvalCallStep ==
  ASSUME IInv, eval_call
  PROVE  IInv'
<1>1. /\ Top.phase = "call" /\ stack # <<>>
      /\ UNCHANGED <<handed, right_null, report, result>>
  BY PhaseOfNode DEF eval_call
<1>2. Top.kind \in {"filter", "link"} /\ ~Waiting(Top)
  BY <1>1, AtTop DEF Fits, Kinds, OverPhases, Waiting
<1>3. PICK p \in {"head", "plan", "piped"} :
        /\ To(p) /\ (Top.kind = "link" => p # "plan") /\ (Top.kind = "filter" => p # "head")
        /\ p = "piped" => handed = Nothing /\ ~right_null
  BY <1>2 DEF eval_call
<1>4. /\ stack' \in Seq(Entries) /\ Len(stack') = Here /\ NodesOK(stack')
      /\ stack'[Here].kind = Top.kind /\ stack'[Here].phase = p
      /\ \A i \in 1 .. Here - 1 : Same(stack'[i], stack[i])
  <2>1. /\ p \in Phases
        /\ Top.kind = "filter" => p \in FilterPhases
        /\ Top.kind = "link" => p \in EarlyPhases \cup LatePhases
    BY <1>2, <1>3 DEF Phases, FilterPhases, OverPhases, EarlyPhases
  <2>2. Top.phase \notin LatePhases /\ p \notin {"right_first", "down"}
    BY <1>1, <1>3 DEF LatePhases
  <2>. QED  BY <1>1, <1>2, <1>3, <2>1, <2>2, TopTo
<1>5. TypeOK'
  BY <1>1, <1>4 DEF IInv, TypeOK
<1>6. ReportOK(stack', report', result')
  <2>1. ~Waiting(stack'[Here]) /\ stack'[Here].phase \notin LatePhases
    BY <1>3, <1>4 DEF Waiting, LatePhases
  <2>. QED  BY <1>1, <1>2, <1>4, <2>1, AtTop, ReportStays
<1>7. SlotsOK(stack', handed', right_null')
  <2>1. CASE p = "piped"
    BY <2>1, <1>1, <1>3, EmptySlots, AtTop
  <2>2. CASE p # "piped"
    <3>1. AskerOf(stack) = Here - 1 /\ AskerOf(stack') = Here - 1 /\ Here - 1 <= Len(stack')
      BY <1>1, <1>3, <1>4, <2>2, AtTop DEF AskerOf
    <3>. QED  BY <1>1, <1>4, <3>1, AtTop, SlotsStay
  <2>. QED  BY <2>1, <2>2
<1>. QED  BY <1>4, <1>5, <1>6, <1>7 DEF IInv

-----------------------------------------------------------------------------
(* The actions of FILTER. *)

\* filter_plan of a FILTER whose source is no join: it takes what there is.
LEMMA FilterPlanStep ==
  ASSUME IInv, NEW preset \in BOOLEAN, filter_plan(preset)
  PROVE  IInv'
<1>. DEFINE e == [Top EXCEPT !.phase = "source", !.had = handed # Nothing]
<1>1. /\ Top.kind = "filter" /\ Top.phase \in {"plan", "piped"}
      /\ Become(e) /\ handed' = Nothing
      /\ UNCHANGED <<right_null, report, result>>
  BY DEF filter_plan, At
<1>2. stack # <<>> /\ ~Waiting(Top)
  BY <1>1, PhaseOfNode DEF Waiting
<1>3. /\ e \in Entries /\ e.kind = "filter" /\ e.phase = "source" /\ e.fields = Top.fields
      /\ e.stages = Top.stages /\ e.deep = Top.deep /\ e.walk = Top.walk
      /\ e.had = (handed # Nothing)
  <2>1. "source" \in Phases /\ (handed # Nothing) \in BOOLEAN
    BY DEF Phases, FilterPhases, OverPhases
  <2>. QED  BY <1>1, <1>2, <2>1, AtTop DEF Entries
<1>. HIDE DEF e
<1>4. right_null = FALSE /\ (handed # Nothing => Here > 1 /\ Waiting(stack[Here - 1]))
  <2>1. CASE Top.phase = "plan"
    <3>1. AskerOf(stack) = Here - 1
      BY <1>2, <2>1, AtTop DEF AskerOf
    <3>2. handed # Nothing => Here - 1 >= 1 /\ Waiting(stack[Here - 1])
      BY <1>2, <3>1, AtTop, WayWaits DEF SlotsOK
    <3>. QED  BY <1>1, <1>2, <2>1, <3>2, AtTop, NullForJoin
  <2>2. CASE Top.phase = "piped"
    BY <1>2, <2>2, AtTop, NothingHanded
  <2>. QED  BY <1>1, <2>1, <2>2
<1>5. MayBecome(stack, e)
  <2>1. Fits(e)
    BY <1>1, <1>2, <1>3, AtTop DEF Fits, FilterPhases, OverPhases
  <2>. QED  BY <1>1, <1>2, <1>3, <1>4, <2>1, AtTop DEF MayBecome, NodeOK
<1>6. /\ stack' \in Seq(Entries) /\ Len(stack') = Here /\ stack'[Here] = e
      /\ \A i \in 1 .. Here - 1 : Same(stack'[i], stack[i])
      /\ NodesOK(stack')
  BY <1>1, <1>2, <1>3, <1>5, BecameOK
<1>7. TypeOK'
  BY <1>1, <1>6, Types DEF IInv, TypeOK
<1>8. ReportOK(stack', report', result')
  <2>1. ~Waiting(stack'[Here]) /\ stack'[Here].kind # "link"
    BY <1>3, <1>6 DEF Waiting
  <2>. QED  BY <1>1, <1>2, <1>6, <2>1, AtTop, ReportStays
<1>. QED  BY <1>1, <1>4, <1>6, <1>7, <1>8, EmptySlots DEF IInv

\* An invalid binder is refused after the slot is emptied.
LEMMA BadBinderStep ==
  ASSUME IInv, BadBinder
  PROVE  IInv'
<1>1. /\ handed' = Nothing /\ right_null' = (right_null /\ Top.kind # "link")
      /\ result' = "E_OTHER" /\ UNCHANGED <<stack, report>>
      /\ SlotsOK(stack, handed, right_null) /\ right_null \in BOOLEAN
  BY DEF BadBinder, IInv, TypeOK
<1>2. TypeOK'
  BY <1>1, Types DEF IInv, TypeOK
<1>3. ReportOK(stack', report', result')
  BY <1>1, ReportAnswered DEF IInv
<1>4. SlotsOK(stack', handed', right_null')
  <2>1. CASE right_null' = right_null
    BY <1>1, <2>1, EmptyHanded
  <2>2. CASE right_null' = FALSE
    BY <1>1, <2>2, EmptySlots
  <2>. QED  BY <1>1, <2>1, <2>2
<1>. QED  BY <1>1, <1>2, <1>3, <1>4 DEF IInv

\* Drops are unseen at one more FILTER that reads no places, if its keys are
\* unobserved or it stands below a join.
LEMMA UnseenThroughFilter ==
  ASSUME NEW l \in Seq(Entries), NEW s \in Seq(Stage), NEW p \in Nat, Way(l, s, p),
         s # <<>> => /\ Unseen(l, s, p)
                     /\ l[p].kind = "link" /\ l[p].phase = "down",
         s = <<>> => l[p + 1].unobserved, ~l[p + 1].readsK,
         NEW first \in Stage, first.filter = p + 1
  PROVE  Unseen(l, <<first>> \o s, p + 1)
<1>. DEFINE t == <<first>> \o s
<1>1. Len(t) = Len(s) + 1 /\ Len(s) \in Nat /\ t[1] = first /\ (s # <<>> => Last(t) = Last(s) /\ Len(s) \in DOMAIN s)
  BY DEF Last
<1>2. s = <<>> => Last(t) = first
  BY <1>1 DEF Last
<1>. HIDE DEF t
<1>3. ASSUME NEW q \in Last(t).filter .. p + 1, l[q].kind = "over"
      PROVE  /\ ~l[q].readsK
             /\ l[q].unobserved \/ (q > 1 /\ l[q - 1].kind = "link" /\ l[q - 1].phase = "down")
  <2>1. CASE q = p + 1
    <3>1. s # <<>> => p >= 1
      BY WayWaits
    <3>. QED  BY <2>1, <3>1
  <2>2. CASE q # p + 1
    <3>1. s # <<>> /\ q \in Last(s).filter .. p
      <4>1. s # <<>>
        BY <1>2, <1>3, <2>2
      <4>2. Last(s).filter \in Nat
        BY <1>1, <4>1, WayPlaces DEF Last
      <4>. QED  BY <1>1, <1>3, <2>2, <4>1, <4>2
    <3>. QED  BY <1>3, <3>1 DEF Unseen
  <2>. QED  BY <2>1, <2>2
<1>4. Unseen(l, t, p + 1)
  BY <1>3 DEF Unseen
<1>. QED  BY <1>4 DEF t

\* filter_plan over a join: its stage goes in front of those it took.
LEMMA PlanOverJoinStep ==
  ASSUME IInv, PlanOverJoin
  PROVE  IInv'
<1>. DEFINE had == handed # Nothing
<1>1. Top.kind = "over" /\ Top.phase = "plan" /\ result = "none" /\ UNCHANGED <<report, result>>
  BY DEF PlanOverJoin, At
<1>2. stack # <<>> /\ ~Waiting(Top)
  BY <1>1, PhaseOfNode DEF Waiting
<1>. DEFINE e(own, over, readsK, unobserved) ==
       [Top EXCEPT !.phase = "source", !.had = had, !.own = own,
                   !.over = over, !.readsK = readsK, !.unobserved = unobserved]
            first(own) == [filter |-> Here, own |-> own, above |-> 0]
<1>3. PICK own \in Owns, over, readsK, unobserved \in BOOLEAN :
        LET hands == over /\ own # "blocked"
            deep == Deep(had, unobserved, readsK)
        IN  /\ Become(e(own, over, readsK, unobserved))
            /\ handed' = IF hands THEN [stages |-> <<first(own)>> \o handed.stages, deep |-> deep]
                         ELSE Nothing
            /\ right_null' = (over /\ ~hands /\ ~had) \/ UNCHANGED right_null
  <2>1. Predicates \subseteq Owns /\ Within \subseteq Owns
    BY PredicatesAssumption, WithinAssumption DEF Owns
  <2>2. PICK own \in IF OneChain THEN Predicates ELSE Within,
             over, readsK, unobserved \in BOOLEAN :
          /\ (over /\ own # "blocked") \/ (own = "blocked" /\ ~readsK)
          /\ ((over /\ own # "blocked") /\ ~had) \/ ~unobserved
          /\ Become(e(own, over, readsK, unobserved))
          /\ handed' = IF over /\ own # "blocked"
                       THEN [stages |-> <<first(own)>> \o handed.stages,
                             deep |-> Deep(had, unobserved, readsK)]
                       ELSE Nothing
          /\ \/ right_null' = (over /\ ~(over /\ own # "blocked") /\ ~had)
             \/ UNCHANGED right_null
    BY DEF PlanOverJoin
  <2>3. own \in Owns
    BY <2>1
  <2>. QED  BY <2>2, <2>3
<1>. DEFINE d == e(own, over, readsK, unobserved)
            hands == over /\ own # "blocked"
            deep == Deep(had, unobserved, readsK)
<1>4. /\ d \in Entries /\ d.kind = "over" /\ d.phase = "source" /\ d.fields = Top.fields
      /\ d.stages = Top.stages /\ d.deep = Top.deep /\ d.walk = Top.walk /\ d.read = Top.read
      /\ d.had = had /\ d.own = own /\ d.readsK = readsK /\ d.unobserved = unobserved
  <2>1. "source" \in Phases /\ had \in BOOLEAN /\ Top \in Entries /\ own \in Owns
    BY <1>2, AtTop DEF Phases, FilterPhases, OverPhases
  <2>. HIDE DEF had
  <2>2. d \in Entries
    BY <2>1 DEF Entries
  <2>3. /\ d.kind = Top.kind /\ d.phase = "source" /\ d.fields = Top.fields
        /\ d.stages = Top.stages /\ d.deep = Top.deep /\ d.walk = Top.walk /\ d.read = Top.read
    BY <2>1 DEF Entries
  <2>4. d.had = had /\ d.own = own /\ d.readsK = readsK /\ d.unobserved = unobserved
    BY <2>1 DEF Entries
  <2>. QED  BY <1>1, <2>2, <2>3, <2>4
<1>5. Become(d)
  BY <1>3
<1>6. /\ handed' = IF hands THEN [stages |-> <<first(own)>> \o handed.stages, deep |-> deep]
                   ELSE Nothing
      /\ right_null' = (over /\ ~hands /\ ~had) \/ UNCHANGED right_null
  BY <1>3
<1>. HIDE DEF d, e
<1>7. AskerOf(stack) = Here - 1 /\ Here - 1 \in Nat
  BY <1>1, <1>2, AtTop DEF AskerOf
<1>8. /\ Way(stack, handed.stages, Here - 1) /\ (had <=> handed.stages # <<>>)
      /\ right_null = FALSE
      /\ had => /\ Here > 1 /\ Waiting(stack[Here - 1]) /\ stack[Here - 1].kind = "link"
                /\ stack[Here - 1].phase = "down" /\ Unseen(stack, handed.stages, Here - 1)
  <2>1. Way(stack, handed.stages, Here - 1) /\ (had => handed.stages # <<>>)
    BY <1>2, <1>7, AtTop DEF SlotsOK
  <2>2. handed = Nothing => handed.stages = <<>>
    BY DEF Nothing
  <2>3. had => Here > 1 /\ Waiting(stack[Here - 1])
    BY <1>2, <1>7, <2>1, AtTop, WayWaits
  <2>4. had => stack[Here - 1].kind = "link" /\ stack[Here - 1].phase = "down"
    BY <1>1, <1>2, <2>3, AtTop DEF NodeOK, Waiting
  <2>5. had => Unseen(stack, handed.stages, Here - 1)
    BY <1>2, <1>7, <2>4, AtTop DEF SlotsOK
  <2>6. right_null = FALSE
    BY <1>1, <1>2, NullForJoin
  <2>. QED  BY <2>1, <2>2, <2>3, <2>4, <2>5, <2>6
<1>9. MayBecome(stack, d)
  <2>1. Fits(d)
    BY <1>1, <1>2, <1>4, AtTop DEF Fits, OverPhases
  <2>. QED  BY <1>1, <1>2, <1>4, <1>8, <2>1, AtTop DEF MayBecome, NodeOK
<1>10. /\ stack' \in Seq(Entries) /\ Len(stack') = Here /\ stack' # <<>> /\ stack'[Here] = d
       /\ \A i \in 1 .. Here - 1 : Same(stack'[i], stack[i])
       /\ NodesOK(stack')
  BY <1>2, <1>4, <1>5, <1>9, BecameOK
<1>11. first(own) \in Stage /\ first(own).filter = Here /\ deep \in BOOLEAN
       /\ <<first(own)>> \o handed.stages \in Seq(Stage)
  <2>1. first(own) \in Stage
    BY <1>2, AtTop DEF Stage
  <2>2. handed.stages \in Seq(Stage)
    BY <1>2, AtTop
  <2>. QED  BY <2>1, <2>2 DEF Deep
<1>12. TypeOK'
  <2>1. handed' \in [stages : Seq(Stage), deep : BOOLEAN]
    BY <1>6, <1>11, Types
  <2>2. right_null' \in BOOLEAN
    BY <1>6, <1>8
  <2>. QED  BY <1>1, <1>10, <2>1, <2>2 DEF IInv, TypeOK
<1>13. ReportOK(stack', report', result')
  <2>1. stack'[Here].kind # "link"
    BY <1>4, <1>10
  <2>. QED  BY <1>1, <1>2, <1>10, <2>1, AtTop, ReportStays
<1>14. AskerOf(stack') = Here
  BY <1>2, <1>4, <1>10, AtTop DEF AskerOf
<1>15. SlotsOK(stack', handed', right_null')
  <2>1. CASE ~hands
    <3>1. SlotsOK(stack', Nothing, FALSE)
      BY EmptySlots
    <3>2. Here \in DOMAIN stack'
      BY <1>2, <1>10, AtTop
    <3>. QED  BY <1>4, <1>6, <1>8, <1>10, <1>14, <2>1, <3>1, <3>2 DEF SlotsOK
  <2>2. CASE hands
    <3>. DEFINE s == <<first(own)>> \o handed.stages
    <3>1. right_null' = FALSE /\ handed' = [stages |-> s, deep |-> deep]
      BY <1>6, <1>8, <2>2
    <3>2. Way(stack', handed.stages, Here - 1)
      BY <1>2, <1>7, <1>8, <1>10, AtTop, WayStays
    <3>3. Way(stack', s, Here)
      <4>1. /\ stack'[(Here - 1) + 1].kind = "over" /\ stack'[(Here - 1) + 1].phase = "source"
            /\ stack'[(Here - 1) + 1].own = own
            /\ handed.stages # <<>> => stack'[(Here - 1) + 1].had
            /\ (Here - 1) + 1 = Here
        <5>1. (Here - 1) + 1 = Here
          BY <1>2, AtTop
        <5>. QED  BY <1>4, <1>8, <1>10, <5>1
      <4>2. handed.stages \in Seq(Stage)
        BY <1>2, AtTop
      <4>3. Way(stack', <<[filter |-> (Here - 1) + 1, own |-> own, above |-> 0]>> \o handed.stages, (Here - 1) + 1)
        BY <1>7, <1>10, <3>2, <4>1, <4>2, WayThroughFilter
      <4>. QED  BY <4>1, <4>3
    <3>4. deep => Unseen(stack', s, Here)
      <4>1. SUFFICES ASSUME deep
                     PROVE  Unseen(stack', s, Here)
        OBVIOUS
      <4>2. ~readsK /\ (handed.stages = <<>> => unobserved)
        BY <1>8, <4>1 DEF Deep
      <4>3. handed.stages # <<>> => Unseen(stack', handed.stages, Here - 1)
        BY <1>2, <1>7, <1>8, <1>10, AtTop, UnseenStays
      <4>4. handed.stages # <<>> => stack'[Here - 1].kind = "link" /\ stack'[Here - 1].phase = "down"
        <5>1. handed.stages # <<>> => Here - 1 \in 1 .. Here - 1
          BY <1>2, <1>7, <1>8, AtTop
        <5>. QED  BY <1>8, <1>10, <5>1 DEF Same
      <4>5. /\ (Here - 1) + 1 = Here /\ ~stack'[Here].readsK
            /\ handed.stages = <<>> => stack'[Here].unobserved
        BY <1>2, <1>4, <1>10, <4>2, AtTop
      <4>6. handed.stages \in Seq(Stage)
        BY <1>2, AtTop
      <4>. HIDE DEF first
      <4>7. Unseen(stack', s, (Here - 1) + 1)
        BY <1>7, <1>10, <1>11, <3>2, <4>3, <4>4, <4>5, <4>6, UnseenThroughFilter
      <4>. QED  BY <4>5, <4>7
    <3>5. s # <<>>
      BY <1>2, <1>11, AtTop
    <3>. QED  BY <1>4, <1>10, <1>14, <3>1, <3>3, <3>4, <3>5 DEF SlotsOK
  <2>. QED  BY <2>1, <2>2
<1>. QED  BY <1>10, <1>12, <1>13, <1>15 DEF IInv

\* filter_rows: the report is read, and passed on by one that took conjuncts.
LEMMA FilterRowsStep ==
  ASSUME IInv, filter_rows
  PROVE  IInv'
<1>. DEFINE p == IF Rest = "none" THEN "done" ELSE "body"
            own == IF Rest = "total" THEN Rest ELSE Top.own
            e == [Node(Top.kind) EXCEPT !.phase = p, !.own = own, !.read = report.reader]
<1>1. /\ Top.kind \in {"over", "filter"} /\ Top.phase = "source" /\ result = "ok"
      /\ Become(e) /\ handed' = Nothing /\ right_null' = FALSE /\ result' = "none"
      /\ report' = IF Top.had /\ report # NoReport
                   THEN [report EXCEPT !.reader = Here - 1, !.rest = "any"]
                   ELSE NoReport
  BY DEF filter_rows
<1>2. stack # <<>>
  BY <1>1, PhaseOfNode
<1>3. /\ report \in [reader : Nat, dropped : BOOLEAN, errored : BOOLEAN, rest : {"any", "total", "none"}]
      /\ report.reader \in Nat
  BY DEF IInv, TypeOK
<1>4. /\ e \in Entries /\ e.kind = Top.kind /\ e.phase \in {"body", "done"} /\ ~e.fields
      /\ e.stages = <<>> /\ ~e.deep /\ ~e.had /\ e.walk = 0 /\ e.read = report.reader
  <2>. DEFINE d == Node(Top.kind)
  <2>1. InFields = FALSE
    BY <1>1, <1>2, AtTop DEF InFields, At, Fits
  <2>2. /\ d \in Entries /\ d.kind = Top.kind /\ ~d.had /\ ~d.deep /\ d.stages = <<>>
    BY <1>2, <2>1, AtTop, NewNode
  <2>3. d.fields = FALSE /\ d.walk = 0
    BY <2>1 DEF Node
  <2>4. p \in {"body", "done"} /\ own \in Owns /\ p \in Phases
    BY <1>2, AtTop DEF Owns, Entries, Phases, FilterPhases, OverPhases
  <2>. HIDE DEF d, p, own
  <2>5. e = [d EXCEPT !.phase = p, !.own = own, !.read = report.reader]
    BY DEF d
  <2>. HIDE DEF e
  <2>6. e \in Entries
    BY <1>3, <2>2, <2>4, <2>5 DEF Entries
  <2>7. /\ e.kind = d.kind /\ e.phase = p /\ e.fields = d.fields /\ e.stages = d.stages
        /\ e.deep = d.deep /\ e.had = d.had /\ e.walk = d.walk /\ e.read = report.reader
    BY <2>2, <2>5 DEF Entries
  <2>. QED  BY <2>2, <2>3, <2>4, <2>6, <2>7
<1>. HIDE DEF e
<1>5. MayBecome(stack, e)
  <2>1. Fits(e)
    <3>1. Walked(e.stages, 0) /\ 0 <= Len(e.stages)
      BY <1>4, NoWalk
    <3>. QED  BY <1>1, <1>4, <3>1 DEF Fits, FilterPhases, OverPhases
  <2>2. e.kind = "over" => e.read \in {0, Here}
    BY <1>1, <1>2, <1>4, AtTop DEF ReportOK
  <2>. QED  BY <1>2, <1>4, <2>1, <2>2, AtTop, MovesOn
<1>6. /\ stack' \in Seq(Entries) /\ Len(stack') = Here /\ stack' # <<>> /\ stack'[Here] = e
      /\ \A i \in 1 .. Here - 1 : Same(stack'[i], stack[i])
      /\ NodesOK(stack')
  BY <1>1, <1>2, <1>4, <1>5, BecameOK
<1>7. CASE Top.had /\ report # NoReport
  <2>1. Here > 1 /\ Waiting(stack[Here - 1]) /\ Here - 1 \in Nat /\ Here - 1 \in 1 .. Here - 1
    BY <1>2, <1>7, AtTop DEF NodeOK
  <2>2. Waiting(stack'[Here - 1])
    BY <1>6, <2>1 DEF Same, Waiting
  <2>3. ~Waiting(stack'[(Here - 1) + 1]) /\ (Here - 1) + 1 = Here
    BY <1>2, <1>4, <1>6, AtTop DEF Waiting
  <2>4. report' = [report EXCEPT !.reader = Here - 1, !.rest = "any"]
    BY <1>1, <1>7
  <2>5. /\ report' \in [reader : Nat, dropped : BOOLEAN, errored : BOOLEAN, rest : {"any", "total", "none"}]
        /\ report'.reader = Here - 1
    BY <1>3, <2>1, <2>4
  <2>6. TypeOK'
    BY <1>1, <1>6, <2>5, Types DEF IInv, TypeOK
  <2>7. ReportOK(stack', report', result')
    BY <1>6, <2>1, <2>2, <2>3, <2>5, ReportMade
  <2>. QED  BY <1>1, <1>6, <2>6, <2>7, EmptySlots DEF IInv
<1>8. CASE ~(Top.had /\ report # NoReport)
  <2>1. report' = NoReport
    BY <1>1, <1>8
  <2>2. TypeOK'
    BY <1>1, <1>6, <2>1, Types DEF IInv, TypeOK
  <2>. QED  BY <1>1, <1>6, <2>1, <2>2, EmptySlots, NoReportOK DEF IInv
<1>. QED  BY <1>7, <1>8

-----------------------------------------------------------------------------
(* The actions of LINK and LINK_LEFT. *)

\* link_head: what was handed down is the join's own from here on.
LEMMA LinkHeadStep ==
  ASSUME IInv, NEW preset \in BOOLEAN, link_head(preset)
  PROVE  IInv'
<1>1. /\ Top.kind = "link" /\ Top.phase \in {"head", "piped"}
      /\ handed' = Nothing /\ right_null' = FALSE /\ UNCHANGED <<report, result>>
  BY DEF link_head, At
<1>2. stack # <<>> /\ ~Waiting(Top)
  BY <1>1, PhaseOfNode DEF Waiting
<1>. DEFINE e(pre, equi, left, p) ==
       [Top EXCEPT !.phase = p, !.stages = pre.stages, !.deep = pre.deep, !.equi = equi, !.left = left]
<1>3. PICK pre \in {Nothing, handed}, equi \in BOOLEAN, left \in LeftKinds, p \in {"right_first", "left"} :
        /\ Become(e(pre, equi, left, p))
        /\ p = "right_first" => pre.deep /\ equi /\ left # "leaf"
  <2>1. PICK writes, equi, pure \in BOOLEAN, left \in {"link", "over", "filter", "leaf"} :
          LET pre == IF writes THEN Nothing ELSE handed
              deep_path == pre.deep /\ equi /\ pure /\ left # "leaf"
          IN  /\ writes => handed # Nothing
              /\ pure => handed.deep /\ equi /\ ~writes /\ left # "leaf"
              /\ Become([Top EXCEPT !.phase = IF deep_path THEN "right_first" ELSE "left",
                                    !.stages = pre.stages, !.deep = pre.deep, !.equi = equi, !.left = left])
    BY DEF link_head
  <2>. DEFINE pre == IF writes THEN Nothing ELSE handed
              q == IF pre.deep /\ equi /\ pure /\ left # "leaf" THEN "right_first" ELSE "left"
  <2>2. Become(e(pre, equi, left, q))
    BY <2>1
  <2>3. q = "right_first" => pre.deep /\ equi /\ left # "leaf"
    OBVIOUS
  <2>4. pre \in {Nothing, handed} /\ q \in {"right_first", "left"} /\ left \in LeftKinds
    BY DEF LeftKinds
  <2>. HIDE DEF pre, q, e
  <2>. QED  BY <2>2, <2>3, <2>4
<1>. DEFINE d == e(pre, equi, left, p)
<1>4. pre \in [stages : Seq(Stage), deep : BOOLEAN] /\ pre.stages \in Seq(Stage) /\ pre.deep \in BOOLEAN
  BY <1>2, AtTop, Types
<1>5. /\ d \in Entries /\ d.kind = "link" /\ d.phase = p /\ d.fields = Top.fields /\ d.had = Top.had
      /\ d.stages = pre.stages /\ d.deep = pre.deep /\ d.walk = Top.walk
      /\ d.equi = equi /\ d.left = left
  <2>1. Top \in Entries /\ p \in Phases
    BY <1>2, AtTop DEF Phases, EarlyPhases
  <2>2. d \in Entries
    BY <1>4, <2>1 DEF Entries
  <2>3. /\ d.kind = Top.kind /\ d.phase = p /\ d.fields = Top.fields /\ d.walk = Top.walk /\ d.had = Top.had
    BY <2>1 DEF Entries
  <2>4. d.stages = pre.stages /\ d.deep = pre.deep /\ d.equi = equi /\ d.left = left
    BY <2>1 DEF Entries
  <2>. QED  BY <1>1, <2>2, <2>3, <2>4
<1>6. Become(d) /\ (p = "right_first" => pre.deep /\ equi /\ left # "leaf")
  BY <1>3
<1>. HIDE DEF d, e
<1>7. /\ Way(stack, pre.stages, Here - 1)
      /\ pre.deep => pre.stages # <<>> /\ Unseen(stack, pre.stages, Here - 1)
  <2>1. Nothing.stages = <<>> /\ Nothing.deep = FALSE
    BY DEF Nothing
  <2>2. CASE pre = Nothing
    BY <2>1, <2>2, NoWay
  <2>3. CASE pre = handed /\ Top.phase = "head"
    <3>1. AskerOf(stack) = Here - 1
      BY <1>2, <2>3, AtTop DEF AskerOf
    <3>2. handed.deep => handed # Nothing
      BY <2>1
    <3>. QED  BY <1>2, <2>3, <3>1, <3>2, AtTop DEF SlotsOK
  <2>4. CASE pre = handed /\ Top.phase = "piped"
    BY <1>2, <2>2, <2>4, AtTop, NothingHanded
  <2>. QED  BY <1>1, <2>2, <2>3, <2>4
<1>8. MayBecome(stack, d)
  <2>1. Fits(Top)
    BY <1>2, AtTop
  <2>2. d.walk = 0 /\ d.fields = FALSE
    BY <1>1, <1>5, <2>1, <1>2, AtTop DEF Fits, LatePhases, Entries
  <2>3. Walked(d.stages, 0) /\ 0 <= Len(d.stages)
    <3>1. Len(pre.stages) \in Nat
      BY <1>4
    <3>2. Walked(d.stages, 0) /\ Len(d.stages) \in Nat
      BY <1>5, <3>1, NoWalk
    <3>. HIDE <1>4
    <3>. QED  BY <3>2
  <2>4. Fits(d)
    BY <1>5, <1>6, <2>2, <2>3 DEF Fits, EarlyPhases
  <2>5. d.had => Top.had
    BY <1>5
  <2>. QED  BY <1>1, <1>2, <1>5, <1>7, <2>4, <2>5, AtTop DEF MayBecome
<1>9. /\ stack' \in Seq(Entries) /\ Len(stack') = Here /\ stack' # <<>> /\ stack'[Here] = d
      /\ \A i \in 1 .. Here - 1 : Same(stack'[i], stack[i])
      /\ NodesOK(stack')
  BY <1>2, <1>5, <1>6, <1>8, BecameOK
<1>10. TypeOK'
  BY <1>1, <1>9, Types DEF IInv, TypeOK
<1>11. ReportOK(stack', report', result')
  <2>1. ~Waiting(stack'[Here]) /\ stack'[Here].phase \notin LatePhases
    BY <1>5, <1>9 DEF Waiting, LatePhases
  <2>. QED  BY <1>1, <1>2, <1>9, <2>1, AtTop, ReportStays
<1>. QED  BY <1>1, <1>9, <1>10, <1>11, EmptySlots DEF IInv

\* Drops are unseen for the conjuncts a join hands on, which are the nearest ones.
LEMMA UnseenThroughLink ==
  ASSUME NEW l \in Seq(Entries), NEW s \in Seq(Stage), NEW p \in Nat, Way(l, s, p), s # <<>>,
         Unseen(l, s, p), NEW n \in 1 .. Len(s), l[p + 1].kind = "link",
         NEW t \in Seq(Stage), Len(t) = n, t[n].filter = s[n].filter
  PROVE  Unseen(l, t, p + 1)
<1>1. /\ n \in DOMAIN s /\ Len(s) \in DOMAIN s /\ Last(s) = s[Len(s)] /\ Last(t) = t[n]
      /\ n \in Nat /\ Len(s) \in Nat /\ n <= Len(s)
  BY DEF Last
<1>2. Last(t).filter >= Last(s).filter /\ Last(t).filter \in Nat /\ Last(s).filter \in Nat
  <2>1. s[n].filter \in Nat /\ s[Len(s)].filter \in Nat
    BY <1>1, WayPlaces
  <2>2. n < Len(s) => s[n].filter > s[Len(s)].filter
    BY <1>1 DEF Way
  <2>. QED  BY <1>1, <2>1, <2>2
<1>3. ASSUME NEW q \in Last(t).filter .. p + 1, l[q].kind = "over"
      PROVE  q \in Last(s).filter .. p
  <2>1. q # p + 1
    BY <1>3
  <2>. QED  BY <1>2, <1>3, <2>1
<1>. QED  BY <1>3 DEF Unseen

\* link_hand_down: the way gets longer by this join, and counts it.
LEMMA HandDownStep ==
  ASSUME IInv, link_hand_down
  PROVE  IInv'
<1>1. /\ Top.kind = "link" /\ Top.phase = "right_first" /\ To("down") /\ result' = "none"
      /\ UNCHANGED <<right_null, report>>
  BY DEF link_hand_down, At
<1>2. stack # <<>> /\ ~Waiting(Top)
  BY <1>1, PhaseOfNode DEF Waiting
<1>3. PICK n \in 0 .. Len(Top.stages) :
        handed' = IF n = 0 THEN Nothing
                  ELSE [stages |-> [i \in 1 .. n |-> [Top.stages[i] EXCEPT !.above = @ + 1]],
                        deep |-> TRUE]
  BY DEF link_hand_down
<1>4. /\ Top.deep /\ Top.equi /\ Top.stages # <<>> /\ Top.stages \in Seq(Stage)
      /\ Way(stack, Top.stages, Here - 1) /\ Unseen(stack, Top.stages, Here - 1)
  <2>1. Top.deep /\ Top.equi
    BY <1>1, <1>2, AtTop DEF Fits
  <2>2. Top.stages \in Seq(Stage)
    BY <1>2, AtTop DEF Entries
  <2>. QED  BY <1>2, <2>1, <2>2, AtTop DEF NodeOK
<1>5. /\ stack' \in Seq(Entries) /\ Len(stack') = Here
      /\ stack'[Here].kind = "link" /\ stack'[Here].phase = "down"
      /\ stack'[Here].stages = Top.stages /\ stack'[Here].equi = Top.equi
      /\ \A i \in 1 .. Here - 1 : Same(stack'[i], stack[i])
      /\ NodesOK(stack')
  <2>1. "down" \in Phases /\ "down" \in EarlyPhases /\ "right_first" \notin LatePhases
    BY DEF Phases, EarlyPhases, LatePhases
  <2>. QED  BY <1>1, <1>2, <2>1, TopTo
<1>6. right_null = FALSE
  BY <1>1, <1>2, AtTop, NothingHanded
<1>7. ReportOK(stack', report', result')
  BY <1>1, <1>2, <1>5, AtTop, ReportStays DEF LatePhases
<1>8. CASE n = 0
  <2>1. handed' = Nothing
    BY <1>3, <1>8
  <2>2. TypeOK'
    BY <1>1, <1>5, <2>1, Types DEF IInv, TypeOK
  <2>. QED  BY <1>1, <1>5, <1>6, <1>7, <2>1, <2>2, EmptySlots DEF IInv
<1>9. CASE n # 0
  <2>. DEFINE s == Top.stages
              p == Here - 1
              t == [i \in 1 .. n |-> [s[i] EXCEPT !.above = @ + 1]]
  <2>1. handed' = [stages |-> t, deep |-> TRUE] /\ n \in 1 .. Len(s)
    BY <1>3, <1>4, <1>9
  <2>2. /\ Way(stack', s, p) /\ Unseen(stack', s, p) /\ p \in Nat /\ p + 1 = Here
    <3>1. p \in Nat /\ p + 1 = Here
      BY <1>2, AtTop
    <3>2. stack \in Seq(Entries)
      BY <1>2, AtTop
    <3>. QED  BY <1>4, <1>5, <3>1, <3>2, WayStays, UnseenStays
  <2>3. /\ stack'[p + 1].kind = "link" /\ stack'[p + 1].phase = "down"
        /\ stack'[p + 1].stages # <<>> /\ stack'[p + 1].equi
    BY <1>4, <1>5, <2>2
  <2>4. t \in Seq(Stage) /\ Way(stack', t, p + 1)
    BY <1>4, <1>5, <2>1, <2>2, <2>3, WayThroughLink
  <2>5. Len(t) = n /\ t # <<>> /\ t[n].filter = s[n].filter
    <3>1. s[n] \in Stage /\ n \in Nat /\ n >= 1
      BY <1>4, <2>1
    <3>2. [s[n] EXCEPT !.above = @ + 1].filter = s[n].filter
      BY <3>1, OnePast
    <3>. QED  BY <2>4, <3>1, <3>2
  <2>6. Unseen(stack', t, p + 1)
    <3>. HIDE DEF t
    <3>. QED  BY <1>4, <1>5, <2>1, <2>2, <2>3, <2>4, <2>5, UnseenThroughLink
  <2>7. AskerOf(stack') = Here
    BY <1>2, <1>5, AtTop DEF AskerOf
  <2>. HIDE DEF t
  <2>8. TypeOK'
    BY <1>1, <1>5, <2>1, <2>4 DEF IInv, TypeOK
  <2>9. SlotsOK(stack', handed', right_null')
    BY <1>1, <1>6, <2>1, <2>2, <2>4, <2>5, <2>6, <2>7 DEF SlotsOK
  <2>. QED  BY <1>5, <1>7, <2>8, <2>9 DEF IInv
<1>. QED  BY <1>8, <1>9

\* The right source raised: the left one is read with nothing handed down.
LEMMA LeftAsWrittenStep ==
  ASSUME IInv, LeftAsWritten
  PROVE  IInv'
<1>. DEFINE e == [Top EXCEPT !.phase = "as_written", !.err = result]
<1>1. /\ Top.kind = "link" /\ Top.phase = "right_first" /\ result \in Errors
      /\ Become(e) /\ result' = "none" /\ UNCHANGED <<handed, right_null, report>>
  BY DEF LeftAsWritten, At
<1>2. stack # <<>> /\ ~Waiting(Top)
  BY <1>1, PhaseOfNode DEF Waiting
<1>3. /\ e \in Entries /\ e.kind = Top.kind /\ e.phase = "as_written" /\ e.fields = Top.fields
      /\ e.stages = Top.stages /\ e.deep = Top.deep /\ e.walk = Top.walk
      /\ e.had = Top.had /\ e.read = Top.read
  <2>1. Top \in Entries /\ "as_written" \in Phases
    BY <1>2, AtTop DEF Phases, EarlyPhases
  <2>. QED  BY <1>1, <2>1 DEF Entries
<1>. HIDE DEF e
<1>4. Fits(e)
  BY <1>1, <1>2, <1>3, AtTop DEF Fits, EarlyPhases, LatePhases
<1>5. MayBecome(stack, e)
  BY <1>2, <1>3, <1>4, AtTop, MovesOn
<1>6. /\ stack' \in Seq(Entries) /\ Len(stack') = Here /\ stack'[Here] = e
      /\ \A i \in 1 .. Here - 1 : Same(stack'[i], stack[i])
      /\ NodesOK(stack')
  BY <1>1, <1>2, <1>3, <1>5, BecameOK
<1>. QED  BY <1>1, <1>2, <1>3, <1>6, GoesOn DEF Waiting, LatePhases

\* ... and the right source's error is raised once it is read.
LEMMA RightErrorStep ==
  ASSUME IInv, RightErrorStands
  PROVE  IInv'
<1>1. /\ Top.kind = "link" /\ Top.phase = "as_written" /\ result = "ok" /\ result' = Top.err
      /\ UNCHANGED <<stack, handed, right_null, report>>
  BY DEF RightErrorStands, At
<1>2. stack # <<>>
  BY <1>1, PhaseOfNode
<1>3. result' \in Errors \cup {"none"}
  BY <1>1, <1>2, AtTop DEF Entries
<1>4. TypeOK'
  BY <1>1, <1>3 DEF IInv, TypeOK
<1>5. ReportOK(stack', report', result')
  BY <1>1, <1>2, AtTop, ReportAnswered
<1>. QED  BY <1>1, <1>2, <1>4, <1>5, AtTop DEF IInv

\* A join goes from one source to the other, and to its body.
LEMMA SourcesStep ==
  ASSUME IInv, Sources
  PROVE  IInv'
<1>1. /\ Top.kind = "link" /\ Top.phase \in {"left", "right", "down"} /\ result' = "none"
      /\ UNCHANGED <<right_null, report>>
  BY DEF Sources
<1>2. stack # <<>>
  BY <1>1, PhaseOfNode
<1>3. PICK p \in {"right", "link_body"} :
        /\ To(p)
        /\ \/ Top.phase # "down" /\ UNCHANGED handed
           \/ Top.phase = "down" /\ p = "link_body" /\ handed' = Nothing
  BY DEF Sources
<1>4. /\ stack' \in Seq(Entries) /\ Len(stack') = Here
      /\ stack'[Here].kind = "link" /\ stack'[Here].phase = p
      /\ \A i \in 1 .. Here - 1 : Same(stack'[i], stack[i])
      /\ NodesOK(stack')
  <2>1. p \in Phases /\ p \in EarlyPhases /\ Top.phase \notin LatePhases
    BY <1>1 DEF Phases, EarlyPhases, LatePhases
  <2>. QED  BY <1>1, <1>2, <1>3, <2>1, TopTo
<1>5. CASE Top.phase # "down"
  <2>1. UNCHANGED handed
    BY <1>3, <1>5
  <2>. QED  BY <1>1, <1>2, <1>4, <1>5, <2>1, GoesOn DEF Waiting, LatePhases
<1>6. CASE Top.phase = "down"
  <2>1. p = "link_body" /\ handed' = Nothing
    BY <1>3, <1>6
  <2>2. right_null = FALSE
    <3>1. AskerOf(stack) = Here
      BY <1>2, <1>6, AtTop DEF AskerOf
    <3>. QED  BY <1>1, <1>2, <3>1, AtTop DEF SlotsOK
  <2>3. TypeOK'
    BY <1>1, <1>4, <2>1, Types DEF IInv, TypeOK
  <2>4. ReportOK(stack', report', result')
    <3>1. /\ DOMAIN stack = 1 .. Here /\ DOMAIN stack' = 1 .. Here /\ Here \in Nat /\ Here >= 1
          /\ Len(stack) = Here
      BY <1>2, <1>4, AtTop
    <3>2. \A i \in 1 .. Here : i # Here => i \in 1 .. Here - 1
      BY <3>1
    <3>3. ReportOK(stack, report, result)
      BY <1>2, AtTop
    <3>4. report # NoReport => /\ report.reader \in 1 .. Here
                               /\ Waiting(stack[report.reader]) \/ report.reader = Here
      BY <3>1, <3>3 DEF ReportOK
    <3>5. report # NoReport => Waiting(stack'[report.reader]) \/ report.reader = Here
      BY <1>4, <3>2, <3>4 DEF Same, Waiting
    <3>6. \A i \in DOMAIN stack' :
            stack'[i].kind = "link" /\ stack'[i].phase \in LatePhases =>
              stack[i].kind = "link" /\ stack[i].phase \in LatePhases
      BY <1>4, <2>1, <3>1, <3>2 DEF Same, LatePhases
    <3>7. ReportOK(stack', report, result')
      BY <1>1, <1>4, <2>1, <3>1, <3>3, <3>4, <3>5, <3>6 DEF ReportOK
    <3>. QED  BY <1>1, <3>7
  <2>. QED  BY <1>1, <1>4, <2>1, <2>2, <2>3, <2>4, EmptySlots DEF IInv
<1>. QED  BY <1>5, <1>6

\* What a join goes on to with its sources' rows is one of its later phases.
LEMMA GoesOnWith ==
  ASSUME IInv, stack # <<>>, Top.kind = "link", NEW p \in LatePhases,
         NEW below \in BOOLEAN, NEW lost \in BOOLEAN, NEW n \in Walks, NEW e,
         e = [GoOn(p, below, lost) EXCEPT !.walk = n]
  PROVE  /\ e \in Entries /\ e.kind = "link" /\ e.phase = p /\ MayBecome(stack, e)
         /\ e.stages = Top.stages
<1>1. Top \in Entries /\ p \in Phases /\ n \in Nat /\ "leaf" \in LeftKinds
  BY AtTop DEF Phases, LeftKinds, Walks
<1>2. n <= Len(Top.stages) /\ Walked(Top.stages, n)
  <2>1. Top.stages \in Seq(Stage)
    BY <1>1 DEF Entries
  <2>. QED  BY <2>1 DEF Walks
<1>3. e \in Entries
  <2>1. PICK d : d = GoOn(p, below, lost)
    OBVIOUS
  <2>2. d \in Entries
    BY ZenonT(30), <1>1, <2>1 DEF GoOn, Entries
  <2>3. e = [d EXCEPT !.walk = n]
    BY <2>1
  <2>. QED  BY <1>1, <2>2, <2>3 DEF Entries
<1>4. /\ e.kind = Top.kind /\ e.phase = p /\ e.fields = Top.fields /\ e.had = Top.had
      /\ e.stages = Top.stages /\ e.deep = Top.deep /\ e.read = Top.read /\ e.walk = n
  BY <1>1 DEF GoOn, Entries
<1>5. Fits(e)
  <2>1. e.fields = FALSE
    BY <1>1, <1>4, AtTop DEF Fits, Entries
  <2>2. p \notin {"right_first", "down"}
    BY DEF LatePhases
  <2>. QED  BY <1>2, <1>4, <2>1, <2>2 DEF Fits
<1>6. MayBecome(stack, e)
  BY ZenonT(30), <1>3, <1>4, <1>5, AtTop, MovesOn
<1>. QED  BY <1>3, <1>4, <1>6

\* A walk of a join that has yet to begin is none.
LEMMA NoWalkYet ==
  ASSUME IInv, stack # <<>>, Top.kind = "link", Top.phase \in {"link_body", "again"},
         NEW p, NEW below, NEW lost
  PROVE  GoOn(p, below, lost) = [GoOn(p, below, lost) EXCEPT !.walk = 0] /\ 0 \in Walks
<1>1. Top \in Entries /\ Top.walk = 0
  BY AtTop DEF Fits, LatePhases
<1>2. 0 \in Walks
  <2>1. Len(Top.stages) \in Nat
    BY <1>1 DEF Entries
  <2>. QED  BY <2>1, NoWalk DEF Walks
<1>3. GoOn(p, below, lost) = [GoOn(p, below, lost) EXCEPT !.walk = 0]
  BY <1>1 DEF GoOn, Entries
<1>. QED  BY <1>2, <1>3

\* What is no longer lost, or now is, changes nothing else.
LEMMA OthersSame ==
  ASSUME stack \in Seq(Entries), stack # <<>>, NEW e \in Entries, NEW S, NEW lost \in BOOLEAN,
         stack' = [i \in DOMAIN stack |-> IF i = Here THEN e
                                         ELSE IF i \in S THEN [stack[i] EXCEPT !.lost = lost]
                                         ELSE stack[i]]
  PROVE  /\ stack' \in Seq(Entries) /\ Len(stack') = Here /\ stack'[Here] = e
         /\ \A i \in 1 .. Here - 1 : Same(stack'[i], stack[i])
<1>1. Here \in Nat /\ Here >= 1 /\ DOMAIN stack = 1 .. Here
  BY DEF Here
<1>2. ASSUME NEW d \in Entries
      PROVE  [d EXCEPT !.lost = lost] \in Entries /\ Same([d EXCEPT !.lost = lost], d)
  <2>1. [d EXCEPT !.lost = lost] \in Entries
    BY DEF Entries
  <2>2. Same([d EXCEPT !.lost = lost], d)
    BY DEF Same, Entries
  <2>. QED  BY <2>1, <2>2
<1>3. DOMAIN stack' = 1 .. Here /\ stack'[Here] = e
  BY <1>1
<1>4. ASSUME NEW i \in 1 .. Here
      PROVE  stack'[i] \in Entries /\ (i # Here => Same(stack'[i], stack[i]))
  <2>1. stack[i] \in Entries
    BY <1>1
  <2>2. CASE i = Here
    BY <1>1, <2>2
  <2>3. CASE i # Here /\ i \in S
    <3>1. stack'[i] = [stack[i] EXCEPT !.lost = lost]
      BY <1>1, <2>3
    <3>. QED  BY <1>2, <2>1, <2>3, <3>1
  <2>4. CASE i # Here /\ i \notin S
    <3>1. stack'[i] = stack[i]
      BY <1>1, <2>4
    <3>. QED  BY <2>1, <2>4, <3>1 DEF Same
  <2>. QED  BY <2>2, <2>3, <2>4
<1>5. stack' \in Seq(Entries) /\ Len(stack') = Here
  <2>1. stack' \in [1 .. Here -> Entries]
    BY <1>1, <1>4
  <2>2. stack' \in Seq(Entries)
    BY <1>1, <2>1, SeqDef
  <2>. QED  BY <1>1, <1>3, <2>2
<1>. QED  BY <1>1, <1>3, <1>4, <1>5

\* The node on top changes as it may, while others forget or learn of a loss.
LEMMA OthersSameOK ==
  ASSUME IInv, stack # <<>>, NEW e \in Entries, MayBecome(stack, e), NEW S, NEW lost \in BOOLEAN,
         stack' = [i \in DOMAIN stack |-> IF i = Here THEN e
                                         ELSE IF i \in S THEN [stack[i] EXCEPT !.lost = lost]
                                         ELSE stack[i]]
  PROVE  /\ stack' \in Seq(Entries) /\ Len(stack') = Here /\ stack'[Here] = e
         /\ \A i \in 1 .. Here - 1 : Same(stack'[i], stack[i])
         /\ NodesOK(stack')
<1>1. /\ stack' \in Seq(Entries) /\ Len(stack') = Here /\ stack'[Here] = e
      /\ \A i \in 1 .. Here - 1 : Same(stack'[i], stack[i])
  BY AtTop, OthersSame
<1>. QED  BY <1>1, AtTop, TopChanges

\* A join reads its report, or reads its left source again, and forgets the report.
LEMMA ReportRead ==
  ASSUME IInv, stack # <<>>, Top.kind = "link", Top.phase \in {"link_body", "again"},
         stack' \in Seq(Entries), NodesOK(stack'),
         report' = NoReport, UNCHANGED <<handed, right_null>>,
         result' \in {"none", "ok"} \cup Errors
  PROVE  IInv'
<1>1. handed = Nothing /\ right_null = FALSE
  BY AtTop, NothingHanded DEF Waiting
<1>2. TypeOK'
  BY Types DEF IInv, TypeOK
<1>. QED  BY <1>1, <1>2, EmptySlots, NoReportOK DEF IInv

\* link_body: the join reads the report, or its left source once more.
LEMMA LinkBodyStep ==
  ASSUME IInv, link_body
  PROVE  IInv'
<1>1. /\ Top.kind = "link" /\ Top.phase = "link_body" /\ report' = NoReport
      /\ UNCHANGED <<handed, right_null, result>>
  BY DEF link_body, At
<1>2. stack # <<>> /\ result' \in {"none", "ok"} \cup Errors
  BY <1>1, PhaseOfNode DEF IInv, TypeOK
<1>3. CASE To("again")
  <2>1. "again" \in Phases /\ "again" \in EarlyPhases /\ "link_body" \notin LatePhases
    BY DEF Phases, EarlyPhases, LatePhases
  <2>2. stack' \in Seq(Entries) /\ NodesOK(stack')
    BY <1>1, <1>2, <1>3, <2>1, TopTo
  <2>. QED  BY <1>1, <1>2, <2>2, ReportRead
<1>4. ASSUME NEW p \in LatePhases, NEW below \in BOOLEAN, NEW lost \in BOOLEAN, NEW n \in Walks,
             Become([GoOn(p, below, lost) EXCEPT !.walk = n])
      PROVE  IInv'
  <2>. DEFINE e == [GoOn(p, below, lost) EXCEPT !.walk = n]
  <2>1. e \in Entries /\ MayBecome(stack, e)
    <3>1. e = [GoOn(p, below, lost) EXCEPT !.walk = n]
      OBVIOUS
    <3>. HIDE DEF e
    <3>. QED  BY <1>1, <1>2, <3>1, GoesOnWith
  <2>2. Become(e)
    BY <1>4
  <2>. HIDE DEF e
  <2>3. stack' \in Seq(Entries) /\ NodesOK(stack')
    BY <1>2, <2>1, <2>2, BecameOK
  <2>. QED  BY <1>1, <1>2, <2>3, ReportRead
<1>5. CASE Become(GoOn("no_left_rows", FALSE, Top.lost))
  <2>1. Top.lost \in BOOLEAN
    BY <1>2, AtTop DEF Entries
  <2>2. "no_left_rows" \in LatePhases
    BY DEF LatePhases
  <2>3. /\ 0 \in Walks
        /\ GoOn("no_left_rows", FALSE, Top.lost) = [GoOn("no_left_rows", FALSE, Top.lost) EXCEPT !.walk = 0]
    <3>. DEFINE lost == Top.lost
    <3>. HIDE DEF lost
    <3>1. /\ 0 \in Walks
          /\ GoOn("no_left_rows", FALSE, lost) = [GoOn("no_left_rows", FALSE, lost) EXCEPT !.walk = 0]
      BY <1>1, <1>2, NoWalkYet
    <3>. QED  BY <3>1 DEF lost
  <2>4. Become([GoOn("no_left_rows", FALSE, Top.lost) EXCEPT !.walk = 0])
    BY <1>5, <2>3
  <2>. QED  BY <1>4, <2>1, <2>2, <2>3, <2>4
<1>6. CASE \E p \in Joins, n \in Walks : Become([GoOn(p, report.dropped, FALSE) EXCEPT !.walk = n])
  <2>1. report.dropped \in BOOLEAN /\ Joins \subseteq LatePhases
    BY DEF IInv, TypeOK, Joins, LatePhases
  <2>. QED  BY <1>4, <1>6, <2>1
<1>. QED  BY <1>3, <1>5, <1>6 DEF link_body

\* The left source is read again, as written.
LEMMA ReadAgainStep ==
  ASSUME IInv, ReadAgain
  PROVE  IInv'
<1>1. /\ Top.kind = "link" /\ Top.phase = "again" /\ report' = NoReport /\ result' = "none"
      /\ UNCHANGED <<handed, right_null>>
  BY DEF ReadAgain, At
<1>2. stack # <<>>
  BY <1>1, PhaseOfNode
<1>3. PICK p \in Joins \cup {"no_left_rows"}, n \in Walks :
        AsWritten([GoOn(p, FALSE, FALSE) EXCEPT !.walk = n])
  BY DEF ReadAgain
<1>. DEFINE e == [GoOn(p, FALSE, FALSE) EXCEPT !.walk = n]
<1>4. e = [GoOn(p, FALSE, FALSE) EXCEPT !.walk = n] /\ AsWritten(e)
  BY <1>3
<1>. HIDE DEF e
<1>5. p \in LatePhases
  BY DEF Joins, LatePhases
<1>6. e \in Entries /\ MayBecome(stack, e)
  <2>. DEFINE lost == FALSE
  <2>1. lost \in BOOLEAN /\ n \in Walks
    BY <1>3
  <2>2. e = [GoOn(p, lost, lost) EXCEPT !.walk = n]
    BY <1>4
  <2>. HIDE DEF lost
  <2>. QED  BY <1>1, <1>2, <1>5, <2>1, <2>2, GoesOnWith
<1>7. stack' \in Seq(Entries) /\ NodesOK(stack')
  <2>1. stack' = [i \in DOMAIN stack |-> IF i = Here THEN e
                                        ELSE IF i \in Chain THEN [stack[i] EXCEPT !.lost = FALSE]
                                        ELSE stack[i]]
    BY <1>4 DEF AsWritten
  <2>. QED  BY <1>2, <1>6, <2>1, OthersSameOK
<1>. QED  BY <1>1, <1>2, <1>7, ReportRead

\* A join with its sources read goes on in a later phase.
LEMMA LateMoves ==
  ASSUME IInv, stack # <<>>, Top.kind = "link", Top.phase \in LatePhases,
         NEW e \in Entries, e.kind = Top.kind, e.phase \in LatePhases, e.fields = Top.fields,
         e.had = Top.had, e.stages = Top.stages, e.deep = Top.deep, e.read = Top.read,
         e.walk = Top.walk
  PROVE  MayBecome(stack, e)
<1>1. Fits(e)
  BY AtTop DEF Fits, LatePhases
<1>. QED  BY <1>1, AtTop, MovesOn

\* A side is empty, and so is the join.
LEMMA NoRowsStep ==
  ASSUME IInv, NoRows
  PROVE  IInv'
<1>1. /\ Top.phase \in {"no_left_rows", "no_right_rows"}
      /\ UNCHANGED <<handed, right_null, report, result>>
  BY DEF NoRows
<1>2. stack # <<>> /\ Top.kind = "link" /\ Top.phase \in LatePhases
  <2>1. stack # <<>>
    BY <1>1, PhaseOfNode
  <2>. QED  BY <1>1, <2>1, AtTop DEF Fits, Kinds, OverPhases, FilterPhases, LatePhases
<1>. DEFINE e == [Top EXCEPT !.phase = "done"]
<1>3. /\ e \in Entries /\ e.kind = Top.kind /\ e.phase = "done" /\ e.fields = Top.fields
      /\ e.had = Top.had /\ e.stages = Top.stages /\ e.deep = Top.deep /\ e.read = Top.read
      /\ e.walk = Top.walk
  <2>1. Top \in Entries /\ "done" \in Phases
    BY <1>2, AtTop DEF Phases, LatePhases
  <2>. QED  BY <2>1 DEF Entries
<1>4. MayBecome(stack, e)
  <2>. HIDE DEF e
  <2>1. e.phase \in LatePhases
    BY <1>3 DEF LatePhases
  <2>. QED  BY <1>2, <1>3, <2>1, LateMoves
<1>5. Become(e) \/ AsWritten(e)
  BY DEF NoRows, To
<1>. HIDE DEF e
<1>6. /\ stack' \in Seq(Entries) /\ Len(stack') = Here /\ stack'[Here] = e
      /\ \A i \in 1 .. Here - 1 : Same(stack'[i], stack[i])
      /\ NodesOK(stack')
  <2>1. CASE Become(e)
    BY <1>2, <1>3, <1>4, <2>1, BecameOK
  <2>2. CASE AsWritten(e)
    <3>1. stack' = [i \in DOMAIN stack |-> IF i = Here THEN e
                                          ELSE IF i \in Chain THEN [stack[i] EXCEPT !.lost = FALSE]
                                          ELSE stack[i]]
      BY <2>2 DEF AsWritten
    <3>. QED  BY <1>2, <1>3, <1>4, <3>1, OthersSameOK
  <2>. QED  BY <1>5, <2>1, <2>2
<1>7. result' \in {"none", "ok"} \cup Errors
  BY <1>1 DEF IInv, TypeOK
<1>. QED  BY <1>1, <1>2, <1>3, <1>6, <1>7, GoesOn DEF Waiting

\* A row is asked a conjunct that was handed down.
LEMMA AskStep ==
  ASSUME IInv, Ask
  PROVE  IInv'
<1>1. /\ Top.kind = "link" /\ Top.phase = "rows" /\ To("verdict")
      /\ UNCHANGED <<handed, right_null, report, result>>
  BY DEF Ask, At
<1>2. stack # <<>> /\ Top.phase \in LatePhases /\ result' \in {"none", "ok"} \cup Errors
  BY <1>1, PhaseOfNode DEF LatePhases, IInv, TypeOK
<1>3. /\ stack' \in Seq(Entries) /\ Len(stack') = Here
      /\ stack'[Here].kind = "link" /\ stack'[Here].phase = "verdict"
      /\ \A i \in 1 .. Here - 1 : Same(stack'[i], stack[i])
      /\ NodesOK(stack')
  <2>1. "verdict" \in Phases /\ "verdict" \in LatePhases
    BY DEF Phases, LatePhases
  <2>. QED  BY <1>1, <1>2, <2>1, TopTo
<1>. QED  BY <1>1, <1>2, <1>3, GoesOn DEF Waiting

\* ... and is kept or dropped, or the conjunct raises an error.
LEMMA VerdictStep ==
  ASSUME IInv, join_verdict
  PROVE  IInv'
<1>1. /\ Top.kind = "link" /\ Top.phase = "verdict" /\ result' = "none"
      /\ UNCHANGED <<handed, right_null, report>>
  BY DEF join_verdict, At
<1>2. stack # <<>> /\ Top.phase \in LatePhases
  BY <1>1, PhaseOfNode DEF LatePhases
<1>. DEFINE d == [Top EXCEPT !.phase = "rows", !.dropped = TRUE]
            e == [Top EXCEPT !.phase = "rows", !.errored = TRUE]
<1>3. /\ d \in Entries /\ d.kind = Top.kind /\ d.phase = "rows" /\ MayBecome(stack, d)
      /\ e \in Entries /\ e.kind = Top.kind /\ e.phase = "rows" /\ MayBecome(stack, e)
  <2>1. Top \in Entries /\ "rows" \in Phases /\ "rows" \in LatePhases
    BY <1>2, AtTop DEF Phases, LatePhases
  <2>2. /\ d \in Entries /\ d.kind = Top.kind /\ d.phase = "rows" /\ d.fields = Top.fields
        /\ d.had = Top.had /\ d.stages = Top.stages /\ d.deep = Top.deep /\ d.read = Top.read
        /\ d.walk = Top.walk
    BY <2>1 DEF Entries
  <2>3. /\ e \in Entries /\ e.kind = Top.kind /\ e.phase = "rows" /\ e.fields = Top.fields
        /\ e.had = Top.had /\ e.stages = Top.stages /\ e.deep = Top.deep /\ e.read = Top.read
        /\ e.walk = Top.walk
    BY <2>1 DEF Entries
  <2>. HIDE DEF d, e
  <2>. QED  BY <1>1, <1>2, <2>1, <2>2, <2>3, LateMoves
<1>4. /\ stack' \in Seq(Entries) /\ Len(stack') = Here
      /\ stack'[Here].kind = "link" /\ stack'[Here].phase = "rows"
      /\ \A i \in 1 .. Here - 1 : Same(stack'[i], stack[i])
      /\ NodesOK(stack')
  <2>1. CASE To("rows")
    <3>1. "rows" \in Phases /\ "rows" \in LatePhases
      BY DEF Phases, LatePhases
    <3>. QED  BY <1>1, <1>2, <2>1, <3>1, TopTo
  <2>2. CASE \E n \in 1 .. Top.walk :
               stack' = [i \in DOMAIN stack |->
                 IF i = Here THEN d
                 ELSE IF i \in Losing(Top.stages[n])
                 THEN [stack[i] EXCEPT !.lost = TRUE] ELSE stack[i]]
    <3>. HIDE DEF d
    <3>. QED  BY <1>1, <1>2, <1>3, <2>2, OthersSameOK
  <2>3. CASE Become(e)
    <3>. HIDE DEF e
    <3>. QED  BY <1>1, <1>2, <1>3, <2>3, BecameOK
  <2>. QED  BY <2>1, <2>2, <2>3 DEF join_verdict
<1>. QED  BY <1>1, <1>2, <1>4, GoesOn DEF Waiting

\* A join's report is for the node above, which waits for it, if it was handed
\* anything.
LEMMA Reported ==
  ASSUME IInv, stack # <<>>, NEW rest \in {"any", "total", "none"}, Report(rest)
  PROVE  /\ report' \in [reader : Nat, dropped : BOOLEAN, errored : BOOLEAN, rest : {"any", "total", "none"}]
         /\ \/ UNCHANGED report
            \/ report'.reader = Here - 1 /\ Here - 1 \in Nat /\ Here > 1 /\ Waiting(stack[Here - 1])
<1>1. /\ Top.stages \in Seq(Stage) /\ Top.dropped \in BOOLEAN /\ Top.below \in BOOLEAN
      /\ Top.errored \in BOOLEAN /\ Way(stack, Top.stages, Here - 1)
      /\ Here \in Nat /\ Here - 1 \in Nat
  BY AtTop DEF Entries, NodeOK
<1>2. report \in [reader : Nat, dropped : BOOLEAN, errored : BOOLEAN, rest : {"any", "total", "none"}]
  BY DEF IInv, TypeOK
<1>3. CASE Top.stages = <<>>
  BY <1>2, <1>3 DEF Report
<1>4. CASE Top.stages # <<>>
  <2>1. Here - 1 >= 1 /\ Waiting(stack[Here - 1])
    BY <1>1, <1>4, WayWaits
  <2>2. report' = [reader |-> Here - 1, dropped |-> Top.dropped \/ Top.below,
                   errored |-> Top.errored, rest |-> rest]
    BY <1>4 DEF Report
  <2>. QED  BY <1>1, <2>1, <2>2
<1>. QED  BY <1>3, <1>4

\* The hash join reports to the node directly above.
LEMMA JoinedStep ==
  ASSUME IInv, Joined
  PROVE  IInv'
<1>1. /\ Top.kind = "link" /\ Top.phase = "rows" /\ stack' = Front(stack) /\ result' = "ok"
      /\ UNCHANGED <<handed, right_null>>
  BY DEF Joined, At, Leave
<1>2. stack # <<>> /\ ~Waiting(Top) /\ Top.phase \in LatePhases
  BY <1>1, PhaseOfNode DEF Waiting, LatePhases
<1>3. PICK rest \in {"any", "total", "none"} : Report(rest)
  BY DEF Joined
<1>4. /\ stack' \in Seq(Entries) /\ NodesOK(stack') /\ Len(stack') = Here - 1
      /\ \A i \in 1 .. Here - 1 : stack'[i] = stack[i]
  BY <1>1, <1>2, AtTop, Popped
<1>5. TypeOK'
  BY <1>1, <1>2, <1>3, <1>4, Reported DEF IInv, TypeOK
<1>6. handed = Nothing /\ right_null = FALSE
  BY <1>1, <1>2, AtTop, NothingHanded
<1>7. ReportOK(stack', report', result')
  <2>1. CASE UNCHANGED report
    BY <1>1, <1>2, <2>1, AtTop, ReportLeft
  <2>2. CASE report'.reader = Here - 1 /\ Here - 1 \in Nat /\ Here > 1 /\ Waiting(stack[Here - 1])
    <3>1. Here - 1 >= 1 /\ Waiting(stack'[Here - 1]) /\ Len(stack') # (Here - 1) + 1
      BY <1>2, <1>4, <2>2, AtTop
    <3>. QED  BY <1>4, <2>2, <3>1, ReportMade
  <2>. QED  BY <1>2, <1>3, <2>1, <2>2, Reported
<1>. QED  BY <1>1, <1>4, <1>5, <1>6, <1>7, EmptySlots DEF IInv

\* The nested loops report before their first row.
LEMMA NestedLoopsStep ==
  ASSUME IInv, NestedLoops
  PROVE  IInv'
<1>1. /\ Top.kind = "link" /\ Top.phase \in {"fallback", "left_rows_alone"} /\ Report("any")
      /\ UNCHANGED <<handed, right_null, result>>
  BY DEF NestedLoops, At
<1>2. stack # <<>> /\ ~Waiting(Top) /\ Top.phase \in LatePhases
  BY <1>1, PhaseOfNode DEF Waiting, LatePhases
<1>3. PICK p \in {"predicate", "done"} : To(p)
  BY DEF NestedLoops
<1>4. /\ stack' \in Seq(Entries) /\ Len(stack') = Here
      /\ stack'[Here].kind = "link" /\ stack'[Here].phase = p
      /\ \A i \in 1 .. Here - 1 : Same(stack'[i], stack[i])
      /\ NodesOK(stack')
  <2>1. p \in Phases /\ p \in LatePhases
    BY DEF Phases, LatePhases
  <2>. QED  BY <1>1, <1>2, <1>3, <2>1, TopTo
<1>5. TypeOK'
  BY <1>1, <1>2, <1>4, Reported DEF IInv, TypeOK
<1>6. handed = Nothing /\ right_null = FALSE
  BY <1>1, <1>2, AtTop, NothingHanded
<1>7. ReportOK(stack', report', result')
  <2>1. ~Waiting(stack'[Here])
    BY <1>4 DEF Waiting
  <2>2. CASE UNCHANGED report
    BY <1>1, <1>2, <1>4, <2>1, <2>2, AtTop, ReportStays
  <2>3. CASE report'.reader = Here - 1 /\ Here - 1 \in Nat /\ Here > 1 /\ Waiting(stack[Here - 1])
    <3>1. Here - 1 >= 1 /\ Here - 1 \in 1 .. Here - 1 /\ (Here - 1) + 1 = Here
      BY <1>2, <2>3, AtTop
    <3>2. Waiting(stack'[Here - 1])
      BY <1>4, <2>3, <3>1 DEF Same, Waiting
    <3>. QED  BY <1>4, <2>1, <2>3, <3>1, <3>2, ReportMade
  <2>. QED  BY <1>1, <1>2, <2>2, <2>3, Reported
<1>. QED  BY <1>1, <1>4, <1>5, <1>6, <1>7, EmptySlots DEF IInv

-----------------------------------------------------------------------------
(* Every behaviour. *)

\* The invariant holds before the first run.
LEMMA InitOK == Init => IInv
<1>. SUFFICES ASSUME Init
              PROVE  IInv
  OBVIOUS
<1>1. stack = <<>> /\ handed = Nothing /\ right_null = FALSE /\ report = NoReport /\ result = "none"
  BY DEF Init
<1>2. TypeOK
  <2>1. stack \in Seq(Entries)
    BY <1>1
  <2>2. handed \in [stages : Seq(Stage), deep : BOOLEAN]
    BY <1>1 DEF Nothing
  <2>3. report \in [reader : Nat, dropped : BOOLEAN, errored : BOOLEAN, rest : {"any", "total", "none"}]
    BY <1>1 DEF NoReport
  <2>4. right_null \in BOOLEAN /\ result \in {"none", "ok"} \cup Errors
    BY <1>1
  <2>. QED  BY <2>1, <2>2, <2>3, <2>4 DEF TypeOK
<1>3. NodesOK(stack)
  BY <1>1 DEF NodesOK
<1>. QED  BY <1>1, <1>2, <1>3, EmptySlots, NoReportOK DEF IInv

\* Every action keeps the invariant.
LEMMA NextOK == IInv /\ [Next]_vars => IInv'
<1>. SUFFICES ASSUME IInv, [Next]_vars
              PROVE  IInv'
  OBVIOUS
<1>1. ASSUME NEW kind \in Kinds \cup {"leaf"}, eval_node(kind)
      PROVE  IInv'
  BY <1>1, EvalNodeStep
<1>2. CASE Fail \/ Resume \/ NewRun \/ Return \/ FallBack \/ eval_call
  BY <1>2, FailStep, ResumeStep, NewRunStep, ReturnStep, FallBackStep, EvalCallStep
<1>3. ASSUME NEW preset \in BOOLEAN, filter_plan(preset) \/ link_head(preset)
      PROVE  IInv'
  BY <1>3, FilterPlanStep, LinkHeadStep
<1>4. CASE PlanOverJoin \/ BadBinder \/ filter_rows
  BY <1>4, PlanOverJoinStep, BadBinderStep, FilterRowsStep
<1>5. CASE link_hand_down \/ LeftAsWritten \/ RightErrorStands \/ Sources
  BY <1>5, HandDownStep, LeftAsWrittenStep, RightErrorStep, SourcesStep
<1>6. CASE link_body \/ ReadAgain \/ NoRows
  BY <1>6, LinkBodyStep, ReadAgainStep, NoRowsStep
<1>7. CASE Ask \/ join_verdict \/ Joined \/ NestedLoops
  BY <1>7, AskStep, VerdictStep, JoinedStep, NestedLoopsStep
<1>8. CASE UNCHANGED vars
  <2>1. /\ stack' = stack /\ handed' = handed /\ right_null' = right_null
        /\ report' = report /\ result' = result
    BY <1>8 DEF vars
  <2>. QED  BY <2>1 DEF IInv, TypeOK
<1>. QED  BY <1>1, <1>2, <1>3, <1>4, <1>5, <1>6, <1>7, <1>8 DEF Next

\* The inductive invariant holds of every run.
THEOREM Invariance == Spec => []IInv
BY InitOK, NextOK, PTL DEF Spec

\* The place the slots are judged from is the model's.
LEMMA AskerIs ==
  ASSUME IInv
  PROVE  Asker = AskerOf(stack)
<1>1. CASE stack = <<>>
  BY <1>1 DEF Asker, JustAsked, AskerOf, Top, Root, Here
<1>2. CASE stack # <<>>
  BY <1>2, AtTop DEF Asker, JustAsked, AskerOf
<1>. QED  BY <1>1, <1>2

\* A way of this proof is a way of the model's property.
LEMMA WayIsOnTheWay ==
  ASSUME NEW s, NEW p, Way(stack, s, p)
  PROVE  OnTheWay(s, p)
<1>1. ASSUME NEW i \in DOMAIN s
      PROVE  /\ s[i].filter \in 1 .. p
             /\ stack[s[i].filter].kind = "over"
             /\ \A j \in s[i].filter .. p : Waiting(stack[j])
             /\ s[i].above = Cardinality(LinksIn(s[i].filter, p))
  <2>1. StageOn(stack, s, p, i)
    BY DEF Way
  <2>2. LinksIn(s[i].filter, p) = LinksOn(stack, s[i].filter, p)
    BY DEF LinksIn, LinksOn
  <2>. QED  BY <2>1, <2>2 DEF StageOn
<1>. QED  BY <1>1 DEF OnTheWay, Way

\* Conjuncts are only ever in the slot, or in a LINK's hands, on the way from their
\* own FILTER through direct sources, and counted past the joins they are past
\* (filter_plan, link_head and link_hand_down in structure.rs).
THEOREM HandedAlongItsWay == Spec => []HandedOnTheWay
<1>1. IInv => HandedOnTheWay
  <2>. SUFFICES ASSUME IInv
                PROVE  HandedOnTheWay
    OBVIOUS
  <2>1. SlotsOK(stack, handed, right_null) /\ Asker = AskerOf(stack) /\ NodesOK(stack)
    BY AskerIs DEF IInv
  <2>2. OnTheWay(handed.stages, Asker)
    BY <2>1, WayIsOnTheWay DEF SlotsOK
  <2>3. \A p \in DOMAIN stack : OnTheWay(stack[p].stages, p - 1)
    BY <2>1, WayIsOnTheWay DEF NodesOK, NodeOK
  <2>. QED  BY <2>1, <2>2, <2>3 DEF HandedOnTheWay, SlotsOK
<1>. QED  BY <1>1, Invariance, PTL

\* A report is in its slot only while the FILTER or LINK it was made for waits to
\* read it (filter_rows, link_body and eval_node's error path).
THEOREM ReportReaderWaits == Spec => []ReportHasReader
<1>1. IInv => ReportHasReader
  <2>. SUFFICES ASSUME IInv, report # NoReport
                PROVE  /\ report.reader \in DOMAIN stack
                       /\ \/ Waiting(stack[report.reader])
                          \/ report.reader = Here /\ At("link", "link_body")
    BY DEF ReportHasReader
  <2>1. /\ report.reader \in DOMAIN stack
        /\ \/ Waiting(stack[report.reader])
           \/ report.reader = Len(stack) /\ stack[Len(stack)].phase = "link_body"
    BY DEF IInv, ReportOK
  <2>2. stack # <<>>
    BY <2>1
  <2>3. Top.phase = "link_body" => Top.kind = "link"
    BY <2>2, AtTop DEF Fits, Kinds, OverPhases, FilterPhases
  <2>. QED  BY <2>1, <2>2, <2>3, AtTop DEF At
<1>. QED  BY <1>1, Invariance, PTL

\* A FILTER over a join reads its own join's report or none (filter_rows).
THEOREM ReadsItsOwn == Spec => []OwnReportOnly
<1>1. IInv => OwnReportOnly
  BY DEF IInv, NodesOK, NodeOK, OwnReportOnly
<1>. QED  BY <1>1, Invariance, PTL

\* Rows are dropped without keeping their places only where no _K and no observed
\* key could tell (filter_plan's deep and link_head's deep path).
THEOREM DeepIsUnobserved == Spec => []DeepUnobserved
<1>1. IInv => DeepUnobserved
  BY DEF IInv, NodesOK, NodeOK, Unseen, DeepUnobserved
<1>. QED  BY <1>1, Invariance, PTL

-----------------------------------------------------------------------------
(* Drops are told.  A conjunct of fields alone without ?? asks for leaves   *)
(* only, so nothing empties the report on its way up but an error, after    *)
(* which no rows are read.                                                  *)

\* A node on the way that will pass on what it is told of drops.
Passes(e) == IF e.kind = "link" THEN e.equi /\ e.stages # <<>> ELSE e.had /\ e.own = "simple"
Silent(k, i, p) == \A j \in i .. p : Waiting(k[j]) /\ Passes(k[j])

\* A join that reads its left source again, as written, or has yet to report.
Teller(e) ==
  /\ e.kind = "link"
  /\ \/ e.phase = "again"
     \/ /\ e.phase \in {"rows", "verdict", "left_rows_alone", "no_right_rows"}
        /\ (e.dropped \/ e.below) /\ e.stages # <<>>

\* The report of drops for the node e at place p, as it waits or as it is about to
\* read it; the one it has left for the node above; or an error.
ForThis(e, p, r, res) ==
  /\ r.dropped /\ r.reader = p /\ Passes(e)
  /\ \/ Waiting(e) /\ res = "ok"
     \/ e.kind = "link" /\ e.phase = "link_body" /\ res = "none"
ForAbove(e, p, r, res) ==
  /\ r.dropped /\ r.reader = p - 1
  /\ \/ e.kind = "over" /\ e.phase = "body" /\ e.own \in {"simple", "total"}
     \/ e.kind \in {"over", "link"} /\ e.phase = "done" /\ res = "none"
Failing(e, res) == res \in Errors /\ (Waiting(e) \/ (e.kind = "over" /\ e.phase = "body"))
News(e, p, r, res) == ForThis(e, p, r, res) \/ ForAbove(e, p, r, res) \/ Failing(e, res)

\* A join whose rows were dropped below reads them again, or will be told.
ToldBy(k, i, p, r, res) ==
  Silent(k, i, p - 1) /\ (Teller(k[p]) \/ (p = Len(k) /\ News(k[p], p, r, res)))
Told(k, i, r, res) ==
  /\ k[i].kind = "link"
  /\ \/ k[i].phase = "again"
     \/ /\ k[i].phase \in {"down", "link_body"}
        /\ \E p \in i .. Len(k) : ToldBy(k, i, p, r, res)
DropsTold(k, r, res) == \A i \in DOMAIN k : k[i].lost => Told(k, i, r, res)

\* The same node to the drops.
Alike(d, e) ==
  /\ d.kind = e.kind /\ d.phase = e.phase /\ d.own = e.own /\ d.had = e.had
  /\ d.stages = e.stages /\ d.equi = e.equi /\ d.dropped = e.dropped /\ d.below = e.below

\* A way up stays silent, and what tells it tells it, while the nodes are alike.
LEMMA AlikeTells ==
  ASSUME NEW d, NEW e, Alike(d, e)
  PROVE  /\ Waiting(e) => Waiting(d)
         /\ Passes(e) => Passes(d)
         /\ Teller(e) => Teller(d)
BY DEF Alike, Waiting, Passes, Teller

\* While the nodes below the top of k stay as they are, a join among them is told as
\* it was, or what is on top of k is to tell it.
LEMMA StillTold ==
  ASSUME NEW k \in Seq(Entries), NEW l \in Seq(Entries), NEW n \in Nat, Len(k) = n + 1, Len(l) >= n,
         NEW r, NEW res, NEW r2, NEW res2, NEW i \in 1 .. n,
         \A j \in 1 .. n : Alike(l[j], k[j]),
         Told(k, i, r, res)
  PROVE  \/ Told(l, i, r2, res2)
         \/ /\ l[i].kind = "link" /\ l[i].phase \in {"down", "link_body"} /\ Silent(l, i, n)
            /\ Silent(k, i, n) /\ (Teller(k[n + 1]) \/ News(k[n + 1], n + 1, r, res))
<1>1. /\ i \in Nat /\ i >= 1 /\ i <= n /\ Alike(l[i], k[i]) /\ Len(l) \in Nat
      /\ \A p \in i .. n : p \in 1 .. n /\ p \in i .. Len(l)
  OBVIOUS
<1>2. CASE k[i].phase = "again"
  BY <1>1, <1>2 DEF Told, Alike
<1>3. ASSUME NEW p \in i .. Len(k), ToldBy(k, i, p, r, res), k[i].phase \in {"down", "link_body"}
      PROVE  \/ Told(l, i, r2, res2)
             \/ /\ l[i].kind = "link" /\ l[i].phase \in {"down", "link_body"} /\ Silent(l, i, n)
                /\ Silent(k, i, n) /\ (Teller(k[n + 1]) \/ News(k[n + 1], n + 1, r, res))
  <2>1. l[i].kind = "link" /\ l[i].phase \in {"down", "link_body"}
    BY <1>1, <1>3 DEF Told, Alike
  <2>2. /\ Silent(k, i, p - 1)
        /\ Teller(k[p]) \/ (p = n + 1 /\ News(k[p], p, r, res))
        /\ p \in Nat /\ p <= n + 1 /\ p >= i
    BY <1>1, <1>3 DEF ToldBy
  <2>3. Silent(l, i, p - 1)
    <3>1. ASSUME NEW j \in i .. p - 1
          PROVE  Waiting(l[j]) /\ Passes(l[j])
      <4>1. j \in 1 .. n
        BY <1>1, <2>2
      <4>2. Waiting(k[j]) /\ Passes(k[j])
        BY <2>2 DEF Silent
      <4>. QED  BY <4>1, <4>2, AlikeTells
    <3>. QED  BY <3>1 DEF Silent
  <2>4. CASE p <= n
    <3>1. Teller(k[p]) /\ p \in 1 .. n /\ p \in i .. Len(l)
      BY <1>1, <2>2, <2>4
    <3>2. Teller(l[p])
      BY <3>1, AlikeTells
    <3>3. ToldBy(l, i, p, r2, res2)
      BY <2>3, <3>2 DEF ToldBy
    <3>. QED  BY <2>1, <3>1, <3>3 DEF Told
  <2>5. CASE p = n + 1
    <3>1. p - 1 = n
      BY <2>5
    <3>. QED  BY <2>1, <2>2, <2>3, <2>5, <3>1
  <2>. QED  BY <2>2, <2>4, <2>5
<1>. QED  BY <1>2, <1>3 DEF Told

\* A join that is lost to drops, on top, is told by what is there.
LEMMA LostOnTop ==
  ASSUME NEW k \in Seq(Entries), k # <<>>, NEW r, NEW res, DropsTold(k, r, res), k[Len(k)].lost
  PROVE  LET e == k[Len(k)]
         IN  /\ e.kind = "link"
             /\ e.phase = "again" \/ (e.phase \in {"down", "link_body"} /\ News(e, Len(k), r, res))
<1>1. Len(k) \in DOMAIN k /\ Len(k) \in Nat
  OBVIOUS
<1>2. Told(k, Len(k), r, res)
  BY <1>1 DEF DropsTold
<1>3. CASE k[Len(k)].phase = "again"
  BY <1>2, <1>3 DEF Told
<1>4. ASSUME NEW p \in Len(k) .. Len(k), ToldBy(k, Len(k), p, r, res),
             k[Len(k)].phase \in {"down", "link_body"}
      PROVE  News(k[Len(k)], Len(k), r, res)
  <2>1. p = Len(k)
    BY <1>1
  <2>. QED  BY <1>4, <2>1 DEF ToldBy, Teller
<1>. QED  BY <1>2, <1>3, <1>4 DEF Told

\* The node on top of k becomes another; of the joins below, some may learn that rows
\* are lost to them, or forget.
LEMMA TopTells ==
  ASSUME NEW k \in Seq(Entries), NEW l \in Seq(Entries), k # <<>>, Len(l) = Len(k),
         NEW r, NEW res, NEW r2, NEW res2, DropsTold(k, r, res),
         \A i \in 1 .. Len(k) - 1 : Alike(l[i], k[i]),
         \A i \in 1 .. Len(k) - 1 : l[i].lost =>
           \/ k[i].lost
           \/ /\ l[i].kind = "link" /\ l[i].phase = "down" /\ Silent(l, i, Len(k) - 1)
              /\ Teller(l[Len(k)]),
         \A i \in 1 .. Len(k) - 1 :
           l[i].lost /\ Silent(k, i, Len(k) - 1)
           /\ (Teller(k[Len(k)]) \/ News(k[Len(k)], Len(k), r, res))
           => Teller(l[Len(k)]) \/ News(l[Len(k)], Len(k), r2, res2),
         l[Len(k)].lost => /\ l[Len(k)].kind = "link"
                           /\ \/ l[Len(k)].phase = "again"
                              \/ /\ l[Len(k)].phase \in {"down", "link_body"}
                                 /\ News(l[Len(k)], Len(k), r2, res2)
  PROVE  DropsTold(l, r2, res2)
<1>. DEFINE n == Len(k) - 1
<1>1. n \in Nat /\ Len(k) = n + 1 /\ Len(l) >= n /\ DOMAIN k = 1 .. n + 1 /\ DOMAIN l = 1 .. n + 1
  OBVIOUS
<1>2. ASSUME NEW i \in 1 .. n, l[i].kind = "link", l[i].phase \in {"down", "link_body"},
             Silent(l, i, n), Teller(l[n + 1]) \/ News(l[n + 1], n + 1, r2, res2)
      PROVE  Told(l, i, r2, res2)
  <2>1. n + 1 \in i .. Len(l) /\ (n + 1) - 1 = n /\ n + 1 = Len(l)
    BY <1>1
  <2>2. ToldBy(l, i, n + 1, r2, res2)
    BY <1>2, <2>1 DEF ToldBy
  <2>. QED  BY <1>2, <2>1, <2>2 DEF Told
<1>3. ASSUME NEW i \in 1 .. n, l[i].lost, k[i].lost
      PROVE  Told(l, i, r2, res2)
  <2>1. i \in DOMAIN k
    BY <1>1
  <2>2. Told(k, i, r, res)
    BY <1>3, <2>1 DEF DropsTold
  <2>3. \/ Told(l, i, r2, res2)
        \/ /\ l[i].kind = "link" /\ l[i].phase \in {"down", "link_body"} /\ Silent(l, i, n)
           /\ Silent(k, i, n) /\ (Teller(k[n + 1]) \/ News(k[n + 1], n + 1, r, res))
    <3>1. \A j \in 1 .. n : Alike(l[j], k[j])
      OBVIOUS
    <3>. HIDE DEF n
    <3>. QED  BY <1>1, <2>2, <3>1, StillTold
  <2>. QED  BY <1>1, <1>2, <1>3, <2>3
<1>4. ASSUME NEW i \in 1 .. n, l[i].lost, ~k[i].lost
      PROVE  Told(l, i, r2, res2)
  BY <1>1, <1>2, <1>4
<1>5. l[n + 1].lost => Told(l, n + 1, r2, res2)
  <2>1. n + 1 \in n + 1 .. Len(l) /\ (n + 1) - 1 = n /\ n + 1 = Len(l)
    BY <1>1
  <2>2. Silent(l, n + 1, n)
    BY <1>1 DEF Silent
  <2>3. News(l[n + 1], n + 1, r2, res2) => ToldBy(l, n + 1, n + 1, r2, res2)
    BY <2>1, <2>2 DEF ToldBy
  <2>. QED  BY <1>1, <2>1, <2>3 DEF Told
<1>6. ASSUME NEW i \in DOMAIN l, l[i].lost
      PROVE  Told(l, i, r2, res2)
  <2>1. i \in 1 .. n \/ i = n + 1
    BY <1>1
  <2>. QED  BY <1>3, <1>4, <1>5, <1>6, <2>1
<1>. QED  BY <1>6 DEF DropsTold

\* An answer, or an emptied slot, that is news again if there was any.
LEMMA AnswerTells ==
  ASSUME NEW k \in Seq(Entries), NEW r, NEW res, NEW r2, NEW res2, DropsTold(k, r, res),
         k # <<>> /\ News(k[Len(k)], Len(k), r, res) => News(k[Len(k)], Len(k), r2, res2)
  PROVE  DropsTold(k, r2, res2)
<1>1. ASSUME NEW i \in DOMAIN k, k[i].lost
      PROVE  Told(k, i, r2, res2)
  <2>1. Told(k, i, r, res) /\ k # <<>>
    BY <1>1 DEF DropsTold
  <2>2. ASSUME NEW p \in i .. Len(k), ToldBy(k, i, p, r, res)
        PROVE  ToldBy(k, i, p, r2, res2)
    BY <2>1, <2>2 DEF ToldBy
  <2>. QED  BY <2>1, <2>2 DEF Told
<1>. QED  BY <1>1 DEF DropsTold

\* A new node is pushed where there is no news.
LEMMA PushTells ==
  ASSUME NEW k \in Seq(Entries), NEW e \in Entries, ~e.lost, NEW r, NEW res, NEW res2,
         DropsTold(k, r, res), k # <<>> => ~News(k[Len(k)], Len(k), r, res)
  PROVE  DropsTold(Append(k, e), r, res2)
<1>. DEFINE l == Append(k, e)
<1>1. /\ Len(k) \in Nat /\ DOMAIN l = 1 .. Len(k) + 1 /\ Len(l) = Len(k) + 1 /\ DOMAIN k = 1 .. Len(k)
      /\ \A i \in 1 .. Len(k) : l[i] = k[i]
      /\ l[Len(k) + 1] = e
  OBVIOUS
<1>. HIDE DEF l
<1>2. ASSUME NEW i \in DOMAIN l, l[i].lost
      PROVE  Told(l, i, r, res2)
  <2>1. i \in 1 .. Len(k) /\ i \in DOMAIN k /\ l[i] = k[i]
    <3>1. i # Len(k) + 1
      BY <1>1, <1>2
    <3>. QED  BY <1>1, <3>1
  <2>2. Told(k, i, r, res) /\ k # <<>>
    BY <1>1, <1>2, <2>1 DEF DropsTold
  <2>3. ASSUME NEW p \in i .. Len(k), ToldBy(k, i, p, r, res)
        PROVE  p \in i .. Len(l) /\ ToldBy(l, i, p, r, res2)
    <3>1. p \in i .. Len(l) /\ l[p] = k[p] /\ \A j \in i .. p - 1 : l[j] = k[j]
      BY <1>1, <2>1
    <3>2. Silent(k, i, p - 1) /\ Teller(k[p])
      BY <2>2, <2>3 DEF ToldBy
    <3>3. Silent(l, i, p - 1)
      BY <3>1, <3>2 DEF Silent
    <3>. QED  BY <3>1, <3>2, <3>3 DEF ToldBy
  <2>. QED  BY <2>1, <2>2, <2>3 DEF Told
<1>. QED  BY <1>2 DEF DropsTold, l

\* The node on top leaves, and what it told the one below it is news there.
LEMMA PopTells ==
  ASSUME NEW k \in Seq(Entries), NodesOK(k), k # <<>>, NEW r, NEW res, NEW r2, NEW res2,
         DropsTold(k, r, res),
         LET n == Len(k)
         IN  n > 1 /\ Waiting(k[n - 1]) /\ Passes(k[n - 1]) /\ (Teller(k[n]) \/ News(k[n], n, r, res))
             => News(k[n - 1], n - 1, r2, res2)
  PROVE  DropsTold(Front(k), r2, res2)
<1>. DEFINE l == Front(k)
            n == Len(k) - 1
<1>1. /\ n \in Nat /\ Len(k) = n + 1 /\ l \in Seq(Entries) /\ Len(l) = n
      /\ DOMAIN l = 1 .. n /\ DOMAIN k = 1 .. n + 1
      /\ \A i \in 1 .. n : l[i] = k[i]
  <2>1. /\ l \in Seq(Entries) /\ Len(l) = Len(k) - 1
        /\ \A i \in 1 .. Len(k) - 1 : l[i] = k[i]
    BY Popped
  <2>. QED  BY <2>1
<1>2. n >= 1 /\ Waiting(k[n]) /\ Passes(k[n]) /\ (Teller(k[n + 1]) \/ News(k[n + 1], n + 1, r, res))
      => News(k[n], n, r2, res2)
  BY <1>1
<1>. HIDE DEF l, n
<1>3. ASSUME NEW i \in 1 .. n, l[i].lost
      PROVE  Told(l, i, r2, res2)
  <2>1. Told(k, i, r, res)
    BY <1>1, <1>3 DEF DropsTold
  <2>2. \A j \in 1 .. n : Alike(l[j], k[j])
    BY <1>1 DEF Alike
  <2>3. CASE /\ l[i].kind = "link" /\ l[i].phase \in {"down", "link_body"} /\ Silent(l, i, n)
             /\ Silent(k, i, n) /\ (Teller(k[n + 1]) \/ News(k[n + 1], n + 1, r, res))
    <3>1. n \in i .. n /\ n >= 1 /\ n \in 1 .. n /\ \A j \in i .. n - 1 : j \in i .. n
      BY <1>1
    <3>2. Waiting(k[n]) /\ Passes(k[n])
      BY <2>3, <3>1 DEF Silent
    <3>3. News(l[n], n, r2, res2)
      BY <1>1, <1>2, <2>3, <3>1, <3>2
    <3>4. Silent(l, i, n - 1)
      BY <2>3, <3>1 DEF Silent
    <3>5. ToldBy(l, i, n, r2, res2)
      BY <1>1, <3>3, <3>4 DEF ToldBy
    <3>. QED  BY <1>1, <2>3, <3>1, <3>5 DEF Told
  <2>4. \/ Told(l, i, r2, res2)
        \/ /\ l[i].kind = "link" /\ l[i].phase \in {"down", "link_body"} /\ Silent(l, i, n)
           /\ Silent(k, i, n) /\ (Teller(k[n + 1]) \/ News(k[n + 1], n + 1, r, res))
    <3>1. n \in Nat /\ Len(k) = n + 1 /\ Len(l) >= n /\ l \in Seq(Entries)
      BY <1>1
    <3>. HIDE <1>1, <1>2
    <3>. QED  BY <2>1, <2>2, <3>1, StillTold
  <2>. QED  BY <2>3, <2>4
<1>. QED  BY <1>1, <1>3 DEF DropsTold, l

\* In every run: drops are told.
TellsDrops == DropsTold(stack, report, result)

\* Where nothing on top has to do with the drops, the top may change as it likes.
QuietPhases == {"call", "plan", "head", "piped", "try", "else", "left", "right", "right_first",
                "as_written", "fallback", "predicate", "no_left_rows"}
LEMMA QuietTop ==
  ASSUME IInv, TellsDrops, stack # <<>>, Top.phase \in QuietPhases
  PROVE  ~Top.lost /\ ~Teller(Top) /\ \A r, res : ~News(Top, Here, r, res)
<1>1. ~Top.lost
  <2>1. Top.lost => Top.phase \in {"again", "down", "link_body"}
    BY AtTop, LostOnTop DEF TellsDrops
  <2>. QED  BY <2>1 DEF QuietPhases
<1>. QED  BY <1>1 DEF QuietPhases, Teller, News, ForThis, ForAbove, Failing, Waiting

LEMMA QuietBecomes ==
  ASSUME IInv, TellsDrops, stack # <<>>, Top.phase \in QuietPhases,
         NEW e, Become(e), stack' \in Seq(Entries), e.lost = Top.lost
  PROVE  TellsDrops'
<1>1. /\ stack \in Seq(Entries) /\ Here = Len(stack) /\ Here \in Nat /\ Top = stack[Here]
      /\ stack' \in Seq(Entries) /\ Len(stack') = Here /\ stack'[Here] = e
      /\ \A i \in 1 .. Here - 1 : stack'[i] = stack[i]
  <2>1. stack' = [stack EXCEPT ![Here] = e]
    BY DEF Become
  <2>. QED  BY <2>1, AtTop
<1>2. ~e.lost /\ ~Teller(Top) /\ ~News(Top, Here, report, result)
  BY QuietTop
<1>3. \A i \in 1 .. Here - 1 : Alike(stack'[i], stack[i]) /\ (stack'[i].lost => stack[i].lost)
  BY <1>1 DEF Alike
<1>. QED  BY <1>1, <1>2, <1>3, TopTells DEF TellsDrops


LEMMA QuietMoves ==
  ASSUME IInv, TellsDrops, stack # <<>>, Top.phase \in QuietPhases, NEW p, To(p),
         stack' \in Seq(Entries)
  PROVE  TellsDrops'
<1>. DEFINE e == [Top EXCEPT !.phase = p]
<1>1. e.lost = Top.lost /\ Become(e)
  BY AtTop DEF Entries, To
<1>. HIDE DEF e
<1>. QED  BY <1>1, QuietBecomes

\* eval_node: a node is pushed where there is no news; in a row's own test there is
\* none to push.
LEMMA EvalNodeTells ==
  ASSUME ~CatchingFields, IInv, TellsDrops, NEW kind \in Kinds \cup {"leaf"}, eval_node(kind)
  PROVE  TellsDrops'
<1>1. /\ stack \in Seq(Entries) /\ result = "none" /\ kind \in Asked
      /\ stack # <<>> => Top = stack[Len(stack)] /\ Fits(Top)
  BY TopIsLast DEF IInv, TypeOK, eval_node, Here, NodesOK, NodeOK
<1>2. Top.phase # "link_body"
  BY <1>1, AskedNode
<1>3. ASSUME stack # <<>>, NEW r, NEW n, News(Top, n, r, result)
      PROVE  /\ Top.kind = "over" /\ Top.phase = "body" /\ Top.own \in {"simple", "total"}
             /\ r.dropped /\ r.reader = n - 1 /\ kind = "leaf"
  <2>1. Top.phase # "done"
    <3>1. Top.phase = "done" => ~InFields
      BY <1>1, <1>3 DEF InFields, At, Fits
    <3>. QED  BY <1>1, <3>1 DEF Asked, At
  <2>2. ForAbove(Top, n, r, result)
    BY <1>1, <1>2, <1>3 DEF News, ForThis, Failing, Errors, Caught
  <2>3. /\ Top.kind = "over" /\ Top.phase = "body" /\ Top.own \in {"simple", "total"}
        /\ r.dropped /\ r.reader = n - 1
    BY <2>1, <2>2 DEF ForAbove
  <2>4. InFields
    BY <2>3 DEF InFields, At
  <2>. QED  BY <1>1, <2>3, <2>4 DEF Asked
<1>4. CASE UNCHANGED <<stack, report>> /\ result' = "E_DEPTH"
  <2>1. stack # <<>> /\ News(stack[Len(stack)], Len(stack), report, result)
        => News(stack[Len(stack)], Len(stack), report, "E_DEPTH")
    BY <1>1, <1>3 DEF News, Failing, Errors
  <2>. QED  BY <1>1, <1>4, <2>1, AnswerTells DEF TellsDrops
<1>5. CASE UNCHANGED <<stack, report>> /\ result' = "ok"
  <2>1. stack # <<>> /\ News(stack[Len(stack)], Len(stack), report, result)
        => News(stack[Len(stack)], Len(stack), report, "ok")
    BY <1>1, <1>3 DEF News, ForAbove
  <2>. QED  BY <1>1, <1>5, <2>1, AnswerTells DEF TellsDrops
<1>6. CASE UNCHANGED stack /\ result' \in Caught \cup {"E_OTHER"}
  <2>1. stack # <<>> /\ News(stack[Len(stack)], Len(stack), report, result)
        => News(stack[Len(stack)], Len(stack), report', result')
    BY <1>1, <1>3, <1>6 DEF News, Failing, Errors
  <2>. QED  BY <1>1, <1>6, <2>1, AnswerTells DEF TellsDrops
<1>7. CASE kind # "leaf" /\ stack' = Append(stack, Node(kind)) /\ UNCHANGED report
  <2>. DEFINE e == Node(kind)
  <2>1. InFields \in BOOLEAN /\ (InFields => kind = "guard") /\ kind \in Kinds
    BY <1>1, <1>7 DEF InFields, Asked, Kinds
  <2>2. e \in Entries /\ ~e.lost
    <3>1. e \in Entries
      BY <1>1, <2>1, NewNode
    <3>2. ~e.lost
      BY DEF Node
    <3>. QED  BY <3>1, <3>2
  <2>. HIDE DEF e
  <2>3. stack' = Append(stack, e) /\ report' = report
    BY <1>7 DEF e
  <2>4. stack # <<>> => ~News(stack[Len(stack)], Len(stack), report, result)
    BY <1>1, <1>3, <1>7
  <2>5. DropsTold(Append(stack, e), report, result')
    BY <1>1, <2>2, <2>4, PushTells DEF TellsDrops
  <2>. QED  BY <2>3, <2>5 DEF TellsDrops
<1>. QED  BY <1>4, <1>5, <1>6, <1>7 DEF eval_node

\* An error on its way.
LEMMA FailTells ==
  ASSUME IInv, TellsDrops, Fail
  PROVE  TellsDrops'
<1>1. /\ stack # <<>> /\ stack' = Front(stack) /\ result' = result /\ result \in Errors
  BY DEF Fail, Leave
<1>2. \A e, p : Waiting(e) => News(e, p, report', result')
  BY <1>1 DEF News, Failing
<1>3. DropsTold(Front(stack), report', result')
  BY <1>1, <1>2, AtTop, PopTells DEF TellsDrops
<1>. QED  BY <1>1, <1>3 DEF TellsDrops

\* What was asked for has its value: a row's test changes nothing about the news.
LEMMA ResumeTells ==
  ASSUME IInv, TellsDrops, Resume
  PROVE  TellsDrops'
<1>1. /\ UNCHANGED <<stack, report>> /\ result = "ok" /\ result' = "none"
      /\ Top.phase \in {"run", "body", "rows", "predicate"} /\ stack \in Seq(Entries)
  BY DEF Resume, IInv, TypeOK
<1>2. stack # <<>> /\ News(stack[Len(stack)], Len(stack), report, result)
      => News(stack[Len(stack)], Len(stack), report, "none")
  BY <1>1, TopIsLast DEF News, ForThis, ForAbove, Failing, Waiting, Here, Errors, Caught
<1>. QED  BY <1>1, <1>2, AnswerTells DEF TellsDrops

\* A node with its value returns it, and its report is the waiting one's.
LEMMA ReturnTells ==
  ASSUME IInv, TellsDrops, Return
  PROVE  TellsDrops'
<1>1. /\ stack' = Front(stack) /\ result' = "ok" /\ UNCHANGED report
      /\ \/ result = "none" /\ Top.phase \in {"body", "predicate", "done"}
         \/ result = "ok" /\ Top.phase \in {"try", "else"}
  BY DEF Return, Leave
<1>2. stack # <<>>
  BY <1>1, PhaseOfNode
<1>3. Teller(Top) \/ News(Top, Here, report, result)
      => report.dropped /\ report.reader = Here - 1
  BY <1>1 DEF Teller, News, ForThis, ForAbove, Failing, Waiting, Errors, Caught
<1>4. \A e : Waiting(e) /\ Passes(e) /\ report.dropped /\ report.reader = Here - 1
        => News(e, Here - 1, report, "ok")
  BY DEF News, ForThis
<1>5. DropsTold(Front(stack), report, "ok")
  BY <1>2, <1>3, <1>4, AtTop, PopTells DEF TellsDrops
<1>. QED  BY <1>1, <1>5 DEF TellsDrops

\* Between a call and its sources nothing is told, and nothing was.
LEMMA QuietTells ==
  ASSUME IInv, TellsDrops, stack' \in Seq(Entries),
         \/ FallBack \/ eval_call \/ PlanOverJoin
         \/ \E preset \in BOOLEAN : filter_plan(preset) \/ link_head(preset)
         \/ link_hand_down \/ LeftAsWritten
  PROVE  TellsDrops'
<1>1. Top.phase \in QuietPhases /\ stack # <<>>
  <2>1. Top.phase \in QuietPhases
    BY DEF FallBack, eval_call, PlanOverJoin, filter_plan, link_head, link_hand_down, LeftAsWritten,
           At, QuietPhases
  <2>. QED  BY <2>1, PhaseOfNode DEF QuietPhases
<1>2. Top \in Entries
  BY <1>1, AtTop
<1>3. CASE FallBack \/ eval_call \/ link_hand_down
  <2>1. \E p : To(p)
    BY <1>3 DEF FallBack, eval_call, link_hand_down
  <2>. QED  BY <1>1, <2>1, QuietMoves
<1>4. CASE \E preset \in BOOLEAN : filter_plan(preset)
  <2>. DEFINE e == [Top EXCEPT !.phase = "source", !.had = handed # Nothing]
  <2>1. Become(e) /\ e.lost = Top.lost
    BY <1>2, <1>4 DEF filter_plan, Entries
  <2>. HIDE DEF e
  <2>. QED  BY <1>1, <2>1, QuietBecomes
<1>5. CASE PlanOverJoin
  <2>. DEFINE had == handed # Nothing
              first(own) == [filter |-> Here, own |-> own, above |-> 0]
              e(own, over, readsK, unobserved) ==
                [Top EXCEPT !.phase = "source", !.had = had, !.own = own,
                            !.over = over, !.readsK = readsK, !.unobserved = unobserved]
  <2>1. PICK own \in IF OneChain THEN Predicates ELSE Within,
             over, readsK, unobserved \in BOOLEAN :
          /\ (over /\ own # "blocked") \/ (own = "blocked" /\ ~readsK)
          /\ ((over /\ own # "blocked") /\ ~had) \/ ~unobserved
          /\ Become(e(own, over, readsK, unobserved))
          /\ handed' = IF over /\ own # "blocked"
                       THEN [stages |-> <<first(own)>> \o handed.stages,
                             deep |-> Deep(had, unobserved, readsK)]
                       ELSE Nothing
          /\ \/ right_null' = (over /\ ~(over /\ own # "blocked") /\ ~had)
             \/ UNCHANGED right_null
    BY <1>5 DEF PlanOverJoin
  <2>2. e(own, over, readsK, unobserved).lost = Top.lost
    BY <1>2 DEF Entries
  <2>. HIDE DEF e
  <2>. QED  BY <1>1, <2>1, <2>2, QuietBecomes
<1>6. CASE \E preset \in BOOLEAN : link_head(preset)
  <2>1. PICK p, stages, deep, equi, left :
          Become([Top EXCEPT !.phase = p, !.stages = stages, !.deep = deep, !.equi = equi, !.left = left])
    BY ZenonT(30), <1>6 DEF link_head
  <2>. DEFINE e == [Top EXCEPT !.phase = p, !.stages = stages, !.deep = deep, !.equi = equi, !.left = left]
  <2>2. Become(e) /\ e.lost = Top.lost
    BY <1>2, <2>1 DEF Entries
  <2>. HIDE DEF e
  <2>. QED  BY <1>1, <2>2, QuietBecomes
<1>7. CASE LeftAsWritten
  <2>. DEFINE e == [Top EXCEPT !.phase = "as_written", !.err = result]
  <2>1. Become(e) /\ e.lost = Top.lost
    BY <1>2, <1>7 DEF LeftAsWritten, Entries
  <2>. HIDE DEF e
  <2>. QED  BY <1>1, <2>1, QuietBecomes
<1>. QED  BY <1>3, <1>4, <1>5, <1>6, <1>7

\* Nor by an error that a node raises itself.
LEMMA RaisedTells ==
  ASSUME IInv, TellsDrops, BadBinder \/ RightErrorStands
  PROVE  TellsDrops'
<1>1. UNCHANGED <<stack, report>> /\ Top.phase \in QuietPhases
  BY DEF BadBinder, RightErrorStands, At, QuietPhases
<1>2. stack # <<>>
  BY <1>1, PhaseOfNode DEF QuietPhases
<1>3. ~News(stack[Len(stack)], Len(stack), report, result)
  BY <1>1, <1>2, AtTop, QuietTop
<1>4. DropsTold(stack, report', result')
  BY <1>2, <1>3, AtTop, AnswerTells DEF TellsDrops
<1>. QED  BY <1>1, <1>4 DEF TellsDrops

\* The node on top becomes another that has lost nothing itself.
LEMMA TopBecomes ==
  ASSUME IInv, TellsDrops, stack # <<>>, NEW e, Become(e), stack' \in Seq(Entries),
         Teller(Top) \/ News(Top, Here, report, result) => Teller(e) \/ News(e, Here, report', result'),
         e.lost => /\ e.kind = "link"
                   /\ e.phase = "again" \/ (e.phase \in {"down", "link_body"} /\ News(e, Here, report', result'))
  PROVE  TellsDrops'
<1>1. /\ stack \in Seq(Entries) /\ Here = Len(stack) /\ Here \in Nat /\ Top = stack[Here]
      /\ Len(stack') = Here /\ stack'[Here] = e
      /\ \A i \in 1 .. Here - 1 : stack'[i] = stack[i]
  <2>1. stack' = [stack EXCEPT ![Here] = e]
    BY DEF Become
  <2>. QED  BY <2>1, AtTop
<1>2. \A i \in 1 .. Here - 1 : Alike(stack'[i], stack[i]) /\ (stack'[i].lost => stack[i].lost)
  BY <1>1 DEF Alike
<1>. QED  BY <1>1, <1>2, TopTells DEF TellsDrops

\* filter_rows passes on the report it reads, or tests its rows itself.
LEMMA FilterRowsTells ==
  ASSUME IInv, TellsDrops, filter_rows, stack' \in Seq(Entries)
  PROVE  TellsDrops'
<1>. DEFINE e == [Node(Top.kind) EXCEPT !.phase = IF Rest = "none" THEN "done" ELSE "body",
                                        !.own = IF Rest = "total" THEN Rest ELSE Top.own,
                                        !.read = report.reader]
<1>1. /\ Top.kind \in {"over", "filter"} /\ Top.phase = "source" /\ result = "ok"
      /\ Become(e) /\ result' = "none"
      /\ report' = IF Top.had /\ report # NoReport
                   THEN [report EXCEPT !.reader = Here - 1, !.rest = "any"]
                   ELSE NoReport
  BY DEF filter_rows
<1>2. stack # <<>> /\ report \in [reader : Nat, dropped : BOOLEAN, errored : BOOLEAN, rest : {"any", "total", "none"}]
  BY <1>1, PhaseOfNode DEF IInv, TypeOK
<1>3. /\ ~e.lost /\ e.kind = Top.kind /\ e.phase = IF Rest = "none" THEN "done" ELSE "body"
      /\ e.own = IF Rest = "total" THEN "total" ELSE Top.own
  BY DEF Node
<1>. HIDE DEF e
<1>4. ASSUME Teller(Top) \/ News(Top, Here, report, result)
      PROVE  News(e, Here, report', result')
  <2>1. Top.kind = "over" /\ Top.had /\ Top.own = "simple" /\ report.dropped
    BY <1>1, <1>4 DEF Teller, News, ForThis, ForAbove, Failing, Waiting, Passes, Errors, Caught
  <2>2. report' = [report EXCEPT !.reader = Here - 1, !.rest = "any"]
    BY <1>1, <2>1 DEF NoReport
  <2>3. report'.dropped /\ report'.reader = Here - 1
    BY <1>2, <2>1, <2>2
  <2>. QED  BY <1>1, <1>3, <2>1, <2>3 DEF News, ForAbove
<1>. QED  BY <1>1, <1>2, <1>3, <1>4, TopBecomes

\* A join whose left source is read has its report there.
LEMMA SourcesTells ==
  ASSUME IInv, TellsDrops, Sources, stack' \in Seq(Entries)
  PROVE  TellsDrops'
<1>1. /\ Top.kind = "link" /\ result = "ok" /\ result' = "none" /\ report' = report
      /\ \/ Top.phase \in {"left", "right"} /\ \E p : To(p)
         \/ Top.phase = "down" /\ To("link_body")
  BY DEF Sources
<1>2. stack # <<>>
  BY <1>1, PhaseOfNode
<1>3. CASE Top.phase \in {"left", "right"}
  BY <1>1, <1>2, <1>3, QuietMoves DEF QuietPhases
<1>4. CASE Top.phase = "down"
  <2>. DEFINE e == [Top EXCEPT !.phase = "link_body"]
  <2>1. /\ Become(e) /\ e.kind = "link" /\ e.phase = "link_body" /\ e.equi = Top.equi
        /\ e.stages = Top.stages /\ e.lost = Top.lost
    BY <1>1, <1>2, <1>4, AtTop DEF To, Entries
  <2>. HIDE DEF e
  <2>2. Teller(Top) \/ News(Top, Here, report, result) => News(e, Here, report', result')
    BY <1>1, <1>4, <2>1 DEF Teller, News, ForThis, ForAbove, Failing, Waiting, Passes, Errors, Caught
  <2>3. Top.lost => News(Top, Here, report, result)
    BY <1>2, <1>4, AtTop, LostOnTop DEF TellsDrops
  <2>. QED  BY <1>2, <2>1, <2>2, <2>3, TopBecomes
<1>. QED  BY <1>1, <1>3, <1>4

\* A join that is told of drops reads its left source again or passes it on.
LEMMA LinkBodyTells ==
  ASSUME IInv, TellsDrops, link_body, stack' \in Seq(Entries)
  PROVE  TellsDrops'
<1>1. /\ Top.kind = "link" /\ Top.phase = "link_body" /\ result = "none" /\ stack # <<>>
      /\ ~Teller(Top)
  BY PhaseOfNode DEF link_body, At, Teller
<1>2. Top \in Entries /\ (Top.lost => News(Top, Here, report, result))
  BY <1>1, AtTop, LostOnTop DEF TellsDrops
<1>3. News(Top, Here, report, result) => report.dropped /\ Top.equi /\ Top.stages # <<>>
  BY <1>1 DEF News, ForThis, ForAbove, Failing, Waiting, Passes, Errors, Caught
<1>4. CASE To("again")
  <2>. DEFINE e == [Top EXCEPT !.phase = "again"]
  <2>1. Become(e) /\ e.kind = "link" /\ e.phase = "again"
    BY <1>1, <1>2, <1>4 DEF To, Entries
  <2>. HIDE DEF e
  <2>2. Teller(e)
    BY <2>1 DEF Teller
  <2>. QED  BY <1>1, <2>1, <2>2, TopBecomes
<1>5. CASE ~report.dropped /\ Become(GoOn("no_left_rows", FALSE, Top.lost))
  <2>. DEFINE e == GoOn("no_left_rows", FALSE, Top.lost)
  <2>1. Become(e) /\ e.lost = Top.lost
    BY <1>2, <1>5 DEF GoOn, Entries
  <2>. HIDE DEF e
  <2>. QED  BY <1>1, <1>2, <1>3, <1>5, <2>1, TopBecomes
<1>6. ASSUME NEW p \in Joins, NEW n \in Walks,
             Become([GoOn(p, report.dropped, FALSE) EXCEPT !.walk = n])
      PROVE  TellsDrops'
  <2>. DEFINE e == [GoOn(p, report.dropped, FALSE) EXCEPT !.walk = n]
  <2>1. /\ Become(e) /\ e.kind = "link" /\ e.phase = p /\ e.stages = Top.stages
        /\ e.below = report.dropped /\ e.lost = FALSE
    BY <1>1, <1>2, <1>6 DEF GoOn, Entries
  <2>. HIDE DEF e
  <2>2. News(Top, Here, report, result) => Teller(e)
    BY <1>3, <2>1 DEF Joins, Teller
  <2>. QED  BY <1>1, <2>1, <2>2, TopBecomes
<1>. QED  BY <1>4, <1>5, <1>6 DEF link_body

\* From here the rows are as written, and no node up to a reader of all its rows has
\* lost any.
LEMMA AsWrittenTells ==
  ASSUME IInv, TellsDrops, stack # <<>>, NEW e, AsWritten(e), stack' \in Seq(Entries), ~e.lost
  PROVE  TellsDrops'
<1>1. /\ stack \in Seq(Entries) /\ Here = Len(stack) /\ Here \in Nat /\ Here >= 1
      /\ DOMAIN stack = 1 .. Here
  BY AtTop
<1>2. stack' = [i \in DOMAIN stack |-> IF i = Here THEN e
                                      ELSE IF i \in Chain THEN [stack[i] EXCEPT !.lost = FALSE]
                                      ELSE stack[i]]
  BY DEF AsWritten
<1>3. Len(stack') = Here /\ stack'[Here] = e
  BY <1>1, <1>2
<1>4. ASSUME NEW i \in 1 .. Here - 1
      PROVE  /\ Alike(stack'[i], stack[i])
             /\ stack'[i].lost => stack[i].lost /\ ~Silent(stack, i, Here - 1)
  <2>1. stack[i] \in Entries /\ i # Here /\ i \in DOMAIN stack
    BY <1>1
  <2>2. CASE i \in Chain
    <3>1. stack'[i] = [stack[i] EXCEPT !.lost = FALSE]
      BY <1>2, <2>1, <2>2
    <3>2. Alike(stack'[i], stack[i]) /\ stack'[i].lost = FALSE
      BY <2>1, <3>1 DEF Alike, Entries
    <3>. QED  BY <3>2
  <2>3. CASE i \notin Chain
    <3>1. stack'[i] = stack[i]
      BY <1>2, <2>1, <2>3
    <3>2. ~Silent(stack, i, Here - 1)
      BY <2>3 DEF Chain, Silent
    <3>. QED  BY <3>1, <3>2 DEF Alike
  <2>. QED  BY <2>2, <2>3
<1>. QED  BY <1>1, <1>3, <1>4, TopTells DEF TellsDrops

\* ... read again, or the right side is empty whatever the left one holds.
LEMMA ReadAgainTells ==
  ASSUME IInv, TellsDrops, ReadAgain, stack' \in Seq(Entries)
  PROVE  TellsDrops'
<1>1. Top.phase = "again"
  BY DEF ReadAgain, At
<1>2. stack # <<>>
  BY <1>1, PhaseOfNode
<1>3. PICK p \in Joins \cup {"no_left_rows"}, n \in Walks :
        AsWritten([GoOn(p, FALSE, FALSE) EXCEPT !.walk = n])
  BY DEF ReadAgain
<1>. DEFINE e == [GoOn(p, FALSE, FALSE) EXCEPT !.walk = n]
<1>4. AsWritten(e) /\ e.lost = FALSE
  <2>1. e.lost = FALSE
    BY <1>2, AtTop DEF GoOn, Entries
  <2>. QED  BY <1>3, <2>1
<1>. HIDE DEF e
<1>. QED  BY <1>2, <1>4, AsWrittenTells

LEMMA NoRowsTells ==
  ASSUME IInv, TellsDrops, NoRows, stack' \in Seq(Entries)
  PROVE  TellsDrops'
<1>1. Top.phase \in {"no_left_rows", "no_right_rows"}
  BY DEF NoRows
<1>2. stack # <<>>
  BY <1>1, PhaseOfNode
<1>3. CASE Top.phase = "no_left_rows"
  <2>1. To("done")
    BY <1>3 DEF NoRows
  <2>. QED  BY <1>2, <1>3, <2>1, QuietMoves DEF QuietPhases
<1>4. CASE Top.phase = "no_right_rows"
  <2>. DEFINE e == [Top EXCEPT !.phase = "done"]
  <2>1. AsWritten(e) /\ e.lost = Top.lost
    BY <1>2, <1>4, AtTop DEF NoRows, Entries
  <2>2. ~Top.lost
    BY <1>2, <1>4, AtTop, LostOnTop DEF TellsDrops
  <2>. HIDE DEF e
  <2>. QED  BY <1>2, <2>1, <2>2, AsWrittenTells
<1>. QED  BY <1>1, <1>3, <1>4

\* A row is asked a conjunct: the join has yet to report.
LEMMA AskTells ==
  ASSUME IInv, TellsDrops, Ask, stack' \in Seq(Entries)
  PROVE  TellsDrops'
<1>. DEFINE e == [Top EXCEPT !.phase = "verdict"]
<1>1. /\ Top.kind = "link" /\ Top.phase = "rows" /\ result = "none" /\ Become(e)
  BY DEF Ask, At, To
<1>2. stack # <<>>
  BY <1>1, PhaseOfNode
<1>3. /\ e.kind = "link" /\ e.phase = "verdict" /\ e.stages = Top.stages
      /\ e.dropped = Top.dropped /\ e.below = Top.below /\ e.lost = Top.lost
  BY <1>1, <1>2, AtTop DEF Entries
<1>. HIDE DEF e
<1>4. ~Top.lost
  BY <1>1, <1>2, AtTop, LostOnTop DEF TellsDrops
<1>5. Teller(Top) \/ News(Top, Here, report, result) => Teller(e)
  BY <1>1, <1>3 DEF Teller, News, ForThis, ForAbove, Failing, Waiting, Errors, Caught
<1>. QED  BY <1>1, <1>2, <1>3, <1>4, <1>5, TopBecomes

\* The nodes between a FILTER on the way and the join that drops a row of its
\* conjunct wait and pass on what they are told.
LEMMA LosersPass ==
  ASSUME IInv, stack # <<>>, NEW n \in 1 .. Top.walk, NEW i \in Losing(Top.stages[n])
  PROVE  /\ i \in 1 .. Here - 1 /\ stack[i].kind = "link" /\ stack[i].phase = "down"
         /\ Silent(stack, i, Here - 1) /\ Top.stages # <<>>
<1>. DEFINE s == Top.stages
<1>1. /\ s \in Seq(Stage) /\ Way(stack, s, Here - 1) /\ Here \in Nat /\ Here >= 1 /\ Here - 1 \in Nat
      /\ Top.walk \in Nat /\ Top.walk <= Len(s) /\ Walked(s, Top.walk)
  BY AtTop DEF Entries, NodeOK, Fits
<1>. HIDE DEF s
<1>2. /\ Len(s) \in Nat /\ DOMAIN s = 1 .. Len(s)
      /\ \A m \in DOMAIN s : s[m].filter \in Nat /\ s[m].filter >= 1 /\ s[m].filter <= Here - 1
  BY <1>1, WayPlaces
<1>3. n \in DOMAIN s /\ n \in Nat /\ \A m \in 1 .. n - 1 : m \in DOMAIN s /\ s[m].own = "simple"
  BY <1>1, <1>2 DEF Walked
<1>4. i \in s[n].filter + 1 .. Here - 1 /\ stack[i].kind = "link"
  BY DEF Losing, s
<1>5. StageOn(stack, s, Here - 1, n)
  BY <1>1, <1>3 DEF Way
<1>6. ASSUME NEW j \in i .. Here - 1
      PROVE  Waiting(stack[j]) /\ Passes(stack[j])
  <2>1. j \in s[n].filter .. Here - 1 /\ j # s[n].filter
    BY <1>2, <1>3, <1>4
  <2>2. /\ Waiting(stack[j])
        /\ stack[j].kind = "over" => \E m \in 1 .. n : s[m].filter = j
        /\ stack[j].kind = "link" => stack[j].stages # <<>> /\ stack[j].equi
    BY <1>5, <2>1 DEF StageOn
  <2>3. CASE stack[j].kind = "over"
    <3>1. PICK m \in 1 .. n : s[m].filter = j
      BY <2>2, <2>3
    <3>2. m # n /\ m \in 1 .. n - 1 /\ m < Len(s)
      BY <1>2, <1>3, <2>1, <3>1
    <3>3. StageOn(stack, s, Here - 1, m) /\ s[m].own = "simple"
      BY <1>1, <1>3, <3>2 DEF Way
    <3>4. stack[j].had /\ stack[j].own = "simple"
      BY <3>1, <3>2, <3>3 DEF StageOn
    <3>. QED  BY <2>2, <2>3, <3>4 DEF Passes
  <2>4. CASE stack[j].kind = "link"
    BY <2>2, <2>4 DEF Passes
  <2>. QED  BY <2>2, <2>3, <2>4 DEF Waiting
<1>7. i \in i .. Here - 1 /\ i \in 1 .. Here - 1
  BY <1>2, <1>3, <1>4
<1>8. Waiting(stack[i])
  BY <1>6, <1>7
<1>9. Top.stages # <<>>
  BY <1>2, <1>3 DEF s
<1>. QED  BY <1>4, <1>6, <1>7, <1>8, <1>9 DEF Silent, Waiting

\* A join that drops a row has yet to report that it did.
LEMMA VerdictTells ==
  ASSUME IInv, TellsDrops, join_verdict, stack' \in Seq(Entries)
  PROVE  TellsDrops'
<1>1. Top.kind = "link" /\ Top.phase = "verdict"
  BY DEF join_verdict, At
<1>2. stack # <<>>
  BY <1>1, PhaseOfNode
<1>3. /\ stack \in Seq(Entries) /\ Here = Len(stack) /\ Here \in Nat /\ Here >= 1
      /\ DOMAIN stack = 1 .. Here /\ Top \in Entries /\ ~Top.lost
  BY <1>1, <1>2, AtTop, LostOnTop DEF TellsDrops
<1>4. \A r, res : ~News(Top, Here, r, res)
  BY <1>1 DEF News, ForThis, ForAbove, Failing, Waiting
<1>5. ASSUME NEW e, Become(e), ~e.lost, Teller(Top) => Teller(e)
      PROVE  TellsDrops'
  BY <1>2, <1>4, <1>5, TopBecomes
<1>6. CASE To("rows")
  <2>. DEFINE e == [Top EXCEPT !.phase = "rows"]
  <2>1. /\ Become(e) /\ e.lost = Top.lost /\ e.kind = "link" /\ e.phase = "rows"
        /\ e.dropped = Top.dropped /\ e.below = Top.below /\ e.stages = Top.stages
    BY <1>1, <1>3, <1>6 DEF To, Entries
  <2>. HIDE DEF e
  <2>2. Teller(Top) => Teller(e)
    BY <1>1, <2>1 DEF Teller
  <2>. QED  BY <1>3, <1>5, <2>1, <2>2
<1>7. CASE Become([Top EXCEPT !.phase = "rows", !.errored = TRUE])
  <2>. DEFINE e == [Top EXCEPT !.phase = "rows", !.errored = TRUE]
  <2>1. /\ Become(e) /\ e.lost = Top.lost /\ e.kind = "link" /\ e.phase = "rows"
        /\ e.dropped = Top.dropped /\ e.below = Top.below /\ e.stages = Top.stages
    BY <1>1, <1>3, <1>7 DEF Entries
  <2>. HIDE DEF e
  <2>2. Teller(Top) => Teller(e)
    BY <1>1, <2>1 DEF Teller
  <2>. QED  BY <1>3, <1>5, <2>1, <2>2
<1>8. ASSUME NEW n \in 1 .. Top.walk,
             stack' = [i \in DOMAIN stack |->
               IF i = Here THEN [Top EXCEPT !.phase = "rows", !.dropped = TRUE]
               ELSE IF i \in Losing(Top.stages[n])
               THEN [stack[i] EXCEPT !.lost = TRUE] ELSE stack[i]]
      PROVE  TellsDrops'
  <2>. DEFINE e == [Top EXCEPT !.phase = "rows", !.dropped = TRUE]
  <2>1. /\ ~e.lost /\ e.kind = "link" /\ e.phase = "rows" /\ e.dropped /\ e.stages = Top.stages
    BY <1>1, <1>3 DEF Entries
  <2>2. stack'[Here] = e /\ Len(stack') = Here
    BY <1>3, <1>8
  <2>. HIDE DEF e
  <2>3. Teller(Top) => Teller(e)
    BY <1>1, <2>1 DEF Teller
  <2>4. ASSUME NEW i \in 1 .. Here - 1
        PROVE  /\ Alike(stack'[i], stack[i])
               /\ stack'[i].lost =>
                    \/ stack[i].lost
                    \/ /\ stack[i].kind = "link" /\ stack[i].phase = "down"
                       /\ Silent(stack, i, Here - 1) /\ Teller(e)
    <3>1. stack[i] \in Entries /\ i # Here /\ i \in DOMAIN stack
      BY <1>3
    <3>2. CASE i \in Losing(Top.stages[n])
      <4>1. stack'[i] = [stack[i] EXCEPT !.lost = TRUE]
        BY <1>8, <3>1, <3>2
      <4>2. Alike(stack'[i], stack[i])
        BY <3>1, <4>1 DEF Alike, Entries
      <4>3. /\ stack[i].kind = "link" /\ stack[i].phase = "down"
            /\ Silent(stack, i, Here - 1) /\ Top.stages # <<>>
        BY <1>2, <3>2, LosersPass
      <4>4. Teller(e)
        BY <2>1, <4>3 DEF Teller
      <4>. QED  BY <4>2, <4>3, <4>4
    <3>3. CASE i \notin Losing(Top.stages[n])
      <4>1. stack'[i] = stack[i]
        BY <1>8, <3>1, <3>3
      <4>. QED  BY <4>1 DEF Alike
    <3>. QED  BY <3>2, <3>3
  <2>5. \A i \in 1 .. Here - 1 : Alike(stack'[i], stack[i])
    BY <2>4
  <2>6. \A i \in 1 .. Here - 1 : stack'[i].lost =>
          \/ stack[i].lost
          \/ /\ stack'[i].kind = "link" /\ stack'[i].phase = "down"
             /\ Silent(stack', i, Here - 1) /\ Teller(e)
    <3>1. ASSUME NEW i \in 1 .. Here - 1, Silent(stack, i, Here - 1)
          PROVE  Silent(stack', i, Here - 1)
      <4>1. ASSUME NEW j \in i .. Here - 1
            PROVE  Waiting(stack'[j]) /\ Passes(stack'[j])
        <5>1. j \in 1 .. Here - 1
          BY <1>3
        <5>2. Alike(stack'[j], stack[j])
          BY <2>5, <5>1
        <5>3. Waiting(stack[j]) /\ Passes(stack[j])
          BY <3>1 DEF Silent
        <5>. QED  BY <5>2, <5>3, AlikeTells
      <4>. QED  BY <4>1 DEF Silent
    <3>. QED  BY <2>4, <3>1 DEF Alike
  <2>7. Top = stack[Here] /\ stack'[Here] = e /\ DropsTold(stack, report, result)
    BY <1>2, <2>2, AtTop DEF TellsDrops
  <2>8. DropsTold(stack', report', result')
    <3>. DEFINE k == stack
                l == stack'
    <3>1. /\ k \in Seq(Entries) /\ l \in Seq(Entries) /\ k # <<>> /\ Len(l) = Len(k)
          /\ DropsTold(k, report, result) /\ Len(k) = Here
      BY <1>2, <1>3, <2>2, <2>7
    <3>2. \A i \in 1 .. Len(k) - 1 : Alike(l[i], k[i])
      BY <1>3, <2>5
    <3>3. \A i \in 1 .. Len(k) - 1 : l[i].lost =>
            \/ k[i].lost
            \/ /\ l[i].kind = "link" /\ l[i].phase = "down" /\ Silent(l, i, Len(k) - 1)
               /\ Teller(l[Len(k)])
      BY <1>3, <2>2, <2>6
    <3>4. Teller(k[Len(k)]) \/ News(k[Len(k)], Len(k), report, result) => Teller(l[Len(k)])
      BY <1>3, <1>4, <2>2, <2>3, <2>7
    <3>5. ~l[Len(k)].lost
      BY <2>1, <2>2, <3>1
    <3>. HIDE DEF k, l
    <3>6. DropsTold(l, report', result')
      BY <3>1, <3>2, <3>3, <3>4, <3>5, TopTells
    <3>. QED  BY <3>6 DEF l
  <2>. QED  BY <2>8 DEF TellsDrops
<1>. QED  BY <1>6, <1>7, <1>8 DEF join_verdict

\* What a join reports: its own drops and those below it.
LEMMA ReportTells ==
  ASSUME IInv, stack # <<>>, NEW rest, Report(rest), Teller(Top)
  PROVE  Top.phase # "again" => report'.dropped /\ report'.reader = Here - 1
BY DEF Report, Teller

LEMMA JoinedTells ==
  ASSUME IInv, TellsDrops, Joined, stack' \in Seq(Entries)
  PROVE  TellsDrops'
<1>1. /\ Top.kind = "link" /\ Top.phase = "rows" /\ result = "none"
      /\ stack' = Front(stack) /\ result' = "ok" /\ \E rest : Report(rest)
  BY DEF Joined, At, Leave
<1>2. stack # <<>>
  BY <1>1, PhaseOfNode
<1>3. ~News(Top, Here, report, result)
  BY <1>1 DEF News, ForThis, ForAbove, Failing, Waiting
<1>4. Teller(Top) => report'.dropped /\ report'.reader = Here - 1
  BY <1>1, <1>2, ReportTells
<1>5. \A e : Waiting(e) /\ Passes(e) /\ Teller(Top) => News(e, Here - 1, report', result')
  BY <1>1, <1>4 DEF News, ForThis
<1>6. DropsTold(Front(stack), report', result')
  BY <1>2, <1>3, <1>5, AtTop, PopTells DEF TellsDrops
<1>. QED  BY <1>1, <1>6 DEF TellsDrops

LEMMA NestedLoopsTells ==
  ASSUME IInv, TellsDrops, NestedLoops, stack' \in Seq(Entries)
  PROVE  TellsDrops'
<1>1. /\ Top.kind = "link" /\ result = "none" /\ result' = "none" /\ Report("any")
      /\ \/ Top.phase = "fallback" /\ To("predicate")
         \/ Top.phase = "left_rows_alone" /\ To("done")
  BY DEF NestedLoops, At
<1>2. stack # <<>>
  BY <1>1, PhaseOfNode
<1>3. CASE Top.phase = "fallback"
  BY <1>1, <1>2, <1>3, QuietMoves DEF QuietPhases
<1>4. CASE Top.phase = "left_rows_alone"
  <2>. DEFINE e == [Top EXCEPT !.phase = "done"]
  <2>1. Become(e) /\ e.kind = "link" /\ e.phase = "done" /\ e.lost = Top.lost
    BY <1>1, <1>2, <1>4, AtTop DEF To, Entries
  <2>. HIDE DEF e
  <2>2. ~Top.lost
    BY <1>2, <1>4, AtTop, LostOnTop DEF TellsDrops
  <2>3. ~News(Top, Here, report, result)
    BY <1>1, <1>4 DEF News, ForThis, ForAbove, Failing, Waiting, Errors, Caught
  <2>4. Teller(Top) => report'.dropped /\ report'.reader = Here - 1
    BY <1>1, <1>2, <1>4, ReportTells
  <2>5. Teller(Top) => News(e, Here, report', result')
    BY <1>1, <2>1, <2>4 DEF News, ForAbove
  <2>. QED  BY <1>2, <2>1, <2>2, <2>3, <2>5, TopBecomes
<1>. QED  BY <1>1, <1>3, <1>4

\* Before the first run there is nothing to tell.
LEMMA NothingLost == Init => TellsDrops
BY DEF Init, TellsDrops, DropsTold

\* Every action tells.
LEMMA NextTells ==
  ASSUME ~CatchingFields
  PROVE  IInv /\ TellsDrops /\ [Next]_vars => TellsDrops'
<1>. SUFFICES ASSUME IInv, TellsDrops, [Next]_vars
              PROVE  TellsDrops'
  OBVIOUS
<1>0. stack' \in Seq(Entries)
  BY NextOK DEF IInv, TypeOK
<1>1. ASSUME NEW kind \in Kinds \cup {"leaf"}, eval_node(kind)
      PROVE  TellsDrops'
  BY <1>1, EvalNodeTells
<1>2. CASE Fail \/ Resume \/ Return
  BY <1>2, FailTells, ResumeTells, ReturnTells
<1>3. CASE NewRun
  <2>1. stack' = <<>>
    BY <1>3 DEF NewRun
  <2>. QED  BY <2>1 DEF TellsDrops, DropsTold
<1>4. CASE \/ FallBack \/ eval_call \/ PlanOverJoin
           \/ \E preset \in BOOLEAN : filter_plan(preset) \/ link_head(preset)
           \/ link_hand_down \/ LeftAsWritten
  BY <1>0, <1>4, QuietTells
<1>5. CASE BadBinder \/ RightErrorStands
  BY <1>5, RaisedTells
<1>6. CASE filter_rows \/ Sources \/ link_body
  BY <1>0, <1>6, FilterRowsTells, SourcesTells, LinkBodyTells
<1>7. CASE ReadAgain \/ NoRows
  BY <1>0, <1>7, ReadAgainTells, NoRowsTells
<1>8. CASE Ask \/ join_verdict \/ Joined \/ NestedLoops
  BY <1>0, <1>8, AskTells, VerdictTells, JoinedTells, NestedLoopsTells
<1>9. CASE UNCHANGED vars
  BY <1>9 DEF vars, TellsDrops
<1>. QED  BY <1>1, <1>2, <1>3, <1>4, <1>5, <1>6, <1>7, <1>8, <1>9 DEF Next

\* While no conjunct of fields alone holds a ??, a LINK answers the empty list for
\* want of left rows only if none was dropped below for a conjunct it handed down
\* (link_body's second reading of its left source, structure.rs:1729).
THEOREM DropsAreReported ==
  ASSUME ~CatchingFields
  PROVE  Spec => []DropsReported
<1>1. Init => IInv /\ TellsDrops
  BY InitOK, NothingLost
<1>2. IInv /\ TellsDrops /\ [Next]_vars => (IInv /\ TellsDrops)'
  BY NextOK, NextTells
<1>3. TellsDrops => DropsReported
  BY DEF TellsDrops, DropsTold, Told, DropsReported
<1>. QED  BY <1>1, <1>2, <1>3, PTL DEF Spec
=============================================================================
