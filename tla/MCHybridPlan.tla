---------------------------- MODULE MCHybridPlan ----------------------------
EXTENDS HybridPlan, TLC

MCFields == {"a", "b", "t", "c", "k", "m", "h", "O", "C", "L", "R", "INPUT"}
MCKinds == [O |-> "a" :> "num" @@ "b" :> "num" @@ "t" :> "text", C |-> "c" :> "num" @@ "t" :> "text"]

Joining(c, t) == Row("c" :> Number(c) @@ "t" :> Text(t))
MCRight == <<Joining(1, "x"), Joining(2, "y"), Joining(1, "y")>>

X(e, f) == [e |-> e, f |-> f]
A == X("field", "a")
B == X("field", "b")
More(x, n) == [x |-> x, n |-> n, at |-> 0]
As(name, x) == [as |-> name, x |-> x]

filter(p) == [op |-> "FILTER", p |-> p, unobserved |-> FALSE, at |-> 0]
map(m) == [op |-> "MAP", m |-> m, at |-> 0]
sort_by(x) == [op |-> "SORT_BY", x |-> x, at |-> 0]
top_by(x, n) == [op |-> "TOP_BY", x |-> x, n |-> n, at |-> 0]
take(n) == [op |-> "TAKE", n |-> n, at |-> 0]
drop(n) == [op |-> "DROP", n |-> n, at |-> 0]
select_cols(cols) == [op |-> "SELECT_COLS", cols |-> cols, at |-> 0]
distinct == [op |-> "DISTINCT", at |-> 0]
bucket(x, m) == [op |-> "BUCKET", x |-> x, m |-> m, at |-> 0]
link(right, on, binders) == [op |-> "LINK", right |-> right, on |-> on, binders |-> binders, at |-> 0]

\* Each step, and each conjunct, knows where it was written.
Placed(steps) ==
  [n \in DOMAIN steps |->
     IF steps[n].op # "FILTER" THEN [steps[n] EXCEPT !.at = n]
     ELSE [steps[n] EXCEPT !.at = n, !.p = [k \in DOMAIN @ |-> [@[k] EXCEPT !.at = n]]]]

True == filter(<<More(X("true", ""), 0)>>)
Later == filter(<<More(X("key", ""), 1)>>)
Both == {True, Later, filter(<<More(A, 1)>>), filter(<<More(X("hard", "a"), 0)>>),
         map(<<As("a", A), As("m", X("calc", "b"))>>), map(<<As("a", A), As("h", X("hard", "b"))>>),
         map(<<As("a", A), As("k", X("key", ""))>>),
         sort_by(A), sort_by(X("hard", "b")), take(1), take(2), drop(1), distinct}

\* In memory, a row may lack a field it is asked for.
Physical ==
  Both \cup {filter(<<More(B, 0), More(A, 0)>>), filter(<<More(X("calc", "b"), 0)>>), map(<<As("a", A), As("b", B)>>),
             sort_by(X("key", "")), top_by(A, 1), take(0), select_cols(<<X("text", "a")>>)}
Buckets == {bucket(A, <<As("k", X("key", "")), As("m", X("count", ""))>>), bucket(A, <<>>)}

\* For SQL, it has every field; what follows a bare BUCKET asks of its groups.
Sized == <<As("a", X("key", "")), As("m", X("count", ""))>>
OverGroups == {filter(<<More(X("count", ""), 1)>>), map(Sized)}
OverRows ==
  Both \cup {filter(<<More(B, 1)>>), map(<<As("t", X("field", "t"))>>), select_cols(<<X("text", "a"), X("text", "t")>>),
             map(<<As("a", A), As("c", X("field", "c"))>>), map(<<As("m", X("calc", "b"))>>),
             bucket(A, Sized), bucket(X("field", "m"), <<As("m", X("key", ""))>>), bucket(A, <<>>),
             bucket(X("field", "t"), <<As("t", X("key", ""))>>),
             link("C", <<"a", "c">>, FALSE), link("C", <<"a", "c">>, TRUE), link("O", <<"a", "a">>, FALSE)}
Logically == OverRows \cup OverGroups

Right(s) == DOMAIN MCKinds[s.right]
FieldsAfter(fields, s) ==
  CASE s.op = "MAP" \/ (s.op = "BUCKET" /\ s.m # <<>>) -> {s.m[n].as : n \in DOMAIN s.m}
    [] s.op = "BUCKET" /\ s.m = <<>> -> {"a group"}
    [] s.op = "SELECT_COLS" -> {s.cols[n].f : n \in DOMAIN s.cols}
    [] s.op = "LINK" -> (fields \cup Right(s)) \ (fields \cap Right(s))
    [] OTHER -> fields
Asks(s) ==
  UNION {Reads(x) : x \in Expressions(s)} \cup (IF s.op = "LINK" THEN {s.on[1]} ELSE {})
    \cup (IF s.op = "SELECT_COLS" THEN {s.cols[n].f : n \in DOMAIN s.cols} ELSE {})
Suits(s, fields) ==
  IF fields = {"a group"}
  THEN s \in OverGroups \cup {Later, take(1), take(2), drop(1), distinct}
  ELSE s \notin OverGroups /\ Asks(s) \subseteq fields
Legal(p) ==
  LET fields[n \in 0..Len(p)] == IF n = 0 THEN {"a", "b", "t"} ELSE FieldsAfter(fields[n-1], p[n])
  IN  \A n \in DOMAIN p : Suits(p[n], fields[n-1])

Shorter(S) == {<<s>> : s \in S} \cup (S \X S)
ForSql(S) == {p \in Shorter(S) \cup (S \X S \X S) : Legal(p)}

(* Programs whose plans are known not to keep their answer: see the README. *)

\* A MAP that reads the key, then a sort.
KeysMoved(p) ==
  \E m, n \in DOMAIN p :
    m < n /\ p[m].op = "MAP" /\ SortStep(p[n]) /\ \E x \in Expressions(p[m]) : x.e = "key"
\* A page of sorted rows under a step that mixes them, or under another sort.
Cuts(s) == s.op \in {"TAKE", "DROP"}
PageMixed(p) ==
  \E k, m, n \in DOMAIN p :
    k < m /\ m < n /\ p[k].op = "SORT_BY" /\ Cuts(p[m]) /\ p[n].op \in {"DISTINCT", "SORT_BY", "LINK", "BUCKET"}
\* A side named INPUT.
NamedTwice(p) == \E m, n \in DOMAIN p : m < n /\ p[m].op = "LINK" /\ p[n].op = "LINK" /\ ~p[n].binders

MCPrograms ==
  [logical |-> {Placed(p) : p \in {q \in ForSql(Logically) : ~(KeysMoved(q) \/ PageMixed(q) \/ NamedTwice(q))}},
   physical |-> {Placed(p) : p \in Shorter(Physical) \cup (Physical \X Physical \X (Physical \cup Buckets))}]

\* A join the database makes, then one that is left to memory.
MCLinkedTwice ==
  [logical |-> {Placed(<<link("C", <<"a", "c">>, FALSE), map(m), link("C", <<"a", "c">>, FALSE)>>) :
                  m \in {<<As("a", A)>>, <<As("a", A), As("m", X("calc", "b"))>>}},
   physical |-> {}]

Full(a, b, t) == Row("a" :> Number(a) @@ "b" :> Number(b) @@ "t" :> Text(t))
MCTables ==
  [logical |-> {<<Full(11, 1, "x"), Full(2, 2, "y"), Full(1, 11, "x")>>},
   physical |-> {<<Full(2, 1, "x"), Full(1, 1, "x"), Full(2, 2, "x")>>,
                 <<Row("a" :> Number(2)), Row("b" :> Number(1)), Full(1, 1, "x")>>}]
=============================================================================
