----------------------------- MODULE MCJoinRows -----------------------------
EXTENDS JoinRows

\* Values: 1 in two spellings, 2, and a text that is no number.
One == [is |-> "num", n |-> 1, s |-> "1"]
OneDot == [is |-> "num", n |-> 1, s |-> "1.0"]
Two == [is |-> "num", n |-> 2, s |-> "2"]
X == [is |-> "text", s |-> "x"]

Conjunct(n, op, args, key) == [id |-> <<"conjunct", n>>, op |-> op, args |-> args, n |-> key]
Test(n, op, path, lit) == Conjunct(n, op, <<[path |-> path, lit |-> Null], [path |-> <<>>, lit |-> lit]>>, 0)
Join(outer, left, right, numeric, swapped) ==
  [outer |-> outer, left |-> left, right |-> right, numeric |-> numeric, swapped |-> swapped]
Query(joins, inner, top, unobserved) ==
  [joins |-> joins, inner |-> inner, top |-> top, unobserved |-> unobserved, cap |-> 100]
Within(cap, queries) == {[q EXCEPT !.cap = cap] : q \in queries}
Over(queries, tables) == [queries |-> queries, tables |-> tables]
UpTo(S, n) == UNION {[1..m -> S] : m \in 0..n}

\* What the FILTERs ask: of a left row, of a right row, of a field of the last
\* table, and of the joined row's key.
LeftText == Test(1, "text", <<"f">>, X)
LeftNum == Test(2, "num", <<"f">>, One)
RightText == Test(3, "text", <<"B", "g">>, X)
RightNull == Conjunct(4, "is_null", <<[path |-> <<"_2", "g">>, lit |-> Null]>>, 0)
Second == Conjunct(5, "key", <<>>, 2)
LastText == Test(6, "text", <<"h">>, X)
IdText == Test(9, "text", <<"id">>, Two)
InnerLeft == Test(7, "text", <<"f">>, X)
InnerRight == Test(8, "text", <<"B", "g">>, X)

\* One join: keys that are equal numbers and unlike texts, no number, or NULL;
\* fields that are missing, that raise when compared, or that both sides have.
LeftRows == {"id" :> One @@ "f" :> X, "id" :> OneDot @@ "f" :> One, "id" :> X @@ "f" :> X,
             "id" :> Null @@ "f" :> X, "id" :> One}
OtherRows == {"bid" :> One @@ "g" :> X, "bid" :> OneDot @@ "g" :> Null, "bid" :> X @@ "g" :> One,
              "bid" :> Null @@ "f" :> X}
OneTables == {[A |-> a, B |-> b, C |-> <<>>] : a \in UpTo(LeftRows, 2), b \in UpTo(OtherRows, 2)}
OneJoins == {Join(o, <<"id">>, <<"bid">>, k[1], k[2]) :
               o \in BOOLEAN, k \in {<<TRUE, FALSE>>, <<TRUE, TRUE>>, <<FALSE, FALSE>>}}
OneTops == {<<LeftText>>, <<LeftNum, RightText>>, <<RightText, LeftNum>>, <<RightNull>>, <<LeftText, Second>>}
OneQueries == {Query(<<j>>, <<>>, t, u) : j \in OneJoins, t \in OneTops, u \in BOOLEAN}

\* One join whose rows as written pass the limit, with nothing asked of left rows.
LimitQueries == {Query(<<j>>, <<>>, t, u) : j \in OneJoins, t \in {<<RightNull>>, <<Second, LeftText>>}, u \in BOOLEAN}
\* A chain of two, the upper key a field of A (which B may share) or of the B row.
ChainTables ==
  {[A |-> a, B |-> b, C |-> c] :
     a \in UpTo({"id" :> One @@ "f" :> X, "id" :> Two @@ "f" :> One, "id" :> OneDot @@ "f" :> Null, "id" :> One}, 2),
     b \in UpTo({"bid" :> One @@ "g" :> X, "bid" :> OneDot @@ "f" :> X, "bid" :> Two @@ "g" :> One}, 2),
     c \in UpTo({"cid" :> One @@ "h" :> X, "cid" :> X @@ "h" :> Null, "cid" :> X @@ "f" :> One}, 1)}
Chain(outer1, outer2, key, numeric) ==
  <<Join(outer1, <<"id">>, <<"bid">>, TRUE, FALSE), Join(outer2, key, <<"cid">>, numeric, FALSE)>>
ChainTops == {<<LeftText>>, <<IdText>>, <<LeftNum, RightText>>, <<LastText, LeftText>>, <<LeftText, Second>>}
ChainQueries ==
  {Query(Chain(o[1], o[2], k, FALSE), <<>>, t, u) :
     o \in {<<FALSE, FALSE>>, <<TRUE, FALSE>>, <<FALSE, TRUE>>}, k \in {<<"f">>, <<"B", "g">>}, t \in ChainTops, u \in BOOLEAN}
\* The same with a FILTER between the joins.
BetweenQueries ==
  {Query(Chain(o, FALSE, k, FALSE), i, t, u) :
     o \in BOOLEAN, k \in {<<"f">>, <<"B", "g">>}, i \in {<<InnerLeft>>, <<InnerRight>>}, t \in ChainTops, u \in BOOLEAN}
Kept == {Over(OneQueries, OneTables), Over(Within(2, LimitQueries), OneTables),
         Over(ChainQueries, ChainTables), Over(BetweenQueries, ChainTables)}

\* The upper key compared as a number, with a row of C it can meet.
KeyLost ==
  {Over({Query(Chain(FALSE, FALSE, <<"f">>, TRUE), <<>>, <<IdText>>, TRUE)},
        {t \in ChainTables : t.C = <<"cid" :> One @@ "h" :> X>>})}
=============================================================================
