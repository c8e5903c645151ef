---------------------------- MODULE MCCollectors ----------------------------
EXTENDS Collectors, TLC

Scalar(kind, at, spelt) == [kind |-> kind, at |-> at, spelt |-> spelt, kids |-> FALSE, deep |-> FALSE]
One == Scalar("number", 1, 0)
OneSpelt == Scalar("number", 1, 1)
Three == Scalar("number", 3, 0)
Name == Scalar("text", 1, 0)
Null == Scalar("none", 0, 0)
ListOfOne == [Scalar("none", 1, 0) EXCEPT !.kids = TRUE]
DeepOne == [ListOfOne EXCEPT !.deep = TRUE]

Call(op) == [op |-> op, keyed |-> TRUE, desc |-> FALSE, limit |-> 0, body |-> "calls",
             then |-> "none", record |-> "other"]
Bodies == {"reads", "calls", "writes"}

Over(n, values, calls) == {c @@ [n |-> n, values |-> values] : c \in calls}

\* Every call over children that bodies may write to.
CallsThatWrite ==
       {[Call("SORT") EXCEPT !.desc = d, !.body = "writes"] : d \in BOOLEAN}
  \cup {[Call("TOP") EXCEPT !.body = b, !.limit = 2] : b \in {"calls", "writes"}}
  \cup {[Call("BUCKET") EXCEPT !.body = b] : b \in {"calls", "writes"}}
  \cup {[Call("BUCKET_BY") EXCEPT !.body = b, !.then = t] : b, t \in {"calls", "writes"}}
  \cup {[Call("MAP") EXCEPT !.body = "writes", !.record = r] : r \in {"shipped", "application", "other"}}
  \cup {[Call("FILTER") EXCEPT !.body = b, !.then = t] :
          b \in {"reads", "writes"}, t \in {"reads", "writes", "none"}}

\* TOP's heap, under keys that yield anything: what they wrote before it is
\* built is above, for it reads prepared keys only.
CallsToTheHeap == {[Call("TOP") EXCEPT !.desc = d, !.limit = 1] : d \in BOOLEAN}

\* Every order of ties, for the heap and the sort.
Ties(limits) ==
  {[Call("TOP") EXCEPT !.keyed = FALSE, !.desc = d, !.limit = l] : d \in BOOLEAN, l \in limits}
CallsOfSpellings == {[Call("SORT") EXCEPT !.keyed = FALSE, !.desc = TRUE], [Call("DISTINCT") EXCEPT !.keyed = FALSE]}

MCCalls ==
       Over(3, {One, Three}, CallsThatWrite)
  \cup Over(2, {One, Name, Null, DeepOne}, CallsThatWrite)
  \cup Over(4, {One, Three}, CallsToTheHeap)
  \cup Over(8, {One, Name}, Ties({2, 3}))
  \cup Over(4, {One, OneSpelt, Name, ListOfOne}, Ties({1, 2}) \cup CallsOfSpellings)
=============================================================================
