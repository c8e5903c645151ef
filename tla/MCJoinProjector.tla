--------------------------- MODULE MCJoinProjector ---------------------------
EXTENDS JoinProjector

MCFold == [k \in {"A", "a", "b", "x", "X", "_1", "_2"} |->
             CASE k = "A" -> "a" [] k = "X" -> "x" [] OTHER -> k]

OfKeys(keys, shaped) == {[keys |-> keys, at |-> f, shaped |-> shaped] : f \in [ToSet(keys) -> FieldKind]}

\* Left rows with a field some right rows have in another case and one they may
\* share; one carries what a join below bound as "_1", one has no shape.
MCLeftRow == {t \in OfKeys(<<"b", "x">>, TRUE) \cup OfKeys(<<"_1", "x">>, TRUE) : t.at[t.keys[1]] # "null"}
             \cup {[keys |-> <<"b", "x">>, at |-> ("b" :> "scalar" @@ "x" :> "record"), shaped |-> FALSE]}
MCRightRow == {t \in OfKeys(<<"X", "b">>, TRUE) : t.at["X"] # "null"}
              \cup {[keys |-> <<"A">>, at |-> ("A" :> "scalar"), shaped |-> TRUE]}
Unwritten ==
  [names |-> <<"A", "_2">>, changes |-> {}, left |-> {<<p, q>> : p, q \in MCLeftRow},
   right |-> {<<>>} \cup {<<p, q>> : p, q \in MCRightRow}]

\* Fewer, for bodies that write; the binders are then "_1" and "_2", under which a
\* join binds an element itself and no copy that carries its name.
Written ==
  [names |-> <<"_1", "_2">>, left |-> {<<p, q>> : p, q \in OfKeys(<<"x">>, TRUE)},
   right |-> {<<p, q>> : p, q \in OfKeys(<<"X">>, TRUE) \cup OfKeys(<<"b">>, TRUE)},
   changes |-> {<<"scalar", "record">>, <<"null", "record">>, <<"record", "scalar">>, <<"null", "scalar">>}]
MCCases == {Unwritten, Written}
==============================================================================
