---------------------------- MODULE MCValueCell ----------------------------
(* Model-checking instances of ValueCell. *)
EXTENDS ValueCell
=============================================================================
