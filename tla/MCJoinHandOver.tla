--------------------------- MODULE MCJoinHandOver ---------------------------
(* Model-checking instances of JoinHandOver. *)
EXTENDS JoinHandOver
=============================================================================
