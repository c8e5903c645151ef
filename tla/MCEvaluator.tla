---------------------------- MODULE MCEvaluator ----------------------------
(* Model-checking instance of Evaluator: every program up to the depth limit. *)
EXTENDS Evaluator
=============================================================================
