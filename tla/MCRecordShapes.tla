--------------------------- MODULE MCRecordShapes ---------------------------
(* Two threads over rows of two keys, in both orders, which a binder z may join. *)
EXTENDS RecordShapes

CONSTANTS t1, t2, x, y, z

MCThreads == {t1, t2}
MCLayouts == {<<x, y>>, <<y, x>>, <<x, y, z>>, <<y, x, z>>}
MCOversized == {<<y, x, z>>}
MCNodeKey == (t1 :> y @@ t2 :> z)
=============================================================================
