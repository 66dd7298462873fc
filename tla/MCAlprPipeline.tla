--------------------------- MODULE MCAlprPipeline ---------------------------
(* Model-checking instances of AlprPipeline. *)
EXTENDS AlprPipeline

CONSTANTS w1, w2

OneWorker == {w1}
TwoWorkers == {w1, w2}
=============================================================================
