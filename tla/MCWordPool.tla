----------------------------- MODULE MCWordPool -----------------------------
(* Files for the three workers of WordPool: one file, fewer files than     *)
(* workers, and more, each with little data and with enough to make main   *)
(* wait for workers; the sizes are in blocks.                              *)
EXTENDS WordPool

MCInputs == {<<2>>, <<4>>, <<1, 1>>, <<3, 1>>, <<1, 1, 1, 1, 1>>}
=============================================================================
