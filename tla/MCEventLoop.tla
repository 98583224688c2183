---------------------------- MODULE MCEventLoop ----------------------------
(***************************************************************************)
(* EventLoop on small sets, for TLC.                                       *)
(***************************************************************************)
EXTENDS EventLoop, TLC

Symmetry == Permutations(Thread) \union Permutations(Handler)
=============================================================================
