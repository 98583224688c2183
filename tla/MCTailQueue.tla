---------------------------- MODULE MCTailQueue ----------------------------
(***************************************************************************)
(* TailQueue with a few announcers and cells, for TLC.  The supply of      *)
(* cells bounds the queue; a cell that was freed is allocated again.       *)
(***************************************************************************)
EXTENDS TailQueue, TLC

Symmetry == Permutations(Thread) \union Permutations(Cell)
=============================================================================
