----------------------------- MODULE MCWordTable -----------------------------
(* The table of WordTable with a given hash: a and b collide, and c hashes *)
(* to the slot that the second of them is pushed to.                       *)
EXTENDS WordTable, TLC

CONSTANTS a, b, c, f1

MCHash == a :> 0 @@ b :> 0 @@ c :> 1
MCCalls == a :> 2 @@ b :> 1 @@ c :> 1

\* The first call for a word is made for f1: which of the files comes first
\* makes no difference.
FirstFile == \A w \in Words : callFiles'[w] = {} \/ f1 \in callFiles'[w]

\* a and b both hash to the last slot.
LastHash == a :> Slots - 1 @@ b :> Slots - 1 @@ c :> 0
=============================================================================
