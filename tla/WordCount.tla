------------------------------ MODULE WordCount ------------------------------
(***************************************************************************)
(* What the table of words of cs520/prog5.c promises, whoever updates it   *)
(* and in whatever order: a word enters once, with one occurrence and one  *)
(* file; from then on its count goes up by one at a time and its files     *)
(* only grow.  Nothing ever leaves.                                        *)
(***************************************************************************)
EXTENDS Naturals

CONSTANTS Words, Files

VARIABLES count,    \* count[w]: occurrences counted so far, 0 for a word not in
          files     \* files[w]: the files it was seen in

Init == count = [w \in Words |-> 0] /\ files = [w \in Words |-> {}]

Enter(w, f) == /\ count[w] = 0
               /\ count' = [count EXCEPT ![w] = 1]
               /\ files' = [files EXCEPT ![w] = {f}]

Again(w) == /\ count[w] > 0
            /\ count' = [count EXCEPT ![w] = @ + 1]
            /\ UNCHANGED files

SeenIn(w, f) == /\ count[w] > 0
                /\ files' = [files EXCEPT ![w] = @ \union {f}]
                /\ UNCHANGED count

Next == \E w \in Words : Again(w) \/ \E f \in Files : Enter(w, f) \/ SeenIn(w, f)

Spec == Init /\ [][Next]_<<count, files>>
=============================================================================
