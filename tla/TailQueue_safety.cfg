SPECIFICATION Spec
CONSTANTS
  Thread = {t1, t2, t3}
  Loop = loop
  Cell = {c1, c2, c3, c4}
  NIL = NIL
SYMMETRY Symmetry
INVARIANTS ListSpellsContents MemorySafe
CHECK_DEADLOCK FALSE
