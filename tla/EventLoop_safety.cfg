SPECIFICATION Safety
CONSTANTS
  Thread = {t1, t2}
  Loop = loop
  Event = {data, end}
  Handler = {f}
  NIL = NIL
  MaxCalls = 3
  MaxRegs = 2
SYMMETRY Symmetry
INVARIANTS SemMatchesQueue DrainedMeansQuiet
  EachCallInOnePlace PerThreadOrder FreshHandler
CHECK_DEADLOCK FALSE
