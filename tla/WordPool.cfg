SPECIFICATION Spec
CONSTANTS
  N = 3
  Inputs <- MCInputs
INVARIANTS TypeOK BufferExclusive QueueServesMain BlocksParsed SortsAlone
PROPERTIES Terminates
CHECK_DEADLOCK FALSE
