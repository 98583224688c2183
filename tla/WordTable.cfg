SPECIFICATION Spec
CONSTANTS
  a = a
  b = b
  c = c
  f1 = f1
  NULL = NULL
  Threads = {t1, t2, t3}
  Files = {f1, f2}
  Words = {a, b, c}
  Hash <- MCHash
  Slots = 4
  MemSize = 2
  MaxCalls <- MCCalls
ACTION_CONSTRAINT FirstFile
INVARIANTS OneEntryPerWord ProbeFinds TotalsExact IndicesListTable
PROPERTIES EntriesKept ImplementsCount EveryCallReturns
CHECK_DEADLOCK FALSE
