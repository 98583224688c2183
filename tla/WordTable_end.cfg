SPECIFICATION Safety
CONSTANTS
  a = a
  b = b
  c = c
  f1 = f1
  NULL = NULL
  Threads = {t1, t2, t3}
  Files = {f1}
  Words = {a, b, c}
  Hash <- LastHash
  Slots = 3
  MemSize = 2
  MaxCalls <- MCCalls
INVARIANTS NextFreeBucket
CHECK_DEADLOCK FALSE
