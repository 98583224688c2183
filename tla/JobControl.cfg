SPECIFICATION Spec
CONSTANTS
  Thread = {t1, t2, t3, t4}
  Kind = {modify, destroy}
  DESTROY = destroy
  DefaultMask = {destroy}
  ASYNC = async
  NESTED = nested
  NONE = none
  MaxQueued = 3
  MaxFaults = 1
INVARIANTS JobsOwned CountsBalance WithinLimit
PROPERTIES ImplementsJobs EveryCallReturns
