CONSTANTS
  w1 = w1
  w2 = w2
  w3 = w3
  Waiters = {w1, w2}
  Completers = {c1}
  Probers = {p1}
  Calls <- AllCalls
  UINT_MAX = 3
  None = None
SPECIFICATION FairSpec
PROPERTIES TimeoutReturns ImplementsCountingEvent
INVARIANTS TypeOK NoStrandedWaiter CompleterGone
