CONSTANTS
  t1 = t1
  t2 = t2
  t3 = t3
  b1 = b1
  b2 = b2
  w1 = w1
  Tasks = {t1, t2, t3}
  Wakers = {w1, w2}
  Bits = {b1, b2}
  Uses <- AllUses
  WAITQUEUE_WALK_BREAK_CNT = 0
  None = None
SPECIFICATION FairSpec
INVARIANTS TypeOK EntryAlive SharedWakeup ExclusiveWakeup
PROPERTY FreeIsTaken
