CONSTANTS
  CPUs = {c1, c2}
  Setters = {s1, s2}
  P = P
  MaxNest = 2
  Exec = TRUE
  Pluggable = {}
  None = None
SPECIFICATION FairSpec
INVARIANTS TypeOK RequestAlive StopSeesRequest RequestServed
PROPERTIES DoneInPlace PinnedStays CallersReturn
