CONSTANTS
  CPUs = {c1, c2}
  Tasks = {p1}
  Idle = Idle
  llc <- NoSharing
  Sleeps <- IoAndSignal
  Events = {"balance", "signal", "tick"}
SPECIFICATION FairSpec
INVARIANTS WakeListSound NoLostWakeup IowaitExact LoadExact FreedIsGone
PROPERTIES DeadStaysDead WakeupCompletes IdleNotStuck
