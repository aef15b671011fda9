\* A CPU goes offline while its stopper is about to be asked.
CONSTANTS
  CPUs = {c1, c2}
  Setters = {s1}
  P = P
  MaxNest = 1
  Exec = FALSE
  Pluggable = {c2}
  None = None
SPECIFICATION HotplugSpec
INVARIANT StopWorkInUse
