\* A task that has migration disabled, and two callers.
CONSTANTS
  CPUs = {c1, c2}
  Setters = {s1, s2}
  P = P
  MaxNest = 1
  Exec = FALSE
  Pluggable = {}
  None = None
SPECIFICATION Spec
INVARIANT StrayHasRequest
