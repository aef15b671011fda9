CONSTANTS
  CPUs = {c1}
  Freqs = {1, 2, 4}
  Scale = 8
  TickLen = 0
  FastSwitchPossible = FALSE
  MaxNotifiers = 0
  AdjustPerf = FALSE
  NeedUpdateLimits = FALSE
  FreqInvariant = TRUE
  Demands = {0, 8}
  Bandwidths = {0}
  IoFlags = {FALSE}
  Limits <- OneLimit
  Requests = {"limits", "unhook"}
  Delays = {0}
SPECIFICATION Spec
INVARIANT NotReducedWhileBusy
