CONSTANTS
  CPUs = {c1}
  Freqs = {1, 4}
  Scale = 8
  TickLen = 0
  FastSwitchPossible = TRUE
  MaxNotifiers = 1
  AdjustPerf = TRUE
  NeedUpdateLimits = FALSE
  FreqInvariant = TRUE
  Demands = {2}
  Bandwidths = {0, 6}
  IoFlags = {FALSE}
  Limits <- TwoLimits
  Requests = {"limits", "unhook", "suspend"}
  Delays = {0}
SPECIFICATION Spec
INVARIANTS LimitsObeyed CacheCoherent DeadlineCovered TransitionsNotified RequestOnItsWay StoppedIsQuiet
