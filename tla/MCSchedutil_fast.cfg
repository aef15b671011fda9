CONSTANTS
  CPUs = {c1, c2}
  Freqs = {1, 4}
  Scale = 8
  TickLen = 0
  FastSwitchPossible = TRUE
  MaxNotifiers = 0
  AdjustPerf = FALSE
  NeedUpdateLimits = TRUE
  FreqInvariant = FALSE
  Demands = {0, 8}
  Bandwidths = {0}
  IoFlags = {TRUE, FALSE}
  Limits <- FarLimits
  Requests = {"limits"}
  Delays = {1}
SPECIFICATION Spec
SYMMETRY Symmetry
INVARIANTS TypeOK LimitsObeyed StaleBoostDropped
