CONSTANTS
  CPUs = {c1, c2}
  Freqs = {1, 4}
  Scale = 8
  TickLen = 0
  FastSwitchPossible = FALSE
  MaxNotifiers = 0
  AdjustPerf = FALSE
  NeedUpdateLimits = FALSE
  FreqInvariant = TRUE
  Demands = {0, 8}
  Bandwidths = {0}
  IoFlags = {FALSE}
  Limits <- OneLimit
  Requests = {"limits"}
  Delays = {1}
SPECIFICATION FairSpec
INVARIANT DecisionDelivered
PROPERTY Converges
