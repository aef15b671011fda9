CONSTANTS
  CPUs = {c1, c2}
  Tasks = {p1, p2}
  Idle = Idle
  llc <- OneCache
  Sleeps <- JustIo
  Events = {"balance"}
SPECIFICATION Spec
SYMMETRY Symmetry
INVARIANTS TypeOK OneStack QueueMatchesTask NoLostWakeup
