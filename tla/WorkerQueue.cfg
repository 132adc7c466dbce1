SPECIFICATION FairSpec
CONSTANTS
  Clients = {c1, c2}
  Workers = {w1, w2}
  Requests = {r1, r2}
  NoOne = NoOne
  MaxNudges = 2
  MaxFaults = 1
INVARIANTS TypeOK OneTicker
PROPERTIES OnlyFaultsStrand Served
CHECK_DEADLOCK FALSE
