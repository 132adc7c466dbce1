SPECIFICATION Spec
CONSTANTS
  Caller = caller
  Workers = {w1}
  Viewers = {}
  Occupants = {orig, other}
  Sender = NoOne
  NoOne = NoOne
  Modes = {"send"}
  Moves = {"focus", "turns"}
  MaxCrashes = 0
INVARIANTS CorrelatedMeansRequestedTurn
CHECK_DEADLOCK FALSE
