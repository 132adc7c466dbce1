SPECIFICATION FairSpec
CONSTANTS
  Caller = caller
  Workers = {w1}
  Viewers = {}
  Occupants = {orig, other}
  Sender = NoOne
  NoOne = NoOne
  Modes = {"request"}
  Moves = {"focus"}
  MaxCrashes = 0
PROPERTIES HoldEnds PushHonoured DecisionAnnounced
CHECK_DEADLOCK FALSE
