SPECIFICATION Spec
CONSTANTS
  Caller = caller
  Workers = {w1}
  Viewers = {}
  Occupants = {orig, other}
  Sender = NoOne
  NoOne = NoOne
  Modes = {"send"}
  Moves = {"focus"}
  MaxCrashes = 0
PROPERTIES NeverAutoPushedAfterTimeout
CHECK_DEADLOCK FALSE
