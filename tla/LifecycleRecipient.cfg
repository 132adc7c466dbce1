SPECIFICATION Spec
CONSTANTS
  Caller = caller
  Workers = {w1}
  Viewers = {}
  Occupants = {orig, other}
  Sender = other
  NoOne = NoOne
  Modes = {"request", "send"}
  Moves = {"focus", "swap", "loss", "turns"}
  MaxCrashes = 1
INVARIANT SettledAfterItsTurn
PROPERTIES AddresseeGetsIt NoticeOnlyWhileAwaiting
CHECK_DEADLOCK FALSE
