SPECIFICATION Spec
CONSTANTS
  Caller = caller
  Workers = {w1, w2}
  Viewers = {v1}
  Occupants = {orig, other}
  Sender = NoOne
  NoOne = NoOne
  Modes = {"send"}
  Moves = {"focus", "damage"}
  MaxCrashes = 1
SYMMETRY WorkerSymmetry
INVARIANTS TypeOK AtMostOnePrompt SubmittedIsTruthful
PROPERTIES KeepsPromise TerminalIsFinal
CHECK_DEADLOCK FALSE
