SPECIFICATION Spec
CONSTANTS
  Commands = {c1}
  Popups = {p1}
  Targets = {t1, t2}
  Fresh = {t2}
  Source = {skill, script}
  Extras = {notes}
  Nowhere = Nowhere
  MaxMishaps = 1
INVARIANTS TypeOK NeverMixed LocalFilesKept OutcomeIsTrue
CHECK_DEADLOCK FALSE
