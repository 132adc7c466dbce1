SPECIFICATION Spec
CONSTANTS
  Hosts = {h1, h2}
  MaxFaults = 2
INVARIANTS TypeOK SuccessIsReal OnlyReportedDamage
PROPERTIES ActivatedOnlyValid LegacyKeptUntilReplaced
CHECK_DEADLOCK FALSE
