SPECIFICATION FairSpec
CONSTANTS
    N = 3
    Agents = {a, b}
    Sessions = {a}
    Routes = {ra, rb}
    Labels = {la}
    Reach <- MCReach
    Workers = {w1, w2}
    MaxMoves = 1
    Nobody = Nobody
    a = a  b = b  ra = ra  rb = rb  la = la
INVARIANTS TypeOK OnePromptPerSession ReportIsTrue
PROPERTY ItemsServed
CHECK_DEADLOCK FALSE
