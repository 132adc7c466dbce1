SPECIFICATION Spec
CONSTANTS
    Panes = {p, q}
    New = new
    Palette <- MCPalette
    Stride = 2
    First <- MCFirst
    Manual = {mine}
    NoName = none
    Wanted <- MCWanted
    Labelers = {l1, l2, l3}
    MaxMoves = 1
    p = p  q = q  new = new  fox = fox  owl = owl  yak = yak  mine = mine
INVARIANTS TypeOK AgentsGetNamed ShownAsNamed SpawnReportIsTrue
SYMMETRY Alike
CHECK_DEADLOCK FALSE
