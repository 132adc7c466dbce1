SPECIFICATION Spec
CONSTANTS
  Panes = {p1, p2}
  Names = {n1}
  Nobody = Nobody
  Reports <- ToldAll
  Lines = 4
  TailLen = 3
  MinOverlap = 2
  MaxGlyphs = 2
  MaxChanges = 2
  MaxWrites = 2
INVARIANT TypeOK
PROPERTIES RouteKeepsItsAgent AnswerCompletesScreen
SYMMETRY PaneSymmetry
CHECK_DEADLOCK FALSE
