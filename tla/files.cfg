CONSTANTS
  a = a
  d = d
  f = f
  Root = Root
  Paths = {a, d, f}
  Parent <- ParentOf
  TempNames = {t1, t2, t3}
  Empty = Empty
  Contents = {Empty, x, y}
  Faults = {"io", "lookup", "power"}
  MaxFaults = 3
SPECIFICATION Spec
INVARIANTS NothingLost NoTornFile AnswerTellsTheTruth NothingLeftBehind
SYMMETRY Symmetry
