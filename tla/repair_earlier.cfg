\* A success that came before a failure is linked to it as its repair.
CONSTANTS
  w1 = w1
  w2 = w2
  main = main
  fix = fix
  back = back
  Branches = {main, fix, back}
  Main = main
  None = None
  Workers = {w1, w2}
  Writers <- OneWriter
  ClientParents = FALSE
  Outcomes = {"ok", "failed", "other"}
  MaxEvents = 3
  MaxCrashes = 0
SYMMETRY BranchSymmetry
SPECIFICATION HistorySpec
INVARIANT RepairIsLater
CHECK_DEADLOCK FALSE
