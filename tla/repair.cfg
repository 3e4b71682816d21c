\* One writer per branch, default parents: three events on three branches, one append
\* that dies.
CONSTANTS
  w1 = w1
  w2 = w2
  main = main
  fix = fix
  back = back
  Branches = {main, fix, back}
  Main = main
  None = None
  Workers = {w1, w2}
  Writers <- OneWriter
  ClientParents = FALSE
  Outcomes = {"ok", "failed", "other"}
  MaxEvents = 3
  MaxCrashes = 1
SYMMETRY BranchSymmetry
SPECIFICATION HistorySpec
INVARIANTS HistoryTypeOK FirstSuccessesAgree
PROPERTY LinksKept
CHECK_DEADLOCK FALSE
