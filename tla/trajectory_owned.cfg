\* One writer per branch, default parents: the requests implement the abstract log.
CONSTANTS
  w1 = w1
  w2 = w2
  main = main
  fix = fix
  Main = main
  None = None
  EventIds = {e1, e2, e3}
  Branches = {main, fix}
  Snaps = {s1}
  Workers = {w1, w2}
  Ops <- OwnedOps
  Writers <- OneWriter
  ClientParents = FALSE
SYMMETRY EventSymmetry
SPECIFICATION Spec
INVARIANTS TypeOK BaseBelowHead AckedOnBranch TrajHeadOnMain RecordMatchesSnapshot
PROPERTY RefinesBranchLog
CHECK_DEADLOCK FALSE
