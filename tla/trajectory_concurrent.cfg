\* Two requests on any branch, with races, client-chosen parents and crashes.
CONSTANTS
  w1 = w1
  w2 = w2
  main = main
  fix = fix
  Main = main
  None = None
  EventIds = {e1, e2}
  Branches = {main, fix}
  Snaps = {s1}
  Workers = {w1, w2}
  Ops <- AuditedOps
  Writers <- AnyWriter
  ClientParents = TRUE
SYMMETRY FullSymmetry
SPECIFICATION Spec
INVARIANTS Referential Acyclic HeadOnBranch SnapshotComplete StartsAtSnapshot
PROPERTY HistoryKept
CHECK_DEADLOCK FALSE
