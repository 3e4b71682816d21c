\* The watcher and an MCP tool at work on the session at the same time.
CONSTANTS
  Main = main
  None = None
  MaxLost = 0
  CallIds = {c1}
  EventIds = {e1, e2, e3}
  Trajs = {t1, t2}
  Branches = {main, fix}
  Snaps = {s1}
  Watchers = {watcher}
  Agents = {agent}
SYMMETRY IdSymmetry
SPECIFICATION Spec
INVARIANTS SessionSound OutcomeMatchesResult SnapshotBeforeCall AdvisedFailureOnBranch
CHECK_DEADLOCK FALSE
