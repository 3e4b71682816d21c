\* Two first requests of a session at the same time, or one that dies.
CONSTANTS
  Main = main
  None = None
  MaxLost = 0
  CallIds = {c1}
  EventIds = {e1, e2, e3}
  Trajs = {t1, t2}
  Branches = {main, fix}
  Snaps = {s1}
  Watchers = {watcher}
  Agents = {agent}
SYMMETRY IdSymmetry
SPECIFICATION Spec
INVARIANT OneTrajectory
CHECK_DEADLOCK FALSE
