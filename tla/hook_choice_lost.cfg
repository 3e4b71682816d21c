\* The watcher delivers an event while the Agent switches branches.
CONSTANTS
  Main = main
  None = None
  MaxLost = 0
  CallIds = {c1}
  EventIds = {e1, e2, e3}
  Trajs = {t1, t2}
  Branches = {main, fix}
  Snaps = {s1}
  Watchers = {watcher}
  Agents = {agent}
SYMMETRY IdSymmetry
SPECIFICATION Spec
INVARIANT ChoiceKept
CHECK_DEADLOCK FALSE
