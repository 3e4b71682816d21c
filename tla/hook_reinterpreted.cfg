\* The watcher delivers a failure while the Agent applies a skill.
CONSTANTS
  Main = main
  None = None
  MaxLost = 0
  CallIds = {c1}
  EventIds = {e1, e2, e3}
  Trajs = {t1, t2}
  Branches = {main, fix}
  Snaps = {s1}
  Watchers = {watcher}
  Agents = {agent}
SYMMETRY IdSymmetry
SPECIFICATION Spec
PROPERTY NeverReinterpreted
CHECK_DEADLOCK FALSE
