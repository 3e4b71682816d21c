\* One request at a time, each of which may die at any step or lose its answer.
CONSTANTS
  Main = main
  None = None
  MaxLost = 1
  CallIds = {c1, c2}
  EventIds = {e1, e2, e3, e4}
  Trajs = {t1}
  Branches = {main, fix}
  Snaps = {s1}
  Watchers = {w}
  Agents = {w}
SYMMETRY IdSymmetry
SPECIFICATION Spec
CONSTRAINT LastIdForOneCall
INVARIANTS TypeOK NativeCallFinal ChoiceKept
PROPERTY NeverReinterpreted
CHECK_DEADLOCK FALSE
