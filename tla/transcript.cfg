\* Two hooks that overlap, a transcript that is replaced by another or rewritten.
CONSTANTS
  Hooks = {h, i}
  Paths = {p, q}
  Messages = {a, b}
  None = None
  Broken = Broken
  MaxLines = 2
  MaxRewrites = 1
  MaxFailures = 1
SYMMETRY HookSymmetry
SPECIFICATION Spec
INVARIANTS TypeOK NothingDropped NoReplay SaveAtomic
CHECK_DEADLOCK FALSE
