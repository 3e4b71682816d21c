\* Two queries that judge and learn, or that assemble contexts, while one request at a
\* time writes the branch, with parents its client names.
CONSTANTS
  Branches = {main}
  Main = main
  None = None
  Workers = {w1}
  Writers <- OneWriter
  ClientParents = TRUE
  Outcomes = {"ok", "failed", "other"}
  MaxEvents = 3
  MaxCrashes = 1
  Queries = {q, r}
  Recent = 1
  Kinds = {"judgments", "context"}
  Budget = 1
SYMMETRY QuerySymmetry
SPECIFICATION Spec
CONSTRAINT OneKind
INVARIANTS TypeOK JudgmentsCurrent    BudgetKept
PROPERTY CausesKept
CHECK_DEADLOCK FALSE
