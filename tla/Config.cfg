SPECIFICATION Spec
CONSTANTS
  Callers = {c1, c2}
  Second = 2
  Handlers = {h1, h2}
  RuleRows <- MCRuleRows
  RewriteRows <- MCRewriteRows
  BackendRows <- MCBackendRows
  UserRows <- MCUserRows
  Files <- MCFiles
  Budgets <- MCBudgets
CHECK_DEADLOCK FALSE
SYMMETRY Symm
INVARIANTS
  TypeOK
  CreditBounded
  StoreInForce
  UnsavedShown
