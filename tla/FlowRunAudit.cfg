CONSTANTS
  Executors = {e1}
  Cancellers = {c1}
  ApiCancellers = {c1}
  Resumers = {}
  Completers = {}
  Plans <- ShortPlans
  NoPlan = NoPlan
  Faults = FALSE
SPECIFICATION Spec
CHECK_DEADLOCK FALSE
INVARIANTS
  CancelAuditIsTruthful
