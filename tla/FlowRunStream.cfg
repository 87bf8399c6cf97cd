CONSTANTS
  Executors = {e1}
  Cancellers = {c1}
  ApiCancellers = {}
  Resumers = {}
  Completers = {}
  Plans <- ShortPlans
  NoPlan = NoPlan
  Faults = FALSE
SPECIFICATION Spec
CHECK_DEADLOCK FALSE
INVARIANTS
  StreamConverges
