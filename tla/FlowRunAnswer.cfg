CONSTANTS
  Executors = {e1}
  Cancellers = {}
  ApiCancellers = {}
  Resumers = {}
  Completers = {k1}
  Plans <- ResumePlans
  NoPlan = NoPlan
  Faults = FALSE
SPECIFICATION Spec
CHECK_DEADLOCK FALSE
INVARIANTS
  AnsweredTaskIsApplied
