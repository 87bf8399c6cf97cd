CONSTANTS
  Executors = {e1}
  Cancellers = {c1}
  ApiCancellers = {}
  Resumers = {}
  Completers = {}
  Plans <- ExecutorPlans
  NoPlan = NoPlan
  Faults = FALSE
SPECIFICATION Spec
CHECK_DEADLOCK FALSE
PROPERTIES
  TerminalIsFinal
