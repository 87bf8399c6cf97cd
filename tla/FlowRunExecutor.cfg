CONSTANTS
  Executors = {e1}
  Cancellers = {c1, c2}
  ApiCancellers = {c2}
  Resumers = {}
  Completers = {}
  Plans <- ExecutorPlans
  NoPlan = NoPlan
  Faults = TRUE
SPECIFICATION Spec
CHECK_DEADLOCK FALSE
INVARIANTS
  ExecutionHasPlan
  LogIsTruthful
  ClosedStreamHasTerminal
  AtMostOneNodeAfterCancel
PROPERTIES
  CancelSparesFinished
  CancelledShellIsFinal
