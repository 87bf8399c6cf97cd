CONSTANTS
  Executors = {e1}
  Cancellers = {c1}
  ApiCancellers = {}
  Resumers = {r1}
  Completers = {k1, k2}
  Plans <- ResumePlans
  NoPlan = NoPlan
  Faults = FALSE
SPECIFICATION Spec
CHECK_DEADLOCK FALSE
SYMMETRY CompleterSymmetry
INVARIANTS
  TypeOK
  WaitingRunIsResumable
  NothingSkipped
  OneAnswerPerTask
PROPERTIES
  FinishedNodeStaysFinished
