CONSTANTS
  Executors = {e1, e2}
  Cancellers = {c1}
  ApiCancellers = {}
  Resumers = {}
  Completers = {}
  Plans <- ShortPlans
  NoPlan = NoPlan
  Faults = FALSE
SPECIFICATION FairSpec
CHECK_DEADLOCK FALSE
PROPERTIES
  StartsFromQueued
  RunSettles
  SettledRunClosesStream
