CONSTANTS
  Appenders = {p1}
  Subscribers = {s1}
  MaxEvents = 2
  Capacity = 1
  KeepRequired = {TRUE}
  MaxAppends = 1
SPECIFICATION Spec
INVARIANTS
  EndedSawEverything
