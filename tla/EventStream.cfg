CONSTANTS
  Appenders = {p1, p2}
  Subscribers = {s1}
  MaxEvents = 2
  Capacity = 1
  KeepRequired = {TRUE}
  MaxAppends = 3
SPECIFICATION FairSpec
INVARIANTS
  TypeOK
  RingHoldsRequired
  RingBounded
  NoLostWakeup
PROPERTIES
  FeedSpec
  RequiredDelivered
