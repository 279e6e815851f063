CONSTANTS
  r1 = r1
  r2 = r2
  r3 = r3
  g1 = g1
  g2 = g2
  b1 = b1
  b2 = b2
  Requests = {r1, r2}
  Groups = {g1, g2}
  Buckets = {b1, b2}
  GroupOf <- MCGroupOf
  BucketOf <- MCBucketOf
  StartOf <- MCStartOf
  At <- MCAt
  Cost <- MCCost
  MicrosPerCent = 4
  Consumers = {c1}
  Workers = {w1}
  HourTicks = 1
  MonthTicks = 2
  Grace = 0
  EventGrace = 1
  StaleAfter = 1
  TopUp = 1
  MaxTime = 3
  MaxTouches = 1
  MaxFaults = 1
SPECIFICATION LiveSpec
PROPERTIES
  EveryLineCharged
  SettlesOnce
