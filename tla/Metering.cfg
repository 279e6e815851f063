CONSTANTS
  r1 = r1
  r2 = r2
  r3 = r3
  k1 = k1
  k2 = k2
  p1 = p1
  p2 = p2
  Requests = {r1, r2}
  Invalid = {}
  Keys = {k1}
  KeyOf <- MCKeyOf
  Runners = {p1, p2}
  Readers = {q1}
  Workers = 1
  HourTicks = 1
  Grace = 1
  VoucherTTL = 0
  BatchSize = 1
  LastReport = 1
  MaxTime = 3
  MaxFaults = 1
SYMMETRY Symmetric
SPECIFICATION Spec
INVARIANTS
  TypeOK
  CountedIsMarked
  TimelyVouchersAreCounted
  SummaryCountsOnce
PROPERTIES
  SettlesOnce
