CONSTANTS
  r1 = r1
  r2 = r2
  r3 = r3
  k1 = k1
  k2 = k2
  p1 = p1
  p2 = p2
  Requests = {r1, r2, r3}
  Invalid = {r3}
  Keys = {k1}
  KeyOf <- MCKeyOf
  Runners = {p1, p2}
  Readers = {}
  Workers = 1
  HourTicks = 1
  Grace = 1
  VoucherTTL = 0
  BatchSize = 1
  LastReport = 0
  MaxTime = 2
  MaxFaults = 1
SPECIFICATION LiveSpec
PROPERTIES
  EveryVoucherSettles
  EveryRecordAnnounced
