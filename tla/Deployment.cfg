CONSTANTS
  Calls = {c1, c2}
  Consumers = 1
  Versions = {v1, v2}
  Counts = {1, 2}
  Layouts = {t1}
  Keep = Keep
  Nothing = Nothing
  NoWeights = NoWeights
  MaxOps = 2
  MaxReports = 2
  MaxFaults = 1
  FirstVersion = v1
  FirstCount = 1
SPECIFICATION MCSpec
INVARIANTS
  TypeOK
  LastChangeLands
PROPERTIES
  ChangesInOrder
  StreamDrains
  RolloutSettles
CHECK_DEADLOCK FALSE
