CONSTANTS
  Calls = {c1}
  Consumers = 1
  Versions = {v1, v2}
  Counts = {1}
  Layouts = {t1}
  Keep = Keep
  Nothing = Nothing
  NoWeights = NoWeights
  MaxOps = 2
  MaxReports = 2
  MaxFaults = 0
  FirstVersion = v1
  FirstCount = 1
SPECIFICATION EstablishedSpec
PROPERTIES
  TerminatedIsFinal
CHECK_DEADLOCK FALSE
