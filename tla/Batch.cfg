CONSTANTS
  Jobs = {1, 2}
  Workers = {w1, w2}
  NoJob = NoJob
  MaxCancels = 1
  MaxFaults = 1
SPECIFICATION Spec
INVARIANTS
  TypeOK
  CountedExactlyOnce
PROPERTIES
  CountersSurvive
  OutcomeIsFinal
  JobsEnd

