CONSTANTS
  Accounts = {a1}
  Keys = {k1}
  Charges = {g1}
  Intents = {i1}
  Amounts = {1, 2}
  Clients = {c1, c2}
  Runners = {p1}
  Threshold = 2
  TopUp = 1
  MaxRetries = 2
  MaxTime = 1
  MaxCalls = 2
  MaxFaults = 1
SPECIFICATION Spec
INVARIANT PaidIntentIsCredited
