CONSTANTS
  r1 = r1
  r2 = r2
  r3 = r3
  account = account
  project = project
  Requests = {r1, r2, r3}
  Scopes = {account, project}
  Account = account
  Tiers <- MCTiers
  Need <- MCNeed
  Ceiling <- MCCeiling
  MaxAmount = 2
  MaxTries = 3
  MaxRaises = 1
  MaxFaults = 1
SYMMETRY Symmetric
SPECIFICATION Spec
INVARIANTS
  TypeOK
  NeverOvercommitted
  RefusedHoldsNothing
PROPERTIES
  DrainedIsRefused
CHECK_DEADLOCK FALSE
