SPECIFICATION SystemFairSpec
CONSTANTS
  r1 = r1
  r2 = r2
  NoRow = NoRow
  NoResult = NoResult
  NoKey = NoKey
  Requests <- MCRequests
  Refused <- MCRefused
  Finished <- MCFinished
  MayDegrade = TRUE
  MaxCrashes = 1
  MaxFaults = 1
  Keys <- MCKeys
  Allowlist <- MCKeys
  OptIn = {}
  PrivilegedKeys <- MCPrivileged
  AllSentinel = "all"
  FileKeys <- MCFileKeys
  MaxSlots = 1
  Timeout = 1
  LookupBound = 0
INVARIANTS EffectsAreOnRecord ChildrenPerLife SuccessIsOver
PROPERTIES EveryRequestAnswered ImplementsServer
