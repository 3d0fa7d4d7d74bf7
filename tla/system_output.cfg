SPECIFICATION SystemSpec
CONSTANTS
  r1 = r1
  r2 = r2
  NoRow = NoRow
  NoResult = NoResult
  NoKey = NoKey
  Requests <- MCRequests
  Refused <- MCRefused
  Finished <- MCFinished
  MayDegrade = FALSE
  MaxCrashes = 0
  MaxFaults = 0
  Keys <- MCKeys
  Allowlist <- MCKeys
  OptIn = {}
  PrivilegedKeys <- MCPrivileged
  AllSentinel = "all"
  FileKeys <- MCFileKeys
  MaxSlots = 1
  Timeout = 1
  LookupBound = 0
INVARIANTS OutputBounded
