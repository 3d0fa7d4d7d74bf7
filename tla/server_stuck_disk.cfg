SPECIFICATION StuckDiskSpec
CONSTANTS
  r1 = r1
  r2 = r2
  r3 = r3
  NoRow = NoRow
  NoResult = NoResult
  Requests <- MCTwoRequests
  Refused <- MCRefused
  Finished <- MCOneFinished
  MayDegrade = FALSE
  MaxCrashes = 0
  MaxFaults = 0
PROPERTIES NeverBlocked
