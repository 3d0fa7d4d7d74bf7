SPECIFICATION Spec
CONSTANTS
  r1 = r1
  r2 = r2
  r3 = r3
  NoRow = NoRow
  NoResult = NoResult
  Requests <- MCRequests
  Refused <- MCRefused
  Finished <- MCOneFinished
  MayDegrade = TRUE
  MaxCrashes = 1
  MaxFaults = 1
SYMMETRY RequestSymmetry
INVARIANTS AuditBeforeEffect AnswerIsAudited RowsAtMostOnce MutexLine
PROPERTIES ImplementsAuditTrail
