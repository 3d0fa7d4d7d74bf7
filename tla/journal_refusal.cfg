SPECIFICATION Spec
CONSTANTS
  JournalSettings <- MCJournalSettings
  StateSettings <- MCStateSettings
INVARIANTS UnsafeIsAnError
CHECK_DEADLOCK FALSE
