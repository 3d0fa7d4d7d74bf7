SPECIFICATION FairSpec
CONSTANTS
  JournalSettings <- MCJournalSettings
  StateSettings <- MCStateSettings
INVARIANTS OpenedIsOurs FallbackStays NeverGivenUpInVain Whereabouts GivingUpIsReported
PROPERTIES OpeningEnds
CHECK_DEADLOCK FALSE
