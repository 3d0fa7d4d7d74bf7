SPECIFICATION FairSpec
CONSTANTS
  Questions <- MCQuestions
  Targets = {TRUE, FALSE}
  Shapes <- MCShapes
  MaxTrouble = 2
INVARIANTS OneResultPerStep ResultsAreTheServers DomainIsTheFailures
PROPERTIES EndsWithoutServer
CHECK_DEADLOCK FALSE
