SPECIFICATION FairSpec
CONSTANTS
  Scripts <- MCScripts
  PipeSize = 1
  MaxStdout = 3
  MaxStderr = 1
  MaxLines = 2
  EvidenceMax = 4
  HeadChars = 2
  Clocks <- MCClocks
  NoAnswer = NoAnswer
INVARIANTS KeptIsBeginning StatusIsTheChilds TextIsFaithful AnswerIsBounded StampIsNow
PROPERTIES NeverStalls
CHECK_DEADLOCK FALSE
