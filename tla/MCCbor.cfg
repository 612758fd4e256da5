CONSTANTS
  Sources <- MCSources
  MaxDepth = 2
SPECIFICATION FairSpec
INVARIANTS
  TypeOK
  OneEncoding
  SecondReadingAgrees
PROPERTY EveryInputIsJudged
CHECK_DEADLOCK FALSE
