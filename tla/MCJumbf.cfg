CONSTANTS
  Sizes <- MCSizes
  ExtendedLengths <- MCExtendedLengths
  Descriptions <- MCDescriptions
  Written <- MCWritten
SPECIFICATION ParserFairSpec
INVARIANTS
  HeadersNeverOverlap
  PartsTileTheBox
  WrittenBoxIsReadBack
PROPERTY EveryBoxIsJudged
CHECK_DEADLOCK FALSE
