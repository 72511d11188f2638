SPECIFICATION FairSpec
CONSTANTS
  NbStreams = 3
  OneSecond = 6
  Tb <- MCTb
  SampleTime <- MCSampleTime
  BufSize = 2
  Int64 = 100
  Frames <- MCFrames
  Sizes <- MCSizes
  Limits = {0, 1, 100}
  MaxSent <- MCMaxSent
INVARIANTS NoneGetsAhead NoneOutlivesTheShortest CutOffForAReason SamplesAddUp OnlyTheLastIsShort EofWhenAllClosed
PROPERTIES NothingAfterEof ReceivingEnds
CHECK_DEADLOCK FALSE
