SPECIFICATION FairSpec
CONSTANTS
  NbStreams = 3
  NbMux = 1
  MuxOf <- ThreeStreams
  SDP = FALSE
  ReadyAtStart = {}
  QueueSize = 1
  InitialRoom = 1
  MaxPackets = 4
  DataThreshold = 1
  Timings <- SecondFirst
  StopsEarly = TRUE
INVARIANTS NothingStranded FlushedInOrder
PROPERTIES ImplementsChannels FlushEnds MuxerEnds
CHECK_DEADLOCK FALSE
