SPECIFICATION FairSpec
CONSTANTS
  NbStreams = 2
  NbMux = 1
  MuxOf <- OneMux
  SDP = FALSE
  ReadyAtStart = {}
  QueueSize = 1
  InitialRoom = 1
  MaxPackets = 2
  DataThreshold = 1
  Timings <- Together
  StopsEarly = FALSE
PROPERTIES MuxerEnds
CHECK_DEADLOCK FALSE
