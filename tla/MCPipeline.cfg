SPECIFICATION FairSpec
CONSTANTS
  Demuxers = {"A"}
  Decs = {"a"}
  Filters = {"F"}
  Encs = {"e"}
  Muxes = {"M"}
  Ports <- FilePorts
  Outs <- FileOuts
  Delay <- FileDelay
  NoFrames = {}
  QueueSize <- FileSizes
  EndTs = {"a"}
  Loops <- OneLoop
  MaxRead = 1
  MayEnd = {"F", "e", "M"}
  MayFail = {"a", "F"}
  MaxUpsets = 2
INVARIANTS NothingLost EncodersOpened EndTsOfThisLoop
PROPERTY TranscodingEnds
CHECK_DEADLOCK FALSE
