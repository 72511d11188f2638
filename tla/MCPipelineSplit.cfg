SPECIFICATION Spec
CONSTANTS
  Demuxers = {"A"}
  Decs = {"a", "b"}
  Filters = {"F"}
  Encs = {"e", "g"}
  Muxes = {"M"}
  Ports <- SplitPorts
  Outs <- SplitOuts
  Delay <- SplitDelay
  NoFrames <- OneBranch
  QueueSize <- SplitSizes
  EndTs = {}
  Loops <- NoLoop
  MaxRead = 1
  MayEnd = {}
  MayFail = {}
  MaxUpsets = 0
INVARIANT EncodersOpened
CHECK_DEADLOCK FALSE
