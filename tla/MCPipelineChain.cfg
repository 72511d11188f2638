SPECIFICATION Spec
CONSTANTS
  Demuxers = {"A"}
  Decs = {"a"}
  Filters = {"F", "G"}
  Encs = {"e"}
  Muxes = {"M"}
  Ports <- ChainPorts
  Outs <- ChainOuts
  Delay <- ChainDelay
  NoFrames = {}
  QueueSize <- ChainSizes
  EndTs = {}
  Loops <- NoLoop
  MaxRead = 2
  MayEnd = {}
  MayFail = {}
  MaxUpsets = 0
INVARIANT EofFrameFirst
CHECK_DEADLOCK FALSE
