SPECIFICATION FairSpec
CONSTANTS
  DemuxSeq <- OneInput
  FilterSeq <- OneFilter
  Decs <- OneDec
  Encs <- OneEnc
  MuxStreams <- OneStream
  Muxes <- OneStreamFile
  Src <- ChainSrc
  Inputs <- ChainInputs
  FirstDsts <- OneDec
  Tolerance = 1
  QueueSize = 1
  Endless = {}
  MaxDts = 0
  MayStop = TRUE
INVARIANTS TrailingRuns ClosedInputsAreTold
PROPERTY StopReturns
CHECK_DEADLOCK FALSE
