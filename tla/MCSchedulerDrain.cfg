SPECIFICATION FairSpec
CONSTANTS
  DemuxSeq <- TwoInputs
  FilterSeq <- NoFilter
  Decs <- OneDec
  Encs <- OneEnc
  MuxStreams <- TwoStreams
  Muxes <- OneFile
  Src <- PairSrc
  Inputs <- NoInputs
  FirstDsts <- OneDec
  Tolerance = 1
  QueueSize = 1
  Endless = {}
  MaxDts = 0
  MayStop = TRUE
PROPERTY StopDrains
CHECK_DEADLOCK FALSE
