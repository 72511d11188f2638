SPECIFICATION Spec
CONSTANTS
  DemuxSeq <- TwoInputs
  FilterSeq <- NoFilter
  Decs <- OneDec
  Encs <- OneEnc
  MuxStreams <- TwoStreams
  Muxes <- OneFile
  Src <- PairSrc
  Inputs <- NoInputs
  FirstDsts <- OneDec
  Tolerance = 1
  QueueSize = 1
  Endless = {}
  MaxDts = 1
  MayStop = TRUE
INVARIANTS SleepersAreChoked TrailingRuns FrozenAsChoked SomeSourceRuns
CHECK_DEADLOCK FALSE
