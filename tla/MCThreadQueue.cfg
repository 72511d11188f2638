CONSTANTS
  p1 = p1
  p2 = p2
  c = c
  Producers <- MCProducers
  Consumer = c
  NbStreams = 2
  QueueSize = 2
  MaxItems = 2
  MaxChokes = 1
SPECIFICATION FairSpec
INVARIANTS NoLostWakeup FifosInStep ItemsAccountedFor EofComplete
PROPERTIES ImplementsChannels SenderReturns EofArrives EofUnchokes
