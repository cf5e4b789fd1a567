SPECIFICATION FairSpec
CONSTANTS
  x = x
  y = y
  Bad = Bad
  None = None
  MaxPayload = 2
  Wrap = 6
  NoiseLength = 2
  Streams <- MCStreams
  AuthReqs <- MCAuthReqs
  Messages <- MCMessages
  Noise <- MCNoise
INVARIANTS TypeOK HandoverExact OnlyTheRequest
PROPERTIES ProbeEchoed RequestDelivered
CHECK_DEADLOCK FALSE
