SPECIFICATION Spec
CONSTANTS
  MIN_TRAINING_BITS = 4
  MaxBits = 16
  FCS = 2
  Fcs <- MCFcs
  MaxLength <- MCMaxLength
  Payloads <- MCPayloads
  TRAINING_BITS = 10
  MaxNoise = 6
INVARIANTS
  FrameReceived
  InBounds
