SPECIFICATION Spec
CONSTANTS
  InRate = 2
  OutRate = 3
  BufferSamples = 3
  Slots = 2
  Prefill = 2
  QueueCap = 2
  RingFrames = 4
  MixFrames = 2
  Samples = 12
INVARIANTS
  NoBufferLost
PROPERTIES
  ImplementsStream
  SoundGoesOn
  
