\* A sample of an even number of cycles.
SPECIFICATION BufferSpec
CONSTANTS
  DivTc = 40
  Mult = 10
  Samples = 6
  Half = 2
  Steps = {4, 8, 24}
  MaxDone = 150
INVARIANTS
  ImpulseEndsInBuffer
