\* Segments of up to 8 bytes: as long as the scaled sum allows for a one-word initial sum.
SPECIFICATION Spec
CONSTANTS
  ByteMod = 2
  SumMod = 16
  MaxPacket = 8
  Storage = {place}
  Null = Null
INVARIANTS
  ChecksumAgrees
  IntactVerifies
  DamageDetected
  ParsesWhatArrived
PROPERTY
  ErrorSticks
