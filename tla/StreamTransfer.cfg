\* Messages of up to 6 bytes through a buffer of 2, offered in any pieces; size_t
\* has 4 values, so both counters wrap.
SPECIFICATION TransferSpec
CONSTANTS
  Byte = {x, y}
  MaxData = 6
  Data <- MCData
  Capacity = 2
  SizeMod = 4
  MaxLen = 3
  MaxWritten = 6
INVARIANTS
  CapacityRespected
  InOrderDelivery
  Accounting
  EofMeansComplete
PROPERTIES
  ImplementsContract
  TransferCompletes
