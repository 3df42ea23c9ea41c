\* What byte_stream.hh says of the end of the input, with callers that may call
\* anything at any time.
SPECIFICATION Spec
CONSTANTS
  Byte = {x, y}
  MaxData = 3
  Data <- MCData
  Capacity = 2
  SizeMod = 4
  MaxLen = 3
  MaxWritten = 6
PROPERTY
  EndIsFinal
