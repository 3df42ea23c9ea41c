\* A queue and one other list over three places of storage; strings of 0 to 2
\* bytes, 3 bytes to send in all.
SPECIFICATION Spec
CHECK_DEADLOCK FALSE
CONSTANTS
  queue = queue
  other = other
  List = {queue, other}
  Storage = {s1, s2, s3}
  Null = Null
  MaxBuffers = 3
  MaxGiven = 3
  Strings <- MCStrings
INVARIANTS
  SameAsString
  SpentStorageFreed
  NothingLostOrRepeated
  ReturnIsHonest
  ExactlyOnce
PROPERTY
  WriteEnds
