\* Two sockets and two endpoints; datagrams of 1 and 2 bytes, and of 3, which is
\* too long to send, into storage for 1; two datagrams in all, the first of them
\* duplicated.
SPECIFICATION Spec
CHECK_DEADLOCK FALSE
CONSTANTS
  ByteMod = 2
  Sock = {s1, s2}
  Endpoint <- MCEndpoint
  Lengths = {1, 2, 3}
  Mtus = {1}
  MaxDatagram = 2
  MaxQueue = 2
  CountMod = 2
  Copies <- MCCopies
INVARIANT
  WholeDatagramTrueSource
PROPERTIES
  QueueDrains
  ServiceIsCounted
