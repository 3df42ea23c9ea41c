\* Callers stop at closed() and ::close() does not fail; variables of four
\* classes share or exchange two wrappers over two numbers that are reused.
SPECIFICATION SockSpec
SYMMETRY Interchangeable
CONSTANTS
  file = file
  udp = udp
  tcp1 = tcp1
  tcp2 = tcp2
  tun = tun
  Handle = {file, udp, tcp1, tcp2, tun}
  Class <- MCClass
  Wrapper = {w1, w2}
  MaxFd = 1
  CountMod = 2
  Null = Null
  Free = Free
  Other = Other
  CloseMayFail = FALSE
  CarefulClient = TRUE
INVARIANTS
  SockTypeOK
  ClosedFlagTruthful
  NoLeak
  ObjectsAreTyped
PROPERTIES
  NoForeignClose
  ImplementsFileDescriptor
