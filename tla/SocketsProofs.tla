--------------------------- MODULE SocketsProofs ----------------------------
(***************************************************************************)
(* Proofs about Sockets, for every number of variables of every class.     *)
(* Each step of Sockets is a step of FileDescriptor, so the theorems of    *)
(* FileDescriptorProofs carry over; and the objects stay typed.            *)
(***************************************************************************)
EXTENDS Sockets, FileDescriptorProofs

LEMMA InitCallOK == SockInit => CallOK
  BY Zenon DEF SockInit, CallOK

LEMMA NextCallOK == TypeOK /\ CallOK /\ [SockNext]_sockVars => CallOK'
<1> SUFFICES ASSUME TypeOK, CallOK, [SockNext]_sockVars PROVE CallOK'
  OBVIOUS
<1>1. CASE call' = call /\ internal_fd' = internal_fd
  BY <1>1 DEF CallOK, NoCall
<1>2. CASE call' = NoCall
  BY <1>2, Zenon DEF CallOK, NoCall
<1>3. CASE \E h \in Handle :
             /\ internal_fd'[h] \in Wrapper
             /\ \/ call' = [op |-> "verify", object |-> h] /\ IsSocket(h)
                \/ call' = [op |-> "ioctl", object |-> h] /\ Class[h] = "TunTapFD"
                \/ call' = [op |-> "accept", object |-> h] /\ Class[h] = "TCPSocket"
  BY <1>3, Zenon DEF CallOK, IsSocket
<1>4. \A h \in Handle : Class[h] \in {"UDPSocket", "TCPSocket", "LocalStreamSocket"} => IsSocket(h)
  BY DEF IsSocket, Expected
<1>5. ASSUME NEW h \in Handle, NEW w \in Wrapper, NEW n \in Number, Construct(h, w, n)
      PROVE  internal_fd'[h] \in Wrapper
  BY <1>5 DEF Construct, TypeOK
<1>6. CASE \E h, g \in Handle : Adopt(h, g)
  <2>1. PICK h \in Handle, g \in Handle : Adopt(h, g)
    BY <1>6
  <2>2. internal_fd'[g] \in Wrapper
    BY <2>1 DEF Adopt, Move, Repoint, Uses, TypeOK
  <2> QED BY <1>3, <1>4, <2>1, <2>2 DEF Adopt
<1>7. CASE \E h \in Handle, w \in Wrapper, n \in Number : OpenTun(h, w, n) \/ AcceptReturns(h, w, n)
  BY <1>3, <1>4, <1>5, <1>7 DEF OpenTun, AcceptReturns, Opens
<1>8. CASE \E h \in Handle, w \in Wrapper : accept(h, w)
  BY <1>3, <1>8 DEF accept, Registers, Uses
<1>9. CASE call = NoCall /\ call' = call
  BY <1>2, <1>9
<1> QED
  BY <1>1, <1>2, <1>6, <1>7, <1>8, <1>9
     DEF SockNext, sockVars, vars, OtherOpens, OtherCloses, Verify, IoctlAttaches,
         IoctlFails, AcceptFails, OpenRaw, NewSocket, connect, listen, shutdown

(* A step of Sockets, seen without the kernel's sockets.                   *)
LEMMA StepRefines == CallOK /\ [SockNext]_sockVars => [Next]_vars
<1> SUFFICES ASSUME CallOK, [SockNext]_sockVars PROVE [Next]_vars
  OBVIOUS
<1>1. CASE \E n \in Number : OtherOpens(n) \/ OtherCloses(n)
  BY <1>1 DEF Next
<1>2. CASE Inherited
  BY <1>2 DEF Inherited, Next
<1>3. ASSUME call.op # "none", Unwind(call.object) PROVE Next
  BY <1>3 DEF Unwind, CallOK, NoCall, Next
<1>4. CASE Verify \/ IoctlFails
  BY <1>3, <1>4 DEF Verify, IoctlFails
<1>5. CASE UNCHANGED vars
  BY <1>5
<1>6. ASSUME NEW h \in Handle, NEW w \in Wrapper, NEW n \in Number, Construct(h, w, n)
      PROVE  Next
  BY <1>6 DEF Next
<1>7. CASE \E h \in Handle, w \in Wrapper, n \in Number :
             \/ AcceptReturns(h, w, n) \/ NewSocket(h, w, n) \/ OpenTun(h, w, n)
             \/ \E k \in Kinds : OpenRaw(h, w, n, k)
  BY <1>6, <1>7 DEF AcceptReturns, NewSocket, OpenTun, OpenRaw, Opens
<1>8. CASE \E h, g \in Handle : Adopt(h, g)
  BY <1>8 DEF Adopt, Next
<1>9. ASSUME NEW h \in Handle, NEW w \in Wrapper, NEW reads \in BOOLEAN, NEW writes \in BOOLEAN,
             Registers(h, w, reads, writes)
      PROVE  Next
  BY <1>9 DEF Next
<1>10. CASE \E h \in Handle, w \in Wrapper : accept(h, w)
  BY <1>9, <1>10 DEF accept
<1>11. CASE \E h \in Handle, w \in Wrapper, how \in SUBSET {"RD", "WR"} : shutdown(h, w, how)
  <2>1. PICK h \in Handle, w \in Wrapper, how \in SUBSET {"RD", "WR"} :
          Registers(h, w, "RD" \in how, "WR" \in how)
    BY <1>11 DEF shutdown
  <2>2. ("RD" \in how) \in BOOLEAN /\ ("WR" \in how) \in BOOLEAN
    OBVIOUS
  <2> QED BY <1>9, <2>1, <2>2
<1> QED
  BY <1>1, <1>2, <1>4, <1>5, <1>7, <1>8, <1>10, <1>11
     DEF SockNext, sockVars, IoctlAttaches, AcceptFails, connect, listen

(* Sockets implements FileDescriptor.                                      *)
THEOREM SocketsImplement == SockSpec => ImplementsFileDescriptor
<1>1. SockInit => Init
  BY DEF SockInit
<1>2. IInv /\ CallOK /\ [SockNext]_sockVars => IInv' /\ CallOK'
  BY NextIInv, NextCallOK, StepRefines DEF IInv
<1> QED BY <1>1, <1>2, InitIInv, InitCallOK, StepRefines, PTL
           DEF SockSpec, Spec, ImplementsFileDescriptor

(* No constructor, accept() or destructor of the derived classes leaks a   *)
(* number, careful callers or not.                                         *)
THEOREM SocketsLeakNothing == SockSpec => []NoLeak
  BY SocketsImplement, NothingLeaks, PTL DEF ImplementsFileDescriptor

(* And for careful callers and a ::close() that works they close their own *)
(* numbers only, and _closed tells the truth.                              *)
THEOREM SocketsCloseOwn ==
  ASSUME CarefulClient, ~ CloseMayFail
  PROVE  SockSpec => []ClosedFlagTruthful /\ NoForeignClose
  BY SocketsImplement, ClosedFlag, OwnNumbersOnly, PTL DEF ImplementsFileDescriptor
-----------------------------------------------------------------------------
(* The kernel's sockets and the call in progress keep their types, whoever *)
(* calls: only accept() copies a kind, from an object it knows is there.   *)
LEMMA KindsAndStates ==
  /\ \A h \in Handle : IsSocket(h) => Expected[Class[h]] \in Kinds
  /\ NoSocket \in Kinds
  /\ {"idle", "listening", "connected", "attached"} = States
  BY DEF IsSocket, Kinds, States

LEMMA InitKernelTypes == SockInit => KernelTypes
  BY KindsAndStates DEF SockInit, KernelTypes

LEMMA NextKernelTypes ==
  ASSUME TypeOK, KernelTypes, CallOK, [SockNext]_sockVars
  PROVE  KernelTypes'
<1>1. CASE Forget
  BY <1>1, KindsAndStates DEF Forget, KernelTypes
<1>2. CASE UNCHANGED <<kind, state>>
  BY <1>2 DEF KernelTypes
<1>3. ASSUME NEW n \in Number, NEW s \in States,
             kind' = kind, state' = [state EXCEPT ![n] = s]
      PROVE  KernelTypes'
  BY <1>3 DEF KernelTypes
<1>4. CASE IoctlAttaches
  <2>1. fd[internal_fd[call.object]] \in Number
    BY <1>4 DEF IoctlAttaches, CallOK, NoCall, TypeOK
  <2> QED BY <1>3, <1>4, <2>1, KindsAndStates DEF IoctlAttaches
<1>5. CASE \E h \in Handle, w \in Wrapper : connect(h, w) \/ listen(h, w)
  <2>1. PICK h \in Handle, w \in Wrapper : connect(h, w) \/ listen(h, w)
    BY <1>5
  <2>2. fd[w] \in Number
    BY DEF TypeOK
  <2> QED BY <1>3, <2>1, <2>2, KindsAndStates DEF connect, listen
<1>6. CASE \E h \in Handle, w \in Wrapper, how \in SUBSET {"RD", "WR"} : shutdown(h, w, how)
  <2>1. PICK h \in Handle, w \in Wrapper, how \in SUBSET {"RD", "WR"} : shutdown(h, w, how)
    BY <1>6
  <2>2. fd[w] \in Number
    BY DEF TypeOK
  <2> QED BY <1>2, <1>3, <2>1, <2>2, KindsAndStates DEF shutdown
<1>7. ASSUME NEW h \in Handle, NEW w \in Wrapper, NEW n \in Number, NEW k \in Kinds,
             NEW s \in States, Opens(h, w, n, k, s)
      PROVE  KernelTypes'
  BY <1>7 DEF Opens, KernelTypes
<1>8. CASE \E h \in Handle, w \in Wrapper, n \in Number, k \in Kinds : OpenRaw(h, w, n, k)
  BY <1>7, <1>8, KindsAndStates DEF OpenRaw
<1>9. CASE \E h \in Handle, w \in Wrapper, n \in Number : NewSocket(h, w, n) \/ OpenTun(h, w, n)
  <2>1. \A h \in Handle : Class[h] \in {"UDPSocket", "TCPSocket"} => IsSocket(h)
    BY DEF IsSocket, Expected
  <2> QED BY <1>7, <1>9, <2>1, KindsAndStates DEF NewSocket, OpenTun
<1>10. CASE \E g \in Handle, w \in Wrapper, n \in Number : AcceptReturns(g, w, n)
  <2>1. PICK g \in Handle, w \in Wrapper, n \in Number : AcceptReturns(g, w, n)
    BY <1>10
  <2>2. Listener \in Number
    BY <2>1 DEF AcceptReturns, Listener, CallOK, NoCall, TypeOK
  <2>3. kind[Listener] \in Kinds
    BY <2>2 DEF KernelTypes
  <2> QED BY <1>7, <2>1, <2>3, KindsAndStates DEF AcceptReturns
<1> QED
  BY <1>1, <1>2, <1>4, <1>5, <1>6, <1>8, <1>9, <1>10
     DEF SockNext, sockVars, Verify, IoctlFails, AcceptFails, Adopt, accept

(* No object of any class holds a number that is not one, a constructor    *)
(* body or accept() runs on an object whose base is there, and the kernel  *)
(* has a socket of one of the classes' kinds, careful callers or not.      *)
THEOREM SocketsTyped == SockSpec => []SockTypeOK
<1> DEFINE CInv == IInv /\ KernelTypes /\ CallOK
<1>1. SockInit => CInv
  BY InitIInv, InitKernelTypes, InitCallOK DEF SockInit
<1>2. CInv /\ [SockNext]_sockVars => CInv'
  BY NextIInv, NextCallOK, NextKernelTypes, StepRefines DEF IInv
<1>3. CInv => SockTypeOK
  BY DEF IInv, SockTypeOK
<1> QED BY <1>1, <1>2, <1>3, PTL DEF SockSpec
-----------------------------------------------------------------------------
(* What ObjectsAreTyped needs besides: while its constructor runs, and     *)
(* after, a TunTapFD is not a socket, so connect() and listen() on sockets *)
(* leave its state alone.                                                  *)
Typed(h, w) ==
  /\ IsSocket(h) /\ ~ Building(h) => kind[fd[w]] = Expected[Class[h]]
  /\ Class[h] = "TunTapFD" => kind[fd[w]] = NoSocket
  /\ Class[h] = "TunTapFD" /\ ~ Building(h) => state[fd[w]] = "attached"

AllTyped ==
  \A h \in Handle, w \in Wrapper : internal_fd[h] = w /\ ~ closed[w] => Typed(h, w)

TInv == IInv /\ Holds /\ CallOK /\ KernelTypes /\ AllTyped

(* The classes and the kinds of socket are told apart.                     *)
LEMMA Distinct ==
  /\ \A h \in Handle : IsSocket(h) => /\ Class[h] # "TunTapFD" /\ Class[h] # "FileDescriptor"
                                      /\ Expected[Class[h]] # NoSocket
                                      /\ Expected[Class[h]] \in Kinds
  /\ NoSocket \in Kinds
  /\ "TunTapFD" # "FileDescriptor"
  BY SocketsAssumption DEF IsSocket, Expected, NoSocket, Kinds

LEMMA InitTInv == SockInit => TInv
<1> SUFFICES ASSUME SockInit PROVE TInv
  OBVIOUS
<1>1. Init /\ CallOK
  BY InitCallOK DEF SockInit
<1>2. IInv
  BY <1>1, InitIInv
<1>3. Holds /\ AllTyped
  BY <1>1, FileDescriptorAssumption DEF Init, Holds, AllTyped
<1>4. KernelTypes
  BY InitKernelTypes
<1> QED BY <1>1, <1>2, <1>3, <1>4 DEF TInv

(* Steps after which every open object was there before, in a variable of  *)
(* the same class and complete, or is a plain FileDescriptor.              *)
LEMMA ForgetTyped ==
  ASSUME TInv, Holds', Forget, fd' = fd,
         \A w \in Wrapper : closed[w] => closed'[w],
         table' \in [Number -> Wrapper \cup {Free, Other}],
         \A h \in Handle, w \in Wrapper : internal_fd'[h] = w =>
            \/ Class[h] = "FileDescriptor"
            \/ \E g \in Handle : Class[g] = Class[h] /\ internal_fd[g] = w /\ ~ Building(g)
  PROVE  KernelTypes' /\ AllTyped'
<1>1. KernelTypes'
  BY Distinct DEF TInv, KernelTypes, Forget, States
<1>2. AllTyped'
  <2> SUFFICES ASSUME NEW h \in Handle, NEW w \in Wrapper, internal_fd'[h] = w, ~ closed'[w]
               PROVE  Typed(h, w)'
    BY DEF AllTyped
  <2>1. table'[fd[w]] = w /\ fd[w] \in Number /\ ~ closed[w]
    BY DEF Holds, TInv, IInv, TypeOK
  <2>2. kind'[fd[w]] = kind[fd[w]] /\ state'[fd[w]] = state[fd[w]]
    BY <2>1, FileDescriptorAssumption DEF Forget
  <2>3. CASE Class[h] = "FileDescriptor"
    BY <2>3, Distinct DEF Typed, IsSocket
  <2>4. CASE \E g \in Handle : Class[g] = Class[h] /\ internal_fd[g] = w /\ ~ Building(g)
    BY <2>1, <2>2, <2>4 DEF Typed, IsSocket, AllTyped, TInv
  <2> QED BY <2>3, <2>4
<1> QED BY <1>1, <1>2

(* A new number of kind k in state s disturbs no object that was there.    *)
LEMMA OpensTyped ==
  ASSUME TInv, Holds', NEW h \in Handle, NEW w \in Wrapper, NEW n \in Number,
         NEW k \in Kinds, NEW s \in States,
         Opens(h, w, n, k, s),
         \A g \in Handle \ {h} : ~ Building(g),
         Typed(h, w)'
  PROVE  KernelTypes' /\ AllTyped'
<1>1. KernelTypes'
  BY DEF TInv, KernelTypes, Opens, States
<1>2. AllTyped'
  <2> SUFFICES ASSUME NEW g \in Handle, NEW v \in Wrapper, internal_fd'[g] = v, ~ closed'[v]
               PROVE  Typed(g, v)'
    BY DEF AllTyped
  <2>1. /\ internal_fd' = [internal_fd EXCEPT ![h] = w] /\ w \notin born
        /\ fd' = [fd EXCEPT ![w] = n] /\ closed' = closed /\ table[n] = Free
        /\ kind' = [kind EXCEPT ![n] = k] /\ state' = [state EXCEPT ![n] = s]
    BY DEF Opens, Construct, LowestFree, flags
  <2>2. CASE g = h
    BY <2>1, <2>2 DEF TInv, IInv, TypeOK
  <2>3. CASE g # h
    <3>1. internal_fd[g] = v /\ v # w /\ ~ closed[v]
      BY <2>1, <2>3 DEF TInv, IInv, TypeOK, Unborn
    <3>2. fd'[v] = fd[v] /\ fd[v] \in Number /\ fd[v] # n
      BY <2>1, <3>1, FileDescriptorAssumption DEF TInv, Holds, IInv, TypeOK
    <3>3. kind'[fd[v]] = kind[fd[v]] /\ state'[fd[v]] = state[fd[v]]
      BY <2>1, <3>2 DEF TInv, KernelTypes
    <3>4. Typed(g, v) /\ ~ Building(g)
      BY <2>3, <3>1 DEF TInv, AllTyped
    <3> QED BY <3>2, <3>3, <3>4 DEF Typed
  <2> QED BY <2>2, <2>3
<1> QED BY <1>1, <1>2

(* close() and the destructors only ever set _closed.                      *)
LEMMA ClosedStays ==
  ASSUME IInv
  PROVE  /\ \A w \in Wrapper : WrapperClose(w) =>
               \A v \in Wrapper : closed[v] => closed'[v]
         /\ \A f \in [Handle -> Wrapper \cup {Null}] : Repoint(f) =>
               \A v \in Wrapper : closed[v] => closed'[v]
<1>1. ASSUME NEW w \in Wrapper, WrapperClose(w), NEW v \in Wrapper, closed[v] PROVE closed'[v]
  <2>1. CASE CloseSucceeds(w)
    BY <1>1, <2>1 DEF CloseSucceeds, IInv, TypeOK
  <2>2. CASE CloseThrows(w)
    BY <1>1, <2>2 DEF CloseThrows
  <2> QED BY <1>1, <2>1, <2>2 DEF WrapperClose
<1>2. ASSUME NEW f \in [Handle -> Wrapper \cup {Null}], Repoint(f),
             NEW v \in Wrapper, closed[v]
      PROVE  closed'[v]
  <2> DEFINE lost == Referenced(internal_fd) \ Referenced(f)
  <2>1. lost \subseteq Wrapper
    BY DEF Referenced, IInv, TypeOK
  <2>2. CASE UNCHANGED <<flags, kernel>>
    BY <1>2, <2>2 DEF flags
  <2>3. CASE ~ UNCHANGED <<flags, kernel>>
    <3>1. PICK w \in lost : DestroyWrapper(w)
      BY <1>2, <2>3 DEF Repoint
    <3>2. w \in Wrapper /\ WrapperClose(w)
      BY <2>1, <2>3, <3>1 DEF DestroyWrapper
    <3> QED BY <1>1, <1>2, <3>2
  <2> QED BY <2>2, <2>3
<1> QED BY <1>1, <1>2

(* The calls inherited from FileDescriptor.                                *)
LEMMA InheritedTyped ==
  ASSUME TInv, IInv', Holds', call = NoCall, Inherited, Forget
  PROVE  KernelTypes' /\ AllTyped'
<1> USE FileDescriptorAssumption
<1> DEFINE Kept == /\ fd' = fd
                   /\ \A w \in Wrapper : closed[w] => closed'[w]
                   /\ \A h \in Handle, w \in Wrapper : internal_fd'[h] = w =>
                        \/ Class[h] = "FileDescriptor"
                        \/ \E g \in Handle : Class[g] = Class[h] /\ internal_fd[g] = w
<1>1. ASSUME NEW h \in Handle, NEW g \in Handle, Class[g] = "FileDescriptor", duplicate(h, g)
      PROVE  Kept
  BY <1>1 DEF duplicate, flags, TInv, IInv, TypeOK
<1>2. ASSUME NEW h \in Handle, NEW g \in Handle,
             Class[g] \in {Class[h], "FileDescriptor"}, Move(h, g)
      PROVE  Kept
  <2> DEFINE f == [internal_fd EXCEPT ![g] = internal_fd[h], ![h] = Null]
  <2>1. f \in [Handle -> Wrapper \cup {Null}] /\ Repoint(f)
    BY <1>2 DEF Move, TInv, IInv, TypeOK
  <2>2. fd' = fd /\ \A w \in Wrapper : closed[w] => closed'[w]
    BY <2>1, ClosedStays DEF Repoint, TInv
  <2>3. internal_fd' = f
    BY <2>1 DEF Repoint
  <2> QED BY <1>2, <2>2, <2>3 DEF TInv, IInv, TypeOK
<1>3. ASSUME NEW h \in Handle, Destroy(h) PROVE Kept
  <2> DEFINE f == [internal_fd EXCEPT ![h] = Null]
  <2>1. f \in [Handle -> Wrapper \cup {Null}] /\ Repoint(f)
    BY <1>3 DEF Destroy, TInv, IInv, TypeOK
  <2>2. fd' = fd /\ \A w \in Wrapper : closed[w] => closed'[w]
    BY <2>1, ClosedStays DEF Repoint, TInv
  <2>3. internal_fd' = f
    BY <2>1 DEF Repoint
  <2> QED BY <2>2, <2>3 DEF TInv, IInv, TypeOK
<1>4. ASSUME NEW h \in Handle, NEW w \in Wrapper, close(h, w) PROVE Kept
  BY <1>4, ClosedStays DEF close, TInv
<1>5. ASSUME NEW h \in Handle, NEW w \in Wrapper,
             NEW limit \in 0 .. 1, NEW bytes_read \in 0 .. 1, read(h, w, limit, bytes_read)
      PROVE  Kept
  BY <1>5 DEF read
<1>6. ASSUME NEW h \in Handle, NEW w \in Wrapper, write(h, w) PROVE Kept
  BY <1>6 DEF write
<1>7. ASSUME NEW h \in Handle, NEW w \in Wrapper, NEW b \in BOOLEAN, set_blocking(h, w, b)
      PROVE  Kept
  BY <1>7 DEF set_blocking, flags
<1>8. Kept
  BY <1>1, <1>2, <1>3, <1>4, <1>5, <1>6, <1>7 DEF Inherited
<1>9. \A g \in Handle : ~ Building(g)
  BY DEF Building, NoCall
<1> QED BY <1>8, <1>9, ForgetTyped DEF IInv, TypeOK

(* A constructor that throws takes its object with it.                     *)
LEMMA UnwindTyped ==
  ASSUME TInv, IInv', Holds', Unwind(call.object), call.object \in Handle, Forget,
         call.op \in {"verify", "ioctl"}
  PROVE  KernelTypes' /\ AllTyped'
<1> DEFINE f == [internal_fd EXCEPT ![call.object] = Null]
<1>1. f \in [Handle -> Wrapper \cup {Null}] /\ Repoint(f)
  BY DEF Unwind, Destroy, TInv, IInv, TypeOK
<1>2. fd' = fd /\ internal_fd' = f /\ \A w \in Wrapper : closed[w] => closed'[w]
  BY <1>1, ClosedStays DEF Repoint, TInv
<1>3. \A h \in Handle, w \in Wrapper : internal_fd'[h] = w =>
        internal_fd[h] = w /\ ~ Building(h)
  BY <1>2, FileDescriptorAssumption DEF TInv, IInv, TypeOK, Building
<1> QED BY <1>2, <1>3, ForgetTyped DEF IInv, TypeOK

(* Every step keeps the objects typed.                                     *)
LEMMA NextTyped ==
  ASSUME TInv, IInv', Holds', [SockNext]_sockVars
  PROVE  KernelTypes' /\ AllTyped'
<1> DEFINE Quiet == \A h \in Handle : ~ Building(h)
<1>0. /\ (call = NoCall \/ call.op = "accept") => Quiet
      /\ call.op # "none" => call.object \in Handle
      /\ call.op = "verify" => IsSocket(call.object)
      /\ call.op = "ioctl" => Class[call.object] = "TunTapFD"
      /\ call.op = "accept" => internal_fd[call.object] \in Wrapper
  BY DEF Building, NoCall, TInv, CallOK
<1>1. CASE (\E n \in Number : OtherOpens(n) \/ OtherCloses(n)) /\ Forget /\ UNCHANGED call
  <2>1. fd' = fd /\ closed' = closed /\ internal_fd' = internal_fd
    BY <1>1 DEF OtherOpens, OtherCloses, flags
  <2>2. KernelTypes'
    BY <1>1, Distinct DEF TInv, KernelTypes, Forget, States
  <2>3. ASSUME NEW h \in Handle, NEW w \in Wrapper, internal_fd[h] = w, ~ closed[w]
        PROVE  Typed(h, w)'
    <3>1. table'[fd[w]] = w /\ fd[w] \in Number
      BY <2>1, <2>3 DEF Holds, TInv, IInv, TypeOK
    <3>2. kind'[fd[w]] = kind[fd[w]] /\ state'[fd[w]] = state[fd[w]]
      BY <1>1, <3>1, FileDescriptorAssumption DEF Forget
    <3> QED BY <1>1, <2>1, <2>3, <3>2 DEF Typed, Building, AllTyped, TInv
  <2> QED BY <2>1, <2>2, <2>3 DEF AllTyped
<1>2. CASE Verify
  <2>1. CASE Matches(call.object)
    <3>1. UNCHANGED vars /\ Forget /\ call' = NoCall
      BY <1>2, <2>1 DEF Verify
    <3>2. KernelTypes'
      BY <3>1, Distinct DEF TInv, KernelTypes, Forget, States
    <3>3. ASSUME NEW h \in Handle, NEW w \in Wrapper, internal_fd[h] = w, ~ closed[w]
          PROVE  Typed(h, w)'
      <4>1. table'[fd[w]] = w /\ fd[w] \in Number /\ fd' = fd
        BY <3>1, <3>3 DEF vars, Holds, TInv, IInv, TypeOK
      <4>2. kind'[fd[w]] = kind[fd[w]] /\ state'[fd[w]] = state[fd[w]]
        BY <3>1, <4>1, FileDescriptorAssumption DEF Forget
      <4>3. Typed(h, w)
        BY <3>3 DEF TInv, AllTyped
      <4>4. CASE ~ Building(h)
        BY <4>1, <4>2, <4>3, <4>4 DEF Typed
      <4>5. CASE Building(h)
        <5>1. kind[fd[w]] = Expected[Class[h]]
          BY <2>1, <3>3, <4>5 DEF Building, Matches
        <5>2. Class[h] # "TunTapFD"
          BY <1>0, <1>2, <4>5, Distinct DEF Verify, Building
        <5> QED BY <4>1, <4>2, <5>1, <5>2 DEF Typed
      <4> QED BY <4>4, <4>5
    <3> QED BY <3>1, <3>2, <3>3 DEF AllTyped, vars
  <2>2. CASE ~ Matches(call.object)
    BY <1>0, <1>2, <2>2, UnwindTyped DEF Verify
  <2> QED BY <2>1, <2>2
<1>3. CASE IoctlFails
  BY <1>0, <1>3, UnwindTyped DEF IoctlFails
<1>4. CASE IoctlAttaches
  <2>1. /\ UNCHANGED <<vars, kind>> /\ call.op = "ioctl" /\ call' = NoCall
        /\ state' = [state EXCEPT ![fd[internal_fd[call.object]]] = "attached"]
    BY <1>4 DEF IoctlAttaches
  <2>2. KernelTypes'
    BY <2>1 DEF TInv, KernelTypes, States
  <2>3. ASSUME NEW h \in Handle, NEW w \in Wrapper, internal_fd[h] = w, ~ closed[w]
        PROVE  Typed(h, w)'
    <3>1. Typed(h, w) /\ fd' = fd /\ fd[w] \in Number
      BY <2>1, <2>3 DEF TInv, AllTyped, vars, IInv, TypeOK
    <3>2. state'[fd[w]] \in {state[fd[w]], "attached"}
      BY <2>1, <3>1 DEF TInv, KernelTypes
    <3>3. CASE Building(h)
      <4>1. Class[h] = "TunTapFD" /\ state'[fd[w]] = "attached"
        BY <1>0, <2>1, <2>3, <3>1, <3>3 DEF Building, TInv, KernelTypes
      <4> QED BY <2>1, <3>1, <4>1, Distinct DEF Typed
    <3> QED BY <2>1, <3>1, <3>2, <3>3 DEF Typed
  <2> QED BY <2>1, <2>2, <2>3 DEF AllTyped, vars
<1>5. CASE UNCHANGED <<vars, kind, state>> /\ Quiet
  BY <1>5 DEF TInv, KernelTypes, AllTyped, Typed, vars
<1>6. CASE AcceptFails
  BY <1>0, <1>5, <1>6 DEF AcceptFails
<1>7. CASE \E h \in Handle, w \in Wrapper : accept(h, w) /\ Quiet
  BY <1>7 DEF accept, Registers, kernel, TInv, KernelTypes, AllTyped, Typed
<1>8. CASE \E h \in Handle, w \in Wrapper, how \in SUBSET {"RD", "WR"} : shutdown(h, w, how) /\ Quiet
  <2>1. PICK h \in Handle, w \in Wrapper, how \in SUBSET {"RD", "WR"} : shutdown(h, w, how) /\ Quiet
    BY <1>8
  <2>2. /\ UNCHANGED <<kind, call, fd, internal_fd, closed>> /\ internal_fd[h] = w
        /\ state[fd[w]] \in {"connected", "listening"}
        /\ state' = [state EXCEPT ![fd[w]] = "idle"] \/ state' = state
    BY <2>1 DEF shutdown, Registers, Uses
  <2>3. KernelTypes'
    BY <2>2 DEF TInv, KernelTypes, States
  <2>4. ASSUME NEW g \in Handle, NEW v \in Wrapper, internal_fd[g] = v, ~ closed[v]
        PROVE  Typed(g, v)'
    <3>1. Typed(g, v) /\ fd[v] \in Number /\ ~ Building(g)
      BY <2>1, <2>4 DEF TInv, AllTyped, IInv, TypeOK
    <3>2. Class[g] = "TunTapFD" => state[fd[v]] = "attached" /\ fd[v] # fd[w]
      BY <2>2, <3>1 DEF Typed
    <3>3. Class[g] = "TunTapFD" => state'[fd[v]] = "attached"
      BY <2>2, <3>1, <3>2 DEF TInv, KernelTypes
    <3> QED BY <2>2, <3>1, <3>3 DEF Typed
  <2> QED BY <2>2, <2>3, <2>4 DEF AllTyped
<1>9. CASE \E h \in Handle, w \in Wrapper : (connect(h, w) \/ listen(h, w)) /\ Quiet
  <2>1. PICK h \in Handle, w \in Wrapper : (connect(h, w) \/ listen(h, w)) /\ Quiet
    BY <1>9
  <2>2. /\ UNCHANGED <<vars, kind, call>> /\ IsSocket(h) /\ internal_fd[h] = w
        /\ state[fd[w]] \in {"idle", "listening"}
        /\ state' = [state EXCEPT ![fd[w]] = "connected"]
           \/ state' = [state EXCEPT ![fd[w]] = "listening"]
    BY <2>1 DEF connect, listen, Uses, IsSocket, Expected
  <2>3. KernelTypes'
    BY <2>2 DEF TInv, KernelTypes, States
  <2>4. ASSUME NEW g \in Handle, NEW v \in Wrapper, internal_fd[g] = v, ~ closed[v]
        PROVE  Typed(g, v)'
    <3>1. Typed(g, v) /\ fd' = fd /\ fd[v] \in Number /\ ~ Building(g)
      BY <2>1, <2>2, <2>4 DEF TInv, AllTyped, vars, IInv, TypeOK
    <3>2. Class[g] = "TunTapFD" => state[fd[v]] = "attached" /\ fd[v] # fd[w]
      BY <2>2, <3>1 DEF Typed
    <3>3. Class[g] = "TunTapFD" => state'[fd[v]] = "attached"
      BY <2>2, <3>1, <3>2 DEF TInv, KernelTypes
    <3> QED BY <2>2, <3>1, <3>3 DEF Typed
  <2> QED BY <2>2, <2>3, <2>4 DEF AllTyped, vars
<1>10. CASE \E h, g \in Handle : Adopt(h, g) /\ Quiet
  <2>1. PICK h \in Handle, g \in Handle : Adopt(h, g) /\ Quiet
    BY <1>10
  <2> DEFINE f == [internal_fd EXCEPT ![g] = internal_fd[h], ![h] = Null]
  <2>2. f \in [Handle -> Wrapper \cup {Null}] /\ Repoint(f) /\ internal_fd' = f /\ fd' = fd
    BY <2>1 DEF Adopt, Move, Repoint, TInv, IInv, TypeOK
  <2>3. \A w \in Wrapper : closed[w] => closed'[w]
    BY <2>2, ClosedStays DEF TInv
  <2>4. IsSocket(g) /\ Building(g)' /\ UNCHANGED <<kind, state>>
    BY <2>1 DEF Adopt, IsSocket, Expected, Building
  <2>5. ASSUME NEW x \in Handle, NEW w \in Wrapper, f[x] = w, ~ closed'[w]
        PROVE  Typed(x, w)'
    <3>1. CASE x = g
      BY <2>4, <3>1, Distinct DEF Typed
    <3>2. CASE x # g
      BY <2>1, <2>2, <2>3, <2>4, <2>5, <3>2, FileDescriptorAssumption
         DEF Typed, TInv, AllTyped, IInv, TypeOK
    <3> QED BY <3>1, <3>2
  <2> QED BY <2>2, <2>4, <2>5 DEF AllTyped, KernelTypes, TInv
<1>11. ASSUME NEW h \in Handle, NEW w \in Wrapper, NEW n \in Number, NEW k \in Kinds,
              NEW st \in States, Opens(h, w, n, k, st), Quiet, Typed(h, w)'
       PROVE  KernelTypes' /\ AllTyped'
  BY <1>11, OpensTyped
<1>12. ASSUME NEW h \in Handle, NEW w \in Wrapper, NEW n \in Number, NEW k \in Kinds,
              NEW st \in States, Opens(h, w, n, k, st)
       PROVE  fd'[w] = n /\ kind'[n] = k
  BY <1>12 DEF Opens, Construct, TInv, KernelTypes, IInv, TypeOK
<1>13. CASE \E h \in Handle, w \in Wrapper, n \in Number, k \in Kinds : OpenRaw(h, w, n, k) /\ Quiet
  <2>1. PICK h \in Handle, w \in Wrapper, n \in Number, k \in Kinds : OpenRaw(h, w, n, k) /\ Quiet
    BY <1>13
  <2>2. Typed(h, w)'
    BY <2>1, Distinct DEF OpenRaw, Typed
  <2> QED BY <1>11, <2>1, <2>2, KindsAndStates DEF OpenRaw
<1>14. CASE \E h \in Handle, w \in Wrapper, n \in Number : NewSocket(h, w, n) /\ Quiet
  <2>1. PICK h \in Handle, w \in Wrapper, n \in Number : NewSocket(h, w, n) /\ Quiet
    BY <1>14
  <2>2. IsSocket(h)
    BY <2>1 DEF NewSocket, IsSocket, Expected
  <2>3. Expected[Class[h]] \in Kinds /\ Class[h] # "TunTapFD"
    BY <2>2, Distinct
  <2>4. Opens(h, w, n, Expected[Class[h]], "idle")
    BY <2>1 DEF NewSocket
  <2>5. fd'[w] = n /\ kind'[n] = Expected[Class[h]]
    BY <1>12, <2>3, <2>4, KindsAndStates
  <2>6. Typed(h, w)'
    BY <2>3, <2>5 DEF Typed
  <2> QED BY <1>11, <2>1, <2>3, <2>4, <2>6, KindsAndStates
<1>15. CASE \E h \in Handle, w \in Wrapper, n \in Number : OpenTun(h, w, n) /\ Quiet
  <2>1. PICK h \in Handle, w \in Wrapper, n \in Number : OpenTun(h, w, n) /\ Quiet
    BY <1>15
  <2>2. Opens(h, w, n, NoSocket, "idle") /\ Building(h)' /\ Class[h] = "TunTapFD"
    BY <2>1 DEF OpenTun, Building
  <2>3. fd'[w] = n /\ kind'[n] = NoSocket
    BY <1>12, <2>2, Distinct, KindsAndStates
  <2>4. Typed(h, w)'
    BY <2>2, <2>3, Distinct DEF Typed
  <2> QED BY <1>11, <2>1, <2>2, <2>4, Distinct, KindsAndStates
<1>16. CASE \E g \in Handle, w \in Wrapper, n \in Number : AcceptReturns(g, w, n)
  <2>1. PICK g \in Handle, w \in Wrapper, n \in Number : AcceptReturns(g, w, n)
    BY <1>16
  <2>2. /\ Opens(g, w, n, kind[Listener], "connected") /\ Building(g)'
        /\ Class[g] = "TCPSocket" /\ Quiet
    BY <1>0, <2>1 DEF AcceptReturns, Building
  <2>3. kind[Listener] \in Kinds
    BY <1>0, <2>1 DEF AcceptReturns, Listener, TInv, KernelTypes, IInv, TypeOK
  <2>4. Typed(g, w)'
    BY <2>2, Distinct DEF Typed
  <2> QED BY <1>11, <2>2, <2>3, <2>4, KindsAndStates
<1>17. CASE call = NoCall /\ Inherited /\ Forget
  BY <1>17, InheritedTyped
<1>18. CASE UNCHANGED sockVars
  BY <1>18 DEF sockVars, vars, TInv, KernelTypes, AllTyped, Typed, Building
<1> QED
  BY <1>0, <1>1, <1>2, <1>3, <1>4, <1>6, <1>7, <1>8, <1>9, <1>10, <1>13, <1>14, <1>15,
     <1>16, <1>17, <1>18
     DEF SockNext

(* An object is what its class says, for careful callers and a ::close()   *)
(* that works.                                                             *)
THEOREM TypedObjects ==
  ASSUME CarefulClient, ~ CloseMayFail
  PROVE  SockSpec => []ObjectsAreTyped
<1>1. TInv /\ [SockNext]_sockVars => TInv'
  <2> SUFFICES ASSUME TInv, [SockNext]_sockVars PROVE TInv'
    OBVIOUS
  <2>1. CallOK' /\ [Next]_vars
    BY NextCallOK, StepRefines DEF TInv, IInv
  <2>2. IInv' /\ Holds'
    BY <2>1, NextIInv, CarefulStep DEF TInv
  <2> QED BY <2>1, <2>2, NextTyped DEF TInv
<1>2. TInv => ObjectsAreTyped
  BY DEF TInv, IInv, TypeOK, AllTyped, Typed, ObjectsAreTyped
<1> QED BY <1>1, <1>2, InitTInv, PTL DEF SockSpec

=============================================================================
