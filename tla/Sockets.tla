------------------------------ MODULE Sockets -------------------------------
(***************************************************************************)
(* The classes derived from FileDescriptor: Socket with UDPSocket,         *)
(* TCPSocket and LocalStreamSocket (libsponge/util/socket.{hh,cc}), and    *)
(* TunTapFD (libsponge/util/tun.{hh,cc}).  An object is a FileDescriptor   *)
(* whose constructor did more: it opened a socket, verified what it was    *)
(* given, or attached a device.  The base is complete before that body     *)
(* runs, and is destroyed if the body throws; `call` is the constructor    *)
(* body, or the accept(), in progress.  Addresses and datagrams are in     *)
(* module UDPSocket.                                                       *)
(***************************************************************************)
EXTENDS FileDescriptor

CONSTANT Class   \* [Handle -> class name]: the static type of each variable

VARIABLES
  kind,    \* kernel: [Number -> Kinds], <<domain, type>> or NoSocket
  state,   \* kernel: [Number -> States]
  call     \* [op |-> "none", "verify", "ioctl" or "accept", object |-> handle]

sockVars == <<vars, kind, state, call>>

NoSocket == <<"none", "none">>
NoCall == [op |-> "none", object |-> Null]

(* The domain and type each class asks for.                                *)
Expected ==
  [UDPSocket         |-> <<"AF_INET", "SOCK_DGRAM">>,
   TCPSocket         |-> <<"AF_INET", "SOCK_STREAM">>,
   LocalStreamSocket |-> <<"AF_UNIX", "SOCK_STREAM">>]

Kinds == {Expected[c] : c \in DOMAIN Expected} \cup {NoSocket}
States == {"idle", "listening", "connected", "attached"}

ASSUME SocketsAssumption ==
  /\ Null \notin Handle
  /\ Class \in [Handle -> DOMAIN Expected \cup {"FileDescriptor", "TunTapFD"}]

IsSocket(h) == Class[h] \in DOMAIN Expected

SockInit ==
  /\ Init
  /\ kind = [n \in Number |-> NoSocket]
  /\ state = [n \in Number |-> "idle"]
  /\ call = NoCall
-----------------------------------------------------------------------------
(* Kernel: what is closed is forgotten, the rest stays as it was.          *)
Forget ==
  /\ kind' = [n \in Number |-> IF table'[n] = Free THEN NoSocket ELSE kind[n]]
  /\ state' = [n \in Number |-> IF table'[n] = Free THEN "idle" ELSE state[n]]

(* h becomes a FileDescriptor on a new number, of kind k and in state s.   *)
Opens(h, w, n, k, s) ==
  /\ Construct(h, w, n)
  /\ kind' = [kind EXCEPT ![n] = k]
  /\ state' = [state EXCEPT ![n] = s]

(* The calls that FileDescriptor itself offers: on any object, except that *)
(* a variable only takes over what its class allows, and duplicate() and   *)
(* slicing moves make plain FileDescriptors.                               *)
Inherited ==
  \/ \E h, g \in Handle : Class[g] = "FileDescriptor" /\ duplicate(h, g)
  \/ \E h, g \in Handle : Class[g] \in {Class[h], "FileDescriptor"} /\ Move(h, g)
  \/ \E h \in Handle : Destroy(h)
  \/ \E h \in Handle, w \in Wrapper : close(h, w)
  \/ \E h \in Handle, w \in Wrapper, limit, bytes_read \in 0 .. 1 :
        read(h, w, limit, bytes_read)
  \/ \E h \in Handle, w \in Wrapper : write(h, w)
  \/ \E h \in Handle, w \in Wrapper, b \in BOOLEAN : set_blocking(h, w, b)

(* FileDescriptor(::open(...)), or one end of a ::socketpair().            *)
OpenRaw(h, w, n, k) ==
  /\ Class[h] = "FileDescriptor"
  /\ Opens(h, w, n, k, IF k[1] = "AF_UNIX" THEN "connected" ELSE "idle")
  /\ UNCHANGED call

(* UDPSocket() and TCPSocket(): Socket(domain, type).                      *)
NewSocket(h, w, n) ==
  /\ Class[h] \in {"UDPSocket", "TCPSocket"}
  /\ Opens(h, w, n, Expected[Class[h]], "idle")
  /\ UNCHANGED call

(* Socket(FileDescriptor &&, domain, type): the base takes h's descriptor. *)
(* The class TCPSocket keeps this constructor for accept().                *)
Adopt(h, g) ==
  /\ Class[h] = "FileDescriptor" /\ Class[g] \in {"UDPSocket", "LocalStreamSocket"}
  /\ internal_fd[g] = Null
  /\ \E w \in Wrapper : Uses(h, w)
  /\ Move(h, g)
  /\ call' = [op |-> "verify", object |-> g]
  /\ UNCHANGED <<kind, state>>

(* A constructor's body throws: the base g, complete already, is destroyed. *)
Unwind_KeepsBase(g) ==
  /\ internal_fd' = [internal_fd EXCEPT ![g] = Null]
  /\ UNCHANGED <<born, fd, flags, kernel>>
Unwind(g) == Destroy(g)

(* The two getsockopt() calls: what the kernel has must match.             *)
Matches_DomainOnly(g) == kind[fd[internal_fd[g]]][1] = Expected[Class[g]][1]
Matches(g) == kind[fd[internal_fd[g]]] = Expected[Class[g]]

Verify ==
  /\ call.op = "verify"
  /\ IF Matches(call.object) THEN UNCHANGED vars ELSE Unwind(call.object)
  /\ Forget
  /\ call' = NoCall

(* TunTapFD(devname): ::open() for the base, then ioctl(TUNSETIFF).        *)
OpenTun(h, w, n) ==
  /\ Class[h] = "TunTapFD"
  /\ Opens(h, w, n, NoSocket, "idle")
  /\ call' = [op |-> "ioctl", object |-> h]

IoctlAttaches ==
  /\ call.op = "ioctl"
  /\ state' = [state EXCEPT ![fd[internal_fd[call.object]]] = "attached"]
  /\ call' = NoCall
  /\ UNCHANGED <<vars, kind>>

IoctlFails ==
  /\ call.op = "ioctl"
  /\ Unwind(call.object)
  /\ Forget
  /\ call' = NoCall

(* connect() and listen(), when the system call does not fail.             *)
connect(h, w) ==
  /\ IsSocket(h) /\ Uses(h, w)
  /\ state[fd[w]] = "idle"
  /\ state' = [state EXCEPT ![fd[w]] = "connected"]
  /\ UNCHANGED <<vars, kind, call>>

listen(h, w) ==
  /\ Class[h] = "TCPSocket" /\ Uses(h, w)
  /\ state[fd[w]] \in {"idle", "listening"}
  /\ state' = [state EXCEPT ![fd[w]] = "listening"]
  /\ UNCHANGED <<vars, kind, call>>

(* shutdown(how): how is the directions shut down.  ::shutdown() refuses   *)
(* any other `how` before the switch, and a socket that neither has a peer *)
(* nor listens; shutting down the reads of a listener ends its listening.  *)
shutdown(h, w, how) ==
  /\ IsSocket(h) /\ Uses(h, w)
  /\ state[fd[w]] \in {"connected", "listening"}
  /\ how # {}
  /\ Registers(h, w, "RD" \in how, "WR" \in how)
  /\ state' = IF state[fd[w]] = "listening" /\ "RD" \in how
                THEN [state EXCEPT ![fd[w]] = "idle"] ELSE state
  /\ UNCHANGED <<kind, call>>

(* accept(): counts as a read before ::accept() blocks, fails or returns.  *)
accept(h, w) ==
  /\ Class[h] = "TCPSocket"
  /\ Registers(h, w, TRUE, FALSE)
  /\ call' = [op |-> "accept", object |-> h]
  /\ UNCHANGED <<kind, state>>

Listener == fd[internal_fd[call.object]]

AcceptReturns(g, w, n) ==
  /\ call.op = "accept" /\ state[Listener] = "listening"
  /\ Class[g] = "TCPSocket"
  /\ Opens(g, w, n, kind[Listener], "connected")
  /\ call' = [op |-> "verify", object |-> g]

AcceptFails ==
  /\ call.op = "accept"
  /\ call' = NoCall
  /\ UNCHANGED <<vars, kind, state>>

SockNext ==
  \/ /\ \E n \in Number : OtherOpens(n) \/ OtherCloses(n)
     /\ Forget /\ UNCHANGED call
  \/ Verify \/ IoctlAttaches \/ IoctlFails \/ AcceptFails
  \/ \E g \in Handle, w \in Wrapper, n \in Number : AcceptReturns(g, w, n)
  \/ /\ call = NoCall
     /\ \/ Inherited /\ Forget /\ UNCHANGED call
        \/ \E h \in Handle, w \in Wrapper, n \in Number, k \in Kinds : OpenRaw(h, w, n, k)
        \/ \E h \in Handle, w \in Wrapper, n \in Number :
              NewSocket(h, w, n) \/ OpenTun(h, w, n)
        \/ \E h, g \in Handle : Adopt(h, g)
        \/ \E h \in Handle, w \in Wrapper : connect(h, w) \/ listen(h, w) \/ accept(h, w)
        \/ \E h \in Handle, w \in Wrapper, how \in SUBSET {"RD", "WR"} : shutdown(h, w, how)

SockSpec == SockInit /\ [][SockNext]_sockVars
-----------------------------------------------------------------------------
(* Type invariant, the kernel's sockets and the call in progress included: *)
(* a constructor body or accept() runs on an object whose base is there,   *)
(* and no object holds a number that is not one.                           *)
CallOK ==
  \/ call = NoCall
  \/ \E h \in Handle :
       /\ internal_fd[h] \in Wrapper
       /\ \/ call = [op |-> "verify", object |-> h] /\ IsSocket(h)
          \/ call = [op |-> "ioctl", object |-> h] /\ Class[h] = "TunTapFD"
          \/ call = [op |-> "accept", object |-> h] /\ Class[h] = "TCPSocket"

KernelTypes == kind \in [Number -> Kinds] /\ state \in [Number -> States]

SockTypeOK == TypeOK /\ KernelTypes /\ CallOK

(* The object whose constructor is still running.                          *)
Building(h) == call.op \in {"verify", "ioctl"} /\ call.object = h

(* An object is what its class says: a constructed socket that is not      *)
(* closed has a kernel socket of its class's domain and type, whichever    *)
(* constructor, move or accept() it came from and however its number was   *)
(* reused, and a constructed TunTapFD is attached to its device.           *)
ObjectsAreTyped ==
  \A h \in Handle :
    internal_fd[h] # Null /\ ~ Building(h) /\ ~ closed[internal_fd[h]] =>
      LET n == fd[internal_fd[h]]
      IN  /\ IsSocket(h) => kind[n] = Expected[Class[h]]
          /\ Class[h] = "TunTapFD" => state[n] = "attached"

(* The derived classes only do what FileDescriptor does: every step of     *)
(* theirs, constructors that throw half-way included, is a step of         *)
(* FileDescriptor or leaves it alone, so its results are theirs.           *)
ImplementsFileDescriptor == Spec
=============================================================================
