----------------------------- MODULE UDPSocket ------------------------------
(***************************************************************************)
(* class UDPSocket (libsponge/util/socket.{hh,cc}) with the Address of     *)
(* each datagram, over a network that loses, duplicates and reorders, and  *)
(* kernel sockets with bounded queues.  The payload of the k-th datagram   *)
(* is some number of bytes k.  A call that fails in the kernel throws and  *)
(* is an action only where it changes something.                           *)
(***************************************************************************)
EXTENDS Address, FiniteSets

CONSTANTS
  Sock,         \* UDPSocket objects
  Endpoint,     \* <<ip, port>> pairs that can be bound
  Lengths,      \* lengths of the payloads sent
  Mtus,         \* values of mtu that callers pass to recv()
  MaxDatagram,  \* the longest datagram the kernel sends
  MaxQueue,     \* room in a socket's receive queue
  CountMod,     \* 2^32: read_count and write_count are unsigned int
  Copies        \* copies the network makes of the first, second... datagram sent

ASSUME UDPSocketAssumption ==
  /\ Endpoint \subseteq (0 .. WordMod - 1) \X Nat
  /\ Lengths \subseteq Nat /\ Mtus \subseteq Nat
  /\ {MaxDatagram, MaxQueue} \subseteq Nat /\ Copies \in Seq(Nat)
  /\ CountMod \in Nat /\ CountMod >= 2

VARIABLES
  bound, peer,  \* kernel: [Sock -> endpoint or None]
  rcvq,         \* kernel: [Sock -> Seq([src, payload])]
  pending,      \* kernel: sockets with an ICMP error to report
  net,          \* [DOMAIN sent -> copies still on their way]
  datagram,     \* [Sock -> received_datagram]: the caller's storage
  outcome,      \* [Sock -> "none" or "returned"]: "none" before, or if it threw
  read_count, write_count,
  sent          \* history: the datagrams sent, in order

kernel == <<bound, peer, rcvq, pending>>
user == <<datagram, outcome, read_count, write_count>>
vars == <<kernel, net, user, sent>>

None == <<>>

MaxSends == Len(Copies)   \* bound on the datagrams sent

Fresh == [source_address |-> NoAddress, payload |-> <<>>]

Init ==
  /\ bound = [s \in Sock |-> None] /\ peer = [s \in Sock |-> None]
  /\ rcvq = [s \in Sock |-> <<>>]
  /\ pending = {}
  /\ net = <<>>
  /\ datagram = [s \in Sock |-> Fresh]
  /\ outcome = [s \in Sock |-> "none"]
  /\ read_count = [s \in Sock |-> 0] /\ write_count = [s \in Sock |-> 0]
  /\ sent = <<>>
-----------------------------------------------------------------------------
(* register_read() and register_write().                                   *)
Count(n) == (n + 1) % CountMod

Unused == Endpoint \ {bound[s] : s \in Sock}

(* received_datagram ret{{nullptr, 0}, ""}: what recv(mtu) receives into   *)
(* and returns, and what a caller of recv(datagram, mtu) starts from.      *)
NewStorage(s) ==
  /\ datagram' = [datagram EXCEPT ![s] = Fresh]
  /\ outcome' = [outcome EXCEPT ![s] = "none"]
  /\ UNCHANGED <<kernel, net, read_count, write_count, sent>>

(* The sockaddr_in the kernel gives for an endpoint, and local_address()   *)
(* and peer_address(), which throw where there is none.                    *)
Sockaddr(e) == <<AF_INET, e[2], e[1] \div ByteMod, e[1] % ByteMod, 0>>
local_address(s) == FromSockaddr(Sockaddr(bound[s]), SizeofIn)
peer_address(s) == FromSockaddr(Sockaddr(peer[s]), SizeofIn)

bind(s, address) ==
  /\ bound[s] = None /\ ip_port(address) \in Unused
  /\ bound' = [bound EXCEPT ![s] = ip_port(address)]
  /\ UNCHANGED <<peer, rcvq, pending, net, user, sent>>

(* The kernel gives an unbound socket an endpoint when it needs one.       *)
HasEndpoint(s, e) == IF bound[s] = None THEN e \in Unused ELSE e = bound[s]

(* connect(): what is queued already stays, whoever sent it.               *)
connect(s, address, e) ==
  /\ IsIpv4(address) /\ HasEndpoint(s, e)
  /\ bound' = [bound EXCEPT ![s] = e]
  /\ peer' = [peer EXCEPT ![s] = ip_port(address)]
  /\ UNCHANGED <<rcvq, pending, net, user, sent>>

(* sendmsg_helper(): the whole payload as one datagram; register_write().  *)
sendmsg(s, e, dst, len) ==
  /\ Len(sent) < MaxSends /\ s \notin pending /\ len <= MaxDatagram
  /\ HasEndpoint(s, e)
  /\ bound' = [bound EXCEPT ![s] = e]
  /\ LET d == [src |-> e, dst |-> dst, payload |-> [i \in 1 .. len |-> Len(sent) + 1]]
     IN  /\ sent' = Append(sent, d)
         /\ net' = Append(net, Copies[Len(sent) + 1])
  /\ write_count' = [write_count EXCEPT ![s] = Count(@)]
  /\ UNCHANGED <<peer, rcvq, pending, datagram, outcome, read_count>>

sendto(s, e, destination, len) ==
  IsIpv4(destination) /\ sendmsg(s, e, ip_port(destination), len)

send(s, e, len) ==
  peer[s] # None /\ sendmsg(s, e, peer[s], len)

(* A pending error is reported to the next call, here a send, of which it  *)
(* says nothing: the new datagram is not sent.                             *)
SendThrows(s) ==
  /\ s \in pending
  /\ pending' = pending \ {s}
  /\ UNCHANGED <<bound, peer, rcvq, net, user, sent>>

(* std::string::resize().                                                  *)
Resized(payload, len) ==
  [i \in 1 .. len |-> IF i <= Len(payload) THEN payload[i] ELSE 0]

(* recv(datagram, mtu) with a datagram in the queue: ::recvfrom() fills at *)
(* most mtu bytes of the storage and with MSG_TRUNC returns the length of  *)
(* the datagram, which is gone from the queue either way.  The source      *)
(* address and the count are left alone when it was too long.              *)
Filled(s, mtu) ==
  LET payload == Head(rcvq[s]).payload
  IN  [i \in 1 .. mtu |-> IF i <= Len(payload) THEN payload[i]
                          ELSE Resized(datagram[s].payload, mtu)[i]]

Consume_UnlessLong(s, mtu) ==
  rcvq' = IF Len(Head(rcvq[s]).payload) > mtu THEN rcvq ELSE [rcvq EXCEPT ![s] = Tail(@)]
Consume(s, mtu) == rcvq' = [rcvq EXCEPT ![s] = Tail(@)]

Oversized_Never(s, mtu) == FALSE
Oversized(s, mtu) == Len(Head(rcvq[s]).payload) > mtu

register_read_Early(s, threw) == read_count' = [read_count EXCEPT ![s] = Count(@)]
register_read(s, threw) ==
  read_count' = [read_count EXCEPT ![s] = IF threw THEN @ ELSE Count(@)]

Recv(s, mtu) ==
  /\ rcvq[s] # <<>> /\ s \notin pending
  /\ Consume(s, mtu)
  /\ LET d == Head(rcvq[s])
     IN  IF Oversized(s, mtu)
         THEN /\ datagram' = [datagram EXCEPT ![s].payload = Filled(s, mtu)]
              /\ outcome' = [outcome EXCEPT ![s] = "none"]
         ELSE /\ datagram' = [datagram EXCEPT ![s] =
                   [source_address |-> FromSockaddr(Sockaddr(d.src), SizeofIn),
                    payload |-> Resized(Filled(s, mtu), Len(d.payload))]]
              /\ outcome' = [outcome EXCEPT ![s] = "returned"]
  /\ register_read(s, Oversized(s, mtu))
  /\ UNCHANGED <<bound, peer, pending, net, write_count, sent>>

(* ::recvfrom() fails: it reports the pending error, or nothing is queued  *)
(* and it does not wait (EAGAIN) or is interrupted (EINTR).                *)
RecvThrows(s, mtu) ==
  /\ s \in pending \/ rcvq[s] = <<>>
  /\ pending' = pending \ {s}
  /\ datagram' = [datagram EXCEPT ![s].payload = Resized(@, mtu)]
  /\ outcome' = [outcome EXCEPT ![s] = "none"]
  /\ UNCHANGED <<bound, peer, rcvq, net, read_count, write_count, sent>>

(* The network: a copy reaches the socket at its destination, which a      *)
(* connected socket refuses from strangers and a full one drops; or nobody *)
(* is there, and a connected sender is told.  A copy that is lost, refused *)
(* or dropped is one that never arrives.                                   *)
Arrive(k) == net[k] > 0 /\ net' = [net EXCEPT ![k] = @ - 1]

Deliver(k, s) ==
  /\ Arrive(k)
  /\ bound[s] = sent[k].dst /\ peer[s] \in {None, sent[k].src}
  /\ Len(rcvq[s]) < MaxQueue
  /\ rcvq' = [rcvq EXCEPT ![s] = Append(@, [src |-> sent[k].src, payload |-> sent[k].payload])]
  /\ UNCHANGED <<bound, peer, pending, user, sent>>

Unreachable(k) ==
  /\ Arrive(k)
  /\ \A s \in Sock : bound[s] # sent[k].dst
  /\ pending' = pending \cup {s \in Sock : bound[s] = sent[k].src /\ peer[s] = sent[k].dst}
  /\ UNCHANGED <<bound, peer, rcvq, user, sent>>

(* The addresses a program gets hold of: well-known ones, the source of    *)
(* what it received, and its own and its peer's.                           *)
Known(s) ==
  {FromIpPort(e[1], e[2]) : e \in Endpoint}
    \cup {datagram[s].source_address}
    \cup {local_address(t) : t \in {t \in Sock : bound[t] # None}}
    \cup (IF peer[s] = None THEN {} ELSE {peer_address(s)})

Next ==
  \/ \E s \in Sock : NewStorage(s) \/ SendThrows(s)
  \/ \E s \in Sock, e \in Endpoint : bind(s, FromIpPort(e[1], e[2]))
  \/ \E s \in Sock, e \in Endpoint : \E a \in Known(s) : connect(s, a, e)
  \/ \E s \in Sock, e \in Endpoint, len \in Lengths :
        \/ \E a \in Known(s) : sendto(s, e, a, len)
        \/ send(s, e, len)
  \/ \E s \in Sock, mtu \in Mtus : Recv(s, mtu) \/ RecvThrows(s, mtu)
  \/ \E k \in DOMAIN sent : Unreachable(k) \/ \E s \in Sock : Deliver(k, s)

(* A receiver keeps calling recv(), which takes what is queued.            *)
Spec ==
  /\ Init
  /\ [][Next]_vars
  /\ \A s \in Sock : WF_vars(\E mtu \in Mtus : Recv(s, mtu) \/ RecvThrows(s, mtu))
-----------------------------------------------------------------------------
(* A recv() that returns gives one whole datagram that was sent to this    *)
(* socket's endpoint, never a cut or mixed one, and its source_address is  *)
(* the sender's: equal to the Address a program would construct for it,    *)
(* and convertible back and forth, so that an answer to it goes there.     *)
WholeDatagramTrueSource ==
  \A s \in Sock :
    outcome[s] = "returned" =>
      LET a == datagram[s].source_address
      IN  /\ IsIpv4(a)
          /\ \E i \in DOMAIN sent :
               /\ sent[i].payload = datagram[s].payload
               /\ sent[i].dst = bound[s]
               /\ sent[i].src = ip_port(a)
               /\ Equal(a, FromIpPort(sent[i].src[1], sent[i].src[2]))
          /\ ipv4_numeric(from_ipv4_numeric(ipv4_numeric(a))) = ipv4_numeric(a)

(* A datagram that does not fit, and an error that is reported, hold up    *)
(* nothing: what is in a queue is taken out.                               *)
QueueDrains == \A s \in Sock : rcvq[s] # <<>> ~> rcvq[s] = <<>>

(* EventLoop tells progress by the counts: a datagram leaves the queue     *)
(* either with read_count moving or with an exception, read_count moves    *)
(* for nothing else, and write_count moves exactly when a whole datagram   *)
(* was handed to the network, also where the counts wrap around.           *)
ServiceIsCounted ==
  [][\A s \in Sock :
       /\ Len(rcvq'[s]) < Len(rcvq[s]) =>
              (read_count'[s] # read_count[s]) = (outcome'[s] = "returned")
       /\ read_count'[s] # read_count[s] => Len(rcvq'[s]) < Len(rcvq[s])
       /\ write_count'[s] # write_count[s] <=>
              Len(sent') > Len(sent) /\ sent'[Len(sent')].src = bound'[s]]_vars
=============================================================================
