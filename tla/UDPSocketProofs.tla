--------------------------- MODULE UDPSocketProofs --------------------------
(***************************************************************************)
(* Proofs about UDPSocket, for any number of sockets, endpoints, datagrams *)
(* and copies, and every mtu.  The inductive invariant IInv says that no   *)
(* two sockets are bound to one endpoint, that everything in a socket's    *)
(* queue was sent to that socket's endpoint by the source it names, and    *)
(* that the caller's storage holds one of these after a recv() that        *)
(* returned.                                                               *)
(***************************************************************************)
EXTENDS UDPSocket, SequenceTheorems, TLAPS

Pair == Nat \X Nat
Addr == [size : Nat, storage : [1 .. SizeofStorage -> Nat]]
Message == [src : Endpoint, dst : Pair, payload : Seq(Nat)]
Queued == [src : Endpoint, payload : Seq(Nat)]
Storage == [source_address : Addr, payload : Seq(Nat)]
Counts == 0 .. CountMod - 1

Types ==
  /\ bound \in [Sock -> Endpoint \cup {None}]
  /\ peer \in [Sock -> Pair \cup {None}]
  /\ rcvq \in [Sock -> Seq(Queued)]
  /\ datagram \in [Sock -> Storage]
  /\ outcome \in [Sock -> {"none", "returned"}]
  /\ read_count \in [Sock -> Counts] /\ write_count \in [Sock -> Counts]
  /\ sent \in Seq(Message)

(* No two sockets share an endpoint.                                       *)
Exclusive ==
  \A s, t \in Sock : s # t /\ bound[s] # None => bound[s] # bound[t]

(* What a queue holds was sent here.                                       *)
QueueTrue ==
  \A s \in Sock : \A j \in 1 .. Len(rcvq[s]) :
    \E i \in 1 .. Len(sent) :
      /\ sent[i].dst = bound[s]
      /\ sent[i].src = rcvq[s][j].src
      /\ sent[i].payload = rcvq[s][j].payload

(* What a recv() returned was sent here, by the source it names.           *)
ReturnTrue ==
  \A s \in Sock : outcome[s] = "returned" =>
    \E i \in 1 .. Len(sent) :
      /\ sent[i].dst = bound[s]
      /\ sent[i].payload = datagram[s].payload
      /\ datagram[s].source_address = FromSockaddr(Sockaddr(sent[i].src), SizeofIn)

IInv == Types /\ Exclusive /\ QueueTrue /\ ReturnTrue
-----------------------------------------------------------------------------
(* Addresses.                                                              *)

(* An address of two bytes, split and joined again, is the same.           *)
LEMMA SplitJoin ==
  ASSUME NEW n \in Nat
  PROVE  /\ (n \div ByteMod) * ByteMod + (n % ByteMod) = n
         /\ n \div ByteMod \in Nat /\ n % ByteMod \in Nat
<1>1. ByteMod \in Nat /\ ByteMod > 0
  BY OctetsAssumption
<1>2. n \div ByteMod \in Int /\ n % ByteMod \in 0 .. ByteMod - 1
  BY <1>1
<1>3. n = ByteMod * (n \div ByteMod) + (n % ByteMod)
  BY <1>1
<1>4. ByteMod * (n \div ByteMod) = (n \div ByteMod) * ByteMod
  BY <1>1, <1>2
<1>5. n \div ByteMod >= 0
  BY <1>1
<1> QED BY <1>1, <1>2, <1>3, <1>4, <1>5

(* Endpoints are pairs, and not the empty tuple that stands for none.      *)
LEMMA Endpoints ==
  /\ Endpoint \subseteq Pair
  /\ \A e \in Pair : e # None /\ e[1] \in Nat /\ e[2] \in Nat /\ e = <<e[1], e[2]>>
  /\ None \notin Endpoint
<1>1. \A e \in Pair : e # None
  BY DEF Pair, None
<1>2. \A e \in Pair : e[1] \in Nat /\ e[2] \in Nat /\ e = <<e[1], e[2]>>
  BY DEF Pair
<1>3. Endpoint \subseteq Pair
  <2>1. 0 .. WordMod - 1 \subseteq Nat
    OBVIOUS
  <2> QED BY <2>1, UDPSocketAssumption DEF Pair
<1> QED BY <1>1, <1>2, <1>3

(* The Address of an endpoint: the one the kernel's sockaddr_in gives is   *)
(* the one Address(ip, port) gives, and ip_port() reads the endpoint back. *)
LEMMA AddressOf ==
  ASSUME NEW e \in Pair
  PROVE  LET a == FromSockaddr(Sockaddr(e), SizeofIn)
         IN  /\ a \in Addr
             /\ a = FromIpPort(e[1], e[2])
             /\ IsIpv4(a)
             /\ ip_port(a) = e
             /\ ipv4_numeric(a) = e[1]
<1>1. e[1] \in Nat /\ e[2] \in Nat /\ e = <<e[1], e[2]>>
  BY Endpoints
<1>2. /\ (e[1] \div ByteMod) * ByteMod + (e[1] % ByteMod) = e[1]
      /\ e[1] \div ByteMod \in Nat /\ e[1] % ByteMod \in Nat
  BY <1>1, SplitJoin
<1> DEFINE a == FromSockaddr(Sockaddr(e), SizeofIn)
           hi == e[1] \div ByteMod
           lo == e[1] % ByteMod
           octets == <<AF_INET, e[2], hi, lo, 0>>
<1>3. a = [size |-> 5, storage |-> [i \in 1 .. 6 |-> IF i <= 5 THEN octets[i] ELSE 0]]
  BY DEF FromSockaddr, Sockaddr, SizeofIn, SizeofStorage
<1>4. a = FromIpPort(e[1], e[2])
  BY DEF FromSockaddr, Sockaddr, SizeofIn, SizeofStorage, FromIpPort
<1> HIDE DEF a, hi, lo
<1>5. /\ octets[1] = 1 /\ octets[2] = e[2] /\ octets[3] = hi /\ octets[4] = lo
      /\ octets[5] = 0
      /\ hi \in Nat /\ lo \in Nat /\ hi * ByteMod + lo = e[1]
  BY <1>2 DEF AF_INET, hi, lo
<1> HIDE DEF octets
<1>6. \A i \in 1 .. 6 : (IF i <= 5 THEN octets[i] ELSE 0) \in Nat
  <2> SUFFICES ASSUME NEW i \in 1 .. 6 PROVE (IF i <= 5 THEN octets[i] ELSE 0) \in Nat
    OBVIOUS
  <2>1. i = 1 \/ i = 2 \/ i = 3 \/ i = 4 \/ i = 5 \/ i > 5
    OBVIOUS
  <2> QED BY <2>1, <1>1, <1>5
<1>7. a \in Addr
  BY <1>3, <1>6 DEF Addr, SizeofStorage
<1>8. /\ a.size = 5 /\ a.storage[1] = 1 /\ a.storage[2] = e[2]
      /\ a.storage[3] = hi /\ a.storage[4] = lo
  BY <1>3, <1>5
<1>9. IsIpv4(a)
  BY <1>8 DEF IsIpv4, AF_INET, SizeofIn
<1>10. ipv4_numeric(a) = e[1]
  BY <1>5, <1>8 DEF ipv4_numeric
<1>11. ip_port(a) = e
  BY <1>1, <1>8, <1>10 DEF ip_port
<1> QED BY <1>4, <1>7, <1>9, <1>10, <1>11 DEF a

(* Address{nullptr, 0} is an Address, of no family.                        *)
LEMMA NoAddressIsAddr == NoAddress \in Addr
  BY DEF NoAddress, FromSockaddr, Addr, SizeofStorage

(* ip_port() of any Address is a pair.                                     *)
LEMMA IpPortIsPair ==
  ASSUME NEW a \in Addr
  PROVE  ip_port(a) \in Pair
<1>1. a.storage[2] \in Nat /\ a.storage[3] \in Nat /\ a.storage[4] \in Nat
  BY DEF Addr, SizeofStorage
<1>2. a.storage[3] * ByteMod \in Nat
  BY <1>1, OctetsAssumption
<1> QED BY <1>1, <1>2 DEF ip_port, ipv4_numeric, Pair

(* The addresses a program gets hold of are Addresses.                     *)
LEMMA KnownAddresses ==
  ASSUME Types, NEW s \in Sock, NEW a \in Known(s)
  PROVE  a \in Addr
<1>1. CASE \E e \in Endpoint : a = FromIpPort(e[1], e[2])
  <2>1. PICK e \in Endpoint : a = FromIpPort(e[1], e[2])
    BY <1>1
  <2> QED BY <2>1, Endpoints, AddressOf
<1>2. CASE a = datagram[s].source_address
  BY <1>2 DEF Types, Storage
<1>3. CASE \E t \in Sock : bound[t] # None /\ a = local_address(t)
  <2>1. PICK t \in Sock : bound[t] # None /\ a = local_address(t)
    BY <1>3
  <2>2. bound[t] \in Pair
    BY <2>1, Endpoints DEF Types
  <2> QED BY <2>1, <2>2, AddressOf DEF local_address
<1>4. CASE peer[s] # None /\ a = peer_address(s)
  <2>1. peer[s] \in Pair
    BY <1>4 DEF Types
  <2> QED BY <1>4, <2>1, AddressOf DEF peer_address
<1> QED BY <1>1, <1>2, <1>3, <1>4 DEF Known
-----------------------------------------------------------------------------
(* The steps.                                                              *)

(* register_read() and register_write() move an unsigned count, also where *)
(* it wraps.                                                               *)
LEMMA CountMoves ==
  ASSUME NEW n \in Counts
  PROVE  Count(n) \in Counts /\ Count(n) # n
<1>1. CountMod \in Nat /\ CountMod >= 2 /\ n \in Nat /\ n + 1 <= CountMod
  BY UDPSocketAssumption DEF Counts
<1>2. CASE n + 1 < CountMod
  <2>1. (n + 1) % CountMod = n + 1
    BY <1>1, <1>2
  <2> QED BY <1>1, <1>2, <2>1 DEF Count, Counts
<1>3. CASE n + 1 = CountMod
  <2>1. CountMod % CountMod = 0
    BY <1>1
  <2> QED BY <1>1, <1>3, <2>1 DEF Count, Counts
<1> QED BY <1>1, <1>2, <1>3

(* The invariant holds before any call.                                    *)
LEMMA InitIInv == Init => IInv
<1> SUFFICES ASSUME Init PROVE IInv
  OBVIOUS
<1>1. Fresh \in Storage
  BY NoAddressIsAddr, EmptySeq DEF Fresh, Storage
<1>2. Types
  <2>1. 0 \in Counts
    BY UDPSocketAssumption DEF Counts
  <2> QED BY <1>1, <2>1, EmptySeq DEF Init, Types
<1>3. Exclusive
  BY DEF Init, Exclusive
<1>4. QueueTrue
  BY EmptySeq DEF Init, QueueTrue
<1>5. ReturnTrue
  BY DEF Init, ReturnTrue
<1> QED BY <1>2, <1>3, <1>4, <1>5 DEF IInv

(* Appending to the history of what was sent, and binding a socket that    *)
(* was not bound, disturb nothing that was queued or returned.             *)
LEMMA BindAndSend ==
  ASSUME IInv, NEW s \in Sock, NEW e \in Endpoint,
         (bound[s] = None /\ e \in Unused) \/ e = bound[s],
         bound' = [bound EXCEPT ![s] = e],
         sent' \in Seq(Message), Len(sent) <= Len(sent'),
         \A i \in 1 .. Len(sent) : sent'[i] = sent[i],
         UNCHANGED <<rcvq, datagram, outcome>>
  PROVE  /\ bound' \in [Sock -> Endpoint \cup {None}]
         /\ Exclusive' /\ QueueTrue' /\ ReturnTrue'
<1>1. bound' \in [Sock -> Endpoint \cup {None}]
  BY DEF IInv, Types
<1>2. bound'[s] = e /\ \A t \in Sock : t # s => bound'[t] = bound[t]
  BY DEF IInv, Types
<1>3. \A t \in Sock : bound[t] # None => bound'[t] = bound[t]
  BY <1>2
<1>4. \A t \in Sock : t # s => bound[t] # e
  BY Endpoints DEF Unused, IInv, Exclusive
<1>5. Exclusive'
  BY <1>2, <1>4 DEF IInv, Exclusive
<1>6. Len(sent) \in Nat /\ Len(sent') \in Nat
  BY DEF IInv, Types
<1>7. \A i \in 1 .. Len(sent) :
        i \in 1 .. Len(sent') /\ sent'[i] = sent[i] /\ sent[i].dst # None
  <2> SUFFICES ASSUME NEW i \in 1 .. Len(sent)
               PROVE  i \in 1 .. Len(sent') /\ sent'[i] = sent[i] /\ sent[i].dst # None
    OBVIOUS
  <2>1. sent[i].dst \in Pair
    <3>1. sent[i] \in Message
      BY ElementOfSeq DEF IInv, Types
    <3> QED BY <3>1 DEF Message
  <2>2. i \in 1 .. Len(sent')
    BY <1>6
  <2> QED BY <2>1, <2>2, Endpoints
<1>8. QueueTrue'
  <2> SUFFICES ASSUME NEW t \in Sock, NEW j \in 1 .. Len(rcvq[t])
               PROVE  \E i \in 1 .. Len(sent') :
                        /\ sent'[i].dst = bound'[t]
                        /\ sent'[i].src = rcvq[t][j].src
                        /\ sent'[i].payload = rcvq[t][j].payload
    BY SMTT(20) DEF QueueTrue
  <2>1. PICK i \in 1 .. Len(sent) :
          /\ sent[i].dst = bound[t]
          /\ sent[i].src = rcvq[t][j].src
          /\ sent[i].payload = rcvq[t][j].payload
    BY DEF IInv, QueueTrue
  <2>2. bound'[t] = bound[t]
    BY <2>1, <1>3, <1>7
  <2> QED BY <2>1, <2>2, <1>7
<1>9. ReturnTrue'
  <2> SUFFICES ASSUME NEW t \in Sock, outcome[t] = "returned"
               PROVE  \E i \in 1 .. Len(sent') :
                        /\ sent'[i].dst = bound'[t]
                        /\ sent'[i].payload = datagram[t].payload
                        /\ datagram[t].source_address
                             = FromSockaddr(Sockaddr(sent'[i].src), SizeofIn)
    BY DEF ReturnTrue
  <2>1. PICK i \in 1 .. Len(sent) :
          /\ sent[i].dst = bound[t]
          /\ sent[i].payload = datagram[t].payload
          /\ datagram[t].source_address = FromSockaddr(Sockaddr(sent[i].src), SizeofIn)
    BY DEF IInv, ReturnTrue
  <2>2. bound'[t] = bound[t]
    BY <2>1, <1>3, <1>7
  <2> QED BY <2>1, <2>2, <1>7
<1> QED BY <1>1, <1>5, <1>8, <1>9

(* bind() preserves the invariant.                                         *)
LEMMA BindIInv ==
  ASSUME IInv, NEW s \in Sock, NEW a \in Addr, bind(s, a)
  PROVE  IInv'
<1> DEFINE e == ip_port(a)
<1>1. /\ bound[s] = None /\ e \in Unused /\ e \in Endpoint
      /\ bound' = [bound EXCEPT ![s] = e]
      /\ UNCHANGED <<peer, rcvq, user, sent>>
  BY DEF bind, Unused
<1>2. /\ sent' \in Seq(Message) /\ Len(sent) <= Len(sent')
      /\ \A i \in 1 .. Len(sent) : sent'[i] = sent[i]
      /\ UNCHANGED <<rcvq, datagram, outcome>>
  BY <1>1 DEF IInv, Types, user
<1> HIDE DEF e
<1>3. /\ bound' \in [Sock -> Endpoint \cup {None}]
      /\ Exclusive' /\ QueueTrue' /\ ReturnTrue'
  BY <1>1, <1>2, BindAndSend
<1>4. Types'
  BY <1>1, <1>3 DEF IInv, Types, user
<1> QED BY <1>3, <1>4 DEF IInv

(* connect() preserves the invariant.                                      *)
LEMMA ConnectIInv ==
  ASSUME IInv, NEW s \in Sock, NEW e \in Endpoint, NEW a \in Addr, connect(s, a, e)
  PROVE  IInv'
<1>1. /\ (bound[s] = None /\ e \in Unused) \/ e = bound[s]
      /\ bound' = [bound EXCEPT ![s] = e]
      /\ peer' = [peer EXCEPT ![s] = ip_port(a)]
      /\ UNCHANGED <<rcvq, user, sent>>
  BY DEF connect, HasEndpoint
<1>2. /\ sent' \in Seq(Message) /\ Len(sent) <= Len(sent')
      /\ \A i \in 1 .. Len(sent) : sent'[i] = sent[i]
      /\ UNCHANGED <<rcvq, datagram, outcome>>
  BY <1>1 DEF IInv, Types, user
<1>3. /\ bound' \in [Sock -> Endpoint \cup {None}]
      /\ Exclusive' /\ QueueTrue' /\ ReturnTrue'
  BY <1>1, <1>2, BindAndSend
<1>4. peer' \in [Sock -> Pair \cup {None}]
  BY <1>1, IpPortIsPair DEF IInv, Types
<1>5. Types'
  BY <1>1, <1>3, <1>4 DEF IInv, Types, user
<1> QED BY <1>3, <1>5 DEF IInv

(* What sendmsg_helper() adds to the history, and whose it is.             *)
LEMMA SendAppends ==
  ASSUME IInv, NEW s \in Sock, NEW e \in Endpoint, NEW dst \in Pair,
         NEW len \in Lengths, sendmsg(s, e, dst, len)
  PROVE  /\ (bound[s] = None /\ e \in Unused) \/ e = bound[s]
         /\ bound' = [bound EXCEPT ![s] = e]
         /\ sent' \in Seq(Message)
         /\ Len(sent') = Len(sent) + 1
         /\ \A i \in 1 .. Len(sent) : sent'[i] = sent[i]
         /\ sent'[Len(sent')].src = e
         /\ write_count' = [write_count EXCEPT ![s] = Count(@)]
         /\ UNCHANGED <<peer, rcvq, pending, datagram, outcome, read_count>>
<1> DEFINE d == [src |-> e, dst |-> dst, payload |-> [i \in 1 .. len |-> Len(sent) + 1]]
<1>1. /\ (bound[s] = None /\ e \in Unused) \/ e = bound[s]
      /\ bound' = [bound EXCEPT ![s] = e]
      /\ sent' = Append(sent, d)
      /\ write_count' = [write_count EXCEPT ![s] = Count(@)]
      /\ UNCHANGED <<peer, rcvq, pending, datagram, outcome, read_count>>
  BY DEF sendmsg, HasEndpoint
<1>2. sent \in Seq(Message) /\ Len(sent) \in Nat /\ len \in Nat
  BY UDPSocketAssumption DEF IInv, Types
<1>3. [i \in 1 .. len |-> Len(sent) + 1] \in Seq(Nat)
  BY <1>2
<1>4. d \in Message
  BY <1>3 DEF Message
<1>5. d.src = e
  OBVIOUS
<1> HIDE DEF d
<1>6. /\ sent' \in Seq(Message)
      /\ Len(sent') = Len(sent) + 1
      /\ \A i \in 1 .. Len(sent) : sent'[i] = sent[i]
      /\ sent'[Len(sent) + 1] = d
  BY <1>1, <1>2, <1>4, AppendProperties
<1> QED BY <1>1, <1>5, <1>6

(* sendto() and send() preserve the invariant.                             *)
LEMMA SendIInv ==
  ASSUME IInv, NEW s \in Sock, NEW e \in Endpoint, NEW dst \in Pair,
         NEW len \in Lengths, sendmsg(s, e, dst, len)
  PROVE  IInv'
<1>1. /\ (bound[s] = None /\ e \in Unused) \/ e = bound[s]
      /\ bound' = [bound EXCEPT ![s] = e]
      /\ sent' \in Seq(Message)
      /\ Len(sent') = Len(sent) + 1
      /\ \A i \in 1 .. Len(sent) : sent'[i] = sent[i]
      /\ write_count' = [write_count EXCEPT ![s] = Count(@)]
      /\ UNCHANGED <<peer, rcvq, pending, datagram, outcome, read_count>>
  BY SendAppends
<1>2. Len(sent) \in Nat /\ Len(sent) <= Len(sent')
  BY <1>1 DEF IInv, Types
<1>3. /\ bound' \in [Sock -> Endpoint \cup {None}]
      /\ Exclusive' /\ QueueTrue' /\ ReturnTrue'
  BY <1>1, <1>2, BindAndSend
<1>4. write_count' \in [Sock -> Counts]
  BY <1>1, CountMoves DEF IInv, Types
<1>5. Types'
  BY <1>1, <1>3, <1>4 DEF IInv, Types
<1> QED BY <1>3, <1>5 DEF IInv

(* Fresh storage, and an error reported to a send, preserve the invariant. *)
LEMMA StorageIInv ==
  ASSUME IInv, NEW s \in Sock, NewStorage(s) \/ SendThrows(s)
  PROVE  IInv'
<1>1. CASE NewStorage(s)
  <2>1. Fresh \in Storage
    BY NoAddressIsAddr, EmptySeq DEF Fresh, Storage
  <2>2. Types'
    BY <1>1, <2>1 DEF IInv, Types, NewStorage, kernel
  <2>3. Exclusive' /\ QueueTrue'
    BY <1>1 DEF IInv, Exclusive, QueueTrue, NewStorage, kernel
  <2>4. ReturnTrue'
    BY <1>1 DEF IInv, Types, ReturnTrue, NewStorage, kernel
  <2> QED BY <2>2, <2>3, <2>4 DEF IInv
<1>2. CASE SendThrows(s)
  BY <1>2 DEF IInv, Types, Exclusive, QueueTrue, ReturnTrue, SendThrows, user
<1> QED BY <1>1, <1>2

(* The types of what resize() and ::recvfrom() leave in the storage.       *)
LEMMA StorageTypes ==
  ASSUME Types, NEW s \in Sock, NEW mtu \in Nat
  PROVE  /\ \A p \in Seq(Nat) : Resized(p, mtu) \in Seq(Nat)
         /\ rcvq[s] # <<>> => Filled(s, mtu) \in Seq(Nat)
<1>1. ASSUME NEW p \in Seq(Nat)
      PROVE  /\ Resized(p, mtu) \in Seq(Nat)
             /\ \A i \in 1 .. mtu : Resized(p, mtu)[i] \in Nat
  <2>1. \A i \in 1 .. mtu : (IF i <= Len(p) THEN p[i] ELSE 0) \in Nat
    OBVIOUS
  <2> QED BY <2>1 DEF Resized
<1>2. ASSUME rcvq[s] # <<>>
      PROVE  Filled(s, mtu) \in Seq(Nat)
  <2> DEFINE payload == Head(rcvq[s]).payload
             old == Resized(datagram[s].payload, mtu)
  <2>1. payload \in Seq(Nat)
    <3>1. Head(rcvq[s]) \in Queued
      BY <1>2, HeadTailProperties DEF Types
    <3> QED BY <3>1 DEF Queued
  <2>2. datagram[s].payload \in Seq(Nat)
    BY DEF Types, Storage
  <2>3. \A i \in 1 .. mtu : old[i] \in Nat
    BY <2>2, <1>1
  <2>4. Filled(s, mtu) = [i \in 1 .. mtu |-> IF i <= Len(payload) THEN payload[i] ELSE old[i]]
    BY DEF Filled
  <2> HIDE DEF payload, old
  <2>5. \A i \in 1 .. mtu : (IF i <= Len(payload) THEN payload[i] ELSE old[i]) \in Nat
    BY <2>1, <2>3
  <2> QED BY <2>4, <2>5
<1> QED BY <1>1, <1>2

(* When the datagram fits, what is in the storage is the datagram: nothing *)
(* of an earlier one shows.                                                *)
LEMMA FitsExactly ==
  ASSUME Types, NEW s \in Sock, NEW mtu \in Nat, rcvq[s] # <<>>, ~ Oversized(s, mtu)
  PROVE  Resized(Filled(s, mtu), Len(Head(rcvq[s]).payload)) = Head(rcvq[s]).payload
<1> DEFINE payload == Head(rcvq[s]).payload
           old == Resized(datagram[s].payload, mtu)
<1>1. payload \in Seq(Nat)
  <2>1. Head(rcvq[s]) \in Queued
    BY HeadTailProperties DEF Types
  <2> QED BY <2>1 DEF Queued
<1>2. Len(payload) <= mtu /\ Len(payload) \in Nat
  BY <1>1 DEF Oversized
<1>3. Filled(s, mtu) = [i \in 1 .. mtu |-> IF i <= Len(payload) THEN payload[i] ELSE old[i]]
  BY DEF Filled
<1> HIDE DEF payload, old
<1>4. Len(Filled(s, mtu)) = mtu
  BY <1>3
<1>5. \A i \in 1 .. Len(payload) : i \in 1 .. mtu /\ i <= mtu /\ i <= Len(payload)
  BY <1>2
<1>6. \A i \in 1 .. Len(payload) : Filled(s, mtu)[i] = payload[i]
  BY <1>3, <1>5
<1>7. Resized(Filled(s, mtu), Len(payload)) = [i \in 1 .. Len(payload) |-> payload[i]]
  BY <1>4, <1>5, <1>6 DEF Resized
<1>8. payload = [i \in 1 .. Len(payload) |-> payload[i]]
  BY <1>1
<1> QED BY <1>7, <1>8 DEF payload

(* recv() preserves the invariant, whether the datagram fits or not.       *)
LEMMA RecvIInv ==
  ASSUME IInv, NEW s \in Sock, NEW mtu \in Nat, Recv(s, mtu)
  PROVE  IInv'
<1> DEFINE d == Head(rcvq[s])
           got == [source_address |-> FromSockaddr(Sockaddr(d.src), SizeofIn),
                   payload |-> Resized(Filled(s, mtu), Len(d.payload))]
<1>1. /\ rcvq[s] # <<>> /\ rcvq' = [rcvq EXCEPT ![s] = Tail(@)]
      /\ UNCHANGED <<bound, peer, sent, write_count>>
      /\ read_count' = [read_count EXCEPT ![s] = IF Oversized(s, mtu) THEN @ ELSE Count(@)]
  BY DEF Recv, Consume, register_read
<1>2. rcvq[s] \in Seq(Queued) /\ d \in Queued /\ Tail(rcvq[s]) \in Seq(Queued)
  BY <1>1, HeadTailProperties DEF IInv, Types
<1>3. /\ rcvq' \in [Sock -> Seq(Queued)]
      /\ rcvq'[s] = Tail(rcvq[s]) /\ \A t \in Sock : t # s => rcvq'[t] = rcvq[t]
  BY <1>1, <1>2 DEF IInv, Types
<1>4. read_count' \in [Sock -> Counts]
  BY <1>1, CountMoves DEF IInv, Types
<1>5. Exclusive'
  BY <1>1 DEF IInv, Exclusive
<1>6. PICK i \in 1 .. Len(sent) :
        sent[i].dst = bound[s] /\ sent[i].src = d.src /\ sent[i].payload = d.payload
  <2>1. Len(rcvq[s]) >= 1 /\ d = rcvq[s][1]
    BY <1>1, <1>2
  <2>2. 1 \in 1 .. Len(rcvq[s])
    BY <2>1, <1>2
  <2>3. \E i \in 1 .. Len(sent) :
          /\ sent[i].dst = bound[s]
          /\ sent[i].src = rcvq[s][1].src
          /\ sent[i].payload = rcvq[s][1].payload
    BY <2>2 DEF IInv, QueueTrue
  <2> QED BY <2>1, <2>3
<1>7. QueueTrue'
  <2>0. sent' = sent /\ bound' = bound
    BY <1>1
  <2> SUFFICES ASSUME NEW t \in Sock, NEW j \in 1 .. Len(rcvq'[t])
               PROVE  \E k \in 1 .. Len(sent) :
                        /\ sent[k].dst = bound[t]
                        /\ sent[k].src = rcvq'[t][j].src
                        /\ sent[k].payload = rcvq'[t][j].payload
    BY <2>0 DEF QueueTrue
  <2>1. CASE t # s
    <3>1. rcvq'[t] = rcvq[t] /\ j \in 1 .. Len(rcvq[t])
      BY <2>1, <1>3
    <3>2. \E k \in 1 .. Len(sent) :
            /\ sent[k].dst = bound[t]
            /\ sent[k].src = rcvq[t][j].src
            /\ sent[k].payload = rcvq[t][j].payload
      BY <3>1 DEF IInv, QueueTrue
    <3> QED BY <3>1, <3>2
  <2>2. CASE t = s
    <3>1. Len(Tail(rcvq[s])) = Len(rcvq[s]) - 1 /\ Len(rcvq[s]) \in Nat
      BY <1>1, <1>2
    <3>2. j + 1 \in 1 .. Len(rcvq[s]) /\ j \in 1 .. Len(Tail(rcvq[s]))
      BY <2>2, <3>1, <1>3
    <3>3. Tail(rcvq[s])[j] = rcvq[s][j + 1]
      BY <3>2, <1>1, <1>2
    <3>4. \E k \in 1 .. Len(sent) :
            /\ sent[k].dst = bound[s]
            /\ sent[k].src = rcvq[s][j + 1].src
            /\ sent[k].payload = rcvq[s][j + 1].payload
      BY <3>2 DEF IInv, QueueTrue
    <3> QED BY <2>2, <3>3, <3>4, <1>3
  <2> QED BY <2>1, <2>2
<1>8. CASE Oversized(s, mtu)
  <2>1. /\ datagram' = [datagram EXCEPT ![s].payload = Filled(s, mtu)]
        /\ outcome' = [outcome EXCEPT ![s] = "none"]
    BY <1>8 DEF Recv
  <2>2. Filled(s, mtu) \in Seq(Nat)
    BY <1>1, StorageTypes DEF IInv
  <2>3. /\ datagram' \in [Sock -> Storage]
        /\ \A t \in Sock : t # s => datagram'[t] = datagram[t]
    BY <2>1, <2>2 DEF IInv, Types, Storage
  <2>4. /\ outcome' \in [Sock -> {"none", "returned"}]
        /\ \A t \in Sock : outcome'[t] = "returned" => t # s /\ outcome[t] = "returned"
    BY <2>1 DEF IInv, Types
  <2>5. Types'
    BY <1>1, <1>3, <1>4, <2>3, <2>4 DEF IInv, Types
  <2>6. ReturnTrue'
    BY <1>1, <2>3, <2>4 DEF IInv, ReturnTrue
  <2> QED BY <1>5, <1>7, <2>5, <2>6 DEF IInv
<1>9. CASE ~ Oversized(s, mtu)
  <2>1. /\ datagram' = [datagram EXCEPT ![s] = got]
        /\ outcome' = [outcome EXCEPT ![s] = "returned"]
    BY <1>9 DEF Recv
  <2>2. Resized(Filled(s, mtu), Len(d.payload)) = d.payload
    BY <1>1, <1>9, FitsExactly DEF IInv
  <2>3. /\ got.payload = d.payload
        /\ got.source_address = FromSockaddr(Sockaddr(d.src), SizeofIn)
    BY <2>2
  <2>4. got \in Storage
    <3>1. d.src \in Pair /\ d.payload \in Seq(Nat)
      BY <1>2, Endpoints DEF Queued
    <3>2. FromSockaddr(Sockaddr(d.src), SizeofIn) \in Addr
      BY <3>1, AddressOf
    <3> QED BY <2>2, <3>1, <3>2 DEF Storage
  <2> HIDE DEF got
  <2>5. /\ datagram' \in [Sock -> Storage] /\ datagram'[s] = got
        /\ \A t \in Sock : t # s => datagram'[t] = datagram[t]
    BY <2>1, <2>4 DEF IInv, Types
  <2>6. /\ outcome' \in [Sock -> {"none", "returned"}]
        /\ \A t \in Sock : t # s => outcome'[t] = outcome[t]
    BY <2>1 DEF IInv, Types
  <2>7. Types'
    BY <1>1, <1>3, <1>4, <2>5, <2>6 DEF IInv, Types
  <2>8. ReturnTrue'
    <3> SUFFICES ASSUME NEW t \in Sock, outcome'[t] = "returned"
                 PROVE  \E k \in 1 .. Len(sent) :
                          /\ sent[k].dst = bound[t]
                          /\ sent[k].payload = datagram'[t].payload
                          /\ datagram'[t].source_address
                               = FromSockaddr(Sockaddr(sent[k].src), SizeofIn)
      BY <1>1 DEF ReturnTrue, Sockaddr, FromSockaddr
    <3>1. CASE t # s
      BY <3>1, <2>5, <2>6 DEF IInv, ReturnTrue
    <3>2. CASE t = s
      BY <3>2, <2>3, <2>5, <1>6
    <3> QED BY <3>1, <3>2
  <2> QED BY <1>5, <1>7, <2>7, <2>8 DEF IInv
<1> QED BY <1>8, <1>9

(* A recv() that reports an error resizes the storage and preserves the    *)
(* invariant.                                                              *)
LEMMA RecvThrowsIInv ==
  ASSUME IInv, NEW s \in Sock, NEW mtu \in Nat, RecvThrows(s, mtu)
  PROVE  IInv'
<1>1. /\ datagram' = [datagram EXCEPT ![s].payload = Resized(@, mtu)]
      /\ outcome' = [outcome EXCEPT ![s] = "none"]
      /\ UNCHANGED <<bound, peer, rcvq, read_count, write_count, sent>>
  BY DEF RecvThrows
<1>2. datagram[s].payload \in Seq(Nat)
  BY DEF IInv, Types, Storage
<1>3. Resized(datagram[s].payload, mtu) \in Seq(Nat)
  BY <1>2, StorageTypes DEF IInv
<1>4. /\ datagram' \in [Sock -> Storage]
      /\ \A t \in Sock : t # s => datagram'[t] = datagram[t]
  BY <1>1, <1>3 DEF IInv, Types, Storage
<1>5. /\ outcome' \in [Sock -> {"none", "returned"}]
      /\ \A t \in Sock : outcome'[t] = "returned" => t # s /\ outcome[t] = "returned"
  BY <1>1 DEF IInv, Types
<1>6. Types'
  BY <1>1, <1>4, <1>5 DEF IInv, Types
<1>7. Exclusive' /\ QueueTrue'
  BY <1>1 DEF IInv, Exclusive, QueueTrue
<1>8. ReturnTrue'
  BY <1>1, <1>4, <1>5 DEF IInv, ReturnTrue
<1> QED BY <1>6, <1>7, <1>8 DEF IInv

(* A delivery preserves the invariant: the copy was sent to this endpoint. *)
LEMMA DeliverIInv ==
  ASSUME IInv, NEW k \in DOMAIN sent, NEW s \in Sock, Deliver(k, s)
  PROVE  IInv'
<1> DEFINE q == [src |-> sent[k].src, payload |-> sent[k].payload]
<1>1. /\ rcvq' = [rcvq EXCEPT ![s] = Append(@, q)]
      /\ bound[s] = sent[k].dst
      /\ UNCHANGED <<bound, peer, user, sent>>
  BY DEF Deliver
<1>2. k \in 1 .. Len(sent) /\ sent[k] \in Message
  BY ElementOfSeq DEF IInv, Types
<1>3. q \in Queued /\ q.src = sent[k].src /\ q.payload = sent[k].payload
  BY <1>2 DEF Message, Queued
<1> HIDE DEF q
<1>4. rcvq[s] \in Seq(Queued) /\ Len(rcvq[s]) \in Nat
  BY DEF IInv, Types
<1>5. /\ rcvq' \in [Sock -> Seq(Queued)]
      /\ rcvq'[s] = Append(rcvq[s], q)
      /\ \A t \in Sock : t # s => rcvq'[t] = rcvq[t]
  BY <1>1, <1>3, <1>4, AppendProperties DEF IInv, Types
<1>6. /\ Len(rcvq'[s]) = Len(rcvq[s]) + 1
      /\ \A j \in 1 .. Len(rcvq[s]) : rcvq'[s][j] = rcvq[s][j]
      /\ rcvq'[s][Len(rcvq[s]) + 1] = q
  BY <1>3, <1>4, <1>5, AppendProperties
<1>7. Types'
  BY <1>1, <1>5 DEF IInv, Types, user
<1>8. Exclusive' /\ ReturnTrue'
  BY <1>1 DEF IInv, Exclusive, ReturnTrue, user
<1>9. QueueTrue'
  <2>0. sent' = sent /\ bound' = bound
    BY <1>1
  <2> SUFFICES ASSUME NEW t \in Sock, NEW j \in 1 .. Len(rcvq'[t])
               PROVE  \E i \in 1 .. Len(sent) :
                        /\ sent[i].dst = bound[t]
                        /\ sent[i].src = rcvq'[t][j].src
                        /\ sent[i].payload = rcvq'[t][j].payload
    BY <2>0 DEF QueueTrue
  <2>1. CASE t # s
    <3>1. rcvq'[t] = rcvq[t] /\ j \in 1 .. Len(rcvq[t])
      BY <2>1, <1>5
    <3>2. \E i \in 1 .. Len(sent) :
            /\ sent[i].dst = bound[t]
            /\ sent[i].src = rcvq[t][j].src
            /\ sent[i].payload = rcvq[t][j].payload
      BY <3>1 DEF IInv, QueueTrue
    <3> QED BY <3>1, <3>2
  <2>2. CASE t = s /\ j \in 1 .. Len(rcvq[s])
    <3>1. rcvq'[t][j] = rcvq[s][j]
      BY <2>2, <1>6
    <3>2. \E i \in 1 .. Len(sent) :
            /\ sent[i].dst = bound[s]
            /\ sent[i].src = rcvq[s][j].src
            /\ sent[i].payload = rcvq[s][j].payload
      BY <2>2 DEF IInv, QueueTrue
    <3> QED BY <2>2, <3>1, <3>2
  <2>3. CASE t = s /\ j = Len(rcvq[s]) + 1
    BY <2>3, <1>1, <1>2, <1>3, <1>6
  <2>4. t = s => j \in 1 .. Len(rcvq[s]) \/ j = Len(rcvq[s]) + 1
    BY <1>4, <1>6
  <2> QED BY <2>1, <2>2, <2>3, <2>4
<1> QED BY <1>7, <1>8, <1>9 DEF IInv

(* Every step preserves the invariant.                                     *)
LEMMA NextIInv == IInv /\ [Next]_vars => IInv'
<1> SUFFICES ASSUME IInv, [Next]_vars PROVE IInv'
  OBVIOUS
<1>1. ASSUME NEW s \in Sock, NewStorage(s) \/ SendThrows(s) PROVE IInv'
  BY <1>1, StorageIInv
<1>2. ASSUME NEW s \in Sock, NEW e \in Endpoint, bind(s, FromIpPort(e[1], e[2])) PROVE IInv'
  <2>1. FromIpPort(e[1], e[2]) \in Addr
    BY Endpoints, AddressOf
  <2> QED BY <1>2, <2>1, BindIInv
<1>3. ASSUME NEW s \in Sock, NEW e \in Endpoint, NEW a \in Known(s), connect(s, a, e)
      PROVE  IInv'
  <2>1. a \in Addr
    BY KnownAddresses DEF IInv
  <2> QED BY <1>3, <2>1, ConnectIInv
<1>4. ASSUME NEW s \in Sock, NEW e \in Endpoint, NEW len \in Lengths, NEW a \in Known(s),
             sendto(s, e, a, len)
      PROVE  IInv'
  <2>1. ip_port(a) \in Pair
    BY KnownAddresses, IpPortIsPair DEF IInv
  <2> QED BY <1>4, <2>1, SendIInv DEF sendto
<1>5. ASSUME NEW s \in Sock, NEW e \in Endpoint, NEW len \in Lengths, send(s, e, len)
      PROVE  IInv'
  <2>1. peer[s] \in Pair
    BY <1>5 DEF send, IInv, Types
  <2> QED BY <1>5, <2>1, SendIInv DEF send
<1>6. ASSUME NEW s \in Sock, NEW mtu \in Mtus, Recv(s, mtu) \/ RecvThrows(s, mtu) PROVE IInv'
  <2>1. mtu \in Nat
    BY UDPSocketAssumption
  <2> QED BY <1>6, <2>1, RecvIInv, RecvThrowsIInv
<1>7. ASSUME NEW k \in DOMAIN sent, Unreachable(k) PROVE IInv'
  BY <1>7 DEF Unreachable, IInv, Types, Exclusive, QueueTrue, ReturnTrue, user
<1>8. ASSUME NEW k \in DOMAIN sent, NEW s \in Sock, Deliver(k, s) PROVE IInv'
  BY <1>8, DeliverIInv
<1>9. CASE UNCHANGED vars
  BY <1>9 DEF vars, kernel, user, IInv, Types, Exclusive, QueueTrue, ReturnTrue
<1> QED BY <1>1, <1>2, <1>3, <1>4, <1>5, <1>6, <1>7, <1>8, <1>9 DEF Next

LEMMA Inductive == Spec => []IInv
  BY InitIInv, NextIInv, PTL DEF Spec
-----------------------------------------------------------------------------
(* A recv() that returns gives a whole datagram that was sent to this      *)
(* socket, and the Address of its true sender, for any number of sockets,  *)
(* datagrams, copies and losses, and every mtu.                            *)
THEOREM ReceivedIsTrue == Spec => []WholeDatagramTrueSource
<1>1. IInv => WholeDatagramTrueSource
  <2> SUFFICES ASSUME IInv, NEW s \in Sock, outcome[s] = "returned"
               PROVE  LET a == datagram[s].source_address
                      IN  /\ IsIpv4(a)
                          /\ \E i \in DOMAIN sent :
                               /\ sent[i].payload = datagram[s].payload
                               /\ sent[i].dst = bound[s]
                               /\ sent[i].src = ip_port(a)
                               /\ Equal(a, FromIpPort(sent[i].src[1], sent[i].src[2]))
                          /\ ipv4_numeric(from_ipv4_numeric(ipv4_numeric(a)))
                               = ipv4_numeric(a)
    BY DEF WholeDatagramTrueSource
  <2> DEFINE a == datagram[s].source_address
  <2>1. PICK i \in 1 .. Len(sent) :
          /\ sent[i].dst = bound[s]
          /\ sent[i].payload = datagram[s].payload
          /\ a = FromSockaddr(Sockaddr(sent[i].src), SizeofIn)
    BY DEF IInv, ReturnTrue
  <2> HIDE DEF a
  <2>2. i \in DOMAIN sent /\ sent[i] \in Message
    BY ElementOfSeq DEF IInv, Types
  <2> DEFINE e == sent[i].src
  <2>3. e \in Pair
    BY <2>2, Endpoints DEF Message
  <2> HIDE DEF e
  <2>4. /\ IsIpv4(a) /\ ip_port(a) = e /\ ipv4_numeric(a) = e[1]
        /\ a = FromIpPort(e[1], e[2])
    BY <2>1, <2>3, AddressOf DEF e
  <2>5. Equal(a, FromIpPort(e[1], e[2]))
    BY <2>4, Zenon DEF Equal
  <2>6. ipv4_numeric(from_ipv4_numeric(ipv4_numeric(a))) = ipv4_numeric(a)
    <3>1. e[1] \in Nat /\ <<e[1], 0>> \in Pair
      BY <2>3, Endpoints DEF Pair
    <3>2. ipv4_numeric(FromIpPort(e[1], 0)) = e[1]
      <4>1. <<e[1], 0>>[1] = e[1] /\ <<e[1], 0>>[2] = 0
        OBVIOUS
      <4> QED BY <3>1, <4>1, AddressOf
    <3> QED BY <2>4, <3>2 DEF from_ipv4_numeric
  <2> QED BY <2>1, <2>2, <2>4, <2>5, <2>6 DEF a, e
<1> QED BY <1>1, Inductive, PTL
-----------------------------------------------------------------------------
(* What a step does to the queue and the counts of one socket.             *)
Counted(s) ==
  /\ Len(rcvq'[s]) < Len(rcvq[s]) =>
         (read_count'[s] # read_count[s]) = (outcome'[s] = "returned")
  /\ read_count'[s] # read_count[s] => Len(rcvq'[s]) < Len(rcvq[s])
  /\ write_count'[s] # write_count[s] <=>
         Len(sent') > Len(sent) /\ sent'[Len(sent')].src = bound'[s]

(* A step that touches neither queues, counts nor history is counted.      *)
LEMMA IdleCounted ==
  ASSUME IInv, NEW s \in Sock, UNCHANGED <<rcvq, read_count, write_count, sent>>
  PROVE  Counted(s)
<1>1. /\ Len(rcvq[s]) \in Nat /\ read_count[s] \in Counts /\ write_count[s] \in Counts
      /\ Len(sent) \in Nat
  BY DEF IInv, Types
<1> QED BY <1>1 DEF Counted

(* A send moves write_count of the socket that sent, and of no other: no   *)
(* two sockets share the source endpoint.                                  *)
LEMMA SendCounted ==
  ASSUME IInv, NEW s \in Sock, NEW e \in Endpoint, NEW dst \in Pair,
         NEW len \in Lengths, sendmsg(s, e, dst, len), NEW t \in Sock
  PROVE  Counted(t)
<1>1. /\ (bound[s] = None /\ e \in Unused) \/ e = bound[s]
      /\ bound' = [bound EXCEPT ![s] = e]
      /\ Len(sent') = Len(sent) + 1
      /\ sent'[Len(sent')].src = e
      /\ write_count' = [write_count EXCEPT ![s] = Count(@)]
      /\ UNCHANGED <<rcvq, read_count>>
  BY SendAppends
<1>2. /\ Len(rcvq[t]) \in Nat /\ read_count[t] \in Counts /\ write_count[t] \in Counts
      /\ Len(sent) \in Nat
  BY DEF IInv, Types
<1>3. Len(sent') > Len(sent)
  BY <1>1, <1>2
<1>4. CASE t = s
  <2>1. write_count'[t] # write_count[t] /\ bound'[t] = e
    BY <1>1, <1>2, <1>4, CountMoves DEF IInv, Types
  <2> QED BY <2>1, <1>1, <1>2, <1>3 DEF Counted
<1>5. CASE t # s
  <2>1. write_count'[t] = write_count[t] /\ bound'[t] = bound[t]
    BY <1>1, <1>5 DEF IInv, Types
  <2>2. bound[t] # e
    BY <1>1, <1>5, Endpoints DEF Unused, IInv, Exclusive
  <2> QED BY <2>1, <2>2, <1>1, <1>2, <1>3 DEF Counted
<1> QED BY <1>4, <1>5

(* A recv() takes one datagram and counts it unless it throws.             *)
LEMMA RecvCounted ==
  ASSUME IInv, NEW s \in Sock, NEW mtu \in Nat, Recv(s, mtu), NEW t \in Sock
  PROVE  Counted(t)
<1>1. /\ rcvq[s] # <<>> /\ rcvq' = [rcvq EXCEPT ![s] = Tail(@)]
      /\ read_count' = [read_count EXCEPT ![s] = IF Oversized(s, mtu) THEN @ ELSE Count(@)]
      /\ outcome' = [outcome EXCEPT ![s] = IF Oversized(s, mtu) THEN "none" ELSE "returned"]
      /\ UNCHANGED <<write_count, sent>>
  BY DEF Recv, Consume, register_read
<1>2. /\ Len(rcvq[t]) \in Nat /\ read_count[t] \in Counts /\ write_count[t] \in Counts
      /\ Len(sent) \in Nat
  BY DEF IInv, Types
<1>3. CASE t = s
  <2>1. rcvq'[t] = Tail(rcvq[t]) /\ rcvq[t] \in Seq(Queued) /\ rcvq[t] # <<>>
    BY <1>1, <1>3 DEF IInv, Types
  <2>2. Len(rcvq'[t]) < Len(rcvq[t])
    BY <2>1
  <2>3. CASE Oversized(s, mtu)
    <3>1. read_count'[t] = read_count[t] /\ outcome'[t] = "none"
      BY <1>1, <1>3, <2>3 DEF IInv, Types
    <3> QED BY <3>1, <2>2, <1>1, <1>2 DEF Counted
  <2>4. CASE ~ Oversized(s, mtu)
    <3>1. read_count'[t] # read_count[t] /\ outcome'[t] = "returned"
      BY <1>1, <1>2, <1>3, <2>4, CountMoves DEF IInv, Types
    <3> QED BY <3>1, <2>2, <1>1, <1>2 DEF Counted
  <2> QED BY <2>3, <2>4
<1>4. CASE t # s
  <2>1. rcvq'[t] = rcvq[t] /\ read_count'[t] = read_count[t]
    BY <1>1, <1>4 DEF IInv, Types
  <2> QED BY <2>1, <1>1, <1>2 DEF Counted
<1> QED BY <1>3, <1>4

(* A delivery only lengthens a queue.                                      *)
LEMMA DeliverCounted ==
  ASSUME IInv, NEW k \in DOMAIN sent, NEW s \in Sock, Deliver(k, s), NEW t \in Sock
  PROVE  Counted(t)
<1> DEFINE q == [src |-> sent[k].src, payload |-> sent[k].payload]
<1>1. /\ rcvq' = [rcvq EXCEPT ![s] = Append(@, q)]
      /\ UNCHANGED <<read_count, write_count, sent>>
  BY DEF Deliver, user
<1>2. /\ rcvq[t] \in Seq(Queued) /\ Len(rcvq[t]) \in Nat /\ read_count[t] \in Counts
      /\ write_count[t] \in Counts /\ Len(sent) \in Nat
  BY DEF IInv, Types
<1>3. q \in Queued
  <2>1. sent[k] \in Message
    BY ElementOfSeq DEF IInv, Types
  <2> QED BY <2>1 DEF Message, Queued
<1> HIDE DEF q
<1>4. rcvq'[t] = rcvq[t] \/ rcvq'[t] = Append(rcvq[t], q)
  BY <1>1 DEF IInv, Types
<1>5. Len(rcvq'[t]) >= Len(rcvq[t])
  BY <1>2, <1>3, <1>4, AppendProperties
<1>6. ~ (Len(rcvq'[t]) < Len(rcvq[t]))
  <2>1. Len(rcvq'[t]) \in Nat
    BY <1>2, <1>3, <1>4, AppendProperties
  <2> QED BY <2>1, <1>2, <1>5
<1> QED BY <1>1, <1>2, <1>6 DEF Counted

(* read_count and write_count tell EventLoop the truth about progress, for *)
(* any number of sockets: every datagram taken is counted or reported by   *)
(* an exception, and every datagram sent is counted for its sender alone.  *)
THEOREM CountsAreTrue == Spec => ServiceIsCounted
<1>1. ASSUME IInv, [Next]_vars, NEW t \in Sock
      PROVE  Counted(t)
  <2>1. ASSUME NEW s \in Sock, NewStorage(s) \/ SendThrows(s) PROVE Counted(t)
    BY <1>1, <2>1, IdleCounted DEF NewStorage, SendThrows, kernel, user
  <2>2. ASSUME NEW s \in Sock, NEW a, bind(s, a) PROVE Counted(t)
    BY <1>1, <2>2, IdleCounted DEF bind, user
  <2>3. ASSUME NEW s \in Sock, NEW e, NEW a, connect(s, a, e) PROVE Counted(t)
    BY <1>1, <2>3, IdleCounted DEF connect, user
  <2>4. ASSUME NEW s \in Sock, NEW e \in Endpoint, NEW len \in Lengths, NEW a \in Known(s),
               sendto(s, e, a, len)
        PROVE  Counted(t)
    <3>1. ip_port(a) \in Pair
      BY <1>1, KnownAddresses, IpPortIsPair DEF IInv
    <3> QED BY <1>1, <2>4, <3>1, SendCounted DEF sendto
  <2>5. ASSUME NEW s \in Sock, NEW e \in Endpoint, NEW len \in Lengths, send(s, e, len)
        PROVE  Counted(t)
    <3>1. peer[s] \in Pair
      BY <1>1, <2>5 DEF send, IInv, Types
    <3> QED BY <1>1, <2>5, <3>1, SendCounted DEF send
  <2>6. ASSUME NEW s \in Sock, NEW mtu \in Mtus, Recv(s, mtu) PROVE Counted(t)
    <3>1. mtu \in Nat
      BY UDPSocketAssumption
    <3> QED BY <1>1, <2>6, <3>1, RecvCounted
  <2>7. ASSUME NEW s \in Sock, NEW mtu \in Mtus, RecvThrows(s, mtu) PROVE Counted(t)
    BY <1>1, <2>7, IdleCounted DEF RecvThrows
  <2>8. ASSUME NEW k \in DOMAIN sent, Unreachable(k) PROVE Counted(t)
    BY <1>1, <2>8, IdleCounted DEF Unreachable, user
  <2>9. ASSUME NEW k \in DOMAIN sent, NEW s \in Sock, Deliver(k, s) PROVE Counted(t)
    BY <1>1, <2>9, DeliverCounted
  <2>10. CASE UNCHANGED vars
    BY <1>1, <2>10, IdleCounted DEF vars, kernel, user
  <2> QED BY <1>1, <2>1, <2>2, <2>3, <2>4, <2>5, <2>6, <2>7, <2>8, <2>9, <2>10 DEF Next
<1>2. IInv /\ [Next]_vars =>
        [\A s \in Sock :
           /\ Len(rcvq'[s]) < Len(rcvq[s]) =>
                  (read_count'[s] # read_count[s]) = (outcome'[s] = "returned")
           /\ read_count'[s] # read_count[s] => Len(rcvq'[s]) < Len(rcvq[s])
           /\ write_count'[s] # write_count[s] <=>
                  Len(sent') > Len(sent) /\ sent'[Len(sent')].src = bound'[s]]_vars
  BY <1>1 DEF Counted
<1> QED BY <1>2, Inductive, PTL DEF Spec, ServiceIsCounted
=============================================================================
