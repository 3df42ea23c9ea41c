------------------------------ MODULE Address -------------------------------
(***************************************************************************)
(* class Address (libsponge/util/address.{hh,cc}): the bytes of a sockaddr *)
(* and how many of them count.  A sockaddr_in is family, port, the two     *)
(* bytes of a scaled IP address in network order and the padding sin_zero, *)
(* which the kernel and getaddrinfo() set to zero; a sockaddr_storage has  *)
(* room for more, zero where nothing was copied.                           *)
(***************************************************************************)
EXTENDS Octets, Sequences

AF_INET == 1
SizeofIn == 5        \* sizeof(sockaddr_in)
SizeofStorage == 6   \* sizeof(sockaddr_storage)

(* Address(const sockaddr *, size): memcpy into zeroed storage; it throws  *)
(* instead if size > SizeofStorage, which no caller below comes near.      *)
FromSockaddr(addr, size) ==
  [size |-> size,
   storage |-> [i \in 1 .. SizeofStorage |-> IF i <= size THEN addr[i] ELSE 0]]

(* Address{nullptr, 0}.                                                    *)
NoAddress == FromSockaddr(<<>>, 0)

(* Address(ip, port): getaddrinfo() with numeric hints gives one sockaddr. *)
FromIpPort(ip, port) ==
  FromSockaddr(<<AF_INET, port, ip \div ByteMod, ip % ByteMod, 0>>, SizeofIn)

(* ipv4_numeric() throws for anything else.                                *)
IsIpv4(a) == a.storage[1] = AF_INET /\ a.size = SizeofIn
ipv4_numeric(a) == a.storage[3] * ByteMod + a.storage[4]
from_ipv4_numeric(ip_address) == FromIpPort(ip_address, 0)

(* ip_port(), for an IPv4 address.                                         *)
ip_port(a) == <<ipv4_numeric(a), a.storage[2]>>

(* operator==: the bytes that count, sin_zero among them.                  *)
Equal(a, b) ==
  /\ a.size = b.size
  /\ SubSeq(a.storage, 1, a.size) = SubSeq(b.storage, 1, b.size)
=============================================================================
