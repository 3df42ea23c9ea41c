------------------------------ MODULE MCSockets -----------------------------
(* One variable of each class needed for accept(), adoption and a device.  *)
EXTENDS Sockets, TLC

CONSTANTS file, udp, tcp1, tcp2, tun

MCClass == (file :> "FileDescriptor") @@ (udp :> "UDPSocket")
             @@ (tcp1 :> "TCPSocket") @@ (tcp2 :> "TCPSocket")
             @@ (tun :> "TunTapFD")

Interchangeable == Permutations({tcp1, tcp2}) \cup Permutations(Wrapper)
=============================================================================
