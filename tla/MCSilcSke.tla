----------------------------- MODULE MCSilcSke -----------------------------
(* Instances of SilcSke: a connection over TCP and over UDP (client_connect*)
(* and client_listener) and the key exchange inside private messages       *)
(* (client_prvmsg).                                                        *)
EXTENDS SilcSke

Tcp == [udp |-> FALSE, prop |-> FALSE, no_acks |-> FALSE, verify |-> {"ini", "res"},
        guarded |-> FALSE]
Udp == [Tcp EXCEPT !.udp = TRUE]
PrivateMessage == [Tcp EXCEPT !.prop = TRUE, !.no_acks = TRUE, !.guarded = TRUE]

AllParams == {Tcp, Udp, PrivateMessage}
UdpOnly == {Udp}
TcpOnly == {Tcp}
=============================================================================
