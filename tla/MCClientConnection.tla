------------------------ MODULE MCClientConnection ------------------------
(***************************************************************************)
(* Instances of ClientConnection for TLC: the parameter records of each,   *)
(* and how many signals of wait_event may be outstanding with them.        *)
(***************************************************************************)
EXTENDS ClientConnection

(* A connection to a server over TCP, whose authentication data is asked   *)
(* of the application; one over UDP; one to a client.                      *)
ToServer == [start |-> "connect", server |-> TRUE, udp |-> FALSE,
             no_authentication |-> FALSE, auth_set |-> FALSE,
             timeout |-> TRUE, resume |-> FALSE, channels |-> 0]
OverUdp == [ToServer EXCEPT !.udp = TRUE, !.auth_set = TRUE, !.timeout = FALSE]
ToClient == [ToServer EXCEPT !.start = "key_exchange", !.server = FALSE,
                             !.no_authentication = TRUE]

(* A session that is resumed; one with two channels and no connect timeout. *)
Resuming(n) == [ToServer EXCEPT !.auth_set = TRUE, !.resume = TRUE,
                                !.channels = n]
GoneChannels == [Resuming(2) EXCEPT !.timeout = FALSE]

AllParams ==
  {ToServer, OverUdp, ToClient, Resuming(0), Resuming(1), GoneChannels}
MaxSignals ==
  [p \in AllParams |-> IF p.channels > 0 THEN 0
                       ELSE IF p.udp \/ p.resume THEN 1 ELSE 2]

(* One kind of connection alone.                                           *)
RegisterOnly == {ToServer}
ResumeOnly == {GoneChannels}
=============================================================================
