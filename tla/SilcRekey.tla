----------------------------- MODULE SilcRekey -----------------------------
(***************************************************************************)
(* The rekey of a packet stream: silc_ske_rekey_initiator and _responder   *)
(* of lib/silcske/silcske.c, silc_packet_set_keys of                       *)
(* lib/silccore/silcpacket.c, and the client's part in it                  *)
(* (lib/silcclient/client.c and client_connect.c).  Two ends are joined by *)
(* a TCP stream in which every packet carries the key it is protected with.*)
(*                                                                         *)
(* Key material is what both ends derive it from: without PFS one more     *)
(* round over the last material, with PFS the values of a Diffie-Hellman   *)
(* exchange.  A key is its material and the direction it is for.           *)
(***************************************************************************)
EXTENDS Naturals, Sequences

CONSTANTS
  Hands,       \* ends that hand the REKEY packet to silc_ske_rekey_responder
  Initiators,  \* ends whose rekey timer fires
  MaxRekeys,   \* bound of the rekeys each end starts
  MaxData,     \* bound of the data packets each end sends
  Pfs          \* whether the rekey may be done with PFS, without, or both

End == {"client", "peer"}
Far(e) == IF e = "client" THEN "peer" ELSE "client"

ASSUME RekeyAssumption ==
  /\ Hands \subseteq End /\ Initiators \subseteq End
  /\ MaxRekeys \in Nat /\ MaxData \in Nat /\ Pfs \subseteq BOOLEAN

VARIABLES
  pfs,      \* rekey->pfs, the same at both ends
  due,      \* `rekeying' and `rekey_responder': "none", "ini" or "res"
  ske,      \* the rekey under way: role, state, queued run, packet, material
  mat,      \* conn->internal->rekey
  send,     \* stream->send_key[0]
  recv,     \* stream->receive_key[0]
  net,      \* packets on their way to each end
  closed,   \* the end has closed the connection
  fault,    \* a step failed by itself or was out of time
  count     \* rekeys started and data packets sent by each end

vars == <<pfs, due, ske, mat, send, recv, net, closed, fault, count>>

(* silc_ske_set_keys: the responder uses the keys the other way round.     *)
SendDir(role) == IF role = "ini" THEN "i2r" ELSE "r2i"
RecvDir(role) == IF role = "ini" THEN "r2i" ELSE "i2r"
Key(m, dir) == [mat |-> m, dir |-> dir]

NoSke == [role |-> "none", at |-> "none", queued |-> FALSE, packet |-> "none",
          val |-> 0, keymat |-> <<>>]

SkeStates == {"none", "start", "wait", "phase2", "phase3", "end"}

(* The states of the SKE and of its owner.                                 *)
TypeOK ==
  /\ pfs \in BOOLEAN /\ fault \in BOOLEAN
  /\ \A e \in End :
       /\ due[e] \in {"none", "ini", "res"}
       /\ ske[e].role \in {"none", "ini", "res"} /\ ske[e].at \in SkeStates
       /\ ske[e].role = "none" <=> ske[e].at = "none"
       /\ ske[e].at \in {"start", "phase3"} => ske[e].role = "ini"
       /\ ske[e].at \in {"wait", "phase2"} => ske[e].role = "res"
       /\ send[e].dir \in {"i2r", "r2i"} /\ recv[e].dir \in {"i2r", "r2i"}
       /\ closed[e] \in BOOLEAN
       /\ count[e].rekeys \in 0..MaxRekeys /\ count[e].data \in 0..MaxData

(* After the key exchange, in which the client was the initiator.          *)
Init ==
  /\ pfs \in Pfs
  /\ due = [e \in End |-> "none"]
  /\ ske = [e \in End |-> NoSke]
  /\ mat = [e \in End |-> <<0>>]
  /\ send = [e \in End |-> Key(<<0>>, IF e = "client" THEN "i2r" ELSE "r2i")]
  /\ recv = [e \in End |-> Key(<<0>>, IF e = "client" THEN "r2i" ELSE "i2r")]
  /\ net = [e \in End |-> <<>>]
  /\ closed = [e \in End |-> FALSE]
  /\ fault = FALSE
  /\ count = [e \in End |-> [rekeys |-> 0, data |-> 0]]

-----------------------------------------------------------------------------
(* silc_packet_send, which uses the current sending key.  n: the packets   *)
(* on their way before.                                                    *)
Sent(e, n, type, val) ==
  [n EXCEPT ![Far(e)] = Append(@, [type |-> type, key |-> send[e], val |-> val])]

(* The application sends a packet.                                         *)
Data(e) ==
  /\ ~closed[e]
  /\ count[e].data < MaxData
  /\ net' = Sent(e, net, "data", 0)
  /\ count' = [count EXCEPT ![e].data = @ + 1]
  /\ UNCHANGED <<pfs, due, ske, mat, send, recv, closed, fault>>

(* The end of a connection: silc_client_rekey_completion with a failure    *)
(* frees the SKE and closes.                                               *)
Shut(e, n) ==
  /\ ske' = [ske EXCEPT ![e] = NoSke]
  /\ due' = [due EXCEPT ![e] = "none"]
  /\ closed' = [closed EXCEPT ![e] = TRUE]
  /\ net' = [n EXCEPT ![e] = <<>>]
  /\ UNCHANGED <<pfs, mat, send, recv, count>>

(* silc_ske_st_initiator_error and silc_ske_st_responder_error.            *)
Error(e, n) == Shut(e, Sent(e, n, "failure", 0))

-----------------------------------------------------------------------------
(* silc_client_rekey_timer.  The event thread is at work while a rekey is. *)
RekeyTimer(e) ==
  /\ e \in Initiators
  /\ ~closed[e]
  /\ ske[e].role = "none" /\ due[e] = "none"
  /\ count[e].rekeys < MaxRekeys
  /\ due' = [due EXCEPT ![e] = "ini"]
  /\ count' = [count EXCEPT ![e].rekeys = @ + 1]
  /\ UNCHANGED <<pfs, ske, mat, send, recv, net, closed, fault>>

(* silc_client_st_rekey: silc_ske_rekey_initiator is started through the   *)
(* scheduler, silc_ske_rekey_responder at once and without a packet, so    *)
(* that it waits for one.  The mutant mixes up the roles.                  *)
FirstStateMixed(role) == IF role = "ini" THEN "wait" ELSE "start"
FirstState(role) == IF role = "ini" THEN "start" ELSE "wait"

StRekey(e) ==
  /\ due[e] # "none" /\ ske[e].role = "none"
  /\ due' = [due EXCEPT ![e] = "none"]
  /\ ske' = [ske EXCEPT ![e] =
               [NoSke EXCEPT !.role = due[e],
                             !.at = FirstState(due[e]),
                             !.queued = due[e] = "ini"]]
  /\ UNCHANGED <<pfs, mat, send, recv, net, closed, fault, count>>

-----------------------------------------------------------------------------
(* The states of the rekey.  k: the SKE with the packet it has got; n: the *)
(* packets on their way once that packet has been read.                    *)

Fresh(e) == <<e, count["client"].rekeys + count["peer"].rekeys>>

(* The material a rekey leads to, with the value v of the other end.       *)
Material(e, k, v) ==
  IF ~pfs THEN Append(mat[e], 0)
  ELSE IF k.role = "ini" THEN <<Fresh(e), v>> ELSE <<v, Fresh(e)>>

(* The key of the REKEY_DONE packet is the one in use until then; with the *)
(* mutant it is the new one.                                               *)
DoneKeyNew(e, new) == new
DoneKey(e, new) == send[e]

(* silc_ske_st_rekey_initiator_done and _responder_done, with              *)
(* silc_packet_set_keys(send_key, rekey = TRUE): REKEY_DONE is sent, then  *)
(* the new key is used.                                                    *)
Done(e, k, n, m) ==
  LET new == Key(m, SendDir(k.role)) IN
  /\ ske' = [ske EXCEPT ![e] = [k EXCEPT !.at = "end", !.keymat = m]]
  /\ net' = [n EXCEPT ![Far(e)] =
               Append(@, [type |-> "rekey_done", key |-> DoneKey(e, new), val |-> 0])]
  /\ send' = [send EXCEPT ![e] = new]
  /\ UNCHANGED <<pfs, due, mat, recv, closed, count>>

Waits(e, k, n) ==
  /\ ske' = [ske EXCEPT ![e] = k]
  /\ net' = n
  /\ UNCHANGED <<pfs, due, mat, send, recv, closed, count>>

(* silc_ske_st_rekey_initiator_start, with silc_ske_st_initiator_phase2    *)
(* when there is PFS.                                                      *)
InitiatorStart(e, k, n) ==
  LET asked == Sent(e, n, "rekey", 0) IN
  IF pfs THEN Waits(e, [k EXCEPT !.at = "phase3"], Sent(e, asked, "ke1", Fresh(e)))
         ELSE Done(e, k, asked, Material(e, k, 0))

(* silc_ske_st_initiator_phase3 and 4 of a rekey.  The mutant waits for    *)
(* the packet of the other role.                                           *)
InitiatorPhase3Swapped(e, k, n) ==
  IF k.packet = "ke1" THEN Done(e, [k EXCEPT !.packet = "none"], n, Material(e, k, k.val))
                      ELSE Error(e, n)

InitiatorPhase3(e, k, n) ==
  IF k.packet = "ke2" THEN Done(e, [k EXCEPT !.packet = "none"], n, Material(e, k, k.val))
                      ELSE Error(e, n)

(* silc_ske_st_rekey_responder_start.                                      *)
ResponderStart(e, k, n) ==
  IF k.packet # "rekey" THEN Error(e, n)
  ELSE IF pfs THEN Waits(e, [k EXCEPT !.at = "phase2"], n)
  ELSE Done(e, k, n, Material(e, k, 0))

(* silc_ske_st_responder_phase2, 4 and 5 of a rekey.                       *)
ResponderPhase2(e, k, n) ==
  IF k.packet = "ke1"
  THEN Done(e, [k EXCEPT !.packet = "none"], Sent(e, n, "ke2", Fresh(e)),
            Material(e, k, k.val))
  ELSE Error(e, n)

(* silc_packet_set_keys with a receiving key.  Its mutant keeps the old.   *)
ReceiveKeyOld(e, k) == recv[e]
ReceiveKey(e, k) == Key(k.keymat, RecvDir(k.role))

(* silc_ske_st_rekey_initiator_end and _responder_end, and the completion  *)
(* callback of a success.  Packets but REKEY_DONE are ignored.             *)
RekeyEnd(e, k, n) ==
  IF k.packet # "rekey_done" THEN Waits(e, [k EXCEPT !.packet = "none"], n)
  ELSE /\ recv' = [recv EXCEPT ![e] = ReceiveKey(e, k)]
       /\ mat' = [mat EXCEPT ![e] = k.keymat]
       /\ ske' = [ske EXCEPT ![e] = NoSke]
       /\ net' = n
       /\ UNCHANGED <<pfs, due, send, closed, count>>

StateFunction(e, k, n) ==
  CASE k.at = "start" -> InitiatorStart(e, k, n)
    [] k.at = "phase3" -> InitiatorPhase3(e, k, n)
    [] k.at = "wait" -> ResponderStart(e, k, n)
    [] k.at = "phase2" -> ResponderPhase2(e, k, n)
    [] k.at = "end" -> RekeyEnd(e, k, n)

(* A state function works, or finds no memory or no algorithm, which ends  *)
(* in the error state.                                                     *)
Run(e, k, n) ==
  \/ StateFunction(e, k, n) /\ UNCHANGED fault
  \/ Error(e, n) /\ fault' = TRUE

(* The task silc_fsm_start has queued.                                     *)
QueuedRun(e) ==
  /\ ske[e].queued
  /\ Run(e, [ske[e] EXCEPT !.queued = FALSE], net)

-----------------------------------------------------------------------------
(* Reading.  A packet that does not authenticate ends the read; InStep     *)
(* says there is none.  silc_ske_packet_receive runs the state function of *)
(* a rekey at once, before the next packet is decrypted.                   *)

(* The types silc_packet_stream_link asks for; the mutant misses one.      *)
LinkedNoDone(role) == {"rekey", "failure", IF role = "ini" THEN "ke2" ELSE "ke1"}
Linked(role) == {"rekey", "rekey_done", "failure", IF role = "ini" THEN "ke2" ELSE "ke1"}

Read(e) == /\ ~closed[e] /\ net[e] # <<>>
           /\ Head(net[e]).key = recv[e]

Rest(e) == [net EXCEPT ![e] = Tail(@)]

(* A packet of the rekey under way.                                        *)
Receive(e) ==
  /\ Read(e)
  /\ ske[e].role # "none" /\ Head(net[e]).type \in Linked(ske[e].role) \ {"failure"}
  /\ Run(e, [ske[e] EXCEPT !.packet = Head(net[e]).type, !.val = Head(net[e]).val], Rest(e))

(* silc_ske_st_initiator_failure and silc_ske_st_responder_failure, or a   *)
(* FAILURE nobody waits for.                                               *)
ReceiveFailure(e) ==
  /\ Read(e)
  /\ Head(net[e]).type = "failure"
  /\ IF ske[e].role # "none" THEN Shut(e, Rest(e))
     ELSE net' = Rest(e) /\ UNCHANGED <<pfs, due, ske, mat, send, recv, closed, count>>
  /\ UNCHANGED fault

(* A REKEY packet while there is no rekey.  silc_client_connection_st_packet*)
(* sets a flag, signals and frees the packet; an end of Hands calls        *)
(* silc_ske_rekey_responder with it.                                       *)
ReceiveRekey(e) ==
  /\ Read(e)
  /\ ske[e].role = "none" /\ Head(net[e]).type = "rekey"
  /\ IF e \in Hands
     THEN Run(e, [NoSke EXCEPT !.role = "res", !.at = "wait", !.packet = "rekey"], Rest(e))
     ELSE /\ due' = [due EXCEPT ![e] = "res"]
          /\ net' = Rest(e)
          /\ UNCHANGED <<pfs, ske, mat, send, recv, closed, fault, count>>

(* Any other packet goes to the application or is dropped.                 *)
ReceiveOther(e) ==
  /\ Read(e)
  /\ Head(net[e]).type \notin Linked(ske[e].role) \/ ske[e].role = "none"
  /\ Head(net[e]).type \notin {"failure", "rekey"}
  /\ net' = Rest(e)
  /\ UNCHANGED <<pfs, due, ske, mat, send, recv, closed, fault, count>>

(* silc_ske_timeout, or a close by the application.                        *)
Timeout(e) ==
  /\ ~closed[e]
  /\ Shut(e, net)
  /\ fault' = TRUE

(* The far end has closed the stream.                                      *)
Eos(e) ==
  /\ ~closed[e] /\ closed[Far(e)] /\ net[e] = <<>>
  /\ Shut(e, net)
  /\ UNCHANGED fault

-----------------------------------------------------------------------------
Reads(e) == Receive(e) \/ ReceiveFailure(e) \/ ReceiveRekey(e) \/ ReceiveOther(e)

Next ==
  \E e \in End :
    \/ Data(e) \/ RekeyTimer(e) \/ StRekey(e) \/ QueuedRun(e)
    \/ Receive(e) \/ ReceiveFailure(e) \/ ReceiveRekey(e) \/ ReceiveOther(e)
    \/ Timeout(e) \/ Eos(e)

Spec == Init /\ [][Next]_vars

(* The event loop runs queued tasks and reads what has arrived; nothing is *)
(* assumed of the timeout.                                                 *)
FairSpec ==
  Spec /\ \A e \in End : WF_vars(StRekey(e) \/ QueuedRun(e)) /\ WF_vars(Reads(e) \/ Eos(e))

-----------------------------------------------------------------------------
(* Every packet is read with the key it was protected with, across the     *)
(* switch of both directions and whatever is sent meanwhile, and when no   *)
(* rekey is going on the two ends have the same material for the next.     *)
InStep ==
  \A e \in End : ~closed[e] =>
    /\ net[e] # <<>> => Head(net[e]).key = recv[e]
    /\ /\ net = [x \in End |-> <<>>] /\ ~closed[Far(e)]
       /\ \A x \in End : ske[x].role = "none"
       => recv[e] = send[Far(e)] /\ mat[e] = mat[Far(e)]

(* A rekey does not cost the connection unless a step of it has failed or  *)
(* somebody has closed it.                                                 *)
SurvivesRekey == \A e \in End : closed[e] => fault

(* A rekey comes to its end without the help of its timeout.               *)
RekeyEnds == \A e \in End : ske[e].role # "none" ~> ske[e].role = "none"
=============================================================================
