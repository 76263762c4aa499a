------------------------------ MODULE SilcSke ------------------------------
(***************************************************************************)
(* The SILC Key Exchange of lib/silcske/silcske.c: an initiator and a      *)
(* responder, each a state machine driven by packets, timers, its owner    *)
(* and the answer of the application that verifies the remote's key.       *)
(*                                                                         *)
(* Payloads, groups and keys are not represented: decoding, choosing       *)
(* algorithms, allocating, signing and sending either work or fail (ok),   *)
(* which also covers what a resend makes of its data: silc_ske_packet_send *)
(* frees the saved packet before it copies it when it is called with the   *)
(* saved packet itself, so that the copy may be damaged.                   *)
(***************************************************************************)
EXTENDS Naturals, Sequences

CONSTANTS
  Params,        \* kinds of exchange, see ParamsAssumption
  RetryCount     \* SILC_SKE_RETRY_COUNT

Side == {"ini", "res"}
Other(s) == IF s = "ini" THEN "res" ELSE "ini"

(* udp: datagram stream; prop: security properties given, no proposals;    *)
(* no_acks: no SUCCESS packets; verify: the sides that verify keys;        *)
(* guarded: the owner drops a late answer (SilcVerifyKeyContext.aborted of *)
(* client_prvmsg.c, on the stream its packets are wrapped in), where       *)
(* client_connect.c and client_listener.c do not.                          *)
ASSUME ParamsAssumption ==
  /\ Params \subseteq [udp : BOOLEAN, prop : BOOLEAN, no_acks : BOOLEAN,
                       verify : SUBSET Side, guarded : BOOLEAN]
  /\ \A p \in Params : ~(p.udp /\ p.guarded)
  /\ RetryCount \in Nat

Packets == {"ke", "ke1", "ke2", "success", "failure"}
States == {"start", "phase1", "phase2", "phase3", "phase4", "phase5", "end",
           "aborted", "error", "failure", "null"}
Causes == {"packet", "timeout", "abort", "nokey"}

VARIABLES
  par,       \* kind of this exchange
  ske,       \* SilcSKE and its SilcFSM, of each side
  net,       \* packets on their way to each side
  running,   \* side whose state functions run, "none" or "undefined"
  disturbed  \* history: what came between a side and its verification

vars == <<par, ske, net, running, disturbed>>

Idle == [next |-> "null", started |-> FALSE, run |-> 0, fin |-> FALSE,
         packet |-> "none", ok |-> TRUE, notified |-> FALSE, aborted |-> FALSE,
         linked |-> FALSE, timers |-> {}, retry |-> 0, retrans |-> "none",
         refcnt |-> 1, owned |-> TRUE, verdict |-> "none", told |-> <<>>]

(* One type for the SKE of both sides: silcske_i.h.                        *)
TypeOK ==
  /\ par \in Params
  /\ running \in Side \cup {"none", "undefined"}
  /\ net \in [Side -> Seq(Packets)]
  /\ disturbed \in [Side -> Causes \cup {"none"}]
  /\ \A s \in Side :
       /\ DOMAIN ske[s] = DOMAIN Idle
       /\ ske[s].next \in States
       /\ ske[s].packet \in Packets \cup {"none"}
       /\ ske[s].retrans \in Packets \cup {"none"}
       /\ ske[s].timers \subseteq {"timeout", "probe", "retry"}
       /\ ske[s].retry \in 0..RetryCount
       /\ ske[s].run \in Nat /\ ske[s].refcnt \in 0..2
       /\ ske[s].verdict \in {"none", "asked", "yes", "no", "late"}
       /\ ske[s].told \in Seq(BOOLEAN)

Init ==
  /\ par \in Params
  /\ ske = [s \in Side |-> Idle]
  /\ net = [s \in Side |-> <<>>]
  /\ running = "none"
  /\ disturbed = [s \in Side |-> "none"]

-----------------------------------------------------------------------------
(* Sending.  A stream delivers each packet once and in order.  A datagram  *)
(* may be lost, delayed and duplicated, so it stays, and one of each type  *)
(* is enough.                                                              *)

Sent(s, t) ==
  LET to == Other(s)
      old == net[to]
  IN IF par.udp /\ \E i \in 1..Len(old) : old[i] = t
     THEN net ELSE [net EXCEPT ![to] = Append(old, t)]

(* silc_ske_install_retransmission, for an SKE with something to resend.   *)
Armed(k) == IF par.udp /\ k.retrans # "none"
            THEN [k EXCEPT !.timers = @ \cup {"retry"}] ELSE k

(* What silc_ske_packet_send leaves in the SKE: over UDP everything but a  *)
(* FAILURE is kept and sent again.                                         *)
Saved(k, t) == IF par.udp THEN Armed([k EXCEPT !.retrans = t]) ELSE k

(* silc_ske_notify_failure: only the first failure changes the state.      *)
(* Its mutant marks the failure and leaves the state.                      *)
NotifiedOnly(k) == [k EXCEPT !.notified = TRUE]
Notified(k) == IF k.notified THEN k
               ELSE [k EXCEPT !.notified = TRUE, !.next = "failure"]

-----------------------------------------------------------------------------
(* Starting: silc_ske_initiator, silc_ske_responder.  The mutant of the     *)
(* timers has the one for the first packet only.                           *)

StartTimersProbe(s) == IF s = "ini" THEN {"probe"} ELSE {}
StartTimers(s) == IF s = "ini" THEN {"timeout", "probe"} ELSE {"timeout"}

Start(s) ==
  /\ running = "none"
  /\ ske[s] = Idle
  /\ ske' = [ske EXCEPT ![s].next = IF s = "ini" /\ par.prop THEN "phase2" ELSE "start",
                        ![s].started = TRUE, ![s].run = 1, ![s].linked = TRUE,
                        ![s].refcnt = @ + 1,
                        ![s].timers = StartTimers(s)]
  /\ UNCHANGED <<par, net, running, disturbed>>

-----------------------------------------------------------------------------
(* Events.  While the application verifies the key, the state machine has   *)
(* its next state set and its stream linked, and takes what comes.  The    *)
(* history notes what comes to a side of which the owner would not drop a  *)
(* late answer, and a packet for good.                                     *)

Disturb(s, what) ==
  disturbed' = IF /\ ske[s].verdict = "asked" /\ ~par.guarded
                  /\ disturbed[s] \notin {"packet", "nokey"}
               THEN [disturbed EXCEPT ![s] = what] ELSE disturbed

Wants(s) == Packets \ {IF s = "ini" THEN "ke1" ELSE "ke2"}

(* silc_ske_packet_receive.  A SUCCESS is processed at once.               *)
PacketReceive(s, t) ==
  LET k == [ske[s] EXCEPT !.retry = 0, !.timers = @ \ {"retry"}, !.packet = t]
      failed == IF t = "failure" THEN Notified(k) ELSE k
  IN \/ /\ k.aborted
        /\ ske' = [ske EXCEPT ![s] = [k EXCEPT !.packet = "none", !.next = "aborted"]]
        /\ running' = s
     \/ /\ ~k.aborted
        /\ t = "success"
        /\ ske' = [ske EXCEPT ![s] = failed]
        /\ running' = s
     \/ /\ ~k.aborted
        /\ t # "success"
        /\ ske' = [ske EXCEPT ![s] = [failed EXCEPT !.run = @ + 1]]
        /\ UNCHANGED running

(* A packet arrives at a stream the SKE is linked to.  A read takes one    *)
(* datagram, and what it wakes is run before the next read; the packets of *)
(* a stream may come several in one read.                                  *)
Deliver(s) ==
  /\ running = "none"
  /\ ske[s].linked
  /\ par.udp => ske[s].run = 0
  /\ \E i \in 1..Len(net[s]) :
       /\ ~par.udp => i = 1
       /\ net[s][i] \in Wants(s)
       /\ PacketReceive(s, net[s][i])
       /\ net' = IF par.udp THEN net ELSE [net EXCEPT ![s] = Tail(@)]
  /\ Disturb(s, "packet")
  /\ UNCHANGED par

(* A packet nobody is linked for is dropped by the packet engine.          *)
Ignore(s) ==
  /\ running = "none"
  /\ ~par.udp
  /\ ske[s] # Idle /\ ~ske[s].linked
  /\ net[s] # <<>>
  /\ net' = [net EXCEPT ![s] = Tail(@)]
  /\ UNCHANGED <<par, ske, running, disturbed>>

(* silc_ske_timeout and silc_ske_probe_timeout.                            *)
Timeout(s, which) ==
  /\ running = "none"
  /\ which \in ske[s].timers
  /\ LET k == [ske[s] EXCEPT !.timers = @ \ {which}, !.packet = "none", !.ok = FALSE]
     IN ske' = [ske EXCEPT ![s] = Notified(k)]
  /\ running' = s
  /\ Disturb(s, "timeout")
  /\ UNCHANGED <<par, net>>

(* The limit of retransmissions, and its mutant with one too many.         *)
ExhaustedLate(k) == k.retry > RetryCount \/ k.aborted
Exhausted(k) == k.retry >= RetryCount \/ k.aborted

(* silc_ske_packet_send_retry: gives up, or sends again.                   *)
Retry(s) ==
  /\ running = "none"
  /\ "retry" \in ske[s].timers
  /\ LET k == [ske[s] EXCEPT !.timers = @ \ {"retry"}] IN
     \/ /\ Exhausted(k)
        /\ ske' = [ske EXCEPT ![s] = Notified([k EXCEPT !.retry = 0, !.retrans = "none",
                                                        !.ok = FALSE])]
        /\ running' = s
        /\ UNCHANGED net
     \/ /\ ~Exhausted(k)
        /\ ske' = [ske EXCEPT ![s] = Armed([k EXCEPT !.retry = @ + 1])]
        /\ net' = Sent(s, k.retrans)
        /\ UNCHANGED running
  /\ Disturb(s, "timeout")
  /\ UNCHANGED par

(* silc_ske_packet_receive of another SKE with the same scheduler deletes  *)
(* the retransmission timers of all, by their callback.                    *)
RetryDeletedByOther(s) ==
  /\ running = "none"
  /\ "retry" \in ske[s].timers
  /\ ske' = [ske EXCEPT ![s].timers = @ \ {"retry"}]
  /\ UNCHANGED <<par, net, running, disturbed>>

(* silc_ske_pk_verified: the application, or the key repository, answers,  *)
(* at any time.  An owner with a guard drops the answer once it has freed  *)
(* its SKE, which it does before anything else when it aborts or the SKE   *)
(* has completed.                                                          *)
Answer(s, trusted) ==
  /\ running = "none"
  /\ ske[s].verdict = "asked"
  /\ IF par.guarded THEN ske[s].owned => ske[s].told = <<>> /\ ~ske[s].aborted
                    ELSE ske[s].started
  /\ ske' = IF par.guarded /\ ~ske[s].owned
            THEN [ske EXCEPT ![s].verdict = "none"]
            ELSE [ske EXCEPT ![s].verdict = IF trusted THEN "yes" ELSE "no",
                             ![s].ok = trusted, ![s].run = @ + 1]
  /\ UNCHANGED <<par, net, running, disturbed>>

(* Without a guard the answer goes to an SKE that has finished or is freed *)
(* as well: what it does there is not defined, and the behaviour ends.     *)
LateAnswer(s) ==
  /\ running = "none"
  /\ ske[s].verdict = "asked"
  /\ ~par.guarded /\ ~ske[s].started
  /\ ske' = [ske EXCEPT ![s].verdict = "late"]
  /\ running' = "undefined"
  /\ UNCHANGED <<par, net, disturbed>>

(* silc_ske_abort, through silc_async_abort by the owner, who forgets the  *)
(* operation when it completes.                                            *)
Abort(s) ==
  /\ running = "none"
  /\ ske[s].next # "null" /\ ske[s].told = <<>> /\ ~ske[s].aborted
  /\ ske' = [ske EXCEPT ![s].aborted = TRUE]
  /\ Disturb(s, "abort")
  /\ UNCHANGED <<par, net, running>>

(* The effect of silc_ske_free but for the state function it may run.      *)
Released(k) ==
  [(IF k.aborted THEN Notified([k EXCEPT !.packet = "none", !.ok = FALSE]) ELSE k)
   EXCEPT !.refcnt = @ - 1]

(* silc_ske_free by the owner, when the exchange is over for it.           *)
Free(s) ==
  /\ running = "none"
  /\ ske[s].owned
  /\ ske[s].told # <<>> \/ ske[s].aborted
  /\ ske' = [ske EXCEPT ![s] = [Released(@) EXCEPT !.owned = FALSE]]
  /\ running' = IF ske[s].aborted /\ ske[s].started THEN s ELSE "none"
  /\ Disturb(s, "abort")
  /\ UNCHANGED <<par, net>>

(* The tasks of the FSM: silc_fsm_run and silc_fsm_finish_fsm, whose       *)
(* destructor is silc_ske_finished.                                        *)
RunTask(s) ==
  /\ running = "none"
  /\ ske[s].run > 0
  /\ ske' = [ske EXCEPT ![s].run = @ - 1]
  /\ running' = s
  /\ UNCHANGED <<par, net, disturbed>>

FinishTask(s) ==
  /\ running = "none"
  /\ ske[s].fin
  /\ ske' = [ske EXCEPT ![s] = Released([@ EXCEPT !.fin = FALSE, !.next = "null"])]
  /\ UNCHANGED <<par, net, running, disturbed>>

-----------------------------------------------------------------------------
(* How a state function ends.                                              *)

In(s, state) == running = s /\ ske[s].next = state

(* The state functions that read the packet: without one there is no step. *)
ReadsPacket(s) ==
  \/ ske[s].next \in {"phase1", "phase3"}
  \/ ske[s].next = "phase2" /\ s = "res"
  \/ ske[s].next = "end" /\ ~par.no_acks

MissesPacket(s) == running = s /\ ReadsPacket(s) /\ ske[s].packet = "none"

Continue(s, k) == ske' = [ske EXCEPT ![s] = k] /\ UNCHANGED <<par, net, running, disturbed>>
Wait(s, k) ==
  ske' = [ske EXCEPT ![s] = k] /\ running' = "none" /\ UNCHANGED <<par, net, disturbed>>

(* silc_ske_packet_send and wait in the next state.                        *)
SendAndWait(s, k, t) ==
  /\ ske' = [ske EXCEPT ![s] = Saved(k, t)]
  /\ net' = Sent(s, t)
  /\ running' = "none"
  /\ UNCHANGED <<par, disturbed>>

(* The common end: unlink, delete tasks, silc_ske_completion and finish.   *)
(* The mutant leaves the timers of the SKE behind.                         *)
FinishedTimed(k) ==
  [k EXCEPT !.linked = FALSE, !.packet = "none",
            !.told = IF k.aborted THEN @ ELSE Append(@, k.ok),
            !.started = FALSE, !.run = 0, !.fin = TRUE]

Finished(k) ==
  [k EXCEPT !.linked = FALSE, !.timers = {}, !.packet = "none",
            !.told = IF k.aborted THEN @ ELSE Append(@, k.ok),
            !.started = FALSE, !.run = 0, !.fin = TRUE]

Failing(k) == [k EXCEPT !.ok = FALSE, !.next = "error"]

(* "Remote retransmitted an old packet"                                    *)
OldPacket(s) ==
  LET k == [ske[s] EXCEPT !.packet = "none"]
  IN IF par.udp THEN Wait(s, Armed(k)) ELSE Continue(s, Failing(k))

-----------------------------------------------------------------------------
(* The states of the initiator.                                            *)

InitiatorStart ==
  /\ In("ini", "start")
  /\ LET k == ske["ini"] IN
     \/ k.aborted /\ Continue("ini", [k EXCEPT !.next = "aborted"])
     \/ ~k.aborted /\ Continue("ini", Failing(k))
     \/ ~k.aborted /\ SendAndWait("ini", [k EXCEPT !.next = "phase1"], "ke")

InitiatorPhase1 ==
  /\ In("ini", "phase1") /\ ~MissesPacket("ini")
  /\ LET k == [ske["ini"] EXCEPT !.packet = "none", !.timers = @ \ {"probe"}] IN
     \/ ske["ini"].packet # "ke" /\ OldPacket("ini")
     \/ ske["ini"].packet = "ke" /\ Continue("ini", Failing(k))
     \/ ske["ini"].packet = "ke" /\ Continue("ini", [k EXCEPT !.next = "phase2"])

InitiatorPhase2 ==
  /\ In("ini", "phase2")
  /\ \/ Continue("ini", Failing(ske["ini"]))
     \/ SendAndWait("ini", [ske["ini"] EXCEPT !.next = "phase3"], "ke1")

(* The verification of the remote's key: the state asks the application,   *)
(* which answers in the callback or later, or goes on when nobody verifies.*)
Verify(s, k) ==
  \/ s \notin par.verify /\ Continue(s, k)
  \/ s \in par.verify /\ Wait(s, [k EXCEPT !.verdict = "asked"])
  \/ s \in par.verify /\ Continue(s, [k EXCEPT !.verdict = "yes", !.ok = TRUE])
  \/ s \in par.verify /\ Continue(s, [k EXCEPT !.verdict = "no", !.ok = FALSE])

(* A key that does not decode or is not supported is an error.  A key that  *)
(* is not provided, and a failed allocation, leave by `return              *)
(* SILC_SKE_STATUS_ERROR', which the FSM takes for SILC_FSM_YIELD: the     *)
(* state is run again, and its packet is gone.                             *)
YieldError(s, k) ==
  /\ ske' = [ske EXCEPT ![s] = [k EXCEPT !.ok = FALSE, !.run = @ + 1]]
  /\ running' = "none"
  /\ disturbed' = [disturbed EXCEPT ![s] = "nokey"]
  /\ UNCHANGED <<par, net>>

InitiatorPhase3 ==
  /\ In("ini", "phase3") /\ ~MissesPacket("ini")
  /\ LET k == [ske["ini"] EXCEPT !.packet = "none"] IN
     \/ ske["ini"].packet # "ke2" /\ OldPacket("ini")
     \/ ske["ini"].packet = "ke2" /\ Continue("ini", Failing(k))
     \/ ske["ini"].packet = "ke2" /\ YieldError("ini", k)
     \/ ske["ini"].packet = "ke2" /\ Verify("ini", [k EXCEPT !.next = "phase4"])

InitiatorPhase4 ==
  /\ In("ini", "phase4")
  /\ LET k == ske["ini"] IN
     \/ k.aborted /\ Continue("ini", [k EXCEPT !.next = "aborted"])
     \/ ~k.aborted /\ Continue("ini", Failing(k))
     \/ /\ ~k.aborted /\ k.ok
        /\ IF par.no_acks
           THEN Continue("ini", [k EXCEPT !.next = "end"])
           ELSE SendAndWait("ini", [k EXCEPT !.next = "end"], "success")

(* The mutant completes with whatever packet comes.                        *)
InitiatorEndAny == In("ini", "end") /\ Wait("ini", Finished(ske["ini"]))

InitiatorEnd ==
  /\ In("ini", "end") /\ ~MissesPacket("ini")
  /\ \/ ~par.no_acks /\ ske["ini"].packet # "success" /\ OldPacket("ini")
     \/ /\ par.no_acks \/ ske["ini"].packet = "success"
        /\ Wait("ini", Finished(ske["ini"]))

-----------------------------------------------------------------------------
(* The states of the responder.                                            *)

ResponderStart ==
  /\ In("res", "start")
  /\ LET k == ske["res"] IN
     \/ k.aborted /\ Continue("res", [k EXCEPT !.next = "aborted"])
     \/ /\ ~k.aborted
        /\ Wait("res", [k EXCEPT !.next = IF par.prop THEN "phase2" ELSE "phase1"])

(* The type of the packet is not looked at; another payload does not decode.*)
ResponderPhase1 ==
  /\ In("res", "phase1") /\ ~MissesPacket("res")
  /\ LET k == [ske["res"] EXCEPT !.packet = "none"] IN
     \/ Continue("res", Failing(k))
     \/ /\ ske["res"].packet = "ke"
        /\ SendAndWait("res", [k EXCEPT !.next = "phase2"], "ke")

ResponderPhase2 ==
  /\ In("res", "phase2") /\ ~MissesPacket("res")
  /\ LET k == [ske["res"] EXCEPT !.packet = "none"] IN
     \/ ske["res"].packet # "ke1" /\ OldPacket("res")
     \/ ske["res"].packet = "ke1" /\ Continue("res", Failing(k))
     \/ ske["res"].packet = "ke1" /\ Verify("res", [k EXCEPT !.next = "phase4"])

ResponderPhase4 ==
  /\ In("res", "phase4")
  /\ LET k == ske["res"] IN
     \/ k.aborted /\ Continue("res", [k EXCEPT !.next = "aborted"])
     \/ ~k.aborted /\ Continue("res", Failing(k))
     \/ ~k.aborted /\ k.ok /\ Continue("res", [k EXCEPT !.next = "phase5"])

ResponderPhase5 ==
  /\ In("res", "phase5")
  /\ LET k == ske["res"]
         done == [k EXCEPT !.next = "end"]
     IN \/ Continue("res", Failing(k))
        \/ ~par.no_acks /\ SendAndWait("res", done, "ke2")
        \/ /\ par.no_acks
           /\ ske' = [ske EXCEPT !["res"] = Saved(done, "ke2")]
           /\ net' = Sent("res", "ke2")
           /\ UNCHANGED <<par, running, disturbed>>

(* The SUCCESS is sent last and its retransmission is deleted with all     *)
(* other tasks.                                                            *)
ResponderEnd ==
  /\ In("res", "end") /\ ~MissesPacket("res")
  /\ LET k == [ske["res"] EXCEPT !.packet = "none"]
         ready == par.no_acks \/ ske["res"].packet = "success"
     IN \/ ~ready /\ OldPacket("res")
        \/ ready /\ Continue("res", Failing(k))
        \/ /\ ready
           /\ ske' = [ske EXCEPT !["res"] = Finished(k)]
           /\ net' = IF par.no_acks THEN net ELSE Sent("res", "success")
           /\ running' = "none"
           /\ UNCHANGED <<par, disturbed>>

-----------------------------------------------------------------------------
(* The ends both sides share: aborted and error send a FAILURE, failure    *)
(* does not.                                                               *)

SendFailure(s) ==
  /\ In(s, "aborted") \/ In(s, "error")
  /\ ske' = [ske EXCEPT ![s] = Finished(@)]
  /\ net' = Sent(s, "failure")
  /\ running' = "none"
  /\ UNCHANGED <<par, disturbed>>

Failure(s) ==
  /\ In(s, "failure")
  /\ Wait(s, Finished([ske[s] EXCEPT !.ok = FALSE]))

-----------------------------------------------------------------------------
StateFunction ==
  \/ InitiatorStart \/ InitiatorPhase1 \/ InitiatorPhase2 \/ InitiatorPhase3
  \/ InitiatorPhase4 \/ InitiatorEnd
  \/ ResponderStart \/ ResponderPhase1 \/ ResponderPhase2 \/ ResponderPhase4
  \/ ResponderPhase5 \/ ResponderEnd
  \/ \E s \in Side : SendFailure(s) \/ Failure(s)

Next ==
  \/ StateFunction
  \/ \E s \in Side :
       \/ Start(s) \/ Deliver(s) \/ Ignore(s) \/ Retry(s) \/ RetryDeletedByOther(s)
       \/ Abort(s) \/ Free(s) \/ RunTask(s) \/ FinishTask(s)
       \/ Timeout(s, "timeout") \/ Timeout(s, "probe")
       \/ LateAnswer(s)
       \/ \E trusted \in BOOLEAN : Answer(s, trusted)

Spec == Init /\ [][Next]_vars

(* The scheduler runs the timers and tasks that are due, and the           *)
(* application answers and frees.  The timeout alone has to make every     *)
(* exchange end, so that a packet or a queued run need not come.           *)
Concludes(s) == FinishTask(s) \/ Free(s) \/ \E trusted \in BOOLEAN : Answer(s, trusted)

Fairness ==
  /\ WF_vars(StateFunction)
  /\ SF_vars(\E s \in Side : Timeout(s, "timeout"))
  /\ SF_vars(\E s \in Side : Concludes(s))

FairSpec == Spec /\ Fairness

-----------------------------------------------------------------------------
(* What goes wrong while the key is verified and the owner has no guard.   *)
AnsweredLate(s) == ske[s].verdict = "late"
Overtaken(s) == par.udp /\ disturbed[s] = "packet"
Broken == \E s \in Side : MissesPacket(s) \/ AnsweredLate(s)

(* With acknowledgements, an initiator that reports success has a          *)
(* responder that has reported success: whatever is lost, repeated, late   *)
(* or aborted, nobody uses keys the other side has given up.  Only a       *)
(* responder that a repeated datagram has driven past the verification may *)
(* have heard the refusal after that.                                      *)
KeyConfirmed ==
  ~par.no_acks /\ ske["ini"].told = <<TRUE>>
    => ske["res"].told = <<TRUE>> \/ Overtaken("res")

(* A successful exchange ends with a key that the application has accepted.*)
VerifiedBeforeDone ==
  \A s \in Side : ske[s].told = <<TRUE>> /\ s \in par.verify => ske[s].verdict = "yes"

(* The completion callback is called at most once, and not after the owner *)
(* has aborted; the SKE is there as long as anything refers to it, and     *)
(* nothing wakes it later: whatever comes during the verification.         *)
CompletesOnce ==
  \A s \in Side :
    /\ Len(ske[s].told) <= 1
    /\ ske[s].aborted => ske[s].told = <<>>
    /\ ske[s].refcnt = (IF ske[s].owned THEN 1 ELSE 0)
                       + (IF ske[s].started \/ ske[s].fin THEN 1 ELSE 0)
    /\ ~ske[s].started => ~ske[s].linked /\ ske[s].timers = {} /\ ske[s].run = 0

(* Everything the verification can go wrong by has its cause.  A success   *)
(* without an accepted key, and an answer that finds the state machine     *)
(* driven on, follow a datagram that came in meanwhile; a state function   *)
(* without its packet follows that or the error return of phase 3; and an  *)
(* answer that comes too late follows a packet, a timeout or an abort to an*)
(* owner without a guard.                                                  *)
WokenForItsReason ==
  \A s \in Side :
    /\ ske[s].told = <<TRUE>> /\ s \in par.verify /\ ske[s].verdict # "yes" => Overtaken(s)
    /\ MissesPacket(s) => Overtaken(s) \/ disturbed[s] = "nokey"
    /\ AnsweredLate(s) => disturbed[s] \in {"packet", "timeout", "abort"}
    /\ ske[s].verdict = "asked" /\ ske[s].owned /\ ske[s].told = <<>> /\ ~ske[s].aborted
         => ske[s].started /\ (ske[s].notified \/ ske[s].next = "phase4" \/ Overtaken(s))

(* Every exchange that is started ends and is freed, however many packets  *)
(* are lost, but for the two ways in which the program itself breaks.      *)
ExchangeEnds == \A s \in Side : ske[s].started ~> (ske[s].refcnt = 0 \/ Broken)

(* The answer of the application finds the SKE that asked for it.          *)
NeverAnsweredLate == \A s \in Side : ~AnsweredLate(s)

(* A remote that did not send its public key is told to the owner as the   *)
(* status of the exchange.                                                 *)
NoKeyIsTold ==
  \A s \in Side : disturbed[s] = "nokey" ~> (ske[s].told = <<FALSE>> \/ ske[s].aborted)
=============================================================================
