--------------------------- MODULE SilcFsm_proofs ---------------------------
(***************************************************************************)
(* Proofs about SilcFsm, for every set of threads and events and every     *)
(* bound on the counters.                                                  *)
(*                                                                         *)
(* SafetyInv of SilcFsm is inductive when real threads and timed waits are *)
(* not mixed.  Its parts are proved one lemma each, a step per action; the *)
(* count of threads, which needs cardinalities, is proved on top of them.  *)
(***************************************************************************)
EXTENDS SilcFsm, FiniteSetTheorems, TLAPS

(* The state function a system thread executes is at the place "run". *)
LEMMA ExecutingRuns == \A f : Executing(f) => pc[f] = "run"
BY DEF Executing

(* A state function that is free to go on runs and waits for no event. *)
LEMMA FreeRuns == \A f : Free(f) => pc[f] = "run" /\ on[f] = NoEvent
BY DEF Executing, Free

(* Continuing an FSM that has no silc_fsm_run task leaves it with the new    *)
(* ones only, also when it slept in silc_fsm_next_later.                     *)
LEMMA CancelEffect ==
  ASSUME TypeOK, OneActivation, NEW f \in Fsms, NEW more \in Nat,
         CancelLater(f, more), pc[f] # "ready"
  PROVE  /\ runq' = [runq EXCEPT ![f] = more]
         /\ lateq' = [lateq EXCEPT ![f] = 0]
         /\ nextLater' = [nextLater EXCEPT ![f] = FALSE]
<1>1. CASE nextLater[f]
  BY <1>1 DEF CancelLater, TypeOK
<1>2. CASE ~nextLater[f]
  <2>1. runq[f] = 0 /\ lateq[f] = 0
    BY <1>2 DEF OneActivation
  <2> QED BY <1>2, <2>1 DEF CancelLater, TypeOK
<1> QED BY <1>1, <1>2

(* The joiner that silc_fsm_thread_termination_signal continues, if any. *)
Woken(f) == IF joiner[f] # NoFsm /\ pc[joiner[f]] = "join"
              THEN joiner[f] ELSE NoFsm

(* silc_fsm_finish_fsm ends f and makes its joiner, and nobody else, ready. *)
Ended(f) ==
  /\ \A g \in Fsms :
       /\ pc'[g] = IF g = f THEN "none"
                   ELSE IF g = Woken(f) THEN "ready" ELSE pc[g]
       /\ runq'[g] = IF g = Woken(f) THEN 1 ELSE runq[g]
       /\ lateq'[g] = lateq[g]
       /\ g # f /\ g # Woken(f) => nextLater'[g] = nextLater[g]
  /\ nextState' = [nextState EXCEPT ![f] = FALSE]
  /\ joiner' = [joiner EXCEPT ![f] = NoFsm]
  /\ threads' = IF f = Machine THEN threads ELSE threads - 1
  /\ Woken(f) # NoFsm =>
       f \in Threads /\ Woken(f) \in Fsms /\ pc[Woken(f)] = "join"

(* What silc_fsm_finish_fsm does, whichever tasks silc_fsm_finish deleted. *)
LEMMA FinishEffect ==
  ASSUME TypeOK, OneActivation, JoinersJoin, NEW f \in Fsms,
         NEW swept \in SUBSET {f}, FinishFsm(f, swept), pc[f] \in {"run", "fin"}
  PROVE  Ended(f)
<1> DEFINE w == Woken(f)
           W == {g \in {joiner[f]} \ {NoFsm} : pc[g] = "join"}
<1>1. w # NoFsm => f \in Threads /\ pc[w] = "join" /\ w \in Fsms /\ w # f
  BY DEF JoinersJoin, Fsms, Woken, TypeOK
<1>2. \A g \in Fsms : g \in W <=> g = w
  BY FsmsAssumption DEF Woken
<1>3. /\ runq[f] = 0 /\ lateq[f] = 0
      /\ w # NoFsm => runq[w] = 0 /\ lateq[w] = 0
  BY <1>1 DEF OneActivation
<1>4. ASSUME NEW g \in Fsms
      PROVE  /\ pc'[g] = IF g = f THEN "none"
                          ELSE IF g = w THEN "ready" ELSE pc[g]
             /\ g # f /\ g # w => nextLater'[g] = nextLater[g]
  <2> HIDE DEF w
  <2> QED BY <1>1, <1>2, FsmsAssumption DEF FinishFsm, TypeOK
<1>5. ASSUME NEW g \in Fsms
      PROVE  /\ runq'[g] = IF g = w THEN 1 ELSE runq[g]
             /\ lateq'[g] = lateq[g]
  <2> HIDE DEF w
  <2>1. CASE g = w
    BY <1>1, <1>2, <1>3, <2>1, FsmsAssumption DEF FinishFsm, TypeOK
  <2>2. CASE g # w
    BY <1>1, <1>2, <1>3, <2>2, FsmsAssumption DEF FinishFsm, TypeOK
  <2> QED BY <2>1, <2>2
<1> QED BY <1>1, <1>4, <1>5 DEF FinishFsm, Ended

(* So an FSM stays where it is, is the one that ends, or was joining it. *)
EndMove(f, g) ==
  \/ pc'[g] = pc[g] /\ g # f
  \/ g = f /\ pc'[g] = "none"
  \/ g # f /\ pc[g] = "join" /\ pc'[g] = "ready"

(* The places before and after silc_fsm_finish_fsm. *)
LEMMA EndedMoves ==
  ASSUME NEW f \in Fsms, Ended(f)
  PROVE  \A g \in Fsms : EndMove(f, g)
BY FsmsAssumption DEF Ended, EndMove

(* SILC_FSM_FINISH of a synchronous FSM has that effect at once ... *)
LEMMA FinishSyncEnds ==
  ASSUME TypeOK, OneActivation, JoinersJoin, NEW f \in Fsms, FinishSync(f)
  PROVE  /\ Ended(f) /\ pc[f] = "run" /\ on[f] = NoEvent
         /\ UNCHANGED <<real, finq, on, timed, events>> /\ Pop(f)
<1>1. FinishFsm(f, {f}) /\ Free(f) BY DEF FinishSync, MayFinish
<1>2. pc[f] = "run" /\ on[f] = NoEvent BY <1>1, FreeRuns
<1>3. Ended(f) BY <1>1, <1>2, FinishEffect
<1> QED BY <1>2, <1>3 DEF FinishSync

(* ... and of another FSM when its silc_fsm_finish_fsm task is dispatched. *)
LEMMA DispatchFinishEnds ==
  ASSUME TypeOK, OneActivation, JoinersJoin, NEW f \in Fsms, DispatchFinish(f)
  PROVE  /\ Ended(f) /\ pc[f] = "fin" /\ finq' = [finq EXCEPT ![f] = @ - 1]
         /\ UNCHANGED <<real, on, stack, timed, events>>
<1>1. FinishFsm(f, {}) BY DEF DispatchFinish
<1>2. pc[f] = "fin" BY DEF DispatchFinish, OneActivation, TypeOK
<1>3. Ended(f) BY <1>1, <1>2, FinishEffect
<1> QED BY <1>2, <1>3 DEF DispatchFinish

-----------------------------------------------------------------------------
(* Every step preserves the invariants *)

(* Every step leaves a sequence of FSMs on each system thread's stack: a state *)
(* function is only left by the FSM on top.                                  *)
LEMMA NextStackOK ==
  ASSUME TypeOK, [Next]_vars
  PROVE  StackOK'
<1> USE DEF object, timed, family, events, tasks, control
<1>1. ASSUME TypeOK, NEW f \in Fsms, Yield(f)
      PROVE  StackOK'
  BY <1>1
  DEF Yield, CancelLater, Free, Executing, Pop, TypeOK, StackOK, Fsms, ProcOf
<1>2. ASSUME TypeOK, NEW f \in Fsms, AsyncCall(f)
      PROVE  StackOK'
  BY <1>2
  DEF AsyncCall, ReturnWait, Free, Executing, Pop, TypeOK, StackOK, Fsms,
      ProcOf
<1>3. ASSUME TypeOK, NEW f \in Fsms, NextLater(f)
      PROVE  StackOK'
  BY <1>3
  DEF NextLater, ReturnWait, Free, Executing, Pop, TypeOK, StackOK, Fsms,
      ProcOf
<1>4. ASSUME TypeOK, NEW f \in Fsms, Finish(f)
      PROVE  StackOK'
  BY <1>4
  DEF Finish, MayFinish, Free, Executing, Pop, TypeOK, StackOK, Fsms, ProcOf
<1>5. ASSUME TypeOK, NEW f \in Fsms, FinishSync(f)
      PROVE  StackOK'
  BY <1>5
  DEF FinishSync, MayFinish, FinishFsm, Free, Executing, Pop, TypeOK, StackOK,
      Fsms, ProcOf
<1>6. ASSUME TypeOK, NEW f \in Fsms, TimedWaitArms(f)
      PROVE  StackOK'
  BY <1>6 DEF TimedWaitArms, ReturnWait, Pop, TypeOK, StackOK, Fsms, ProcOf
<1>7. ASSUME TypeOK, NEW f \in Fsms, DispatchRun(f)
      PROVE  StackOK'
  BY <1>7
  DEF DispatchRun, Enter, Push, Dispatching, TypeOK, StackOK, Fsms, ProcOf
<1>8. ASSUME TypeOK, NEW f \in Fsms, DispatchLater(f)
      PROVE  StackOK'
  BY <1>8
  DEF DispatchLater, Enter, Push, Dispatching, TypeOK, StackOK, Fsms, ProcOf
<1>9. ASSUME TypeOK, NEW f \in Fsms, DispatchFinish(f)
      PROVE  StackOK'
  BY <1>9
  DEF DispatchFinish, FinishFsm, Dispatching, TypeOK, StackOK, Fsms, ProcOf
<1>10. ASSUME TypeOK, NEW f \in Fsms, EventTimedOut(f)
      PROVE  StackOK'
  BY <1>10
  DEF EventTimedOut, CancelLater, Dispatching, TypeOK, StackOK, Fsms, ProcOf
<1>11. ASSUME TypeOK, NEW f \in Fsms, Complete(f)
      PROVE  StackOK'
  BY <1>11
  DEF Complete, CancelLater, CallbackIn, TypeOK, StackOK, Fsms, ProcOf
<1>12. ASSUME TypeOK, NEW f \in Fsms, CompleteSync(f)
      PROVE  StackOK'
  BY <1>12
  DEF CompleteSync, CancelLater, Enter, CallbackIn, Push, TypeOK, StackOK,
      Fsms, ProcOf
<1>13. ASSUME TypeOK, NEW f \in Fsms, RealThreadStarts(f)
      PROVE  StackOK'
  BY <1>13 DEF RealThreadStarts, CallbackIn, TypeOK, StackOK, Fsms, ProcOf
<1>14. ASSUME TypeOK, NEW f \in Fsms, RealThreadFails(f)
      PROVE  StackOK'
  BY <1>14
  DEF RealThreadFails, CancelLater, CallbackIn, TypeOK, StackOK, Fsms, ProcOf
<1>15. ASSUME TypeOK, NEW f \in Fsms, RealThreadExits(f)
      PROVE  StackOK'
  BY <1>15 DEF RealThreadExits, Dispatching, TypeOK, StackOK, Fsms, ProcOf
<1>16. ASSUME TypeOK, NEW f \in Fsms, NEW t \in Threads, ThreadInit(f, t)
      PROVE  StackOK'
  BY <1>16 DEF ThreadInit, Free, Executing, TypeOK, StackOK, Fsms, ProcOf
<1>17. ASSUME TypeOK, NEW f \in Fsms, NEW t \in Threads, Start(f, t)
      PROVE  StackOK'
  BY <1>17 DEF Start, Begin, Free, Executing, TypeOK, StackOK, Fsms, ProcOf
<1>18. ASSUME TypeOK, NEW f \in Fsms, NEW t \in Threads, StartSync(f, t)
      PROVE  StackOK'
  <2>1. CASE real[t]
    BY <1>18, <2>1 DEF StartSync, TypeOK, StackOK
  <2>2. CASE ~real[t]
    <3>1. stack' = [stack EXCEPT ![Machine] = <<t>> \o @]
      BY <1>18, <2>2 DEF StartSync, Enter, Push, ProcOf
    <3> QED BY <1>18, <3>1 DEF Fsms, TypeOK, StackOK
  <2> QED BY <2>1, <2>2
<1>19. ASSUME TypeOK, NEW f \in Fsms, NEW t \in Threads, ThreadWait(f, t)
      PROVE  StackOK'
  BY <1>19
  DEF ThreadWait, ReturnWait, Pop, Free, Executing, TypeOK, StackOK, Fsms,
      ProcOf
<1>20. ASSUME TypeOK, NEW f \in Fsms, NEW e \in Events, EventAcquired(f, e)
      PROVE  StackOK'
  BY <1>20
  DEF EventAcquired, Acquire, MayWait, Executing, TypeOK, StackOK, Fsms,
      ProcOf
<1>21. ASSUME TypeOK, NEW f \in Fsms, NEW e \in Events, EventBlocks(f, e)
      PROVE  StackOK'
  BY <1>21
  DEF EventBlocks, MayWait, ReturnWait, Executing, Pop, TypeOK, StackOK, Fsms,
      ProcOf
<1>22. ASSUME TypeOK, NEW f \in Fsms, NEW e \in Events, TimedWaitExpired(f, e)
      PROVE  StackOK'
  BY <1>22
  DEF TimedWaitExpired, MayWait, Executing, TypeOK, StackOK, Fsms, ProcOf
<1>23. ASSUME TypeOK, NEW f \in Fsms, NEW e \in Events,
       TimedWaitAcquired(f, e)
      PROVE  StackOK'
  BY <1>23
  DEF TimedWaitAcquired, Acquire, MayWait, Executing, TypeOK, StackOK, Fsms,
      ProcOf
<1>24. ASSUME TypeOK, NEW f \in Fsms, NEW e \in Events, TimedWaitBlocks(f, e)
      PROVE  StackOK'
  BY <1>24
  DEF TimedWaitBlocks, MayWait, Executing, TypeOK, StackOK, Fsms, ProcOf
<1>25. ASSUME TypeOK, NEW f \in Fsms, NEW e \in Events, SignalDropped(f, e)
      PROVE  StackOK'
  BY <1>25 DEF SignalDropped, Dispatching, TypeOK, StackOK, Fsms, ProcOf
<1>26. ASSUME TypeOK, NEW f \in Fsms, NEW e \in Events, SignalDelivered(f, e)
      PROVE  StackOK'
  BY <1>26
  DEF SignalDelivered, CancelLater, Enter, Dispatching, Push, TypeOK, StackOK,
      Fsms, ProcOf
<1>27. ASSUME TypeOK, NEW f \in Fsms, NEW e \in Events, EventSignal(f, e)
      PROVE  StackOK'
  BY <1>27 DEF EventSignal, TypeOK, StackOK, Fsms, ProcOf
<1>28. ASSUME TypeOK, UNCHANGED vars
      PROVE  StackOK'
  BY <1>28 DEF vars, TypeOK, StackOK
<1>30. ASSUME TypeOK, NEW f \in Fsms, ThreadWaitBlocks(f)
      PROVE  StackOK'
  BY <1>30 DEF ThreadWaitBlocks, ReturnWait, Pop, TypeOK, StackOK, Fsms, ProcOf
<1> QED
  BY <1>30, <1>1, <1>2, <1>3, <1>4, <1>5, <1>6, <1>7, <1>8, <1>9, <1>10, <1>11,
     <1>12, <1>13, <1>14, <1>15, <1>16, <1>17, <1>18, <1>19, <1>20, <1>21,
     <1>22, <1>23, <1>24, <1>25, <1>26, <1>27, <1>28
  DEF Next, StateFunction, Dispatch, Environment

(* Every step preserves the types, the bounds of the event counters included. *)
LEMMA NextTypeOK ==
  ASSUME TypeOK, [Next]_vars
  PROVE  TypeOK'
<1> USE DEF object, timed, family, events, tasks, control
<1>0. StackOK' BY NextStackOK
<1>1. ASSUME TypeOK, NEW f \in Fsms, Yield(f)
      PROVE  TypeOK'
  BY <1>1, <1>0 DEF Yield, CancelLater, TypeOK, Places
<1>2. ASSUME TypeOK, NEW f \in Fsms, AsyncCall(f)
      PROVE  TypeOK'
  BY <1>2, <1>0 DEF AsyncCall, ReturnWait, TypeOK, Places
<1>3. ASSUME TypeOK, NEW f \in Fsms, NextLater(f)
      PROVE  TypeOK'
  BY <1>3, <1>0 DEF NextLater, ReturnWait, TypeOK, Places
<1>4. ASSUME TypeOK, NEW f \in Fsms, Finish(f)
      PROVE  TypeOK'
  BY <1>4, <1>0 DEF Finish, MayFinish, TypeOK, Places
<1>5. ASSUME TypeOK, NEW f \in Fsms, FinishSync(f)
      PROVE  TypeOK'
  BY <1>5, <1>0 DEF FinishSync, MayFinish, FinishFsm, TypeOK, Places
<1>6. ASSUME TypeOK, NEW f \in Fsms, TimedWaitArms(f)
      PROVE  TypeOK'
  BY <1>6, <1>0 DEF TimedWaitArms, ReturnWait, TypeOK, Places
<1>7. ASSUME TypeOK, NEW f \in Fsms, DispatchRun(f)
      PROVE  TypeOK'
  BY <1>7, <1>0 DEF DispatchRun, Enter, TypeOK, Places
<1>8. ASSUME TypeOK, NEW f \in Fsms, DispatchLater(f)
      PROVE  TypeOK'
  BY <1>8, <1>0 DEF DispatchLater, Enter, TypeOK, Places
<1>9. ASSUME TypeOK, NEW f \in Fsms, DispatchFinish(f)
      PROVE  TypeOK'
  BY <1>9, <1>0 DEF DispatchFinish, FinishFsm, TypeOK, Places
<1>10. ASSUME TypeOK, NEW f \in Fsms, EventTimedOut(f)
      PROVE  TypeOK'
  BY <1>10, <1>0 DEF EventTimedOut, CancelLater, TypeOK, Places
<1>11. ASSUME TypeOK, NEW f \in Fsms, Complete(f)
      PROVE  TypeOK'
  BY <1>11, <1>0 DEF Complete, CancelLater, TypeOK, Places
<1>12. ASSUME TypeOK, NEW f \in Fsms, CompleteSync(f)
      PROVE  TypeOK'
  BY <1>12, <1>0 DEF CompleteSync, CancelLater, Enter, TypeOK, Places
<1>13. ASSUME TypeOK, NEW f \in Fsms, RealThreadStarts(f)
      PROVE  TypeOK'
  BY <1>13, <1>0 DEF RealThreadStarts, TypeOK, Places
<1>14. ASSUME TypeOK, NEW f \in Fsms, RealThreadFails(f)
      PROVE  TypeOK'
  BY <1>14, <1>0 DEF RealThreadFails, CancelLater, TypeOK, Places
<1>15. ASSUME TypeOK, NEW f \in Fsms, RealThreadExits(f)
      PROVE  TypeOK'
  BY <1>15, <1>0 DEF RealThreadExits, TypeOK, Places
<1>16. ASSUME TypeOK, NEW f \in Fsms, NEW t \in Threads, ThreadInit(f, t)
      PROVE  TypeOK'
  BY <1>16, <1>0 DEF ThreadInit, TypeOK, Places, Fsms
<1>17. ASSUME TypeOK, NEW f \in Fsms, NEW t \in Threads, Start(f, t)
      PROVE  TypeOK'
  BY <1>17, <1>0 DEF Start, Begin, TypeOK, Places, Fsms
<1>18. ASSUME TypeOK, NEW f \in Fsms, NEW t \in Threads, StartSync(f, t)
      PROVE  TypeOK'
  BY <1>18, <1>0 DEF StartSync, Begin, Enter, TypeOK, Places, Fsms
<1>19. ASSUME TypeOK, NEW f \in Fsms, NEW t \in Threads, ThreadWait(f, t)
      PROVE  TypeOK'
  BY <1>19, <1>0 DEF ThreadWait, ReturnWait, TypeOK, Places, Fsms
<1>20. ASSUME TypeOK, NEW f \in Fsms, NEW e \in Events, EventAcquired(f, e)
      PROVE  TypeOK'
  BY <1>20, <1>0, BoundsAssumption
  DEF EventAcquired, Acquire, MayWait, TypeOK, Places
<1>21. ASSUME TypeOK, NEW f \in Fsms, NEW e \in Events, EventBlocks(f, e)
      PROVE  TypeOK'
  BY <1>21, <1>0 DEF EventBlocks, MayWait, ReturnWait, TypeOK, Places
<1>22. ASSUME TypeOK, NEW f \in Fsms, NEW e \in Events, TimedWaitExpired(f, e)
      PROVE  TypeOK'
  BY <1>22, <1>0 DEF TimedWaitExpired, MayWait, TypeOK, Places
<1>23. ASSUME TypeOK, NEW f \in Fsms, NEW e \in Events,
       TimedWaitAcquired(f, e)
      PROVE  TypeOK'
  BY <1>23, <1>0, BoundsAssumption
  DEF TimedWaitAcquired, Acquire, MayWait, TypeOK, Places
<1>24. ASSUME TypeOK, NEW f \in Fsms, NEW e \in Events, TimedWaitBlocks(f, e)
      PROVE  TypeOK'
  BY <1>24, <1>0 DEF TimedWaitBlocks, MayWait, TypeOK, Places
<1>25. ASSUME TypeOK, NEW f \in Fsms, NEW e \in Events, SignalDropped(f, e)
      PROVE  TypeOK'
  BY <1>25, <1>0, BoundsAssumption DEF SignalDropped, TypeOK, Places
<1>26. ASSUME TypeOK, NEW f \in Fsms, NEW e \in Events, SignalDelivered(f, e)
      PROVE  TypeOK'
  BY <1>26, <1>0, BoundsAssumption
  DEF SignalDelivered, CancelLater, Enter, TypeOK, Places
<1>27. ASSUME TypeOK, NEW f \in Fsms, NEW e \in Events, EventSignal(f, e)
      PROVE  TypeOK'
  BY <1>27, <1>0, BoundsAssumption DEF EventSignal, TypeOK, Places
<1>28. ASSUME TypeOK, UNCHANGED vars
      PROVE  TypeOK'
  BY <1>28 DEF vars, TypeOK, StackOK
<1>30. ASSUME TypeOK, NEW f \in Fsms, ThreadWaitBlocks(f)
      PROVE  TypeOK'
  BY <1>30, <1>0 DEF ThreadWaitBlocks, ReturnWait, TypeOK, Places
<1> QED
  BY <1>30, <1>1, <1>2, <1>3, <1>4, <1>5, <1>6, <1>7, <1>8, <1>9, <1>10, <1>11,
     <1>12, <1>13, <1>14, <1>15, <1>16, <1>17, <1>18, <1>19, <1>20, <1>21,
     <1>22, <1>23, <1>24, <1>25, <1>26, <1>27, <1>28
  DEF Next, StateFunction, Dispatch, Environment

(* Every step leaves each FSM with the one activation its place calls for.   *)
(* silc_fsm_continue, silc_fsm_event_timedout, silc_fsm_signal and           *)
(* silc_fsm_finish_fsm each activate an FSM; the places they may find it in  *)
(* exclude each other.                                                       *)
LEMMA NextOneActivation ==
  ASSUME TypeOK, OneActivation, JoinersJoin,
         TimersMatch, WaitersWait, [Next]_vars
  PROVE  OneActivation'
<1> USE DEF object, timed, family, events, tasks, control
<1>1. ASSUME TypeOK, OneActivation, NEW f \in Fsms, Yield(f)
      PROVE  OneActivation'
  BY <1>1, FreeRuns, CancelEffect DEF Yield, TypeOK, OneActivation
<1>2. ASSUME TypeOK, OneActivation, NEW f \in Fsms, AsyncCall(f)
      PROVE  OneActivation'
  BY <1>2, FreeRuns DEF AsyncCall, ReturnWait, TypeOK, OneActivation
<1>3. ASSUME TypeOK, OneActivation, NEW f \in Fsms, NextLater(f)
      PROVE  OneActivation'
  BY <1>3, FreeRuns DEF NextLater, ReturnWait, TypeOK, OneActivation
<1>4. ASSUME TypeOK, OneActivation, NEW f \in Fsms, Finish(f)
      PROVE  OneActivation'
  BY <1>4, FreeRuns DEF Finish, MayFinish, TypeOK, OneActivation
<1>5. ASSUME TypeOK, OneActivation, JoinersJoin, NEW f \in Fsms, FinishSync(f)
      PROVE  OneActivation'
  <2>1. Ended(f) /\ pc[f] = "run" /\ on[f] = NoEvent /\ UNCHANGED finq
    BY <1>5, FinishSyncEnds
  <2> QED BY <1>5, <2>1, FsmsAssumption DEF Ended, OneActivation, TypeOK
<1>6. ASSUME TypeOK, OneActivation, NEW f \in Fsms, TimedWaitArms(f)
      PROVE  OneActivation'
  BY <1>6 DEF TimedWaitArms, ReturnWait, TypeOK, OneActivation
<1>7. ASSUME TypeOK, OneActivation, NEW f \in Fsms, DispatchRun(f)
      PROVE  OneActivation'
  BY <1>7 DEF DispatchRun, Enter, TypeOK, OneActivation
<1>8. ASSUME TypeOK, OneActivation, NEW f \in Fsms, DispatchLater(f)
      PROVE  OneActivation'
  BY <1>8 DEF DispatchLater, Enter, TypeOK, OneActivation
<1>9. ASSUME TypeOK, OneActivation, JoinersJoin, NEW f \in Fsms,
       DispatchFinish(f)
      PROVE  OneActivation'
  <2>1. Ended(f) /\ pc[f] = "fin" /\ finq' = [finq EXCEPT ![f] = @ - 1]
    BY <1>9, DispatchFinishEnds
  <2> QED BY <1>9, <2>1, FsmsAssumption DEF Ended, OneActivation, TypeOK
<1>10. ASSUME TypeOK, OneActivation, TimersMatch, NEW f \in Fsms,
       EventTimedOut(f)
      PROVE  OneActivation'
  BY <1>10, CancelEffect
  DEF EventTimedOut, TypeOK, OneActivation, TimersMatch
<1>11. ASSUME TypeOK, OneActivation, NEW f \in Fsms, Complete(f)
      PROVE  OneActivation'
  BY <1>11, CancelEffect DEF Complete, TypeOK, OneActivation
<1>12. ASSUME TypeOK, OneActivation, NEW f \in Fsms, CompleteSync(f)
      PROVE  OneActivation'
  BY <1>12, CancelEffect DEF CompleteSync, TypeOK, OneActivation, Enter
<1>13. ASSUME TypeOK, OneActivation, NEW f \in Fsms, RealThreadStarts(f)
      PROVE  OneActivation'
  BY <1>13 DEF RealThreadStarts, TypeOK, OneActivation
<1>14. ASSUME TypeOK, OneActivation, NEW f \in Fsms, RealThreadFails(f)
      PROVE  OneActivation'
  BY <1>14, CancelEffect DEF RealThreadFails, TypeOK, OneActivation
<1>15. ASSUME TypeOK, OneActivation, NEW f \in Fsms, RealThreadExits(f)
      PROVE  OneActivation'
  BY <1>15 DEF RealThreadExits, TypeOK, OneActivation
<1>16. ASSUME TypeOK, OneActivation, NEW f \in Fsms, NEW t \in Threads,
       ThreadInit(f, t)
      PROVE  OneActivation'
  BY <1>16, FreeRuns DEF ThreadInit, TypeOK, OneActivation, Fsms
<1>17. ASSUME TypeOK, OneActivation, NEW f \in Fsms, NEW t \in Threads,
       Start(f, t)
      PROVE  OneActivation'
  BY <1>17, FreeRuns DEF Start, Begin, TypeOK, OneActivation, Fsms
<1>18. ASSUME TypeOK, OneActivation, NEW f \in Fsms, NEW t \in Threads,
       StartSync(f, t)
      PROVE  OneActivation'
  BY <1>18, FreeRuns
  DEF StartSync, Begin, Enter, TypeOK, OneActivation, Fsms
<1>19. ASSUME TypeOK, OneActivation, NEW f \in Fsms, NEW t \in Threads,
       ThreadWait(f, t)
      PROVE  OneActivation'
  BY <1>19, FreeRuns DEF ThreadWait, ReturnWait, TypeOK, OneActivation, Fsms
<1>20. ASSUME TypeOK, OneActivation, NEW f \in Fsms, NEW e \in Events,
       EventAcquired(f, e)
      PROVE  OneActivation'
  BY <1>20, ExecutingRuns
  DEF EventAcquired, Acquire, MayWait, TypeOK, OneActivation
<1>21. ASSUME TypeOK, OneActivation, NEW f \in Fsms, NEW e \in Events,
       EventBlocks(f, e)
      PROVE  OneActivation'
  BY <1>21, ExecutingRuns
  DEF EventBlocks, MayWait, ReturnWait, TypeOK, OneActivation
<1>22. ASSUME TypeOK, OneActivation, NEW f \in Fsms, NEW e \in Events,
       TimedWaitExpired(f, e)
      PROVE  OneActivation'
  BY <1>22, ExecutingRuns
  DEF TimedWaitExpired, MayWait, TypeOK, OneActivation
<1>23. ASSUME TypeOK, OneActivation, NEW f \in Fsms, NEW e \in Events,
       TimedWaitAcquired(f, e)
      PROVE  OneActivation'
  BY <1>23, ExecutingRuns
  DEF TimedWaitAcquired, Acquire, MayWait, TypeOK, OneActivation
<1>24. ASSUME TypeOK, OneActivation, NEW f \in Fsms, NEW e \in Events,
       TimedWaitBlocks(f, e)
      PROVE  OneActivation'
  BY <1>24, ExecutingRuns
  DEF TimedWaitBlocks, MayWait, TypeOK, OneActivation
<1>25. ASSUME TypeOK, OneActivation, NEW f \in Fsms, NEW e \in Events,
       SignalDropped(f, e)
      PROVE  OneActivation'
  BY <1>25 DEF SignalDropped, TypeOK, OneActivation
<1>26. ASSUME TypeOK, OneActivation, WaitersWait, NEW f \in Fsms,
       NEW e \in Events, SignalDelivered(f, e)
      PROVE  OneActivation'
  <2>1. CancelLater(f, 0) /\ pc[f] # "ready" /\ pc[f] # "later" /\ pc[f] # "fin"
    BY <1>26 DEF SignalDelivered, WaitersWait
  <2>2. runq' = [runq EXCEPT ![f] = 0] /\ lateq' = [lateq EXCEPT ![f] = 0]
        /\ nextLater' = [nextLater EXCEPT ![f] = FALSE]
    BY <1>26, <2>1, CancelEffect
  <2>3. nextState[f]
    BY <1>26 DEF SignalDelivered, WaitersWait, OneActivation
  <2> QED BY <1>26, <2>1, <2>2, <2>3 DEF SignalDelivered, Enter,
      OneActivation, TypeOK
<1>27. ASSUME TypeOK, OneActivation, NEW f \in Fsms, NEW e \in Events,
       EventSignal(f, e)
      PROVE  OneActivation'
  BY <1>27 DEF EventSignal, TypeOK, OneActivation
<1>28. ASSUME TypeOK, OneActivation, UNCHANGED vars
      PROVE  OneActivation'
  BY <1>28 DEF vars, TypeOK, StackOK, OneActivation
<1>30. ASSUME TypeOK, OneActivation, NEW f \in Fsms, ThreadWaitBlocks(f)
      PROVE  OneActivation'
  BY <1>30 DEF ThreadWaitBlocks, ReturnWait, TypeOK, OneActivation
<1> QED
  BY <1>30, <1>1, <1>2, <1>3, <1>4, <1>5, <1>6, <1>7, <1>8, <1>9, <1>10, <1>11,
     <1>12, <1>13, <1>14, <1>15, <1>16, <1>17, <1>18, <1>19, <1>20, <1>21,
     <1>22, <1>23, <1>24, <1>25, <1>26, <1>27, <1>28
  DEF Next, StateFunction, Dispatch, Environment

(* Every step keeps the lists of waiters and the places of the FSMs in accord. *)
LEMMA NextWaitersWait ==
  ASSUME TypeOK, WaitersWait, OneActivation,
         JoinersJoin, TimersMatch, [Next]_vars
  PROVE  WaitersWait'
<1> USE DEF object, timed, family, events, tasks, control
<1>1. ASSUME TypeOK, WaitersWait, NEW f \in Fsms, Yield(f)
      PROVE  WaitersWait'
  BY <1>1, FreeRuns, FsmsAssumption
  DEF Yield, CancelLater, TypeOK, WaitersWait
<1>2. ASSUME TypeOK, WaitersWait, NEW f \in Fsms, AsyncCall(f)
      PROVE  WaitersWait'
  BY <1>2, FreeRuns, FsmsAssumption
  DEF AsyncCall, ReturnWait, TypeOK, WaitersWait
<1>3. ASSUME TypeOK, WaitersWait, NEW f \in Fsms, NextLater(f)
      PROVE  WaitersWait'
  BY <1>3, FreeRuns, FsmsAssumption
  DEF NextLater, ReturnWait, TypeOK, WaitersWait
<1>4. ASSUME TypeOK, WaitersWait, NEW f \in Fsms, Finish(f)
      PROVE  WaitersWait'
  BY <1>4, FreeRuns, FsmsAssumption
  DEF Finish, MayFinish, TypeOK, WaitersWait
<1>5. ASSUME TypeOK, WaitersWait, OneActivation, JoinersJoin, NEW f \in Fsms,
       FinishSync(f)
      PROVE  WaitersWait'
  <2>1. Ended(f) /\ pc[f] = "run" /\ on[f] = NoEvent
        /\ UNCHANGED <<real, on, timed, events>>
    BY <1>5, FinishSyncEnds
  <2>2. \A g \in Fsms : EndMove(f, g)
    BY <1>5, <2>1, EndedMoves
  <2>3. \A e \in Events : f \notin waiters[e]
    BY <1>5, <2>1, FsmsAssumption DEF WaitersWait
  <2>4. UNCHANGED <<waiters, on, timedout>>
    BY <2>1
  <2>5. \A e \in Events : \A g \in waiters[e] : pc'[g] = pc[g]
    BY <1>5, <2>2, <2>3 DEF WaitersWait, EndMove, TypeOK
  <2>6. \A g \in Fsms : pc'[g] \in {"wait", "twait", "arming"} => pc'[g] = pc[g]
    BY <2>2 DEF EndMove
  <2> QED BY <1>5, <2>4, <2>5, <2>6 DEF WaitersWait
<1>6. ASSUME TypeOK, WaitersWait, NEW f \in Fsms, TimedWaitArms(f)
      PROVE  WaitersWait'
  BY <1>6 DEF TimedWaitArms, ReturnWait, TypeOK, WaitersWait
<1>7. ASSUME TypeOK, WaitersWait, OneActivation, NEW f \in Fsms,
       DispatchRun(f)
      PROVE  WaitersWait'
  BY <1>7 DEF DispatchRun, Enter, TypeOK, WaitersWait, OneActivation
<1>8. ASSUME TypeOK, WaitersWait, OneActivation, NEW f \in Fsms,
       DispatchLater(f)
      PROVE  WaitersWait'
  BY <1>8 DEF DispatchLater, Enter, TypeOK, WaitersWait, OneActivation
<1>9. ASSUME TypeOK, WaitersWait, OneActivation, JoinersJoin, NEW f \in Fsms,
       DispatchFinish(f)
      PROVE  WaitersWait'
  <2>1. Ended(f) /\ pc[f] = "fin"
        /\ UNCHANGED <<real, on, timed, events>>
    BY <1>9, DispatchFinishEnds
  <2>2. \A g \in Fsms : EndMove(f, g)
    BY <1>9, <2>1, EndedMoves
  <2>3. \A e \in Events : f \notin waiters[e]
    BY <1>9, <2>1, FsmsAssumption DEF WaitersWait
  <2>4. UNCHANGED <<waiters, on, timedout>>
    BY <2>1
  <2>5. \A e \in Events : \A g \in waiters[e] : pc'[g] = pc[g]
    BY <1>9, <2>2, <2>3 DEF WaitersWait, EndMove, TypeOK
  <2>6. \A g \in Fsms : pc'[g] \in {"wait", "twait", "arming"} => pc'[g] = pc[g]
    BY <2>2 DEF EndMove
  <2> QED BY <1>9, <2>4, <2>5, <2>6 DEF WaitersWait
<1>10. ASSUME TypeOK, WaitersWait, TimersMatch, NEW f \in Fsms,
       EventTimedOut(f)
      PROVE  WaitersWait'
  BY <1>10 DEF EventTimedOut, CancelLater, TypeOK, WaitersWait, TimersMatch
<1>11. ASSUME TypeOK, WaitersWait, NEW f \in Fsms, Complete(f)
      PROVE  WaitersWait'
  BY <1>11 DEF Complete, CancelLater, TypeOK, WaitersWait
<1>12. ASSUME TypeOK, WaitersWait, NEW f \in Fsms, CompleteSync(f)
      PROVE  WaitersWait'
  BY <1>12 DEF CompleteSync, CancelLater, Enter, TypeOK, WaitersWait
<1>13. ASSUME TypeOK, WaitersWait, NEW f \in Fsms, RealThreadStarts(f)
      PROVE  WaitersWait'
  BY <1>13 DEF RealThreadStarts, TypeOK, WaitersWait
<1>14. ASSUME TypeOK, WaitersWait, NEW f \in Fsms, RealThreadFails(f)
      PROVE  WaitersWait'
  BY <1>14 DEF RealThreadFails, CancelLater, TypeOK, WaitersWait
<1>15. ASSUME TypeOK, WaitersWait, NEW f \in Fsms, RealThreadExits(f)
      PROVE  WaitersWait'
  BY <1>15 DEF RealThreadExits, TypeOK, WaitersWait
<1>16. ASSUME TypeOK, WaitersWait, NEW f \in Fsms, NEW t \in Threads,
       ThreadInit(f, t)
      PROVE  WaitersWait'
  BY <1>16, FreeRuns, FsmsAssumption
  DEF ThreadInit, TypeOK, WaitersWait, Fsms
<1>17. ASSUME TypeOK, WaitersWait, NEW f \in Fsms, NEW t \in Threads,
       Start(f, t)
      PROVE  WaitersWait'
  BY <1>17, FreeRuns, FsmsAssumption
  DEF Start, Begin, TypeOK, WaitersWait, Fsms
<1>18. ASSUME TypeOK, WaitersWait, NEW f \in Fsms, NEW t \in Threads,
       StartSync(f, t)
      PROVE  WaitersWait'
  <2>1. pc' = [pc EXCEPT ![t] = "starting"] \/ pc' = [pc EXCEPT ![t] = "run"]
    BY <1>18 DEF StartSync, Enter
  <2> QED BY <1>18, <2>1 DEF StartSync, WaitersWait, TypeOK, Fsms
<1>19. ASSUME TypeOK, WaitersWait, NEW f \in Fsms, NEW t \in Threads,
       ThreadWait(f, t)
      PROVE  WaitersWait'
  BY <1>19, FreeRuns, FsmsAssumption
  DEF ThreadWait, ReturnWait, TypeOK, WaitersWait, Fsms
<1>20. ASSUME TypeOK, WaitersWait, NEW f \in Fsms, NEW e \in Events,
       EventAcquired(f, e)
      PROVE  WaitersWait'
  BY <1>20, ExecutingRuns, FsmsAssumption
  DEF EventAcquired, Acquire, MayWait, TypeOK, WaitersWait
<1>21. ASSUME TypeOK, WaitersWait, NEW f \in Fsms, NEW e \in Events,
       EventBlocks(f, e)
      PROVE  WaitersWait'
  BY <1>21, ExecutingRuns, FsmsAssumption
  DEF EventBlocks, MayWait, ReturnWait, TypeOK, WaitersWait
<1>22. ASSUME TypeOK, WaitersWait, NEW f \in Fsms, NEW e \in Events,
       TimedWaitExpired(f, e)
      PROVE  WaitersWait'
  BY <1>22, ExecutingRuns, FsmsAssumption
  DEF TimedWaitExpired, MayWait, TypeOK, WaitersWait
<1>23. ASSUME TypeOK, WaitersWait, NEW f \in Fsms, NEW e \in Events,
       TimedWaitAcquired(f, e)
      PROVE  WaitersWait'
  BY <1>23, ExecutingRuns, FsmsAssumption
  DEF TimedWaitAcquired, Acquire, MayWait, TypeOK, WaitersWait
<1>24. ASSUME TypeOK, WaitersWait, NEW f \in Fsms, NEW e \in Events,
       TimedWaitBlocks(f, e)
      PROVE  WaitersWait'
  BY <1>24, ExecutingRuns, FsmsAssumption
  DEF TimedWaitBlocks, MayWait, TypeOK, WaitersWait
<1>25. ASSUME TypeOK, WaitersWait, NEW f \in Fsms, NEW e \in Events,
       SignalDropped(f, e)
      PROVE  WaitersWait'
  BY <1>25 DEF SignalDropped, TypeOK, WaitersWait
<1>26. ASSUME TypeOK, WaitersWait, NEW f \in Fsms, NEW e \in Events,
       SignalDelivered(f, e)
      PROVE  WaitersWait'
  BY <1>26 DEF SignalDelivered, CancelLater, Enter, TypeOK, WaitersWait
<1>27. ASSUME TypeOK, WaitersWait, NEW f \in Fsms, NEW e \in Events,
       EventSignal(f, e)
      PROVE  WaitersWait'
  BY <1>27 DEF EventSignal, TypeOK, WaitersWait
<1>28. ASSUME TypeOK, WaitersWait, UNCHANGED vars
      PROVE  WaitersWait'
  BY <1>28 DEF vars, TypeOK, StackOK, WaitersWait
<1>30. ASSUME TypeOK, WaitersWait, NEW f \in Fsms, ThreadWaitBlocks(f)
      PROVE  WaitersWait'
  BY <1>30 DEF ThreadWaitBlocks, ReturnWait, TypeOK, WaitersWait
<1> QED
  BY <1>30, <1>1, <1>2, <1>3, <1>4, <1>5, <1>6, <1>7, <1>8, <1>9, <1>10, <1>11,
     <1>12, <1>13, <1>14, <1>15, <1>16, <1>17, <1>18, <1>19, <1>20, <1>21,
     <1>22, <1>23, <1>24, <1>25, <1>26, <1>27, <1>28
  DEF Next, StateFunction, Dispatch, Environment

(* No step leaves a waiter asleep on a signalled event: silc_fsm_event_wait  *)
(* adds a waiter only when the counter is zero, silc_fsm_event_signal leaves a *)
(* task for every waiter, and only the delivery of that task removes it.     *)
LEMMA NextNoLostWakeup ==
  ASSUME TypeOK, NoLostWakeup, WaitersWait,
         OneActivation, JoinersJoin, TimersMatch, [Next]_vars
  PROVE  NoLostWakeup'
<1> USE DEF object, timed, family, events, tasks, control
<1>1. ASSUME TypeOK, NoLostWakeup, WaitersWait, NEW f \in Fsms, Yield(f)
      PROVE  NoLostWakeup'
  BY <1>1, FreeRuns, FsmsAssumption
  DEF Yield, CancelLater, TypeOK, NoLostWakeup, WaitersWait
<1>2. ASSUME TypeOK, NoLostWakeup, WaitersWait, NEW f \in Fsms, AsyncCall(f)
      PROVE  NoLostWakeup'
  BY <1>2, FreeRuns, FsmsAssumption
  DEF AsyncCall, ReturnWait, TypeOK, NoLostWakeup, WaitersWait
<1>3. ASSUME TypeOK, NoLostWakeup, WaitersWait, NEW f \in Fsms, NextLater(f)
      PROVE  NoLostWakeup'
  BY <1>3, FreeRuns, FsmsAssumption
  DEF NextLater, ReturnWait, TypeOK, NoLostWakeup, WaitersWait
<1>4. ASSUME TypeOK, NoLostWakeup, WaitersWait, NEW f \in Fsms, Finish(f)
      PROVE  NoLostWakeup'
  BY <1>4, FreeRuns, FsmsAssumption
  DEF Finish, MayFinish, TypeOK, NoLostWakeup, WaitersWait
<1>5. ASSUME TypeOK, NoLostWakeup, OneActivation, JoinersJoin, WaitersWait,
       NEW f \in Fsms, FinishSync(f)
      PROVE  NoLostWakeup'
  <2>1. Ended(f) /\ pc[f] = "run" /\ on[f] = NoEvent
        /\ UNCHANGED <<real, on, timed, events>>
    BY <1>5, FinishSyncEnds
  <2>2. \A g \in Fsms : EndMove(f, g)
    BY <1>5, <2>1, EndedMoves
  <2> QED BY <1>5, <2>1, <2>2, FsmsAssumption DEF NoLostWakeup, WaitersWait,
      EndMove, TypeOK
<1>6. ASSUME TypeOK, NoLostWakeup, WaitersWait, NEW f \in Fsms,
       TimedWaitArms(f)
      PROVE  NoLostWakeup'
  BY <1>6 DEF TimedWaitArms, ReturnWait, TypeOK, NoLostWakeup, WaitersWait
<1>7. ASSUME TypeOK, NoLostWakeup, WaitersWait, OneActivation, NEW f \in Fsms,
       DispatchRun(f)
      PROVE  NoLostWakeup'
  BY <1>7
  DEF DispatchRun, Enter, TypeOK, NoLostWakeup, WaitersWait, OneActivation
<1>8. ASSUME TypeOK, NoLostWakeup, WaitersWait, OneActivation, NEW f \in Fsms,
       DispatchLater(f)
      PROVE  NoLostWakeup'
  BY <1>8
  DEF DispatchLater, Enter, TypeOK, NoLostWakeup, WaitersWait, OneActivation
<1>9. ASSUME TypeOK, NoLostWakeup, OneActivation, JoinersJoin, WaitersWait,
       NEW f \in Fsms, DispatchFinish(f)
      PROVE  NoLostWakeup'
  <2>1. Ended(f) /\ pc[f] = "fin"
        /\ UNCHANGED <<real, on, timed, events>>
    BY <1>9, DispatchFinishEnds
  <2>2. \A g \in Fsms : EndMove(f, g)
    BY <1>9, <2>1, EndedMoves
  <2> QED BY <1>9, <2>1, <2>2, FsmsAssumption DEF NoLostWakeup, WaitersWait,
      EndMove, TypeOK
<1>10. ASSUME TypeOK, NoLostWakeup, WaitersWait, TimersMatch, NEW f \in Fsms,
       EventTimedOut(f)
      PROVE  NoLostWakeup'
  BY <1>10
  DEF EventTimedOut, CancelLater, TypeOK, NoLostWakeup, WaitersWait,
      TimersMatch
<1>11. ASSUME TypeOK, NoLostWakeup, WaitersWait, NEW f \in Fsms, Complete(f)
      PROVE  NoLostWakeup'
  BY <1>11 DEF Complete, CancelLater, TypeOK, NoLostWakeup, WaitersWait
<1>12. ASSUME TypeOK, NoLostWakeup, WaitersWait, NEW f \in Fsms,
       CompleteSync(f)
      PROVE  NoLostWakeup'
  BY <1>12
  DEF CompleteSync, CancelLater, Enter, TypeOK, NoLostWakeup, WaitersWait
<1>13. ASSUME TypeOK, NoLostWakeup, WaitersWait, NEW f \in Fsms,
       RealThreadStarts(f)
      PROVE  NoLostWakeup'
  BY <1>13 DEF RealThreadStarts, TypeOK, NoLostWakeup, WaitersWait
<1>14. ASSUME TypeOK, NoLostWakeup, WaitersWait, NEW f \in Fsms,
       RealThreadFails(f)
      PROVE  NoLostWakeup'
  BY <1>14
  DEF RealThreadFails, CancelLater, TypeOK, NoLostWakeup, WaitersWait
<1>15. ASSUME TypeOK, NoLostWakeup, WaitersWait, NEW f \in Fsms,
       RealThreadExits(f)
      PROVE  NoLostWakeup'
  BY <1>15 DEF RealThreadExits, TypeOK, NoLostWakeup, WaitersWait
<1>16. ASSUME TypeOK, NoLostWakeup, WaitersWait, NEW f \in Fsms,
       NEW t \in Threads, ThreadInit(f, t)
      PROVE  NoLostWakeup'
  BY <1>16, FreeRuns, FsmsAssumption
  DEF ThreadInit, TypeOK, NoLostWakeup, Fsms, WaitersWait
<1>17. ASSUME TypeOK, NoLostWakeup, WaitersWait, NEW f \in Fsms,
       NEW t \in Threads, Start(f, t)
      PROVE  NoLostWakeup'
  BY <1>17, FreeRuns, FsmsAssumption
  DEF Start, Begin, TypeOK, NoLostWakeup, Fsms, WaitersWait
<1>18. ASSUME TypeOK, NoLostWakeup, WaitersWait, NEW f \in Fsms,
       NEW t \in Threads, StartSync(f, t)
      PROVE  NoLostWakeup'
  BY <1>18, FreeRuns, FsmsAssumption
  DEF StartSync, Begin, Enter, TypeOK, NoLostWakeup, Fsms, WaitersWait
<1>19. ASSUME TypeOK, NoLostWakeup, WaitersWait, NEW f \in Fsms,
       NEW t \in Threads, ThreadWait(f, t)
      PROVE  NoLostWakeup'
  BY <1>19, FreeRuns, FsmsAssumption
  DEF ThreadWait, ReturnWait, TypeOK, NoLostWakeup, Fsms, WaitersWait
<1>20. ASSUME TypeOK, NoLostWakeup, WaitersWait, NEW f \in Fsms,
       NEW e \in Events, EventAcquired(f, e)
      PROVE  NoLostWakeup'
  BY <1>20, ExecutingRuns, FsmsAssumption, BoundsAssumption
  DEF EventAcquired, Acquire, MayWait, TypeOK, NoLostWakeup, WaitersWait
<1>21. ASSUME TypeOK, NoLostWakeup, WaitersWait, NEW f \in Fsms,
       NEW e \in Events, EventBlocks(f, e)
      PROVE  NoLostWakeup'
  BY <1>21, ExecutingRuns, FsmsAssumption, BoundsAssumption
  DEF EventBlocks, MayWait, ReturnWait, TypeOK, NoLostWakeup, WaitersWait
<1>22. ASSUME TypeOK, NoLostWakeup, WaitersWait, NEW f \in Fsms,
       NEW e \in Events, TimedWaitExpired(f, e)
      PROVE  NoLostWakeup'
  BY <1>22, ExecutingRuns, FsmsAssumption, BoundsAssumption
  DEF TimedWaitExpired, MayWait, TypeOK, NoLostWakeup, WaitersWait
<1>23. ASSUME TypeOK, NoLostWakeup, WaitersWait, NEW f \in Fsms,
       NEW e \in Events, TimedWaitAcquired(f, e)
      PROVE  NoLostWakeup'
  BY <1>23, ExecutingRuns, FsmsAssumption, BoundsAssumption
  DEF TimedWaitAcquired, Acquire, MayWait, TypeOK, NoLostWakeup, WaitersWait
<1>24. ASSUME TypeOK, NoLostWakeup, WaitersWait, NEW f \in Fsms,
       NEW e \in Events, TimedWaitBlocks(f, e)
      PROVE  NoLostWakeup'
  BY <1>24, ExecutingRuns, FsmsAssumption, BoundsAssumption
  DEF TimedWaitBlocks, MayWait, TypeOK, NoLostWakeup, WaitersWait
<1>25. ASSUME TypeOK, NoLostWakeup, WaitersWait, NEW f \in Fsms,
       NEW e \in Events, SignalDropped(f, e)
      PROVE  NoLostWakeup'
  BY <1>25, BoundsAssumption
  DEF SignalDropped, TypeOK, NoLostWakeup, WaitersWait
<1>26. ASSUME TypeOK, NoLostWakeup, WaitersWait, NEW f \in Fsms,
       NEW e \in Events, SignalDelivered(f, e)
      PROVE  NoLostWakeup'
  BY <1>26, BoundsAssumption
  DEF SignalDelivered, CancelLater, Enter, TypeOK, NoLostWakeup, WaitersWait
<1>27. ASSUME TypeOK, NoLostWakeup, WaitersWait, NEW f \in Fsms,
       NEW e \in Events, EventSignal(f, e)
      PROVE  NoLostWakeup'
  BY <1>27, BoundsAssumption
  DEF EventSignal, TypeOK, NoLostWakeup, WaitersWait
<1>28. ASSUME TypeOK, NoLostWakeup, UNCHANGED vars
      PROVE  NoLostWakeup'
  BY <1>28 DEF vars, TypeOK, StackOK, NoLostWakeup
<1>30. ASSUME TypeOK, NoLostWakeup, WaitersWait, NEW f \in Fsms,
       ThreadWaitBlocks(f)
      PROVE  NoLostWakeup'
  BY <1>30 DEF ThreadWaitBlocks, ReturnWait, TypeOK, NoLostWakeup, WaitersWait
<1> QED
  BY <1>30, <1>1, <1>2, <1>3, <1>4, <1>5, <1>6, <1>7, <1>8, <1>9, <1>10, <1>11,
     <1>12, <1>13, <1>14, <1>15, <1>16, <1>17, <1>18, <1>19, <1>20, <1>21,
     <1>22, <1>23, <1>24, <1>25, <1>26, <1>27, <1>28
  DEF Next, StateFunction, Dispatch, Environment

(* No step takes the signal from a waiter that is running again: the counter *)
(* is decreased only when the list of waiters is empty.                      *)
LEMMA NextReentryAcquires ==
  ASSUME TypeOK, ReentryAcquires, WaitersWait,
         OneActivation, JoinersJoin, TimersMatch, [Next]_vars
  PROVE  ReentryAcquires'
<1> USE DEF object, timed, family, events, tasks, control
<1>1. ASSUME TypeOK, ReentryAcquires, WaitersWait, NEW f \in Fsms, Yield(f)
      PROVE  ReentryAcquires'
  BY <1>1, FreeRuns, FsmsAssumption
  DEF Yield, CancelLater, TypeOK, ReentryAcquires, WaitersWait
<1>2. ASSUME TypeOK, ReentryAcquires, WaitersWait, NEW f \in Fsms,
       AsyncCall(f)
      PROVE  ReentryAcquires'
  BY <1>2, FreeRuns, FsmsAssumption
  DEF AsyncCall, ReturnWait, TypeOK, ReentryAcquires, WaitersWait
<1>3. ASSUME TypeOK, ReentryAcquires, WaitersWait, NEW f \in Fsms,
       NextLater(f)
      PROVE  ReentryAcquires'
  BY <1>3, FreeRuns, FsmsAssumption
  DEF NextLater, ReturnWait, TypeOK, ReentryAcquires, WaitersWait
<1>4. ASSUME TypeOK, ReentryAcquires, WaitersWait, NEW f \in Fsms, Finish(f)
      PROVE  ReentryAcquires'
  BY <1>4, FreeRuns, FsmsAssumption
  DEF Finish, MayFinish, TypeOK, ReentryAcquires, WaitersWait
<1>5. ASSUME TypeOK, ReentryAcquires, OneActivation, JoinersJoin, WaitersWait,
       NEW f \in Fsms, FinishSync(f)
      PROVE  ReentryAcquires'
  <2>1. Ended(f) /\ pc[f] = "run" /\ on[f] = NoEvent
        /\ UNCHANGED <<real, on, timed, events>>
    BY <1>5, FinishSyncEnds
  <2>2. \A g \in Fsms : EndMove(f, g)
    BY <1>5, <2>1, EndedMoves
  <2> QED BY <1>5, <2>1, <2>2, FsmsAssumption DEF ReentryAcquires,
      WaitersWait, EndMove, TypeOK
<1>6. ASSUME TypeOK, ReentryAcquires, WaitersWait, NEW f \in Fsms,
       TimedWaitArms(f)
      PROVE  ReentryAcquires'
  BY <1>6
  DEF TimedWaitArms, ReturnWait, TypeOK, ReentryAcquires, WaitersWait
<1>7. ASSUME TypeOK, ReentryAcquires, WaitersWait, OneActivation,
       NEW f \in Fsms, DispatchRun(f)
      PROVE  ReentryAcquires'
  <2>1. pc[f] = "ready"
    BY <1>7 DEF DispatchRun, OneActivation, TypeOK
  <2> QED BY <1>7, <2>1 DEF DispatchRun, Enter, ReentryAcquires, WaitersWait,
      TypeOK
<1>8. ASSUME TypeOK, ReentryAcquires, WaitersWait, OneActivation,
       NEW f \in Fsms, DispatchLater(f)
      PROVE  ReentryAcquires'
  <2>1. pc[f] = "later"
    BY <1>8 DEF DispatchLater, OneActivation, TypeOK
  <2> QED BY <1>8, <2>1 DEF DispatchLater, Enter, ReentryAcquires,
      WaitersWait, TypeOK
<1>9. ASSUME TypeOK, ReentryAcquires, OneActivation, JoinersJoin, WaitersWait,
       NEW f \in Fsms, DispatchFinish(f)
      PROVE  ReentryAcquires'
  <2>1. Ended(f) /\ pc[f] = "fin"
        /\ UNCHANGED <<real, on, timed, events>>
    BY <1>9, DispatchFinishEnds
  <2>2. \A g \in Fsms : EndMove(f, g)
    BY <1>9, <2>1, EndedMoves
  <2> QED BY <1>9, <2>1, <2>2, FsmsAssumption DEF ReentryAcquires,
      WaitersWait, EndMove, TypeOK
<1>10. ASSUME TypeOK, ReentryAcquires, WaitersWait, TimersMatch,
       NEW f \in Fsms, EventTimedOut(f)
      PROVE  ReentryAcquires'
  BY <1>10
  DEF EventTimedOut, CancelLater, TypeOK, ReentryAcquires, WaitersWait,
      TimersMatch
<1>11. ASSUME TypeOK, ReentryAcquires, WaitersWait, NEW f \in Fsms,
       Complete(f)
      PROVE  ReentryAcquires'
  BY <1>11 DEF Complete, CancelLater, TypeOK, ReentryAcquires, WaitersWait
<1>12. ASSUME TypeOK, ReentryAcquires, WaitersWait, NEW f \in Fsms,
       CompleteSync(f)
      PROVE  ReentryAcquires'
  BY <1>12
  DEF CompleteSync, CancelLater, Enter, TypeOK, ReentryAcquires, WaitersWait
<1>13. ASSUME TypeOK, ReentryAcquires, WaitersWait, NEW f \in Fsms,
       RealThreadStarts(f)
      PROVE  ReentryAcquires'
  BY <1>13 DEF RealThreadStarts, TypeOK, ReentryAcquires, WaitersWait
<1>14. ASSUME TypeOK, ReentryAcquires, WaitersWait, NEW f \in Fsms,
       RealThreadFails(f)
      PROVE  ReentryAcquires'
  BY <1>14
  DEF RealThreadFails, CancelLater, TypeOK, ReentryAcquires, WaitersWait
<1>15. ASSUME TypeOK, ReentryAcquires, WaitersWait, NEW f \in Fsms,
       RealThreadExits(f)
      PROVE  ReentryAcquires'
  BY <1>15 DEF RealThreadExits, TypeOK, ReentryAcquires, WaitersWait
<1>16. ASSUME TypeOK, ReentryAcquires, WaitersWait, NEW f \in Fsms,
       NEW t \in Threads, ThreadInit(f, t)
      PROVE  ReentryAcquires'
  BY <1>16, FreeRuns, FsmsAssumption
  DEF ThreadInit, TypeOK, ReentryAcquires, Fsms, WaitersWait
<1>17. ASSUME TypeOK, ReentryAcquires, WaitersWait, NEW f \in Fsms,
       NEW t \in Threads, Start(f, t)
      PROVE  ReentryAcquires'
  BY <1>17, FreeRuns, FsmsAssumption
  DEF Start, Begin, TypeOK, ReentryAcquires, Fsms, WaitersWait
<1>18. ASSUME TypeOK, ReentryAcquires, WaitersWait, NEW f \in Fsms,
       NEW t \in Threads, StartSync(f, t)
      PROVE  ReentryAcquires'
  BY <1>18, FreeRuns, FsmsAssumption
  DEF StartSync, Begin, Enter, TypeOK, ReentryAcquires, Fsms, WaitersWait
<1>19. ASSUME TypeOK, ReentryAcquires, WaitersWait, NEW f \in Fsms,
       NEW t \in Threads, ThreadWait(f, t)
      PROVE  ReentryAcquires'
  BY <1>19, FreeRuns, FsmsAssumption
  DEF ThreadWait, ReturnWait, TypeOK, ReentryAcquires, Fsms, WaitersWait
<1>20. ASSUME TypeOK, ReentryAcquires, WaitersWait, NEW f \in Fsms,
       NEW e \in Events, EventAcquired(f, e)
      PROVE  ReentryAcquires'
  BY <1>20, ExecutingRuns, FsmsAssumption, BoundsAssumption
  DEF EventAcquired, Acquire, MayWait, TypeOK, ReentryAcquires, WaitersWait
<1>21. ASSUME TypeOK, ReentryAcquires, WaitersWait, NEW f \in Fsms,
       NEW e \in Events, EventBlocks(f, e)
      PROVE  ReentryAcquires'
  BY <1>21, ExecutingRuns, FsmsAssumption, BoundsAssumption
  DEF EventBlocks, MayWait, ReturnWait, TypeOK, ReentryAcquires, WaitersWait
<1>22. ASSUME TypeOK, ReentryAcquires, WaitersWait, NEW f \in Fsms,
       NEW e \in Events, TimedWaitExpired(f, e)
      PROVE  ReentryAcquires'
  BY <1>22, ExecutingRuns, FsmsAssumption, BoundsAssumption
  DEF TimedWaitExpired, MayWait, TypeOK, ReentryAcquires, WaitersWait
<1>23. ASSUME TypeOK, ReentryAcquires, WaitersWait, NEW f \in Fsms,
       NEW e \in Events, TimedWaitAcquired(f, e)
      PROVE  ReentryAcquires'
  BY <1>23, ExecutingRuns, FsmsAssumption, BoundsAssumption
  DEF TimedWaitAcquired, Acquire, MayWait, TypeOK, ReentryAcquires,
      WaitersWait
<1>24. ASSUME TypeOK, ReentryAcquires, WaitersWait, NEW f \in Fsms,
       NEW e \in Events, TimedWaitBlocks(f, e)
      PROVE  ReentryAcquires'
  BY <1>24, ExecutingRuns, FsmsAssumption, BoundsAssumption
  DEF TimedWaitBlocks, MayWait, TypeOK, ReentryAcquires, WaitersWait
<1>25. ASSUME TypeOK, ReentryAcquires, WaitersWait, NEW f \in Fsms,
       NEW e \in Events, SignalDropped(f, e)
      PROVE  ReentryAcquires'
  BY <1>25, BoundsAssumption
  DEF SignalDropped, TypeOK, ReentryAcquires, WaitersWait
<1>26. ASSUME TypeOK, ReentryAcquires, WaitersWait, NEW f \in Fsms,
       NEW e \in Events, SignalDelivered(f, e)
      PROVE  ReentryAcquires'
  BY <1>26, BoundsAssumption
  DEF SignalDelivered, CancelLater, Enter, TypeOK, ReentryAcquires,
      WaitersWait
<1>27. ASSUME TypeOK, ReentryAcquires, WaitersWait, NEW f \in Fsms,
       NEW e \in Events, EventSignal(f, e)
      PROVE  ReentryAcquires'
  BY <1>27, BoundsAssumption
  DEF EventSignal, TypeOK, ReentryAcquires, WaitersWait
<1>28. ASSUME TypeOK, ReentryAcquires, UNCHANGED vars
      PROVE  ReentryAcquires'
  BY <1>28 DEF vars, TypeOK, StackOK, ReentryAcquires
<1>30. ASSUME TypeOK, ReentryAcquires, WaitersWait, NEW f \in Fsms,
       ThreadWaitBlocks(f)
      PROVE  ReentryAcquires'
  BY <1>30
  DEF ThreadWaitBlocks, ReturnWait, TypeOK, ReentryAcquires, WaitersWait
<1> QED
  BY <1>30, <1>1, <1>2, <1>3, <1>4, <1>5, <1>6, <1>7, <1>8, <1>9, <1>10, <1>11,
     <1>12, <1>13, <1>14, <1>15, <1>16, <1>17, <1>18, <1>19, <1>20, <1>21,
     <1>22, <1>23, <1>24, <1>25, <1>26, <1>27, <1>28
  DEF Next, StateFunction, Dispatch, Environment

(* Every step keeps the timers of the timed waits in accord with the events: *)
(* silc_fsm_event_signal cancels them, silc_fsm_event_timedout uses them up. *)
LEMMA NextTimersMatch ==
  ASSUME TypeOK, TimersMatch, OneActivation,
         JoinersJoin, WaitersWait, ArmingAlone, [Next]_vars
  PROVE  TimersMatch'
<1> USE DEF object, timed, family, events, tasks, control
<1>1. ASSUME TypeOK, TimersMatch, NEW f \in Fsms, Yield(f)
      PROVE  TimersMatch'
  BY <1>1, FreeRuns DEF Yield, CancelLater, TypeOK, TimersMatch
<1>2. ASSUME TypeOK, TimersMatch, NEW f \in Fsms, AsyncCall(f)
      PROVE  TimersMatch'
  BY <1>2, FreeRuns DEF AsyncCall, ReturnWait, TypeOK, TimersMatch
<1>3. ASSUME TypeOK, TimersMatch, NEW f \in Fsms, NextLater(f)
      PROVE  TimersMatch'
  BY <1>3, FreeRuns DEF NextLater, ReturnWait, TypeOK, TimersMatch
<1>4. ASSUME TypeOK, TimersMatch, NEW f \in Fsms, Finish(f)
      PROVE  TimersMatch'
  BY <1>4, FreeRuns DEF Finish, MayFinish, TypeOK, TimersMatch
<1>5. ASSUME TypeOK, TimersMatch, OneActivation, JoinersJoin, NEW f \in Fsms,
       FinishSync(f)
      PROVE  TimersMatch'
  <2>1. Ended(f) /\ pc[f] = "run" /\ on[f] = NoEvent
        /\ UNCHANGED <<real, on, timed, events>>
    BY <1>5, FinishSyncEnds
  <2>2. \A g \in Fsms : EndMove(f, g)
    BY <1>5, <2>1, EndedMoves
  <2> QED BY <1>5, <2>1, <2>2 DEF TimersMatch, EndMove
<1>6. ASSUME TypeOK, TimersMatch, WaitersWait, ArmingAlone, NEW f \in Fsms,
       TimedWaitArms(f)
      PROVE  TimersMatch'
  BY <1>6, FsmsAssumption, BoundsAssumption
  DEF TimedWaitArms, ReturnWait, TypeOK, TimersMatch, WaitersWait, ArmingAlone
<1>7. ASSUME TypeOK, TimersMatch, OneActivation, NEW f \in Fsms,
       DispatchRun(f)
      PROVE  TimersMatch'
  BY <1>7 DEF DispatchRun, Enter, TypeOK, TimersMatch, OneActivation
<1>8. ASSUME TypeOK, TimersMatch, OneActivation, NEW f \in Fsms,
       DispatchLater(f)
      PROVE  TimersMatch'
  BY <1>8 DEF DispatchLater, Enter, TypeOK, TimersMatch, OneActivation
<1>9. ASSUME TypeOK, TimersMatch, OneActivation, JoinersJoin, NEW f \in Fsms,
       DispatchFinish(f)
      PROVE  TimersMatch'
  <2>1. Ended(f) /\ pc[f] = "fin"
        /\ UNCHANGED <<real, on, timed, events>>
    BY <1>9, DispatchFinishEnds
  <2>2. \A g \in Fsms : EndMove(f, g)
    BY <1>9, <2>1, EndedMoves
  <2> QED BY <1>9, <2>1, <2>2 DEF TimersMatch, EndMove
<1>10. ASSUME TypeOK, TimersMatch, WaitersWait, NEW f \in Fsms,
       EventTimedOut(f)
      PROVE  TimersMatch'
  BY <1>10, FsmsAssumption, BoundsAssumption
  DEF EventTimedOut, CancelLater, TypeOK, TimersMatch, WaitersWait
<1>11. ASSUME TypeOK, TimersMatch, NEW f \in Fsms, Complete(f)
      PROVE  TimersMatch'
  BY <1>11 DEF Complete, CancelLater, TypeOK, TimersMatch
<1>12. ASSUME TypeOK, TimersMatch, NEW f \in Fsms, CompleteSync(f)
      PROVE  TimersMatch'
  BY <1>12 DEF CompleteSync, CancelLater, Enter, TypeOK, TimersMatch
<1>13. ASSUME TypeOK, TimersMatch, NEW f \in Fsms, RealThreadStarts(f)
      PROVE  TimersMatch'
  BY <1>13 DEF RealThreadStarts, TypeOK, TimersMatch
<1>14. ASSUME TypeOK, TimersMatch, NEW f \in Fsms, RealThreadFails(f)
      PROVE  TimersMatch'
  BY <1>14 DEF RealThreadFails, CancelLater, TypeOK, TimersMatch
<1>15. ASSUME TypeOK, TimersMatch, NEW f \in Fsms, RealThreadExits(f)
      PROVE  TimersMatch'
  BY <1>15 DEF RealThreadExits, TypeOK, TimersMatch
<1>16. ASSUME TypeOK, TimersMatch, NEW f \in Fsms, NEW t \in Threads,
       ThreadInit(f, t)
      PROVE  TimersMatch'
  BY <1>16, FreeRuns DEF ThreadInit, TypeOK, TimersMatch, Fsms
<1>17. ASSUME TypeOK, TimersMatch, NEW f \in Fsms, NEW t \in Threads,
       Start(f, t)
      PROVE  TimersMatch'
  BY <1>17, FreeRuns DEF Start, Begin, TypeOK, TimersMatch, Fsms
<1>18. ASSUME TypeOK, TimersMatch, NEW f \in Fsms, NEW t \in Threads,
       StartSync(f, t)
      PROVE  TimersMatch'
  BY <1>18, FreeRuns DEF StartSync, Begin, Enter, TypeOK, TimersMatch, Fsms
<1>19. ASSUME TypeOK, TimersMatch, NEW f \in Fsms, NEW t \in Threads,
       ThreadWait(f, t)
      PROVE  TimersMatch'
  BY <1>19, FreeRuns DEF ThreadWait, ReturnWait, TypeOK, TimersMatch, Fsms
<1>20. ASSUME TypeOK, TimersMatch, WaitersWait, NEW f \in Fsms,
       NEW e \in Events, EventAcquired(f, e)
      PROVE  TimersMatch'
  BY <1>20, ExecutingRuns, FsmsAssumption, BoundsAssumption
  DEF EventAcquired, Acquire, MayWait, TypeOK, TimersMatch, WaitersWait
<1>21. ASSUME TypeOK, TimersMatch, WaitersWait, NEW f \in Fsms,
       NEW e \in Events, EventBlocks(f, e)
      PROVE  TimersMatch'
  BY <1>21, ExecutingRuns, FsmsAssumption, BoundsAssumption
  DEF EventBlocks, MayWait, ReturnWait, TypeOK, TimersMatch, WaitersWait
<1>22. ASSUME TypeOK, TimersMatch, WaitersWait, NEW f \in Fsms,
       NEW e \in Events, TimedWaitExpired(f, e)
      PROVE  TimersMatch'
  BY <1>22, ExecutingRuns, FsmsAssumption, BoundsAssumption
  DEF TimedWaitExpired, MayWait, TypeOK, TimersMatch, WaitersWait
<1>23. ASSUME TypeOK, TimersMatch, WaitersWait, NEW f \in Fsms,
       NEW e \in Events, TimedWaitAcquired(f, e)
      PROVE  TimersMatch'
  BY <1>23, ExecutingRuns, FsmsAssumption, BoundsAssumption
  DEF TimedWaitAcquired, Acquire, MayWait, TypeOK, TimersMatch, WaitersWait
<1>24. ASSUME TypeOK, TimersMatch, WaitersWait, NEW f \in Fsms,
       NEW e \in Events, TimedWaitBlocks(f, e)
      PROVE  TimersMatch'
  BY <1>24, ExecutingRuns, FsmsAssumption, BoundsAssumption
  DEF TimedWaitBlocks, MayWait, TypeOK, TimersMatch, WaitersWait
<1>25. ASSUME TypeOK, TimersMatch, NEW f \in Fsms, NEW e \in Events,
       SignalDropped(f, e)
      PROVE  TimersMatch'
  BY <1>25 DEF SignalDropped, TypeOK, TimersMatch
<1>26. ASSUME TypeOK, TimersMatch, WaitersWait, NEW f \in Fsms,
       NEW e \in Events, SignalDelivered(f, e)
      PROVE  TimersMatch'
  BY <1>26, FsmsAssumption, BoundsAssumption
  DEF SignalDelivered, CancelLater, Enter, TypeOK, TimersMatch, WaitersWait
<1>27. ASSUME TypeOK, TimersMatch, WaitersWait, ArmingAlone, NEW f \in Fsms,
       NEW e \in Events, EventSignal(f, e)
      PROVE  TimersMatch'
  BY <1>27, FsmsAssumption, BoundsAssumption
  DEF EventSignal, TypeOK, TimersMatch, WaitersWait, ArmingAlone
<1>28. ASSUME TypeOK, TimersMatch, UNCHANGED vars
      PROVE  TimersMatch'
  BY <1>28 DEF vars, TypeOK, StackOK, TimersMatch
<1>30. ASSUME TypeOK, TimersMatch, WaitersWait, ArmingAlone, NEW f \in Fsms,
       ThreadWaitBlocks(f)
      PROVE  TimersMatch'
  BY <1>30, FsmsAssumption, BoundsAssumption
  DEF ThreadWaitBlocks, ReturnWait, TypeOK, TimersMatch, WaitersWait, ArmingAlone
<1> QED
  BY <1>30, <1>1, <1>2, <1>3, <1>4, <1>5, <1>6, <1>7, <1>8, <1>9, <1>10, <1>11,
     <1>12, <1>13, <1>14, <1>15, <1>16, <1>17, <1>18, <1>19, <1>20, <1>21,
     <1>22, <1>23, <1>24, <1>25, <1>26, <1>27, <1>28
  DEF Next, StateFunction, Dispatch, Environment

(* While an FSM is between becoming a waiter and adding its timer no other   *)
(* code of its system thread runs, so nobody signals.  This is where real    *)
(* threads and timed waits must not be mixed.                                *)
LEMMA NextArmingAlone ==
  ASSUME TypeOK, ArmingAlone, NoTimedRace,
         TimersMatch, OneActivation, JoinersJoin, WaitersWait, [Next]_vars
  PROVE  ArmingAlone'
<1> USE DEF object, timed, family, events, tasks, control
<1>1. ASSUME TypeOK, ArmingAlone, NoTimedRace, TimersMatch, NEW f \in Fsms,
       Yield(f)
      PROVE  ArmingAlone'
  BY <1>1, FreeRuns, FsmsAssumption, BoundsAssumption
  DEF Yield, CancelLater, TypeOK, ArmingAlone, NoTimedRace, TimersMatch, Fsms,
      ProcOf, Procs, Free, Executing, Pop
<1>2. ASSUME TypeOK, ArmingAlone, NoTimedRace, TimersMatch, NEW f \in Fsms,
       AsyncCall(f)
      PROVE  ArmingAlone'
  BY <1>2, FreeRuns, FsmsAssumption, BoundsAssumption
  DEF AsyncCall, ReturnWait, TypeOK, ArmingAlone, NoTimedRace, TimersMatch,
      Fsms, ProcOf, Procs, Free, Executing, Pop
<1>3. ASSUME TypeOK, ArmingAlone, NoTimedRace, TimersMatch, NEW f \in Fsms,
       NextLater(f)
      PROVE  ArmingAlone'
  BY <1>3, FreeRuns, FsmsAssumption, BoundsAssumption
  DEF NextLater, ReturnWait, TypeOK, ArmingAlone, NoTimedRace, TimersMatch,
      Fsms, ProcOf, Procs, Free, Executing, Pop
<1>4. ASSUME TypeOK, ArmingAlone, NoTimedRace, TimersMatch, NEW f \in Fsms,
       Finish(f)
      PROVE  ArmingAlone'
  BY <1>4, FreeRuns, FsmsAssumption, BoundsAssumption
  DEF Finish, MayFinish, TypeOK, ArmingAlone, NoTimedRace, TimersMatch, Fsms,
      ProcOf, Procs, Free, Executing, Pop
<1>5. ASSUME TypeOK, ArmingAlone, OneActivation, JoinersJoin, NoTimedRace,
       TimersMatch, NEW f \in Fsms, FinishSync(f)
      PROVE  ArmingAlone'
  <2>1. Ended(f) /\ pc[f] = "run" /\ on[f] = NoEvent
        /\ UNCHANGED <<real, on, timed, events>>
    BY <1>5, FinishSyncEnds
  <2>2. \A g \in Fsms : EndMove(f, g)
    BY <1>5, <2>1, EndedMoves
  <2>3. \A g \in Fsms : pc[g] # "arming"
    BY <1>5, <2>1 DEF FinishSync, MayFinish, Free, Executing, ProcOf,
      ArmingAlone, NoTimedRace, TimersMatch
  <2> QED BY <1>5, <2>1, <2>2, <2>3 DEF ArmingAlone, EndMove
<1>6. ASSUME TypeOK, ArmingAlone, NoTimedRace, TimersMatch, NEW f \in Fsms,
       TimedWaitArms(f)
      PROVE  ArmingAlone'
  BY <1>6, FsmsAssumption, BoundsAssumption
  DEF TimedWaitArms, ReturnWait, TypeOK, ArmingAlone, NoTimedRace,
      TimersMatch, Fsms, ProcOf, Procs, Pop
<1>7. ASSUME TypeOK, ArmingAlone, NoTimedRace, TimersMatch, NEW f \in Fsms,
       DispatchRun(f)
      PROVE  ArmingAlone'
  BY <1>7, FsmsAssumption, BoundsAssumption
  DEF DispatchRun, Enter, TypeOK, ArmingAlone, NoTimedRace, TimersMatch, Fsms,
      ProcOf, Procs, Push, Dispatching
<1>8. ASSUME TypeOK, ArmingAlone, NoTimedRace, TimersMatch, NEW f \in Fsms,
       DispatchLater(f)
      PROVE  ArmingAlone'
  BY <1>8, FsmsAssumption, BoundsAssumption
  DEF DispatchLater, Enter, TypeOK, ArmingAlone, NoTimedRace, TimersMatch,
      Fsms, ProcOf, Procs, Push, Dispatching
<1>9. ASSUME TypeOK, ArmingAlone, OneActivation, JoinersJoin, NoTimedRace,
       TimersMatch, NEW f \in Fsms, DispatchFinish(f)
      PROVE  ArmingAlone'
  <2>1. Ended(f) /\ pc[f] = "fin"
        /\ UNCHANGED <<real, on, timed, events>>
    BY <1>9, DispatchFinishEnds
  <2>2. \A g \in Fsms : EndMove(f, g)
    BY <1>9, <2>1, EndedMoves
  <2> QED BY <1>9, <2>1, <2>2, DispatchFinishEnds DEF ArmingAlone, EndMove
<1>10. ASSUME TypeOK, ArmingAlone, NoTimedRace, TimersMatch, NEW f \in Fsms,
       EventTimedOut(f)
      PROVE  ArmingAlone'
  BY <1>10, FsmsAssumption, BoundsAssumption
  DEF EventTimedOut, CancelLater, TypeOK, ArmingAlone, NoTimedRace,
      TimersMatch, Fsms, ProcOf, Procs, Dispatching
<1>11. ASSUME TypeOK, ArmingAlone, NoTimedRace, TimersMatch, NEW f \in Fsms,
       Complete(f)
      PROVE  ArmingAlone'
  BY <1>11, FsmsAssumption, BoundsAssumption
  DEF Complete, CancelLater, TypeOK, ArmingAlone, NoTimedRace, TimersMatch,
      Fsms, ProcOf, Procs, CallbackIn
<1>12. ASSUME TypeOK, ArmingAlone, NoTimedRace, TimersMatch, NEW f \in Fsms,
       CompleteSync(f)
      PROVE  ArmingAlone'
  BY <1>12, FsmsAssumption, BoundsAssumption
  DEF CompleteSync, CancelLater, Enter, TypeOK, ArmingAlone, NoTimedRace,
      TimersMatch, Fsms, ProcOf, Procs, CallbackIn, Push
<1>13. ASSUME TypeOK, ArmingAlone, NoTimedRace, TimersMatch, NEW f \in Fsms,
       RealThreadStarts(f)
      PROVE  ArmingAlone'
  BY <1>13, FsmsAssumption, BoundsAssumption
  DEF RealThreadStarts, TypeOK, ArmingAlone, NoTimedRace, TimersMatch, Fsms,
      ProcOf, Procs, CallbackIn
<1>14. ASSUME TypeOK, ArmingAlone, NoTimedRace, TimersMatch, NEW f \in Fsms,
       RealThreadFails(f)
      PROVE  ArmingAlone'
  BY <1>14, FsmsAssumption, BoundsAssumption
  DEF RealThreadFails, CancelLater, TypeOK, ArmingAlone, NoTimedRace,
      TimersMatch, Fsms, ProcOf, Procs, CallbackIn
<1>15. ASSUME TypeOK, ArmingAlone, NoTimedRace, TimersMatch, NEW f \in Fsms,
       RealThreadExits(f)
      PROVE  ArmingAlone'
  BY <1>15, FsmsAssumption, BoundsAssumption
  DEF RealThreadExits, TypeOK, ArmingAlone, NoTimedRace, TimersMatch, Fsms,
      ProcOf, Procs, Dispatching
<1>16. ASSUME TypeOK, ArmingAlone, NoTimedRace, TimersMatch, NEW f \in Fsms,
       NEW t \in Threads, ThreadInit(f, t)
      PROVE  ArmingAlone'
  BY <1>16, FreeRuns, FsmsAssumption, BoundsAssumption
  DEF ThreadInit, TypeOK, ArmingAlone, Fsms, NoTimedRace, TimersMatch, ProcOf,
      Procs, Free, Executing
<1>17. ASSUME TypeOK, ArmingAlone, NoTimedRace, TimersMatch, NEW f \in Fsms,
       NEW t \in Threads, Start(f, t)
      PROVE  ArmingAlone'
  BY <1>17, FreeRuns, FsmsAssumption, BoundsAssumption
  DEF Start, Begin, TypeOK, ArmingAlone, Fsms, NoTimedRace, TimersMatch,
      ProcOf, Procs, Free, Executing
<1>18. ASSUME TypeOK, ArmingAlone, NoTimedRace, TimersMatch, NEW f \in Fsms,
       NEW t \in Threads, StartSync(f, t)
      PROVE  ArmingAlone'
  BY <1>18, FreeRuns, FsmsAssumption, BoundsAssumption
  DEF StartSync, Begin, Enter, TypeOK, ArmingAlone, Fsms, NoTimedRace,
      TimersMatch, ProcOf, Procs, Push, Free, Executing
<1>19. ASSUME TypeOK, ArmingAlone, NoTimedRace, TimersMatch, NEW f \in Fsms,
       NEW t \in Threads, ThreadWait(f, t)
      PROVE  ArmingAlone'
  BY <1>19, FreeRuns, FsmsAssumption, BoundsAssumption
  DEF ThreadWait, ReturnWait, TypeOK, ArmingAlone, Fsms, NoTimedRace,
      TimersMatch, ProcOf, Procs, Pop, Free, Executing
<1>20. ASSUME TypeOK, ArmingAlone, NoTimedRace, TimersMatch, WaitersWait,
       NEW f \in Fsms, NEW e \in Events, EventAcquired(f, e)
      PROVE  ArmingAlone'
  BY <1>20, ExecutingRuns, FsmsAssumption, BoundsAssumption
  DEF EventAcquired, Acquire, MayWait, TypeOK, ArmingAlone, NoTimedRace,
      TimersMatch, Fsms, ProcOf, Procs, Executing, WaitersWait
<1>21. ASSUME TypeOK, ArmingAlone, NoTimedRace, TimersMatch, WaitersWait,
       NEW f \in Fsms, NEW e \in Events, EventBlocks(f, e)
      PROVE  ArmingAlone'
  BY <1>21, ExecutingRuns, FsmsAssumption, BoundsAssumption
  DEF EventBlocks, MayWait, ReturnWait, TypeOK, ArmingAlone, NoTimedRace,
      TimersMatch, Fsms, ProcOf, Procs, Executing, Pop, WaitersWait
<1>22. ASSUME TypeOK, ArmingAlone, NoTimedRace, TimersMatch, WaitersWait,
       NEW f \in Fsms, NEW e \in Events, TimedWaitExpired(f, e)
      PROVE  ArmingAlone'
  BY <1>22, ExecutingRuns, FsmsAssumption, BoundsAssumption
  DEF TimedWaitExpired, MayWait, TypeOK, ArmingAlone, NoTimedRace,
      TimersMatch, Fsms, ProcOf, Procs, Executing, WaitersWait
<1>23. ASSUME TypeOK, ArmingAlone, NoTimedRace, TimersMatch, WaitersWait,
       NEW f \in Fsms, NEW e \in Events, TimedWaitAcquired(f, e)
      PROVE  ArmingAlone'
  BY <1>23, ExecutingRuns, FsmsAssumption, BoundsAssumption
  DEF TimedWaitAcquired, Acquire, MayWait, TypeOK, ArmingAlone, NoTimedRace,
      TimersMatch, Fsms, ProcOf, Procs, Executing, WaitersWait
<1>24. ASSUME TypeOK, ArmingAlone, NoTimedRace, TimersMatch, WaitersWait,
       NEW f \in Fsms, NEW e \in Events, TimedWaitBlocks(f, e)
      PROVE  ArmingAlone'
  BY <1>24, ExecutingRuns, FsmsAssumption, BoundsAssumption
  DEF TimedWaitBlocks, MayWait, TypeOK, ArmingAlone, NoTimedRace, TimersMatch,
      Fsms, ProcOf, Procs, Executing, WaitersWait
<1>25. ASSUME TypeOK, ArmingAlone, NoTimedRace, TimersMatch, WaitersWait,
       NEW f \in Fsms, NEW e \in Events, SignalDropped(f, e)
      PROVE  ArmingAlone'
  BY <1>25, FsmsAssumption, BoundsAssumption
  DEF SignalDropped, TypeOK, ArmingAlone, NoTimedRace, TimersMatch, Fsms,
      ProcOf, Procs, Dispatching, WaitersWait
<1>26. ASSUME TypeOK, ArmingAlone, NoTimedRace, TimersMatch, WaitersWait,
       NEW f \in Fsms, NEW e \in Events, SignalDelivered(f, e)
      PROVE  ArmingAlone'
  BY <1>26, FsmsAssumption, BoundsAssumption
  DEF SignalDelivered, CancelLater, Enter, TypeOK, ArmingAlone, NoTimedRace,
      TimersMatch, Fsms, ProcOf, Procs, Dispatching, Push, WaitersWait
<1>27. ASSUME TypeOK, ArmingAlone, NoTimedRace, TimersMatch, WaitersWait,
       NEW f \in Fsms, NEW e \in Events, EventSignal(f, e)
      PROVE  ArmingAlone'
  <2>1. ASSUME NEW g \in Fsms, pc[g] = "arming" PROVE FALSE
    <3>1. f = Machine
      BY <1>27, <2>1 DEF EventSignal, CallbackIn, Procs, Live, NoTimedRace,
      ArmingAlone, TimersMatch, Fsms
    <3> QED BY <1>27, <2>1, <3>1 DEF EventSignal, CallbackIn, ArmingAlone
  <2> QED BY <1>27, <2>1 DEF EventSignal, ArmingAlone, TypeOK
<1>28. ASSUME TypeOK, ArmingAlone, UNCHANGED vars
      PROVE  ArmingAlone'
  BY <1>28 DEF vars, TypeOK, StackOK, ArmingAlone
<1>30. ASSUME TypeOK, ArmingAlone, NoTimedRace, TimersMatch, NEW f \in Fsms,
       ThreadWaitBlocks(f)
      PROVE  ArmingAlone'
  BY <1>30, FsmsAssumption, BoundsAssumption
  DEF ThreadWaitBlocks, ReturnWait, TypeOK, ArmingAlone, NoTimedRace,
      TimersMatch, Fsms, ProcOf, Procs, Pop
<1> QED
  BY <1>30, <1>1, <1>2, <1>3, <1>4, <1>5, <1>6, <1>7, <1>8, <1>9, <1>10, <1>11,
     <1>12, <1>13, <1>14, <1>15, <1>16, <1>17, <1>18, <1>19, <1>20, <1>21,
     <1>22, <1>23, <1>24, <1>25, <1>26, <1>27, <1>28
  DEF Next, StateFunction, Dispatch, Environment

(* Between the two steps of silc_fsm_thread_wait no other code of the        *)
(* machine's system thread runs.                                             *)
LEMMA NextJoiningAlone ==
  ASSUME TypeOK, JoiningAlone, OneActivation, JoinersJoin, [Next]_vars
  PROVE  JoiningAlone'
<1> USE DEF object, timed, family, events, tasks, control
<1>1. ASSUME TypeOK, JoiningAlone, NEW f \in Fsms,
       Yield(f)
      PROVE  JoiningAlone'
  BY <1>1, FreeRuns, FsmsAssumption
  DEF Yield, CancelLater, TypeOK, JoiningAlone, Fsms,
      ProcOf, Free, Executing, Pop
<1>2. ASSUME TypeOK, JoiningAlone, NEW f \in Fsms,
       AsyncCall(f)
      PROVE  JoiningAlone'
  BY <1>2, FreeRuns, FsmsAssumption
  DEF AsyncCall, ReturnWait, TypeOK, JoiningAlone,
      Fsms, ProcOf, Free, Executing, Pop
<1>3. ASSUME TypeOK, JoiningAlone, NEW f \in Fsms,
       NextLater(f)
      PROVE  JoiningAlone'
  BY <1>3, FreeRuns, FsmsAssumption
  DEF NextLater, ReturnWait, TypeOK, JoiningAlone,
      Fsms, ProcOf, Free, Executing, Pop
<1>4. ASSUME TypeOK, JoiningAlone, NEW f \in Fsms,
       Finish(f)
      PROVE  JoiningAlone'
  BY <1>4, FreeRuns, FsmsAssumption
  DEF Finish, MayFinish, TypeOK, JoiningAlone, Fsms,
      ProcOf, Free, Executing, Pop
<1>5. ASSUME TypeOK, JoiningAlone, OneActivation, JoinersJoin,
      NEW f \in Fsms, FinishSync(f)
      PROVE  JoiningAlone'
  <2>1. Ended(f) /\ pc[f] = "run" /\ on[f] = NoEvent
        /\ UNCHANGED <<real, on, timed, events>>
    BY <1>5, FinishSyncEnds
  <2>2. \A g \in Fsms : EndMove(f, g)
    BY <1>5, <2>1, EndedMoves
  <2>3. \A g \in Fsms : pc[g] = "joining" => real[g]
    BY <1>5, <2>1 DEF FinishSync, MayFinish, Free, Executing, ProcOf,
      JoiningAlone
  <2> QED BY <1>5, <2>1, <2>2, <2>3 DEF JoiningAlone, EndMove
<1>6. ASSUME TypeOK, JoiningAlone, NEW f \in Fsms,
       TimedWaitArms(f)
      PROVE  JoiningAlone'
  BY <1>6, FsmsAssumption
  DEF TimedWaitArms, ReturnWait, TypeOK, JoiningAlone, Fsms, ProcOf, Pop
<1>7. ASSUME TypeOK, JoiningAlone, NEW f \in Fsms,
       DispatchRun(f)
      PROVE  JoiningAlone'
  BY <1>7, FsmsAssumption
  DEF DispatchRun, Enter, TypeOK, JoiningAlone, Fsms,
      ProcOf, Push, Dispatching
<1>8. ASSUME TypeOK, JoiningAlone, NEW f \in Fsms,
       DispatchLater(f)
      PROVE  JoiningAlone'
  BY <1>8, FsmsAssumption
  DEF DispatchLater, Enter, TypeOK, JoiningAlone,
      Fsms, ProcOf, Push, Dispatching
<1>9. ASSUME TypeOK, JoiningAlone, OneActivation, JoinersJoin,
      NEW f \in Fsms, DispatchFinish(f)
      PROVE  JoiningAlone'
  <2>1. Ended(f) /\ pc[f] = "fin"
        /\ UNCHANGED <<real, on, timed, events>>
    BY <1>9, DispatchFinishEnds
  <2>2. \A g \in Fsms : EndMove(f, g)
    BY <1>9, <2>1, EndedMoves
  <2> QED BY <1>9, <2>1, <2>2, DispatchFinishEnds DEF JoiningAlone, EndMove
<1>10. ASSUME TypeOK, JoiningAlone, NEW f \in Fsms,
       EventTimedOut(f)
      PROVE  JoiningAlone'
  BY <1>10, FsmsAssumption
  DEF EventTimedOut, CancelLater, TypeOK, JoiningAlone, Fsms, ProcOf,
      Dispatching
<1>11. ASSUME TypeOK, JoiningAlone, NEW f \in Fsms,
       Complete(f)
      PROVE  JoiningAlone'
  BY <1>11, FsmsAssumption
  DEF Complete, CancelLater, TypeOK, JoiningAlone,
      Fsms, ProcOf, CallbackIn
<1>12. ASSUME TypeOK, JoiningAlone, NEW f \in Fsms,
       CompleteSync(f)
      PROVE  JoiningAlone'
  BY <1>12, FsmsAssumption
  DEF CompleteSync, CancelLater, Enter, TypeOK, JoiningAlone, Fsms, ProcOf,
      CallbackIn, Push
<1>13. ASSUME TypeOK, JoiningAlone, NEW f \in Fsms,
       RealThreadStarts(f)
      PROVE  JoiningAlone'
  BY <1>13, FsmsAssumption
  DEF RealThreadStarts, TypeOK, JoiningAlone, Fsms,
      ProcOf, CallbackIn
<1>14. ASSUME TypeOK, JoiningAlone, NEW f \in Fsms,
       RealThreadFails(f)
      PROVE  JoiningAlone'
  BY <1>14, FsmsAssumption
  DEF RealThreadFails, CancelLater, TypeOK, JoiningAlone, Fsms, ProcOf,
      CallbackIn
<1>15. ASSUME TypeOK, JoiningAlone, NEW f \in Fsms,
       RealThreadExits(f)
      PROVE  JoiningAlone'
  BY <1>15, FsmsAssumption
  DEF RealThreadExits, TypeOK, JoiningAlone, Fsms,
      ProcOf, Dispatching
<1>16. ASSUME TypeOK, JoiningAlone, NEW f \in Fsms,
       NEW t \in Threads, ThreadInit(f, t)
      PROVE  JoiningAlone'
  BY <1>16, FreeRuns, FsmsAssumption
  DEF ThreadInit, TypeOK, JoiningAlone, Fsms, ProcOf,
      Procs, Free, Executing
<1>17. ASSUME TypeOK, JoiningAlone, NEW f \in Fsms,
       NEW t \in Threads, Start(f, t)
      PROVE  JoiningAlone'
  BY <1>17, FreeRuns, FsmsAssumption
  DEF Start, Begin, TypeOK, JoiningAlone, Fsms,
      ProcOf, Free, Executing
<1>18. ASSUME TypeOK, JoiningAlone, NEW f \in Fsms,
       NEW t \in Threads, StartSync(f, t)
      PROVE  JoiningAlone'
  BY <1>18, FreeRuns, FsmsAssumption
  DEF StartSync, Begin, Enter, TypeOK, JoiningAlone, Fsms, ProcOf, Push,
      Free, Executing
<1>19. ASSUME TypeOK, JoiningAlone, NEW f \in Fsms,
       NEW t \in Threads, ThreadWait(f, t)
      PROVE  JoiningAlone'
  BY <1>19, FreeRuns, FsmsAssumption
  DEF ThreadWait, ReturnWait, TypeOK, JoiningAlone, Fsms, ProcOf, Pop, Free,
      Executing
<1>20. ASSUME TypeOK, JoiningAlone,
       NEW f \in Fsms, NEW e \in Events, EventAcquired(f, e)
      PROVE  JoiningAlone'
  BY <1>20, ExecutingRuns, FsmsAssumption
  DEF EventAcquired, Acquire, MayWait, TypeOK, JoiningAlone, Fsms, ProcOf,
      Executing
<1>21. ASSUME TypeOK, JoiningAlone,
       NEW f \in Fsms, NEW e \in Events, EventBlocks(f, e)
      PROVE  JoiningAlone'
  <2>1. /\ pc' = [pc EXCEPT ![f] = "wait"] /\ pc[f] = "run"
        /\ stack' = [stack EXCEPT ![ProcOf(f)] = Tail(@)] /\ UNCHANGED real
        /\ Head(stack[ProcOf(f)]) = f
    BY <1>21 DEF EventBlocks, MayWait, ReturnWait, Pop, Executing
  <2>2. pc \in [Fsms -> Places] /\ Machine \in Fsms
    BY <1>21 DEF TypeOK, Fsms
  <2>3. ~real'[Machine]
    BY <1>21, <2>1 DEF JoiningAlone
  <2>4. ASSUME NEW g \in Fsms, pc'[g] = "joining", ~real'[g]
        PROVE  stack'[Machine] # <<>> /\ Head(stack'[Machine]) = g
    <3>1. g # f /\ pc[g] = "joining" /\ ~real[g]
      BY <2>1, <2>2, <2>4
    <3>2. stack[Machine] # <<>> /\ Head(stack[Machine]) = g
      BY <1>21, <3>1 DEF JoiningAlone
    <3>3. ProcOf(f) # Machine
      BY <2>1, <3>1, <3>2
    <3>4. stack'[Machine] = stack[Machine]
      BY <1>21, <2>1, <2>2, <3>3 DEF TypeOK
    <3> QED
      BY <3>2, <3>4
  <2> QED
    BY <2>3, <2>4 DEF JoiningAlone
<1>22. ASSUME TypeOK, JoiningAlone,
       NEW f \in Fsms, NEW e \in Events, TimedWaitExpired(f, e)
      PROVE  JoiningAlone'
  BY <1>22, ExecutingRuns, FsmsAssumption
  DEF TimedWaitExpired, MayWait, TypeOK, JoiningAlone, Fsms, ProcOf, Executing
<1>23. ASSUME TypeOK, JoiningAlone,
       NEW f \in Fsms, NEW e \in Events, TimedWaitAcquired(f, e)
      PROVE  JoiningAlone'
  BY <1>23, ExecutingRuns, FsmsAssumption
  DEF TimedWaitAcquired, Acquire, MayWait, TypeOK, JoiningAlone, Fsms,
      ProcOf, Executing
<1>24. ASSUME TypeOK, JoiningAlone,
       NEW f \in Fsms, NEW e \in Events, TimedWaitBlocks(f, e)
      PROVE  JoiningAlone'
  BY <1>24, ExecutingRuns, FsmsAssumption
  DEF TimedWaitBlocks, MayWait, TypeOK, JoiningAlone,
      Fsms, ProcOf, Executing
<1>25. ASSUME TypeOK, JoiningAlone,
       NEW f \in Fsms, NEW e \in Events, SignalDropped(f, e)
      PROVE  JoiningAlone'
  BY <1>25, FsmsAssumption
  DEF SignalDropped, TypeOK, JoiningAlone, Fsms,
      ProcOf, Dispatching
<1>26. ASSUME TypeOK, JoiningAlone,
       NEW f \in Fsms, NEW e \in Events, SignalDelivered(f, e)
      PROVE  JoiningAlone'
  BY <1>26, FsmsAssumption
  DEF SignalDelivered, CancelLater, Enter, TypeOK, JoiningAlone, Fsms,
      ProcOf, Dispatching, Push
<1>27. ASSUME TypeOK, JoiningAlone,
       NEW f \in Fsms, NEW e \in Events, EventSignal(f, e)
      PROVE  JoiningAlone'
  BY <1>27 DEF EventSignal, JoiningAlone, TypeOK
<1>28. ASSUME TypeOK, JoiningAlone, UNCHANGED vars
      PROVE  JoiningAlone'
  BY <1>28 DEF vars, TypeOK, StackOK, JoiningAlone
<1>30. ASSUME TypeOK, JoiningAlone, NEW f \in Fsms,
       ThreadWaitBlocks(f)
      PROVE  JoiningAlone'
  BY <1>30, FsmsAssumption
  DEF ThreadWaitBlocks, ReturnWait, TypeOK, JoiningAlone, Fsms, ProcOf, Pop
<1> QED
  BY <1>30, <1>1, <1>2, <1>3, <1>4, <1>5, <1>6, <1>7, <1>8, <1>9, <1>10, <1>11,
     <1>12, <1>13, <1>14, <1>15, <1>16, <1>17, <1>18, <1>19, <1>20, <1>21,
     <1>22, <1>23, <1>24, <1>25, <1>26, <1>27, <1>28
  DEF Next, StateFunction, Dispatch, Environment

(* Every step keeps joiners and the threads they wait for in accord.         *)
LEMMA NextJoinersJoin ==
  ASSUME TypeOK, JoinersJoin, JoiningAlone, OneActivation,
         TimersMatch, WaitersWait, [Next]_vars
  PROVE  JoinersJoin'
<1> USE DEF object, timed, family, events, tasks, control
<1>1. ASSUME TypeOK, JoinersJoin, NEW f \in Fsms, Yield(f)
      PROVE  JoinersJoin'
  BY <1>1, FreeRuns, FsmsAssumption
  DEF Yield, CancelLater, TypeOK, JoinersJoin, Fsms
<1>2. ASSUME TypeOK, JoinersJoin, NEW f \in Fsms, AsyncCall(f)
      PROVE  JoinersJoin'
  BY <1>2, FreeRuns, FsmsAssumption
  DEF AsyncCall, ReturnWait, TypeOK, JoinersJoin, Fsms
<1>3. ASSUME TypeOK, JoinersJoin, NEW f \in Fsms, NextLater(f)
      PROVE  JoinersJoin'
  BY <1>3, FreeRuns, FsmsAssumption
  DEF NextLater, ReturnWait, TypeOK, JoinersJoin, Fsms
<1>4. ASSUME TypeOK, JoinersJoin, NEW f \in Fsms, Finish(f)
      PROVE  JoinersJoin'
  BY <1>4, FreeRuns, FsmsAssumption
  DEF Finish, MayFinish, TypeOK, JoinersJoin, Fsms
<1>5. ASSUME TypeOK, JoinersJoin, JoiningAlone, OneActivation, NEW f \in Fsms,
       FinishSync(f)
      PROVE  JoinersJoin'
  <2>1. Ended(f) /\ pc[f] = "run" /\ on[f] = NoEvent
        /\ UNCHANGED <<real, on, timed, events>>
    BY <1>5, FinishSyncEnds
  <2>2. \A g \in Fsms : EndMove(f, g)
    BY <1>5, <2>1, EndedMoves
  <2>3. joiner' = [joiner EXCEPT ![f] = NoFsm]
    BY <2>1 DEF Ended
  <2>4. joiner'[Machine] = NoFsm
    BY <1>5, <2>3 DEF JoinersJoin, TypeOK, Fsms
  <2>5. ASSUME NEW t \in Threads, joiner'[t] # NoFsm
        PROVE  pc'[joiner'[t]] \in {"joining", "join"} /\ pc'[t] # "none"
    <3>1. t # f /\ joiner[t] = joiner'[t] /\ joiner[t] # joiner[f]
      BY <1>5, <2>1, <2>3, <2>5 DEF JoinersJoin, TypeOK, Fsms, Ended
    <3>2. /\ joiner[t] \in Fsms /\ pc[joiner[t]] \in {"joining", "join"}
          /\ pc[t] # "none" /\ t \in Fsms
      BY <1>5, <2>5, <3>1 DEF JoinersJoin, TypeOK, Fsms
    <3>3. joiner[t] # f /\ joiner[t] # Woken(f) /\ t # f
      BY <2>1, <2>5, <3>1, <3>2 DEF Woken
    <3>4. pc'[joiner[t]] = pc[joiner[t]] BY <2>1, <3>2, <3>3 DEF Ended
    <3>5. pc'[t] # "none" BY <2>1, <3>2, <3>3 DEF Ended
    <3> QED BY <3>1, <3>2, <3>4, <3>5
  <2>6. ASSUME NEW t \in Threads, NEW u \in Threads,
               joiner'[t] = joiner'[u], t # u
        PROVE  joiner'[t] = NoFsm
    BY <1>5, <2>3, <2>6 DEF JoinersJoin, TypeOK, Fsms
  <2>7. ASSUME NEW g \in Fsms, pc'[g] \in {"joining", "join"}, ~real'[g]
        PROVE  \E t \in Threads : joiner'[t] = g
    <3>1. pc[g] = pc'[g] /\ g # f /\ g # Woken(f) /\ ~real[g]
      BY <2>1, <2>2, <2>7, FsmsAssumption DEF Ended, EndMove
    <3>2. PICK t \in Threads : joiner[t] = g
      BY <1>5, <2>7, <3>1 DEF JoinersJoin
    <3>3. t # f
      <4>1. SUFFICES ASSUME t = f PROVE FALSE OBVIOUS
      <4>2. pc[g] = "joining"
        BY <2>7, <3>1, <3>2, <4>1, FsmsAssumption DEF Woken
      <4>3. stack[Machine] # <<>> /\ Head(stack[Machine]) = g
        BY <1>5, <3>1, <4>2 DEF JoiningAlone
      <4> QED BY <1>5, <3>1, <4>3 DEF FinishSync, MayFinish, Free, Executing, ProcOf
    <3> QED BY <1>5, <2>3, <3>2, <3>3 DEF TypeOK, Fsms
  <2> QED BY <2>4, <2>5, <2>6, <2>7 DEF JoinersJoin
<1>6. ASSUME TypeOK, JoinersJoin, NEW f \in Fsms, TimedWaitArms(f)
      PROVE  JoinersJoin'
  BY <1>6, FsmsAssumption
  DEF TimedWaitArms, ReturnWait, TypeOK, JoinersJoin, Fsms
<1>7. ASSUME TypeOK, JoinersJoin, OneActivation, NEW f \in Fsms,
       DispatchRun(f)
      PROVE  JoinersJoin'
  BY <1>7, FsmsAssumption
  DEF DispatchRun, Enter, TypeOK, JoinersJoin, Fsms,
      OneActivation
<1>8. ASSUME TypeOK, JoinersJoin, OneActivation, NEW f \in Fsms,
       DispatchLater(f)
      PROVE  JoinersJoin'
  BY <1>8, FsmsAssumption
  DEF DispatchLater, Enter, TypeOK, JoinersJoin, Fsms,
      OneActivation
<1>9. ASSUME TypeOK, JoinersJoin, JoiningAlone, OneActivation, NEW f \in Fsms,
       DispatchFinish(f)
      PROVE  JoinersJoin'
  <2>1. Ended(f) /\ pc[f] = "fin"
        /\ UNCHANGED <<real, on, timed, events>>
    BY <1>9, DispatchFinishEnds
  <2>2. \A g \in Fsms : EndMove(f, g)
    BY <1>9, <2>1, EndedMoves
  <2>3. joiner' = [joiner EXCEPT ![f] = NoFsm]
    BY <2>1 DEF Ended
  <2>4. joiner'[Machine] = NoFsm
    BY <1>9, <2>3 DEF JoinersJoin, TypeOK, Fsms
  <2>5. ASSUME NEW t \in Threads, joiner'[t] # NoFsm
        PROVE  pc'[joiner'[t]] \in {"joining", "join"} /\ pc'[t] # "none"
    <3>1. t # f /\ joiner[t] = joiner'[t] /\ joiner[t] # joiner[f]
      BY <1>9, <2>1, <2>3, <2>5 DEF JoinersJoin, TypeOK, Fsms, Ended
    <3>2. /\ joiner[t] \in Fsms /\ pc[joiner[t]] \in {"joining", "join"}
          /\ pc[t] # "none" /\ t \in Fsms
      BY <1>9, <2>5, <3>1 DEF JoinersJoin, TypeOK, Fsms
    <3>3. joiner[t] # f /\ joiner[t] # Woken(f) /\ t # f
      BY <2>1, <2>5, <3>1, <3>2 DEF Woken
    <3>4. pc'[joiner[t]] = pc[joiner[t]] BY <2>1, <3>2, <3>3 DEF Ended
    <3>5. pc'[t] # "none" BY <2>1, <3>2, <3>3 DEF Ended
    <3> QED BY <3>1, <3>2, <3>4, <3>5
  <2>6. ASSUME NEW t \in Threads, NEW u \in Threads,
               joiner'[t] = joiner'[u], t # u
        PROVE  joiner'[t] = NoFsm
    BY <1>9, <2>3, <2>6 DEF JoinersJoin, TypeOK, Fsms
  <2>7. ASSUME NEW g \in Fsms, pc'[g] \in {"joining", "join"}, ~real'[g]
        PROVE  \E t \in Threads : joiner'[t] = g
    <3>1. pc[g] = pc'[g] /\ g # f /\ g # Woken(f) /\ ~real[g]
      BY <2>1, <2>2, <2>7, FsmsAssumption DEF Ended, EndMove
    <3>2. PICK t \in Threads : joiner[t] = g
      BY <1>9, <2>7, <3>1 DEF JoinersJoin
    <3>3. t # f
      <4>1. SUFFICES ASSUME t = f PROVE FALSE OBVIOUS
      <4>2. pc[g] = "joining"
        BY <2>7, <3>1, <3>2, <4>1, FsmsAssumption DEF Woken
      <4>3. stack[Machine] # <<>> /\ Head(stack[Machine]) = g
        BY <1>9, <3>1, <4>2 DEF JoiningAlone
      <4> QED BY <1>9, <3>1, <4>3 DEF DispatchFinish, Dispatching
    <3> QED BY <1>9, <2>3, <3>2, <3>3 DEF TypeOK, Fsms
  <2> QED BY <2>4, <2>5, <2>6, <2>7 DEF JoinersJoin
<1>10. ASSUME TypeOK, JoinersJoin, TimersMatch, NEW f \in Fsms,
       EventTimedOut(f)
      PROVE  JoinersJoin'
  BY <1>10, FsmsAssumption
  DEF EventTimedOut, CancelLater, TypeOK, JoinersJoin,
      Fsms, TimersMatch
<1>11. ASSUME TypeOK, JoinersJoin, NEW f \in Fsms, Complete(f)
      PROVE  JoinersJoin'
  BY <1>11, FsmsAssumption
  DEF Complete, CancelLater, TypeOK, JoinersJoin, Fsms
<1>12. ASSUME TypeOK, JoinersJoin, NEW f \in Fsms, CompleteSync(f)
      PROVE  JoinersJoin'
  BY <1>12, FsmsAssumption
  DEF CompleteSync, CancelLater, Enter, TypeOK, JoinersJoin, Fsms
<1>13. ASSUME TypeOK, JoinersJoin, NEW f \in Fsms, RealThreadStarts(f)
      PROVE  JoinersJoin'
  BY <1>13, FsmsAssumption
  DEF RealThreadStarts, TypeOK, JoinersJoin, Fsms
<1>14. ASSUME TypeOK, JoinersJoin, NEW f \in Fsms, RealThreadFails(f)
      PROVE  JoinersJoin'
  BY <1>14, FsmsAssumption
  DEF RealThreadFails, CancelLater, TypeOK, JoinersJoin,
      Fsms
<1>15. ASSUME TypeOK, JoinersJoin, NEW f \in Fsms, RealThreadExits(f)
      PROVE  JoinersJoin'
  BY <1>15, FsmsAssumption
  DEF RealThreadExits, TypeOK, JoinersJoin, Fsms
<1>16. ASSUME TypeOK, JoinersJoin, NEW f \in Fsms, NEW t \in Threads,
       ThreadInit(f, t)
      PROVE  JoinersJoin'
  BY <1>16, FreeRuns, FsmsAssumption
  DEF ThreadInit, TypeOK, JoinersJoin, Fsms
<1>17. ASSUME TypeOK, JoinersJoin, NEW f \in Fsms, NEW t \in Threads,
       Start(f, t)
      PROVE  JoinersJoin'
  BY <1>17, FreeRuns, FsmsAssumption
  DEF Start, Begin, TypeOK, JoinersJoin, Fsms
<1>18. ASSUME TypeOK, JoinersJoin, NEW f \in Fsms, NEW t \in Threads,
       StartSync(f, t)
      PROVE  JoinersJoin'
  BY <1>18, FreeRuns, FsmsAssumption
  DEF StartSync, Begin, Enter, TypeOK, JoinersJoin, Fsms
<1>19. ASSUME TypeOK, JoinersJoin, NEW f \in Fsms, NEW t \in Threads,
       ThreadWait(f, t)
      PROVE  JoinersJoin'
  BY <1>19, FreeRuns, FsmsAssumption
  DEF ThreadWait, ReturnWait, TypeOK, JoinersJoin, Fsms
<1>20. ASSUME TypeOK, JoinersJoin, NEW f \in Fsms, NEW e \in Events,
       EventAcquired(f, e)
      PROVE  JoinersJoin'
  BY <1>20, ExecutingRuns, FsmsAssumption
  DEF EventAcquired, Acquire, MayWait, TypeOK, JoinersJoin,
      Fsms
<1>21. ASSUME TypeOK, JoinersJoin, NEW f \in Fsms, NEW e \in Events,
       EventBlocks(f, e)
      PROVE  JoinersJoin'
  BY <1>21, ExecutingRuns, FsmsAssumption
  DEF EventBlocks, MayWait, ReturnWait, TypeOK, JoinersJoin, Fsms
<1>22. ASSUME TypeOK, JoinersJoin, NEW f \in Fsms, NEW e \in Events,
       TimedWaitExpired(f, e)
      PROVE  JoinersJoin'
  BY <1>22, ExecutingRuns, FsmsAssumption
  DEF TimedWaitExpired, MayWait, TypeOK, JoinersJoin, Fsms
<1>23. ASSUME TypeOK, JoinersJoin, NEW f \in Fsms, NEW e \in Events,
       TimedWaitAcquired(f, e)
      PROVE  JoinersJoin'
  BY <1>23, ExecutingRuns, FsmsAssumption
  DEF TimedWaitAcquired, Acquire, MayWait, TypeOK, JoinersJoin, Fsms
<1>24. ASSUME TypeOK, JoinersJoin, NEW f \in Fsms, NEW e \in Events,
       TimedWaitBlocks(f, e)
      PROVE  JoinersJoin'
  BY <1>24, ExecutingRuns, FsmsAssumption
  DEF TimedWaitBlocks, MayWait, TypeOK, JoinersJoin, Fsms
<1>25. ASSUME TypeOK, JoinersJoin, NEW f \in Fsms, NEW e \in Events,
       SignalDropped(f, e)
      PROVE  JoinersJoin'
  BY <1>25, FsmsAssumption
  DEF SignalDropped, TypeOK, JoinersJoin, Fsms
<1>26. ASSUME TypeOK, JoinersJoin, WaitersWait, NEW f \in Fsms,
       NEW e \in Events, SignalDelivered(f, e)
      PROVE  JoinersJoin'
  BY <1>26, FsmsAssumption
  DEF SignalDelivered, CancelLater, Enter, TypeOK, JoinersJoin, Fsms, WaitersWait
<1>27. ASSUME TypeOK, JoinersJoin, NEW f \in Fsms, NEW e \in Events,
       EventSignal(f, e)
      PROVE  JoinersJoin'
  BY <1>27, FsmsAssumption
  DEF EventSignal, TypeOK, JoinersJoin, Fsms
<1>28. ASSUME TypeOK, JoinersJoin, UNCHANGED vars
      PROVE  JoinersJoin'
  BY <1>28 DEF vars, TypeOK, StackOK, JoinersJoin
<1>30. ASSUME TypeOK, JoinersJoin, NEW f \in Fsms, ThreadWaitBlocks(f)
      PROVE  JoinersJoin'
  BY <1>30, FsmsAssumption
  DEF ThreadWaitBlocks, ReturnWait, TypeOK, JoinersJoin, Fsms
<1> QED
  BY <1>30, <1>1, <1>2, <1>3, <1>4, <1>5, <1>6, <1>7, <1>8, <1>9, <1>10, <1>11,
     <1>12, <1>13, <1>14, <1>15, <1>16, <1>17, <1>18, <1>19, <1>20, <1>21,
     <1>22, <1>23, <1>24, <1>25, <1>26, <1>27, <1>28
  DEF Next, StateFunction, Dispatch, Environment

-----------------------------------------------------------------------------
(* The count of threads *)

Alive == {t \in Threads : pc[t] # "none"}

(* The threads of a machine are finitely many. *)
LEMMA AliveFinite ==
  /\ IsFiniteSet(Alive) /\ Cardinality(Alive) \in Nat
  /\ (Cardinality(Alive) = 0) <=> (Alive = {})
<1>1. IsFiniteSet(Alive)
  BY FsmsAssumption, FS_Subset DEF Alive
<1> QED BY <1>1, FS_CardinalityType, FS_EmptySet

(* A step that neither initialises nor ends an FSM: the same threads are     *)
(* alive, and the machine gets to its end only when there are none.          *)
SameThreads ==
  /\ threads' = threads
  /\ \A t \in Threads : pc'[t] = "none" <=> pc[t] = "none"
  /\ pc'[Machine] \in {"exit", "fin", "none"} =>
       pc[Machine] \in {"exit", "fin", "none"} \/ threads = 0

(* Such a step keeps the count right. *)
LEMMA SameThreadsCounted ==
  ASSUME ThreadsCounted, SameThreads
  PROVE  ThreadsCounted'
<1>1. Alive' = Alive
  BY DEF SameThreads, Alive
<1> QED BY <1>1 DEF SameThreads, ThreadsCounted, Alive

(* Every step but silc_fsm_thread_init and silc_fsm_finish_fsm is one. *)
LEMMA NextSameThreads ==
  ASSUME TypeOK, OneActivation, WaitersWait, TimersMatch, [Next]_vars,
         ~ \E f \in Fsms : FinishSync(f) \/ DispatchFinish(f)
                             \/ \E t \in Threads : ThreadInit(f, t)
  PROVE  SameThreads
<1> USE DEF object, timed, family, events, tasks, control
<1>1. ASSUME TypeOK, NEW f \in Fsms, Yield(f)
      PROVE  SameThreads
  BY <1>1, FreeRuns, FsmsAssumption DEF Yield, TypeOK, Fsms, SameThreads
<1>2. ASSUME TypeOK, NEW f \in Fsms, AsyncCall(f)
      PROVE  SameThreads
  BY <1>2, FreeRuns, FsmsAssumption
  DEF AsyncCall, ReturnWait, TypeOK, Fsms, SameThreads
<1>3. ASSUME TypeOK, NEW f \in Fsms, NextLater(f)
      PROVE  SameThreads
  BY <1>3, FreeRuns, FsmsAssumption
  DEF NextLater, ReturnWait, TypeOK, Fsms, SameThreads
<1>4. ASSUME TypeOK, NEW f \in Fsms, Finish(f)
      PROVE  SameThreads
  BY <1>4, FreeRuns, FsmsAssumption
  DEF Finish, MayFinish, TypeOK, Fsms, SameThreads
<1>5. ASSUME TypeOK, NEW f \in Fsms, TimedWaitArms(f)
      PROVE  SameThreads
  BY <1>5, FsmsAssumption
  DEF TimedWaitArms, ReturnWait, TypeOK, Fsms, SameThreads
<1>6. ASSUME TypeOK, OneActivation, NEW f \in Fsms, DispatchRun(f)
      PROVE  SameThreads
  BY <1>6, FsmsAssumption
  DEF DispatchRun, Enter, TypeOK, OneActivation, Fsms, SameThreads
<1>7. ASSUME TypeOK, OneActivation, NEW f \in Fsms, DispatchLater(f)
      PROVE  SameThreads
  BY <1>7, FsmsAssumption
  DEF DispatchLater, Enter, TypeOK, OneActivation, Fsms, SameThreads
<1>8. ASSUME TypeOK, TimersMatch, NEW f \in Fsms, EventTimedOut(f)
      PROVE  SameThreads
  BY <1>8, FsmsAssumption
  DEF EventTimedOut, TypeOK, TimersMatch, Fsms, SameThreads
<1>9. ASSUME TypeOK, NEW f \in Fsms, Complete(f)
      PROVE  SameThreads
  BY <1>9, FsmsAssumption DEF Complete, TypeOK, Fsms, SameThreads
<1>10. ASSUME TypeOK, NEW f \in Fsms, CompleteSync(f)
      PROVE  SameThreads
  BY <1>10, FsmsAssumption
  DEF CompleteSync, Enter, TypeOK, Fsms, SameThreads
<1>11. ASSUME TypeOK, NEW f \in Fsms, RealThreadStarts(f)
      PROVE  SameThreads
  BY <1>11, FsmsAssumption DEF RealThreadStarts, TypeOK, Fsms, SameThreads
<1>12. ASSUME TypeOK, NEW f \in Fsms, RealThreadFails(f)
      PROVE  SameThreads
  BY <1>12, FsmsAssumption DEF RealThreadFails, TypeOK, Fsms, SameThreads
<1>13. ASSUME TypeOK, NEW f \in Fsms, RealThreadExits(f)
      PROVE  SameThreads
  BY <1>13, FsmsAssumption DEF RealThreadExits, TypeOK, Fsms, SameThreads
<1>14. ASSUME TypeOK, NEW f \in Fsms, NEW t \in Threads, Start(f, t)
      PROVE  SameThreads
  BY <1>14, FreeRuns, FsmsAssumption
  DEF Start, Begin, TypeOK, Fsms, SameThreads
<1>15. ASSUME TypeOK, NEW f \in Fsms, NEW t \in Threads, StartSync(f, t)
      PROVE  SameThreads
  BY <1>15, FreeRuns, FsmsAssumption
  DEF StartSync, Begin, Enter, TypeOK, Fsms, SameThreads
<1>16. ASSUME TypeOK, NEW f \in Fsms, NEW t \in Threads, ThreadWait(f, t)
      PROVE  SameThreads
  BY <1>16, FreeRuns, FsmsAssumption
  DEF ThreadWait, ReturnWait, TypeOK, Fsms, SameThreads
<1>17. ASSUME TypeOK, NEW f \in Fsms, NEW e \in Events, EventAcquired(f, e)
      PROVE  SameThreads
  BY <1>17, ExecutingRuns, FsmsAssumption
  DEF EventAcquired, Acquire, MayWait, TypeOK, Fsms, SameThreads
<1>18. ASSUME TypeOK, NEW f \in Fsms, NEW e \in Events, EventBlocks(f, e)
      PROVE  SameThreads
  BY <1>18, ExecutingRuns, FsmsAssumption
  DEF EventBlocks, MayWait, ReturnWait, TypeOK, Fsms, SameThreads
<1>19. ASSUME TypeOK, NEW f \in Fsms, NEW e \in Events, TimedWaitExpired(f, e)
      PROVE  SameThreads
  BY <1>19, ExecutingRuns, FsmsAssumption
  DEF TimedWaitExpired, MayWait, TypeOK, Fsms, SameThreads
<1>20. ASSUME TypeOK, NEW f \in Fsms, NEW e \in Events,
       TimedWaitAcquired(f, e)
      PROVE  SameThreads
  BY <1>20, ExecutingRuns, FsmsAssumption
  DEF TimedWaitAcquired, Acquire, MayWait, TypeOK, Fsms, SameThreads
<1>21. ASSUME TypeOK, NEW f \in Fsms, NEW e \in Events, TimedWaitBlocks(f, e)
      PROVE  SameThreads
  BY <1>21, ExecutingRuns, FsmsAssumption
  DEF TimedWaitBlocks, MayWait, TypeOK, Fsms, SameThreads
<1>22. ASSUME TypeOK, NEW f \in Fsms, NEW e \in Events, SignalDropped(f, e)
      PROVE  SameThreads
  BY <1>22, FsmsAssumption DEF SignalDropped, TypeOK, Fsms, SameThreads
<1>23. ASSUME TypeOK, WaitersWait, NEW f \in Fsms, NEW e \in Events,
       SignalDelivered(f, e)
      PROVE  SameThreads
  BY <1>23, FsmsAssumption
  DEF SignalDelivered, Enter, TypeOK, WaitersWait, Fsms, SameThreads
<1>24. ASSUME TypeOK, NEW f \in Fsms, NEW e \in Events, EventSignal(f, e)
      PROVE  SameThreads
  BY <1>24, FsmsAssumption DEF EventSignal, TypeOK, Fsms, SameThreads
<1>25. ASSUME UNCHANGED vars PROVE SameThreads
  BY <1>25 DEF SameThreads, vars
<1>30. ASSUME TypeOK, NEW f \in Fsms, ThreadWaitBlocks(f)
      PROVE  SameThreads
  BY <1>30, FsmsAssumption
  DEF ThreadWaitBlocks, ReturnWait, TypeOK, Fsms, SameThreads
<1> QED
  BY <1>30, <1>1, <1>2, <1>3, <1>4, <1>5, <1>6, <1>7, <1>8, <1>9, <1>10,
     <1>11, <1>12, <1>13, <1>14, <1>15, <1>16, <1>17, <1>18, <1>19, <1>20,
     <1>21, <1>22, <1>23, <1>24, <1>25
  DEF Next, StateFunction, Dispatch, Environment

(* Who executes is alive, so a machine that is finishing has nobody left to  *)
(* start a thread.                                                           *)
LEMMA NextThreadsCounted ==
  ASSUME SafetyInv, ThreadsCounted, [Next]_vars
  PROVE  ThreadsCounted'
<1> USE DEF SafetyInv
<1>1. ASSUME NEW f \in Fsms, NEW t \in Threads, ThreadInit(f, t)
      PROVE  ThreadsCounted'
  <2>1. Free(f) /\ pc[t] = "none" /\ pc' = [pc EXCEPT ![t] = "new"]
        /\ threads' = threads + 1
    BY <1>1 DEF ThreadInit
  <2>2. pc[f] = "run" BY <2>1, FreeRuns
  <2>3. Alive' = Alive \cup {t} /\ t \notin Alive
    BY <2>1, FsmsAssumption DEF Alive, TypeOK, Fsms
  <2>4. threads' = Cardinality(Alive')
    BY <2>1, <2>3, AliveFinite, FS_AddElement DEF ThreadsCounted, Alive
  <2>5. pc'[Machine] \notin {"exit", "fin", "none"}
    <3>1. CASE f = Machine
      BY <2>1, <2>2, <3>1, FsmsAssumption DEF TypeOK, Fsms
    <3>2. CASE f # Machine
      <4>1. f \in Alive BY <2>2, <3>2 DEF Alive, Fsms
      <4>2. threads # 0 BY <4>1, AliveFinite DEF ThreadsCounted, Alive
      <4> QED BY <2>1, <4>2, FsmsAssumption DEF ThreadsCounted, TypeOK, Fsms
    <3> QED BY <3>1, <3>2
  <2> QED BY <2>4, <2>5 DEF ThreadsCounted, Alive
<1>2. ASSUME NEW f \in Fsms, FinishSync(f) \/ DispatchFinish(f)
      PROVE  ThreadsCounted'
  <2>1. /\ Ended(f) /\ pc[f] \in {"run", "fin"}
        /\ threads' = IF f = Machine THEN threads ELSE threads - 1
        /\ f = Machine => threads = 0
    <3>1. CASE FinishSync(f)
      BY <3>1, FinishSyncEnds DEF FinishSync, MayFinish, Ended
    <3>2. CASE DispatchFinish(f)
      BY <3>2, DispatchFinishEnds DEF Ended, ThreadsCounted
    <3> QED BY <1>2, <3>1, <3>2
  <2>2. \A g \in Fsms : EndMove(f, g)
    BY <2>1, EndedMoves
  <2>3. CASE f = Machine
    <3>1. Alive' = Alive
      BY <2>2, <2>3, FsmsAssumption DEF Alive, EndMove, Fsms
    <3> QED BY <2>1, <2>3, <3>1 DEF ThreadsCounted, Alive
  <2>4. CASE f # Machine
    <3>1. Alive' = Alive \ {f} /\ f \in Alive
      BY <2>1, <2>2, <2>4, FsmsAssumption DEF Alive, EndMove, Fsms
    <3>2. threads' = Cardinality(Alive')
      BY <2>1, <2>4, <3>1, AliveFinite, FS_RemoveElement
      DEF ThreadsCounted, Alive
    <3>3. pc'[Machine] \notin {"exit", "fin", "none"}
      <4>1. threads # 0 BY <3>1, AliveFinite DEF ThreadsCounted, Alive
      <4> QED BY <2>2, <2>4, <4>1 DEF ThreadsCounted, EndMove, Fsms
    <3> QED BY <3>2, <3>3 DEF ThreadsCounted, Alive
  <2> QED BY <2>3, <2>4
<1>3. CASE ~ \E f \in Fsms : FinishSync(f) \/ DispatchFinish(f)
                             \/ \E t \in Threads : ThreadInit(f, t)
  BY <1>3, NextSameThreads, SameThreadsCounted
<1> QED BY <1>1, <1>2, <1>3

-----------------------------------------------------------------------------
(* A machine that was just started, without threads, satisfies the invariants. *)
LEMMA InitSafetyInv ==
  ASSUME Init
  PROVE  SafetyInv /\ ThreadsCounted
<1> USE FsmsAssumption, BoundsAssumption DEF Init, Fsms
<1>1. TypeOK BY DEF TypeOK, StackOK, Places
<1>2. OneActivation BY DEF OneActivation
<1>3. WaitersWait BY DEF WaitersWait
<1>4. NoLostWakeup /\ ReentryAcquires BY DEF NoLostWakeup, ReentryAcquires
<1>5. TimersMatch BY DEF TimersMatch
<1>6. ArmingAlone BY DEF ArmingAlone
<1>7. JoinersJoin BY DEF JoinersJoin
<1>9. JoiningAlone BY DEF JoiningAlone
<1>8. ThreadsCounted
  <2>1. {t \in Threads : pc[t] # "none"} = {} OBVIOUS
  <2> QED BY <2>1, FS_EmptySet DEF ThreadsCounted
<1> QED BY <1>1, <1>2, <1>3, <1>4, <1>5, <1>6, <1>7, <1>8, <1>9
  DEF SafetyInv

-----------------------------------------------------------------------------
(* The theorems *)

(* Type correctness needs no other invariant, and no restriction on timed    *)
(* waits.                                                                    *)
THEOREM TypeCorrect == Spec => []TypeOK
<1>1. Init => TypeOK BY InitSafetyInv DEF SafetyInv
<1>2. TypeOK /\ [Next]_vars => TypeOK' BY NextTypeOK
<1> QED BY <1>1, <1>2, PTL DEF Spec

(* The inductive invariant, and with it the count of threads, holds always   *)
(* when real threads and SILC_FSM_EVENT_TIMEDWAIT are not mixed.             *)
THEOREM SafetyInvariant ==
  ASSUME NoTimedRace
  PROVE  Spec => [](SafetyInv /\ ThreadsCounted)
<1>1. Init => SafetyInv /\ ThreadsCounted BY InitSafetyInv
<1>2. SafetyInv /\ ThreadsCounted /\ [Next]_vars => (SafetyInv /\ ThreadsCounted)'
  <2> SUFFICES ASSUME SafetyInv, ThreadsCounted, [Next]_vars
               PROVE  SafetyInv' /\ ThreadsCounted'
    OBVIOUS
  <2>1. TypeOK' BY NextTypeOK DEF SafetyInv
  <2>2. OneActivation' BY NextOneActivation DEF SafetyInv
  <2>3. WaitersWait' BY NextWaitersWait DEF SafetyInv
  <2>4. NoLostWakeup' BY NextNoLostWakeup DEF SafetyInv
  <2>5. ReentryAcquires' BY NextReentryAcquires DEF SafetyInv
  <2>6. TimersMatch' BY NextTimersMatch DEF SafetyInv
  <2>7. ArmingAlone' BY NextArmingAlone DEF SafetyInv
  <2>8. JoinersJoin' BY NextJoinersJoin DEF SafetyInv
  <2>10. JoiningAlone' BY NextJoiningAlone DEF SafetyInv
  <2>9. ThreadsCounted' BY NextThreadsCounted
  <2> QED
    BY <2>1, <2>2, <2>3, <2>4, <2>5, <2>6, <2>7, <2>8, <2>9, <2>10
    DEF SafetyInv
<1> QED BY <1>1, <1>2, PTL DEF Spec

(* No waiter ever sleeps through a signal of its event: one of the signal    *)
(* tasks of silc_fsm_event_signal or a run is still to come.                 *)
THEOREM WakeupsAreNotLost ==
  ASSUME NoTimedRace
  PROVE  Spec => []NoLostWakeup
<1>1. SafetyInv => NoLostWakeup BY DEF SafetyInv
<1> QED BY <1>1, SafetyInvariant, PTL

(* A waiter that is run again finds its event signalled, so that             *)
(* silc_fsm_event_wait never adds it to the list of waiters a second time.   *)
THEOREM ReentriesAcquire ==
  ASSUME NoTimedRace
  PROVE  Spec => []ReentryAcquires
<1>1. SafetyInv => ReentryAcquires BY DEF SafetyInv
<1> QED BY <1>1, SafetyInvariant, PTL

(* No FSM is ever activated twice, re-entered while it runs or run after its *)
(* state was cleared by silc_fsm_finish_fsm.                                 *)
THEOREM ActivationsAreSingle ==
  ASSUME NoTimedRace
  PROVE  Spec => []OneActivation
<1>1. SafetyInv => OneActivation BY DEF SafetyInv
<1> QED BY <1>1, SafetyInvariant, PTL

(* A pending silc_fsm_event_timedout always finds the wait it was added for. *)
THEOREM TimeoutsAreNotStale ==
  ASSUME NoTimedRace
  PROVE  Spec => []NoStaleTimeout
<1>1. SafetyInv => NoStaleTimeout
  <2> SUFFICES ASSUME SafetyInv, NEW f \in Fsms, tmoq[f] > 0
               PROVE  /\ pc[f] = "twait" /\ event[f] = on[f] /\ event[f] # NoEvent
                      /\ f \in waiters[on[f]]
    BY DEF NoStaleTimeout
  <2>1. event[f] # NoEvent /\ pc[f] = "twait" /\ on[f] = event[f]
    BY DEF SafetyInv, TimersMatch
  <2> QED BY <2>1 DEF SafetyInv, WaitersWait
<1> QED BY <1>1, SafetyInvariant, PTL

(* The assertion of silc_fsm_finish_fsm that a machine ends without threads  *)
(* holds, because the counter is the number of threads that are not gone.    *)
THEOREM ThreadCountIsRight ==
  ASSUME NoTimedRace
  PROVE  Spec => []ThreadsCounted
BY SafetyInvariant, PTL

(* Whoever is in SILC_FSM_THREAD_WAIT and does not run in a real thread      *)
(* waits for a thread that will find it, though the wait takes two steps and *)
(* the thread may be a real one.                                             *)
THEOREM JoinersAreFound ==
  ASSUME NoTimedRace
  PROVE  Spec => []JoinerFindsThread
<1>1. SafetyInv => JoinerFindsThread
  BY FsmsAssumption DEF SafetyInv, JoinersJoin, JoinerFindsThread
<1> QED BY <1>1, SafetyInvariant, PTL
=============================================================================
