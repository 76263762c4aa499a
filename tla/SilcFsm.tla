------------------------------ MODULE SilcFsm ------------------------------
(***************************************************************************)
(* The SILC finite state machine library (lib/silcutil/silcfsm.c) over its *)
(* scheduler: one machine, its FSM threads (some of them run in real       *)
(* system threads), FSM events, and the tasks the library leaves with the  *)
(* scheduler.                                                              *)
(*                                                                         *)
(* The state functions are the library's clients, so they are any program  *)
(* that uses the API as silcfsm.h documents: a state function that waits   *)
(* for an event is re-entered and waits for it again, an asynchronous call *)
(* completes once, a machine finishes when it has no threads.  One action  *)
(* is one API call, one return from a state function or one task that a    *)
(* scheduler dispatches.                                                   *)
(*                                                                         *)
(* A task queue is the number of pending tasks of one kind for each FSM:   *)
(* the schedulers dispatch them in any order, which includes the order of  *)
(* their expiry.  An event's list of waiters is then a set, since its      *)
(* order decides nothing but the order in which tasks are added.           *)
(***************************************************************************)
EXTENDS Integers, Sequences, FiniteSets

CONSTANTS
  Machine,      \* the machine (SilcFSM)
  Threads,      \* its FSM threads (SilcFSMThread)
  Real,         \* the threads initialised with real_thread = TRUE
  Events,       \* the events (SilcFSMEvent) of the machine
  Timed,        \* the FSMs whose states use SILC_FSM_EVENT_TIMEDWAIT
  NoEvent,      \* the NULL event pointer
  NoFsm,        \* the NULL FSM pointer
  MaxValue,     \* bound on an event's counter (21 bits in the code)
  MaxPending    \* bound on the undelivered signals of one waiter (10 bits)

Fsms == {Machine} \cup Threads

ASSUME FsmsAssumption ==
  /\ Machine \notin Threads /\ Real \subseteq Threads /\ Timed \subseteq Fsms
  /\ NoFsm \notin Fsms /\ NoEvent \notin Events
  /\ IsFiniteSet(Threads)
ASSUME BoundsAssumption == MaxValue \in Nat /\ MaxPending \in Nat

VARIABLES
  (* struct SilcFSMObject *)
  started, finished, synchronous, nextLater, nextState,
  timedout,     \* event_timedout
  event,        \* the event of a timed wait, or NoEvent
  real,         \* real_thread
  threads,      \* the machine's count of threads
  joiner,       \* u.t.event of a thread: who waits for its termination
  (* struct SilcFSMEventObject *)
  value, waiters,
  (* tasks pending in the schedulers *)
  runq,         \* silc_fsm_run with zero timeout
  lateq,        \* silc_fsm_run of silc_fsm_next_later
  tmoq,         \* silc_fsm_event_timedout
  sigq,         \* silc_fsm_signal
  finq,         \* silc_fsm_finish_fsm
  (* control *)
  pc,           \* where each FSM is (see Places)
  on,           \* the event its current state starts by waiting for
  stack         \* the state functions each system thread is executing

object == <<started, finished, synchronous, nextLater, nextState>>
timed  == <<timedout, event, tmoq>>
family == <<real, threads, joiner>>
events == <<value, waiters, sigq>>
tasks  == <<runq, lateq, finq>>
control == <<pc, on, stack>>
vars == <<object, timed, family, events, tasks, control>>

-----------------------------------------------------------------------------
(* "none" not initialised; "new" initialised; "starting" its real thread is *)
(* to be created; "ready" a silc_fsm_run is pending; "run" in a state       *)
(* function; "arming" in silc_fsm_event_timedwait, a waiter whose timer is  *)
(* not added yet; "joining" in silc_fsm_thread_wait, before the lock; "wait", *)
(* "twait", "async", "later", "join" suspended after SILC_FSM_WAIT; "exit"  *)
(* the real thread leaves its scheduler; "fin" silc_fsm_finish_fsm is       *)
(* pending.                                                                 *)
Places == {"none", "new", "starting", "ready", "run", "arming", "joining",
           "wait", "twait", "async", "later", "join", "exit", "fin"}

(* The system thread, and so the scheduler, an FSM runs in. *)
ProcOf(f) == IF real[f] THEN f ELSE Machine

(* Has f's system thread been created, and is it still in its scheduler? *)
Live(f) == real[f] /\ pc[f] \notin {"none", "new", "starting", "fin"}

Procs == {Machine} \cup {t \in Threads : Live(t)}

(* The system thread p is in its scheduler, about to dispatch a task. *)
Dispatching(p) == stack[p] = <<>>

(* f is the state function its system thread is executing. *)
Executing(f) ==
  /\ pc[f] = "run"
  /\ stack[ProcOf(f)] # <<>>
  /\ Head(stack[ProcOf(f)]) = f

(* f is executing and is past the event its state starts by waiting for. *)
Free(f) == Executing(f) /\ on[f] = NoEvent

(* A callback may run in system thread p: from its scheduler, or because *)
(* the executing state function called into the code that invokes it.    *)
CallbackIn(p) ==
  /\ p \in Procs
  /\ stack[p] # <<>> => pc[Head(stack[p])] = "run"

Push(f) == stack' = [stack EXCEPT ![ProcOf(f)] = <<f>> \o @]
Pop(f)  == stack' = [stack EXCEPT ![ProcOf(f)] = Tail(@)]

(* The silc_fsm_run of f begins: its next state is called. *)
Enter(f) == pc' = [pc EXCEPT ![f] = "run"] /\ Push(f)

(* The state function of f returns with SILC_FSM_WAIT. *)
ReturnWait(f, place) ==
  /\ synchronous' = [synchronous EXCEPT ![f] = FALSE]
  /\ pc' = [pc EXCEPT ![f] = place]
  /\ Pop(f)

(* Mutant: the pending silc_fsm_run tasks are left in the scheduler. *)
CancelLaterKeeps(f, more) ==
  /\ runq' = [runq EXCEPT ![f] = @ + more]
  /\ nextLater' = [nextLater EXCEPT ![f] = FALSE]
  /\ UNCHANGED lateq

(* The first lines of silc_fsm_continue and silc_fsm_continue_sync: with  *)
(* next_later set every silc_fsm_run task of f is deleted; `more' is the  *)
(* number of tasks then added.                                            *)
CancelLater(f, more) ==
  /\ runq' = [runq EXCEPT ![f] = (IF nextLater[f] THEN 0 ELSE @) + more]
  /\ lateq' = [lateq EXCEPT ![f] = IF nextLater[f] THEN 0 ELSE @]
  /\ nextLater' = [nextLater EXCEPT ![f] = FALSE]

-----------------------------------------------------------------------------
(* Starting *)

(* Mutant: the thread is not counted. *)
ThreadInitUncounted(g, t) ==
  /\ Free(g) /\ pc[t] = "none"
  /\ pc' = [pc EXCEPT ![t] = "new"]
  /\ started' = [started EXCEPT ![t] = FALSE]
  /\ real' = [real EXCEPT ![t] = t \in Real]
  /\ UNCHANGED <<threads, finished, synchronous, nextLater, nextState, joiner,
                 on, stack, timed, events, tasks>>

(* silc_fsm_thread_init, called by the executing FSM g. *)
ThreadInit(g, t) ==
  /\ Free(g) /\ pc[t] = "none"
  /\ pc' = [pc EXCEPT ![t] = "new"]
  /\ started' = [started EXCEPT ![t] = FALSE]
  /\ real' = [real EXCEPT ![t] = t \in Real]
  /\ threads' = threads + 1
  /\ UNCHANGED <<finished, synchronous, nextLater, nextState, joiner, on,
                 stack, timed, events, tasks>>

(* The assignments common to silc_fsm_start and silc_fsm_start_sync. *)
Begin(t, sync) ==
  /\ finished' = [finished EXCEPT ![t] = FALSE]
  /\ nextState' = [nextState EXCEPT ![t] = TRUE]
  /\ synchronous' = [synchronous EXCEPT ![t] = sync]
  /\ started' = [started EXCEPT ![t] = TRUE]

(* silc_fsm_start: a real thread is created through the scheduler too. *)
Start(g, t) ==
  /\ Free(g) /\ pc[t] = "new"
  /\ Begin(t, FALSE)
  /\ IF real[t]
       THEN pc' = [pc EXCEPT ![t] = "starting"] /\ UNCHANGED runq
       ELSE pc' = [pc EXCEPT ![t] = "ready"]
            /\ runq' = [runq EXCEPT ![t] = @ + 1]
  /\ UNCHANGED <<nextLater, lateq, finq, on, stack, timed, family, events>>

(* silc_fsm_start_sync: the first state runs inside the caller's, so it is  *)
(* called in the system thread that t is to run in, or t gets its own.      *)
StartSync(g, t) ==
  /\ Free(g) /\ pc[t] = "new" /\ (real[g] => real[t])
  /\ Begin(t, TRUE)
  /\ IF real[t]
       THEN pc' = [pc EXCEPT ![t] = "starting"] /\ UNCHANGED stack
       ELSE Enter(t)
  /\ UNCHANGED <<nextLater, on, timed, family, events, tasks>>

(* silc_fsm_start_real_thread and the start of silc_fsm_thread: the new     *)
(* system thread has a scheduler with one silc_fsm_run task.                *)
RealThreadStarts(t) ==
  /\ pc[t] = "starting" /\ CallbackIn(Machine)
  /\ pc' = [pc EXCEPT ![t] = "ready"]
  /\ runq' = [runq EXCEPT ![t] = @ + 1]
  /\ UNCHANGED <<lateq, finq, on, stack, object, timed, family, events>>

(* silc_fsm_start_real_thread when no system thread can be created: the FSM *)
(* thread runs in the machine's system thread.                              *)
RealThreadFails(t) ==
  /\ pc[t] = "starting" /\ CallbackIn(Machine)
  /\ real' = [real EXCEPT ![t] = FALSE]
  /\ CancelLater(t, 0)
  /\ pc' = [pc EXCEPT ![t] = "run"]
  /\ stack' = [stack EXCEPT ![Machine] = <<t>> \o @]
  /\ UNCHANGED <<started, finished, synchronous, nextState, threads, joiner,
                 finq, on, timed, events>>

-----------------------------------------------------------------------------
(* Running and suspending *)

(* The scheduler dispatches a silc_fsm_run task of f. *)
DispatchRun(f) ==
  /\ runq[f] > 0 /\ Dispatching(ProcOf(f))
  /\ runq' = [runq EXCEPT ![f] = @ - 1]
  /\ Enter(f)
  /\ UNCHANGED <<lateq, finq, on, object, timed, family, events>>

(* The timeout of silc_fsm_next_later expires; next_later stays set. *)
DispatchLater(f) ==
  /\ lateq[f] > 0 /\ Dispatching(ProcOf(f))
  /\ lateq' = [lateq EXCEPT ![f] = @ - 1]
  /\ Enter(f)
  /\ UNCHANGED <<runq, finq, on, object, timed, family, events>>

(* SILC_FSM_YIELD: silc_fsm_run calls silc_fsm_continue. *)
Yield(f) ==
  /\ Free(f)
  /\ CancelLater(f, 1)
  /\ pc' = [pc EXCEPT ![f] = "ready"] /\ Pop(f)
  /\ UNCHANGED <<started, finished, synchronous, nextState, finq, on, timed,
                 family, events>>

(* SILC_FSM_CALL of a really asynchronous function. *)
AsyncCall(f) ==
  /\ Free(f)
  /\ ReturnWait(f, "async")
  /\ UNCHANGED <<started, finished, nextLater, nextState, on, timed, family,
                 events, tasks>>

(* silc_fsm_next_later and SILC_FSM_WAIT. *)
NextLater(f) ==
  /\ Free(f)
  /\ lateq' = [lateq EXCEPT ![f] = @ + 1]
  /\ nextLater' = [nextLater EXCEPT ![f] = TRUE]
  /\ ReturnWait(f, "later")
  /\ UNCHANGED <<started, finished, nextState, runq, finq, on, timed, family,
                 events>>

(* The asynchronous call of f completes, or what it waits for happens before *)
(* its silc_fsm_next_later expires, and silc_fsm_continue is called.         *)
Complete(f) ==
  /\ pc[f] \in {"async", "later"} /\ CallbackIn(ProcOf(f))
  /\ CancelLater(f, 1)
  /\ pc' = [pc EXCEPT ![f] = "ready"]
  /\ UNCHANGED <<started, finished, synchronous, nextState, finq, on, stack,
                 timed, family, events>>

(* The same through silc_fsm_continue_sync. *)
CompleteSync(f) ==
  /\ pc[f] \in {"async", "later"} /\ CallbackIn(ProcOf(f))
  /\ CancelLater(f, 0)
  /\ Enter(f)
  /\ UNCHANGED <<started, finished, synchronous, nextState, finq, on, timed,
                 family, events>>

-----------------------------------------------------------------------------
(* Events *)

(* Mutants: every waiter decreases the counter; the counter is not tested. *)
AcquireDecreases(f, e) ==
  /\ value[e] > 0
  /\ waiters' = [waiters EXCEPT ![e] = @ \ {f}]
  /\ value' = [value EXCEPT ![e] = @ - 1]
  /\ on' = [on EXCEPT ![f] = NoEvent]
AcquireUntested(f, e) ==
  /\ waiters' = [waiters EXCEPT ![e] = @ \ {f}]
  /\ value' = [value EXCEPT ![e] = IF waiters'[e] = {} THEN @ - 1 ELSE @]
  /\ on' = [on EXCEPT ![f] = NoEvent]

(* The acquiring half of silc_fsm_event_wait: the counter is decreased when *)
(* the last of the waiters acquires the signal.                             *)
Acquire(f, e) ==
  /\ value[e] > 0
  /\ waiters' = [waiters EXCEPT ![e] = @ \ {f}]
  /\ value' = [value EXCEPT ![e] = IF waiters'[e] = {} THEN @ - 1 ELSE @]
  /\ on' = [on EXCEPT ![f] = NoEvent]

(* f may call a wait for e now: the event its state waits for, if any. *)
MayWait(f, e) == Executing(f) /\ on[f] \in {NoEvent, e}

(* SILC_FSM_EVENT_WAIT of a signalled event: the state function goes on. *)
EventAcquired(f, e) ==
  /\ MayWait(f, e) /\ f \notin Timed
  /\ Acquire(f, e)
  /\ UNCHANGED <<object, timed, family, sigq, tasks, pc, stack>>

(* SILC_FSM_EVENT_WAIT of an event that is not signalled. *)
EventBlocks(f, e) ==
  /\ MayWait(f, e) /\ f \notin Timed /\ value[e] = 0
  /\ waiters' = [waiters EXCEPT ![e] = @ \cup {f}]
  /\ on' = [on EXCEPT ![f] = e]
  /\ ReturnWait(f, "wait")
  /\ UNCHANGED <<started, finished, nextLater, nextState, timed, family,
                 value, sigq, tasks>>

(* SILC_FSM_EVENT_TIMEDWAIT after the timeout: it returns with `timedout'. *)
TimedWaitExpired(f, e) ==
  /\ MayWait(f, e) /\ f \in Timed /\ timedout[f]
  /\ timedout' = [timedout EXCEPT ![f] = FALSE]
  /\ on' = [on EXCEPT ![f] = NoEvent]
  /\ UNCHANGED <<object, event, tmoq, family, events, tasks, pc, stack>>

(* SILC_FSM_EVENT_TIMEDWAIT of a signalled event. *)
TimedWaitAcquired(f, e) ==
  /\ MayWait(f, e) /\ f \in Timed /\ ~timedout[f]
  /\ Acquire(f, e)
  /\ UNCHANGED <<object, timed, family, sigq, tasks, pc, stack>>

(* SILC_FSM_EVENT_TIMEDWAIT of an event that is not signalled: f becomes a  *)
(* waiter under the lock ...                                                *)
TimedWaitBlocks(f, e) ==
  /\ MayWait(f, e) /\ f \in Timed /\ ~timedout[f] /\ value[e] = 0
  /\ waiters' = [waiters EXCEPT ![e] = @ \cup {f}]
  /\ on' = [on EXCEPT ![f] = e]
  /\ pc' = [pc EXCEPT ![f] = "arming"]
  /\ UNCHANGED <<object, timed, family, value, sigq, tasks, stack>>

(* ... and the timer is added and `event' set after the lock is released. *)
TimedWaitArms(f) ==
  /\ pc[f] = "arming"
  /\ stack[ProcOf(f)] # <<>> /\ Head(stack[ProcOf(f)]) = f
  /\ tmoq' = [tmoq EXCEPT ![f] = @ + 1]
  /\ event' = [event EXCEPT ![f] = on[f]]
  /\ ReturnWait(f, "twait")
  /\ UNCHANGED <<started, finished, nextLater, nextState, timedout, family,
                 events, tasks, on>>

(* silc_fsm_event_timedout: f stops waiting and is continued. *)
EventTimedOut(f) ==
  /\ tmoq[f] > 0 /\ Dispatching(ProcOf(f)) /\ event[f] # NoEvent
  /\ tmoq' = [tmoq EXCEPT ![f] = @ - 1]
  /\ waiters' = [waiters EXCEPT ![event[f]] = @ \ {f}]
  /\ CancelLater(f, 1)
  /\ timedout' = [timedout EXCEPT ![f] = TRUE]
  /\ event' = [event EXCEPT ![f] = NoEvent]
  /\ pc' = [pc EXCEPT ![f] = "ready"]
  /\ UNCHANGED <<started, finished, synchronous, nextState, family, value,
                 sigq, finq, on, stack>>

(* Mutants: only the counter is increased; timeouts are not cancelled. *)
EventSignalSilent(p, e) ==
  /\ CallbackIn(p) /\ value[e] < MaxValue
  /\ value' = [value EXCEPT ![e] = @ + 1]
  /\ UNCHANGED <<object, timed, family, waiters, sigq, tasks, control>>
EventSignalKeepsTimers(p, e) ==
  /\ CallbackIn(p) /\ value[e] < MaxValue
  /\ \A f \in waiters[e] : sigq[e][f] < MaxPending
  /\ value' = [value EXCEPT ![e] = @ + 1]
  /\ sigq' = [sigq EXCEPT ![e] =
                [f \in Fsms |-> @[f] + (IF f \in waiters[e] THEN 1 ELSE 0)]]
  /\ UNCHANGED <<object, timed, family, waiters, tasks, control>>

(* silc_fsm_event_signal, from a state function or a callback in the system *)
(* thread p: every waiter's timeout is cancelled and a silc_fsm_signal task *)
(* added for it.                                                            *)
EventSignal(p, e) ==
  LET armed == {f \in waiters[e] : event[f] # NoEvent}
  IN /\ CallbackIn(p)
     /\ value[e] < MaxValue
     /\ \A f \in waiters[e] : sigq[e][f] < MaxPending
     /\ value' = [value EXCEPT ![e] = @ + 1]
     /\ sigq' = [sigq EXCEPT ![e] =
                   [f \in Fsms |-> @[f] + (IF f \in waiters[e] THEN 1 ELSE 0)]]
     /\ tmoq' = [f \in Fsms |-> IF f \in armed THEN 0 ELSE tmoq[f]]
     /\ event' = [f \in Fsms |-> IF f \in armed THEN NoEvent ELSE event[f]]
     /\ UNCHANGED <<object, timedout, family, waiters, tasks, control>>

(* silc_fsm_signal of a signal that was acquired in the meantime. *)
SignalDropped(f, e) ==
  /\ sigq[e][f] > 0 /\ Dispatching(ProcOf(f))
  /\ value[e] = 0 \/ f \notin waiters[e]
  /\ sigq' = [sigq EXCEPT ![e][f] = @ - 1]
  /\ UNCHANGED <<object, timed, family, value, waiters, tasks, control>>

(* silc_fsm_signal of a waiter of a signalled event: silc_fsm_continue_sync. *)
SignalDelivered(f, e) ==
  /\ sigq[e][f] > 0 /\ Dispatching(ProcOf(f))
  /\ value[e] > 0 /\ f \in waiters[e]
  /\ sigq' = [sigq EXCEPT ![e][f] = @ - 1]
  /\ CancelLater(f, 0)
  /\ Enter(f)
  /\ UNCHANGED <<started, finished, synchronous, nextState, timed, family,
                 value, waiters, finq, on>>

-----------------------------------------------------------------------------
(* Finishing *)

(* Mutant: f waits for a thread that has terminated already. *)
ThreadWaitGone(f, t) ==
  /\ Free(f) /\ f # t /\ joiner[t] = NoFsm
  /\ joiner' = [joiner EXCEPT ![t] = f]
  /\ pc' = [pc EXCEPT ![f] = "joining"]
  /\ UNCHANGED <<object, real, threads, on, stack, timed, events, tasks>>

(* SILC_FSM_THREAD_WAIT: f allocates the event of the thread t, which is its *)
(* caller's to know not to be gone (nothing is tested) ...                   *)
ThreadWait(f, t) ==
  /\ Free(f) /\ f # t
  /\ pc[t] # "none" /\ joiner[t] = NoFsm
  /\ joiner' = [joiner EXCEPT ![t] = f]
  /\ pc' = [pc EXCEPT ![f] = "joining"]
  /\ UNCHANGED <<object, real, threads, on, stack, timed, events, tasks>>

(* ... and waits for it, under the lock that it takes only now.  A finish of *)
(* t that came in between has freed the event: f waits on it all the same.   *)
ThreadWaitBlocks(f) ==
  /\ pc[f] = "joining"
  /\ stack[ProcOf(f)] # <<>> /\ Head(stack[ProcOf(f)]) = f
  /\ ReturnWait(f, "join")
  /\ UNCHANGED <<started, finished, nextLater, nextState, timed, family, on,
                 events, tasks>>

(* What silc_fsm_finish_fsm does of f: the joiner on the list of the event's *)
(* waiters is continued (silc_fsm_thread_termination_signal), the event is   *)
(* freed and the thread leaves its machine.                                  *)
(* `swept' are the FSMs whose silc_fsm_run tasks the step has just deleted.  *)
FinishFsm(f, swept) ==
  LET W == {g \in {joiner[f]} \ {NoFsm} : pc[g] = "join"}
      later(g) == g \in W /\ nextLater[g]
  IN /\ nextState' = [nextState EXCEPT ![f] = FALSE]
     /\ threads' = IF f = Machine THEN threads ELSE threads - 1
     /\ joiner' = [joiner EXCEPT ![f] = NoFsm]
     /\ runq' = [g \in Fsms |-> (IF g \in swept \/ later(g) THEN 0 ELSE runq[g])
                                + (IF g \in W THEN 1 ELSE 0)]
     /\ lateq' = [g \in Fsms |->
                    IF g \in swept \/ later(g) THEN 0 ELSE lateq[g]]
     /\ nextLater' = [g \in Fsms |-> nextLater[g] /\ g \notin swept \cup W]
     /\ pc' = [g \in Fsms |-> CASE g = f -> "none"
                                [] g # f /\ g \in W -> "ready"
                                [] OTHER -> pc[g]]

(* SILC_FSM_FINISH may be returned: a machine's threads must be gone. *)
MayFinish(f) == Free(f) /\ (f = Machine => threads = 0)

(* silc_fsm_finish of an FSM that was last started or suspended through the  *)
(* scheduler: silc_fsm_finish_fsm is a task, in the machine's system thread. *)
Finish(f) ==
  /\ MayFinish(f) /\ (real[f] \/ ~synchronous[f])
  /\ started' = [started EXCEPT ![f] = FALSE]
  /\ finished' = [finished EXCEPT ![f] = TRUE]
  /\ runq' = [runq EXCEPT ![f] = 0]
  /\ lateq' = [lateq EXCEPT ![f] = 0]
  /\ nextLater' = [nextLater EXCEPT ![f] = FALSE]
  /\ finq' = [finq EXCEPT ![f] = IF real[f] THEN @ ELSE @ + 1]
  /\ pc' = [pc EXCEPT ![f] = IF real[f] THEN "exit" ELSE "fin"]
  /\ Pop(f)
  /\ UNCHANGED <<synchronous, nextState, on, timed, family, events>>

(* The same when the FSM has run synchronously since silc_fsm_start_sync. *)
FinishSync(f) ==
  /\ MayFinish(f) /\ ~real[f] /\ synchronous[f]
  /\ started' = [started EXCEPT ![f] = FALSE]
  /\ finished' = [finished EXCEPT ![f] = TRUE]
  /\ FinishFsm(f, {f})
  /\ Pop(f)
  /\ UNCHANGED <<synchronous, real, finq, on, timed, events>>

(* The end of silc_fsm_thread: silc_schedule_uninit has dispatched what was *)
(* left in the real thread's scheduler.                                     *)
RealThreadExits(t) ==
  /\ pc[t] = "exit" /\ Dispatching(t)
  /\ tmoq[t] = 0 /\ \A e \in Events : sigq[e][t] = 0
  /\ pc' = [pc EXCEPT ![t] = "fin"]
  /\ finq' = [finq EXCEPT ![t] = @ + 1]
  /\ UNCHANGED <<runq, lateq, on, stack, object, timed, family, events>>

(* The scheduler of the machine dispatches silc_fsm_finish_fsm of f. *)
DispatchFinish(f) ==
  /\ finq[f] > 0 /\ Dispatching(Machine)
  /\ finq' = [finq EXCEPT ![f] = @ - 1]
  /\ FinishFsm(f, {})
  /\ UNCHANGED <<started, finished, synchronous, real, on, stack, timed,
                 events>>

-----------------------------------------------------------------------------
Init ==
  /\ started = [f \in Fsms |-> f = Machine]
  /\ finished = [f \in Fsms |-> FALSE]
  /\ synchronous = [f \in Fsms |-> FALSE]
  /\ nextLater = [f \in Fsms |-> FALSE]
  /\ nextState = [f \in Fsms |-> f = Machine]
  /\ timedout = [f \in Fsms |-> FALSE]
  /\ event = [f \in Fsms |-> NoEvent]
  /\ real = [f \in Fsms |-> FALSE]
  /\ threads = 0
  /\ joiner = [f \in Fsms |-> NoFsm]
  /\ value = [e \in Events |-> 0]
  /\ waiters = [e \in Events |-> {}]
  /\ runq = [f \in Fsms |-> IF f = Machine THEN 1 ELSE 0]
  /\ lateq = [f \in Fsms |-> 0]
  /\ tmoq = [f \in Fsms |-> 0]
  /\ sigq = [e \in Events |-> [f \in Fsms |-> 0]]
  /\ finq = [f \in Fsms |-> 0]
  /\ pc = [f \in Fsms |-> IF f = Machine THEN "ready" ELSE "none"]
  /\ on = [f \in Fsms |-> NoEvent]
  /\ stack = [f \in Fsms |-> <<>>]

(* What the executing state function of f may do. *)
StateFunction(f) ==
  \/ \E t \in Threads : ThreadInit(f, t) \/ Start(f, t) \/ StartSync(f, t)
                       \/ ThreadWait(f, t)
  \/ Yield(f) \/ AsyncCall(f) \/ NextLater(f)
  \/ Finish(f) \/ FinishSync(f)
  \/ \E e \in Events : \/ EventAcquired(f, e) \/ EventBlocks(f, e)
                       \/ TimedWaitExpired(f, e) \/ TimedWaitAcquired(f, e)
                       \/ TimedWaitBlocks(f, e)
  \/ TimedWaitArms(f) \/ ThreadWaitBlocks(f)

(* The tasks a scheduler may dispatch for f. *)
Dispatch(f) ==
  \/ DispatchRun(f) \/ DispatchLater(f) \/ DispatchFinish(f)
  \/ EventTimedOut(f)
  \/ \E e \in Events : SignalDropped(f, e) \/ SignalDelivered(f, e)

(* What happens to f from outside: its asynchronous call completes, its real *)
(* thread starts or exits.                                                   *)
Environment(f) ==
  \/ Complete(f) \/ CompleteSync(f)
  \/ RealThreadStarts(f) \/ RealThreadFails(f) \/ RealThreadExits(f)

Next ==
  \/ \E f \in Fsms : StateFunction(f) \/ Dispatch(f) \/ Environment(f)
  \/ \E p \in Fsms, e \in Events : EventSignal(p, e)

Spec == Init /\ [][Next]_vars

-----------------------------------------------------------------------------
(* Safety *)

StackOK == stack \in [Fsms -> Seq(Fsms)]

TypeOK ==
  /\ StackOK
  /\ started \in [Fsms -> BOOLEAN] /\ finished \in [Fsms -> BOOLEAN]
  /\ synchronous \in [Fsms -> BOOLEAN] /\ nextLater \in [Fsms -> BOOLEAN]
  /\ nextState \in [Fsms -> BOOLEAN] /\ timedout \in [Fsms -> BOOLEAN]
  /\ event \in [Fsms -> Events \cup {NoEvent}]
  /\ real \in [Fsms -> BOOLEAN]
  /\ threads \in Int
  /\ joiner \in [Fsms -> Fsms \cup {NoFsm}]
  /\ value \in [Events -> 0..MaxValue] /\ waiters \in [Events -> SUBSET Fsms]
  /\ sigq \in [Events -> [Fsms -> 0..MaxPending]]
  /\ runq \in [Fsms -> Nat] /\ lateq \in [Fsms -> Nat]
  /\ tmoq \in [Fsms -> Nat] /\ finq \in [Fsms -> Nat]
  /\ pc \in [Fsms -> Places] /\ on \in [Fsms -> Events \cup {NoEvent}]

(* No waiter sleeps through a signal: while an event's counter is positive,  *)
(* every waiter on its list has a silc_fsm_signal task on its way or is      *)
(* already running again.  silc_fsm_event_wait, silc_fsm_event_signal and    *)
(* silc_fsm_signal together have to ensure it, with stale signal tasks,      *)
(* several waiters and real threads.                                         *)
NoLostWakeup ==
  \A e \in Events : \A f \in waiters[e] :
    value[e] > 0 => sigq[e][f] > 0 \/ pc[f] = "run"

(* A waiter that runs again finds its event still signalled: the counter is *)
(* not taken by another waiter while it is on the list.  Otherwise           *)
(* silc_fsm_event_wait would add it to the list twice, which its debug loop  *)
(* asserts never happens.                                                    *)
ReentryAcquires ==
  \A e \in Events : \A f \in waiters[e] : pc[f] = "run" => value[e] > 0

(* An FSM has the activation its control state calls for and no other: one   *)
(* silc_fsm_run task when it is to run, one timer when it sleeps, one finish *)
(* task when it is finishing, none while it runs, waits or after it is gone; *)
(* and whoever is activated has a state function to run.  A second           *)
(* activation would re-enter a running state function or call a NULL state.  *)
OneActivation ==
  \A f \in Fsms :
    /\ runq[f] = IF pc[f] = "ready" THEN 1 ELSE 0
    /\ lateq[f] = IF pc[f] = "later" THEN 1 ELSE 0
    /\ pc[f] = "later" => nextLater[f]
    /\ finq[f] = IF pc[f] = "fin" THEN 1 ELSE 0
    /\ nextState[f] <=> pc[f] \notin {"none", "new"}

(* A pending silc_fsm_event_timedout belongs to a wait that is still going   *)
(* on, so that it dereferences a valid event and wakes an FSM that waits.    *)
NoStaleTimeout ==
  \A f \in Fsms : tmoq[f] > 0 =>
    /\ pc[f] = "twait" /\ event[f] = on[f] /\ event[f] # NoEvent
    /\ f \in waiters[on[f]]

(* The machine's thread counter is the number of its threads that are not    *)
(* gone, so that assert(threads == 0) in silc_fsm_finish_fsm holds when the  *)
(* machine is destroyed, through whatever mix of synchronous, scheduled and  *)
(* real-thread terminations it got there.                                    *)
ThreadsCounted ==
  /\ threads = Cardinality({t \in Threads : pc[t] # "none"})
  /\ pc[Machine] \in {"exit", "fin", "none"} => threads = 0

(* Whoever waits in SILC_FSM_THREAD_WAIT waits for a thread that is not gone *)
(* yet and whose termination will find it: the wait's two steps against the  *)
(* finishes of real and other threads, for a joiner that does not itself run *)
(* in a real thread.                                                         *)
JoinerFindsThread ==
  \A f \in Fsms : pc[f] = "join" /\ ~real[f] =>
    \E t \in Threads : joiner[t] = f /\ pc[t] # "none"

(* The same for every joiner, as silcfsm.h promises of SILC_FSM_THREAD_WAIT: *)
(* "The machine or thread will continue once the waited thread has           *)
(* terminated."                                                              *)
EveryJoinerFindsThread ==
  \A f \in Fsms : pc[f] = "join" =>
    \E t \in Threads : joiner[t] = f /\ pc[t] # "none"

-----------------------------------------------------------------------------
(* The inductive strengthening of the invariants above (the proofs are in    *)
(* SilcFsm_proofs).                                                          *)

(* Real threads and timed waits are not used together: with both, a signal   *)
(* between TimedWaitBlocks and TimedWaitArms leaves the timer behind, and    *)
(* NoStaleTimeout does not hold.                                             *)
NoTimedRace == Real = {} \/ Timed = {}

(* Who is on a list of waiters is waiting there, and the other way round;    *)
(* a timeout takes its FSM off the list.                                     *)
WaitersWait ==
  /\ \A e \in Events : \A f \in waiters[e] :
       on[f] = e /\ pc[f] \in {"wait", "twait", "arming", "run"}
  /\ \A f \in Fsms : pc[f] \in {"wait", "twait", "arming"} =>
       on[f] \in Events /\ f \in waiters[on[f]]
  /\ \A f \in Fsms : timedout[f] =>
       f \in Timed /\ \A e \in Events : f \notin waiters[e]

(* A timed wait has its timer exactly until its event is signalled. *)
TimersMatch ==
  \A f \in Fsms :
    /\ pc[f] \in {"arming", "twait"} => f \in Timed
    /\ tmoq[f] = IF event[f] = NoEvent THEN 0 ELSE 1
    /\ event[f] # NoEvent =>
         pc[f] = "twait" /\ on[f] = event[f] /\ value[on[f]] = 0

(* Between becoming a waiter and adding its timer, an FSM keeps its system   *)
(* thread to itself, and nobody else signals.                                *)
ArmingAlone ==
  /\ Real = {} => \A f \in Fsms : ~real[f]
  /\ \A f \in Fsms : pc[f] = "arming" =>
       /\ value[on[f]] = 0
       /\ stack[Machine] # <<>> /\ Head(stack[Machine]) = f

(* Between its two steps, a joiner without a real thread keeps the machine's *)
(* system thread, in which every thread is finished, to itself.              *)
JoiningAlone ==
  /\ ~real[Machine]
  /\ \A f \in Fsms : pc[f] = "joining" /\ ~real[f] =>
       stack[Machine] # <<>> /\ Head(stack[Machine]) = f

(* An FSM joins one thread at a time, and only a thread that is not gone. *)
JoinersJoin ==
  /\ joiner[Machine] = NoFsm
  /\ \A t \in Threads : joiner[t] # NoFsm =>
       pc[joiner[t]] \in {"joining", "join"} /\ pc[t] # "none"
  /\ \A t, u \in Threads : joiner[t] = joiner[u] /\ t # u => joiner[t] = NoFsm
  /\ \A f \in Fsms : pc[f] \in {"joining", "join"} /\ ~real[f] =>
       \E t \in Threads : joiner[t] = f

SafetyInv ==
  /\ TypeOK /\ OneActivation /\ WaitersWait
  /\ NoLostWakeup /\ ReentryAcquires
  /\ TimersMatch /\ ArmingAlone /\ JoiningAlone /\ JoinersJoin

-----------------------------------------------------------------------------
(* Liveness.  Schedulers dispatch every task that stays pending, and state   *)
(* functions return: an executing FSM that waits again for its event or has  *)
(* nothing to wait for gets to the end of its state.                         *)

Returns(f) ==
  \/ Yield(f) \/ AsyncCall(f) \/ NextLater(f) \/ Finish(f) \/ FinishSync(f)
  \/ ThreadWaitBlocks(f)

WaitsAgain(f) ==
  \/ \E e \in Events : \/ EventAcquired(f, e) \/ TimedWaitExpired(f, e)
                       \/ TimedWaitAcquired(f, e)
  \/ TimedWaitArms(f)

Fairness ==
  \A f \in Fsms :
    /\ SF_vars(Returns(f)) /\ SF_vars(on[f] # NoEvent /\ WaitsAgain(f))
    /\ SF_vars(DispatchRun(f)) /\ WF_vars(DispatchFinish(f))
    /\ \A e \in Events : SF_vars(SignalDelivered(f, e))

FairSpec == Spec /\ Fairness

(* Every waiter of a signalled event acquires it: it gets off the list.      *)
SignalledWaiterRuns ==
  \A f \in Fsms, e \in Events :
    (f \in waiters[e] /\ value[e] > 0) ~> (f \notin waiters[e])
=============================================================================
