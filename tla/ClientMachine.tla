--------------------------- MODULE ClientMachine ---------------------------
(***************************************************************************)
(* The client machine of lib/silcclient/client.c, client->internal->fsm:   *)
(* it tells the application that the library runs, hears of connections    *)
(* that finish, and stops the library once none is left.                   *)
(*                                                                         *)
(* It waits in st_run for client->internal->wait_event, whose value counts *)
(* the signals, while three flags say what they were for.  All of it runs  *)
(* in the application's thread: also the end of a connection whose own     *)
(* machine runs in a real thread reaches it through the main scheduler.    *)
(* The application calls the library between two tasks of the scheduler    *)
(* and from inside the callback it is given.  A connection is what         *)
(* ConnectionLifecycle promises, seen from the client: it is added,        *)
(* and after it is gone its thread finishes.                               *)
(***************************************************************************)
EXTENDS Integers, Sequences, FiniteSets

CONSTANTS
  Conns,     \* the connections the application makes, each once
  MaxValue   \* bound on the value of wait_event and its signal tasks

ASSUME ConnsAssumption == IsFiniteSet(Conns)
ASSUME ValueAssumption == MaxValue \in Nat

VARIABLES
  run_callback, connection_closed, stop,  \* the flags of client->internal
  conns,     \* client->internal->conns
  phase,     \* of every connection: "none", "active" or "finished"
  running,   \* whose callback client->internal->running is
  state,     \* of the machine: "run", "stop" or "finished"
  waiting,   \* whether it is on the list of waiters of wait_event
  value,     \* value of wait_event
  signals,   \* silc_fsm_signal tasks in the scheduler
  cpu,       \* what runs now: "idle", "client", or its "callback"
  calls      \* callbacks called so far

machine == <<state, waiting>>
flags == <<run_callback, connection_closed, stop>>
vars == <<flags, conns, phase, running, machine, value, signals, cpu, calls>>

(* SILC_FSM_EVENT_SIGNAL(&client->internal->wait_event) *)
Signal ==
  /\ value' = value + 1
  /\ signals' = IF waiting THEN signals + 1 ELSE signals

-----------------------------------------------------------------------------
(* silc_client_init, the part after the tables: the machine is started and *)
(* waits, and the first event is that the library runs.                    *)
Init ==
  /\ run_callback = TRUE /\ connection_closed = FALSE /\ stop = FALSE
  /\ conns = 0
  /\ phase = [c \in Conns |-> "none"]
  /\ running = "running"
  /\ state = "run" /\ waiting = TRUE
  /\ value = 1
  /\ signals = 1
  /\ cpu = "idle"
  /\ calls = <<>>

(* silc_fsm_signal: dropped when the machine has taken the event already. *)
DeliverSignal ==
  /\ cpu = "idle" /\ signals > 0
  /\ state = "run"
  /\ signals' = signals - 1
  /\ cpu' = IF waiting /\ value > 0 THEN "client" ELSE "idle"
  /\ UNCHANGED <<flags, conns, phase, running, machine, value, calls>>

(* silc_client_st_run: SILC_FSM_EVENT_WAIT with nothing signalled *)
AwaitEvent ==
  /\ cpu = "client" /\ state = "run" /\ value = 0
  /\ waiting' = TRUE
  /\ cpu' = "idle"
  /\ UNCHANGED <<state, flags, conns, phase, running, value, signals, calls>>

(* Mutant: st_run does not wait for an event. *)
EventAlways == cpu = "client" /\ state = "run"

(* One signal is taken off the value; the first flag that is set decides. *)
EventTaken == cpu = "client" /\ state = "run" /\ value > 0

EventRunning ==
  /\ EventTaken /\ run_callback
  /\ run_callback' = FALSE
  /\ waiting' = FALSE
  /\ value' = value - 1
  /\ calls' = Append(calls, running)
  /\ cpu' = "callback"
  /\ UNCHANGED <<state, connection_closed, stop, conns, phase, running, signals>>

(* Mutant: the client is not signalled when the last connection closes. *)
EventConnectionClosedOnly ==
  /\ EventTaken /\ ~run_callback /\ connection_closed
  /\ connection_closed' = FALSE
  /\ waiting' = FALSE
  /\ value' = value - 1
  /\ UNCHANGED <<state, run_callback, stop, conns, phase, running, signals, cpu,
                 calls>>

EventConnectionClosed ==
  /\ EventTaken /\ ~run_callback /\ connection_closed
  /\ connection_closed' = FALSE
  /\ waiting' = FALSE
  /\ value' = IF conns = 0 /\ stop THEN value ELSE value - 1
  /\ UNCHANGED <<state, run_callback, stop, conns, phase, running, signals, cpu,
                 calls>>

(* Mutant: connections are not waited for. *)
EventStopAtOnce ==
  /\ EventTaken /\ ~run_callback /\ ~connection_closed /\ stop
  /\ state' = "stop" /\ waiting' = FALSE
  /\ value' = value - 1
  /\ UNCHANGED <<flags, conns, phase, running, signals, cpu, calls>>

(* With connections left the event is spent, and st_run goes on waiting. *)
EventStop ==
  /\ EventTaken /\ ~run_callback /\ ~connection_closed /\ stop
  /\ state' = IF conns = 0 THEN "stop" ELSE "run"
  /\ waiting' = FALSE
  /\ value' = value - 1
  /\ UNCHANGED <<flags, conns, phase, running, signals, cpu, calls>>

NoFlag == ~run_callback /\ ~connection_closed /\ ~stop
EventUnknown ==
  /\ EventTaken /\ NoFlag
  /\ waiting' = FALSE
  /\ value' = value - 1
  /\ UNCHANGED <<state, flags, conns, phase, running, signals, cpu, calls>>

(* Mutant: the machine does not finish. *)
StStopAgain ==
  /\ cpu = "client" /\ state = "stop"
  /\ calls' = Append(calls, running)
  /\ UNCHANGED <<flags, conns, phase, running, machine, value, signals, cpu>>

(* silc_client_st_stop: the scheduler is stopped, the application told,    *)
(* and the machine finished.                                               *)
StStop ==
  /\ cpu = "client" /\ state = "stop"
  /\ state' = "finished"
  /\ calls' = Append(calls, running)
  /\ cpu' = "idle"
  /\ UNCHANGED <<waiting, flags, conns, phase, running, value, signals>>

CallbackReturns ==
  /\ cpu = "callback"
  /\ cpu' = "client"
  /\ UNCHANGED <<flags, conns, phase, running, machine, value, signals, calls>>

-----------------------------------------------------------------------------
(* The application, between two tasks or inside its callback.  It uses the *)
(* library only after the running callback (silcclient.h); of the calls    *)
(* below the connecting ones check it, silc_client_stop trusts it.         *)

Application == /\ cpu \in {"idle", "callback"} /\ state = "run"
               /\ ~run_callback

(* silc_client_connect_to_server, silc_client_connect_to_client and        *)
(* silc_client_key_exchange, with silc_client_add_connection               *)
Connect(c) ==
  /\ Application /\ phase[c] = "none"
  /\ phase' = [phase EXCEPT ![c] = "active"]
  /\ conns' = conns + 1
  /\ UNCHANGED <<flags, running, machine, value, signals, cpu, calls>>

(* silc_client_stop: the callback of silc_client_init is replaced. *)
Stop ==
  /\ Application /\ value < MaxValue /\ signals < MaxValue
  /\ running' = "stopped"
  /\ stop' = TRUE
  /\ Signal
  /\ UNCHANGED <<run_callback, connection_closed, conns, phase, machine, cpu,
                 calls>>

-----------------------------------------------------------------------------
(* silc_client_connection_finished, the destructor of the thread a         *)
(* connection ran in                                                       *)
ConnectionFinished(c) ==
  /\ cpu = "idle" /\ phase[c] = "active"
  /\ phase' = [phase EXCEPT ![c] = "finished"]
  /\ conns' = conns - 1
  /\ connection_closed' = TRUE
  /\ Signal
  /\ UNCHANGED <<run_callback, stop, running, machine, cpu, calls>>

Machine == \/ DeliverSignal \/ AwaitEvent \/ EventRunning
           \/ EventConnectionClosed \/ EventStop \/ EventUnknown \/ StStop

Next == \/ Machine \/ CallbackReturns \/ Stop
        \/ \E c \in Conns : Connect(c) \/ ConnectionFinished(c)

Spec == Init /\ [][Next]_vars

(* The scheduler runs what is ready, callbacks return, and an application  *)
(* that stops the library closes its connections, which then finish: that  *)
(* is a task of the scheduler too, which no other task keeps from running. *)
FairSpec == /\ Spec
            /\ WF_vars(Machine \/ CallbackReturns)
            /\ \A c \in Conns : SF_vars(stop /\ ConnectionFinished(c))

-----------------------------------------------------------------------------
(* Properties *)

Active == {c \in Conns : phase[c] = "active"}

TypeOK ==
  /\ run_callback \in BOOLEAN /\ connection_closed \in BOOLEAN
  /\ stop \in BOOLEAN
  /\ conns \in Nat
  /\ phase \in [Conns -> {"none", "active", "finished"}]
  /\ running \in {"running", "stopped"}
  /\ state \in {"run", "stop", "finished"} /\ waiting \in BOOLEAN
  /\ value \in Nat /\ signals \in Nat
  /\ cpu \in {"idle", "client", "callback"}
  /\ calls \in Seq({"running", "stopped"})

(* "The `stopped' won't be called before all connections have finished"    *)
(* (silcclient.h, silc_client_stop): the library is never stopped while a  *)
(* connection is active, whatever was signalled meanwhile and in whatever  *)
(* order st_run has taken it.                                              *)
StopWaits == state # "run" => Active = {}

(* A stop is not forgotten: when the last connection has finished and the  *)
(* machine is about to sleep, an event that will make it stop is signalled *)
(* and the task that wakes it up is in the scheduler.  The stop event      *)
(* itself may have been spent long before, when there were connections.    *)
StopNotForgotten ==
  stop /\ Active = {} /\ state = "run" /\ cpu = "idle"
    => value > 0 /\ signals > 0

(* A library that is stopped does stop. *)
StopCompletes == stop ~> state = "finished"

(* "The `stopped' will be called once the client and all connections have  *)
(* finished" (silcclient.h): the one field that holds both callbacks never *)
(* gives that of silc_client_stop the call meant for that of               *)
(* silc_client_init, and after it nothing is called.                       *)
StoppedLast ==
  \A i \in DOMAIN calls :
    calls[i] = "stopped" => i = Len(calls) /\ state = "finished"

-----------------------------------------------------------------------------
(* The inductive strengthening of the invariants above (the proofs are in  *)
(* ClientMachine_proofs).                                                  *)

(* The counter is the number of active connections. *)
ConnsCounted == conns = Cardinality(Active)

(* Until the running callback is called nothing has happened. *)
NothingBeforeRunning ==
  run_callback => /\ Active = {} /\ ~stop /\ state = "run"
                  /\ running = "running"

(* The machine sleeps as a waiter, with a signal task if it has an event,  *)
(* and is in its stop state only while it runs.                            *)
SleepsWaiting ==
  /\ cpu = "idle" => state # "stop"
  /\ cpu = "callback" => state = "run"
  /\ cpu = "idle" /\ state = "run" =>
       waiting /\ (value > 0 => signals > 0)

(* Awake or not, a machine that may stop has an event left to stop for. *)
StopPending == stop /\ Active = {} /\ state = "run" => value > 0

(* No call has been one of the stopped callback before the machine ends. *)
OnlyRunning ==
  state # "finished" => \A i \in DOMAIN calls : calls[i] = "running"

StopInv ==
  /\ TypeOK /\ ConnsCounted /\ NothingBeforeRunning /\ SleepsWaiting
  /\ StopPending /\ StopWaits /\ OnlyRunning /\ StoppedLast
=============================================================================
