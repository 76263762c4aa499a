-------------------------- MODULE ClientConnection --------------------------
(***************************************************************************)
(* One connection of the client library: lib/silcclient/client.c (the      *)
(* connection machine), client_connect.c (connecting, authenticating,      *)
(* rekeying) and client_register.c (registering, resuming).                *)
(*                                                                         *)
(* A connection has a machine, conn->internal->fsm, that waits in st_run   *)
(* for conn->internal->wait_event, and one event thread, a single          *)
(* SilcFSMThreadStruct that is initialised again for every connect, key    *)
(* exchange and rekey.  Everything runs in one system thread: a task of    *)
(* the scheduler runs to its end before the next one starts.  `cpu' says   *)
(* whose state function runs now, `after' what its caller does when the    *)
(* event thread returns.  Each state function is one action.               *)
(*                                                                         *)
(* `queue' holds the tasks added with a zero timeout, which the scheduler  *)
(* dispatches in the order they were added:                                *)
(*   start   silc_fsm_run of the thread that starts the machine            *)
(*   signal  silc_fsm_signal of wait_event                                 *)
(*   conn    silc_fsm_run of the machine      event   of the event thread  *)
(*   fin     silc_fsm_finish_fsm of the machine                            *)
(*   evfin   the same of the event thread     cmdfin  of a command thread  *)
(*   thrfin  the same of the thread that started the machine               *)
(*   poll    the end of a round of silc_schedule_iterate: silc_select      *)
(* A round runs every task that was queued before the select; packets and  *)
(* what they complete come at the select, longer timers and calls of the   *)
(* application between any two tasks.                                      *)
(*                                                                         *)
(* Nothing in the code keeps a wakeup from an event thread that has        *)
(* finished, or a rekey from one that is at work.  All of them happen here *)
(* too; `late', a history variable that no action reads, records the first *)
(* of them, and the properties say what is right until then.  A behaviour  *)
(* ends where the thread is misused (Broken): what a debug build does then *)
(* is abort, and a release build is left with a thread count that is wrong. *)
(***************************************************************************)
EXTENDS Integers, FiniteSets, Sequences, SequencesExt

CONSTANTS
  Params,       \* the parameter records a connection may be created with
  MaxValue,     \* bound on the value and the queued signals of wait_event,
                \* for each of the records
  MaxThreads    \* bound on the threads the application starts commands in

(* What the library is told of the connection: how it is started, whether  *)
(* the remote is a server, and the fields of SilcClientConnectionParams    *)
(* that steer the event thread.  `channels' is the number of channels in   *)
(* the detachment data, when `resume' says that there is some.             *)
ParamSet == [start: {"connect", "key_exchange"}, server: BOOLEAN,
             udp: BOOLEAN, no_authentication: BOOLEAN, auth_set: BOOLEAN,
             timeout: BOOLEAN, resume: BOOLEAN, channels: 0..2]

ASSUME ParamsAssumption == Params \subseteq ParamSet
ASSUME LimitsAssumption ==
  MaxThreads \in Nat /\ \A p \in Params : MaxValue[p] \in Nat

(* SILC_CLIENT_RETRY_COUNT, and the commands a resumed channel is asked. *)
RetryCount == 4
CommandsPerChannel == 3

VARIABLES
  params,    \* conn->internal->params and conn->type
  conn,      \* the flags and fields of the connection
  machine,   \* conn->internal->fsm and its wait_event
  et,        \* conn->internal->event_thread
  threads,   \* fsm->u.m.threads of the machine, but for the loose ones
  queue,     \* zero timeout tasks of the connection's scheduler
  timers,    \* connect timeout and rekey timer installed
  async,     \* asynchronous operations that will call back
  cmds,      \* commands outstanding
  stream,    \* conn->stream
  resume,    \* resume->channel_count
  cpu, after,
  calls,     \* statuses given to the application's connect callback
  loose,     \* command threads, of fsm->u.m.threads too, not pending
  late       \* the first wakeup or rekey that came too late, or too soon

vars == <<params, conn, machine, et, threads, queue, timers, async, cmds,
          stream, resume, cpu, after, calls, loose, late>>

Tasks == {"start", "signal", "conn", "event", "fin", "evfin", "cmdfin",
          "thrfin", "poll"}
Statuses == {"success", "resumed", "disconnected", "error", "ke", "auth",
             "timedout"}
EventStates ==
  {"null", "connect", "set_stream", "key_exchange", "setup_udp",
   "auth_resolve", "auth_data", "auth_start", "connected", "connect_error",
   "register", "register_complete", "register_error", "resume",
   "resolve_channels", "resolve_cmodes", "resume_completed",
   "resume_error", "rekey"}

-----------------------------------------------------------------------------
(* The machinery every state function uses.                                *)

(* SILC_FSM_EVENT_SIGNAL(&conn->internal->wait_event), n times: the value  *)
(* grows, and a machine on the list of waiters is sent a signal each time. *)
Signal(n) == machine' = [machine EXCEPT !.value = @ + n]
SignalTasks(n) == IF machine.waiting THEN [i \in 1..n |-> "signal"] ELSE <<>>

(* Mutant: the flag is set and nothing is signalled. *)
CloseSignalsNone == 0

(* `if (!disconnected) { disconnected = TRUE; signal }', with which every  *)
(* part of the library asks for the connection to be closed.               *)
CloseSignals == IF conn.disconnected THEN 0 ELSE 1
CloseTasks == SignalTasks(CloseSignals)

(* Mutant: the tasks that would run the thread are kept. *)
WithRuns(q) == q

(* silc_fsm_continue: a next_later timeout is cancelled, with all other    *)
(* tasks that would run the thread, and a run is queued.                   *)
WithoutRuns(q) ==
  LET kept[i \in 0..Len(q)] ==
        IF i = 0 THEN <<>>
        ELSE kept[i - 1] \o (IF q[i] = "event" THEN <<>> ELSE <<q[i]>>)
  IN kept[Len(q)]
CancelRuns(q) == IF et.later THEN WithoutRuns(q) ELSE q
Cancelled == [et EXCEPT !.later = FALSE, !.timer = @ /\ ~et.later]
Continue(t, q) ==
  /\ et' = t
  /\ queue' = Append(CancelRuns(q), "event")

(* silc_fsm_continue_sync: the thread runs inside its caller, which then   *)
(* does `then'.                                                            *)
ContinueSync(t, then) ==
  /\ et' = t
  /\ queue' = CancelRuns(queue)
  /\ cpu' = "event"
  /\ after' = then

(* The event thread returns to whoever ran it: the scheduler, st_run that  *)
(* has started it and continues, or st_close that yields.                  *)
Return(q) ==
  /\ after' = "idle"
  /\ cpu' = IF after = "continue" THEN "conn" ELSE "idle"
  /\ queue' = IF after = "yield" THEN Append(q, "conn") ELSE q

(* SILC_FSM_CONTINUE, SILC_FSM_WAIT, silc_fsm_next_later with WAIT, and    *)
(* SILC_FSM_YIELD of the event thread, with its next state.                *)
GoOn(s) ==
  /\ et' = [et EXCEPT !.state = s]
  /\ UNCHANGED <<cpu, after, queue>>
WaitIn(s) ==
  /\ et' = [et EXCEPT !.state = s, !.sync = FALSE]
  /\ Return(queue)
WaitLater(s) ==
  /\ et' = [et EXCEPT !.state = s, !.sync = FALSE, !.later = TRUE,
                      !.timer = TRUE]
  /\ Return(queue)
YieldTo(s) ==
  /\ et' = [Cancelled EXCEPT !.state = s]
  /\ Return(Append(CancelRuns(queue), "event"))

(* SILC_FSM_FINISH and silc_fsm_finish of the event thread: the tasks that *)
(* would run it are deleted.  A thread that has never waited finishes at   *)
(* once, the others through the scheduler.  `q' is the queue and `n' the   *)
(* number of command threads the state has started before it finishes.     *)
FinishedThread ==
  [et EXCEPT !.started = FALSE, !.finished = TRUE, !.later = FALSE,
             !.timer = FALSE, !.state = IF et.sync THEN "null" ELSE @]
FinishTasks(q) ==
  IF et.sync THEN WithoutRuns(q) ELSE Append(WithoutRuns(q), "evfin")
FinishEvent(q, n) ==
  /\ et' = FinishedThread
  /\ threads' = threads + n - (IF et.sync THEN 1 ELSE 0)
  /\ Return(FinishTasks(q))

Running(s) == cpu = "event" /\ et.state = s
Idle == cpu = "idle"
Dispatch(t) == Idle /\ Head(queue) = t

(* silc_schedule_iterate, past the select with tasks queued: a new round. *)
AtSelect == Dispatch("poll")
Poll ==
  /\ AtSelect /\ Len(queue) > 1
  /\ queue' = Append(Tail(queue), "poll")
  /\ UNCHANGED <<params, conn, machine, et, threads, timers, async, cmds,
                 stream, resume, cpu, after, calls>>

(* The connection and its machine exist and may be used. *)
Up == machine.state \in {"run", "close"}

-----------------------------------------------------------------------------
(* The connection machine: client.c *)

(* silc_client_connection_st_start: the machine is started and waits in    *)
(* st_run; then the events set before it was up are signalled.             *)
Start ==
  LET Set(flag) == IF flag THEN 1 ELSE 0
      n == Set(conn.disconnected) + Set(conn.connect) + Set(conn.key_exchange)
  IN /\ Dispatch("start")
     /\ machine' = [state |-> "run", waiting |-> TRUE, value |-> n]
     /\ queue' = Tail(queue) \o [i \in 1..n |-> "signal"]
     /\ UNCHANGED <<params, conn, et, threads, timers, async, cmds, stream,
                    resume, cpu, after, calls>>

(* silc_fsm_signal: dropped when the event has been taken meanwhile. *)
DeliverSignal ==
  /\ Dispatch("signal")
  /\ queue' = Tail(queue)
  /\ cpu' = IF machine.value > 0 /\ machine.waiting THEN "conn" ELSE "idle"
  /\ UNCHANGED <<params, conn, machine, et, threads, timers, async, cmds,
                 stream, resume, after, calls>>

RunMachine ==
  /\ Dispatch("conn")
  /\ queue' = Tail(queue)
  /\ cpu' = "conn"
  /\ UNCHANGED <<params, conn, machine, et, threads, timers, async, cmds,
                 stream, resume, after, calls>>

(* silc_client_connection_st_run: SILC_FSM_EVENT_WAIT, then the first flag *)
(* that is set says which event it was.                                    *)
AwaitEvent ==
  /\ cpu = "conn" /\ machine.state = "run" /\ machine.value = 0
  /\ machine' = [machine EXCEPT !.waiting = TRUE]
  /\ cpu' = "idle"
  /\ UNCHANGED <<params, conn, et, threads, queue, timers, async, cmds,
                 stream, resume, after, calls>>

EventTaken ==
  /\ cpu = "conn" /\ machine.state = "run" /\ machine.value > 0
  /\ machine' = [machine EXCEPT !.waiting = FALSE, !.value = @ - 1,
                                !.state = IF conn.disconnected
                                            THEN "close" ELSE "run"]

EventDisconnected ==
  /\ EventTaken /\ conn.disconnected
  /\ queue' = Append(queue, "conn")
  /\ cpu' = "idle"
  /\ UNCHANGED <<params, conn, et, threads, timers, async, cmds, stream,
                 resume, after, calls>>

(* silc_fsm_thread_init and silc_fsm_start_sync of the event thread. *)
StartEvent(s) ==
  /\ et' = [et EXCEPT !.state = s, !.started = TRUE, !.finished = FALSE,
                      !.sync = TRUE]
  /\ threads' = threads + 1
  /\ cpu' = "event"
  /\ after' = "continue"
  /\ UNCHANGED <<params, queue, timers, async, cmds, stream, resume, calls>>

EventConnect ==
  /\ EventTaken /\ ~conn.disconnected /\ conn.connect
  /\ conn' = [conn EXCEPT !.connect = FALSE]
  /\ StartEvent("connect")

EventKeyExchange ==
  /\ EventTaken /\ ~conn.disconnected /\ ~conn.connect /\ conn.key_exchange
  /\ conn' = [conn EXCEPT !.key_exchange = FALSE]
  /\ StartEvent("set_stream")

EventRekey ==
  /\ EventTaken /\ ~conn.disconnected /\ ~conn.connect /\ ~conn.key_exchange
  /\ conn.rekeying
  /\ conn' = [conn EXCEPT !.rekeying = FALSE]
  /\ StartEvent("rekey")

(* The end of st_run, where no flag says what was signalled. *)
NoFlag == ~conn.disconnected /\ ~conn.connect /\ ~conn.key_exchange
            /\ ~conn.rekeying
EventUnknown ==
  /\ EventTaken /\ NoFlag
  /\ UNCHANGED <<params, conn, et, threads, queue, timers, async, cmds,
                 stream, resume, cpu, after, calls>>

(* silc_client_connection_st_close with commands outstanding: each command *)
(* thread is continued into reply_timeout, which takes it off the list,    *)
(* calls its callbacks (resume_continue continues the event thread for     *)
(* those of a resume) and finishes; then the machine yields.               *)
CloseCommands ==
  /\ cpu = "conn" /\ machine.state = "close" /\ cmds.resume + cmds.other > 0
  /\ cmds' = [cmds EXCEPT !.resume = 0, !.other = 0]
  /\ et' = IF cmds.resume > 0 THEN Cancelled ELSE et
  /\ queue' = (IF cmds.resume > 0 THEN CancelRuns(queue) ELSE queue)
                \o [i \in 1..(2 * cmds.resume) |->
                      IF i % 2 = 1 THEN "event" ELSE "cmdfin"]
                \o [i \in 1..cmds.other |-> "cmdfin"]
                \o <<"conn">>
  /\ cpu' = "idle"
  /\ UNCHANGED <<params, conn, machine, threads, timers, async, stream,
                 resume, after, calls>>

(* Mutants: outstanding commands are not waited for; the operation is      *)
(* forgotten but not aborted.                                              *)
CloseReadyEarly == cpu = "conn" /\ machine.state = "close"
AbortOpForgets == conn' = [conn EXCEPT !.op = "none"] /\ UNCHANGED async

(* The rest of st_close: the operation is aborted, so that it will never   *)
(* call back, and a running event thread is made to finish first.          *)
CloseReady == /\ cpu = "conn" /\ machine.state = "close"
              /\ cmds.resume + cmds.other = 0
AbortOp ==
  /\ async' = async \ {conn.op}
  /\ conn' = [conn EXCEPT !.op = "none"]

CloseEventThread ==
  /\ CloseReady /\ et.started
  /\ AbortOp
  /\ ContinueSync(Cancelled, "yield")
  /\ UNCHANGED <<params, machine, threads, timers, cmds, stream, resume, calls>>

CloseFinish ==
  /\ CloseReady /\ ~et.started
  /\ AbortOp
  /\ calls' = IF conn.callback THEN Append(calls, conn.status) ELSE calls
  /\ stream' = IF stream = "none" THEN "none" ELSE "destroyed"
  /\ machine' = [machine EXCEPT !.state = "finished"]
  /\ queue' = Append(queue, "fin")
  /\ cpu' = "idle"
  /\ UNCHANGED <<params, et, threads, timers, cmds, resume, after>>

(* silc_fsm_finish_fsm of the machine and its destructor:                  *)
(* silc_client_del_connection deletes the connection and the tasks that    *)
(* have it as their context, and the starting thread is finished.          *)
Destroy ==
  /\ Dispatch("fin")
  /\ machine' = [machine EXCEPT !.state = "deleted"]
  /\ timers' = [connect |-> FALSE, rekey |-> FALSE]
  /\ queue' = Append(Tail(queue), "thrfin")
  /\ UNCHANGED <<params, conn, et, threads, async, cmds, stream, resume, cpu,
                 after, calls>>

(* silc_client_connection_finished: the client is told (ClientMachine). *)
Finished ==
  /\ Dispatch("thrfin")
  /\ machine' = [machine EXCEPT !.state = "gone"]
  /\ queue' = Tail(queue)
  /\ UNCHANGED <<params, conn, et, threads, timers, async, cmds, stream,
                 resume, cpu, after, calls>>

-----------------------------------------------------------------------------
(* The event thread's tasks *)

RunEvent ==
  /\ Dispatch("event")
  /\ queue' = Tail(queue)
  /\ cpu' = "event"
  /\ UNCHANGED <<params, conn, machine, et, threads, timers, async, cmds,
                 stream, resume, after, calls>>

(* The next_later timeout expires; next_later itself stays set. *)
LaterExpires ==
  /\ Idle /\ et.timer
  /\ et' = [et EXCEPT !.timer = FALSE]
  /\ cpu' = "event"
  /\ UNCHANGED <<params, conn, machine, threads, queue, timers, async, cmds,
                 stream, resume, after, calls>>

(* silc_fsm_finish_fsm of the event thread and of a command thread. *)
FinishEventThread ==
  /\ Dispatch("evfin")
  /\ et' = [et EXCEPT !.state = "null"]
  /\ threads' = threads - 1
  /\ queue' = Tail(queue)
  /\ UNCHANGED <<params, conn, machine, timers, async, cmds, stream, resume,
                 cpu, after, calls>>

FinishCommandThread ==
  /\ Dispatch("cmdfin")
  /\ threads' = threads - 1
  /\ queue' = Tail(queue)
  /\ UNCHANGED <<params, conn, machine, et, timers, async, cmds, stream,
                 resume, cpu, after, calls>>

-----------------------------------------------------------------------------
(* Connecting: the states of client_connect.c.  `params' never changes, nor *)
(* does a state of the event thread touch `machine' but to signal it.      *)

Failed(s) == conn' = [conn EXCEPT !.status = s]

(* The test of conn->internal->disconnected at the head of most states. *)
IfDisconnected(s) ==
  /\ conn.disconnected
  /\ GoOn(s)
  /\ UNCHANGED <<params, conn, machine, threads, timers, async, cmds, stream,
                 resume, calls>>

(* silc_client_st_connect.  A TCP connection is made asynchronously; a UDP *)
(* one at once, calling silc_client_connect_callback inside SILC_FSM_CALL. *)
StConnect ==
  /\ Running("connect")
  /\ timers' = [timers EXCEPT !.connect = params.timeout]
  /\ \/ /\ ~params.udp
        /\ conn' = [conn EXCEPT !.op = "tcp"]
        /\ async' = async \cup {"tcp"}
        /\ WaitIn("set_stream")
     \/ /\ params.udp
        /\ \/ conn' = [conn EXCEPT !.op = "none"] /\ GoOn("set_stream")
           \/ Failed("error") /\ GoOn("connect_error")
        /\ UNCHANGED async
  /\ UNCHANGED <<params, machine, threads, cmds, stream, resume, calls>>

(* silc_client_st_connect_set_stream *)
StSetStream ==
  /\ Running("set_stream")
  /\ \/ IfDisconnected("connect_error")
     \/ /\ ~conn.disconnected
        /\ \/ stream' = "open" /\ GoOn("key_exchange") /\ UNCHANGED conn
           \/ Failed("error") /\ GoOn("connect_error") /\ UNCHANGED stream
        /\ UNCHANGED <<params, machine, threads, timers, async, cmds, resume,
                       calls>>

(* silc_client_st_connect_key_exchange: silc_ske_initiator, unless no SKE  *)
(* can be allocated                                                        *)
StKeyExchange ==
  /\ Running("key_exchange")
  /\ \/ /\ conn' = [conn EXCEPT !.ske = TRUE, !.op = "ske"]
        /\ async' = async \cup {"ske"}
        /\ WaitIn(IF params.no_authentication THEN "connected"
                  ELSE IF params.udp THEN "setup_udp" ELSE "auth_resolve")
     \/ Failed("ke") /\ GoOn("connect_error") /\ UNCHANGED async
  /\ UNCHANGED <<params, machine, threads, timers, cmds, stream, resume, calls>>

(* silc_client_st_connect_setup_udp *)
StSetupUdp ==
  /\ Running("setup_udp")
  /\ \/ IfDisconnected("connect_error")
     \/ /\ ~conn.disconnected
        /\ \/ GoOn("auth_resolve") /\ UNCHANGED conn
           \/ Failed("error") /\ GoOn("connect_error")
        /\ UNCHANGED <<params, machine, threads, timers, async, cmds, stream,
                       resume, calls>>

(* silc_client_st_connect_auth_resolve: the method is asked for, and after *)
(* two seconds it is taken to be none.                                     *)
StAuthResolve ==
  /\ Running("auth_resolve")
  /\ \/ IfDisconnected("connect_error")
     \/ /\ ~conn.disconnected
        /\ \/ params.auth_set /\ GoOn("auth_start") /\ UNCHANGED conn
           \/ /\ ~params.auth_set
              /\ conn' = [conn EXCEPT !.auth_request = TRUE]
              /\ WaitLater("auth_data")
        /\ UNCHANGED <<params, machine, threads, timers, async, cmds, stream,
                       resume, calls>>

(* silc_client_st_connect_auth_data: the application may give its data     *)
(* inside the call to get_auth_method or some time later.                  *)
StAuthData ==
  /\ Running("auth_data")
  /\ \/ IfDisconnected("connect_error")
     \/ /\ ~conn.disconnected
        /\ conn' = [conn EXCEPT !.auth_request = FALSE]
        /\ \/ GoOn("auth_start") /\ UNCHANGED async
           \/ WaitIn("auth_start") /\ async' = async \cup {"answer"}
        /\ UNCHANGED <<params, machine, threads, timers, cmds, stream, resume,
                       calls>>

(* silc_client_st_connect_auth_start: silc_connauth_initiator, unless it   *)
(* cannot be allocated                                                     *)
StAuthStart ==
  /\ Running("auth_start")
  /\ \/ IfDisconnected("connect_error")
     \/ /\ ~conn.disconnected
        /\ \/ /\ conn' = [conn EXCEPT !.op = "auth"]
              /\ async' = async \cup {"auth"}
              /\ WaitIn("connected")
           \/ Failed("auth") /\ GoOn("connect_error") /\ UNCHANGED async
        /\ UNCHANGED <<params, machine, threads, timers, cmds, stream, resume,
                       calls>>

(* The connect callback is called with a success; the application may      *)
(* close the connection from inside it (silc_client_close_connection).     *)
(* Then the connect timeout and the operation that aborts the connecting   *)
(* go away, and the event thread finishes.                                 *)
Established(c, t, s, started) ==
  \E closes \in BOOLEAN :
    LET n == IF closes THEN CloseSignals ELSE 0
    IN /\ conn' = IF closes THEN [c EXCEPT !.cop = FALSE, !.disconnected = TRUE,
                                           !.status = "disconnected"]
                            ELSE [c EXCEPT !.cop = FALSE]
       /\ calls' = Append(calls, s)
       /\ timers' = [t EXCEPT !.connect = FALSE]
       /\ Signal(n)
       /\ FinishEvent(queue \o SignalTasks(n), started)

(* silc_client_st_connected *)
Registers == params.server /\ ~params.no_authentication
StConnected ==
  LET c == [conn EXCEPT !.ske = FALSE]
      t == [timers EXCEPT !.rekey = @ \/ params.server]
  IN /\ Running("connected")
     /\ \/ /\ conn.disconnected
           /\ conn' = c
           /\ GoOn("connect_error")
           /\ UNCHANGED <<machine, threads, timers, calls>>
        \/ /\ ~conn.disconnected /\ Registers
           /\ conn' = c
           /\ timers' = t
           /\ GoOn(IF params.resume THEN "resume" ELSE "register")
           /\ UNCHANGED <<machine, threads, calls>>
        \/ /\ ~conn.disconnected /\ ~Registers
           /\ Established(c, t, "success", 0)
     /\ UNCHANGED <<params, async, cmds, stream, resume>>

(* silc_client_st_connect_error *)
StConnectError ==
  /\ Running("connect_error")
  /\ conn' = [conn EXCEPT !.ske = FALSE, !.disconnected = TRUE]
  /\ Signal(CloseSignals)
  /\ timers' = [timers EXCEPT !.connect = FALSE]
  /\ FinishEvent(queue \o CloseTasks, 0)
  /\ UNCHANGED <<params, async, cmds, stream, resume, calls>>

(* silc_client_connect_timeout *)
ConnectTimeout ==
  /\ Idle /\ timers.connect
  /\ timers' = [timers EXCEPT !.connect = FALSE]
  /\ Failed("timedout")
  /\ ContinueSync([Cancelled EXCEPT !.state = "connect_error"], "idle")
  /\ UNCHANGED <<params, machine, threads, async, cmds, stream, resume, calls>>

-----------------------------------------------------------------------------
(* The operations the event thread waits for call back (external: the      *)
(* network, SKE and connauth).  An aborted operation calls nobody.         *)

Completes(k) == AtSelect /\ k \in async

(* silc_client_connect_callback *)
TcpCompletes ==
  /\ Completes("tcp")
  /\ async' = async \ {"tcp"}
  /\ \/ /\ conn' = [conn EXCEPT !.op = "none"]
        /\ Continue(Cancelled, queue)
     \/ /\ conn' = [conn EXCEPT !.op = "none", !.status = "error"]
        /\ Continue([Cancelled EXCEPT !.state = "connect_error"], queue)
  /\ UNCHANGED <<params, machine, threads, timers, cmds, stream, resume, cpu,
                 after, calls>>

(* silc_client_ke_completion *)
SkeCompletes ==
  /\ Completes("ske")
  /\ async' = async \ {"ske"}
  /\ \/ /\ conn' = [conn EXCEPT !.op = "none"]
        /\ ContinueSync(Cancelled, "idle")
     \/ /\ conn' = [conn EXCEPT !.op = "none", !.status = "ke"]
        /\ ContinueSync([Cancelled EXCEPT !.state = "connect_error"], "idle")
  /\ UNCHANGED <<params, machine, threads, timers, cmds, stream, resume, calls>>

(* silc_client_connect_auth_completion *)
AuthCompletes ==
  /\ Completes("auth")
  /\ async' = async \ {"auth"}
  /\ \/ /\ conn' = [conn EXCEPT !.op = "none"]
        /\ ContinueSync(Cancelled, "idle")
     \/ /\ conn' = [conn EXCEPT !.op = "none", !.status = "auth"]
        /\ ContinueSync([Cancelled EXCEPT !.state = "connect_error"], "idle")
  /\ UNCHANGED <<params, machine, threads, timers, cmds, stream, resume, calls>>

(* silc_client_connect_auth_method: the application's answer *)
AuthAnswered ==
  /\ Idle /\ "answer" \in async
  /\ async' = async \ {"answer"}
  /\ Continue(Cancelled, queue)
  /\ UNCHANGED <<params, conn, machine, threads, timers, cmds, stream, resume,
                 cpu, after, calls>>

-----------------------------------------------------------------------------
(* Registering and resuming: the states of client_register.c *)

(* silc_client_st_register: NEW_CLIENT is sent and the NEW_ID awaited. *)
StRegister ==
  /\ Running("register")
  /\ \/ GoOn("register_error") /\ UNCHANGED conn
     \/ /\ conn' = [conn EXCEPT !.registering = TRUE]
        /\ WaitLater("register_complete")
  /\ UNCHANGED <<params, machine, threads, timers, async, cmds, stream, resume,
                 calls>>

(* Mutant: one retry too many. *)
GiveUpLate == conn.retry_count > RetryCount
GiveUp == conn.retry_count >= RetryCount

(* silc_client_st_register_complete: the ID has not come and the packet is *)
(* sent again or given up, or it has and the client asks the server about  *)
(* itself and the server (IDENTIFY and INFO, and NICK of an old server).   *)
StRegisterComplete ==
  /\ Running("register_complete")
  /\ \/ IfDisconnected("register_error")
     \/ /\ ~conn.disconnected /\ ~conn.local_id
        /\ \/ /\ GiveUp
              /\ conn' = [conn EXCEPT !.registering = FALSE, !.retry_count = 0]
              /\ GoOn("register_error")
           \/ /\ ~GiveUp
              /\ conn' = [conn EXCEPT !.retry_count = @ + 1]
              /\ GoOn("register")
        /\ UNCHANGED <<params, machine, threads, timers, async, cmds, stream,
                       resume, calls>>
     \/ /\ ~conn.disconnected /\ conn.local_id
        /\ \E n \in {2, 3} :
             /\ cmds' = [cmds EXCEPT !.other = @ + n]
             /\ Established([conn EXCEPT !.registering = FALSE], timers,
                            "success", n)
        /\ UNCHANGED <<params, async, stream, resume>>

(* silc_client_st_register_error *)
StRegisterError ==
  /\ Running("register_error")
  /\ conn' = [conn EXCEPT !.status = "error", !.disconnected = TRUE]
  /\ Signal(CloseSignals)
  /\ timers' = [timers EXCEPT !.connect = FALSE]
  /\ FinishEvent(queue \o CloseTasks, 0)
  /\ UNCHANGED <<params, async, cmds, stream, resume, calls>>

(* silc_client_st_resume: the detachment data may be malformed or the      *)
(* packet not be sent; otherwise RESUME_CLIENT is sent and the NEW_ID      *)
(* awaited for fifteen seconds.                                            *)
StResume ==
  /\ Running("resume")
  /\ \/ GoOn("resume_error") /\ UNCHANGED <<conn, resume>>
     \/ /\ conn' = [conn EXCEPT !.registering = TRUE]
        /\ resume' = params.channels
        /\ WaitLater("resolve_channels")
  /\ UNCHANGED <<params, machine, threads, timers, async, cmds, stream, calls>>

(* silc_client_st_resume_resolve_channels: UMODE is sent, and IDENTIFY for *)
(* the channels of the detachment data, whose reply continues the thread.  *)
StResolveChannels ==
  /\ Running("resolve_channels")
  /\ \/ IfDisconnected("resume_error")
     \/ /\ ~conn.disconnected /\ ~conn.local_id
        /\ conn' = [conn EXCEPT !.registering = FALSE]
        /\ GoOn("resume_error")
        /\ UNCHANGED <<params, machine, threads, timers, async, cmds, stream,
                       resume, calls>>
     \/ /\ ~conn.disconnected /\ conn.local_id
        /\ \/ /\ resume = 0
              /\ cmds' = [cmds EXCEPT !.other = @ + 1]
              /\ threads' = threads + 1
              /\ YieldTo("resolve_cmodes")
           \/ /\ resume > 0
              /\ cmds' = [cmds EXCEPT !.other = @ + 1, !.resume = @ + 1]
              /\ threads' = threads + 2
              /\ WaitIn("resolve_cmodes")
        /\ UNCHANGED <<params, conn, machine, timers, async, stream, resume,
                       calls>>

(* silc_client_st_resume_resolve_cmodes: CMODE, USERS and TOPIC for every  *)
(* channel in the cache, each of whose replies continues the thread.  The  *)
(* server's errors to IDENTIFY have removed the channels it does not know. *)
StResolveCmodes ==
  /\ Running("resolve_cmodes")
  /\ \/ IfDisconnected("resume_error")
     \/ /\ ~conn.disconnected
        /\ \/ /\ YieldTo("resume_completed")
              /\ UNCHANGED <<resume, cmds, threads>>
           \/ \E n \in 1..params.channels :
                /\ resume' = n * CommandsPerChannel
                /\ cmds' = [cmds EXCEPT !.resume = @ + n * CommandsPerChannel]
                /\ threads' = threads + n * CommandsPerChannel
                /\ WaitIn("resume_completed")
        /\ UNCHANGED <<params, conn, machine, timers, async, stream, calls>>

(* silc_client_st_resume_completed: entered again for every reply *)
StResumeCompleted ==
  /\ Running("resume_completed")
  /\ \/ IfDisconnected("resume_error")
     \/ /\ ~conn.disconnected /\ resume > 1
        /\ resume' = resume - 1
        /\ WaitIn("resume_completed")
        /\ UNCHANGED <<params, conn, machine, threads, timers, async, cmds,
                       stream, calls>>
     \/ /\ ~conn.disconnected /\ resume <= 1
        /\ resume' = 0
        /\ cmds' = [cmds EXCEPT !.other = @ + 2]
        /\ Established([conn EXCEPT !.registering = FALSE], timers, "resumed", 2)
        /\ UNCHANGED <<params, async, stream>>

(* silc_client_st_resume_error: with the connection already disconnected   *)
(* nothing is left to be signalled, and the connect timeout stays.         *)
StResumeError ==
  /\ Running("resume_error")
  /\ \/ /\ conn.disconnected
        /\ FinishEvent(queue, 0)
        /\ UNCHANGED <<conn, machine, timers>>
     \/ /\ ~conn.disconnected
        /\ conn' = [conn EXCEPT !.status = "error", !.disconnected = TRUE]
        /\ Signal(CloseSignals)
        /\ timers' = [timers EXCEPT !.connect = FALSE]
        /\ FinishEvent(queue \o CloseTasks, 0)
  /\ UNCHANGED <<params, async, cmds, stream, resume, calls>>

-----------------------------------------------------------------------------
(* Rekeying *)

SignalsQueued == {i \in DOMAIN queue : queue[i] = "signal"}
RekeyRoom ==
  /\ machine.value < MaxValue[params]
  /\ Cardinality(SignalsQueued) < MaxValue[params]
RequestRekey(responder) ==
  /\ conn' = [conn EXCEPT !.rekeying = TRUE, !.responder = responder]
  /\ Signal(1)
  /\ queue' = queue \o SignalTasks(1)

(* Mutant: the timer does not look whether the event thread is at work. *)
RekeyTimerBusy ==
  /\ Idle /\ timers.rekey /\ RekeyRoom
  /\ RequestRekey(FALSE)
  /\ UNCHANGED <<params, et, threads, timers, async, cmds, stream, resume, cpu,
                 after, calls>>

(* silc_client_rekey_timer: it is installed again each time, for an hour,  *)
(* and does nothing more while the event thread is at work.                *)
RekeyTimer ==
  /\ Idle /\ timers.rekey /\ ~et.started /\ RekeyRoom
  /\ RequestRekey(FALSE)
  /\ UNCHANGED <<params, et, threads, timers, async, cmds, stream, resume, cpu,
                 after, calls>>

(* silc_client_st_rekey: the SKE is run as initiator or responder.  With   *)
(* the connection disconnected, or no SKE, there is no rekey.              *)
StRekey ==
  /\ Running("rekey")
  /\ \/ /\ FinishEvent(queue, 0)
        /\ UNCHANGED <<conn, async>>
     \/ /\ ~conn.disconnected
        /\ LET op == IF conn.responder THEN "rekey_responder"
                                       ELSE "rekey_initiator"
           IN /\ conn' = [conn EXCEPT !.ske = TRUE, !.op = op]
              /\ async' = async \cup {op}
        /\ WaitIn("rekey")
        /\ UNCHANGED threads
  /\ UNCHANGED <<params, machine, timers, cmds, stream, resume, calls>>

(* silc_client_rekey_completion: silc_fsm_finish of the event thread, and  *)
(* silc_client_close_connection when the rekey failed.                     *)
RekeyCompletes(k) ==
  /\ Completes(k)
  /\ async' = async \ {k}
  /\ \/ /\ conn' = [conn EXCEPT !.op = "none", !.ske = FALSE]
        /\ UNCHANGED machine
        /\ queue' = FinishTasks(queue)
     \/ /\ conn' = [conn EXCEPT !.op = "none", !.ske = FALSE,
                                !.disconnected = TRUE, !.status = "disconnected"]
        /\ Signal(CloseSignals)
        /\ queue' = FinishTasks(queue) \o CloseTasks
  /\ et' = FinishedThread
  /\ threads' = threads - (IF et.sync THEN 1 ELSE 0)
  /\ UNCHANGED <<params, timers, cmds, stream, resume, cpu, after, calls>>

-----------------------------------------------------------------------------
(* Packets: silc_client_packet_receive runs a packet thread to its end.    *)

Receives == AtSelect /\ stream = "open"

(* silc_client_new_id; the thread is not continued when it does not        *)
(* register, or the remote's ID cannot be encoded.                         *)
NewId ==
  /\ Receives /\ ~conn.local_id
  /\ conn' = [conn EXCEPT !.local_id = TRUE]
  /\ \/ UNCHANGED <<et, queue, cpu, after>>
     \/ /\ conn.registering
        /\ ContinueSync(Cancelled, "idle")
  /\ UNCHANGED <<params, machine, threads, timers, async, cmds, stream, resume,
                 calls>>

(* silc_client_connect_auth_request *)
AuthRequest ==
  /\ Receives /\ conn.auth_request
  /\ ContinueSync(Cancelled, "idle")
  /\ UNCHANGED <<params, conn, machine, threads, timers, async, cmds, stream,
                 resume, calls>>

(* The part of silc_client_connection_st_packet that handles REKEY.  An    *)
(* SKE that runs a rekey takes these packets for itself.                   *)
RekeyPacket ==
  /\ Receives /\ RekeyRoom
  /\ conn.op \notin {"rekey_initiator", "rekey_responder"}
  /\ RequestRekey(TRUE)
  /\ UNCHANGED <<params, et, threads, timers, async, cmds, stream, resume, cpu,
                 after, calls>>

CloseRequested ==
  /\ conn' = [conn EXCEPT !.disconnected = TRUE, !.status = "disconnected"]
  /\ Signal(CloseSignals)
  /\ queue' = queue \o CloseTasks
  /\ UNCHANGED <<params, et, threads, timers, async, cmds, resume, cpu, after,
                 calls>>

(* silc_client_disconnect; an empty packet is ignored. *)
DisconnectPacket == Receives /\ CloseRequested /\ UNCHANGED stream

(* silc_client_packet_eos: nothing more comes from the stream. *)
EndOfStream == Receives /\ CloseRequested /\ stream' = "eos"

(* silc_client_command_reply and the timeout of a command: the command is  *)
(* taken off the list, its callback called and its thread finished.        *)
CommandReply ==
  /\ Idle /\ Up /\ cmds.other > 0
  /\ cmds' = [cmds EXCEPT !.other = @ - 1]
  /\ queue' = Append(queue, "cmdfin")
  /\ UNCHANGED <<params, conn, machine, et, threads, timers, async, stream,
                 resume, cpu, after, calls>>

(* The same of a command whose callback is silc_client_resume_continue. *)
ResumeReply ==
  /\ Idle /\ Up /\ cmds.resume > 0
  /\ cmds' = [cmds EXCEPT !.resume = @ - 1]
  /\ et' = Cancelled
  /\ queue' = CancelRuns(queue) \o <<"event", "cmdfin">>
  /\ UNCHANGED <<params, conn, machine, threads, timers, async, stream, resume,
                 cpu, after, calls>>

-----------------------------------------------------------------------------
(* The application *)

(* Mutant: the callback of an aborted attempt is kept. *)
AbortTells ==
  /\ Idle /\ conn.cop /\ Up
  /\ conn' = [conn EXCEPT !.cop = FALSE, !.disconnected = TRUE]
  /\ Signal(CloseSignals) /\ queue' = queue \o CloseTasks
  /\ UNCHANGED <<params, et, threads, timers, async, cmds, stream, resume, cpu,
                 after, calls>>

(* silc_client_connect_abort, through silc_async_abort of conn->cop.  A    *)
(* machine that is not up yet finds the flag when it starts.               *)
Abort ==
  /\ Idle /\ conn.cop /\ machine.state \in {"none", "run", "close"}
  /\ conn' = [conn EXCEPT !.callback = FALSE, !.cop = FALSE,
                          !.disconnected = TRUE]
  /\ IF Up THEN Signal(CloseSignals) /\ queue' = queue \o CloseTasks
           ELSE UNCHANGED <<machine, queue>>
  /\ UNCHANGED <<params, et, threads, timers, async, cmds, stream, resume, cpu,
                 after, calls>>

(* silc_client_close_connection *)
Close == Idle /\ Up /\ CloseRequested /\ UNCHANGED stream

(* silc_client_command_call and silc_client_command_send on a connection   *)
(* that is not disconnected: a command thread that waits for the reply.    *)
CallRoom == threads + loose < MaxThreads
Command ==
  /\ Idle /\ Up /\ ~conn.disconnected /\ calls # <<>>
  /\ CallRoom
  /\ cmds' = [cmds EXCEPT !.other = @ + 1]
  /\ threads' = threads + 1
  /\ UNCHANGED <<params, conn, machine, et, queue, timers, async, stream,
                 resume, cpu, after, calls>>

(* silc_client_command_call of a command that is not pending yet (NICK and *)
(* JOIN that are delayed, OPER and SILCOPER that ask for a passphrase) or  *)
(* never will be (one called after the disconnection): its thread is not   *)
(* on the list of pending commands.                                        *)
rest == <<params, conn, machine, et, queue, timers, async, stream, resume, cpu,
          after, calls>>
LooseCall ==
  /\ Idle /\ Up /\ calls # <<>> /\ CallRoom
  /\ loose' = loose + 1
  /\ UNCHANGED <<rest, threads, cmds>>

(* It is sent after all, on a connection that is not disconnected ...      *)
LoosePends ==
  /\ Idle /\ Up /\ loose > 0 /\ ~conn.disconnected
  /\ loose' = loose - 1
  /\ threads' = threads + 1
  /\ cmds' = [cmds EXCEPT !.other = @ + 1]
  /\ UNCHANGED rest

(* ... or its thread is finished without.                                  *)
LooseEnds ==
  /\ Idle /\ loose > 0 /\ machine.state \in {"run", "close", "finished"}
  /\ loose' = loose - 1
  /\ UNCHANGED <<rest, threads, cmds>>

-----------------------------------------------------------------------------
(* silc_client_add_connection, as silc_client_connect_to_server,           *)
(* silc_client_connect_to_client and silc_client_key_exchange leave it.    *)
(* The status is zero, which is SILC_CLIENT_CONN_SUCCESS.                  *)
Init ==
  /\ params \in Params
  /\ conn = [connect |-> params.start = "connect",
             key_exchange |-> params.start = "key_exchange",
             rekeying |-> FALSE, disconnected |-> FALSE,
             registering |-> FALSE, auth_request |-> FALSE,
             responder |-> FALSE, local_id |-> FALSE, op |-> "none",
             cop |-> TRUE, callback |-> TRUE, ske |-> FALSE,
             status |-> "success", retry_count |-> 0]
  /\ machine = [state |-> "none", waiting |-> FALSE, value |-> 0]
  /\ et = [state |-> "null", started |-> FALSE, finished |-> FALSE,
           sync |-> FALSE, later |-> FALSE, timer |-> FALSE]
  /\ threads = 0
  /\ queue = <<"start", "poll">>
  /\ timers = [connect |-> FALSE, rekey |-> FALSE]
  /\ async = {}
  /\ cmds = [resume |-> 0, other |-> 0]
  /\ stream = "none"
  /\ resume = 0
  /\ cpu = "idle" /\ after = "idle"
  /\ calls = <<>>
  /\ loose = 0
  /\ late = "none"

(* A rekey has just been done for whose signal is still queued. *)
RekeyJustWas == "signal" \in Range(queue) /\ machine.value = 0

(* A task of the scheduler, or the next state function of a running one. *)
MachineStep ==
  \/ AwaitEvent \/ EventDisconnected \/ EventConnect \/ EventKeyExchange
  \/ EventRekey \/ EventUnknown
  \/ CloseCommands \/ CloseEventThread \/ CloseFinish
EventStep ==
  \/ StConnect \/ StSetStream \/ StKeyExchange \/ StSetupUdp
  \/ StAuthResolve \/ StAuthData \/ StAuthStart \/ StConnected
  \/ StConnectError \/ StRegister \/ StRegisterComplete \/ StRegisterError
  \/ StResume \/ StResolveChannels \/ StResolveCmodes \/ StResumeCompleted
  \/ StResumeError \/ StRekey
TaskStep ==
  \/ Poll \/ Start \/ DeliverSignal \/ RunMachine \/ RunEvent
  \/ FinishEventThread \/ FinishCommandThread \/ Destroy \/ Finished

(* The event thread is run after it has finished, restarted while it is at *)
(* work or while its last silc_fsm_finish_fsm is queued, or the machine is *)
(* finished before its threads are: no step is taken from there.           *)
RunsFinished == cpu = "event" /\ et.finished
Restarts ==
  cpu = "conn" /\ machine.state = "run" /\ machine.value > 0
    /\ ~conn.disconnected /\ ~NoFlag
RestartsBusy == Restarts /\ (et.started \/ "evfin" \in Range(queue))
LeavesThreads == Dispatch("fin") /\ threads + loose # 0
Broken == RunsFinished \/ RestartsBusy \/ LeavesThreads

(* The history of a step that the event thread is not ready for if `b'.    *)
Note(cause, b) ==
  /\ late' = IF late = "none" /\ b THEN cause ELSE late
  /\ UNCHANGED loose
InTime == UNCHANGED <<late, loose>>
Causes == {"timeout", "operation", "answer", "packet", "rekey", "resume"}

Scheduled == ~Broken /\ (MachineStep \/ EventStep \/ TaskStep) /\ InTime

(* What the connection waits for from outside, and always gets in the end: *)
(* its timers, the callbacks of its operations and replies of commands.    *)
(* The first group calls an event thread that may have finished.           *)
OperationCompletes ==
  \/ TcpCompletes \/ SkeCompletes \/ AuthCompletes
  \/ \E k \in {"rekey_initiator", "rekey_responder"} : RekeyCompletes(k)
Answered ==
  /\ ~Broken
  /\ \/ ConnectTimeout /\ Note("timeout", ~et.started \/ cmds.resume > 0)
     \/ OperationCompletes /\ Note("operation", ~et.started)
     \/ AuthAnswered /\ Note("answer", ~et.started)
     \/ (LaterExpires \/ CommandReply \/ ResumeReply) /\ InTime

(* What may or may not happen.  A close leaves the replies of a resume to  *)
(* wake the event thread, once it has finished.                            *)
Rekeyed == conn.rekeying \/ RekeyJustWas
Unforced ==
  /\ ~Broken
  /\ \/ (NewId \/ AuthRequest) /\ Note("packet", ~et.started /\ cpu' = "event")
     \/ RekeyPacket /\ Note("rekey", et.started)
     \/ RekeyTimer /\ Note("rekey", Rekeyed)
     \/ (DisconnectPacket \/ EndOfStream \/ Abort \/ Close)
          /\ Note("resume", cmds.resume > 0)
     \/ Command /\ InTime
     \/ (LooseCall \/ LoosePends \/ LooseEnds) /\ UNCHANGED late

Done ==
  /\ Broken \/ (machine.state = "gone" /\ Idle /\ queue = <<"poll">>)
  /\ UNCHANGED vars

Next == Scheduled \/ Answered \/ Unforced \/ Done

Spec == Init /\ [][Next]_vars

(* The scheduler runs what is ready; timers expire, operations call back.  *)
FairSpec == Spec /\ WF_vars(Scheduled) /\ WF_vars(Answered)

-----------------------------------------------------------------------------
(* Properties *)

Operations == {"tcp", "ske", "auth", "rekey_initiator", "rekey_responder"}
Connections ==
  [connect: BOOLEAN, key_exchange: BOOLEAN, rekeying: BOOLEAN,
   disconnected: BOOLEAN, registering: BOOLEAN, auth_request: BOOLEAN,
   responder: BOOLEAN, local_id: BOOLEAN, op: Operations \cup {"none"},
   cop: BOOLEAN, callback: BOOLEAN, ske: BOOLEAN, status: Statuses,
   retry_count: 0..RetryCount]
Machines ==
  [state: {"none", "run", "close", "finished", "deleted", "gone"},
   waiting: BOOLEAN, value: Nat]
EventThreads ==
  [state: EventStates, started: BOOLEAN, finished: BOOLEAN, sync: BOOLEAN,
   later: BOOLEAN, timer: BOOLEAN]

(* The fields hold what the code puts there. *)
TypeOK ==
  /\ params \in Params
  /\ conn \in Connections /\ machine \in Machines /\ et \in EventThreads
  /\ threads \in Nat /\ loose \in Nat
  /\ queue \in Seq(Tasks)
  /\ timers \in [connect: BOOLEAN, rekey: BOOLEAN]
  /\ async \subseteq Operations \cup {"answer"}
  /\ cmds \in [resume: Nat, other: Nat]
  /\ stream \in {"none", "open", "eos", "destroyed"}
  /\ resume \in Nat
  /\ cpu \in {"idle", "conn", "event"}
  /\ after \in {"idle", "continue", "yield"}
  /\ calls \in Seq(Statuses)
  /\ late \in Causes \cup {"none"}

(* A state function of the event thread runs after the thread has finished *)
(* (it would finish it a second time, which silc_fsm_finish asserts        *)
(* against, or call a NULL state) only where a wakeup came to a thread     *)
(* that was not at work, or a connection was closed with replies of a      *)
(* resume outstanding: nothing else brings a finished thread back.         *)
RunsUnfinished == RunsFinished => late # "none"

(* SILC_ASSERT(silc_fsm_is_started(thread) == FALSE) in st_run: an event   *)
(* restarts the event thread while it is at work, or while its last        *)
(* silc_fsm_finish_fsm is queued, which would finish the new run, only     *)
(* after a rekey was asked for while the thread was at work, or one was    *)
(* due, or after a late wakeup.                                            *)
OneEventAtATime == RestartsBusy => late # "none"

(* assert(threads == 0) in silc_fsm_finish_fsm: when the connection        *)
(* machine is finished, its event thread and the threads of all commands   *)
(* that were pending are, whatever came late.  Those that never were may   *)
(* be left, as the command_close run shows.                                *)
FinishesAlone == Dispatch("fin") => threads = 0

(* Once silc_client_del_connection has freed the connection no task, timer *)
(* or operation refers to it any more, but for the run of the event thread *)
(* that a late wakeup has queued.                                          *)
NothingOutlives ==
  machine.state \in {"deleted", "gone"} =>
    /\ Range(queue) \subseteq {"thrfin", "poll"} \cup (IF late = "none" THEN {} ELSE {"event"})
    /\ async \subseteq {"answer"}
    /\ ~timers.connect /\ ~timers.rekey /\ ~et.timer
    /\ cmds = [resume |-> 0, other |-> 0]

Stage ==
  CASE machine.state \in {"deleted", "gone"} -> "gone"
    [] machine.state = "finished" -> "closed"
    [] OTHER -> IF ~conn.callback THEN "aborted"
                ELSE IF calls # <<>> THEN "up" ELSE "connecting"
Phase == IF Broken THEN "undefined" ELSE Stage

(* The connection keeps what ConnectionLifecycle promises to the           *)
(* application: the statuses given to the connect callback.                *)
Lifecycle == INSTANCE ConnectionLifecycle WITH
  Successes <- {"success", "resumed"},
  Failures <- Statuses \ {"success", "resumed"},
  phase <- Phase,
  closing <- conn.disconnected,
  told <- calls
KeepsLifecycle == Lifecycle!FairSpec

(* The event thread waits for replies that will not come: some channels of *)
(* the detachment data were not in the cache when it asked, and nothing    *)
(* else is going to wake it.                                               *)
Hangs ==
  /\ et.started /\ et.state = "resume_completed" /\ resume > cmds.resume
  /\ cmds.resume = 0 /\ ~timers.connect /\ ~conn.disconnected
  /\ "event" \notin Range(queue)

(* An attempt to connect ends, with the connection established or closed,  *)
(* or the event thread misused, unless a resumed session hangs.  The       *)
(* application hears of the end unless it has aborted the attempt.         *)
Over == calls # <<>> \/ machine.state = "gone" \/ Broken
AttemptEnds == <>(Over \/ Hangs)

(* What the code and its documentation claim without any condition.        *)

(* SILC_ASSERT(!fsm->finished) in silc_fsm_finish.                         *)
NeverRunsFinished == ~RunsFinished

(* SILC_ASSERT(silc_fsm_is_started(thread) == FALSE) in st_run.            *)
NeverRestartsBusy == ~RestartsBusy

(* The connect callback is called, or the connection deleted, in the end.  *)
AttemptAlwaysEnds == <>Over
=============================================================================
