# A TLA+ model of the SILC client

This directory specifies the concurrent core of the SILC client 1.1.11: the finite state
machine library everything in the client is written with, the client machine, the life of a
connection, its commands, its key exchange and rekey, and a channel. `PROJECT.json` lists
the components, the TLC runs, the mutants of each property, the source lines behind each
definition, the findings, the hazards and the theorems.

## The system

The client is one process. `lib/silcutil/silcschedule.c` runs an event loop; every part of
the library is a set of *state functions* driven by `lib/silcutil/silcfsm.c`, which turns
"continue", "wait", "signal" and "finish" into scheduler tasks. On top of it:

| Component | State | Operations | Interacts through |
|---|---|---|---|
| FSM library (`silcfsm.c`) | machines, FSM threads, events (a counter and a list of waiters), scheduler tasks | start, start_sync, next_later, continue(_sync), event wait, timed wait and signal, thread wait, finish | scheduler tasks; a lock between system threads |
| Client machine (`client.c`) | `run_callback`, `connection_closed`, `stop`, `conns`, `wait_event` | init, add connection, connection finished, stop | signals of `wait_event`, callbacks of the application |
| Connection machine (`client.c`) | `disconnected`, `connect`, `key_exchange`, `rekeying`, `wait_event`, the event thread, pending commands, `op`, `cop` | start, run, close, delete, abort, packets | the event thread, async operations, packets, timers |
| Event thread (`client_connect.c`, `client_register.c`) | state, retry counter, `registering`, `auth_request`, resume session | connect, key exchange, authenticate, register, resume, rekey and their errors | async operations of TCP, SKE and connauth; replies of commands; connect timeout |
| Commands (`command.c`, `command_reply.c`) | pending commands with an identifier and a thread each | call, send, reply, timeout | the connection's machine; callbacks |
| Entries and ID cache (`client_entry.c`, `silcidcache.c`) | client, channel, server entries with reference counts | find, resolve, delete, ref, unref | WHOIS/IDENTIFY commands |
| Notify, channel, private message, FTP, key agreement (`client_*.c`) | channel keys and old keys, message keys, transfer sessions | packets and API calls | entries, commands, timers |
| SKE and connauth (`silcske.c`, `silcconnauth.c`) | protocol state, retransmission timer | initiator, responder, rekey, abort | packet stream, completion callback |
| Packet engine (`silcpacket.c`) | streams with keys, sequence numbers, reference counts, linked callbacks | send, receive, link, set keys, destroy | streams, packet callbacks |
| Utilities (`silcschedule.c`, `silchashtable.c`, `silcskr.c`, ...) | tasks, tables, key repository | | |
| Irssi front end (`apps/irssi/src/silc`) | servers, channels, queries, command queue | | client operations and callbacks |

What makes the client hard is not parallelism (irssi runs it in one system thread) but
that every function may be re-entered through a callback, that tasks which were queued for
one state of a machine are delivered in another, and that one event thread structure is
used again and again. The FSM library itself also supports real threads.

What makes each part correct:

- FSM library: no signal is lost, no machine is activated twice, no timeout outlives its
  wait, the thread count is right when a machine finishes, a joiner is always found.
- Connection: a state function never runs for a finished thread, an event never restarts a
  thread at work, the machine finishes alone and nothing refers to a deleted connection,
  the application is told exactly what the API promises, every attempt ends.
- Client: the stop waits for all connections, is not forgotten, completes, and its callback
  is the last.
- Key exchange: the two ends agree whether it succeeded, its owner is told at most once and
  only of a key that was accepted, it ends whatever is lost, nothing wakes a freed SKE.
- Rekey: each packet is read with the key it was sent under, and a rekey does not cost the
  connection.
- Commands: a reply finds its own command or none, a command gets one final status, no
  freed command is pending, every command ends, the close leaves no thread behind.
- Channel: nobody is left with a freed entry, a key is never replaced by an older one, old
  keys stay readable for their time, and client and server agree when nothing is on its way.

## Modules

| Module | Models | Checked with |
|---|---|---|
| `SilcFsm` | `silcfsm.c` with real threads and events, for arbitrary state functions | `MCSilcFsm`, `SilcFsm_proofs` |
| `ConnectionLifecycle` | the contract of the connect callback (abstract) | refined by `ClientConnection` |
| `ClientConnection` | connection machine and event thread of one connection | `MCClientConnection`, `ClientConnection_proofs` |
| `ClientMachine` | the client machine and any finite set of connections | itself, `ClientMachine_proofs` |
| `SilcSke` | initiator and responder of the key exchange over TCP, UDP and private messages | `MCSilcSke`, `SilcSke_proofs` |
| `SilcRekey` | both ends of the rekey of a stream, with the packet engine's switch of keys | itself, `SilcRekey_proofs` |
| `ClientCommand` | the commands of a connection, their replies, timeouts and the close | itself, `ClientCommand_proofs` |
| `ClientChannel` | a channel entry, its users and keys, with the packets that change them | itself, `ClientChannel_proofs` |
| `Loops` | no code: induction over the natural numbers, and sequences put together round by round, for the proofs about loops | used by `ClientConnection_proofs` and `ClientCommand_proofs` |

`ClientConnection` sees the key exchange, the rekey and the commands as operations that end;
`SilcSke`, `SilcRekey` and `ClientCommand` are what happens inside them. Of the commands that
are not pending it counts the threads only (`loose`), where `ClientCommand` has their states.
`ClientChannel` takes a WHOIS for an operation that is answered, as `CommandsEnd` of
`ClientCommand` shows.

### SilcFsm

One variable per field of `SilcFSMObject` and `SilcFSMEventObject` that control depends on,
one counter per kind of task and FSM for the schedulers, and three control variables: `pc`
(where an FSM is), `on` (the event its state begins by waiting for) and `stack` (the nested
state functions of each system thread, since `silc_fsm_start_sync`, `continue_sync` and
`silc_fsm_signal` run a state function inside their caller). An action is an API call, a
return of a state function, or a task that is dispatched. State functions are *any* program
that keeps the rules of `silcfsm.h`: an event wait is the first thing of its state and is
repeated on re-entry, an asynchronous call completes once, a machine finishes when it has
no threads left, and a thread is joined by one FSM. Tasks are dispatched in any order, which
is weaker than the scheduler's order by expiry. `silc_fsm_event_timedwait` is two actions
(`TimedWaitBlocks`, `TimedWaitArms`) because it gives up its lock between becoming a waiter
and adding its timer, and so is `SILC_FSM_THREAD_WAIT` (`ThreadWait`, `ThreadWaitBlocks`), which
stores its event in the thread before it takes the lock. That the joined thread is not gone
when the join begins is its caller's duty: the code tests nothing, and could not.

### ClientConnection

Here the order of tasks matters (a finish task that is overtaken by a restart breaks the
event thread), so the zero timeout tasks of the connection are a sequence. A `poll` marker
in it is the call of `silc_select`: an iteration of the scheduler runs all tasks that were
due before the select, packets and operations that complete through them arrive at the
select, timers and calls of the application between any two tasks. `cpu` and `after` say
whose state function runs and where it returns to: the scheduler, `st_run` after it has
started the event thread, or `st_close` after it has continued it. Each state function is
one action that contains everything the function does. `params` is chosen initially from a
set of records: server or client, TCP or UDP, with and without authentication data, connect
timeout, and detachment data with some channels.

Operations are in `async` from their start until they call back or are aborted; an aborted
SKE, connauth or TCP connect never calls back (`silcske.c:131`, `silcasync.c`). The
application's answer to `get_auth_method` stays, since nobody aborts it. A REKEY packet is
taken by a rekey that is going on, because its SKE links itself to the stream with a higher
priority. Allocation failures are modelled where the state function has a path for them.

Nothing keeps the environment in order: operations, timers, answers and packets may find an
event thread that has finished, a REKEY packet one that is at work, and a close one whose resume
waits for replies. `late`, a history variable that no action reads, records the first time
(`Note`; the causes are `Causes`). A behaviour goes on after that, until the thread is really
misused (`Broken`: a state function of a finished thread is about to run, the thread is about to
be started while it is at work, or the machine is finished with threads left). From there the
code has no defined result (a debug build asserts, a release build goes on with a wrong thread
count or a NULL state), and the behaviour ends.

### ClientMachine

The three flags, the connection count and `wait_event` with its signal tasks. A connection
is added, active and finished; `ConnectionLifecycle` and `ClientConnection` say what is in
between. The application calls the library between tasks and inside the running callback,
and only after that callback, as `silcclient.h` demands.

### SilcSke

A record per side holds the fields of `SilcSKEStruct` control depends on, with its FSM: the
next state, the queued runs and the queued finish, the timers, the saved packet, references
and what the owner was told. `running` is the side whose state functions run; a state that
continues stays there, one that waits or finishes gives it up. Every state function and every
callback of `silcske.c` is an action. Decoding, signing, choosing algorithms and allocating
either work or fail. Over TCP the packets of each direction are a sequence; a datagram may be
lost, delayed and duplicated, so it stays in `net` and may be delivered at any time or never.
`Params` are the exchanges the client has: with proposals and acknowledgements over TCP and
UDP (`client_connect.c`, `client_listener.c`) and without both inside private messages, where
the owner drops a late answer to a verification (`client_prvmsg.c`).

Packets, timeouts, aborts and the owner's free reach an SKE whose key is being verified like any
other. The history variable `disturbed` records the last of them for an owner without a guard (a
packet is never forgotten), and the error return of phase 3. A state function that would read a
packet that is not there (`MissesPacket`) is not run, and an answer to an SKE that is gone
(`LateAnswer`) ends the behaviour: the code dereferences a NULL or freed pointer there.

### SilcRekey

Two ends with a sending and a receiving key each, and a stream whose packets carry the key
they were protected with. A key is its material and its direction; material is what it is
derived from, so that two ends have the same material exactly when they derived it from the
same exchange. `silc_ske_packet_receive` runs the state function of a rekey inside the
dispatch of the packet, before the next one is decrypted, which is one action. `Hands` are
the ends that give the REKEY packet to their responder; the client is not one of them.

### ClientCommand

A record per command (`SilcClientCommandContext` and its thread), the pending list, and the
zero timeout tasks of the connection as a sequence. `asked` is what the server still has to
answer, in any order. The kinds stand for the shapes of a command: WHOIS for all that are sent
and answered with one reply or a list, NICK and JOIN for the pair that waits for each other,
JOIN and USERS for replies that have clients resolved, OPER for a question to the application,
QUIT for the timer that closes. Identifiers have `MaxIdent` in place of 2^16 - 1. The loop of
`silc_client_connection_st_close` over the pending list, which runs each command's thread inside
the task of the machine, is one action; `Closed` and `StillPending` are the tasks and the list
after each of its rounds.

### ClientChannel

One channel at the client and at the server, with the commands and packets between them in
order. Handlers that meet an unknown client send a WHOIS and are suspended with it; what waits
for the same channel queues up behind it (`waiting`). References are counted as the code
counts them, the two places that keep one included. Keys are numbered in the order the server
makes them, which is what "older" means. `Scenarios` says what one run of the system may do.
A WHOIS that fails drops the message or notify that needed it, except that the notify JOIN is
processed again after a timeout (`Unresolved`), and a JOIN reply goes on with the users that are
valid by then.

## Runs

| Run | Question | Result |
|---|---|---|
| `fsm_timed` | one system thread, a machine and two FSM threads, two of them with timed waits for one event | holds |
| `fsm_real` | a thread in a system thread of its own: is it joined, is every waiter of a signalled event run? | holds |
| `connection` | the whole life of a connection: when is the event thread misused, what is left behind, what is the application told, does every attempt end? | holds |
| `client` | three connections, stop at any time | holds |
| `ske` | a key exchange with loss, repetition, retransmission, abort, free and timeouts, during the verification too; is it freed in the end? | holds |
| `ske_verify_repeat` | a repeated packet while the application verifies the key, over UDP | violated |
| `rekey` | three rekeys by the client, with and without PFS, with data in both directions | holds |
| `rekey_by_remote` | a rekey the remote starts | violated |
| `command` | three commands of any kind over the wrap of identifiers, and the close | holds |
| `command_close` | the close with commands that are not pending | violated |
| `channel` | joining, leaving, rejoining, being kicked, while clients are resolved | holds |
| `channel_rejoin` | rejoining after a kick with an entry that was kept alive | violated |

Six more configurations are kept beside the runs. Each has one property that states without any
condition what a passing run states with one, and TLC refutes it within seconds: they show that
the conditions are needed, and how the code gets there (findings 5 to 10).

| Configuration | Module | Property |
|---|---|---|
| `connection_late.cfg` | `MCClientConnection` | `NeverRunsFinished` |
| `connection_rekey_busy.cfg` | `MCClientConnection` | `NeverRestartsBusy` |
| `connection_gone_channels.cfg` | `MCClientConnection` | `AttemptAlwaysEnds` |
| `ske_late_answer.cfg` | `MCSilcSke` | `NeverAnsweredLate` |
| `ske_no_key.cfg` | `MCSilcSke` | `NoKeyIsTold` |
| `fsm_join_real.cfg` | `MCSilcFsm` | `EveryJoinerFindsThread` |

### Properties

- `NoLostWakeup`, `ReentryAcquires`, `SignalledWaiterRuns`: the counting semaphore of an FSM
  event works with several waiters and late signal tasks.
- `OneActivation`: pending tasks correspond to the FSM's place. `NoStaleTimeout`: a timer
  belongs to a wait that is going on. `ThreadsCounted`, `JoinerFindsThread`: counting and
  joining of threads through synchronous, scheduled and real-thread terminations. The join is
  right for a joiner without a system thread of its own, since a thread is counted out in the
  scheduler of its machine; `EveryJoinerFindsThread` is what `silcfsm.h` promises to all.
- `RunsUnfinished`, `OneEventAtATime`: the two assertions on the event thread, from the
  connection's point of view, fail only after one of the causes that `late` records. What they
  exclude is every other way: a wakeup too many in an orderly course, a run left queued after a
  finish, a close that continues the thread twice. `NeverRunsFinished`, `NeverRestartsBusy` are
  the assertions as they stand in the code. `FinishesAlone`: the assertion on the thread count,
  for the event thread and every command that was ever pending, with commands that are not
  pending about; for those `ThreadsFinished` (`command_close`) is the answer. An event is
  taken neither while the thread is at work nor while its last finish is still queued, which
  would finish the new run.
- `NothingOutlives`: a deleted connection has no tasks, timers, operations or commands.
- `KeepsLifecycle`: refinement of `ConnectionLifecycle` (callback at most once with a
  success, once at the close and never with a success, never after an abort; a connection
  asked to close is closed and deleted), up to a misuse of the event thread. `AttemptEnds`:
  every attempt ends, unless a resume hangs as in finding 7 (`Hangs`).
- `StopWaits`, `StopNotForgotten`, `StoppedLast`, `StopCompletes`: see above.
- `KeyConfirmed`: an initiator that reports success has a responder that did (with
  acknowledgements), unless the responder was driven on by a repeated datagram and refused the
  key after that. `CompletesOnce`: one call to the owner, none after an abort, references for
  whoever refers to the SKE, no task for one that has finished, whatever happens during the
  verification. `WokenForItsReason`: each thing that goes wrong at a verification has its cause.
  Success without an accepted key and an answer that finds the machine elsewhere need a datagram
  that came meanwhile, a state without its packet needs that or the error return of phase 3, and
  a late answer a packet, timeout or abort for an owner without a guard. No datagram comes over
  TCP or in private messages, so there success always comes with an accepted key.
  `ExchangeEnds`: started exchanges are freed in the end, unless they break as in findings 8, 9.
- `InStep`: the next packet of a stream was sent under the receiving key; with no rekey
  under way both ends have the same material. `SurvivesRekey`, `RekeyEnds`.
- `PendingLive`, `ReplyFindsItsCommand`, `AnsweredOnce`, `CommandsEnd`, `ThreadsFinished`:
  the pending list and identifiers over the wrap; one final status; nobody waits for a
  command that will not tell; everything ends.
- `HeldAlive`, `KeyNeverOlder`, `OldKeysReadable`, `Agrees`, `ExistingKeyIsNewer`: see above.

### Findings

The first four are runs, in `PROJECT.json` with the lines they contradict. The others are shown
by the configurations of the second table; the conditions of `JoinerFindsThread`,
`RunsUnfinished`, `OneEventAtATime`, `AttemptEnds`, `WokenForItsReason` and `ExchangeEnds` name them.

1. `ske_verify_repeat`: the state that asks the application to verify a key leaves the next
   state set and the stream linked, so that over UDP a repeated packet takes the exchange on
   before the answer. Over TCP no packet is due at that point.
2. `rekey_by_remote`: the client frees the REKEY packet and starts its responder without it.
   The responder waits for a REKEY, gets the next packet of the rekey, and fails.
3. `command_close`: the close ends pending commands only, and the assertion on the count of
   threads, which is always compiled, fails for a delayed NICK or JOIN, an OPER that asks, a
   command called after the disconnection, or a reply whose resolving could not be sent.
4. `channel_rejoin`: the code takes the key it finds at a JOIN reply for a newer one. It may
   be older, when a reference that nobody gives back kept the entry over a KICKED.
5. `connection_late`: the connect timeout finishes the event thread and aborts nothing. The
   operation that completes afterwards, the application's answer, a late NEW_ID or the replies
   of a resume run the finished thread (`client_connect.c:91`, `client_register.c:51`):
   `SILC_ASSERT(!f->finished)` (`silcfsm.c:318`) fails, or a NULL state is called.
6. `connection_rekey_busy`: the rekey timer tests whether the event thread is at work, the
   REKEY packet does not (`client.c:366-373`), and the thread is started a second time:
   `SILC_ASSERT(silc_fsm_is_started(thread) == FALSE)` (`client.c:275`).
7. `connection_gone_channels`: a resume of two channels or more that the server has forgotten
   keeps its old count, sends nothing and waits (`client_register.c:481`, `524-528`). Without a
   connect timeout the connect callback is never called (`silcclient.h:141-144`).
8. `ske_late_answer`: the answer to a verification is not guarded in `client_connect.c:96` as it
   is in `client_prvmsg.c:943`, so after a timeout, an abort or a FAILURE it reaches a freed SKE.
9. `ske_no_key`: an error of phase 3 returns a SKE status where a FSM status is due; the state
   is run again and reads a packet that has been freed (`silcske.c:1694`).
10. `fsm_join_real`: the two steps of `silc_fsm_thread_wait`, when the joiner runs in a system
    thread of its own, lose the termination of the thread that is joined, against
    `silcfsm.h:366-367`. The only join of the repository (`silcwin32net.c:494`) is from a machine
    that does not.

### Further observations

These were met while modelling and can be reproduced with other values of the constants, or
are visible in the definitions named; no run of the project is about them.

- `SilcFsm` with a timed wait in a real thread violates `NoStaleTimeout`:
  `silc_fsm_event_timedwait` (`silcfsm.c:612`) arms its timer after it has released the lock.
  No thread of this client does both, and `NoTimedRace` excludes it.
- Both `st_run` states reach their "NOT REACHED" when two signals come with one flag
  (`client.c:284`, `client.c:565`), which is harmless without `SILC_DEBUG` (`EventUnknown`).
- `SilcSke`: over UDP, after finding 1, the initiator may report success while the responder
  is told of a refusal (`Overtaken` in `KeyConfirmed`). A retransmission frees the data it then
  copies (`silcske.c:957-977`). `silc_ske_packet_receive` deletes the retransmission timers of every
  SKE of the scheduler (`RetryDeletedByOther`). The responder's last SUCCESS is never resent,
  so over UDP the initiator may fail where the responder succeeded; the converse is
  `KeyConfirmed`.
- `SilcRekey` with both ends in `Initiators` violates `InStep`: rekeys that cross.
- `ClientCommand`: a JOIN whose reply is being resolved is not pending, so a NICK is sent
  under way, against the comment at `command.c:864`. A sent list that is cut off by the close
  keeps the status of its last item and never delivers a final one (`TimeoutFinal`).
- `ClientChannel`: the first key of a channel puts a NULL at the head of the list of old keys
  (`client_channel.c:405`), where every later timer stops: old keys are kept until the channel
  is left (`Expired`; with a timer that drops it, `OldKeysReadable` fails, the mutant). A JOIN
  reply's key that is older than one received while resolving is not kept as an old key. A
  LEAVE called while the JOIN resolves (scenario `"early"`) leaves the client on a channel it
  has left. `resolve_cmd_ident` is overwritten by a JOIN while a notify resolves. A KICKED whose
  kicker cannot be resolved is dropped.

### The environment of the `connection` run

- Wakeups, closes and rekeys come at any moment, see `late` above.
- Bounds only: the application calls commands while fewer than `MaxThreads` threads are there, a
  rekey is asked for while fewer than `MaxValue` signals are waiting (`CallRoom`, `RekeyRoom`). A
  rekey timer that fires while the thread is at work does nothing (`client_connect.c:762`).
- A behaviour ends at `Broken` (`Over`), and `AttemptEnds` lets a resume wait where finding 7
  does (`Hangs`).
- Fairness lets every command be answered or time out (`reply_timeout`, 40 seconds), every
  operation complete and the application answer `get_auth_method`, as the API requires.

### Bounds

- `MaxValue`, up to 3, bounds unacquired signals: two make a merged signal, three make one
  after a merge. `MaxPending` 2 bounds the undelivered signals of one waiter.
- FSM runs: a machine and two threads, of which one starts or joins the other, and one event
  shared by all three; `fsm_real` has one real thread.
- Connection: `MaxThreads` 2 bounds the commands of the application; registering and resuming
  send their own on top. A resume has zero, one or two channels; two are what finding 7 needs.
  `MaxSignals` gives the bound on signals for each kind of connection: two for those to a server
  or a client over TCP, where signals merge, one over UDP and for a resume without channels, and
  no rekey for a resume with channels, whose question is the replies it counts. `RetryCount` is
  the code's 4.
- Client: three connections, so that two can finish together while one remains.
- SKE: one exchange; `RetryCount` is 2 where the code has 4 (the theorems are for every value).
  Datagrams are not bounded: one of each type
  stays and may be delivered again and again. At most one is delivered before the run it
  causes, since a read takes one datagram.
- Rekey: three rekeys, the third of which starts from keys that were themselves made by a
  rekey, and two data packets of each end, one before and one after a switch.
- Commands: three, so that a command can resolve, be attached to or be overtaken by others.
  `MaxIdent` 3 starting from 2 makes the identifiers wrap; `IdentAssumption` says that a run
  takes fewer than there are, as the code can rely on with 65535. `MaxItems` 1 gives lists of
  a first, a middle and a last reply.
- Channel: three calls of JOIN and LEAVE and three events, so that the other user leaves and
  comes back around a rejoin. `MaxResolves` 5: a WHOIS that has timed out is repeated while no
  more than five were sent, in place of the code's thousand times.

### Fairness

- FSM: a scheduler dispatches what stays pending, and a state function gets to its end.
  Strong fairness is on actions of one FSM that others in the same system thread interrupt.
- Connection: weak fairness of `Scheduled` (the event loop runs what is ready) and of
  `Answered` (timers expire; operations call back, each has a timeout of its own).
- Client: weak fairness of the machine and callbacks, strong fairness of the end of a
  connection after a stop: it is the application's duty to close its connections.
- SKE: state functions run to their end; the exchange timeout expires (strong, since a run of
  the other side interrupts it); finishes run, the owner frees, the application answers.
  Nothing is assumed of packets or retransmissions.
- Rekey: tasks are run and arrived packets read. The timeout is not assumed: `RekeyEnds` says
  that a rekey does not need it.
- Commands: tasks and timers run, the application gives the passphrase. Nothing is assumed of
  the server.

Deadlock is checked in `connection`, where a finished connection stutters on purpose
(`Done`). It is off in the FSM runs, where a program may wait for an event that nobody
signals, and in the others, which come to an end when everything is closed or their bounds
are used up.

### The environment of the other runs

- `rekey`: the client's timer starts every rekey (`Initiators`), the way the client is used
  with its servers; finding 2 is the other way.
- `command`: the close may find any command in any state. A machine that is destroyed takes
  its threads with it in the model, where the code's assertion ends the program (finding 3).
- `channel`: the application leaves no channel while it joins it; the client is kicked only in
  a scenario in which it does not leave (finding 4 is about both) and in which WHOIS does not
  fail, since a KICKED whose kicker cannot be resolved is dropped.

## Proofs

TLAPS proves the following for every value of the constants, not only those of the runs.

`SilcFsm_proofs`: `TypeCorrect` without assumption, and under `NoTimedRace` (real threads and
timed waits are not used together, see the observations) `WakeupsAreNotLost`, `ReentriesAcquire`,
`ActivationsAreSingle`, `TimeoutsAreNotStale`, `ThreadCountIsRight` and `JoinersAreFound` (for
joiners without a system thread of their own, the others being finding 10). The
inductive invariant `SafetyInv` adds to the properties: who is on a list of waiters is where
it says it is (`WaitersWait`), a timed wait has its timer exactly until its event is
signalled (`TimersMatch`), an FSM between its wait and its timer has the system thread to
itself (`ArmingAlone`), so has one between the two steps of a join (`JoiningAlone`), and joiners
and joined correspond (`JoinersJoin`). `NoLostWakeup`
alone is not inductive: that a signal task may be dropped needs `ReentryAcquires`, and that a
waiter is not taken off by a stale timeout needs `TimersMatch`.

`ClientMachine_proofs`: `ClientTypeCorrect`, `StopWaitsForConnections`, `StopIsRemembered`,
`StoppedIsLast`, from the inductive invariant `StopInv`: the counter is the number of active
connections, the machine sleeps only as a waiter with a signal for every event, and a stop
with no connection left has an event to stop for.

`ClientConnection_proofs`: `ConnectionTyped`, `ConnectionRunsUnfinished`,
`ConnectionOneEventAtATime`, `ConnectionFinishesAlone`, `ConnectionNothingOutlives` and
`ConnectionKeepsLifecycle`, for any set of parameters and any bounds of signals and commands.
`ConnectionRunsUnfinished` and `ConnectionOneEventAtATime` are about every behaviour: the
assertions of the code fail only after one of the causes of findings 5 and 6, so that those are
all the ways there are. The others hold, in every behaviour, until the first of those causes
(`late = "none"`), and say nothing of what comes after it; TLC checks `FinishesAlone` and
`NothingOutlives` beyond it. None of the properties is inductive: each depends on where the tasks
of the connection stand in the queue. The inductive invariant `ConnInv` speaks of the queue only
through how often a task is in it (`Count`) and what does not come after what (`NoAfter`), and
has these parts:

- `Counted`: the machine's number of threads is that of the event thread at work, the finishes
  queued and the commands outstanding. `ConnectionFinishesAlone` is this, with the fact that
  nothing but the end of the round is queued behind the finish of the machine (`Ended`).
- `Resting` and `Working`: an event thread that is not at work has no run, timer or reply that
  would run it; one that is at work is woken by one thing at a time, out of a queued run, an
  operation, a timeout and a reply, but for the replies that `resume_completed` counts, of which
  there are never more than it still counts down. `ConnectionRunsUnfinished` needs this for
  every state: a second wakeup would run a thread the first has finished.
- `Signals`: the finish of the event thread never stands behind a signal in the queue, and a
  flag that is set while the machine runs has its signal on the right side of the select. That
  is why a REKEY packet, which comes at the select, finds the finish of the rekey before it
  already dispatched (`ConnectionOneEventAtATime`).
- `Closing`: a machine that closes has one continuation (its queued run, its running state, or
  the event thread it has continued), and no signal is queued behind it. `Control` and
  `Starting` say which tasks there can be in which state of the machine, `Unstarted` what is
  true before the first event, `Abortable` that the operation `st_close` aborts is the one that
  would call back.
- `Told`: the application that can still abort has been told nothing, and the status the close
  will report is not a success. With `Working` (only a rekey runs after a success) it gives the
  refinement.

There is one lemma per action, on top of lemmas about the kinds of step: the event thread goes
on, waits, yields, gives up, finishes or is woken; the machine is signalled, or asked to close.
`PrunedAll` and `Repeated` say what `silc_fsm_continue` and `silc_fsm_finish` take out of a
queue of any length and what a close of any number of commands adds to it; they are inductions
over a set of numbers, from `Loops`. `ConnectionKeepsLifecycle` maps each action to a step of
`ConnectionLifecycle` or a stutter: a success (`EstablishedSucceeds`), an abort, the close, the
deletion, a request to close, or nothing that the contract speaks of (`Continues`). It is the
safety part of `KeepsLifecycle`.

`SilcSke_proofs`: `SkeTypeCorrect`, `SkeKeyConfirmed`, `SkeCompletesOnce` and
`SkeWokenForItsReason`, for every kind of exchange (TCP or UDP, with or without proposals,
acknowledgements and verification), every limit of retransmissions, and every order of packets,
timeouts, aborts and frees, the verification of the key included. `SkeTypeCorrect` and
`SkeCompletesOnce` are unconditional, from an invariant of each side alone (`BaseInv`).
`SkeKeyConfirmed` and `SkeWokenForItsReason` hold until a datagram has overtaken a verification
or a key was not provided (`Led`, findings 1 and 9): late answers, and what causes them, are
included. `BothInvariants` carries `SkeInv` while the exchange is led, with the fact that who
verifies a key undisturbed still takes part in the exchange (`Calm`), and only the properties
themselves after a late answer has ended the behaviour; `LedBefore` says that the history forgets
nothing. The invariant `SkeInv` has for each side, from its own fields alone (`Local`):
references and what was told (`Lives`), the state that runs next (`Where`), how many runs are
queued and for which packet (`Woken`), what the verdict says about the result (`Verified`), what
may be sent again (`Resends`); and for both sides `Confirmed` (a SUCCESS on its way to the
initiator means that the responder has told success, which needs that the responder never repeats
it) and `InStream`. The last is about streams only and says what can be on its way in each pair
of states: two sides that still take part are in one of nine turns (`Turns`), a side that does
not know that the other has given up has at most the packet it waits for and a FAILURE behind it
(`Inbox`), a FAILURE is the last packet of its sender (`Last`), and a responder that has not
answered has heard at most the first packet (`NotAhead`). `WokenForItsReason` needs all of it
over a stream, where several packets may come in one read: that no second packet is due is a fact
about the other side. The proof has one lemma per kind of step of one SKE (it gives up, goes on,
ends, receives, is told of a failure, starts, is answered, is run), one per kind of change of the
stream, and one per action that puts them together.

`SilcRekey_proofs`: `RekeyTypeCorrect` without assumption, and `RekeyInStep` and `RekeySurvives`
for any number of rekeys and data packets under `OneInitiator(i)`: one end starts the rekeys and
the other hands the REKEY packet to its responder. Crossing rekeys and the client's own responder
(finding 2) break both. The inductive invariant `RekeyInv` says where the two ends are in the
protocol (`Roles`), that an end is closed or has sent a FAILURE only after a step that failed by
itself or ran out of time (`Faults`), and that the keys agree (`Agreement`): the control packets
in flight, with the key in use after each, lead from the sender's key to the receiver's, so that
data packets may be anywhere between them.

`ClientChannel_proofs`: `ChannelTypeCorrect`, `ChannelHeldAlive` and the action property
`ChannelKeyNeverOlder`, without hypothesis, for every scenario and any number of calls, events
and users. `ChannelInv` counts references from below: the entry has one for the cache, one
for each of its users and one for each suspended handler, so that the references the code
never gives back do not matter. A WHOIS is on its way once, keys are sent in the order they
are made, and a JOIN reply that waits is older than the keys behind it, which is what makes
the comparison of keys right that the code replaces by a guess (finding 4 is the case it gets
wrong, and not a case of `KeyNeverOlder`, since the client was off the channel in between).

`ChannelOldKeysReadable` is the fourth, for the scenarios without `"early"` (`Patient`), which it
needs: TLC finds a counterexample in `{"leave", "early", "kick"}`. `ReadInv` says that the first of
the old keys is NULL (`NullFirst`), so that no timer removes a key, and that the timers whose keys
are gone, which only LEAVE leaves behind, are older than the key the next JOIN brings
(`StaleBelow`), also while its reply is on its way or waits (`Due`). A LEAVE that is answered
behind a JOIN would break that, so it keeps the two commands in order from the call to the last
reply (`Course`, `LeaveKeys`). A step changes the two directions by taking some packets away and
putting others between that are neither (`Mix`); one lemma per action shows that it does.

`ClientCommand_proofs`: `CommandTypeCorrect`, `CommandPendingLive`,
`CommandReplyFindsItsCommand` and `CommandAnsweredOnce`, for any number of commands, any kinds
called and sent, lists of any length and any identifier to start from, under the assumptions of
the module only: `IdentAssumption`, that there are at least as many identifiers as commands, is
the one that matters. None of the properties is inductive. `CommandInv` adds:

- in which state of its thread a command may be pending, owed an answer or due as a task, and
  that a continued thread is due once (`PendingOK`, `AskedOK`, `TasksOK`); only a finished
  command has answered (`Thread`);
- a WHOIS that resolves clients waits for exactly as long as the reply that needs it, and no two
  of them wait for the same reply (`Kin`), which is what makes the answer of the one the only
  continuation of the other, also when the close ends many at a time; while the connection is
  up a reply that waits has such a WHOIS (`UpOK`);
- the n-th command has the n-th identifier after the one the run starts from (`IdentOK` with
  `Nth`), so that two commands have different ones although they wrap (`NthDiffer`);
- once the machine has finished the server owes nothing (`MachineOK`).

There is one lemma per action. Those of replies, timeouts and QUIT rest on one about sets `F` and
`N` of commands that finish with and without a final status (`FinishingSpec`, `FinishedKeeps`,
`UpFinished`), which the close uses for all the pending commands at once. The rounds of its loop
are an induction over the natural numbers, in which the claim is a set and the least number
outside it is refuted (`NatMin`, `NatInd` of `Loops`); `ClosedLoop` and `StillPendingLoop` show
that the recursive functions satisfy their equations.

Only model-checked: liveness, since fairness and ENABLED are out of the prover's reach
(`SignalledWaiterRuns`, the fairness in `KeepsLifecycle`, `AttemptEnds`, `StopCompletes`,
`ExchangeEnds`, `RekeyEnds`, `CommandsEnd`), and `Agrees` of `ClientChannel`, which does not hold
in every scenario (not with `"early"`, nor with `"kick"` and any other), so that its theorem would
be about a list of scenarios.

## Not modelled

- What connection authentication and TCP do inside; they are operations that complete or are
  aborted. Reference counts and sequence numbers of packet streams, padding, headers.
- `silc_client_init` with `params.threads`: the connection in a real thread of its own.
- The scheduler's task tables, the forty task limit of one dispatch, file descriptor tasks
  and UNIX signals.
- The effect of commands other than JOIN and LEAVE and of notifies other than JOIN, LEAVE and
  KICKED on the client's data; client and server entries and the ID cache; sending to a
  channel, channel private keys; private messages but for their key exchange.
- File transfer and SFTP, key agreement and listener, key repository, containers.
- Payload encoding, cryptography, mathematics, ASN.1, vCard, MIME (no concurrent state), and
  the vendored irssi and contrib code, which is most of the repository.

## Plan

1. Done: the modules above and their runs; the proofs above.
2. Proofs still worth having: `Agrees` of `ClientChannel` for the scenarios in which it holds.
3. Modules still worth writing: `SilcSchedule` (task tables, wakeup from another thread, deletion
   during dispatch; abstractly the bag of tasks `SilcFsm` uses), the streams of the packet
   engine as counted objects, client entries, file transfer.
