--------------------------- MODULE ClientCommand ---------------------------
(***************************************************************************)
(* The commands of one client connection: lib/silcclient/command.c and     *)
(* command_reply.c, with silc_client_connection_st_close of client.c, which *)
(* cancels them, and the resolving of client entries a reply may need      *)
(* (silc_client_get_clients_by_list, client_entry.c).                      *)
(*                                                                         *)
(* A command is a thread of the connection's machine.  silc_fsm_run of the *)
(* threads and of the machine is a task of the scheduler: a task due at    *)
(* once is appended to `tasks', and a timer of a waiting thread may fire   *)
(* between any two of them.  What runs inside one task is one action.      *)
(*                                                                         *)
(*   st          the thread of the command                                 *)
(*   idle        not called yet          gone     destroyed                *)
(*   delay       NICK (JOIN) waits 300 ms for a pending JOIN (NICK)        *)
(*   ask         OPER waits for the passphrase of the application          *)
(*   quit        QUIT waits two seconds before it closes the connection    *)
(*   wait        silc_client_command_reply_wait, forty seconds             *)
(*   resolve     a reply is being processed and waits for unknown clients  *)
(*   resume      silc_fsm_run is queued  finish   silc_fsm_finish_fsm is   *)
(***************************************************************************)
EXTENDS Naturals, Sequences, FiniteSets, SequencesExt

CONSTANTS
  MaxCmds,     \* bound on the commands of the run
  Kinds,       \* the commands the application calls
  SentKinds,   \* the commands it sends with silc_client_command_send
  MaxIdent,    \* the largest identifier: 2^16 - 1
  UsedIdents,  \* the last identifier taken before the run starts
  MaxItems     \* bound on the replies between the first and last of a list

ASSUME BoundAssumption == MaxCmds \in Nat /\ MaxItems \in Nat

(***************************************************************************)
(* A run takes fewer identifiers than there are: with 65535 of them and a  *)
(* reply awaited for at most a minute this is how long one stays in use.   *)
(***************************************************************************)
ASSUME IdentAssumption ==
  /\ MaxIdent \in Nat /\ MaxCmds <= MaxIdent
  /\ UsedIdents \subseteq 0..MaxIdent

(***************************************************************************)
(* Commands are numbered in the order they are allocated in.               *)
(***************************************************************************)
Cmd == 1..MaxCmds
None == 0

AllKinds == {"WHOIS", "NICK", "JOIN", "USERS", "OPER", "QUIT"}

ASSUME KindsAssumption == Kinds \subseteq AllKinds /\ SentKinds \subseteq AllKinds

(***************************************************************************)
(* The kinds whose reply may need clients resolved, those whose reply may  *)
(* be a list, and the pairs that are kept apart.                           *)
(***************************************************************************)
Resolving == {"JOIN", "USERS"}
Listing == {"WHOIS"}
Rival(k) == CASE k = "NICK" -> "JOIN" [] k = "JOIN" -> "NICK" [] OTHER -> "none"

VARIABLES
  cmd,          \* struct SilcClientCommandContext and its thread
  pending,      \* conn->internal->pending_commands
  ident,        \* conn->internal->cmd_ident
  asked,        \* commands the server has not answered completely
  attached,     \* commands a notify thread waits for (client_notify.c)
  disconnected, \* conn->internal->disconnected
  machine,      \* the connection machine: "run", "finish" or "gone"
  tasks         \* silc_fsm_run and silc_fsm_finish_fsm queued, in order

vars == <<cmd, pending, ident, asked, attached, disconnected, machine, tasks>>

Blank == [kind |-> "none", st |-> "idle", ident |-> 0, called |-> FALSE,
          parent |-> None, list |-> FALSE, answers |-> 0]

Freed == [Blank EXCEPT !.st = "gone"]

Init ==
  /\ cmd = [c \in Cmd |-> Blank]
  /\ pending = <<>>
  /\ ident \in UsedIdents
  /\ asked = {}
  /\ attached = {}
  /\ disconnected = FALSE
  /\ machine = "run"
  /\ tasks = <<>>

Task(do, c) == [do |-> do, cmd |-> c]
Fresh(c) == cmd[c].st = "idle" /\ \A d \in 1..(c - 1) : cmd[d].st # "idle"
Live(c) == cmd[c].st \notin {"idle", "gone"}
Pending(c) == Contains(pending, c)

(***************************************************************************)
(* silc_client_cmd_ident: sixteen bits, zero is no identifier.             *)
(*                                                                         *)
(* Mutants: zero is handed out as well; the counter is wider.              *)
(***************************************************************************)
CmdIdentWide(i) == i + 1
CmdIdentZero(i) == (i + 1) % (MaxIdent + 1)
CmdIdent(i) == IF i = MaxIdent THEN 1 ELSE i + 1

(***************************************************************************)
(* The command silc_client_command_reply finds for a reply: the first of   *)
(* the pending commands with its command and its identifier.               *)
(*                                                                         *)
(* Mutant: the command alone is compared.                                  *)
(***************************************************************************)
MatchesKind(c, r) == cmd[c].kind = r.kind
Matches(c, r) == cmd[c].kind = r.kind /\ cmd[c].ident = r.ident

Find(r) ==
  IF \E i \in 1..Len(pending) : Matches(pending[i], r)
  THEN pending[CHOOSE i \in 1..Len(pending) :
                 /\ Matches(pending[i], r)
                 /\ \A j \in 1..(i - 1) : ~ Matches(pending[j], r)]
  ELSE None

-----------------------------------------------------------------------------
(***************************************************************************)
(* silc_client_command_send_vap of command c, whose identifier is id: the  *)
(* packet is sent and the command is pending, unless the connection is     *)
(* disconnected.  The server does not answer QUIT.                         *)
(***************************************************************************)
SendVap(c, kind, id) ==
  IF disconnected
  THEN UNCHANGED <<pending, asked>>
  ELSE /\ pending' = Append(pending, c)
       /\ asked' = IF kind = "QUIT" THEN asked
                   ELSE asked \union {[owner |-> c, kind |-> kind, ident |-> id,
                                       items |-> 0]}

(***************************************************************************)
(* The state a command is in when its first state function returns.        *)
(***************************************************************************)
FirstWait(k) == CASE k = "QUIT" -> "quit" [] k = "OPER" -> "ask" [] OTHER -> "wait"

Delayed(k) == \E i \in 1..Len(pending) : cmd[pending[i]].kind = Rival(k)

(***************************************************************************)
(* silc_client_command_call.  The identifier is taken first; NICK and JOIN *)
(* wait while the other one is pending, OPER asks for a passphrase, the    *)
(* others are sent and wait for the reply.  A command whose send failed    *)
(* waits all the same.  The connection callback, which tells the           *)
(* application that the connection is gone, is called when it finishes.    *)
(***************************************************************************)
Call(c, k) ==
  /\ Fresh(c) /\ machine = "run"
  /\ LET id == CmdIdent(ident)
         new(st) == [Blank EXCEPT !.kind = k, !.st = st, !.ident = id,
                                  !.called = TRUE]
     IN /\ ident' = id
        /\ \/ /\ Delayed(k)
              /\ cmd' = [cmd EXCEPT ![c] = new("delay")]
              /\ UNCHANGED <<pending, asked>>
           \/ /\ ~ Delayed(k) /\ FirstWait(k) = "ask"
              /\ cmd' = [cmd EXCEPT ![c] = new("ask")]
              /\ UNCHANGED <<pending, asked>>
           \/ /\ ~ Delayed(k) /\ FirstWait(k) # "ask"
              /\ cmd' = [cmd EXCEPT ![c] = new(FirstWait(k))]
              /\ SendVap(c, k, id)
  /\ UNCHANGED <<attached, disconnected, machine, tasks>>

(***************************************************************************)
(* The same call when the command function finds its arguments wrong: the  *)
(* thread has never waited, so it is destroyed inside the call.            *)
(***************************************************************************)
CallRefused(c) ==
  /\ Fresh(c) /\ machine = "run"
  /\ ident' = CmdIdent(ident)
  /\ cmd' = [cmd EXCEPT ![c] = Freed]
  /\ UNCHANGED <<pending, asked, attached, disconnected, machine, tasks>>

(***************************************************************************)
(* silc_client_command_send and silc_client_command_send_argv for parent p *)
(* (None: the application's own callback).  The identifier is taken in     *)
(* silc_client_command_send_vap; when that returns 0 the command is freed: *)
(* it is not pending unless 0 is the identifier it was sent with.          *)
(***************************************************************************)
NewSent(c, k, p) ==
  [Blank EXCEPT !.kind = k, !.parent = p, !.ident = CmdIdent(ident),
                !.st = IF CmdIdent(ident) = 0 THEN "gone" ELSE "wait"]

Send(c, k) ==
  /\ Fresh(c) /\ machine = "run"
  /\ ~ disconnected
  /\ ident' = CmdIdent(ident)
  /\ cmd' = [cmd EXCEPT ![c] = NewSent(c, k, None)]
  /\ SendVap(c, k, CmdIdent(ident))
  /\ UNCHANGED <<attached, disconnected, machine, tasks>>

(***************************************************************************)
(* The 300 ms of a delayed NICK or JOIN: the state function runs again.    *)
(* It returns at once when the name is in use or the channel joined by     *)
(* now, waits again while the other is pending, and is sent otherwise.     *)
(***************************************************************************)
DelayTimer(c) ==
  /\ cmd[c].st = "delay" /\ machine # "gone"
  /\ \/ /\ cmd' = [cmd EXCEPT ![c].st = "finish"]
        /\ tasks' = Append(tasks, Task("finish", c))
        /\ UNCHANGED <<pending, asked>>
     \/ /\ ~ Delayed(cmd[c].kind)
        /\ cmd' = [cmd EXCEPT ![c].st = "wait"]
        /\ SendVap(c, cmd[c].kind, cmd[c].ident)
        /\ UNCHANGED tasks
  /\ UNCHANGED <<ident, attached, disconnected, machine>>

(***************************************************************************)
(* silc_client_command_oper_cb: the application has asked the user.        *)
(***************************************************************************)
Passphrase(c) ==
  /\ cmd[c].st = "ask" /\ machine # "gone"
  /\ cmd' = [cmd EXCEPT ![c].st = "resume"]
  /\ tasks' = Append(tasks, Task("run", c))
  /\ UNCHANGED <<pending, ident, asked, attached, disconnected, machine>>

-----------------------------------------------------------------------------
(***************************************************************************)
(* silc_client_command_callback of command c.  With a final status the     *)
(* completion of silc_client_get_clients_list_cb continues the command     *)
(* whose reply waits for c: JOIN at once, which then completes and         *)
(* finishes, USERS through the scheduler.  Other statuses continue nobody. *)
(***************************************************************************)
Continued(c) == IF cmd[c].parent = None THEN {} ELSE {cmd[c].parent}

ContinuedTasks(c) ==
  IF cmd[c].parent = None THEN <<>>
  ELSE <<Task(IF cmd[cmd[c].parent].kind = "JOIN" THEN "finish" ELSE "run",
              cmd[c].parent)>>

Resumed(p) ==
  IF cmd[p].kind = "JOIN"
  THEN [cmd[p] EXCEPT !.st = "finish", !.answers = @ + 1]
  ELSE [cmd[p] EXCEPT !.st = "resume"]

(***************************************************************************)
(* The commands F of which a final status is delivered and which finish,   *)
(* and the commands N which finish without one.                            *)
(***************************************************************************)
Finishing(F, N) ==
  [c \in Cmd |->
    IF c \in F THEN [cmd[c] EXCEPT !.st = "finish", !.answers = @ + 1]
    ELSE IF c \in N THEN [cmd[c] EXCEPT !.st = "finish"]
    ELSE IF \E d \in F : c \in Continued(d) THEN Resumed(c)
    ELSE cmd[c]]

FinishTasks(c, final) ==
  (IF final THEN ContinuedTasks(c) ELSE <<>>) \o <<Task("finish", c)>>

(***************************************************************************)
(* silc_client_command_reply_timeout.  On a disconnected connection a      *)
(* called command ends without a callback, and in a sent one status keeps  *)
(* that of the last reply: within a list ERROR_CALLBACK delivers that,     *)
(* which is not final.                                                     *)
(*                                                                         *)
(* Mutants: the status is not reset on a connection that is up; a command  *)
(* is not taken off the pending ones.                                      *)
(***************************************************************************)
TimeoutFinalKept(c) == ~ cmd[c].list /\ (disconnected => ~ cmd[c].called)
TimeoutFinal(c) == disconnected => ~ cmd[c].called /\ ~ cmd[c].list

UnpendedNot(c) == pending
Unpended(c) == RemoveFirst(pending, c)

ReplyTimeout(c) ==
  /\ cmd[c].st = "wait" /\ machine # "gone"
  /\ pending' = Unpended(c)
  /\ cmd' = IF TimeoutFinal(c) THEN Finishing({c}, {}) ELSE Finishing({}, {c})
  /\ attached' = IF TimeoutFinal(c) THEN attached \ {c} ELSE attached
  /\ tasks' = tasks \o FinishTasks(c, TimeoutFinal(c))
  /\ UNCHANGED <<ident, asked, disconnected, machine>>

-----------------------------------------------------------------------------
(***************************************************************************)
(* The next replies of the server to a command: one reply or an error, or  *)
(* a list with a first, MaxItems more and a last one.                      *)
(***************************************************************************)
Answers(r) ==
  IF r.items > 0
  THEN IF r.items <= MaxItems THEN {"list_item", "list_end"} ELSE {"list_end"}
  ELSE {"ok", "error"} \union IF r.kind \in Listing THEN {"list_start"} ELSE {}

Final(status) == status \in {"ok", "error", "list_end"}

Served(r, status) ==
  IF Final(status) THEN asked \ {r}
  ELSE (asked \ {r}) \union {[r EXCEPT !.items = @ + 1]}

(***************************************************************************)
(* A reply that belongs to no pending command is dropped.                  *)
(***************************************************************************)
ReplyUnknown(r, status) ==
  /\ Find(r) = None
  /\ asked' = Served(r, status)
  /\ UNCHANGED <<cmd, pending, ident, attached, disconnected, machine, tasks>>

(***************************************************************************)
(* silc_client_command_reply with silc_client_command_reply_process and    *)
(* _processed: the command is taken off the pending ones, its timer is     *)
(* cancelled, the callbacks are called; after the last reply the thread    *)
(* finishes, otherwise the command is pending again.                       *)
(***************************************************************************)
ReplyPlain(r, status) ==
  LET c == Find(r) IN
  /\ c # None
  /\ cmd[c].kind \notin Resolving \/ status = "error"
  /\ IF Final(status)
     THEN /\ pending' = Unpended(c)
          /\ cmd' = Finishing({c}, {})
          /\ attached' = attached \ {c}
          /\ tasks' = tasks \o FinishTasks(c, TRUE)
     ELSE /\ pending' = Append(Unpended(c), c)
          /\ cmd' = [cmd EXCEPT ![c].list = TRUE]
          /\ UNCHANGED <<attached, tasks>>
  /\ asked' = Served(r, status)
  /\ UNCHANGED <<ident, disconnected, machine>>

(***************************************************************************)
(* The reply of JOIN or USERS names only clients that are known: the       *)
(* completion is called inside silc_client_get_clients_by_list.            *)
(***************************************************************************)
ReplyKnown(r) ==
  LET c == Find(r) IN
  /\ c # None /\ cmd[c].kind \in Resolving
  /\ pending' = Unpended(c)
  /\ cmd' = Finishing({c}, {})
  /\ attached' = attached \ {c}
  /\ tasks' = tasks \o FinishTasks(c, TRUE)
  /\ asked' = Served(r, "ok")
  /\ UNCHANGED <<ident, disconnected, machine>>

(***************************************************************************)
(* It names unknown clients: WHOIS is sent for them, as command d, and the *)
(* reply waits.  On a disconnected connection nothing is sent, and         *)
(* silc_client_get_clients_by_list returns without calling the completion. *)
(***************************************************************************)
ReplyUnresolved(r, d) ==
  LET c == Find(r) IN
  /\ c # None /\ cmd[c].kind \in Resolving
  /\ Fresh(d)
  /\ IF disconnected
     THEN /\ cmd' = [cmd EXCEPT ![c].st = "resolve"]
          /\ pending' = Unpended(c)
          /\ asked' = Served(r, "ok")
          /\ UNCHANGED ident
     ELSE /\ cmd' = [cmd EXCEPT ![c].st = "resolve",
                                ![d] = NewSent(d, "WHOIS", c)]
          /\ ident' = CmdIdent(ident)
          /\ pending' = Append(Unpended(c), d)
          /\ asked' = Served(r, "ok") \union
                        {[owner |-> d, kind |-> "WHOIS",
                          ident |-> CmdIdent(ident), items |-> 0]}
  /\ UNCHANGED <<attached, disconnected, machine, tasks>>

Reply ==
  /\ machine # "gone"
  /\ \E r \in asked :
       \/ \E status \in Answers(r) :
            ReplyUnknown(r, status) \/ ReplyPlain(r, status)
       \/ ReplyKnown(r)
       \/ \E d \in Cmd : ReplyUnresolved(r, d)

(***************************************************************************)
(* A notify of a channel whose users are being resolved attaches to the    *)
(* resolving command and waits (silc_client_command_pending).              *)
(***************************************************************************)
Attach(c) ==
  /\ machine # "gone"
  /\ cmd[c].parent # None /\ Pending(c) /\ c \notin attached
  /\ cmd[cmd[c].parent].kind = "JOIN"
  /\ attached' = attached \union {c}
  /\ UNCHANGED <<cmd, pending, ident, asked, disconnected, machine, tasks>>

-----------------------------------------------------------------------------
(***************************************************************************)
(* The connection is told to close: by the application, a DISCONNECT, the  *)
(* end of the stream, or QUIT.  The machine is signalled once.             *)
(***************************************************************************)
Signalled == IF disconnected THEN tasks ELSE Append(tasks, Task("close", None))

Disconnect ==
  /\ machine = "run" /\ ~ disconnected
  /\ disconnected' = TRUE
  /\ tasks' = Signalled
  /\ UNCHANGED <<cmd, pending, ident, asked, attached, machine>>

(***************************************************************************)
(* silc_client_command_quit_final.  The command stays pending until its    *)
(* destructor runs.                                                        *)
(***************************************************************************)
QuitTimer(c) ==
  /\ cmd[c].st = "quit" /\ machine # "gone"
  /\ cmd' = Finishing({}, {c})
  /\ disconnected' = TRUE
  /\ tasks' = Append(Signalled, Task("finish", c))
  /\ UNCHANGED <<pending, ident, asked, attached, machine>>

Due(do) == tasks # <<>> /\ Head(tasks).do = do /\ machine # "gone"

(***************************************************************************)
(* silc_client_connection_st_close with commands pending: the thread of    *)
(* each, when it is started, is continued: reply_timeout or quit_final     *)
(* runs in it.  The machine yields.  Closed and StillPending are the tasks *)
(* and the list after the first i pending commands of the loop.            *)
(***************************************************************************)
Woken == {c \in Cmd : Pending(c) /\ cmd[c].st \in {"wait", "quit"}}
WokenFinal == {c \in Woken : cmd[c].st = "wait" /\ TimeoutFinal(c)}

Closed[i \in 0..Len(pending)] ==
  IF i = 0 THEN Tail(tasks)
  ELSE Closed[i - 1] \o
         IF pending[i] \in Woken
         THEN FinishTasks(pending[i], pending[i] \in WokenFinal) ELSE <<>>

StillPending[i \in 0..Len(pending)] ==
  IF i = 0 THEN <<>>
  ELSE StillPending[i - 1] \o
         IF cmd[pending[i]].st = "wait" THEN <<>> ELSE <<pending[i]>>

CloseCommands ==
  /\ Due("close") /\ pending # <<>>
  /\ pending' = StillPending[Len(pending)]
  /\ cmd' = Finishing(WokenFinal, Woken \ WokenFinal)
  /\ attached' = attached \ WokenFinal
  /\ tasks' = Append(Closed[Len(pending)], Task("close", None))
  /\ UNCHANGED <<ident, asked, disconnected, machine>>

(***************************************************************************)
(* The same state with no command pending: the packet stream is destroyed, *)
(* so no reply arrives any more.  (What else the state closes is the       *)
(* subject of ClientConnection.)                                           *)
(***************************************************************************)
CloseMachine ==
  /\ Due("close") /\ pending = <<>>
  /\ machine' = "finish"
  /\ asked' = {}
  /\ tasks' = Append(Tail(tasks), Task("destroy", None))
  /\ UNCHANGED <<cmd, pending, ident, attached, disconnected>>

(***************************************************************************)
(* silc_fsm_finish_fsm of the machine, which frees the connection and      *)
(* asserts that it has no thread left, and of a command's thread, whose    *)
(* destructor takes the command off the pending ones and frees it.         *)
(***************************************************************************)
Destroy ==
  /\ Due("destroy")
  /\ machine' = "gone"
  /\ cmd' = [c \in Cmd |-> Freed]
  /\ pending' = <<>>
  /\ attached' = {}
  /\ tasks' = <<>>
  /\ UNCHANGED <<ident, asked, disconnected>>

FinishThread ==
  /\ Due("finish")
  /\ LET c == Head(tasks).cmd IN
       /\ cmd' = [cmd EXCEPT ![c] = Freed]
       /\ pending' = Unpended(c)
  /\ tasks' = Tail(tasks)
  /\ UNCHANGED <<ident, asked, attached, disconnected, machine>>

(***************************************************************************)
(* A continued thread: silc_client_command_oper_send, or the reply of      *)
(* USERS after its clients have been resolved.                             *)
(***************************************************************************)
RunOper ==
  /\ Due("run") /\ cmd[Head(tasks).cmd].kind = "OPER"
  /\ LET c == Head(tasks).cmd IN
       /\ cmd' = [cmd EXCEPT ![c].st = "wait"]
       /\ SendVap(c, "OPER", cmd[c].ident)
  /\ tasks' = Tail(tasks)
  /\ UNCHANGED <<ident, attached, disconnected, machine>>

RunUsers ==
  /\ Due("run") /\ cmd[Head(tasks).cmd].kind = "USERS"
  /\ LET c == Head(tasks).cmd IN
       /\ cmd' = Finishing({c}, {})
       /\ tasks' = Append(Tail(tasks), Task("finish", c))
  /\ UNCHANGED <<pending, ident, asked, attached, disconnected, machine>>

Scheduled ==
  \/ CloseCommands \/ CloseMachine \/ Destroy
  \/ FinishThread \/ RunOper \/ RunUsers

Next ==
  \/ Scheduled \/ Reply \/ Disconnect
  \/ \E c \in Cmd :
       \/ \E k \in Kinds : Call(c, k)
       \/ \E k \in SentKinds : Send(c, k)
       \/ CallRefused(c)
       \/ DelayTimer(c) \/ Passphrase(c) \/ ReplyTimeout(c) \/ QuitTimer(c)
       \/ Attach(c)

Spec == Init /\ [][Next]_vars

(***************************************************************************)
(* The scheduler goes on dispatching its tasks and its timers, and the     *)
(* application answers when it is asked for a passphrase.  Nothing is      *)
(* assumed of the server.                                                  *)
(***************************************************************************)
Timers ==
  \E c \in Cmd :
    DelayTimer(c) \/ ReplyTimeout(c) \/ QuitTimer(c) \/ Passphrase(c)

FairSpec == Spec /\ WF_vars(Scheduled \/ Timers)

-----------------------------------------------------------------------------
(***************************************************************************)
(* The command contexts, the pending list, the server's queue and the      *)
(* tasks hold what the code puts there; no command is pending twice.       *)
(***************************************************************************)
TypeOK ==
  /\ cmd \in [Cmd -> [kind : AllKinds \union {"none"},
                      st : {"idle", "delay", "ask", "quit", "wait", "resolve",
                            "resume", "finish", "gone"},
                      ident : 0..MaxIdent, called : BOOLEAN,
                      parent : Cmd \union {None}, list : BOOLEAN,
                      answers : 0..2]]
  /\ pending \in Seq(Cmd) /\ IsInjective(pending)
  /\ ident \in 0..MaxIdent
  /\ asked \subseteq [owner : Cmd, kind : AllKinds, ident : 0..MaxIdent,
                      items : 0..(MaxItems + 1)]
  /\ attached \subseteq Cmd
  /\ disconnected \in BOOLEAN
  /\ machine \in {"run", "finish", "gone"}
  /\ tasks \in Seq([do : {"run", "finish", "close", "destroy"},
                    cmd : Cmd \union {None}])

(***************************************************************************)
(* The list of pending commands holds no freed command, and a command that *)
(* awaits an answer the server owes is on it: a thread is either freed by  *)
(* its destructor and off the list, or in the wait that a reply, the       *)
(* timeout or the close will end.                                          *)
(***************************************************************************)
PendingLive ==
  /\ \A i \in 1..Len(pending) : cmd[pending[i]].st \in {"wait", "quit", "finish"}
  /\ \A r \in asked : cmd[r.owner].st = "wait" => Pending(r.owner)

(***************************************************************************)
(* Every reply of the server meets the command it answers or, when that    *)
(* has timed out or been cancelled, none, also after the identifiers have  *)
(* wrapped.                                                                *)
(***************************************************************************)
ReplyFindsItsCommand == \A r \in asked : Find(r) \in {r.owner, None}

(***************************************************************************)
(* No command delivers two final statuses.  While the connection is up a   *)
(* command that finishes has delivered one, unless it is a NICK or JOIN    *)
(* given up before it was sent, and whoever waits for a command (a reply   *)
(* that needs clients resolved, a notify) waits for one that still will.   *)
(***************************************************************************)
AnsweredOnce ==
  /\ \A c \in Cmd : cmd[c].answers <= 1
  /\ ~ disconnected =>
       /\ \A c \in Cmd : cmd[c].st = "finish" =>
            \/ cmd[c].answers = 1
            \/ cmd[c].called /\ cmd[c].kind \in {"NICK", "JOIN"}
       /\ \A c \in Cmd : cmd[c].st = "resolve" =>
            \E d \in Cmd : cmd[d].parent = c /\ cmd[d].st = "wait"
       /\ \A c \in attached : cmd[c].st = "wait"

(***************************************************************************)
(* Once the application stops calling, every command ends, whatever the    *)
(* server answers, and a connection that was told to close is destroyed.   *)
(***************************************************************************)
CommandsEnd ==
  []<>(\/ machine = "gone"
       \/ ~ disconnected /\ \A c \in Cmd : ~ Live(c))

(***************************************************************************)
(* The machine of the connection has no thread left when it is destroyed   *)
(* (the assertion of silc_fsm_finish_fsm): the close has ended every       *)
(* command, whatever it was waiting for.                                   *)
(***************************************************************************)
ThreadsFinished ==
  Due("destroy") => (\A c \in Cmd : ~ Live(c)) /\ attached = {}
=============================================================================
