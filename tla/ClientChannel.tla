--------------------------- MODULE ClientChannel ---------------------------
(***************************************************************************)
(* One channel as a client connection keeps it: the channel entry, its     *)
(* references and its list of users (client_entry.c, client_channel.c),    *)
(* the channel key and the keys it replaced, and the packets that change   *)
(* them: the replies to JOIN and LEAVE (command_reply.c), the notifies     *)
(* JOIN, LEAVE and KICKED (client_notify.c), CHANNEL_KEY and               *)
(* CHANNEL_MESSAGE (client_channel.c).                                     *)
(*                                                                         *)
(* The packets of the server arrive in the order they were sent in, and    *)
(* each is handled at once by a thread of the connection.  A handler that  *)
(* meets an unknown client sends WHOIS and goes on when its reply arrives; *)
(* until then the other packets overtake it.                               *)
(***************************************************************************)
EXTENDS Naturals, Sequences, FiniteSets, SequencesExt

CONSTANTS
  Scenarios,  \* sets of what the application and the server do in one run
  MaxJoins,   \* bound on the calls of JOIN, and of LEAVE
  MaxEvents,  \* bound on what the other client and the operators do
  MaxResolves \* bound on the WHOIS sent before one that times out is repeated

ASSUME ScenarioAssumption ==
  Scenarios \subseteq SUBSET {"leave", "early", "kick", "message", "fails"}

ASSUME BoundAssumption ==
  MaxJoins \in Nat /\ MaxEvents \in Nat /\ MaxResolves \in Nat

(***************************************************************************)
(* "peer" stands for the other users of the channel.  Keys are numbered in *)
(* the order in which the server makes them.                               *)
(***************************************************************************)
User == {"self", "peer"}
NoKey == 0

VARIABLES
  acts,     \* the scenario of this run
  entry,    \* the SilcChannelEntry; refs = 0 when there is none
  joining,  \* a JOIN command is under way
  leaving,  \* a LEAVE command is under way
  waiting,  \* for each WHOIS so far, the notifies attached to it
  up,       \* commands on their way to the server
  down,     \* packets on their way to the client
  server,   \* the channel at the server
  used      \* JOIN and LEAVE calls and events so far

vars == <<acts, entry, joining, leaving, waiting, up, down, server, used>>

NoEntry == [refs |-> 0, cached |-> FALSE, users |-> {}, key |-> NoKey,
            old |-> <<>>, timers |-> <<>>, resolving |-> 0]

Packet(kind, key, users) ==
  [kind |-> kind, key |-> key, users |-> users, retry |-> FALSE]

Init ==
  /\ acts \in Scenarios
  /\ entry = NoEntry
  /\ joining = FALSE /\ leaving = FALSE
  /\ waiting = <<>> /\ up = <<>> /\ down = <<>>
  /\ server = [key |-> 1, since |-> 1, users |-> {"peer"}]
  /\ used = [joins |-> 0, leaves |-> 0, events |-> 0]

-----------------------------------------------------------------------------
(* The channel entry.                                                      *)

Exists(c) == c.refs > 0
Ref(c) == [c EXCEPT !.refs = @ + 1]

(***************************************************************************)
(* silc_client_unref_channel: the last reference frees the entry, its keys *)
(* and its timers.                                                         *)
(***************************************************************************)
Unref(c) == IF c.refs = 1 THEN NoEntry ELSE [c EXCEPT !.refs = @ - 1]

(***************************************************************************)
(* silc_client_get_channel, and silc_client_add_channel for a channel that *)
(* is not in the cache: the cache's reference and the caller's.            *)
(*                                                                         *)
(* Mutant: the caller takes none of its own.                               *)
(***************************************************************************)
GetOrAddOne(c) ==
  IF Exists(c) THEN Ref(c) ELSE [NoEntry EXCEPT !.refs = 1, !.cached = TRUE]
GetOrAdd(c) ==
  IF Exists(c) THEN Ref(c) ELSE [NoEntry EXCEPT !.refs = 2, !.cached = TRUE]

(***************************************************************************)
(* silc_client_del_channel gives back the cache's reference, once.         *)
(***************************************************************************)
Del(c) == IF c.cached THEN Unref([c EXCEPT !.cached = FALSE]) ELSE c

(***************************************************************************)
(* silc_client_add_to_channel, silc_client_remove_from_channel and         *)
(* silc_client_empty_channel: every user holds a reference.  The channel   *)
(* whose last user is removed is deleted.  Their callers hold a reference. *)
(***************************************************************************)
AddUsers(c, us) ==
  [c EXCEPT !.users = @ \union us, !.refs = @ + Cardinality(us \ c.users)]

RemoveUser(c, u) ==
  LET less == [c EXCEPT !.users = @ \ {u}]
  IN  IF u \notin c.users THEN c
      ELSE Unref(IF less.users = {} THEN Del(less) ELSE less)

Empty(c) == [c EXCEPT !.users = {}, !.refs = @ - Cardinality(c.users)]

(***************************************************************************)
(* silc_client_save_channel_key: the key in use, which is NULL the first   *)
(* time, goes to the end of the old keys, with a timer of its own.         *)
(***************************************************************************)
SaveKey(c, k) ==
  [c EXCEPT !.old = Append(@, c.key), !.timers = Append(@, c.key), !.key = k]

(***************************************************************************)
(* silc_client_save_channel_key_rekey, fifteen seconds later: the first of *)
(* the old keys is removed, unless there is none or it is NULL, which the  *)
(* list returns at its end.                                                *)
(*                                                                         *)
(* Mutant: an empty place at the head of the list is removed as well.      *)
(***************************************************************************)
ExpiredAny(c) ==
  [c EXCEPT !.timers = Tail(@), !.old = IF @ # <<>> THEN Tail(@) ELSE @]
Expired(c) ==
  [c EXCEPT !.timers = Tail(@),
            !.old = IF @ # <<>> /\ Head(@) # NoKey THEN Tail(@) ELSE @]

Expire ==
  /\ entry.timers # <<>>
  /\ entry' = Expired(entry)
  /\ UNCHANGED <<acts, joining, leaving, waiting, up, down, server, used>>

-----------------------------------------------------------------------------
(* The commands of the application.                                        *)

(***************************************************************************)
(* silc_client_command_join: nothing is sent when we are on the channel.   *)
(***************************************************************************)
CallJoin ==
  /\ ~ joining /\ used.joins < MaxJoins
  /\ "self" \notin entry.users
  /\ joining' = TRUE
  /\ up' = Append(up, [kind |-> "join"])
  /\ used' = [used EXCEPT !.joins = @ + 1]
  /\ UNCHANGED <<acts, entry, leaving, waiting, down, server>>

(***************************************************************************)
(* silc_client_command_leave asks for the entry alone, so a channel may be *)
(* left twice.  The application leaves no channel while it joins it,       *)
(* unless the scenario is "early".                                         *)
(***************************************************************************)
CallLeave ==
  /\ "leave" \in acts /\ ~ leaving /\ used.leaves < MaxJoins
  /\ Exists(entry)
  /\ ~ joining \/ "early" \in acts
  /\ leaving' = TRUE
  /\ up' = Append(up, [kind |-> "leave"])
  /\ used' = [used EXCEPT !.leaves = @ + 1]
  /\ UNCHANGED <<acts, entry, joining, waiting, down, server>>

-----------------------------------------------------------------------------
(***************************************************************************)
(* The server (external).  It answers commands in their order.  A user who *)
(* joins or leaves makes it generate a key, which the users of the channel *)
(* get after the notify, and the one who joins in the reply.               *)
(***************************************************************************)
Joined(u) ==
  LET k == server.key + 1 IN
  server' = [key |-> k, since |-> IF u = "self" THEN k ELSE server.since,
             users |-> server.users \union {u}]

Left(u) ==
  server' = [server EXCEPT !.key = @ + 1, !.users = @ \ {u}]

ServeJoin ==
  /\ up # <<>> /\ Head(up).kind = "join"
  /\ up' = Tail(up)
  /\ \/ /\ Joined("self")
        /\ down' = Append(down, Packet("join", server'.key, server'.users))
     \/ /\ "fails" \in acts
        /\ down' = Append(down, Packet("refused", NoKey, {}))
        /\ UNCHANGED server
  /\ UNCHANGED <<acts, entry, joining, leaving, waiting, used>>

ServeLeave ==
  /\ up # <<>> /\ Head(up).kind = "leave"
  /\ up' = Tail(up)
  /\ \/ /\ "self" \in server.users
        /\ Left("self")
        /\ down' = Append(down, Packet("leave", NoKey, {}))
     \/ /\ "self" \notin server.users
        /\ down' = Append(down, Packet("not_on_channel", NoKey, {}))
        /\ UNCHANGED server
  /\ UNCHANGED <<acts, entry, joining, leaving, waiting, used>>

ServeWhois ==
  /\ up # <<>> /\ Head(up).kind = "whois"
  /\ up' = Tail(up)
  /\ \E ok \in {TRUE} \union {b \in {FALSE} : "fails" \in acts} :
       down' = Append(down, [Head(up) EXCEPT !.ok = ok])
  /\ UNCHANGED <<acts, entry, joining, leaving, waiting, server, used>>

Event ==
  /\ used.events < MaxEvents
  /\ used' = [used EXCEPT !.events = @ + 1]

(***************************************************************************)
(* The other user joins or leaves, an operator kicks us, and the other     *)
(* user speaks: with the key in use or, when the new one has not reached   *)
(* it, with the one before, but always with a key that we were given.      *)
(***************************************************************************)
PeerMoves ==
  /\ Event
  /\ IF "peer" \in server.users THEN Left("peer") ELSE Joined("peer")
  /\ LET n == IF "peer" \in server.users THEN "left" ELSE "joined" IN
     down' = IF "self" \in server.users
             THEN down \o <<Packet(n, NoKey, {"peer"}),
                            Packet("key", server'.key, {})>>
             ELSE down
  /\ UNCHANGED <<acts, entry, joining, leaving, waiting, up>>

Kick ==
  /\ "kick" \in acts /\ Event
  /\ "self" \in server.users
  /\ Left("self")
  /\ down' = Append(down, Packet("kicked", NoKey, {"self"}))
  /\ UNCHANGED <<acts, entry, joining, leaving, waiting, up>>

Say ==
  /\ "message" \in acts /\ Event
  /\ server.users = User
  /\ \E k \in {server.key, server.key - 1} :
       /\ k >= server.since
       /\ down' = Append(down, Packet("message", k, {"peer"}))
  /\ UNCHANGED <<acts, entry, joining, leaving, waiting, up, server>>

-----------------------------------------------------------------------------
(* What the handlers of the client do.                                     *)

Arrived(kind) == down # <<>> /\ Head(down).kind = kind
Taken == down' = Tail(down)

(***************************************************************************)
(* A handler sends WHOIS for an unknown client and is suspended, with the  *)
(* packet `p'.  The commands are numbered.                                 *)
(***************************************************************************)
NewWhois == Len(waiting) + 1

Suspend(p) ==
  /\ waiting' = Append(waiting, <<>>)
  /\ up' = Append(up, [kind |-> "whois", id |-> NewWhois, for |-> p, ok |-> FALSE])

(***************************************************************************)
(* The rest of silc_client_command_reply_join, once the users are known:   *)
(* the users of the reply are added, and its key is saved if there is none *)
(* yet.                                                                    *)
(*                                                                         *)
(* Mutant: the key of the reply is always saved.                           *)
(***************************************************************************)
JoinedChannelAlways(c, p) ==
  Unref(SaveKey(AddUsers(c, p.users), p.key))
JoinedChannel(c, p) ==
  LET added == AddUsers(c, p.users)
  IN  Unref(IF added.key = NoKey THEN SaveKey(added, p.key) ELSE added)

ReplyJoin ==
  /\ Arrived("join") /\ Taken
  /\ \/ /\ entry' = JoinedChannel(GetOrAdd(entry), Head(down))
        /\ joining' = FALSE
        /\ UNCHANGED <<up, waiting>>
     \/ /\ ~ Head(down).retry /\ Head(down).users # {"self"}
        /\ Suspend(Head(down))
        /\ entry' = [GetOrAdd(entry) EXCEPT !.resolving = NewWhois]
        /\ UNCHANGED joining
  /\ UNCHANGED <<acts, leaving, server, used>>

(***************************************************************************)
(* CHECK_STATUS: a reply with an error ends the command.                   *)
(***************************************************************************)
ReplyError ==
  /\ Arrived("refused") \/ Arrived("not_on_channel")
  /\ Taken
  /\ joining' = (joining /\ ~ Arrived("refused"))
  /\ leaving' = (leaving /\ ~ Arrived("not_on_channel"))
  /\ UNCHANGED <<acts, entry, waiting, up, server, used>>

(***************************************************************************)
(* silc_client_command_reply_leave takes a reference that it does not give *)
(* back.  The keys are freed; the timers of the old ones go on.            *)
(***************************************************************************)
LeftChannel(c) ==
  Del(Empty([RemoveUser(Ref(c), "self") EXCEPT !.key = NoKey, !.old = <<>>]))

ReplyLeave ==
  /\ Arrived("leave") /\ Taken
  /\ entry' = IF Exists(entry) THEN LeftChannel(entry) ELSE entry
  /\ leaving' = FALSE
  /\ UNCHANGED <<acts, joining, waiting, up, server, used>>

(***************************************************************************)
(* What the notifies do to the entry: someone joined, someone left, we     *)
(* were kicked.  The handler holds a reference while it does it.           *)
(*                                                                         *)
(* Mutant: the one who is kicked is taken off the list, but the entry is   *)
(* not emptied.                                                            *)
(***************************************************************************)
NotifiedKeep(c, n) ==
  CASE n = "joined" -> Unref(AddUsers(Ref(c), {"peer"}))
    [] n = "left" -> Unref(RemoveUser(Ref(c), "peer"))
    [] n = "kicked" -> Unref(Del(Ref(c)))
Notified(c, n) ==
  CASE n = "joined" -> Unref(AddUsers(Ref(c), {"peer"}))
    [] n = "left" -> Unref(RemoveUser(Ref(c), "peer"))
    [] n = "kicked" -> Unref(Del(Empty(Ref(c))))

(***************************************************************************)
(* A notify for an unknown channel is ignored, one for a channel that is   *)
(* being resolved waits for that, and one about an unknown client has it   *)
(* resolved with a reference to the channel.                               *)
(***************************************************************************)
Notify(n) ==
  /\ Arrived(n) /\ Taken
  /\ \/ /\ ~ Exists(entry)
        /\ UNCHANGED <<entry, waiting, up>>
     \/ /\ Exists(entry) /\ entry.resolving # 0
        /\ waiting' = [waiting EXCEPT ![entry.resolving] = Append(@, Head(down))]
        /\ UNCHANGED <<entry, up>>
     \/ /\ Exists(entry) /\ entry.resolving = 0
        /\ n # "left" /\ ~ Head(down).retry
        /\ Suspend(Head(down))
        /\ entry' = [Ref(entry) EXCEPT !.resolving = NewWhois]
     \/ /\ Exists(entry) /\ entry.resolving = 0
        /\ entry' = Notified(entry, n)
        /\ UNCHANGED <<waiting, up>>
  /\ UNCHANGED <<acts, joining, leaving, server, used>>

(***************************************************************************)
(* silc_client_channel_key: a key for an unknown channel is dropped.       *)
(***************************************************************************)
ChannelKey ==
  /\ Arrived("key") /\ Taken
  /\ entry' = IF Exists(entry) THEN SaveKey(entry, Head(down).key) ELSE entry
  /\ UNCHANGED <<acts, joining, leaving, waiting, up, server, used>>

(***************************************************************************)
(* silc_client_channel_message: the sender is resolved first.  A message   *)
(* for no channel is dropped; the state that drops one whose sender is not *)
(* on the channel keeps the reference to the channel.                      *)
(***************************************************************************)
ChannelMessage ==
  /\ Arrived("message") /\ Taken
  /\ \/ /\ ~ Head(down).retry /\ "peer" \notin entry.users
        /\ Suspend(Head(down))
        /\ UNCHANGED entry
     \/ /\ entry' = IF Exists(entry) /\ "peer" \notin entry.users
                    THEN Ref(entry) ELSE entry
        /\ UNCHANGED <<up, waiting>>
  /\ UNCHANGED <<acts, joining, leaving, server, used>>

(***************************************************************************)
(* The handler of `p' starts again, and resolves the client no more.       *)
(***************************************************************************)
Again(p) == [p EXCEPT !.retry = TRUE]

(***************************************************************************)
(* What starts again when the WHOIS `r' has ended without the client: the  *)
(* reply to JOIN, which adds the users that are valid by then; the notify  *)
(* JOIN, if the time was out and not an error returned, to find the client *)
(* valid by then or resolve it once more; nothing else.                    *)
(***************************************************************************)
Unresolved(r) ==
  CASE r.for.kind = "join" ->
         {<<[Again(r.for) EXCEPT !.users = us]>> :
            us \in {r.for.users, r.for.users \ {"peer"}}}
    [] r.for.kind = "joined" /\ Len(waiting) < MaxResolves ->
         {<<>>, <<r.for>>}
    [] OTHER -> {<<>>}

Resolved(r) == IF r.ok THEN {<<Again(r.for)>>} ELSE Unresolved(r)

(***************************************************************************)
(* The reply to a WHOIS, or its timeout.                                   *)
(* silc_client_command_reply_join_resolved or silc_client_notify_resolved  *)
(* gives the reference back, and the handler starts again at once, before  *)
(* the notifies that waited for the same WHOIS; a message                  *)
(* (silc_client_channel_message_resolved) starts again as a task, after    *)
(* whatever arrives before it.                                             *)
(***************************************************************************)
WhoisResolved ==
  /\ Arrived("whois")
  /\ LET r == Head(down) IN
     \E first \in Resolved(r) :
       \/ /\ r.for.kind # "message"
          /\ entry' = Unref([entry EXCEPT !.resolving = 0])
          /\ down' = first \o waiting[r.id] \o Tail(down)
       \/ /\ r.for.kind = "message"
          /\ \E i \in 0..Len(Tail(down)) :
               down' = SubSeq(Tail(down), 1, i) \o first
                       \o SubSeq(Tail(down), i + 1, Len(Tail(down)))
          /\ UNCHANGED entry
  /\ waiting' = [waiting EXCEPT ![Head(down).id] = <<>>]
  /\ UNCHANGED <<acts, joining, leaving, up, server, used>>

-----------------------------------------------------------------------------
Next ==
  \/ CallJoin \/ CallLeave \/ Expire
  \/ ServeJoin \/ ServeLeave \/ ServeWhois
  \/ PeerMoves \/ Kick \/ Say
  \/ ReplyJoin \/ ReplyLeave \/ ReplyError
  \/ \E n \in {"joined", "left", "kicked"} : Notify(n)
  \/ ChannelKey \/ ChannelMessage \/ WhoisResolved

Spec == Init /\ [][Next]_vars

-----------------------------------------------------------------------------
Packets == [kind : {"join", "refused", "leave", "not_on_channel", "joined",
                    "left", "kicked", "key", "message"},
            key : Nat, users : SUBSET User, retry : BOOLEAN]
Whois == [kind : {"whois"}, id : Nat, for : Packets, ok : BOOLEAN]

(***************************************************************************)
(* The entry, its lists and the packets hold what the code puts there, and *)
(* the references of an entry never run below zero.                        *)
(***************************************************************************)
TypeOK ==
  /\ acts \in Scenarios
  /\ entry \in [refs : Nat, cached : BOOLEAN, users : SUBSET User,
                key : Nat, old : Seq(Nat), timers : Seq(Nat),
                resolving : Nat]
  /\ Exists(entry) \/ entry = NoEntry
  /\ joining \in BOOLEAN /\ leaving \in BOOLEAN
  /\ waiting \in Seq(Seq(Packets))
  /\ up \in Seq([kind : {"join", "leave"}] \union Whois)
  /\ down \in Seq(Packets \union Whois)
  /\ server \in [key : Nat, since : Nat, users : SUBSET User]

Suspended ==
  {x \in Range(up) \union Range(down) :
     x.kind = "whois" /\ x.for.kind # "message"}

(***************************************************************************)
(* The entry outlives everyone who holds it: there are as many references  *)
(* as the cache, the users on its list and the suspended handlers          *)
(* account for, so that none of them is left with a freed entry, and every *)
(* notify that waits, waits for a WHOIS that is still to be answered.      *)
(***************************************************************************)
HeldAlive ==
  /\ entry.refs >= (IF entry.cached THEN 1 ELSE 0)
                   + Cardinality(entry.users) + Cardinality(Suspended)
  /\ \A w \in DOMAIN waiting : waiting[w] # <<>> => \E x \in Suspended : x.id = w

(***************************************************************************)
(* A channel key is never replaced by one that the server made earlier,    *)
(* whether the new one comes in a packet of its own or in the reply to     *)
(* JOIN that has waited for its users to be resolved.                      *)
(***************************************************************************)
KeyNeverOlder ==
  [][entry.key # NoKey /\ entry'.key # NoKey => entry'.key >= entry.key]_vars

(***************************************************************************)
(* A key that the client had since it joined and that was replaced stays   *)
(* readable until its own fifteen seconds are over: no other timer removes *)
(* it, in particular none that was left over from before LEAVE.            *)
(***************************************************************************)
OldKeysReadable ==
  "self" \in entry.users =>
    \A k \in Range(entry.timers) :
      k >= server.since => k \in Range(entry.old)

Quiet ==
  ~ joining /\ up = <<>> /\ down = <<>> /\ \A w \in DOMAIN waiting : waiting[w] = <<>>

(***************************************************************************)
(* When nothing is on its way, the client and the server agree on whether  *)
(* we are on the channel and, if so, on its key, and no user of it is      *)
(* missing from the client's list, which would refuse that user's          *)
(* messages, unless a client could not be resolved.                        *)
(***************************************************************************)
Agrees ==
  Quiet =>
    /\ ("self" \in entry.users) = ("self" \in server.users)
    /\ "self" \in server.users =>
         /\ entry.key = server.key
         /\ "fails" \in acts \/ server.users \subseteq entry.users

(***************************************************************************)
(* The comment in silc_client_command_reply_join: a channel that has a key *)
(* when the reply to JOIN is processed received it while the users of the  *)
(* reply were resolved, so that it is newer than the reply's.              *)
(***************************************************************************)
ExistingKeyIsNewer ==
  Arrived("join") /\ entry.key # NoKey => entry.key >= Head(down).key
=============================================================================
