----------------------- MODULE ClientConnection_proofs -----------------------
(***************************************************************************)
(* Proofs about ClientConnection, for every set of parameters and any      *)
(* number of commands and signals.  The invariant holds until a wakeup or  *)
(* a rekey comes that the event thread is not ready for (`late'); every    *)
(* theorem is about the whole specification, those disturbances included.  *)
(***************************************************************************)
EXTENDS ClientConnection, Loops, FiniteSetTheorems, SequenceTheorems, TLAPS

-----------------------------------------------------------------------------
(* The invariant.                                                          *)

(* How often task t is queued in q, and that no t comes after an x in it.  *)
At(q, t) == {i \in 1..Len(q) : q[i] = t}
Count(q, t) == Cardinality(At(q, t))
NoAfter(q, x, t) == \A i, j \in 1..Len(q) : i < j /\ q[i] = x => q[j] # t
One(b) == IF b THEN 1 ELSE 0

(* The types; the number of threads follows from Counted.                  *)
Typed ==
  /\ params \in Params
  /\ conn \in Connections /\ machine \in Machines /\ et \in EventThreads
  /\ queue \in Seq(Tasks)
  /\ timers \in [connect: BOOLEAN, rekey: BOOLEAN]
  /\ async \subseteq Operations \cup {"answer"}
  /\ cmds \in [resume: Nat, other: Nat]
  /\ stream \in {"none", "open", "eos", "destroyed"}
  /\ resume \in Nat
  /\ cpu \in {"idle", "conn", "event"} /\ after \in {"idle", "continue", "yield"}
  /\ calls \in Seq(Statuses)

(* Every thread of the machine is at work, or its finish is queued.        *)
Counted ==
  threads = One(et.started) + Count(queue, "evfin") + Count(queue, "cmdfin")
              + cmds.resume + cmds.other

(* The event thread while it is not at work.                               *)
Resting ==
  ~et.started =>
    /\ cpu # "event" /\ Count(queue, "event") = 0 /\ ~et.timer /\ cmds.resume = 0
    /\ ~conn.disconnected =>
         async = {} /\ ~conn.registering /\ ~conn.auth_request /\ ~timers.connect

(* The states in which it waits with a timeout, those it only passes, those *)
(* that give up, and where it waits for an operation.                      *)
Later == {"auth_data", "register_complete", "resolve_channels"}
Passed == {"connect", "key_exchange", "register", "resume"}
Errors == {"connect_error", "register_error", "resume_error"}
Registering == {"register", "register_complete", "resolve_channels", "resolve_cmodes",
                "resume_completed"}
WaitsFor(k) ==
  CASE k = "tcp" -> {"set_stream", "connect_error"}
    [] k = "ske" -> {"connected", "setup_udp", "auth_resolve", "connect_error"}
    [] k = "auth" -> {"connected", "connect_error"}
    [] k = "answer" -> {"auth_start", "connect_error"}
    [] OTHER -> {"rekey"}
Runs == Count(queue, "event") + One(cpu = "event")

(* It is at work: what it is, what it waits for, and that only one thing   *)
(* at a time will wake it, but for the replies it counts.                  *)
Working ==
  et.started =>
    /\ ~et.finished /\ et.state # "null" /\ Count(queue, "evfin") = 0
    /\ machine.state \in {"run", "close"}
    /\ ~conn.connect /\ ~conn.key_exchange /\ ~conn.rekeying
    /\ et.state \in Passed => cpu = "event" /\ ~conn.disconnected
    /\ et.timer => et.later /\ cpu # "event" /\ et.state \in Later /\ Count(queue, "event") = 0
    /\ et.state \in Later /\ cpu # "event" => et.timer
    /\ et.state \in {"register_error", "resume_error"} => cpu = "event"
    /\ et.state \in {"resolve_cmodes", "resume_completed"} => conn.local_id
    /\ et.state # "rekey" => calls = <<>>
    /\ et.state = "rekey" => ~timers.connect
    /\ \A k \in async : et.state \in WaitsFor(k)
    /\ et.state \notin {"resolve_cmodes", "resume_completed"} => cmds.resume = 0
    /\ conn.disconnected => cmds.resume = 0
    /\ ~conn.disconnected =>
         /\ et.state \notin {"resume_completed"} \cup Errors =>
              Runs + One(async # {}) + One(et.timer) + cmds.resume <= 1
         /\ et.state = "resume_completed" =>
              Runs + cmds.resume <= IF resume > 1 THEN resume ELSE 1
         /\ et.state = "rekey" => Count(queue, "event") = 0
         /\ et.state = "rekey" /\ cpu = "event" => et.sync
         /\ conn.registering => et.state \in Registering \/ (cpu = "event" /\ et.state \in Errors)
         /\ conn.auth_request =>
              et.state = "auth_data" \/ (cpu = "event" /\ et.state = "connect_error")

(* The operation that st_close aborts is the one that will call back.      *)
Abortable == async \subseteq {conn.op, "answer"}

(* The connection before its event thread has first been started.          *)
Unstarted ==
  conn.connect \/ conn.key_exchange =>
    /\ ~(conn.connect /\ conn.key_exchange) /\ ~conn.rekeying
    /\ ~et.started /\ Count(queue, "evfin") = 0
    /\ ~timers.connect /\ ~timers.rekey /\ stream \in {"none", "destroyed"}
    /\ ~conn.disconnected => calls = <<>>

(* The machine and its tasks, state by state.                              *)
Starting ==
  /\ machine.state = "none" =>
       /\ queue = <<"start", "poll">> /\ cpu = "idle" /\ machine.value = 0
       /\ conn.connect \/ conn.key_exchange
  /\ machine.state # "none" => Count(queue, "start") = 0
  /\ ~conn.disconnected => machine.state \in {"none", "run"}
  /\ Count(queue, "poll") = 1
Control ==
  /\ cpu = "conn" => machine.state \in {"run", "close"}
  /\ after # "idle" => cpu = "event"
  /\ after = "continue" => machine.state = "run"
  /\ after = "yield" => machine.state = "close"
  /\ machine.state # "close" => Count(queue, "conn") = 0
  /\ machine.state # "finished" => Count(queue, "fin") = 0
  /\ machine.state \notin {"deleted", "gone"} => Count(queue, "thrfin") = 0
Closing ==
  machine.state = "close" =>
    /\ ~machine.waiting
    /\ Count(queue, "conn") + One(cpu = "conn") + One(after = "yield") = 1
    /\ NoAfter(queue, "conn", "signal")
    /\ cpu = "conn" \/ after = "yield" => Count(queue, "signal") = 0
Ended ==
  machine.state \in {"finished", "deleted", "gone"} =>
    /\ ~machine.waiting /\ cpu = "idle" /\ ~et.started
    /\ cmds.resume = 0 /\ cmds.other = 0 /\ async \subseteq {"answer"}
    /\ Count(queue, "signal") = 0
    /\ stream \in {"none", "destroyed"}
    /\ machine.state = "finished" =>
         \A t \in Tasks \ {"poll"} : NoAfter(queue, "fin", t)
    /\ machine.state # "finished" =>
         /\ ~timers.connect /\ ~timers.rekey
         /\ \A t \in Tasks \ {"thrfin", "poll"} : Count(queue, t) = 0

(* The signals of a connection that is up: each is taken by the event it    *)
(* was sent for, and never before the finish of the one before.            *)
Signals ==
  machine.state = "run" /\ ~conn.disconnected =>
    /\ machine.value > 0 /\ NoFlag => cpu = "conn" \/ after = "continue"
    /\ conn.connect \/ conn.key_exchange => Count(queue, "signal") + One(cpu = "conn") <= 1
    /\ et.started /\ et.state # "rekey" => Count(queue, "signal") = 0
    /\ NoAfter(queue, "signal", "evfin")
    /\ NoAfter(queue, "poll", "signal") \/ NoAfter(queue, "signal", "poll")
    /\ NoFlag \/ cpu = "conn" => NoAfter(queue, "poll", "signal")
    /\ cpu = "conn" /\ ~NoFlag => Count(queue, "evfin") = 0

(* What the application has been told, and will be.                        *)
Bad(s) == s \notin {"success", "resumed"}
Told ==
  /\ conn.cop /\ machine.state \in {"none", "run", "close"} => conn.callback /\ calls = <<>>
  /\ ~conn.callback => conn.disconnected
  /\ conn.disconnected /\ conn.callback => Bad(conn.status)
  /\ et.started /\ et.state = "connect_error" /\ ~conn.disconnected => Bad(conn.status)

ConnInv ==
  /\ Typed /\ Counted /\ Resting /\ Working /\ Abortable /\ Unstarted
  /\ Starting /\ Control /\ Closing /\ Ended /\ Signals /\ Told

-----------------------------------------------------------------------------
(* The queue of the scheduler.                                             *)

(* A task is queued a finite number of times; not at all when it is at no  *)
(* place of the queue.                                                     *)
LEMMA Counting ==
  ASSUME NEW q \in Seq(Tasks), NEW t
  PROVE  /\ Count(q, t) \in Nat /\ IsFiniteSet(At(q, t))
         /\ Count(q, t) = 0 <=> \A i \in 1..Len(q) : q[i] # t
<1>1. IsFiniteSet(1..Len(q)) /\ At(q, t) \in SUBSET (1..Len(q))
  BY FS_Interval DEF At
<1>2. IsFiniteSet(At(q, t))
  BY <1>1, FS_Subset
<1>3. Count(q, t) \in Nat /\ (Count(q, t) = 0 <=> At(q, t) = {})
  BY <1>2, FS_CardinalityType, FS_EmptySet DEF Count
<1>4. At(q, t) = {} <=> \A i \in 1..Len(q) : q[i] # t
  BY DEF At
<1> QED
  BY <1>2, <1>3, <1>4

(* A task comes after another only when both are queued.                   *)
LEMMA NoneAfter ==
  ASSUME NEW q \in Seq(Tasks), NEW x, NEW t, Count(q, x) = 0 \/ Count(q, t) = 0
  PROVE  NoAfter(q, x, t)
BY Counting DEF NoAfter

(* The empty queue.                                                        *)
LEMMA NoTask ==
  \A t, x : Count(<<>>, t) = 0 /\ NoAfter(<<>>, x, t)
<1> SUFFICES ASSUME NEW t, NEW x PROVE Count(<<>>, t) = 0 /\ NoAfter(<<>>, x, t)
  OBVIOUS
<1>1. At(<<>>, t) = {}
  BY DEF At
<1>2. NoAfter(<<>>, x, t)
  BY DEF NoAfter
<1> QED
  BY <1>1, <1>2, FS_EmptySet DEF Count

(* A task y is added at the end of the queue.                              *)
Grown(r, q, y) ==
  /\ r \in Seq(Tasks)
  /\ \A t : Count(r, t) = Count(q, t) + One(t = y)
  /\ \A x, t : NoAfter(r, x, t) <=> NoAfter(q, x, t) /\ (t = y => Count(q, x) = 0)

(* Append adds its task at the end.                                        *)
LEMMA Pushed ==
  ASSUME NEW q \in Seq(Tasks), NEW y \in Tasks
  PROVE  Grown(Append(q, y), q, y)
<1> DEFINE r == Append(q, y)
           n == Len(q)
<1>1. /\ r \in Seq(Tasks) /\ n \in Nat /\ Len(r) = n + 1 /\ r[n + 1] = y
      /\ \A i \in 1..n : r[i] = q[i]
  BY AppendProperties
<1> HIDE DEF r, n
<1>2. ASSUME NEW t PROVE Count(r, t) = Count(q, t) + One(t = y)
  <2>1. IsFiniteSet(At(q, t))
    BY Counting
  <2>4. n + 1 \notin At(q, t)
    BY <1>1 DEF At, n
  <2>2. CASE t = y
    <3>1. At(r, t) = At(q, t) \cup {n + 1}
      BY <1>1, <2>2 DEF At, n
    <3> QED
      BY <2>1, <2>2, <2>4, <3>1, FS_AddElement DEF Count, One
  <2>3. CASE t # y
    <3>1. At(r, t) = At(q, t)
      BY <1>1, <2>3 DEF At, n
    <3>2. Count(q, t) \in Nat
      BY Counting
    <3> QED
      BY <2>3, <3>1, <3>2 DEF Count, One
  <2> QED
    BY <2>2, <2>3
<1>3. ASSUME NEW x, NEW t
      PROVE  NoAfter(r, x, t) <=> NoAfter(q, x, t) /\ (t = y => Count(q, x) = 0)
  <2>1. Count(q, x) = 0 <=> \A i \in 1..n : q[i] # x
    BY Counting DEF n
  <2>2. ASSUME NoAfter(r, x, t) PROVE NoAfter(q, x, t) /\ (t = y => Count(q, x) = 0)
    <3>1. NoAfter(q, x, t)
      BY <1>1, <2>2 DEF NoAfter, n
    <3>2. ASSUME t = y, NEW i \in 1..n PROVE q[i] # x
      <4>1. i \in 1..Len(r) /\ n + 1 \in 1..Len(r) /\ i < n + 1 /\ r[i] = q[i]
        BY <1>1
      <4> QED
        BY <1>1, <2>2, <3>2, <4>1 DEF NoAfter
    <3> QED
      BY <2>1, <3>1, <3>2
  <2>3. ASSUME NoAfter(q, x, t), t = y => Count(q, x) = 0 PROVE NoAfter(r, x, t)
    <3> SUFFICES ASSUME NEW i \in 1..Len(r), NEW j \in 1..Len(r), i < j, r[i] = x
                 PROVE  r[j] # t
      BY DEF NoAfter
    <3>1. i \in 1..n /\ q[i] = x
      BY <1>1
    <3>2. CASE j \in 1..n
      BY <1>1, <2>3, <3>1, <3>2 DEF NoAfter, n
    <3>3. CASE j = n + 1
      BY <1>1, <2>1, <2>3, <3>1, <3>3
    <3> QED
      BY <1>1, <3>2, <3>3
  <2> QED
    BY <2>2, <2>3
<1> QED
  BY <1>1, <1>2, <1>3 DEF Grown, r

(* The first task is taken off the queue.                                  *)
Shrunk(r, q, y) ==
  /\ r \in Seq(Tasks)
  /\ \A t : Count(q, t) = Count(r, t) + One(t = y)
  /\ \A x, t : NoAfter(q, x, t) => NoAfter(r, x, t)
  /\ \A t : NoAfter(q, y, t) => Count(r, t) = 0

(* Head and Tail take the first task off a queue that is not empty.        *)
LEMMA Popped ==
  ASSUME NEW q \in Seq(Tasks), q # <<>>
  PROVE  Shrunk(Tail(q), q, Head(q)) /\ Head(q) \in Tasks
<1> DEFINE r == Tail(q)
           y == Head(q)
           n == Len(r)
<1>1. /\ r \in Seq(Tasks) /\ n \in Nat /\ Len(q) = n + 1 /\ q[1] = y /\ y \in Tasks
      /\ \A i \in 1..n : r[i] = q[i + 1]
  BY HeadTailProperties
<1> HIDE DEF r, n, y
<1>2. ASSUME NEW t PROVE Count(q, t) = Count(r, t) + One(t = y)
  <2> DEFINE A == At(r, t)
             B == {i + 1 : i \in A}
  <2>1. IsFiniteSet(A) /\ A \subseteq 1..n
    BY <1>1, Counting DEF At, n
  <2>2. IsFiniteSet(B) /\ Cardinality(B) = Cardinality(A)
    <3> DEFINE f == [i \in A |-> i + 1]
    <3>1. f \in Bijection(A, B)
      <4>1. \A a, b \in A : f[a] = f[b] => a = b
        BY <1>1, <2>1
      <4>2. f \in [A -> B] /\ \A b \in B : \E a \in A : f[a] = b
        OBVIOUS
      <4>3. IsInjective(f)
        BY <4>1 DEF IsInjective
      <4> HIDE DEF f
      <4> QED
        BY <4>2, <4>3 DEF Bijection, Injection, Surjection
    <3> HIDE DEF f
    <3>2. ExistsBijection(A, B)
      BY <3>1 DEF ExistsBijection
    <3> QED
      BY <2>1, <3>2, FS_Bijection
  <2>3. At(q, t) = B \cup (IF t = y THEN {1} ELSE {})
    <3>1. ASSUME NEW i PROVE i \in At(q, t) <=> i \in B \/ (t = y /\ i = 1)
      <4>1. CASE i = 1
        BY <1>1, <2>1, <4>1 DEF At, n
      <4>2. CASE i # 1
        <5>1. ASSUME i \in At(q, t) PROVE i \in B
          <6>1. i - 1 \in 1..n /\ i = (i - 1) + 1 /\ q[i] = t
            BY <1>1, <4>2, <5>1 DEF At
          <6>2. i - 1 \in A
            BY <1>1, <6>1 DEF At, n
          <6> QED
            BY <6>1, <6>2
        <5>2. ASSUME i \in B PROVE i \in At(q, t)
          BY <1>1, <5>2 DEF At, n
        <5> QED
          BY <4>2, <5>1, <5>2
      <4> QED
        BY <4>1, <4>2
    <3> QED
      BY <3>1
  <2>4. 1 \notin B
    BY <2>1, <1>1
  <2>5. Cardinality(A) \in Nat
    BY <2>1, FS_CardinalityType
  <2> HIDE DEF A, B
  <2>6. CASE t = y
    <3>1. At(q, t) = B \cup {1}
      BY <2>3, <2>6
    <3>2. Cardinality(B \cup {1}) = Cardinality(B) + 1
      BY <2>2, <2>4, FS_AddElement
    <3> QED
      BY <2>2, <2>5, <2>6, <3>1, <3>2 DEF Count, One, A
  <2>7. CASE t # y
    <3>1. At(q, t) = B
      BY <2>3, <2>7
    <3> QED
      BY <2>2, <2>5, <2>7, <3>1 DEF Count, One, A
  <2> QED
    BY <2>6, <2>7
<1>3. ASSUME NEW x, NEW t, NoAfter(q, x, t) PROVE NoAfter(r, x, t)
  <2> SUFFICES ASSUME NEW i \in 1..Len(r), NEW j \in 1..Len(r), i < j, r[i] = x
               PROVE  r[j] # t
    BY DEF NoAfter
  <2>1. i + 1 \in 1..Len(q) /\ j + 1 \in 1..Len(q) /\ i + 1 < j + 1 /\ q[i + 1] = x
    BY <1>1 DEF n
  <2> QED
    BY <1>1, <1>3, <2>1 DEF NoAfter, n
<1>4. ASSUME NEW t, NoAfter(q, y, t) PROVE Count(r, t) = 0
  <2>1. ASSUME NEW i \in 1..n PROVE r[i] # t
    <3>1. i + 1 \in 1..Len(q) /\ 1 \in 1..Len(q) /\ 1 < i + 1
      BY <1>1
    <3> QED
      BY <1>1, <1>4, <3>1 DEF NoAfter
  <2> QED
    BY <1>1, <2>1, Counting DEF n
<1> QED
  BY <1>1, <1>2, <1>3, <1>4 DEF Shrunk, r, y

(* silc_fsm_continue and silc_fsm_finish take the runs of the event thread *)
(* off the queue, and leave the other tasks in their order.                *)
Pruned(r, q) ==
  /\ r \in Seq(Tasks)
  /\ Count(r, "event") = 0
  /\ \A t : t # "event" => Count(r, t) = Count(q, t)
  /\ \A x, t : NoAfter(q, x, t) => NoAfter(r, x, t)

(* One more task is looked at: a run of the event thread is dropped, any   *)
(* other task is kept.                                                     *)
LEMMA PrunedNext ==
  ASSUME NEW q \in Seq(Tasks), NEW r, NEW y \in Tasks, Pruned(r, q)
  PROVE  Pruned(r \o (IF y = "event" THEN <<>> ELSE <<y>>), Append(q, y))
<1>1. Grown(Append(q, y), q, y) /\ r \in Seq(Tasks)
  BY Pushed DEF Pruned
<1>2. Count(r, "event") = 0
  BY DEF Pruned
<1>3. CASE y = "event"
  <2>1. r \o <<>> = r
    BY <1>1
  <2>2. \A t : t # "event" => One(t = y) = 0 /\ Count(q, t) \in Nat
    BY <1>3, Counting DEF One
  <2>3. \A t : t # "event" => Count(r, t) = Count(Append(q, y), t)
    BY <1>1, <2>2 DEF Pruned, Grown
  <2>4. \A x, t : NoAfter(Append(q, y), x, t) => NoAfter(r, x, t)
    BY <1>1 DEF Pruned, Grown
  <2> QED
    BY <1>1, <1>2, <1>3, <2>1, <2>3, <2>4 DEF Pruned
<1>4. CASE y # "event"
  <2>1. r \o <<y>> = Append(r, y) /\ Grown(Append(r, y), r, y)
    BY <1>1, Pushed
  <2>2. Count(Append(r, y), "event") = 0
    BY <1>2, <1>4, <2>1 DEF Grown, One
  <2>3. \A t : t # "event" => Count(Append(r, y), t) = Count(Append(q, y), t)
    BY <1>1, <2>1 DEF Pruned, Grown
  <2>4. ASSUME NEW x, NEW t, NoAfter(Append(q, y), x, t) PROVE NoAfter(Append(r, y), x, t)
    <3>1. NoAfter(r, x, t) /\ (t = y => Count(q, x) = 0)
      BY <1>1, <2>4 DEF Pruned, Grown
    <3>2. t = y => Count(r, x) = 0
      BY <1>2, <3>1 DEF Pruned
    <3> QED
      BY <2>1, <3>1, <3>2 DEF Grown
  <2>5. Append(r, y) \in Seq(Tasks)
    BY <2>1 DEF Grown
  <2> QED
    BY <1>4, <2>1, <2>2, <2>3, <2>4, <2>5 DEF Pruned
<1> QED
  BY <1>3, <1>4

(* WithoutRuns takes away the runs of the event thread, and nothing else,  *)
(* from a queue of any length.                                             *)
LEMMA PrunedAll ==
  ASSUME NEW q \in Seq(Tasks)
  PROVE  Pruned(WithoutRuns(q), q)
<1> DEFINE n == Len(q)
           item(i) == IF q[i] = "event" THEN <<>> ELSE <<q[i]>>
           e == [i \in 1..n |-> item(i)]
           Is(f) == f = [i \in 0..n |-> IF i = 0 THEN <<>> ELSE f[i - 1] \o item(i)]
           kept == CHOOSE f : Is(f)
<1>1. n \in Nat
  OBVIOUS
<1>2. WithoutRuns(q) = kept[n]
  BY DEF WithoutRuns
<1> HIDE DEF n, e, item
<1>3. PICK f : Joins(f, n, <<>>, e)
  BY <1>1, Joinable
<1>4. Is(f)
  <2>1. \A i \in 0..n : i # 0 => e[i] = item(i)
    BY <1>1 DEF e
  <2> QED
    BY <1>3, <2>1, Zenon DEF Joins
<1>5. Is(kept)
  BY <1>4, Zenon
<1> HIDE DEF kept
<1>6. kept[0] = <<>>
  BY <1>1, <1>5
<1>7. ASSUME NEW i \in 1..n PROVE kept[i] = kept[i - 1] \o item(i)
  <2>1. i \in 0..n /\ i # 0
    BY <1>1
  <2> QED
    BY <1>5, <2>1
<1> DEFINE first(k) == SubSeq(q, 1, k)
           S == {k \in Nat : k <= n => Pruned(kept[k], first(k))}
<1>8. 0 \in S
  <2>1. first(0) = <<>>
    BY SubSeqEmpty
  <2>2. Pruned(<<>>, <<>>)
    <3>1. <<>> \in Seq(Tasks)
      OBVIOUS
    <3> QED
      BY <3>1, NoTask DEF Pruned
  <2> HIDE DEF first
  <2> QED
    BY <1>6, <2>1, <2>2
<1>9. ASSUME NEW k \in Nat, k \in S PROVE k + 1 \in S
  <2> SUFFICES ASSUME k + 1 <= n PROVE Pruned(kept[k + 1], first(k + 1))
    OBVIOUS
  <2>1. k + 1 \in 1..n /\ q[k + 1] \in Tasks /\ (k + 1) - 1 = k
    BY <1>1 DEF n
  <2>2. first(k) \in Seq(Tasks)
    <3>1. \A i \in 1..k : q[i] \in Tasks
      BY <1>1 DEF n
    <3> QED
      BY <3>1, SubSeqProperties
  <2>3. first(k + 1) = first(k) \o <<q[k + 1]>>
    <3>1. 1 \in 1..Len(q) /\ k + 1 \in 1..Len(q)
      BY <1>1, <2>1 DEF n
    <3> QED
      BY <2>1, <3>1, SubSeqRecursiveSecond
  <2> HIDE DEF first
  <2>4. first(k + 1) = Append(first(k), q[k + 1])
    BY <2>1, <2>2, <2>3
  <2>5. Pruned(kept[k], first(k))
    BY <1>1, <1>9
  <2>6. kept[k + 1] = kept[k] \o item(k + 1)
    BY <1>7, <2>1
  <2> QED
    BY <2>1, <2>2, <2>4, <2>5, <2>6, PrunedNext DEF item
<1>10. n \in S
  <2> HIDE DEF S
  <2> QED
    BY <1>1, <1>8, <1>9, NatInd
<1>11. first(n) = q
  BY SubSeqFull DEF n
<1>12. Pruned(kept[n], first(n))
  BY <1>1, <1>10
<1> HIDE DEF first
<1> QED
  BY ONLY <1>2, <1>11, <1>12

(* A queue grows by n tasks y at its end.                                  *)
Extended(r, q, y, n) ==
  /\ r \in Seq(Tasks)
  /\ Count(r, y) = Count(q, y) + n
  /\ \A t : t # y => Count(r, t) = Count(q, t)
  /\ \A x, t : t # y => (NoAfter(r, x, t) <=> NoAfter(q, x, t))

(* A constant sequence put after the queue adds its task that often.       *)
LEMMA Repeated ==
  ASSUME NEW q \in Seq(Tasks), NEW y \in Tasks, NEW n \in Nat
  PROVE  Extended(q \o [i \in 1..n |-> y], q, y, n)
<1> DEFINE part(k) == [i \in 1..k |-> y]
           S == {k \in Nat : Extended(q \o part(k), q, y, k)}
<1>0. \A t : Count(q, t) \in Nat
  BY Counting
<1>1. 0 \in S
  <2>1. q \o part(0) = q
    OBVIOUS
  <2>2. Extended(q, q, y, 0)
    BY <1>0 DEF Extended
  <2>3. Extended(q \o part(0), q, y, 0)
    BY ONLY <2>1, <2>2
  <2> HIDE DEF part
  <2> QED
    BY <2>3
<1>2. ASSUME NEW k \in Nat, k \in S PROVE k + 1 \in S
  <2>1. q \o part(k + 1) = Append(q \o part(k), y)
    OBVIOUS
  <2> DEFINE r == q \o part(k)
  <2>2. Extended(r, q, y, k)
    BY <1>2
  <2> HIDE DEF r, part
  <2>3. Grown(Append(r, y), r, y)
    BY <2>2, Pushed DEF Extended
  <2>4. \A t : One(t = y) = IF t = y THEN 1 ELSE 0
    BY DEF One
  <2>5. Extended(Append(r, y), q, y, k + 1)
    <3>1. Count(Append(r, y), y) = Count(q, y) + (k + 1)
      BY <1>0, <2>2, <2>3, <2>4 DEF Extended, Grown
    <3>2. ASSUME NEW t, t # y PROVE Count(Append(r, y), t) = Count(q, t)
      <4>1. One(t = y) = 0 /\ Count(r, t) = Count(q, t) /\ Count(q, t) \in Nat
        BY <1>0, <2>2, <3>2 DEF Extended, One
      <4>2. Count(Append(r, y), t) = Count(r, t) + One(t = y)
        BY <2>3 DEF Grown
      <4> QED
        BY <4>1, <4>2
    <3>3. \A x, t : t # y => (NoAfter(Append(r, y), x, t) <=> NoAfter(q, x, t))
      BY <2>2, <2>3 DEF Extended, Grown
    <3> QED
      BY <2>3, <3>1, <3>2, <3>3 DEF Extended, Grown
  <2>6. Extended(q \o part(k + 1), q, y, k + 1)
    BY ONLY <2>1, <2>5 DEF r
  <2> QED
    BY <2>6
<1>3. n \in S
  <2> HIDE DEF S
  <2> QED
    BY <1>1, <1>2, NatInd
<1> QED
  BY <1>3

(* The tasks of a queue are kept, in their order, but those of T.           *)
Kept(r, q, T) ==
  /\ r \in Seq(Tasks)
  /\ \A t : t \notin T => Count(r, t) = Count(q, t)
  /\ \A x, t : t \notin T /\ NoAfter(q, x, t) => NoAfter(r, x, t)

(* The flags with which the machine is told what to do are left alone.     *)
FlagsKept ==
  /\ conn'.connect = conn.connect /\ conn'.key_exchange = conn.key_exchange
  /\ conn'.rekeying = conn.rekeying /\ conn'.disconnected = conn.disconnected
  /\ conn'.callback = conn.callback /\ conn'.cop = conn.cop

(* The event thread is at work when one of its states runs.                *)
LEMMA EventRuns ==
  ASSUME ConnInv, cpu = "event"
  PROVE  /\ et.started /\ machine.state \in {"run", "close"}
         /\ ~conn.connect /\ ~conn.key_exchange /\ ~conn.rekeying
         /\ ~et.timer /\ Count(queue, "evfin") = 0
<1>1. et.started
  BY DEF ConnInv, Resting
<1> QED
  BY <1>1 DEF ConnInv, Working

(* The event thread returns, to the scheduler or to the machine.           *)
LEMMA Returns ==
  ASSUME NEW q \in Seq(Tasks), Return(q)
  PROVE  /\ after' = "idle"
         /\ after = "yield" => cpu' = "idle" /\ Grown(queue', q, "conn")
         /\ after # "yield" => queue' = q
         /\ after = "continue" => cpu' = "conn"
         /\ after # "continue" => cpu' = "idle"
BY Pushed DEF Return, Tasks

(* The event thread with s its state, e its started, f its finished, and   *)
(* so on.                                                                  *)
Thread(t, state, started, finished, sync, later, timer) ==
  /\ t \in EventThreads
  /\ t.state = state /\ t.started = started /\ t.finished = finished
  /\ t.sync = sync /\ t.later = later /\ t.timer = timer

(* What SILC_FSM_CONTINUE, SILC_FSM_WAIT, next_later and SILC_FSM_YIELD of *)
(* the event thread do.                                                    *)
LEMMA GoneOn ==
  ASSUME Typed, NEW s \in EventStates, GoOn(s)
  PROVE  /\ Thread(et', s, et.started, et.finished, et.sync, et.later, et.timer)
         /\ UNCHANGED <<cpu, after, queue>>
BY DEF Typed, GoOn, Thread, EventThreads

(* SILC_FSM_WAIT: the thread has waited, and its caller goes on.           *)
LEMMA WaitedIn ==
  ASSUME Typed, NEW s \in EventStates, WaitIn(s)
  PROVE  /\ Thread(et', s, et.started, et.finished, FALSE, et.later, et.timer)
         /\ Kept(queue, queue, {"event"}) /\ Return(queue)
BY DEF Typed, WaitIn, Thread, EventThreads, Kept

(* silc_fsm_next_later: the same, with a timeout set.                      *)
LEMMA WaitedLater ==
  ASSUME Typed, NEW s \in EventStates, WaitLater(s)
  PROVE  /\ Thread(et', s, et.started, et.finished, FALSE, TRUE, TRUE)
         /\ Kept(queue, queue, {"event"}) /\ Return(queue)
BY DEF Typed, WaitLater, Thread, EventThreads, Kept

(* What silc_fsm_continue does first.                                      *)
LEMMA Cancels ==
  ASSUME Typed, NEW q \in Seq(Tasks)
  PROVE  /\ Thread(Cancelled, et.state, et.started, et.finished, et.sync, FALSE,
                   et.timer /\ ~et.later)
         /\ Kept(CancelRuns(q), q, {"event"})
         /\ Count(CancelRuns(q), "event") \in 0..Count(q, "event")
<1>1. Thread(Cancelled, et.state, et.started, et.finished, et.sync, FALSE,
             et.timer /\ ~et.later)
  BY DEF Typed, Cancelled, Thread, EventThreads
<1>2. Count(q, "event") \in Nat
  BY Counting
<1> DEFINE p == CancelRuns(q)
<1>3. p = WithoutRuns(q) \/ p = q
  BY DEF CancelRuns
<1> HIDE DEF p
<1>4. Pruned(WithoutRuns(q), q)
  BY PrunedAll
<1>5. Kept(p, q, {"event"}) /\ Count(p, "event") \in 0..Count(q, "event")
  BY <1>2, <1>3, <1>4 DEF Pruned, Kept
<1> QED
  BY <1>1, <1>5 DEF p

(* A run of the event thread is queued, and the other tasks stay.          *)
LEMMA RunQueued ==
  ASSUME NEW q \in Seq(Tasks), NEW p, Kept(p, q, {"event"})
  PROVE  /\ Kept(Append(p, "event"), q, {"event"})
         /\ Count(Append(p, "event"), "event") = Count(p, "event") + 1
<1>1. p \in Seq(Tasks) /\ Grown(Append(p, "event"), p, "event")
  BY Pushed DEF Kept, Tasks
<1>2. Count(Append(p, "event"), "event") = Count(p, "event") + 1
  BY <1>1 DEF Grown, One
<1>3. \A t : t # "event" => Count(Append(p, "event"), t) = Count(q, t)
  BY <1>1, Counting DEF Grown, Kept, One
<1>4. \A x, t : t # "event" /\ NoAfter(q, x, t) => NoAfter(Append(p, "event"), x, t)
  BY <1>1 DEF Grown, Kept
<1> QED
  BY <1>1, <1>2, <1>3, <1>4 DEF Kept, Grown

(* SILC_FSM_YIELD: the thread is to run again, once more at most.          *)
LEMMA Yielded ==
  ASSUME Typed, NEW s \in EventStates, YieldTo(s)
  PROVE  /\ Thread(et', s, et.started, et.finished, et.sync, FALSE, et.timer /\ ~et.later)
         /\ \E q : /\ Kept(q, queue, {"event"}) /\ Return(q)
                  /\ Count(q, "event") \in 1..(Count(queue, "event") + 1)
<1>1. queue \in Seq(Tasks) /\ Count(queue, "event") \in Nat
  BY Counting DEF Typed
<1> DEFINE p == CancelRuns(queue)
<1>2. /\ Thread(Cancelled, et.state, et.started, et.finished, et.sync, FALSE,
                et.timer /\ ~et.later)
      /\ Kept(p, queue, {"event"}) /\ Count(p, "event") \in 0..Count(queue, "event")
  BY <1>1, Cancels
<1> HIDE DEF p
<1>3. /\ Kept(Append(p, "event"), queue, {"event"})
      /\ Count(Append(p, "event"), "event") = Count(p, "event") + 1
  BY <1>1, <1>2, RunQueued
<1>4. Thread(et', s, et.started, et.finished, et.sync, FALSE, et.timer /\ ~et.later)
  BY <1>2 DEF YieldTo, Thread, EventThreads
<1>5. Return(Append(p, "event"))
  BY DEF YieldTo, p
<1>6. Count(Append(p, "event"), "event") \in 1..(Count(queue, "event") + 1)
  BY <1>1, <1>2, <1>3
<1> QED
  BY <1>3, <1>4, <1>5, <1>6

(* The event thread goes on to its next state or waits in it, and leaves   *)
(* the machine and the application alone.                                  *)
Moves ==
  /\ cpu = "event" /\ et.state # "rekey"
  /\ machine' = machine /\ FlagsKept /\ calls' = calls
  /\ et'.started /\ et'.state # "rekey"
  /\ threads' = threads + (cmds'.resume - cmds.resume) + (cmds'.other - cmds.other)
  /\ cmds'.resume \in Nat /\ cmds'.other \in Nat
  /\ conn'.status = conn.status \/ Bad(conn'.status)
  /\ et'.state = "connect_error" /\ ~conn.disconnected => Bad(conn'.status)

(* Then all that is not about the event thread stays as it was.            *)
Unmoved == /\ Counted /\ Resting /\ Unstarted /\ Starting /\ Control /\ Closing /\ Ended /\ Signals
           /\ Told

(* The application has been told nothing new.                              *)
LEMMA MovedTold ==
  ASSUME ConnInv, Moves
  PROVE  Told' /\ Resting' /\ Unstarted' /\ Ended'
<1>1. et.started /\ machine.state \in {"run", "close"} /\ ~conn.connect /\ ~conn.key_exchange
      /\ ~conn.rekeying
  BY EventRuns DEF Moves
<1>2. Resting' /\ Unstarted' /\ Ended'
  BY <1>1 DEF Moves, Resting, Unstarted, Ended, FlagsKept
<1>3. Told'
  BY <1>1 DEF ConnInv, Told, Moves, FlagsKept
<1> QED
  BY <1>2, <1>3

(* A thread that goes on to its next state leaves the machine alone.       *)
LEMMA MovedOn ==
  ASSUME ConnInv, Moves, UNCHANGED <<cpu, after, queue>>
  PROVE  Unmoved'
<1>1. et.started /\ machine.state \in {"run", "close"} /\ ~conn.connect /\ ~conn.key_exchange
      /\ ~conn.rekeying
  BY EventRuns DEF Moves
<1>2. Starting' /\ Control' /\ Closing'
  BY DEF ConnInv, Moves, Starting, Control, Closing, FlagsKept
<1>3. Signals'
  BY <1>1 DEF ConnInv, Moves, Signals, NoFlag, FlagsKept
<1>4. Counted'
  <2>1. /\ cmds.resume \in Nat /\ cmds.other \in Nat
        /\ Count(queue, "evfin") \in Nat /\ Count(queue, "cmdfin") \in Nat
    BY Counting DEF ConnInv, Typed
  <2>2. threads = 1 + Count(queue, "evfin") + Count(queue, "cmdfin") + cmds.resume + cmds.other
    BY <1>1 DEF ConnInv, Counted, One
  <2>3. /\ threads' = threads + (cmds'.resume - cmds.resume) + (cmds'.other - cmds.other)
        /\ cmds'.resume \in Nat /\ cmds'.other \in Nat
    BY DEF Moves
  <2>4. threads' = 1 + Count(queue, "evfin") + Count(queue, "cmdfin") + cmds'.resume + cmds'.other
    BY ONLY <2>1, <2>2, <2>3
  <2> QED
    BY <2>4 DEF Moves, Counted, One
<1> QED
  BY <1>2, <1>3, <1>4, MovedTold DEF Unmoved

(* A thread that returns to its caller does too.                           *)
LEMMA MovedBack ==
  ASSUME ConnInv, Moves, NEW q, Kept(q, queue, {"event"}), Return(q)
  PROVE  /\ Unmoved' /\ cpu' # "event" /\ Count(queue', "evfin") = 0
         /\ Count(queue', "event") = Count(q, "event") /\ queue' \in Seq(Tasks)
         /\ cpu' \in {"idle", "conn"} /\ after' = "idle"
<1>1. et.started /\ machine.state \in {"run", "close"} /\ ~conn.connect /\ ~conn.key_exchange
      /\ ~conn.rekeying /\ Count(queue, "evfin") = 0
  BY EventRuns DEF Moves
<1>2. q \in Seq(Tasks)
  BY DEF Kept
<1>3. /\ after' = "idle"
      /\ after = "yield" => cpu' = "idle" /\ Grown(queue', q, "conn")
      /\ after # "yield" => queue' = q
      /\ after = "continue" => cpu' = "conn"
      /\ after # "continue" => cpu' = "idle"
  BY <1>2, Returns
<1>4. \A t : t \notin {"event", "conn"} => Count(queue', t) = Count(queue, t)
  BY <1>2, <1>3, Counting DEF Kept, Grown, One
<1>5. Count(queue', "conn") = Count(queue, "conn") + One(after = "yield")
  BY <1>2, <1>3, Counting DEF Kept, Grown, One
<1>6. \A x, t : t \notin {"event", "conn"} /\ NoAfter(queue, x, t) => NoAfter(queue', x, t)
  BY <1>2, <1>3 DEF Kept, Grown
<1>7. queue' \in Seq(Tasks) /\ Count(queue', "event") = Count(q, "event")
  BY <1>2, <1>3, Counting DEF Grown, One
<1>8. Starting'
  BY <1>1, <1>4 DEF ConnInv, Moves, Starting, FlagsKept
<1>9. Control'
  BY <1>1, <1>3, <1>4, <1>5 DEF ConnInv, Moves, Control, One
<1>10. Closing'
  <2> SUFFICES ASSUME machine.state = "close" PROVE Closing'
    BY DEF Closing, Moves
  <2>1. /\ ~machine.waiting /\ NoAfter(queue, "conn", "signal") /\ cpu' = "idle"
        /\ Count(queue, "conn") + One(after = "yield") = 1 /\ Count(queue, "conn") \in Nat
    BY <1>3, Counting DEF ConnInv, Moves, Typed, Closing, Control, One
  <2> QED
    BY <1>3, <1>5, <1>6, <2>1 DEF Moves, Closing, One
<1>11. Signals'
  BY <1>1, <1>3, <1>4, <1>6 DEF ConnInv, Moves, Signals, FlagsKept, NoFlag, Control, One
<1>12. Counted'
  <2>1. /\ Count(queue', "evfin") = Count(queue, "evfin") /\ Count(queue, "evfin") \in Nat
        /\ Count(queue', "cmdfin") = Count(queue, "cmdfin") /\ Count(queue, "cmdfin") \in Nat
    BY <1>4, Counting DEF ConnInv, Typed
  <2>2. cmds.resume \in Nat /\ cmds.other \in Nat
    BY DEF ConnInv, Typed
  <2> QED
    BY <1>1, <2>1, <2>2 DEF ConnInv, Moves, Counted, One
<1> QED
  BY <1>1, <1>3, <1>4, <1>7, <1>8, <1>9, <1>10, <1>11, <1>12, MovedTold DEF Unmoved

(* A state that runs while the connection is up is the only thing that     *)
(* will wake the event thread.                                             *)
LEMMA NothingElse ==
  ASSUME ConnInv, cpu = "event", ~conn.disconnected,
         et.state \notin {"resume_completed"} \cup Errors
  PROVE  /\ async = {} /\ cmds.resume = 0 /\ ~et.timer /\ Count(queue, "event") = 0
         /\ et.started
<1>1. et.started /\ ~et.timer
  BY EventRuns
<1>2. Count(queue, "event") \in Nat /\ cmds.resume \in Nat
  BY Counting DEF ConnInv, Typed
<1>3. Count(queue, "event") + One(cpu = "event") + One(async # {}) + One(et.timer) + cmds.resume <= 1
  BY <1>1 DEF ConnInv, Working, Runs
<1> QED
  BY <1>1, <1>2, <1>3 DEF One

(* The states that go on to each other without waiting.                    *)
LEMMA WentOn ==
  ASSUME ConnInv, Moves, NEW s \in EventStates,
         Thread(et', s, et.started, et.finished, et.sync, et.later, et.timer),
         UNCHANGED <<cpu, after, queue, async, cmds>>,
         et.state \notin Errors,
         s \notin Later \cup {"null", "resolve_cmodes", "resume_completed"},
         conn.disconnected => s \in Errors,
         conn.disconnected /\ s # "connect_error" => et.state \in Registering,
         conn.disconnected \/ et.state # "resume_completed",
         ~conn.disconnected /\ conn'.registering => s \in Registering \cup Errors,
         ~conn.disconnected /\ conn'.auth_request => s = "connect_error"
  PROVE  Working' /\ Unmoved'
<1>1. et.started /\ machine.state \in {"run", "close"} /\ ~conn.connect /\ ~conn.key_exchange
      /\ ~conn.rekeying /\ ~et.timer /\ Count(queue, "evfin") = 0
  BY EventRuns DEF Moves
<1>2. /\ ~et.finished /\ calls = <<>> /\ (conn.disconnected => cmds.resume = 0)
      /\ \A k \in async : et.state \in WaitsFor(k)
  BY <1>1 DEF ConnInv, Working, Moves
<1>3. ~conn.disconnected => async = {} /\ cmds.resume = 0 /\ Count(queue, "event") = 0
  BY NothingElse DEF Moves
<1>4. /\ et'.started /\ ~et'.finished /\ et'.state = s /\ ~et'.timer /\ s # "rekey"
      /\ cpu = "event" /\ cmds.resume = 0
  BY <1>1, <1>2, <1>3 DEF Thread, Moves
<1>5. \A k \in async : s \in WaitsFor(k)
  <2>1. s # "connect_error" => async = {}
    BY <1>2, <1>3 DEF Errors, WaitsFor, Registering, Moves
  <2>2. \A k \in async : "connect_error" \in WaitsFor(k)
    BY <1>2 DEF WaitsFor, Moves
  <2> QED
    BY <2>1, <2>2
<1>6. ~conn.disconnected => Runs' = 1
  BY <1>3, <1>4 DEF Runs, One
<1>7. Working'
  BY <1>1, <1>2, <1>3, <1>4, <1>5, <1>6 DEF Moves, FlagsKept, Working, One, Passed, Later, Errors
<1> QED
  BY <1>7, MovedOn

(* The state in which all that will call back is awaited.                  *)
AwaitsAll(s, a) == \A k \in a : s \in WaitsFor(k)

(* The event thread waits in s, with a timeout if s is one of Later.       *)
EntersWait(s) ==
  /\ et' \in EventThreads /\ et'.state = s
  /\ et'.started = et.started /\ et'.finished = et.finished
  /\ et'.timer = (s \in Later)
  /\ et'.timer => et'.later

(* The states that wait while the connection is up.                        *)
LEMMA WentToWait ==
  ASSUME ConnInv, Moves, ~conn.disconnected, NEW q, Kept(q, queue, {"event"}), Return(q),
         NEW s \in EventStates, EntersWait(s),
         s \notin {"null", "register_error", "resume_error", "connect_error"} \cup Passed,
         s \in {"resolve_cmodes", "resume_completed"} => conn'.local_id,
         AwaitsAll(s, async'),
         s \notin {"resolve_cmodes", "resume_completed"} => cmds'.resume = 0,
         s # "resume_completed" =>
           Count(q, "event") + One(async' # {}) + One(s \in Later) + cmds'.resume <= 1,
         s = "resume_completed" =>
           Count(q, "event") + cmds'.resume <= IF resume' > 1 THEN resume' ELSE 1,
         conn'.registering => s \in Registering,
         conn'.auth_request => s = "auth_data"
  PROVE  Working' /\ Unmoved' /\ queue' \in Seq(Tasks) /\ cpu' \in {"idle", "conn"} /\ after' = "idle"
<1>1. et.started /\ machine.state \in {"run", "close"} /\ ~conn.connect /\ ~conn.key_exchange
      /\ ~conn.rekeying /\ ~et.timer
  BY EventRuns DEF Moves
<1>2. ~et.finished /\ calls = <<>>
  BY <1>1 DEF ConnInv, Working, Moves
<1>3. /\ Unmoved' /\ cpu' # "event" /\ Count(queue', "evfin") = 0
      /\ Count(queue', "event") = Count(q, "event") /\ queue' \in Seq(Tasks)
      /\ cpu' \in {"idle", "conn"} /\ after' = "idle"
  BY MovedBack
<1>4. /\ et'.started /\ ~et'.finished /\ et'.state = s /\ et'.timer = (s \in Later)
      /\ (et'.timer => et'.later) /\ s # "rekey"
  BY <1>1, <1>2 DEF EntersWait, Moves
<1>5. Runs' = Count(q, "event")
  <2>1. Count(q, "event") \in Nat
    BY Counting DEF Kept
  <2> QED
    BY <1>3, <2>1 DEF Runs, One
<1>6. /\ et'.state \in Passed => FALSE
      /\ et'.timer => et'.later /\ cpu' # "event" /\ et'.state \in Later
      /\ et'.state \in Later => et'.timer
  BY <1>3, <1>4
<1>9. et'.timer => Count(queue', "event") = 0
  <2>1. Count(q, "event") \in Nat /\ cmds'.resume \in Nat /\ One(async' # {}) \in Nat
    BY Counting DEF Kept, Moves, One
  <2>2. s \in Later => s # "resume_completed" /\ One(s \in Later) = 1
    BY DEF Later, One
  <2>3. s \in Later => Count(q, "event") = 0
    BY <2>1, <2>2
  <2>4. et'.timer => s \in Later
    BY <1>4, <1>6
  <2> QED
    BY <1>3, <2>3, <2>4
<1>7. /\ s # "resume_completed" => Runs' + One(async' # {}) + One(et'.timer) + cmds'.resume <= 1
      /\ s = "resume_completed" => Runs' + cmds'.resume <= IF resume' > 1 THEN resume' ELSE 1
  BY <1>4, <1>5
<1>8. Working'
  BY <1>1, <1>2, <1>3, <1>4, <1>6, <1>7, <1>9 DEF Moves, FlagsKept, Working, AwaitsAll
<1> QED
  BY <1>3, <1>8

(* The states that go on while the connection is up.                       *)
LEMMA GoesOn ==
  ASSUME ConnInv, cpu = "event", ~conn.disconnected, NEW s \in EventStates, GoOn(s),
         UNCHANGED <<params, machine, threads, async, cmds, calls, resume>>,
         et.state \notin Errors \cup {"resume_completed", "rekey"},
         s \notin Later \cup {"null", "rekey", "resolve_cmodes", "resume_completed"},
         conn' \in Connections, FlagsKept,
         timers' \in [connect: BOOLEAN, rekey: BOOLEAN],
         stream' \in {"none", "open", "eos", "destroyed"},
         conn'.status = conn.status \/ Bad(conn'.status),
         s = "connect_error" => Bad(conn'.status),
         conn'.registering => s \in Registering \cup Errors,
         conn'.auth_request => s = "connect_error"
  PROVE  ConnInv'
<1>1. Typed /\ cmds.resume \in Nat /\ cmds.other \in Nat
  BY DEF ConnInv, Typed
<1>2. /\ Thread(et', s, et.started, et.finished, et.sync, et.later, et.timer)
      /\ UNCHANGED <<cpu, after, queue>>
  BY <1>1, GoneOn
<1>3. async = {} /\ et.started
  BY NothingElse
<1>4. threads \in Int
  BY <1>1, Counting DEF ConnInv, Counted, Typed, One
<1>5. Moves
  BY <1>1, <1>2, <1>3, <1>4 DEF Moves, Thread
<1>6. Working' /\ Unmoved'
  BY <1>2, <1>5, WentOn
<1>7. Typed'
  BY <1>1, <1>2 DEF Typed, Thread
<1>8. Abortable'
  BY <1>3 DEF Abortable
<1> QED
  BY <1>6, <1>7, <1>8 DEF ConnInv, Unmoved

(* The states that find the connection disconnected.                       *)
LEMMA GivesUp ==
  ASSUME ConnInv, cpu = "event", conn.disconnected, NEW s \in Errors, GoOn(s),
         UNCHANGED <<params, machine, threads, timers, async, cmds, stream, resume, calls>>,
         et.state \notin Errors \cup {"rekey"}, conn' \in Connections, FlagsKept,
         conn'.op = conn.op, conn'.status = conn.status,
         s # "connect_error" => et.state \in Registering
  PROVE  ConnInv'
<1>1. Typed /\ cmds.resume \in Nat /\ cmds.other \in Nat /\ s \in EventStates
  BY DEF ConnInv, Typed, Errors, EventStates
<1>2. /\ Thread(et', s, et.started, et.finished, et.sync, et.later, et.timer)
      /\ UNCHANGED <<cpu, after, queue>>
  BY <1>1, GoneOn
<1>3. et.started
  BY EventRuns
<1>4. threads \in Int
  BY <1>1, Counting DEF ConnInv, Counted, Typed, One
<1>5. s \notin Later \cup {"null", "rekey", "resolve_cmodes", "resume_completed"}
  BY DEF Errors, Later
<1>6. Moves
  BY <1>1, <1>2, <1>3, <1>4, <1>5 DEF Moves, Thread
<1>7. Working' /\ Unmoved'
  BY <1>1, <1>2, <1>5, <1>6, WentOn
<1>8. Typed'
  BY <1>1, <1>2 DEF Typed, Thread
<1>9. Abortable'
  BY DEF ConnInv, Abortable
<1> QED
  BY <1>7, <1>8, <1>9 DEF ConnInv, Unmoved

(* They go on to the state that gives up.                                  *)
LEMMA IfDisconnectedKeeps ==
  ASSUME ConnInv, cpu = "event", NEW s \in Errors, IfDisconnected(s),
         et.state \notin Errors \cup {"rekey"},
         s # "connect_error" => et.state \in Registering
  PROVE  ConnInv'
<1>1. conn' \in Connections /\ FlagsKept /\ conn'.op = conn.op /\ conn'.status = conn.status
  BY DEF ConnInv, Typed, IfDisconnected, FlagsKept
<1> QED
  BY <1>1, GivesUp DEF IfDisconnected

(* The states that wait, for an operation, an answer, a reply or a time.   *)
LEMMA GoesToWait ==
  ASSUME ConnInv, cpu = "event", ~conn.disconnected, NEW q, Kept(q, queue, {"event"}), Return(q),
         NEW s \in EventStates, EntersWait(s),
         et.state # "rekey",
         s \notin {"null", "rekey"} \cup Errors \cup Passed,
         UNCHANGED <<params, machine, stream, calls>>,
         timers' \in [connect: BOOLEAN, rekey: BOOLEAN],
         conn' \in Connections, FlagsKept, conn'.status = conn.status,
         cmds' \in [resume: Nat, other: Nat], resume' \in Nat,
         threads' = threads + (cmds'.resume - cmds.resume) + (cmds'.other - cmds.other),
         async' \subseteq Operations \cup {"answer"}, async' \subseteq {conn'.op, "answer"},
         s \in {"resolve_cmodes", "resume_completed"} => conn'.local_id,
         AwaitsAll(s, async'),
         s \notin {"resolve_cmodes", "resume_completed"} => cmds'.resume = 0,
         s # "resume_completed" =>
           Count(q, "event") + One(async' # {}) + One(s \in Later) + cmds'.resume <= 1,
         s = "resume_completed" =>
           Count(q, "event") + cmds'.resume <= IF resume' > 1 THEN resume' ELSE 1,
         conn'.registering => s \in Registering,
         conn'.auth_request => s = "auth_data"
  PROVE  ConnInv'
<1>1. et.started
  BY EventRuns
<1>2. Moves
  BY <1>1 DEF Moves, EntersWait, Errors
<1>3. s \notin {"null", "register_error", "resume_error", "connect_error"} \cup Passed
  BY DEF Errors
<1>4. Working' /\ Unmoved' /\ queue' \in Seq(Tasks) /\ cpu' \in {"idle", "conn"} /\ after' = "idle"
  BY <1>2, <1>3, WentToWait
<1>5. Typed'
  BY <1>4 DEF ConnInv, Typed, EntersWait
<1>6. Abortable'
  BY DEF Abortable
<1> QED
  BY <1>4, <1>5, <1>6 DEF ConnInv, Unmoved

(* The types, and the counts, of what the invariant is about.              *)
LEMMA Types ==
  ASSUME ConnInv
  PROVE  /\ Typed /\ params \in ParamSet /\ conn \in Connections /\ et \in EventThreads
         /\ queue \in Seq(Tasks) /\ timers \in [connect: BOOLEAN, rekey: BOOLEAN]
         /\ cmds \in [resume: Nat, other: Nat] /\ resume \in Nat
         /\ stream \in {"none", "open", "eos", "destroyed"}
         /\ cmds.resume \in Nat /\ cmds.other \in Nat /\ threads \in Nat
         /\ \A t : Count(queue, t) \in Nat
<1>1. \A t : Count(queue, t) \in Nat
  BY Counting DEF ConnInv, Typed
<1>2. cmds.resume \in Nat /\ cmds.other \in Nat
  BY DEF ConnInv, Typed
<1>3. threads \in Nat
  BY <1>1, <1>2 DEF ConnInv, Counted, One
<1> QED
  BY <1>1, <1>2, <1>3, ParamsAssumption DEF ConnInv, Typed

(* A state waits for an operation, or for the answer of the application.   *)
LEMMA AwaitsOperation ==
  ASSUME ConnInv, cpu = "event", ~conn.disconnected, et.state # "rekey",
         async = {}, cmds.resume = 0, ~et.timer, Count(queue, "event") = 0,
         NEW s \in EventStates, WaitIn(s),
         NEW k \in Operations \cup {"answer"}, async' = async \cup {k},
         k # "answer" => conn'.op = k, s \in WaitsFor(k),
         s \notin {"null", "rekey", "resolve_cmodes", "resume_completed"} \cup Errors \cup Passed
                    \cup Later,
         UNCHANGED <<params, machine, threads, cmds, stream, resume, calls>>,
         timers' \in [connect: BOOLEAN, rekey: BOOLEAN],
         conn' \in Connections, FlagsKept, conn'.status = conn.status,
         ~conn'.registering, ~conn'.auth_request
  PROVE  ConnInv'
<1>1. /\ Typed /\ et.later \in BOOLEAN /\ et.timer \in BOOLEAN
      /\ cmds' \in [resume: Nat, other: Nat] /\ resume' \in Nat
      /\ cmds.resume \in Nat /\ cmds.other \in Nat /\ threads \in Nat
  BY Types DEF EventThreads
<1>2. EntersWait(s) /\ Kept(queue, queue, {"event"}) /\ Return(queue)
  <2>1. /\ Thread(et', s, et.started, et.finished, FALSE, et.later, et.timer)
        /\ Kept(queue, queue, {"event"}) /\ Return(queue)
    BY <1>1, WaitedIn
  <2>2. /\ et' \in EventThreads /\ et'.state = s /\ et'.started = et.started
        /\ et'.finished = et.finished /\ et'.timer = et.timer
    BY <2>1 DEF Thread
  <2>3. et'.timer = (s \in Later)
    BY <1>1, <2>2
  <2> QED
    BY <2>1, <2>2, <2>3 DEF EntersWait
<1>3. threads' = threads + (cmds'.resume - cmds.resume) + (cmds'.other - cmds.other)
  BY <1>1
<1>4. /\ async' \subseteq Operations \cup {"answer"} /\ async' \subseteq {conn'.op, "answer"}
      /\ AwaitsAll(s, async')
  BY DEF AwaitsAll
<1>5. Count(queue, "event") + One(async' # {}) + One(s \in Later) + cmds'.resume <= 1
  BY DEF One
<1>6. /\ s \notin {"null", "rekey"} \cup Errors \cup Passed
      /\ s \notin {"resolve_cmodes", "resume_completed"}
  OBVIOUS
<1> QED
  BY <1>1, <1>2, <1>3, <1>4, <1>5, <1>6, GoesToWait

(* A state waits with a timeout, for a packet.                             *)
LEMMA AwaitsTime ==
  ASSUME ConnInv, cpu = "event", ~conn.disconnected, et.state # "rekey",
         async = {}, cmds.resume = 0, Count(queue, "event") = 0,
         NEW s \in EventStates, WaitLater(s), s \in Later,
         UNCHANGED <<params, machine, threads, cmds, async, timers, stream, calls>>,
         resume' \in Nat, conn' \in Connections, FlagsKept, conn'.status = conn.status,
         conn'.registering => s \in Registering,
         conn'.auth_request => s = "auth_data"
  PROVE  ConnInv'
<1>1. /\ Typed /\ timers' \in [connect: BOOLEAN, rekey: BOOLEAN]
      /\ cmds' \in [resume: Nat, other: Nat]
      /\ cmds.resume \in Nat /\ cmds.other \in Nat /\ threads \in Nat
  BY Types
<1>2. EntersWait(s) /\ Kept(queue, queue, {"event"}) /\ Return(queue)
  BY <1>1, WaitedLater DEF EntersWait, Thread
<1>3. threads' = threads + (cmds'.resume - cmds.resume) + (cmds'.other - cmds.other)
  BY <1>1
<1>4. Count(queue, "event") + One(async' # {}) + One(s \in Later) + cmds'.resume <= 1
      /\ AwaitsAll(s, async')
  BY DEF One, AwaitsAll
<1>5. s \notin {"null", "rekey", "resolve_cmodes", "resume_completed"} \cup Errors \cup Passed
  BY DEF Later, Errors, Passed
<1> QED
  BY <1>1, <1>2, <1>3, <1>4, <1>5, GoesToWait

(* A state of a connection that is up: nothing else will wake the event    *)
(* thread, and the flags of the packets it awaits are those of the state.  *)
LEMMA RunsAlone ==
  ASSUME ConnInv, NEW s, Running(s), s \notin {"resume_completed"} \cup Errors,
         s \in Passed \/ ~conn.disconnected
  PROVE  /\ cpu = "event" /\ et.state = s /\ et.started /\ ~conn.disconnected
         /\ async = {} /\ cmds.resume = 0 /\ ~et.timer /\ Count(queue, "event") = 0
         /\ conn.registering => s \in Registering
         /\ conn.auth_request => s = "auth_data"
<1>1. cpu = "event" /\ et.state = s /\ et.started
  BY EventRuns DEF Running
<1>2. ~conn.disconnected
  BY <1>1 DEF ConnInv, Working
<1>3. async = {} /\ cmds.resume = 0 /\ ~et.timer /\ Count(queue, "event") = 0
  BY <1>1, <1>2, NothingElse
<1>4. /\ conn.registering => s \in Registering
      /\ conn.auth_request => s = "auth_data"
  BY <1>1, <1>2 DEF ConnInv, Working, Errors
<1> QED
  BY <1>1, <1>2, <1>3, <1>4

(* silc_client_st_connect *)
LEMMA StConnectKeeps ==
  ASSUME ConnInv, StConnect
  PROVE  ConnInv'
<1>1. /\ cpu = "event" /\ et.state = "connect" /\ et.started /\ ~conn.disconnected
      /\ async = {} /\ cmds.resume = 0 /\ ~et.timer /\ Count(queue, "event") = 0
      /\ ~conn.registering /\ ~conn.auth_request
  BY RunsAlone DEF StConnect, Passed, Errors, Registering
<1>2. /\ conn \in Connections /\ stream \in {"none", "open", "eos", "destroyed"}
      /\ timers' \in [connect: BOOLEAN, rekey: BOOLEAN]
  BY Types DEF StConnect, ParamSet
<1>3. UNCHANGED <<params, machine, threads, cmds, stream, resume, calls>>
  BY DEF StConnect
<1>4. CASE /\ conn' = [conn EXCEPT !.op = "tcp"] /\ async' = async \cup {"tcp"}
           /\ WaitIn("set_stream")
  <2>1. /\ conn' \in Connections /\ FlagsKept /\ conn'.op = "tcp"
        /\ conn'.status = conn.status /\ ~conn'.registering /\ ~conn'.auth_request
    BY <1>1, <1>2, <1>4 DEF Connections, FlagsKept, Operations
  <2> QED
    BY <1>1, <1>2, <1>3, <1>4, <2>1, AwaitsOperation DEF EventStates, Errors, Passed, Later,
       Operations, WaitsFor
<1>5. CASE conn' = [conn EXCEPT !.op = "none"] /\ GoOn("set_stream") /\ UNCHANGED async
  <2>1. /\ conn' \in Connections /\ FlagsKept
        /\ conn'.status = conn.status /\ ~conn'.registering /\ ~conn'.auth_request
    BY <1>1, <1>2, <1>5 DEF Connections, FlagsKept, Operations
  <2> QED
    BY <1>1, <1>2, <1>3, <1>5, <2>1, GoesOn DEF EventStates, Errors, Later
<1>6. CASE Failed("error") /\ GoOn("connect_error") /\ UNCHANGED async
  <2>1. /\ conn' \in Connections /\ FlagsKept
        /\ Bad(conn'.status) /\ ~conn'.registering /\ ~conn'.auth_request
    BY <1>1, <1>2, <1>6 DEF Connections, FlagsKept, Failed, Bad, Statuses
  <2> QED
    BY <1>1, <1>2, <1>3, <1>6, <2>1, GoesOn DEF EventStates, Errors, Later
<1> QED
  BY <1>4, <1>5, <1>6 DEF StConnect

(* silc_client_st_connect_set_stream *)
LEMMA StSetStreamKeeps ==
  ASSUME ConnInv, StSetStream
  PROVE  ConnInv'
<1>1. CASE IfDisconnected("connect_error")
  <2>1. cpu = "event" /\ et.state = "set_stream"
    BY DEF StSetStream, Running
  <2> QED
    BY <1>1, <2>1, IfDisconnectedKeeps DEF Errors
<1>2. CASE ~conn.disconnected
  <2>1. /\ cpu = "event" /\ et.state = "set_stream" /\ et.started /\ ~conn.disconnected
        /\ async = {} /\ cmds.resume = 0 /\ ~et.timer /\ Count(queue, "event") = 0
        /\ ~conn.registering /\ ~conn.auth_request
    BY <1>2, RunsAlone DEF StSetStream, Errors, Registering
  <2>2. /\ conn \in Connections /\ stream \in {"none", "open", "eos", "destroyed"}
        /\ timers \in [connect: BOOLEAN, rekey: BOOLEAN] /\ params \in ParamSet /\ resume \in Nat
    BY Types
  <2>3. CASE stream' = "open" /\ GoOn("key_exchange") /\ UNCHANGED conn
               /\ UNCHANGED <<params, machine, threads, timers, async, cmds, resume, calls>>
    <3>1. /\ conn' \in Connections /\ FlagsKept
          /\ conn'.status = conn.status /\ ~conn'.registering /\ ~conn'.auth_request
      BY <2>1, <2>2, <2>3 DEF Connections, FlagsKept
    <3> QED
      BY <2>1, <2>2, <2>3, <3>1, GoesOn DEF EventStates, Errors, Later
  <2>4. CASE Failed("error") /\ GoOn("connect_error") /\ UNCHANGED stream
               /\ UNCHANGED <<params, machine, threads, timers, async, cmds, resume, calls>>
    <3>1. /\ conn' \in Connections /\ FlagsKept
          /\ Bad(conn'.status) /\ ~conn'.registering /\ ~conn'.auth_request
      BY <2>1, <2>2, <2>4 DEF Connections, FlagsKept, Failed, Bad, Statuses
    <3> QED
      BY <2>1, <2>2, <2>4, <3>1, GoesOn DEF EventStates, Errors, Later
  <2> QED
    BY <1>2, <2>3, <2>4 DEF StSetStream, IfDisconnected
<1> QED
  BY <1>1, <1>2 DEF StSetStream, IfDisconnected

(* silc_client_st_connect_key_exchange *)
LEMMA StKeyExchangeKeeps ==
  ASSUME ConnInv, StKeyExchange
  PROVE  ConnInv'
<1>1. /\ cpu = "event" /\ et.state = "key_exchange" /\ et.started /\ ~conn.disconnected
      /\ async = {} /\ cmds.resume = 0 /\ ~et.timer /\ Count(queue, "event") = 0
      /\ ~conn.registering /\ ~conn.auth_request
  BY RunsAlone DEF StKeyExchange, Passed, Errors, Registering
<1>2. /\ conn \in Connections /\ stream \in {"none", "open", "eos", "destroyed"}
      /\ timers \in [connect: BOOLEAN, rekey: BOOLEAN] /\ params \in ParamSet /\ resume \in Nat
  BY Types
<1>3. CASE /\ conn' = [conn EXCEPT !.ske = TRUE, !.op = "ske"] /\ async' = async \cup {"ske"}
           /\ WaitIn(IF params.no_authentication THEN "connected"
                     ELSE IF params.udp THEN "setup_udp" ELSE "auth_resolve")
           /\ UNCHANGED <<params, machine, threads, timers, cmds, stream, resume, calls>>
  <2>1. /\ conn' \in Connections /\ FlagsKept
        /\ conn'.op = "ske" /\ conn'.status = conn.status /\ ~conn'.registering /\ ~conn'.auth_request
    BY <1>1, <1>2, <1>3 DEF Connections, FlagsKept, Operations
  <2> QED
    BY <1>1, <1>2, <1>3, <2>1, AwaitsOperation DEF EventStates, Errors, Passed, Later, Operations, WaitsFor
<1>4. CASE Failed("ke") /\ GoOn("connect_error") /\ UNCHANGED async
             /\ UNCHANGED <<params, machine, threads, timers, cmds, stream, resume, calls>>
  <2>1. /\ conn' \in Connections /\ FlagsKept
        /\ Bad(conn'.status) /\ ~conn'.registering /\ ~conn'.auth_request
    BY <1>1, <1>2, <1>4 DEF Connections, FlagsKept, Failed, Bad, Statuses
  <2> QED
    BY <1>1, <1>2, <1>4, <2>1, GoesOn DEF EventStates, Errors, Later
<1> QED
  BY <1>3, <1>4 DEF StKeyExchange

(* silc_client_st_connect_setup_udp *)
LEMMA StSetupUdpKeeps ==
  ASSUME ConnInv, StSetupUdp
  PROVE  ConnInv'
<1>1. CASE IfDisconnected("connect_error")
  <2>1. cpu = "event" /\ et.state = "setup_udp"
    BY DEF StSetupUdp, Running
  <2> QED
    BY <1>1, <2>1, IfDisconnectedKeeps DEF Errors
<1>2. CASE ~conn.disconnected
  <2>1. /\ cpu = "event" /\ et.state = "setup_udp" /\ et.started /\ ~conn.disconnected
        /\ async = {} /\ cmds.resume = 0 /\ ~et.timer /\ Count(queue, "event") = 0
        /\ ~conn.registering /\ ~conn.auth_request
    BY <1>2, RunsAlone DEF StSetupUdp, Errors, Registering
  <2>2. /\ conn \in Connections /\ stream \in {"none", "open", "eos", "destroyed"}
        /\ timers \in [connect: BOOLEAN, rekey: BOOLEAN] /\ params \in ParamSet /\ resume \in Nat
    BY Types
  <2>3. CASE GoOn("auth_resolve") /\ UNCHANGED conn
               /\ UNCHANGED <<params, machine, threads, timers, async, cmds, stream, resume, calls>>
    <3>1. /\ conn' \in Connections /\ FlagsKept
          /\ conn'.status = conn.status /\ ~conn'.registering /\ ~conn'.auth_request
      BY <2>1, <2>2, <2>3 DEF Connections, FlagsKept
    <3> QED
      BY <2>1, <2>2, <2>3, <3>1, GoesOn DEF EventStates, Errors, Later
  <2>4. CASE Failed("error") /\ GoOn("connect_error")
               /\ UNCHANGED <<params, machine, threads, timers, async, cmds, stream, resume, calls>>
    <3>1. /\ conn' \in Connections /\ FlagsKept
          /\ Bad(conn'.status) /\ ~conn'.registering /\ ~conn'.auth_request
      BY <2>1, <2>2, <2>4 DEF Connections, FlagsKept, Failed, Bad, Statuses
    <3> QED
      BY <2>1, <2>2, <2>4, <3>1, GoesOn DEF EventStates, Errors, Later
  <2> QED
    BY <1>2, <2>3, <2>4 DEF StSetupUdp, IfDisconnected
<1> QED
  BY <1>1, <1>2 DEF StSetupUdp, IfDisconnected

(* silc_client_st_connect_auth_resolve *)
LEMMA StAuthResolveKeeps ==
  ASSUME ConnInv, StAuthResolve
  PROVE  ConnInv'
<1>1. CASE IfDisconnected("connect_error")
  <2>1. cpu = "event" /\ et.state = "auth_resolve"
    BY DEF StAuthResolve, Running
  <2> QED
    BY <1>1, <2>1, IfDisconnectedKeeps DEF Errors
<1>2. CASE ~conn.disconnected
  <2>1. /\ cpu = "event" /\ et.state = "auth_resolve" /\ et.started /\ ~conn.disconnected
        /\ async = {} /\ cmds.resume = 0 /\ ~et.timer /\ Count(queue, "event") = 0
        /\ ~conn.registering /\ ~conn.auth_request
    BY <1>2, RunsAlone DEF StAuthResolve, Errors, Registering
  <2>2. /\ conn \in Connections /\ stream \in {"none", "open", "eos", "destroyed"}
        /\ timers \in [connect: BOOLEAN, rekey: BOOLEAN] /\ params \in ParamSet /\ resume \in Nat
    BY Types
  <2>3. CASE GoOn("auth_start") /\ UNCHANGED conn
               /\ UNCHANGED <<params, machine, threads, timers, async, cmds, stream, resume, calls>>
    <3>1. /\ conn' \in Connections /\ FlagsKept
          /\ conn'.status = conn.status /\ ~conn'.registering /\ ~conn'.auth_request
      BY <2>1, <2>2, <2>3 DEF Connections, FlagsKept
    <3> QED
      BY <2>1, <2>2, <2>3, <3>1, GoesOn DEF EventStates, Errors, Later
  <2>4. CASE conn' = [conn EXCEPT !.auth_request = TRUE] /\ WaitLater("auth_data")
               /\ UNCHANGED <<params, machine, threads, timers, async, cmds, stream, resume, calls>>
    <3>1. /\ conn' \in Connections /\ FlagsKept
          /\ conn'.status = conn.status /\ ~conn'.registering
      BY <2>1, <2>2, <2>4 DEF Connections, FlagsKept
    <3> QED
      BY <2>1, <2>2, <2>4, <3>1, AwaitsTime DEF EventStates, Later
  <2> QED
    BY <1>2, <2>3, <2>4 DEF StAuthResolve, IfDisconnected
<1> QED
  BY <1>1, <1>2 DEF StAuthResolve, IfDisconnected

(* silc_client_st_connect_auth_data *)
LEMMA StAuthDataKeeps ==
  ASSUME ConnInv, StAuthData
  PROVE  ConnInv'
<1>1. CASE IfDisconnected("connect_error")
  <2>1. cpu = "event" /\ et.state = "auth_data"
    BY DEF StAuthData, Running
  <2> QED
    BY <1>1, <2>1, IfDisconnectedKeeps DEF Errors
<1>2. CASE ~conn.disconnected
  <2>1. /\ cpu = "event" /\ et.state = "auth_data" /\ et.started /\ ~conn.disconnected
        /\ async = {} /\ cmds.resume = 0 /\ ~et.timer /\ Count(queue, "event") = 0
        /\ ~conn.registering
    BY <1>2, RunsAlone DEF StAuthData, Errors, Registering
  <2>2. /\ conn \in Connections /\ stream \in {"none", "open", "eos", "destroyed"}
        /\ timers \in [connect: BOOLEAN, rekey: BOOLEAN] /\ params \in ParamSet /\ resume \in Nat
    BY Types
  <2>3. CASE conn' = [conn EXCEPT !.auth_request = FALSE] /\ GoOn("auth_start") /\ UNCHANGED async
               /\ UNCHANGED <<params, machine, threads, timers, cmds, stream, resume, calls>>
    <3>1. /\ conn' \in Connections /\ FlagsKept
          /\ conn'.status = conn.status /\ ~conn'.registering /\ ~conn'.auth_request
      BY <2>1, <2>2, <2>3 DEF Connections, FlagsKept
    <3> QED
      BY <2>1, <2>2, <2>3, <3>1, GoesOn DEF EventStates, Errors, Later
  <2>4. CASE conn' = [conn EXCEPT !.auth_request = FALSE] /\ WaitIn("auth_start")
               /\ async' = async \cup {"answer"}
               /\ UNCHANGED <<params, machine, threads, timers, cmds, stream, resume, calls>>
    <3>1. /\ conn' \in Connections /\ FlagsKept
          /\ conn'.status = conn.status /\ ~conn'.registering /\ ~conn'.auth_request
      BY <2>1, <2>2, <2>4 DEF Connections, FlagsKept
    <3> QED
      BY <2>1, <2>2, <2>4, <3>1, AwaitsOperation DEF EventStates, Errors, Passed, Later, Operations, WaitsFor
  <2> QED
    BY <1>2, <2>3, <2>4 DEF StAuthData, IfDisconnected
<1> QED
  BY <1>1, <1>2 DEF StAuthData, IfDisconnected

(* silc_client_st_connect_auth_start *)
LEMMA StAuthStartKeeps ==
  ASSUME ConnInv, StAuthStart
  PROVE  ConnInv'
<1>1. CASE IfDisconnected("connect_error")
  <2>1. cpu = "event" /\ et.state = "auth_start"
    BY DEF StAuthStart, Running
  <2> QED
    BY <1>1, <2>1, IfDisconnectedKeeps DEF Errors
<1>2. CASE ~conn.disconnected
  <2>1. /\ cpu = "event" /\ et.state = "auth_start" /\ et.started /\ ~conn.disconnected
        /\ async = {} /\ cmds.resume = 0 /\ ~et.timer /\ Count(queue, "event") = 0
        /\ ~conn.registering /\ ~conn.auth_request
    BY <1>2, RunsAlone DEF StAuthStart, Errors, Registering
  <2>2. /\ conn \in Connections /\ stream \in {"none", "open", "eos", "destroyed"}
        /\ timers \in [connect: BOOLEAN, rekey: BOOLEAN] /\ params \in ParamSet /\ resume \in Nat
    BY Types
  <2>3. CASE conn' = [conn EXCEPT !.op = "auth"] /\ async' = async \cup {"auth"} /\ WaitIn("connected")
               /\ UNCHANGED <<params, machine, threads, timers, cmds, stream, resume, calls>>
    <3>1. /\ conn' \in Connections /\ FlagsKept
          /\ conn'.op = "auth" /\ conn'.status = conn.status /\ ~conn'.registering /\ ~conn'.auth_request
      BY <2>1, <2>2, <2>3 DEF Connections, FlagsKept, Operations
    <3> QED
      BY <2>1, <2>2, <2>3, <3>1, AwaitsOperation DEF EventStates, Errors, Passed, Later, Operations, WaitsFor
  <2>4. CASE Failed("auth") /\ GoOn("connect_error") /\ UNCHANGED async
               /\ UNCHANGED <<params, machine, threads, timers, cmds, stream, resume, calls>>
    <3>1. /\ conn' \in Connections /\ FlagsKept
          /\ Bad(conn'.status) /\ ~conn'.registering /\ ~conn'.auth_request
      BY <2>1, <2>2, <2>4 DEF Connections, FlagsKept, Failed, Bad, Statuses
    <3> QED
      BY <2>1, <2>2, <2>4, <3>1, GoesOn DEF EventStates, Errors, Later
  <2> QED
    BY <1>2, <2>3, <2>4 DEF StAuthStart, IfDisconnected
<1> QED
  BY <1>1, <1>2 DEF StAuthStart, IfDisconnected

(* silc_client_st_register *)
LEMMA StRegisterKeeps ==
  ASSUME ConnInv, StRegister
  PROVE  ConnInv'
<1>1. /\ cpu = "event" /\ et.state = "register" /\ et.started /\ ~conn.disconnected
      /\ async = {} /\ cmds.resume = 0 /\ ~et.timer /\ Count(queue, "event") = 0
      /\ ~conn.auth_request
  BY RunsAlone DEF StRegister, Passed, Errors
<1>2. /\ conn \in Connections /\ stream \in {"none", "open", "eos", "destroyed"}
      /\ timers \in [connect: BOOLEAN, rekey: BOOLEAN] /\ params \in ParamSet /\ resume \in Nat
  BY Types
<1>3. CASE GoOn("register_error") /\ UNCHANGED conn
           /\ UNCHANGED <<params, machine, threads, timers, async, cmds, stream, resume, calls>>
  <2>1. /\ conn' \in Connections /\ FlagsKept
        /\ conn'.status = conn.status /\ ~conn'.auth_request
    BY <1>1, <1>2, <1>3 DEF Connections, FlagsKept
  <2> QED
    BY <1>1, <1>2, <1>3, <2>1, GoesOn DEF EventStates, Errors, Later
<1>4. CASE conn' = [conn EXCEPT !.registering = TRUE] /\ WaitLater("register_complete")
           /\ UNCHANGED <<params, machine, threads, timers, async, cmds, stream, resume, calls>>
  <2>1. /\ conn' \in Connections /\ FlagsKept
        /\ conn'.status = conn.status /\ ~conn'.auth_request
    BY <1>1, <1>2, <1>4 DEF Connections, FlagsKept
  <2> QED
    BY <1>1, <1>2, <1>4, <2>1, AwaitsTime DEF EventStates, Later, Registering
<1> QED
  BY <1>3, <1>4 DEF StRegister

(* silc_client_st_resume *)
LEMMA StResumeKeeps ==
  ASSUME ConnInv, StResume
  PROVE  ConnInv'
<1>1. /\ cpu = "event" /\ et.state = "resume" /\ et.started /\ ~conn.disconnected
      /\ async = {} /\ cmds.resume = 0 /\ ~et.timer /\ Count(queue, "event") = 0
      /\ ~conn.registering /\ ~conn.auth_request
  BY RunsAlone DEF StResume, Passed, Errors, Registering
<1>2. /\ conn \in Connections /\ stream \in {"none", "open", "eos", "destroyed"}
      /\ timers \in [connect: BOOLEAN, rekey: BOOLEAN] /\ params \in ParamSet /\ resume \in Nat
  BY Types
<1>3. CASE GoOn("resume_error") /\ UNCHANGED conn
           /\ UNCHANGED <<params, machine, threads, timers, async, cmds, stream, resume, calls>>
  <2>1. /\ conn' \in Connections /\ FlagsKept
        /\ conn'.status = conn.status /\ ~conn'.auth_request
    BY <1>1, <1>2, <1>3 DEF Connections, FlagsKept
  <2> QED
    BY <1>1, <1>2, <1>3, <2>1, GoesOn DEF EventStates, Errors, Later
<1>4. CASE conn' = [conn EXCEPT !.registering = TRUE] /\ resume' = params.channels
           /\ WaitLater("resolve_channels")
           /\ UNCHANGED <<params, machine, threads, timers, async, cmds, stream, calls>>
  <2>1. /\ conn' \in Connections /\ FlagsKept
        /\ conn'.status = conn.status /\ ~conn'.auth_request
    BY <1>1, <1>2, <1>4 DEF Connections, FlagsKept
  <2> QED
    BY <1>1, <1>2, <1>4, <2>1, AwaitsTime DEF EventStates, Later, Registering, ParamSet
<1> QED
  BY <1>3, <1>4 DEF StResume

(* A thread that does not wait for a time enters the state it waits in.    *)
LEMMA EntersPlainWait ==
  ASSUME ConnInv, cpu = "event", NEW s \in EventStates, s \notin Later,
         WaitIn(s) \/ YieldTo(s)
  PROVE  EntersWait(s)
<1>1. ~et.timer /\ Typed
  BY EventRuns DEF ConnInv
<1>2. /\ et' \in EventThreads /\ et'.state = s /\ et'.started = et.started
      /\ et'.finished = et.finished /\ (et'.timer = et.timer \/ et'.timer = (et.timer /\ ~et.later))
  BY <1>1, WaitedIn, Yielded DEF Thread
<1>3. ~et'.timer /\ et'.timer \in BOOLEAN
  BY <1>1, <1>2 DEF EventThreads
<1>4. et'.timer = (s \in Later) /\ (et'.timer => et'.later)
  BY <1>3
<1> QED
  BY <1>2, <1>4 DEF EntersWait

(* silc_client_st_connected, unless it is the end of the connecting.       *)
LEMMA StConnectedOn ==
  ASSUME ConnInv, Running("connected"), UNCHANGED <<params, async, cmds, stream, resume>>,
         UNCHANGED <<machine, threads, calls>>,
         conn' = [conn EXCEPT !.ske = FALSE],
         \/ conn.disconnected /\ GoOn("connect_error") /\ UNCHANGED timers
         \/ /\ ~conn.disconnected /\ timers' = [timers EXCEPT !.rekey = @ \/ params.server]
            /\ GoOn(IF params.resume THEN "resume" ELSE "register")
  PROVE  ConnInv'
<1>1. /\ conn' \in Connections /\ FlagsKept /\ conn'.op = conn.op /\ conn'.status = conn.status
      /\ conn'.registering = conn.registering /\ conn'.auth_request = conn.auth_request
  BY Types DEF Connections, FlagsKept
<1>2. CASE conn.disconnected /\ GoOn("connect_error") /\ UNCHANGED timers
  BY <1>1, <1>2, GivesUp DEF Running, Errors
<1>3. CASE /\ ~conn.disconnected /\ timers' = [timers EXCEPT !.rekey = @ \/ params.server]
           /\ GoOn(IF params.resume THEN "resume" ELSE "register")
  <2>1. /\ cpu = "event" /\ et.state = "connected" /\ ~conn.registering /\ ~conn.auth_request
    BY <1>3, RunsAlone DEF Errors, Registering
  <2>2. /\ timers' \in [connect: BOOLEAN, rekey: BOOLEAN]
        /\ stream' \in {"none", "open", "eos", "destroyed"}
    BY <1>3, Types DEF ParamSet
  <2>3. \E s \in {"resume", "register"} : GoOn(s)
    BY <1>3
  <2> QED
    BY <1>1, <1>3, <2>1, <2>2, <2>3, GoesOn DEF EventStates, Errors, Later
<1> QED
  BY <1>2, <1>3

(* silc_client_st_register_complete, while the ID has not come.            *)
LEMMA StRegisterCompleteOn ==
  ASSUME ConnInv, Running("register_complete"), ~conn.disconnected,
         UNCHANGED <<params, machine, threads, timers, async, cmds, stream, resume, calls>>,
         \/ /\ conn' = [conn EXCEPT !.registering = FALSE, !.retry_count = 0]
            /\ GoOn("register_error")
         \/ /\ ~GiveUp /\ conn' = [conn EXCEPT !.retry_count = @ + 1]
            /\ GoOn("register")
  PROVE  ConnInv'
<1>1. /\ cpu = "event" /\ et.state = "register_complete" /\ ~conn.auth_request
  BY RunsAlone DEF Errors
<1>2. conn \in Connections /\ stream \in {"none", "open", "eos", "destroyed"}
      /\ timers \in [connect: BOOLEAN, rekey: BOOLEAN]
  BY Types
<1>3. conn' \in Connections
  <2>1. conn.retry_count \in 0..RetryCount /\ RetryCount \in Nat
    BY <1>2 DEF Connections, RetryCount
  <2>2. CASE conn' = [conn EXCEPT !.registering = FALSE, !.retry_count = 0]
    <3> DEFINE c == [conn EXCEPT !.registering = FALSE]
    <3>1. c \in Connections
      BY <1>2 DEF Connections
    <3>2. conn' = [c EXCEPT !.retry_count = 0]
      BY <2>2
    <3>3. 0 \in 0..RetryCount
      BY <2>1
    <3> HIDE DEF c
    <3> QED
      BY <3>1, <3>2, <3>3 DEF Connections
  <2>3. CASE ~GiveUp /\ conn' = [conn EXCEPT !.retry_count = @ + 1]
    <3>1. conn.retry_count + 1 \in 0..RetryCount
      BY <2>1, <2>3 DEF GiveUp
    <3> QED
      BY <1>2, <2>3, <3>1 DEF Connections
  <2> QED
    BY <2>2, <2>3
<1>4. FlagsKept /\ conn'.status = conn.status /\ ~conn'.auth_request
  BY <1>1, <1>2 DEF Connections, FlagsKept
<1> QED
  BY <1>1, <1>2, <1>3, <1>4, GoesOn DEF EventStates, Errors, Later, Registering

(* silc_client_st_resume_resolve_channels *)
LEMMA StResolveChannelsKeeps ==
  ASSUME ConnInv, StResolveChannels
  PROVE  ConnInv'
<1>1. CASE IfDisconnected("resume_error")
  <2>1. cpu = "event" /\ et.state = "resolve_channels"
    BY DEF StResolveChannels, Running
  <2> QED
    BY <1>1, <2>1, IfDisconnectedKeeps DEF Errors, Registering
<1>2. CASE ~conn.disconnected
  <2>1. /\ cpu = "event" /\ et.state = "resolve_channels" /\ et.started
        /\ async = {} /\ cmds.resume = 0 /\ ~et.timer /\ Count(queue, "event") = 0
        /\ ~conn.auth_request
    BY <1>2, RunsAlone DEF StResolveChannels, Errors
  <2>2. /\ conn \in Connections /\ stream \in {"none", "open", "eos", "destroyed"}
        /\ timers \in [connect: BOOLEAN, rekey: BOOLEAN] /\ resume \in Nat
        /\ cmds \in [resume: Nat, other: Nat] /\ threads \in Nat /\ queue \in Seq(Tasks) /\ Typed
        /\ cmds.other \in Nat
    BY Types
  <2>3. CASE /\ conn' = [conn EXCEPT !.registering = FALSE] /\ GoOn("resume_error")
             /\ UNCHANGED <<params, machine, threads, timers, async, cmds, stream, resume, calls>>
    <3>1. /\ conn' \in Connections /\ FlagsKept
          /\ conn'.status = conn.status /\ ~conn'.auth_request
      BY <2>1, <2>2, <2>3 DEF Connections, FlagsKept
    <3> QED
      BY <1>2, <2>1, <2>2, <2>3, <3>1, GoesOn DEF EventStates, Errors, Later
  <2>4. CASE /\ conn.local_id
             /\ \/ /\ cmds' = [cmds EXCEPT !.other = @ + 1] /\ threads' = threads + 1
                   /\ YieldTo("resolve_cmodes")
                \/ /\ cmds' = [cmds EXCEPT !.other = @ + 1, !.resume = @ + 1]
                   /\ threads' = threads + 2 /\ WaitIn("resolve_cmodes")
             /\ UNCHANGED <<params, conn, machine, timers, async, stream, resume, calls>>
    <3>1. EntersWait("resolve_cmodes")
      BY <2>1, <2>4, EntersPlainWait DEF EventStates, Later
    <3>2. /\ FlagsKept /\ AwaitsAll("resolve_cmodes", async')
          /\ async' \subseteq Operations \cup {"answer"} /\ async' \subseteq {conn'.op, "answer"}
      BY <2>1, <2>4 DEF FlagsKept, AwaitsAll
    <3>3. /\ cmds' \in [resume: Nat, other: Nat]
          /\ threads' = threads + (cmds'.resume - cmds.resume) + (cmds'.other - cmds.other)
      <4>1. CASE cmds' = [cmds EXCEPT !.other = @ + 1] /\ threads' = threads + 1
        BY <2>1, <2>2, <4>1
      <4>2. CASE cmds' = [cmds EXCEPT !.other = @ + 1, !.resume = @ + 1] /\ threads' = threads + 2
        <5>1. cmds'.resume = cmds.resume + 1 /\ cmds'.other = cmds.other + 1
          BY <2>2, <4>2
        <5>2. cmds' \in [resume: Nat, other: Nat]
          <6> DEFINE c == [cmds EXCEPT !.other = @ + 1]
          <6>1. c \in [resume: Nat, other: Nat]
            BY <2>2
          <6>2. cmds' = [c EXCEPT !.resume = @ + 1]
            BY <4>2
          <6> HIDE DEF c
          <6> QED
            BY <6>1, <6>2
        <5> QED
          BY <2>1, <2>2, <4>2, <5>1, <5>2
      <4> QED
        BY <2>4, <4>1, <4>2
    <3>4. PICK q : /\ Kept(q, queue, {"event"}) /\ Return(q)
                   /\ Count(q, "event") + cmds'.resume = 1
      <4>1. CASE /\ cmds' = [cmds EXCEPT !.other = @ + 1] /\ YieldTo("resolve_cmodes")
        <5>1. PICK q : /\ Kept(q, queue, {"event"}) /\ Return(q)
                       /\ Count(q, "event") \in 1..(Count(queue, "event") + 1)
          BY <2>2, <4>1, Yielded DEF EventStates
        <5>2. cmds'.resume = 0 /\ Count(q, "event") = 1
          BY <2>1, <2>2, <4>1, <5>1
        <5> QED
          BY <5>1, <5>2
      <4>2. CASE /\ cmds' = [cmds EXCEPT !.other = @ + 1, !.resume = @ + 1]
                 /\ WaitIn("resolve_cmodes")
        <5>1. Kept(queue, queue, {"event"}) /\ Return(queue)
          BY <2>2, <4>2, WaitedIn DEF EventStates
        <5>2. cmds'.resume = 1
          BY <2>1, <2>2, <4>2
        <5> QED
          BY <2>1, <5>1, <5>2
      <4> QED
        BY <2>4, <4>1, <4>2
    <3>5. /\ Count(q, "event") + One(async' # {}) + One("resolve_cmodes" \in Later)
               + cmds'.resume <= 1
      BY <2>1, <2>4, <3>3, <3>4, Counting DEF One, Later, Kept
    <3> QED
      BY <1>2, <2>1, <2>2, <2>4, <3>1, <3>2, <3>3, <3>4, <3>5, GoesToWait
      DEF EventStates, Errors, Passed, Registering
  <2> QED
    BY <1>2, <2>3, <2>4 DEF StResolveChannels, IfDisconnected
<1> QED
  BY <1>1, <1>2 DEF StResolveChannels, IfDisconnected

(* silc_client_st_resume_resolve_cmodes *)
LEMMA StResolveCmodesKeeps ==
  ASSUME ConnInv, StResolveCmodes
  PROVE  ConnInv'
<1>1. CASE IfDisconnected("resume_error")
  <2>1. cpu = "event" /\ et.state = "resolve_cmodes"
    BY DEF StResolveCmodes, Running
  <2> QED
    BY <1>1, <2>1, IfDisconnectedKeeps DEF Errors, Registering
<1>2. CASE ~conn.disconnected
  <2>1. /\ cpu = "event" /\ et.state = "resolve_cmodes" /\ et.started
        /\ async = {} /\ cmds.resume = 0 /\ ~et.timer /\ Count(queue, "event") = 0
        /\ ~conn.auth_request
    BY <1>2, RunsAlone DEF StResolveCmodes, Errors
  <2>2. conn.local_id
    BY <2>1 DEF ConnInv, Working
  <2>3. /\ conn \in Connections /\ params.channels \in Nat
        /\ timers \in [connect: BOOLEAN, rekey: BOOLEAN] /\ resume \in Nat
        /\ cmds \in [resume: Nat, other: Nat] /\ threads \in Nat /\ queue \in Seq(Tasks) /\ Typed
        /\ cmds.other \in Nat
    BY Types DEF ParamSet
  <2>4. /\ UNCHANGED <<params, conn, machine, timers, async, stream, calls>>
        /\ \/ YieldTo("resume_completed") /\ UNCHANGED <<resume, cmds, threads>>
           \/ \E n \in 1..params.channels :
                /\ resume' = n * CommandsPerChannel
                /\ cmds' = [cmds EXCEPT !.resume = @ + n * CommandsPerChannel]
                /\ threads' = threads + n * CommandsPerChannel
                /\ WaitIn("resume_completed")
    BY <1>2 DEF StResolveCmodes, IfDisconnected
  <2>5. EntersWait("resume_completed")
    BY <2>1, <2>4, EntersPlainWait DEF EventStates, Later
  <2>6. /\ FlagsKept /\ AwaitsAll("resume_completed", async')
        /\ async' \subseteq Operations \cup {"answer"} /\ async' \subseteq {conn'.op, "answer"}
    BY <2>1, <2>4 DEF FlagsKept, AwaitsAll
  <2>7. PICK q :
               /\ Kept(q, queue, {"event"}) /\ Return(q)
               /\ Count(q, "event") + cmds'.resume <= IF resume' > 1 THEN resume' ELSE 1
               /\ cmds' \in [resume: Nat, other: Nat] /\ resume' \in Nat
               /\ threads' = threads + (cmds'.resume - cmds.resume) + (cmds'.other - cmds.other)
    <3>1. CASE YieldTo("resume_completed") /\ UNCHANGED <<resume, cmds, threads>>
      <4>1. PICK q : /\ Kept(q, queue, {"event"}) /\ Return(q)
                     /\ Count(q, "event") \in 1..(Count(queue, "event") + 1)
        BY <2>3, <3>1, Yielded DEF EventStates
      <4>2. Count(q, "event") = 1
        BY <2>1, <4>1
      <4> QED
        BY <2>1, <2>3, <3>1, <4>1, <4>2
    <3>2. CASE \E n \in 1..params.channels :
                 /\ resume' = n * CommandsPerChannel
                 /\ cmds' = [cmds EXCEPT !.resume = @ + n * CommandsPerChannel]
                 /\ threads' = threads + n * CommandsPerChannel
                 /\ WaitIn("resume_completed")
      <4>1. PICK n \in 1..params.channels :
              /\ resume' = n * 3
              /\ cmds' = [cmds EXCEPT !.resume = @ + n * 3]
              /\ threads' = threads + n * 3
              /\ WaitIn("resume_completed")
        BY <3>2 DEF CommandsPerChannel
      <4>2. Kept(queue, queue, {"event"}) /\ Return(queue)
        BY <2>3, <4>1, WaitedIn DEF EventStates
      <4>3. /\ cmds'.resume = n * 3 /\ cmds'.other = cmds.other /\ resume' > 1
            /\ cmds' \in [resume: Nat, other: Nat] /\ resume' \in Nat
        BY <2>1, <2>3, <4>1
      <4> QED
        BY <2>1, <2>3, <4>1, <4>2, <4>3
    <3> QED
      BY <2>4, <3>1, <3>2
  <2>8. /\ conn' \in Connections /\ conn'.status = conn.status /\ conn'.local_id
        /\ ~conn'.auth_request /\ timers' \in [connect: BOOLEAN, rekey: BOOLEAN]
        /\ UNCHANGED <<params, machine, stream, calls>>
    BY <2>1, <2>2, <2>3, <2>4
  <2> QED
    BY <1>2, <2>1, <2>5, <2>6, <2>7, <2>8, GoesToWait DEF EventStates, Errors, Passed, Registering
<1> QED
  BY <1>1, <1>2 DEF StResolveCmodes, IfDisconnected

(* silc_client_st_resume_completed, for a reply that is not the last one.  *)
LEMMA StResumeCompletedOn ==
  ASSUME ConnInv, Running("resume_completed"), ~conn.disconnected, resume > 1,
         resume' = resume - 1, WaitIn("resume_completed"),
         UNCHANGED <<params, conn, machine, threads, timers, async, cmds, stream, calls>>
  PROVE  ConnInv'
<1>1. /\ cpu = "event" /\ et.state = "resume_completed" /\ et.started
  BY EventRuns DEF Running
<1>2. /\ conn \in Connections /\ Typed
      /\ timers \in [connect: BOOLEAN, rekey: BOOLEAN] /\ resume \in Nat
      /\ cmds \in [resume: Nat, other: Nat] /\ threads \in Nat
      /\ cmds.resume \in Nat /\ cmds.other \in Nat /\ Count(queue, "event") \in Nat
  BY Types
<1>3. /\ conn.local_id /\ ~conn.auth_request /\ async = {}
      /\ Count(queue, "event") + 1 + cmds.resume <= resume
  BY <1>1 DEF ConnInv, Working, WaitsFor, Runs, One
<1>4. EntersWait("resume_completed") /\ Kept(queue, queue, {"event"}) /\ Return(queue)
  BY <1>1, <1>2, EntersPlainWait, WaitedIn DEF EventStates, Later
<1>5. /\ FlagsKept /\ AwaitsAll("resume_completed", async')
      /\ async' \subseteq Operations \cup {"answer"} /\ async' \subseteq {conn'.op, "answer"}
      /\ threads' = threads + (cmds'.resume - cmds.resume) + (cmds'.other - cmds.other)
      /\ Count(queue, "event") + cmds'.resume <= IF resume' > 1 THEN resume' ELSE 1
      /\ resume' \in Nat
  BY <1>2, <1>3 DEF FlagsKept, AwaitsAll
<1> QED
  BY <1>1, <1>2, <1>3, <1>4, <1>5, GoesToWait DEF EventStates, Errors, Passed, Registering

-----------------------------------------------------------------------------
(* The event thread finishes.                                              *)

(* SILC_FSM_EVENT_SIGNAL, at most once.                                    *)
LEMMA Signalled ==
  ASSUME Typed, NEW q \in Seq(Tasks), NEW n \in {0, 1}
  PROVE  /\ machine.waiting /\ n = 1 => Grown(q \o SignalTasks(n), q, "signal")
         /\ ~machine.waiting \/ n = 0 => q \o SignalTasks(n) = q
         /\ q \o SignalTasks(n) \in Seq(Tasks)
<1>1. CASE machine.waiting /\ n = 1
  <2>1. SignalTasks(n) = <<"signal">>
    BY <1>1 DEF SignalTasks
  <2>2. q \o SignalTasks(n) = Append(q, "signal")
    BY <2>1
  <2>3. Grown(Append(q, "signal"), q, "signal")
    BY Pushed DEF Tasks
  <2>4. Append(q, "signal") \in Seq(Tasks)
    BY <2>3 DEF Grown
  <2>5. Grown(q \o SignalTasks(n), q, "signal") /\ q \o SignalTasks(n) \in Seq(Tasks)
    BY ONLY <2>2, <2>3, <2>4
  <2>6. ~(~machine.waiting \/ n = 0)
    BY <1>1
  <2> QED
    BY <2>5, <2>6, Zenon
<1>2. CASE ~machine.waiting \/ n = 0
  <2>1. SignalTasks(n) = <<>>
    BY <1>2 DEF SignalTasks
  <2>2. q \o SignalTasks(n) = q
    BY <2>1
  <2> QED
    BY <1>2, <2>2
<1> QED
  BY <1>1, <1>2, Zenon

(* silc_fsm_finish deletes the runs of the thread, and queues its finish   *)
(* unless it has never waited.                                             *)
Left(r, q) ==
  /\ r \in Seq(Tasks)
  /\ Count(r, "event") = 0
  /\ Count(r, "evfin") = Count(q, "evfin") + One(~et.sync)
  /\ \A t : t \notin {"event", "evfin"} => Count(r, t) = Count(q, t)
  /\ \A x, t : t # "evfin" /\ NoAfter(q, x, t) => NoAfter(r, x, t)
  /\ \A x : et.sync \/ Count(q, x) = 0 =>
       (NoAfter(q, x, "evfin") => NoAfter(r, x, "evfin"))

(* FinishTasks does so, whether or not the thread has waited.              *)
LEMMA FinishTasksLeft ==
  ASSUME Typed, NEW q \in Seq(Tasks)
  PROVE  Left(FinishTasks(q), q)
<1> DEFINE p == WithoutRuns(q)
<1>1. Pruned(p, q)
  BY PrunedAll
<1>2. \A t : Count(q, t) \in Nat
  BY Counting
<1> HIDE DEF p
<1>3. CASE et.sync
  <2>1. FinishTasks(q) = p
    BY <1>3 DEF FinishTasks, p
  <2>2. One(~et.sync) = 0
    BY <1>3 DEF One
  <2> QED
    BY <1>1, <1>2, <2>1, <2>2 DEF Pruned, Left
<1>4. CASE ~et.sync
  <2>1. FinishTasks(q) = Append(p, "evfin") /\ Grown(Append(p, "evfin"), p, "evfin")
    BY <1>1, <1>4, Pushed DEF FinishTasks, p, Pruned, Tasks
  <2>2. One(~et.sync) = 1
    BY <1>4 DEF One
  <2> DEFINE r == Append(p, "evfin")
  <2> HIDE DEF r
  <2>3. Grown(r, p, "evfin")
    BY <2>1 DEF r
  <2>4. Count(r, "event") = 0 /\ Count(r, "evfin") = Count(q, "evfin") + One(~et.sync)
    BY <1>1, <1>2, <2>2, <2>3 DEF Pruned, Grown, One
  <2>5. \A t : t \notin {"event", "evfin"} => Count(r, t) = Count(q, t)
    BY <1>1, <1>2, <2>3 DEF Pruned, Grown, One
  <2>6. \A x, t : t # "evfin" /\ NoAfter(q, x, t) => NoAfter(r, x, t)
    BY <1>1, <2>3 DEF Pruned, Grown
  <2>7. ASSUME NEW x, Count(q, x) = 0, NoAfter(q, x, "evfin") PROVE NoAfter(r, x, "evfin")
    <3>1. Count(p, x) = 0 /\ NoAfter(p, x, "evfin")
      BY <1>1, <2>7 DEF Pruned
    <3> QED
      BY <2>3, <3>1 DEF Grown
  <2>8. r \in Seq(Tasks)
    BY <2>3 DEF Grown
  <2>9. Left(r, q)
    BY <1>4, <2>4, <2>5, <2>6, <2>7, <2>8 DEF Left
  <2> QED
    BY <2>1, <2>9 DEF r
<1> QED
  BY <1>3, <1>4

(* Then the event thread returns.                                          *)
LEMMA FinishQueue ==
  ASSUME ConnInv, cpu = "event", NEW m \in {0, 1}, Return(FinishTasks(queue \o SignalTasks(m)))
  PROVE  /\ queue' \in Seq(Tasks) /\ after' = "idle"
         /\ cpu' = IF after = "continue" THEN "conn" ELSE "idle"
         /\ Count(queue', "event") = 0
         /\ Count(queue', "evfin") = One(~et.sync)
         /\ Count(queue', "conn") = Count(queue, "conn") + One(after = "yield")
         /\ ~machine.waiting \/ m = 0 => Count(queue', "signal") = Count(queue, "signal")
         /\ \A t : t \notin {"event", "evfin", "conn", "signal"} =>
              Count(queue', t) = Count(queue, t)
         /\ ~machine.waiting \/ m = 0 =>
              \A x, t : t \notin {"evfin", "conn"} /\ NoAfter(queue, x, t) => NoAfter(queue', x, t)
         /\ ~machine.waiting \/ m = 0 =>
              \A x : et.sync \/ Count(queue, x) = 0 =>
                (NoAfter(queue, x, "evfin") => NoAfter(queue', x, "evfin"))
<1> DEFINE p == queue \o SignalTasks(m)
           r == FinishTasks(p)
<1>1. Typed /\ queue \in Seq(Tasks) /\ \A t : Count(queue, t) \in Nat
  BY Types
<1>2. /\ machine.waiting /\ m = 1 => Grown(p, queue, "signal")
      /\ ~machine.waiting \/ m = 0 => p = queue
      /\ p \in Seq(Tasks)
  BY <1>1, Signalled
<1> HIDE DEF p
<1>3. Left(r, p)
  BY <1>1, <1>2, FinishTasksLeft
<1> HIDE DEF r
<1>4. r \in Seq(Tasks) /\ Return(r)
  BY <1>3 DEF Left, r, p
<1>5. /\ after' = "idle"
      /\ after = "yield" => cpu' = "idle" /\ Grown(queue', r, "conn")
      /\ after # "yield" => queue' = r
      /\ after = "continue" => cpu' = "conn"
      /\ after # "continue" => cpu' = "idle"
  BY <1>4, Returns
<1>6. queue' \in Seq(Tasks)
  BY <1>4, <1>5 DEF Grown
<1>7. Count(queue, "evfin") = 0
  BY EventRuns
<1>8. \A t : /\ t # "signal" => Count(p, t) = Count(queue, t)
             /\ ~machine.waiting \/ m = 0 => Count(p, t) = Count(queue, t)
  BY <1>1, <1>2 DEF Grown, One
<1>9. \A t : t # "conn" => Count(queue', t) = Count(r, t)
  BY <1>4, <1>5, Counting DEF Grown, One
<1>10. Count(queue', "conn") = Count(r, "conn") + One(after = "yield")
  BY <1>4, <1>5, Counting DEF Grown, One
<1>11. /\ Count(queue', "event") = 0
       /\ Count(queue', "evfin") = One(~et.sync)
  BY <1>3, <1>7, <1>8, <1>9 DEF Left, One
<1>12. /\ Count(queue', "conn") = Count(queue, "conn") + One(after = "yield")
       /\ ~machine.waiting \/ m = 0 => Count(queue', "signal") = Count(queue, "signal")
       /\ \A t : t \notin {"event", "evfin", "conn", "signal"} =>
              Count(queue', t) = Count(queue, t)
  BY <1>3, <1>8, <1>9, <1>10 DEF Left
<1>13. \A x, t : t # "conn" /\ NoAfter(r, x, t) => NoAfter(queue', x, t)
  BY <1>5 DEF Grown
<1>14. ~machine.waiting \/ m = 0 =>
         /\ \A x, t : t \notin {"evfin", "conn"} /\ NoAfter(queue, x, t) => NoAfter(queue', x, t)
         /\ \A x : et.sync \/ Count(queue, x) = 0 =>
              (NoAfter(queue, x, "evfin") => NoAfter(queue', x, "evfin"))
  BY <1>2, <1>3, <1>13 DEF Left
<1> QED
  BY <1>5, <1>6, <1>11, <1>12, <1>14

(* The event thread finishes, with m signals sent and n commands started.  *)
Finishes(m, n) ==
  /\ cpu = "event" /\ FinishEvent(queue \o SignalTasks(m), n)
  /\ machine' = [machine EXCEPT !.value = @ + m]
  /\ m = IF ~conn.disconnected /\ conn'.disconnected THEN 1 ELSE 0
  /\ cmds' \in [resume: Nat, other: Nat] /\ cmds.resume = 0 /\ cmds'.resume = 0
  /\ cmds'.other = cmds.other + n
  /\ UNCHANGED <<params, async, stream>> /\ resume' \in Nat
  /\ timers' \in [connect: BOOLEAN, rekey: BOOLEAN] /\ calls' \in Seq(Statuses)
  /\ conn' \in Connections /\ conn'.op = conn.op
  /\ conn'.connect = conn.connect /\ conn'.key_exchange = conn.key_exchange
  /\ conn'.rekeying = conn.rekeying /\ conn'.callback = conn.callback
  /\ conn.disconnected => conn'.disconnected
  /\ ~conn'.disconnected =>
       async = {} /\ ~conn'.registering /\ ~conn'.auth_request /\ ~timers'.connect
  /\ conn'.disconnected /\ conn'.callback => Bad(conn'.status)
  /\ conn'.cop => conn.cop /\ calls' = calls

(* Then the thread is at rest, and the invariant holds.                    *)
LEMMA FinishKeeps ==
  ASSUME ConnInv, NEW m \in {0, 1}, NEW n \in Nat, Finishes(m, n)
  PROVE  ConnInv'
<1>1. /\ et.started /\ machine.state \in {"run", "close"}
      /\ ~conn.connect /\ ~conn.key_exchange /\ ~conn.rekeying
  BY EventRuns DEF Finishes
<1>2. /\ et \in EventThreads /\ threads \in Nat /\ cmds.other \in Nat
      /\ \A t : Count(queue, t) \in Nat
  BY Types
<1>3. /\ machine \in Machines /\ machine' \in Machines /\ machine'.state = machine.state
      /\ machine'.waiting = machine.waiting /\ machine'.value = machine.value + m
  <2>1. machine \in Machines /\ machine.value \in Nat
    BY DEF ConnInv, Typed, Machines
  <2>2. machine.value + m \in Nat
    BY <2>1
  <2> QED
    BY <2>1, <2>2 DEF Machines, Finishes
<1>4. /\ et' \in EventThreads /\ ~et'.started /\ ~et'.timer
  <2>1. et' = [et EXCEPT !.started = FALSE, !.finished = TRUE, !.later = FALSE, !.timer = FALSE,
                         !.state = IF et.sync THEN "null" ELSE @]
    BY DEF Finishes, FinishEvent, FinishedThread
  <2> QED
    BY <1>2, <2>1 DEF EventThreads, EventStates
<1>5. threads' = threads + n - One(et.sync) /\ Return(FinishTasks(queue \o SignalTasks(m)))
  BY DEF Finishes, FinishEvent, One
<1>6. /\ queue' \in Seq(Tasks) /\ after' = "idle"
      /\ cpu' = IF after = "continue" THEN "conn" ELSE "idle"
      /\ Count(queue', "event") = 0
      /\ Count(queue', "evfin") = One(~et.sync)
      /\ Count(queue', "conn") = Count(queue, "conn") + One(after = "yield")
      /\ ~machine.waiting \/ m = 0 => Count(queue', "signal") = Count(queue, "signal")
      /\ \A t : t \notin {"event", "evfin", "conn", "signal"} =>
           Count(queue', t) = Count(queue, t)
      /\ ~machine.waiting \/ m = 0 =>
           \A x, t : t \notin {"evfin", "conn"} /\ NoAfter(queue, x, t) => NoAfter(queue', x, t)
      /\ ~machine.waiting \/ m = 0 =>
           \A x : et.sync \/ Count(queue, x) = 0 =>
             (NoAfter(queue, x, "evfin") => NoAfter(queue', x, "evfin"))
  BY <1>5, FinishQueue DEF Finishes
<1>7. Typed'
  BY <1>3, <1>4, <1>6 DEF ConnInv, Typed, Finishes
<1>8. Counted'
  <2>1. /\ Count(queue', "cmdfin") = Count(queue, "cmdfin") /\ Count(queue, "cmdfin") \in Nat
        /\ Count(queue, "evfin") = 0
    BY <1>2, <1>6, EventRuns DEF Finishes
  <2>2. threads = 1 + Count(queue, "cmdfin") + cmds.other
    BY <1>1, <1>2, <2>1 DEF ConnInv, Counted, Finishes, One
  <2>3. One(~et.sync) + One(et.sync) = 1 /\ One(et'.started) = 0
    BY <1>2, <1>4 DEF One
  <2>4. One(et.sync) \in Nat /\ One(~et.sync) \in Nat
    BY DEF One
  <2>5. threads' = One(~et.sync) + Count(queue, "cmdfin") + cmds.other + n
    BY <1>2, <1>5, <2>1, <2>2, <2>3, <2>4
  <2>6. cmds'.other = cmds.other + n /\ cmds'.resume = 0
    BY DEF Finishes
  <2> QED
    BY <1>2, <1>6, <2>1, <2>3, <2>4, <2>5, <2>6 DEF Counted
<1>9. Resting' /\ Working' /\ Ended'
  BY <1>1, <1>3, <1>4, <1>6 DEF Finishes, Resting, Working, Ended
<1>10. Abortable' /\ Unstarted'
  BY <1>1 DEF ConnInv, Finishes, Abortable, Unstarted
<1>11. Starting'
  BY <1>1, <1>3, <1>6 DEF ConnInv, Starting, Finishes
<1>12. Control'
  BY <1>1, <1>3, <1>6 DEF ConnInv, Control, Finishes, One
<1>13. Closing'
  <2> SUFFICES ASSUME machine.state = "close" PROVE Closing'
    BY <1>3 DEF Closing
  <2>1. /\ ~machine.waiting /\ NoAfter(queue, "conn", "signal") /\ cpu' = "idle"
        /\ Count(queue, "conn") + One(after = "yield") = 1
    BY <1>2, <1>6 DEF ConnInv, Finishes, Closing, Control, One
  <2> QED
    BY <1>2, <1>3, <1>6, <2>1 DEF Closing, One
<1>14. Signals'
  <2> SUFFICES ASSUME machine.state = "run", ~conn'.disconnected PROVE Signals'
    BY <1>3 DEF Signals
  <2>1. m = 0 /\ ~conn.disconnected /\ machine'.value = machine.value /\ NoFlag /\ NoFlag'
    BY <1>1, <1>3 DEF Finishes, NoFlag, ConnInv, Typed, Machines
  <2>2. /\ machine.value > 0 => after = "continue"
        /\ et.state # "rekey" => Count(queue, "signal") = 0
        /\ et.state = "rekey" => et.sync
        /\ NoAfter(queue, "signal", "evfin") /\ NoAfter(queue, "poll", "signal")
    BY <1>1, <2>1 DEF ConnInv, Signals, Working, Finishes
  <2>3. NoAfter(queue', "signal", "evfin") /\ NoAfter(queue', "poll", "signal")
    BY <1>6, <2>1, <2>2
  <2> QED
    BY <1>1, <1>4, <1>6, <2>1, <2>2, <2>3 DEF Signals, Finishes
<1>15. Told'
  BY <1>3, <1>4 DEF ConnInv, Told, Finishes
<1> QED
  BY <1>7, <1>8, <1>9, <1>10, <1>11, <1>12, <1>13, <1>14, <1>15 DEF ConnInv

(* The connection is established, and the application may close it at once. *)
LEMMA EstablishedKeeps ==
  ASSUME ConnInv, cpu = "event", ~conn.disconnected, async = {}, cmds.resume = 0,
         NEW c \in Connections, NEW t \in [connect: BOOLEAN, rekey: BOOLEAN],
         NEW s \in Statuses, NEW n \in Nat, Established(c, t, s, n),
         c.op = conn.op, c.connect = conn.connect, c.key_exchange = conn.key_exchange,
         c.rekeying = conn.rekeying, c.callback = conn.callback, c.disconnected = FALSE,
         ~c.registering, ~c.auth_request,
         cmds' \in [resume: Nat, other: Nat], cmds'.resume = 0, cmds'.other = cmds.other + n,
         UNCHANGED <<params, async, stream>>, resume' \in Nat
  PROVE  ConnInv'
<1>1. PICK closes \in BOOLEAN :
        LET m == IF closes THEN CloseSignals ELSE 0
        IN /\ conn' = IF closes THEN [c EXCEPT !.cop = FALSE, !.disconnected = TRUE,
                                               !.status = "disconnected"]
                                ELSE [c EXCEPT !.cop = FALSE]
           /\ calls' = Append(calls, s)
           /\ timers' = [t EXCEPT !.connect = FALSE]
           /\ Signal(m)
           /\ FinishEvent(queue \o SignalTasks(m), n)
  BY DEF Established
<1> DEFINE m == IF closes THEN 1 ELSE 0
<1>2. /\ conn' = IF closes THEN [c EXCEPT !.cop = FALSE, !.disconnected = TRUE,
                                          !.status = "disconnected"]
                           ELSE [c EXCEPT !.cop = FALSE]
      /\ calls' = Append(calls, s) /\ timers' = [t EXCEPT !.connect = FALSE]
      /\ Signal(m) /\ FinishEvent(queue \o SignalTasks(m), n)
  BY <1>1 DEF CloseSignals
<1>3. m \in {0, 1}
  OBVIOUS
<1>4. /\ conn' \in Connections /\ conn'.op = conn.op /\ ~conn'.cop
      /\ conn'.connect = conn.connect /\ conn'.key_exchange = conn.key_exchange
      /\ conn'.rekeying = conn.rekeying /\ conn'.callback = conn.callback
      /\ conn'.disconnected = closes /\ ~conn'.registering /\ ~conn'.auth_request
      /\ conn'.disconnected => conn'.status = "disconnected"
  <2>1. CASE closes
    BY <1>2, <2>1 DEF Connections, Statuses
  <2>2. CASE ~closes
    BY <1>2, <2>2 DEF Connections, Statuses
  <2> QED
    BY <2>1, <2>2
<1>5. m = IF ~conn.disconnected /\ conn'.disconnected THEN 1 ELSE 0
  BY <1>4
<1>6. timers' \in [connect: BOOLEAN, rekey: BOOLEAN] /\ ~timers'.connect
      /\ calls' \in Seq(Statuses)
  <2>1. timers' \in [connect: BOOLEAN, rekey: BOOLEAN] /\ ~timers'.connect
    BY <1>2
  <2>2. calls' \in Seq(Statuses)
    BY <1>2 DEF ConnInv, Typed
  <2> QED
    BY <2>1, <2>2
<1> HIDE DEF m
<1>7. Finishes(m, n)
  BY <1>2, <1>4, <1>5, <1>6 DEF Finishes, Signal, Bad
<1> QED
  BY <1>3, <1>7, FinishKeeps

(* silc_client_st_connected *)
LEMMA StConnectedKeeps ==
  ASSUME ConnInv, StConnected
  PROVE  ConnInv'
<1> DEFINE c == [conn EXCEPT !.ske = FALSE]
           t == [timers EXCEPT !.rekey = @ \/ params.server]
<1>1. CASE /\ ~conn.disconnected /\ Established(c, t, "success", 0)
  <2>1. /\ cpu = "event" /\ et.state = "connected" /\ async = {} /\ cmds.resume = 0
        /\ ~conn.registering /\ ~conn.auth_request
    BY <1>1, RunsAlone DEF StConnected, Errors, Registering
  <2>2. /\ c \in Connections /\ c.op = conn.op /\ c.connect = conn.connect
        /\ c.key_exchange = conn.key_exchange /\ c.rekeying = conn.rekeying
        /\ c.callback = conn.callback /\ c.disconnected = FALSE
        /\ ~c.registering /\ ~c.auth_request
    BY <1>1, <2>1, Types DEF Connections
  <2>3. t \in [connect: BOOLEAN, rekey: BOOLEAN]
    BY Types DEF ParamSet
  <2> HIDE DEF c, t
  <2>4. /\ UNCHANGED <<params, async, stream>> /\ cmds' = cmds /\ resume' = resume
    BY DEF StConnected
  <2>5. /\ cmds' \in [resume: Nat, other: Nat] /\ cmds'.resume = 0 /\ resume' \in Nat
        /\ cmds'.other = cmds.other + 0
    BY <2>1, <2>4, Types
  <2>6. "success" \in Statuses /\ 0 \in Nat
    BY DEF Statuses
  <2> QED
    BY <1>1, <2>1, <2>2, <2>3, <2>4, <2>5, <2>6, EstablishedKeeps
<1>2. CASE ~(~conn.disconnected /\ Established(c, t, "success", 0))
  <2> HIDE DEF c, t
  <2>1. \/ /\ conn.disconnected /\ conn' = c /\ GoOn("connect_error")
           /\ UNCHANGED <<machine, threads, timers, calls>>
        \/ /\ ~conn.disconnected /\ conn' = c /\ timers' = t
           /\ GoOn(IF params.resume THEN "resume" ELSE "register")
           /\ UNCHANGED <<machine, threads, calls>>
    BY <1>2 DEF StConnected, c, t
  <2>2. Running("connected") /\ UNCHANGED <<params, async, cmds, stream, resume>>
    BY DEF StConnected
  <2> QED
    BY <2>1, <2>2, StConnectedOn DEF c, t
<1> QED
  BY <1>1, <1>2

(* silc_client_st_register_complete *)
LEMMA StRegisterCompleteKeeps ==
  ASSUME ConnInv, StRegisterComplete
  PROVE  ConnInv'
<1> DEFINE c == [conn EXCEPT !.registering = FALSE]
<1>1. Running("register_complete")
  BY DEF StRegisterComplete
<1>2. CASE IfDisconnected("register_error")
  BY <1>1, <1>2, IfDisconnectedKeeps DEF Errors, Registering, Running
<1>3. CASE /\ ~conn.disconnected
           /\ \/ /\ GiveUp
                 /\ conn' = [conn EXCEPT !.registering = FALSE, !.retry_count = 0]
                 /\ GoOn("register_error")
              \/ /\ ~GiveUp /\ conn' = [conn EXCEPT !.retry_count = @ + 1]
                 /\ GoOn("register")
           /\ UNCHANGED <<params, machine, threads, timers, async, cmds, stream, resume, calls>>
  BY <1>1, <1>3, StRegisterCompleteOn
<1>4. ASSUME ~conn.disconnected, NEW n \in {2, 3}, cmds' = [cmds EXCEPT !.other = @ + n],
             Established(c, timers, "success", n), UNCHANGED <<params, async, stream, resume>>
      PROVE  ConnInv'
  <2>1. /\ cpu = "event" /\ et.state = "register_complete" /\ async = {} /\ cmds.resume = 0
        /\ ~conn.auth_request
    BY <1>1, <1>4, RunsAlone DEF Errors
  <2>2. /\ c \in Connections /\ c.op = conn.op /\ c.connect = conn.connect
        /\ c.key_exchange = conn.key_exchange /\ c.rekeying = conn.rekeying
        /\ c.callback = conn.callback /\ c.disconnected = FALSE
        /\ ~c.registering /\ ~c.auth_request
    BY <1>4, <2>1, Types DEF Connections
  <2> HIDE DEF c
  <2>3. /\ cmds' \in [resume: Nat, other: Nat] /\ cmds'.resume = 0 /\ resume' \in Nat
        /\ cmds'.other = cmds.other + n /\ timers \in [connect: BOOLEAN, rekey: BOOLEAN]
    BY <1>4, <2>1, Types
  <2>4. "success" \in Statuses /\ n \in Nat
    BY DEF Statuses
  <2> QED
    BY <1>4, <2>1, <2>2, <2>3, <2>4, EstablishedKeeps
<1> QED
  BY <1>2, <1>3, <1>4 DEF StRegisterComplete

(* silc_client_st_resume_completed *)
LEMMA StResumeCompletedKeeps ==
  ASSUME ConnInv, StResumeCompleted
  PROVE  ConnInv'
<1> DEFINE c == [conn EXCEPT !.registering = FALSE]
<1>1. Running("resume_completed")
  BY DEF StResumeCompleted
<1>2. CASE IfDisconnected("resume_error")
  BY <1>1, <1>2, IfDisconnectedKeeps DEF Errors, Registering, Running
<1>3. CASE /\ ~conn.disconnected /\ resume > 1 /\ resume' = resume - 1
           /\ WaitIn("resume_completed")
           /\ UNCHANGED <<params, conn, machine, threads, timers, async, cmds, stream, calls>>
  BY <1>1, <1>3, StResumeCompletedOn
<1>4. CASE /\ ~conn.disconnected /\ resume <= 1 /\ resume' = 0
           /\ cmds' = [cmds EXCEPT !.other = @ + 2]
           /\ Established(c, timers, "resumed", 2) /\ UNCHANGED <<params, async, stream>>
  <2>1. cpu = "event" /\ et.state = "resume_completed" /\ et.started
    BY <1>1, EventRuns DEF Running
  <2>2. /\ resume \in Nat /\ cmds.resume \in Nat /\ Count(queue, "event") \in Nat
    BY Types
  <2>3. /\ ~conn.auth_request /\ async = {} /\ Count(queue, "event") + 1 + cmds.resume <= 1
    BY <1>4, <2>1, <2>2 DEF ConnInv, Working, WaitsFor, Runs, One
  <2>4. cmds.resume = 0
    BY <2>2, <2>3
  <2>5. /\ c \in Connections /\ c.op = conn.op /\ c.connect = conn.connect
        /\ c.key_exchange = conn.key_exchange /\ c.rekeying = conn.rekeying
        /\ c.callback = conn.callback /\ c.disconnected = FALSE
        /\ ~c.registering /\ ~c.auth_request
    BY <1>4, <2>3, Types DEF Connections
  <2> HIDE DEF c
  <2>6. /\ cmds' \in [resume: Nat, other: Nat] /\ cmds'.resume = 0 /\ resume' \in Nat
        /\ cmds'.other = cmds.other + 2 /\ timers \in [connect: BOOLEAN, rekey: BOOLEAN]
    BY <1>4, <2>4, Types
  <2>7. "resumed" \in Statuses /\ 2 \in Nat
    BY DEF Statuses
  <2> QED
    BY <1>4, <2>1, <2>3, <2>4, <2>5, <2>6, <2>7, EstablishedKeeps
<1> QED
  BY <1>2, <1>3, <1>4 DEF StResumeCompleted

(* The states that give up, with the connection up or not.                 *)
LEMMA ErrorKeeps ==
  ASSUME ConnInv, cpu = "event", et.state \in Errors,
         FinishEvent(queue \o CloseTasks, 0), Signal(CloseSignals),
         conn' \in Connections, conn'.op = conn.op, conn'.connect = conn.connect,
         conn'.key_exchange = conn.key_exchange, conn'.rekeying = conn.rekeying,
         conn'.callback = conn.callback, conn'.cop = conn.cop, conn'.disconnected,
         conn'.callback => Bad(conn'.status),
         timers' \in [connect: BOOLEAN, rekey: BOOLEAN],
         UNCHANGED <<params, async, cmds, stream, resume, calls>>
  PROVE  ConnInv'
<1> DEFINE m == CloseSignals
<1>1. m \in {0, 1} /\ m = IF ~conn.disconnected /\ conn'.disconnected THEN 1 ELSE 0
  BY DEF CloseSignals
<1> HIDE DEF m
<1>2. FinishEvent(queue \o SignalTasks(m), 0) /\ Signal(m)
  BY DEF CloseTasks, m
<1>3. cmds.resume = 0
  BY EventRuns DEF ConnInv, Working, Errors
<1>4. /\ cmds' \in [resume: Nat, other: Nat] /\ cmds'.resume = 0 /\ cmds'.other = cmds.other + 0
      /\ resume' \in Nat /\ calls' \in Seq(Statuses)
  BY <1>3, Types DEF Typed
<1>5. Finishes(m, 0)
  BY <1>1, <1>2, <1>3, <1>4 DEF Finishes, Signal
<1> QED
  BY <1>1, <1>5, FinishKeeps

(* silc_client_st_connect_error closes the connection.                     *)
LEMMA StConnectErrorKeeps ==
  ASSUME ConnInv, StConnectError
  PROVE  ConnInv'
<1>1. /\ conn' \in Connections /\ conn'.op = conn.op /\ conn'.connect = conn.connect
      /\ conn'.key_exchange = conn.key_exchange /\ conn'.rekeying = conn.rekeying
      /\ conn'.callback = conn.callback /\ conn'.cop = conn.cop /\ conn'.disconnected
      /\ conn'.status = conn.status /\ timers' \in [connect: BOOLEAN, rekey: BOOLEAN]
  BY Types DEF StConnectError, Connections
<1>2. cpu = "event" /\ et.state = "connect_error" /\ et.started
  BY EventRuns DEF StConnectError, Running
<1>3. conn'.callback => Bad(conn'.status)
  BY <1>1, <1>2 DEF ConnInv, Told
<1> QED
  BY <1>1, <1>2, <1>3, ErrorKeeps DEF StConnectError, Errors

(* silc_client_st_register_error closes the connection.                    *)
LEMMA StRegisterErrorKeeps ==
  ASSUME ConnInv, StRegisterError
  PROVE  ConnInv'
<1>1. /\ conn' \in Connections /\ conn'.op = conn.op /\ conn'.connect = conn.connect
      /\ conn'.key_exchange = conn.key_exchange /\ conn'.rekeying = conn.rekeying
      /\ conn'.callback = conn.callback /\ conn'.cop = conn.cop /\ conn'.disconnected
      /\ conn'.status = "error" /\ timers' \in [connect: BOOLEAN, rekey: BOOLEAN]
  BY Types DEF StRegisterError, Connections, Statuses
<1> QED
  BY <1>1, ErrorKeeps DEF StRegisterError, Errors, Bad, Running

(* silc_client_st_resume_error closes the connection, or finds it          *)
(* disconnected.                                                           *)
LEMMA StResumeErrorKeeps ==
  ASSUME ConnInv, StResumeError
  PROVE  ConnInv'
<1>1. cpu = "event" /\ et.state = "resume_error"
  BY DEF StResumeError, Running
<1>2. UNCHANGED <<params, async, cmds, stream, resume, calls>>
  BY DEF StResumeError
<1>3. CASE /\ conn.disconnected /\ FinishEvent(queue, 0) /\ UNCHANGED <<conn, machine, timers>>
  <2>1. FinishEvent(queue \o CloseTasks, 0) /\ Signal(CloseSignals)
    <3>1. queue \o CloseTasks = queue /\ CloseSignals = 0
      BY <1>3, Types DEF CloseTasks, CloseSignals, SignalTasks
    <3>2. Signal(0)
      BY <1>3 DEF ConnInv, Typed, Machines, Signal
    <3> QED
      BY <1>3, <3>1, <3>2
  <2>2. conn'.callback => Bad(conn'.status)
    BY <1>3 DEF ConnInv, Told
  <2>3. conn' \in Connections /\ timers' \in [connect: BOOLEAN, rekey: BOOLEAN]
    BY <1>3, Types
  <2> QED
    BY <1>1, <1>2, <1>3, <2>1, <2>2, <2>3, ErrorKeeps DEF Errors
<1>4. CASE /\ ~conn.disconnected
           /\ conn' = [conn EXCEPT !.status = "error", !.disconnected = TRUE]
           /\ Signal(CloseSignals) /\ timers' = [timers EXCEPT !.connect = FALSE]
           /\ FinishEvent(queue \o CloseTasks, 0)
  <2>1. /\ conn' \in Connections /\ conn'.op = conn.op /\ conn'.connect = conn.connect
        /\ conn'.key_exchange = conn.key_exchange /\ conn'.rekeying = conn.rekeying
        /\ conn'.callback = conn.callback /\ conn'.cop = conn.cop /\ conn'.disconnected
        /\ conn'.status = "error" /\ timers' \in [connect: BOOLEAN, rekey: BOOLEAN]
    BY <1>4, Types DEF Connections, Statuses
  <2> QED
    BY <1>1, <1>2, <1>4, <2>1, ErrorKeeps DEF Errors, Bad
<1> QED
  BY <1>3, <1>4 DEF StResumeError

(* silc_client_st_rekey *)
LEMMA StRekeyKeeps ==
  ASSUME ConnInv, StRekey
  PROVE  ConnInv'
<1>1. cpu = "event" /\ et.state = "rekey" /\ et.started /\ ~et.timer /\ ~et.finished
  BY EventRuns DEF StRekey, Running, ConnInv, Working
<1>2. UNCHANGED <<params, machine, timers, cmds, stream, resume, calls>>
  BY DEF StRekey
<1>3. /\ ~conn.disconnected => /\ async = {} /\ et.sync /\ Count(queue, "event") = 0
                               /\ ~conn.registering /\ ~conn.auth_request
      /\ ~timers.connect /\ cmds.resume = 0
  <2>1. ~timers.connect /\ cmds.resume = 0 /\ (~conn.disconnected => et.sync)
    BY <1>1 DEF ConnInv, Working
  <2>2. ~conn.disconnected => async = {} /\ Count(queue, "event") = 0
    BY <1>1, NothingElse DEF Errors
  <2>3. ~conn.disconnected => ~conn.registering /\ ~conn.auth_request
    BY <1>1 DEF ConnInv, Working, Registering, Errors
  <2> QED
    BY <2>1, <2>2, <2>3
<1>4. CASE FinishEvent(queue, 0) /\ UNCHANGED <<conn, async>>
  <2>1. FinishEvent(queue \o SignalTasks(0), 0)
    <3>1. queue \o SignalTasks(0) = queue
      BY Types, Signalled
    <3> QED
      BY <1>4, <3>1
  <2>2. machine' = [machine EXCEPT !.value = @ + 0]
    BY <1>2 DEF ConnInv, Typed, Machines
  <2>3. /\ cmds' \in [resume: Nat, other: Nat] /\ cmds'.resume = 0 /\ cmds'.other = cmds.other + 0
        /\ resume' \in Nat /\ calls' \in Seq(Statuses) /\ conn' \in Connections
        /\ timers' \in [connect: BOOLEAN, rekey: BOOLEAN]
    BY <1>2, <1>3, <1>4, Types DEF Typed
  <2>4. conn'.disconnected /\ conn'.callback => Bad(conn'.status)
    BY <1>4 DEF ConnInv, Told
  <2>5. Finishes(0, 0)
    BY <1>1, <1>2, <1>3, <1>4, <2>1, <2>2, <2>3, <2>4 DEF Finishes
  <2> QED
    BY <2>5, FinishKeeps
<1>5. ASSUME ~conn.disconnected, NEW op \in {"rekey_initiator", "rekey_responder"},
             conn' = [conn EXCEPT !.ske = TRUE, !.op = op], async' = async \cup {op},
             WaitIn("rekey"), UNCHANGED threads
      PROVE  ConnInv'
  <2>1. /\ conn' \in Connections /\ FlagsKept /\ conn'.op = op /\ conn'.status = conn.status
        /\ ~conn'.registering /\ ~conn'.auth_request
    BY <1>3, <1>5, Types DEF Connections, FlagsKept, Operations
  <2>2. /\ Thread(et', "rekey", et.started, et.finished, FALSE, et.later, et.timer)
        /\ Return(queue) /\ queue \in Seq(Tasks)
    BY <1>5, Types, WaitedIn DEF EventStates
  <2>3. /\ et' \in EventThreads /\ et'.state = "rekey" /\ et'.started /\ ~et'.finished
        /\ ~et'.timer
    BY <1>1, <2>2 DEF Thread
  <2>4. machine.state = "run" /\ ~conn.connect /\ ~conn.key_exchange /\ ~conn.rekeying
        /\ Count(queue, "evfin") = 0 /\ Count(queue, "conn") = 0
    BY <1>1, <1>5, EventRuns DEF ConnInv, Starting, Control
  <2>5. /\ after' = "idle" /\ queue' = queue
        /\ cpu' = IF after = "continue" THEN "conn" ELSE "idle"
    BY <2>2, <2>4, Returns DEF ConnInv, Control
  <2>6. async' = {op} /\ Runs' = 0
    BY <1>3, <1>5, <2>5 DEF Runs, One
  <2>7. Typed'
    BY <1>2, <1>5, <2>1, <2>3, <2>5, <2>6 DEF ConnInv, Typed, Operations
  <2>8. Working'
    <3>1. \A k \in async' : "rekey" \in WaitsFor(k)
      BY <2>6 DEF WaitsFor
    <3>2. Runs' + One(async' # {}) + One(et'.timer) + cmds'.resume <= 1
      BY <1>2, <1>3, <2>3, <2>6 DEF One
    <3> QED
      BY <1>2, <1>3, <1>5, <2>1, <2>3, <2>4, <2>5, <2>6, <3>1, <3>2
      DEF Working, FlagsKept, Passed, Later, Errors
  <2>9. Counted' /\ Resting' /\ Abortable' /\ Unstarted'
    BY <1>1, <1>2, <1>5, <2>1, <2>3, <2>4, <2>5, <2>6
    DEF ConnInv, Counted, Resting, Abortable, Unstarted, FlagsKept, One
  <2>10. Starting' /\ Control' /\ Closing' /\ Ended'
    BY <1>2, <2>1, <2>4, <2>5 DEF ConnInv, Starting, Control, Closing, Ended, FlagsKept
  <2>11. Signals'
    BY <1>1, <1>2, <2>1, <2>3, <2>4, <2>5 DEF ConnInv, Signals, FlagsKept, NoFlag
  <2>12. Told'
    BY <1>2, <2>1, <2>3 DEF ConnInv, Told, FlagsKept
  <2> QED
    BY <2>7, <2>8, <2>9, <2>10, <2>11, <2>12 DEF ConnInv
<1> QED
  BY <1>4, <1>5 DEF StRekey

-----------------------------------------------------------------------------
(* The event thread is woken.                                              *)

(* From the scheduler, by a task, a timer, a packet or a call back.        *)
Wakes ==
  /\ cpu = "idle" /\ et.started /\ et'.started
  /\ machine' = machine /\ FlagsKept
  /\ UNCHANGED <<params, threads, cmds, stream, resume, calls>>
  /\ Kept(queue', queue, {"event"})
  /\ cpu' \in {"idle", "event"} /\ after' = "idle"
  /\ conn'.status = conn.status \/ Bad(conn'.status)
  /\ et'.state = "connect_error" /\ et.state # "connect_error" => Bad(conn'.status)
  /\ ~conn.disconnected => et.state # "rekey"
  /\ et'.state = et.state \/ (et'.state = "connect_error" /\ et.state # "rekey" /\ cmds.resume = 0)

(* A wakeup of the event thread leaves the machine alone.                  *)
LEMMA WokenUnmoved ==
  ASSUME ConnInv, Wakes
  PROVE  Unmoved'
<1>1. /\ machine.state \in {"run", "close"} /\ after = "idle" /\ et.started
      /\ ~conn.connect /\ ~conn.key_exchange /\ ~conn.rekeying
  BY DEF ConnInv, Working, Wakes, Control
<1>2. /\ queue' \in Seq(Tasks)
      /\ \A t : t # "event" => Count(queue', t) = Count(queue, t)
      /\ \A x, t : t # "event" /\ NoAfter(queue, x, t) => NoAfter(queue', x, t)
  BY DEF Wakes, Kept
<1>3. Resting' /\ Unstarted' /\ Ended'
  BY <1>1 DEF Wakes, Resting, Unstarted, Ended, FlagsKept
<1>4. Counted'
  BY <1>1, <1>2 DEF ConnInv, Counted, Wakes, One
<1>5. Starting'
  BY <1>1, <1>2 DEF ConnInv, Starting, Wakes, FlagsKept
<1>6. Control'
  BY <1>1, <1>2 DEF ConnInv, Control, Wakes
<1>7. Closing'
  <2>1. /\ Count(queue', "conn") = Count(queue, "conn") /\ One(cpu = "conn") = 0
        /\ One(cpu' = "conn") = 0 /\ One(after = "yield") = 0 /\ One(after' = "yield") = 0
    BY <1>1, <1>2 DEF Wakes, One
  <2> QED
    BY <1>1, <1>2, <2>1 DEF ConnInv, Closing, Wakes
<1>8. Signals'
  BY <1>1, <1>2 DEF ConnInv, Signals, Wakes, FlagsKept, NoFlag
<1>9. Told'
  BY <1>1 DEF ConnInv, Told, Wakes, FlagsKept
<1> QED
  BY <1>3, <1>4, <1>5, <1>6, <1>7, <1>8, <1>9 DEF Unmoved

(* What wakes the event thread will not wake it again.                     *)
LEMMA WokenKeeps ==
  ASSUME ConnInv, Wakes, conn' \in Connections, et' \in EventThreads,
         timers' \in [connect: BOOLEAN, rekey: BOOLEAN], timers'.connect => timers.connect,
         async' \subseteq async, async' \subseteq {conn'.op, "answer"},
         et'.finished = et.finished, ~et'.timer,
         et'.state \in Later => cpu' = "event",
         et'.state \in {"register_error", "resume_error"} => cpu' = "event",
         conn.local_id => conn'.local_id,
         conn'.registering = conn.registering, conn'.auth_request = conn.auth_request,
         ~conn.disconnected /\ et'.state = et.state /\ et.state \notin Errors =>
           Runs' + One(async' # {}) <= Runs + One(async # {}) + One(et.timer),
         ~conn.disconnected /\ et'.state # et.state /\ cpu' # "event" =>
           ~conn.registering /\ ~conn.auth_request
  PROVE  ConnInv'
<1>1. Unmoved'
  BY WokenUnmoved
<1>2. /\ ~et.finished /\ et.state # "null" /\ Count(queue, "evfin") = 0
      /\ machine.state \in {"run", "close"}
      /\ ~conn.connect /\ ~conn.key_exchange /\ ~conn.rekeying
      /\ et.state \notin Passed /\ et.state \notin {"register_error", "resume_error"}
  BY DEF ConnInv, Working, Wakes
<1>3. /\ et.state \in {"resolve_cmodes", "resume_completed"} => conn.local_id
      /\ et.state # "rekey" => calls = <<>>
      /\ et.state = "rekey" => ~timers.connect
      /\ \A k \in async : et.state \in WaitsFor(k)
      /\ et.state \notin {"resolve_cmodes", "resume_completed"} => cmds.resume = 0
      /\ conn.disconnected => cmds.resume = 0
  BY DEF ConnInv, Working, Wakes
<1>4. et'.state \in {et.state, "connect_error"} /\ et'.started /\ Count(queue', "evfin") = 0
      /\ "connect_error" \notin Passed
  BY <1>2 DEF Wakes, Kept, Passed
<1>5. /\ cmds'.resume = cmds.resume /\ cmds.resume \in Nat /\ One(et'.timer) = 0
      /\ resume' = resume /\ Runs' \in Nat /\ Runs \in Nat
      /\ One(async' # {}) \in Nat /\ One(async # {}) \in Nat /\ One(et.timer) \in Nat
  <2>1. Count(queue', "event") \in Nat /\ Count(queue, "event") \in Nat
    BY Types, Counting DEF Wakes, Kept
  <2> QED
    BY <2>1, Types DEF Wakes, One, Runs
<1>6. ASSUME ~conn.disconnected
      PROVE  /\ et'.state \notin {"resume_completed"} \cup Errors =>
                  Runs' + One(async' # {}) + One(et'.timer) + cmds'.resume <= 1
             /\ et'.state = "resume_completed" =>
                  Runs' + cmds'.resume <= IF resume' > 1 THEN resume' ELSE 1
             /\ et'.state # "rekey"
             /\ conn'.registering =>
                  et'.state \in Registering \/ (cpu' = "event" /\ et'.state \in Errors)
             /\ conn'.auth_request =>
                  et'.state = "auth_data" \/ (cpu' = "event" /\ et'.state = "connect_error")
  <2>1. et.state # "rekey"
    BY <1>6 DEF Wakes
  <2>2. CASE et'.state = et.state
    <3>1. et.state \notin Errors =>
            Runs' + One(async' # {}) <= Runs + One(async # {}) + One(et.timer)
      BY <1>6, <2>2
    <3>2. et.state \notin {"resume_completed"} \cup Errors =>
            Runs + One(async # {}) + One(et.timer) + cmds.resume <= 1
      BY <1>6 DEF ConnInv, Working, Wakes
    <3>3. et.state = "resume_completed" =>
            /\ Runs + cmds.resume <= IF resume > 1 THEN resume ELSE 1
            /\ One(async # {}) = 0 /\ One(et.timer) = 0
      BY <1>3, <1>6 DEF ConnInv, Working, Wakes, WaitsFor, Later, One
    <3>4. /\ conn.registering => et.state \in Registering
          /\ conn.auth_request => et.state = "auth_data"
      BY <1>6 DEF ConnInv, Working, Wakes
    <3>5. et'.state \notin {"resume_completed"} \cup Errors =>
            Runs' + One(async' # {}) + One(et'.timer) + cmds'.resume <= 1
      BY <1>5, <2>2, <3>1, <3>2
    <3>6. et'.state = "resume_completed" =>
            Runs' + cmds'.resume <= IF resume' > 1 THEN resume' ELSE 1
      <4>1. resume \in Nat
        BY Types
      <4> QED
        BY <1>5, <2>2, <3>1, <3>3, <4>1 DEF Errors
    <3> QED
      BY <2>1, <2>2, <3>4, <3>5, <3>6
  <2>3. CASE et'.state # et.state
    BY <1>4, <1>6, <2>3 DEF Errors
  <2> QED
    BY <2>2, <2>3
<1>7. \A k \in async' : et'.state \in WaitsFor(k)
  <2>1. ASSUME et'.state # et.state, NEW k \in async PROVE "connect_error" \in WaitsFor(k)
    BY <1>3, <2>1 DEF Wakes, WaitsFor
  <2> QED
    BY <1>3, <1>4, <2>1
<1>8. Working'
  BY <1>2, <1>3, <1>4, <1>5, <1>6, <1>7 DEF Working, Wakes, FlagsKept
<1>9. Typed' /\ Abortable'
  BY DEF ConnInv, Typed, Abortable, Wakes, Kept
<1> QED
  BY <1>1, <1>8, <1>9 DEF ConnInv, Unmoved

(* The event thread as a wakeup leaves it, in state s.                     *)
Woken(s) ==
  /\ et' \in EventThreads /\ et'.state = s /\ et'.started
  /\ et'.finished = et.finished /\ ~et'.timer
  /\ after' = "idle"

(* The wakeups of a thread that is at work: silc_fsm_continue_sync and     *)
(* silc_fsm_continue cancel the timeout it may have waited with.           *)
LEMMA CancelledThread ==
  ASSUME ConnInv, et.started, NEW s, s \in {et.state, "connect_error"},
         et' = IF s = et.state THEN Cancelled ELSE [Cancelled EXCEPT !.state = "connect_error"]
  PROVE  /\ et' \in EventThreads /\ et'.state = s /\ et'.started
         /\ et'.finished = et.finished /\ ~et'.timer
<1>1. Thread(Cancelled, et.state, et.started, et.finished, et.sync, FALSE, et.timer /\ ~et.later)
  BY Types, Cancels
<1>2. et.timer => et.later
  BY DEF ConnInv, Working
<1>3. /\ Cancelled \in EventThreads /\ Cancelled.state = et.state /\ Cancelled.started
      /\ Cancelled.finished = et.finished /\ ~Cancelled.timer
  BY <1>1, <1>2 DEF Thread
<1> DEFINE c == Cancelled
<1> HIDE DEF c
<1>4. /\ c \in EventThreads /\ c.state = et.state /\ c.started /\ c.finished = et.finished
      /\ ~c.timer
  BY <1>3 DEF c
<1>5. CASE s = et.state
  <2>1. et' = c
    BY <1>5 DEF c
  <2> QED
    BY <1>4, <1>5, <2>1
<1>6. CASE s # et.state
  <2>1. et' = [c EXCEPT !.state = "connect_error"] /\ s = "connect_error"
    BY <1>6 DEF c
  <2> QED
    BY <1>4, <2>1 DEF EventThreads, EventStates
<1> QED
  BY <1>5, <1>6

(* silc_fsm_continue_sync: the thread runs at once.                        *)
LEMMA WokenSync ==
  ASSUME ConnInv, cpu = "idle", et.started, NEW s, s \in {et.state, "connect_error"},
         ContinueSync(IF s = et.state THEN Cancelled
                      ELSE [Cancelled EXCEPT !.state = "connect_error"], "idle")
  PROVE  /\ Woken(s) /\ cpu' = "event" /\ Kept(queue', queue, {"event"})
         /\ Runs' <= Runs + 1 /\ Runs' \in Nat /\ Runs \in Nat
<1>1. queue \in Seq(Tasks) /\ Count(queue, "event") \in Nat /\ Typed
  BY Types
<1>2. /\ et' = IF s = et.state THEN Cancelled ELSE [Cancelled EXCEPT !.state = "connect_error"]
      /\ queue' = CancelRuns(queue) /\ cpu' = "event" /\ after' = "idle"
  BY DEF ContinueSync
<1>3. Kept(queue', queue, {"event"}) /\ Count(queue', "event") \in 0..Count(queue, "event")
  BY <1>1, <1>2, Cancels
<1>4. Woken(s)
  BY <1>2, CancelledThread DEF Woken
<1>5. Runs' <= Runs + 1 /\ Runs' \in Nat /\ Runs \in Nat
  BY <1>1, <1>2, <1>3 DEF Runs, One
<1> QED
  BY <1>2, <1>3, <1>4, <1>5

(* silc_fsm_continue: the run of the thread is queued.                     *)
LEMMA WokenQueued ==
  ASSUME ConnInv, cpu = "idle", et.started, NEW s, s \in {et.state, "connect_error"},
         Continue(IF s = et.state THEN Cancelled
                  ELSE [Cancelled EXCEPT !.state = "connect_error"], queue),
         UNCHANGED <<cpu, after>>
  PROVE  /\ Woken(s) /\ cpu' = "idle" /\ Kept(queue', queue, {"event"})
         /\ Runs' <= Runs + 1 /\ Runs' \in Nat /\ Runs \in Nat
<1>1. queue \in Seq(Tasks) /\ Count(queue, "event") \in Nat /\ Typed /\ after = "idle"
  BY Types DEF ConnInv, Control
<1>2. /\ et' = IF s = et.state THEN Cancelled ELSE [Cancelled EXCEPT !.state = "connect_error"]
      /\ queue' = Append(CancelRuns(queue), "event")
  BY DEF Continue
<1> DEFINE p == CancelRuns(queue)
<1>3. Kept(p, queue, {"event"}) /\ Count(p, "event") \in 0..Count(queue, "event")
  BY <1>1, <1>2, Cancels
<1> HIDE DEF p
<1>4. Kept(queue', queue, {"event"}) /\ Count(queue', "event") = Count(p, "event") + 1
  BY <1>1, <1>2, <1>3, RunQueued DEF p
<1>5. Woken(s)
  BY <1>1, <1>2, CancelledThread DEF Woken
<1>6. Runs' <= Runs + 1 /\ Runs' \in Nat /\ Runs \in Nat
  BY <1>1, <1>3, <1>4 DEF Runs, One
<1> QED
  BY <1>4, <1>5, <1>6

(* silc_client_connect_callback, silc_client_ke_completion and             *)
(* silc_client_connect_auth_completion                                     *)
LEMMA OperationCalls ==
  ASSUME ConnInv, et.started, NEW k \in {"tcp", "ske", "auth"}, Completes(k), async' = async \ {k},
         NEW s, s \in {et.state, "connect_error"}, Woken(s),
         cpu' \in {"idle", "event"}, Kept(queue', queue, {"event"}),
         Runs' <= Runs + 1, Runs' \in Nat, Runs \in Nat,
         UNCHANGED <<params, machine, threads, timers, cmds, stream, resume, calls>>,
         conn' \in Connections, FlagsKept, conn'.op = "none",
         conn'.status = conn.status \/ Bad(conn'.status), s # et.state => Bad(conn'.status),
         conn'.local_id = conn.local_id,
         conn'.registering = conn.registering, conn'.auth_request = conn.auth_request
  PROVE  ConnInv'
<1>1. cpu = "idle" /\ et.started /\ k \in async
  BY DEF Completes, AtSelect, Dispatch, Idle
<1>2. et.state \in WaitsFor(k)
  BY <1>1 DEF ConnInv, Working
<1>3. et.state \in {"set_stream", "connected", "setup_udp", "auth_resolve", "connect_error"}
  BY <1>2 DEF WaitsFor
<1>4. async \subseteq {k, "answer"}
  BY <1>1 DEF ConnInv, Abortable
<1>5. et.state # "connect_error" => async' = {}
  <2>1. "answer" \in async => et.state \in {"auth_start", "connect_error"}
    BY <1>1 DEF ConnInv, Working, WaitsFor
  <2> QED
    BY <1>3, <1>4, <2>1
<1>6. cmds.resume = 0 /\ (~conn.disconnected => ~conn.registering /\ ~conn.auth_request)
  BY <1>1, <1>3 DEF ConnInv, Working, Registering
<1>7. Wakes
  BY <1>1, <1>3, <1>6 DEF Wakes, Woken
<1>8. ~conn.disconnected /\ et'.state = et.state /\ et.state \notin Errors =>
        Runs' + One(async' # {}) <= Runs + One(async # {}) + One(et.timer)
  <2>1. et.state \notin Errors => One(async' # {}) = 0 /\ One(async # {}) = 1
    BY <1>1, <1>5 DEF Errors, One
  <2>2. One(et.timer) \in Nat
    BY DEF One
  <2> QED
    BY <2>1, <2>2
<1>9. /\ timers' \in [connect: BOOLEAN, rekey: BOOLEAN] /\ (timers'.connect => timers.connect)
      /\ async' \subseteq async /\ async' \subseteq {conn'.op, "answer"}
  BY <1>4, Types
<1>10. et' \in EventThreads /\ et'.finished = et.finished /\ ~et'.timer /\ et'.state = s
  BY DEF Woken
<1>11. et'.state \notin Later \cup {"register_error", "resume_error"}
  BY <1>3, <1>10 DEF Later
<1> QED
  BY <1>6, <1>7, <1>8, <1>9, <1>10, <1>11, WokenKeeps

(* The flags after a call back: the operation is over, and it has failed   *)
(* or not.                                                                 *)
LEMMA OperationOver ==
  ASSUME ConnInv, NEW f \in Statuses, Bad(f),
         \/ conn' = [conn EXCEPT !.op = "none"]
         \/ conn' = [conn EXCEPT !.op = "none", !.status = f]
  PROVE  /\ conn' \in Connections /\ FlagsKept /\ conn'.op = "none"
         /\ conn'.status = conn.status \/ Bad(conn'.status)
         /\ conn' = [conn EXCEPT !.op = "none", !.status = f] => Bad(conn'.status)
         /\ conn'.local_id = conn.local_id
         /\ conn'.registering = conn.registering /\ conn'.auth_request = conn.auth_request
<1>1. conn \in Connections
  BY Types
<1>2. CASE conn' = [conn EXCEPT !.op = "none"]
  <2>1. /\ conn' \in Connections /\ FlagsKept /\ conn'.op = "none"
        /\ conn'.status = conn.status
        /\ conn'.local_id = conn.local_id
        /\ conn'.registering = conn.registering /\ conn'.auth_request = conn.auth_request
    BY <1>1, <1>2 DEF Connections, FlagsKept
  <2>2. conn' = [conn EXCEPT !.op = "none", !.status = f] => conn'.status = f
    BY <1>1 DEF Connections
  <2> QED
    BY <2>1, <2>2
<1>3. CASE conn' = [conn EXCEPT !.op = "none", !.status = f]
  <2>1. /\ conn' \in Connections /\ FlagsKept /\ conn'.op = "none"
        /\ conn'.status = f
        /\ conn'.local_id = conn.local_id
        /\ conn'.registering = conn.registering /\ conn'.auth_request = conn.auth_request
    BY <1>1, <1>3 DEF Connections, FlagsKept
  <2> QED
    BY <2>1
<1> QED
  BY <1>2, <1>3

(* silc_client_connect_callback continues the thread that waits for it.    *)
LEMMA TcpCompletesKeeps ==
  ASSUME ConnInv, et.started, TcpCompletes
  PROVE  ConnInv'
<1>1. /\ cpu = "idle" /\ et.started /\ Completes("tcp") /\ async' = async \ {"tcp"}
      /\ UNCHANGED <<params, machine, threads, timers, cmds, stream, resume, cpu, after, calls>>
  BY DEF TcpCompletes, Completes, AtSelect, Dispatch, Idle
<1>2. PICK s : /\ s \in {et.state, "connect_error"}
               /\ Continue(IF s = et.state THEN Cancelled
                           ELSE [Cancelled EXCEPT !.state = "connect_error"], queue)
               /\ \/ conn' = [conn EXCEPT !.op = "none"]
                  \/ conn' = [conn EXCEPT !.op = "none", !.status = "error"]
               /\ s # et.state => conn' = [conn EXCEPT !.op = "none", !.status = "error"]
  <2>1. CASE conn' = [conn EXCEPT !.op = "none"] /\ Continue(Cancelled, queue)
    BY <2>1
  <2>2. CASE /\ conn' = [conn EXCEPT !.op = "none", !.status = "error"]
             /\ Continue([Cancelled EXCEPT !.state = "connect_error"], queue)
    <3>1. et.state = "connect_error" => [Cancelled EXCEPT !.state = "connect_error"] = Cancelled
      BY Types DEF Cancelled, EventThreads
    <3> QED
      BY <2>2, <3>1
  <2> QED
    BY <2>1, <2>2 DEF TcpCompletes
<1>3. /\ Woken(s) /\ cpu' = "idle" /\ Kept(queue', queue, {"event"})
      /\ Runs' <= Runs + 1 /\ Runs' \in Nat /\ Runs \in Nat
  BY <1>1, <1>2, WokenQueued
<1>4. /\ conn' \in Connections /\ FlagsKept /\ conn'.op = "none"
      /\ conn'.status = conn.status \/ Bad(conn'.status)
      /\ s # et.state => Bad(conn'.status)
      /\ conn'.local_id = conn.local_id
      /\ conn'.registering = conn.registering /\ conn'.auth_request = conn.auth_request
  BY <1>2, OperationOver DEF Bad, Statuses
<1> QED
  BY <1>1, <1>2, <1>3, <1>4, OperationCalls

(* A key exchange or an authentication that is over continues the thread   *)
(* inside its callback.                                                    *)
LEMMA SyncCompletes ==
  ASSUME ConnInv, et.started, NEW k \in {"ske", "auth"}, NEW f \in {"ke", "auth"}, Completes(k),
         async' = async \ {k},
         \/ /\ conn' = [conn EXCEPT !.op = "none"]
            /\ ContinueSync(Cancelled, "idle")
         \/ /\ conn' = [conn EXCEPT !.op = "none", !.status = f]
            /\ ContinueSync([Cancelled EXCEPT !.state = "connect_error"], "idle"),
         UNCHANGED <<params, machine, threads, timers, cmds, stream, resume, calls>>
  PROVE  ConnInv'
<1>1. cpu = "idle" /\ et.started
  BY DEF Completes, AtSelect, Dispatch, Idle
<1>2. PICK s : /\ s \in {et.state, "connect_error"}
               /\ ContinueSync(IF s = et.state THEN Cancelled
                               ELSE [Cancelled EXCEPT !.state = "connect_error"], "idle")
               /\ \/ conn' = [conn EXCEPT !.op = "none"]
                  \/ conn' = [conn EXCEPT !.op = "none", !.status = f]
               /\ s # et.state => conn' = [conn EXCEPT !.op = "none", !.status = f]
  <2>1. CASE conn' = [conn EXCEPT !.op = "none"] /\ ContinueSync(Cancelled, "idle")
    BY <2>1
  <2>2. CASE /\ conn' = [conn EXCEPT !.op = "none", !.status = f]
             /\ ContinueSync([Cancelled EXCEPT !.state = "connect_error"], "idle")
    <3>1. et.state = "connect_error" => [Cancelled EXCEPT !.state = "connect_error"] = Cancelled
      BY Types DEF Cancelled, EventThreads
    <3> QED
      BY <2>2, <3>1
  <2> QED
    BY <2>1, <2>2
<1>3. /\ Woken(s) /\ cpu' = "event" /\ Kept(queue', queue, {"event"})
      /\ Runs' <= Runs + 1 /\ Runs' \in Nat /\ Runs \in Nat
  BY <1>1, <1>2, WokenSync
<1>4. /\ conn' \in Connections /\ FlagsKept /\ conn'.op = "none"
      /\ conn'.status = conn.status \/ Bad(conn'.status)
      /\ s # et.state => Bad(conn'.status)
      /\ conn'.local_id = conn.local_id
      /\ conn'.registering = conn.registering /\ conn'.auth_request = conn.auth_request
  BY <1>2, OperationOver DEF Bad, Statuses
<1> QED
  BY <1>1, <1>2, <1>3, <1>4, OperationCalls

(* silc_client_ke_completion.                                              *)
LEMMA SkeCompletesKeeps ==
  ASSUME ConnInv, et.started, SkeCompletes
  PROVE  ConnInv'
BY SyncCompletes DEF SkeCompletes

(* silc_client_connect_auth_completion.                                    *)
LEMMA AuthCompletesKeeps ==
  ASSUME ConnInv, et.started, AuthCompletes
  PROVE  ConnInv'
BY SyncCompletes DEF AuthCompletes

(* silc_client_connect_timeout *)
LEMMA ConnectTimeoutKeeps ==
  ASSUME ConnInv, et.started, cmds.resume = 0, ConnectTimeout
  PROVE  ConnInv'
<1>1. /\ cpu = "idle" /\ et.started /\ timers.connect /\ cmds.resume = 0
      /\ UNCHANGED <<params, machine, threads, async, cmds, stream, resume, calls>>
      /\ timers' = [timers EXCEPT !.connect = FALSE]
  BY DEF ConnectTimeout, Idle
<1>2. et.state # "rekey"
  BY <1>1 DEF ConnInv, Working
<1>3. ContinueSync(IF "connect_error" = et.state THEN Cancelled
                   ELSE [Cancelled EXCEPT !.state = "connect_error"], "idle")
  <2>1. et.state = "connect_error" => [Cancelled EXCEPT !.state = "connect_error"] = Cancelled
    BY Types DEF Cancelled, EventThreads
  <2> QED
    BY <2>1 DEF ConnectTimeout
<1>4. /\ Woken("connect_error") /\ cpu' = "event" /\ Kept(queue', queue, {"event"})
  BY <1>1, <1>3, WokenSync
<1>5. /\ conn' \in Connections /\ FlagsKept /\ conn'.op = conn.op /\ conn'.status = "timedout"
      /\ conn'.local_id = conn.local_id
      /\ conn'.registering = conn.registering /\ conn'.auth_request = conn.auth_request
  BY Types DEF ConnectTimeout, Failed, Connections, FlagsKept, Statuses
<1>6. Wakes
  BY <1>1, <1>2, <1>4, <1>5 DEF Wakes, Woken, Bad
<1>7. /\ timers' \in [connect: BOOLEAN, rekey: BOOLEAN] /\ ~timers'.connect
  BY <1>1, Types
<1>8. async' \subseteq async /\ async' \subseteq {conn'.op, "answer"}
  BY <1>1, <1>5 DEF ConnInv, Abortable
<1>9. /\ et' \in EventThreads /\ et'.finished = et.finished /\ ~et'.timer
      /\ et'.state = "connect_error" /\ "connect_error" \in Errors
  BY <1>4 DEF Woken, Errors
<1> QED
  BY <1>4, <1>5, <1>6, <1>7, <1>8, <1>9, WokenKeeps

(* silc_client_connect_auth_method *)
LEMMA AuthAnsweredKeeps ==
  ASSUME ConnInv, et.started, AuthAnswered
  PROVE  ConnInv'
<1>1. /\ cpu = "idle" /\ et.started /\ "answer" \in async /\ async' = async \ {"answer"}
      /\ UNCHANGED <<params, conn, machine, threads, timers, cmds, stream, resume, cpu, after,
                     calls>>
      /\ Continue(Cancelled, queue)
  BY DEF AuthAnswered, Idle
<1>2. et.state \in {"auth_start", "connect_error"}
  BY <1>1 DEF ConnInv, Working, WaitsFor
<1>3. et.state # "connect_error" => async' = {}
  <2>1. ASSUME et.state = "auth_start", NEW k \in async PROVE k = "answer"
    BY <1>1, <2>1 DEF ConnInv, Working, WaitsFor
  <2> QED
    BY <1>1, <1>2, <2>1
<1>4. /\ Woken(et.state) /\ cpu' = "idle" /\ Kept(queue', queue, {"event"})
      /\ Runs' <= Runs + 1 /\ Runs' \in Nat /\ Runs \in Nat
  <2>1. Continue(IF et.state = et.state THEN Cancelled
                 ELSE [Cancelled EXCEPT !.state = "connect_error"], queue)
    BY <1>1
  <2> QED
    BY <1>1, <2>1, WokenQueued
<1>5. Wakes
  BY <1>1, <1>2, <1>4 DEF Wakes, Woken, FlagsKept
<1>6. et.state \notin Errors => Runs' + One(async' # {}) <= Runs + One(async # {}) + One(et.timer)
  <2>1. et.state \notin Errors => One(async' # {}) = 0 /\ One(async # {}) = 1
    BY <1>1, <1>3 DEF Errors, One
  <2>2. One(et.timer) \in Nat
    BY DEF One
  <2> QED
    BY <1>4, <2>1, <2>2
<1>7. /\ timers' \in [connect: BOOLEAN, rekey: BOOLEAN] /\ conn' \in Connections
      /\ async' \subseteq async /\ async' \subseteq {conn'.op, "answer"}
  BY <1>1, Types DEF ConnInv, Abortable
<1>8. /\ et' \in EventThreads /\ et'.finished = et.finished /\ ~et'.timer
      /\ et'.state = et.state /\ et'.state \notin Later \cup {"register_error", "resume_error"}
  BY <1>2, <1>4 DEF Woken, Later
<1> QED
  BY <1>1, <1>4, <1>5, <1>6, <1>7, <1>8, WokenKeeps

(* A packet continues the event thread where it waits for one with a       *)
(* timeout, while the connection is up.                                    *)
LEMMA PacketWakes ==
  ASSUME ConnInv, cpu = "idle", et.started, ContinueSync(Cancelled, "idle"),
         ~conn.disconnected => et.state \in Later,
         UNCHANGED <<params, machine, threads, timers, async, cmds, stream, resume, calls>>,
         conn' \in Connections, FlagsKept, conn'.op = conn.op, conn'.status = conn.status,
         conn.local_id => conn'.local_id,
         conn'.registering = conn.registering, conn'.auth_request = conn.auth_request
  PROVE  ConnInv'
<1>1. /\ Woken(et.state) /\ cpu' = "event" /\ Kept(queue', queue, {"event"})
      /\ Runs' <= Runs + 1 /\ Runs' \in Nat /\ Runs \in Nat
  <2>1. ContinueSync(IF et.state = et.state THEN Cancelled
                     ELSE [Cancelled EXCEPT !.state = "connect_error"], "idle")
    OBVIOUS
  <2> QED
    BY <2>1, WokenSync
<1>2. Wakes
  BY <1>1 DEF Wakes, Woken, Later
<1>3. ~conn.disconnected => One(et.timer) = 1
  BY DEF ConnInv, Working, One
<1>4. ~conn.disconnected => Runs' + One(async' # {}) <= Runs + One(async # {}) + One(et.timer)
  <2>1. One(async' # {}) = One(async # {}) /\ One(async # {}) \in Nat
    BY DEF One
  <2> QED
    BY <1>1, <1>3, <2>1
<1>5. /\ timers' \in [connect: BOOLEAN, rekey: BOOLEAN] /\ (timers'.connect => timers.connect)
      /\ async' \subseteq async /\ async' \subseteq {conn'.op, "answer"}
  BY Types DEF ConnInv, Abortable
<1>6. et' \in EventThreads /\ et'.finished = et.finished /\ ~et'.timer /\ et'.state = et.state
  BY <1>1 DEF Woken
<1> QED
  BY <1>1, <1>2, <1>4, <1>5, <1>6, WokenKeeps

(* silc_client_connect_auth_request *)
LEMMA AuthRequestKeeps ==
  ASSUME ConnInv, et.started, AuthRequest
  PROVE  ConnInv'
<1>1. /\ cpu = "idle" /\ et.started /\ conn.auth_request /\ ContinueSync(Cancelled, "idle")
      /\ UNCHANGED <<params, conn, machine, threads, timers, async, cmds, stream, resume, calls>>
  BY DEF AuthRequest, Receives, AtSelect, Dispatch, Idle
<1>2. ~conn.disconnected => et.state \in Later
  BY <1>1 DEF ConnInv, Working, Later
<1>3. conn' \in Connections /\ FlagsKept
  BY <1>1, Types DEF FlagsKept
<1> QED
  BY <1>1, <1>2, <1>3, PacketWakes

(* A change of the connection that only the states of the event thread     *)
(* look at.                                                                *)
LEMMA ConnKept ==
  ASSUME ConnInv,
         UNCHANGED <<params, machine, et, threads, queue, timers, async, cmds, stream, resume, cpu,
                     after, calls>>,
         conn' \in Connections, FlagsKept, conn'.op = conn.op, conn'.status = conn.status,
         conn.local_id => conn'.local_id,
         conn'.registering = conn.registering, conn'.auth_request = conn.auth_request
  PROVE  ConnInv'
<1>1. Typed' /\ Counted' /\ Abortable'
  BY DEF ConnInv, Typed, Counted, Abortable
<1>2. Resting' /\ Unstarted' /\ Starting' /\ Told'
  BY DEF ConnInv, Resting, Unstarted, Starting, Told, FlagsKept
<1>3. Working'
  BY DEF ConnInv, Working, Runs, FlagsKept
<1>4. Control' /\ Closing' /\ Ended'
  BY DEF ConnInv, Control, Closing, Ended
<1>5. Signals'
  BY DEF ConnInv, Signals, NoFlag, FlagsKept
<1> QED
  BY <1>1, <1>2, <1>3, <1>4, <1>5 DEF ConnInv

(* silc_client_new_id *)
LEMMA NewIdKeeps ==
  ASSUME ConnInv, NewId, et.started \/ cpu' # "event"
  PROVE  ConnInv'
<1>1. /\ cpu = "idle" /\ ~conn.local_id
      /\ UNCHANGED <<params, machine, threads, timers, async, cmds, stream, resume, calls>>
  BY DEF NewId, Receives, AtSelect, Dispatch, Idle
<1>2. /\ conn' \in Connections /\ FlagsKept /\ conn'.op = conn.op /\ conn'.status = conn.status
      /\ conn'.local_id
      /\ conn'.registering = conn.registering /\ conn'.auth_request = conn.auth_request
  BY Types DEF NewId, Connections, FlagsKept
<1>3. CASE UNCHANGED <<et, queue, cpu, after>>
  BY <1>1, <1>2, <1>3, ConnKept
<1>4. CASE conn.registering /\ ContinueSync(Cancelled, "idle")
  <2>1. et.started
    BY <1>4 DEF ContinueSync
  <2>2. ~conn.disconnected => et.state \in Later
    BY <1>1, <1>4, <2>1 DEF ConnInv, Working, Later, Registering, Passed
  <2> QED
    BY <1>1, <1>2, <1>4, <2>1, <2>2, PacketWakes
<1> QED
  BY <1>3, <1>4 DEF NewId

(* The queue of a connection is never empty.                               *)
LEMMA Dispatched ==
  ASSUME ConnInv, NEW t, Dispatch(t)
  PROVE  /\ cpu = "idle" /\ after = "idle" /\ queue # <<>>
         /\ Shrunk(Tail(queue), queue, t) /\ t \in Tasks /\ Count(queue, t) > 0
<1>1. cpu = "idle" /\ Head(queue) = t /\ after = "idle"
  BY DEF Dispatch, Idle, ConnInv, Control
<1>2. queue # <<>>
  BY NoTask DEF ConnInv, Starting
<1>3. Shrunk(Tail(queue), queue, t) /\ t \in Tasks
  BY <1>1, <1>2, Types, Popped
<1>4. Count(queue, t) > 0
  <2>1. Count(queue, t) = Count(Tail(queue), t) + 1
    BY <1>3 DEF Shrunk, One
  <2>2. Count(Tail(queue), t) \in Nat
    BY <1>3, Counting DEF Shrunk
  <2> QED
    BY <2>1, <2>2
<1> QED
  BY <1>1, <1>2, <1>3, <1>4

(* A queued run of the event thread is dispatched.                         *)
LEMMA RunEventKeeps ==
  ASSUME ConnInv, RunEvent
  PROVE  ConnInv'
<1>1. /\ cpu = "idle" /\ after = "idle" /\ Shrunk(Tail(queue), queue, "event")
      /\ Count(queue, "event") > 0
  BY Dispatched DEF RunEvent
<1>2. /\ queue' = Tail(queue) /\ cpu' = "event"
      /\ UNCHANGED <<params, conn, machine, et, threads, timers, async, cmds, stream, resume, after,
                     calls>>
  BY DEF RunEvent
<1>3. /\ Count(queue, "event") = Count(queue', "event") + 1 /\ Count(queue', "event") \in Nat
      /\ Kept(queue', queue, {"event"})
  <2>1. queue' \in Seq(Tasks) /\ \A t : Count(queue', t) \in Nat
    BY <1>1, <1>2, Counting DEF Shrunk
  <2> QED
    BY <1>1, <1>2, <2>1 DEF Shrunk, Kept, One
<1>4. et.started /\ ~et.timer /\ (~conn.disconnected => et.state # "rekey")
  BY <1>1 DEF ConnInv, Resting, Working
<1>5. Wakes
  BY <1>1, <1>2, <1>3, <1>4 DEF Wakes, FlagsKept
<1>6. Runs' + One(async' # {}) <= Runs + One(async # {}) + One(et.timer)
  BY <1>1, <1>2, <1>3 DEF Runs, One
<1>7. /\ timers' \in [connect: BOOLEAN, rekey: BOOLEAN] /\ (timers'.connect => timers.connect)
      /\ async' \subseteq async /\ async' \subseteq {conn'.op, "answer"}
      /\ et' \in EventThreads /\ conn' \in Connections
  BY <1>2, Types DEF ConnInv, Abortable
<1> QED
  BY <1>2, <1>4, <1>5, <1>6, <1>7, WokenKeeps

(* The timeout of next_later runs the event thread.                        *)
LEMMA LaterExpiresKeeps ==
  ASSUME ConnInv, LaterExpires
  PROVE  ConnInv'
<1>1. /\ cpu = "idle" /\ et.timer /\ et' = [et EXCEPT !.timer = FALSE] /\ cpu' = "event"
      /\ UNCHANGED <<params, conn, machine, threads, queue, timers, async, cmds, stream, resume,
                     after, calls>>
  BY DEF LaterExpires, Idle
<1>2. et.started /\ et.state \in Later /\ after = "idle"
  BY <1>1 DEF ConnInv, Resting, Working, Control
<1>3. /\ et' \in EventThreads /\ et'.state = et.state /\ et'.started
      /\ et'.finished = et.finished /\ ~et'.timer
  BY <1>1, <1>2, Types DEF EventThreads
<1>4. Kept(queue', queue, {"event"}) /\ Count(queue, "event") \in Nat
  BY <1>1, Types DEF Kept
<1>5. Wakes
  BY <1>1, <1>2, <1>3, <1>4 DEF Wakes, FlagsKept, Later
<1>6. Runs' + One(async' # {}) <= Runs + One(async # {}) + One(et.timer)
  BY <1>1, <1>4 DEF Runs, One
<1>7. /\ timers' \in [connect: BOOLEAN, rekey: BOOLEAN] /\ (timers'.connect => timers.connect)
      /\ async' \subseteq async /\ async' \subseteq {conn'.op, "answer"} /\ conn' \in Connections
  BY <1>1, Types DEF ConnInv, Abortable
<1> QED
  BY <1>1, <1>3, <1>5, <1>6, <1>7, WokenKeeps

(* silc_client_resume_continue, as the callback of a command of the resume *)
LEMMA ResumeReplyKeeps ==
  ASSUME ConnInv, ResumeReply
  PROVE  ConnInv'
<1>1. /\ cpu = "idle" /\ cmds.resume > 0 /\ cmds' = [cmds EXCEPT !.resume = @ - 1]
      /\ et' = Cancelled /\ queue' = CancelRuns(queue) \o <<"event", "cmdfin">>
      /\ UNCHANGED <<params, conn, machine, threads, timers, async, stream, resume, cpu, after,
                     calls>>
  BY DEF ResumeReply, Idle
<1>2. /\ queue \in Seq(Tasks) /\ Typed /\ \A t : Count(queue, t) \in Nat
      /\ cmds.resume \in Nat /\ cmds.other \in Nat /\ threads \in Nat /\ resume \in Nat
  BY Types
<1>3. /\ et.started /\ ~conn.disconnected /\ et.state \in {"resolve_cmodes", "resume_completed"}
      /\ machine.state = "run"
      /\ ~conn.connect /\ ~conn.key_exchange /\ ~conn.rekeying
      /\ ~et.finished /\ Count(queue, "evfin") = 0 /\ ~et.timer
  <2>1. et.started /\ ~conn.disconnected
    BY <1>1, <1>2 DEF ConnInv, Resting, Working
  <2>2. /\ et.state \in {"resolve_cmodes", "resume_completed"} /\ machine.state \in {"run", "close"}
        /\ ~conn.connect /\ ~conn.key_exchange /\ ~conn.rekeying
        /\ ~et.finished /\ Count(queue, "evfin") = 0 /\ (et.timer => et.state \in Later)
    BY <1>1, <1>2, <2>1 DEF ConnInv, Working
  <2>3. machine.state \in {"none", "run"}
    BY <2>1 DEF ConnInv, Starting
  <2> QED
    BY <2>1, <2>2, <2>3 DEF Later
<1> DEFINE p == CancelRuns(queue)
           q == Append(p, "event")
<1>4. Kept(p, queue, {"event"}) /\ Count(p, "event") \in 0..Count(queue, "event")
  BY <1>2, Cancels
<1>5. Kept(q, queue, {"event"}) /\ Count(q, "event") = Count(p, "event") + 1
  BY <1>2, <1>4, RunQueued
<1>6. queue' = Append(q, "cmdfin")
  <2>1. p \in Seq(Tasks)
    BY <1>4 DEF Kept
  <2> HIDE DEF p
  <2>2. p \o <<"event", "cmdfin">> = Append(Append(p, "event"), "cmdfin")
    BY <2>1 DEF Tasks
  <2> QED
    BY <1>1, <2>2 DEF p
<1> HIDE DEF p, q
<1>7. Grown(queue', q, "cmdfin")
  BY <1>5, <1>6, Pushed DEF Kept, Tasks
<1>8. /\ queue' \in Seq(Tasks)
      /\ Count(queue', "event") \in Nat /\ Count(queue', "event") <= Count(queue, "event") + 1
      /\ Count(queue', "cmdfin") = Count(queue, "cmdfin") + 1
      /\ \A t : t \notin {"event", "cmdfin"} => Count(queue', t) = Count(queue, t)
      /\ \A x, t : t \notin {"event", "cmdfin"} /\ NoAfter(queue, x, t) => NoAfter(queue', x, t)
  <2>1. Count(q, "event") \in Nat /\ Count(q, "event") <= Count(queue, "event") + 1
    BY <1>2, <1>4, <1>5
  <2>2. /\ \A t : t # "event" => Count(q, t) = Count(queue, t)
        /\ \A x, t : t # "event" /\ NoAfter(queue, x, t) => NoAfter(q, x, t)
    BY <1>5 DEF Kept
  <2>3. /\ queue' \in Seq(Tasks) /\ \A t : Count(queue', t) = Count(q, t) + One(t = "cmdfin")
        /\ \A x, t : t # "cmdfin" /\ NoAfter(q, x, t) => NoAfter(queue', x, t)
    BY <1>7 DEF Grown
  <2>4. Count(queue', "event") = Count(q, "event") + 0
    BY <2>3 DEF One
  <2>5. Count(queue', "cmdfin") = Count(queue, "cmdfin") + 1
    BY <2>2, <2>3 DEF One
  <2>6. ASSUME NEW t, t \notin {"event", "cmdfin"} PROVE Count(queue', t) = Count(queue, t)
    <3>1. Count(queue', t) = Count(queue, t) + 0
      BY <2>2, <2>3, <2>6 DEF One
    <3> QED
      BY <1>2, <3>1
  <2> QED
    BY <2>1, <2>2, <2>3, <2>4, <2>5, <2>6
<1>9. /\ et' \in EventThreads /\ et'.state = et.state /\ et'.started
      /\ et'.finished = et.finished /\ ~et'.timer
  BY <1>1, <1>3, CancelledThread
<1>10. /\ cmds' \in [resume: Nat, other: Nat] /\ cmds'.resume = cmds.resume - 1
       /\ cmds'.other = cmds.other
  <2>1. cmds.resume - 1 \in Nat /\ cmds \in [resume: Nat, other: Nat]
    BY <1>1, <1>2, Types
  <2> DEFINE m == cmds.resume - 1
  <2> HIDE DEF m
  <2>2. cmds' = [cmds EXCEPT !.resume = m] /\ m \in Nat
    BY <1>1, <2>1 DEF m
  <2>3. cmds' \in [resume: Nat, other: Nat] /\ cmds'.resume = m /\ cmds'.other = cmds.other
    BY <2>1, <2>2
  <2> QED
    BY <2>3 DEF m
<1>11. Typed' /\ Abortable'
  BY <1>1, <1>8, <1>9, <1>10 DEF ConnInv, Typed, Abortable
<1>12. Counted'
  <2>1. One(et'.started) = One(et.started) /\ One(et.started) \in Nat
    BY <1>3, <1>9 DEF One
  <2>2. Count(queue', "evfin") = Count(queue, "evfin") /\ Count(queue, "evfin") \in Nat
    BY <1>2, <1>8
  <2>3. Count(queue, "cmdfin") \in Nat /\ threads' = threads
    BY <1>1, <1>2
  <2>4. threads = One(et.started) + Count(queue, "evfin") + Count(queue, "cmdfin")
                    + cmds.resume + cmds.other
    BY DEF ConnInv, Counted
  <2>5. /\ Count(queue', "cmdfin") = Count(queue, "cmdfin") + 1
        /\ cmds'.resume = cmds.resume - 1 /\ cmds'.other = cmds.other
        /\ cmds.resume \in Nat /\ cmds.other \in Nat
    BY <1>2, <1>8, <1>10
  <2>6. threads' = One(et'.started) + Count(queue', "evfin") + Count(queue', "cmdfin")
                     + cmds'.resume + cmds'.other
    BY <2>1, <2>2, <2>3, <2>4, <2>5
  <2> QED
    BY <2>6 DEF Counted
<1>13. Resting' /\ Unstarted' /\ Closing' /\ Ended'
  BY <1>1, <1>3, <1>9 DEF Resting, Unstarted, Closing, Ended
<1>14. Starting' /\ Control'
  BY <1>1, <1>3, <1>8 DEF ConnInv, Starting, Control
<1>15. Signals'
  BY <1>1, <1>3, <1>8, <1>9 DEF ConnInv, Signals, NoFlag
<1>16. Told'
  BY <1>1, <1>3, <1>9 DEF ConnInv, Told
<1>17. Working'
  <2>1. Runs' + cmds'.resume <= Runs + cmds.resume /\ Runs' \in Nat /\ Runs \in Nat
    <3>1. Runs' = Count(queue', "event") + 0 /\ Runs = Count(queue, "event") + 0
      BY <1>1 DEF Runs, One
    <3> QED
      BY <1>2, <1>8, <1>10, <3>1
  <2>2. /\ et.state # "resume_completed" =>
             Runs + One(async # {}) + One(et.timer) + cmds.resume <= 1
        /\ et.state = "resume_completed" =>
             Runs + cmds.resume <= IF resume > 1 THEN resume ELSE 1
    BY <1>3 DEF ConnInv, Working, Errors
  <2>3. /\ et'.state # "resume_completed" =>
             Runs' + One(async' # {}) + One(et'.timer) + cmds'.resume <= 1
        /\ et'.state = "resume_completed" =>
             Runs' + cmds'.resume <= IF resume' > 1 THEN resume' ELSE 1
    <3>1. /\ One(async' # {}) = One(async # {}) /\ One(et'.timer) = 0 /\ One(et.timer) = 0
          /\ One(async # {}) \in Nat
      BY <1>1, <1>3, <1>9 DEF One
    <3>2. cmds'.resume \in Nat
      BY <1>10
    <3>3. et.state # "resume_completed" =>
            Runs' + One(async' # {}) + One(et'.timer) + cmds'.resume <= 1
      <4>1. /\ Runs' + cmds'.resume <= Runs + cmds.resume /\ Runs' \in Nat /\ Runs \in Nat
            /\ cmds'.resume \in Nat /\ cmds.resume \in Nat
        BY <1>2, <2>1, <3>2
      <4>2. SUFFICES ASSUME et.state # "resume_completed"
                     PROVE  Runs' + One(async' # {}) + One(et'.timer) + cmds'.resume <= 1
        OBVIOUS
      <4>3. Runs + One(async # {}) + One(et.timer) + cmds.resume <= 1
        BY <2>2, <4>2
      <4> QED
        BY ONLY <3>1, <4>1, <4>3
    <3>4. et.state = "resume_completed" =>
            Runs' + cmds'.resume <= IF resume > 1 THEN resume ELSE 1
      BY <1>2, <2>1, <2>2, <3>2
    <3>5. et'.state = et.state /\ resume' = resume
      BY <1>1, <1>9
    <3> QED
      BY <3>3, <3>4, <3>5
  <2>4. /\ et.state \notin Passed \cup Later \cup Errors \cup {"rekey", "null"}
    BY <1>3 DEF Passed, Later, Errors
  <2> QED
    BY <1>1, <1>3, <1>8, <1>9, <2>3, <2>4 DEF ConnInv, Working
<1> QED
  BY <1>11, <1>12, <1>13, <1>14, <1>15, <1>16, <1>17 DEF ConnInv

(* silc_client_connection_st_close with the event thread at work           *)
LEMMA CloseEventThreadKeeps ==
  ASSUME ConnInv, CloseEventThread
  PROVE  ConnInv'
<1>1. /\ cpu = "conn" /\ machine.state = "close" /\ cmds.resume + cmds.other = 0 /\ et.started
      /\ async' = async \ {conn.op} /\ conn' = [conn EXCEPT !.op = "none"]
      /\ et' = Cancelled /\ queue' = CancelRuns(queue) /\ cpu' = "event" /\ after' = "yield"
      /\ UNCHANGED <<params, machine, threads, timers, cmds, stream, resume, calls>>
  BY DEF CloseEventThread, CloseReady, AbortOp, ContinueSync
<1>2. /\ queue \in Seq(Tasks) /\ Typed /\ (\A t : Count(queue, t) \in Nat)
      /\ cmds.resume \in Nat /\ cmds.other \in Nat
  BY Types
<1>3. /\ conn.disconnected /\ cmds.resume = 0 /\ after # "yield"
      /\ ~conn.connect /\ ~conn.key_exchange /\ ~conn.rekeying
      /\ ~et.finished /\ et.state # "null" /\ Count(queue, "evfin") = 0 /\ et.state \notin Passed
  BY <1>1, <1>2 DEF ConnInv, Starting, Working, Control
<1>4. /\ conn' \in Connections /\ FlagsKept /\ conn'.op = "none" /\ conn'.status = conn.status
      /\ conn'.local_id = conn.local_id
  BY <1>1, Types DEF Connections, FlagsKept
<1>5. /\ et' \in EventThreads /\ et'.state = et.state /\ et'.started
      /\ et'.finished = et.finished /\ ~et'.timer
  BY <1>1, CancelledThread
<1>6. Kept(queue', queue, {"event"})
  BY <1>1, <1>2, Cancels
<1>7. /\ queue' \in Seq(Tasks)
      /\ \A t : t # "event" => Count(queue', t) = Count(queue, t)
      /\ \A x, t : t # "event" /\ NoAfter(queue, x, t) => NoAfter(queue', x, t)
  BY <1>6 DEF Kept
<1>8. Typed' /\ Abortable'
  BY <1>1, <1>4, <1>5, <1>7 DEF ConnInv, Typed, Abortable
<1>9. Counted'
  BY <1>1, <1>5, <1>7 DEF ConnInv, Counted, One
<1>10. Resting' /\ Unstarted' /\ Ended' /\ Signals'
  BY <1>1, <1>3, <1>4, <1>5 DEF Resting, Unstarted, Ended, Signals, FlagsKept
<1>11. Starting' /\ Control'
  BY <1>1, <1>3, <1>4, <1>7 DEF ConnInv, Starting, Control, FlagsKept
<1>12. Closing'
  <2>1. /\ ~machine.waiting /\ Count(queue, "signal") = 0 /\ Count(queue, "conn") = 0
    <3>1. One(cpu = "conn") = 1 /\ One(after = "yield") = 0
      BY <1>1, <1>3 DEF One
    <3> QED
      BY <1>1, <1>2, <3>1 DEF ConnInv, Closing
  <2>2. One(cpu' = "conn") = 0 /\ One(after' = "yield") = 1
    BY <1>1 DEF One
  <2>3. Count(queue', "signal") = 0 /\ Count(queue', "conn") = 0
    BY <1>7, <2>1
  <2>4. NoAfter(queue', "conn", "signal")
    BY <1>7, <2>3, NoneAfter
  <2> QED
    BY <1>1, <2>1, <2>2, <2>3, <2>4 DEF Closing
<1>13. Told'
  BY <1>1, <1>3, <1>4, <1>5 DEF ConnInv, Told, FlagsKept
<1>14. Working'
  <2>1. /\ et.state # "rekey" => calls = <<>>
        /\ et.state = "rekey" => ~timers.connect
        /\ \A k \in async : et.state \in WaitsFor(k)
        /\ et.state \in {"resolve_cmodes", "resume_completed"} => conn.local_id
    BY <1>1 DEF ConnInv, Working
  <2> QED
    BY <1>1, <1>3, <1>4, <1>5, <1>7, <2>1 DEF Working, FlagsKept
<1> QED
  BY <1>8, <1>9, <1>10, <1>11, <1>12, <1>13, <1>14 DEF ConnInv

-----------------------------------------------------------------------------
(* The machine, the scheduler and the environment.                         *)

(* A task y has been taken off the queue, or added to it.                  *)
Less(y) ==
  /\ queue' \in Seq(Tasks)
  /\ Count(queue', y) = Count(queue, y) - 1 /\ Count(queue', y) \in Nat
  /\ \A t : t # y => Count(queue', t) = Count(queue, t)
  /\ \A x, t : NoAfter(queue, x, t) => NoAfter(queue', x, t)
More(y) ==
  /\ queue' \in Seq(Tasks)
  /\ Count(queue', y) = Count(queue, y) + 1
  /\ \A t : t # y => Count(queue', t) = Count(queue, t)
  /\ \A x, t : t # y /\ NoAfter(queue, x, t) => NoAfter(queue', x, t)

(* A task is dispatched.                                                   *)
LEMMA Taken ==
  ASSUME ConnInv, NEW y, Dispatch(y), queue' = Tail(queue)
  PROVE  /\ Less(y) /\ cpu = "idle" /\ after = "idle" /\ Count(queue, y) > 0 /\ y \in Tasks
         /\ \A t : NoAfter(queue, y, t) => Count(queue', t) = 0
<1>1. /\ cpu = "idle" /\ after = "idle" /\ Shrunk(queue', queue, y) /\ Count(queue, y) > 0
      /\ y \in Tasks
  BY Dispatched
<1>2. \A t : Count(queue', t) \in Nat
  BY <1>1, Counting DEF Shrunk
<1>3. /\ queue' \in Seq(Tasks)
      /\ \A t : Count(queue, t) = Count(queue', t) + One(t = y)
      /\ \A x, t : NoAfter(queue, x, t) => NoAfter(queue', x, t)
      /\ \A t : NoAfter(queue, y, t) => Count(queue', t) = 0
  BY <1>1 DEF Shrunk
<1>4. Count(queue', y) = Count(queue, y) - 1
  <2>1. Count(queue, y) = Count(queue', y) + 1
    BY <1>3 DEF One
  <2> QED
    BY <1>2, <2>1
<1>5. ASSUME NEW t, t # y PROVE Count(queue', t) = Count(queue, t)
  <2>1. Count(queue, t) = Count(queue', t) + 0
    BY <1>3, <1>5 DEF One
  <2> QED
    BY <1>2, <2>1
<1> QED
  BY <1>1, <1>2, <1>3, <1>4, <1>5 DEF Less

(* A task is queued.                                                       *)
LEMMA Added ==
  ASSUME ConnInv, NEW y, Grown(queue', queue, y)
  PROVE  More(y) /\ \A x : NoAfter(queue, x, y) /\ Count(queue, x) = 0 => NoAfter(queue', x, y)
<1>1. \A t : Count(queue, t) \in Nat
  BY Types
<1>2. /\ queue' \in Seq(Tasks)
      /\ \A t : Count(queue', t) = Count(queue, t) + One(t = y)
      /\ \A x, t : NoAfter(queue', x, t) <=> NoAfter(queue, x, t) /\ (t = y => Count(queue, x) = 0)
  BY DEF Grown
<1>3. Count(queue', y) = Count(queue, y) + 1
  BY <1>2 DEF One
<1>4. ASSUME NEW t, t # y PROVE Count(queue', t) = Count(queue, t)
  <2>1. Count(queue', t) = Count(queue, t) + 0
    BY <1>2, <1>4 DEF One
  <2> QED
    BY <1>1, <2>1
<1> QED
  BY <1>2, <1>3, <1>4 DEF More

(* The event thread is left alone; the connection may be disconnected      *)
(* unless it waits for replies of a resume.                                *)
Alone ==
  /\ cpu # "event" /\ cpu' # "event" /\ et' = et
  /\ Count(queue', "event") = Count(queue, "event")
  /\ et.started => Count(queue', "evfin") = 0 /\ machine'.state \in {"run", "close"}
  /\ cmds'.resume = cmds.resume /\ calls' = calls
  /\ UNCHANGED <<async, resume, timers>>
  /\ conn'.connect = conn.connect /\ conn'.key_exchange = conn.key_exchange
  /\ et.started => conn'.rekeying = conn.rekeying
  /\ conn'.local_id = conn.local_id
  /\ conn'.registering = conn.registering /\ conn'.auth_request = conn.auth_request
  /\ \/ conn'.disconnected = conn.disconnected
     \/ conn'.disconnected /\ cmds.resume = 0

(* Then what is known of the event thread stays true.                      *)
LEMMA AloneKeeps ==
  ASSUME ConnInv, Alone
  PROVE  Working' /\ Resting'
<1>1. Resting'
  BY DEF ConnInv, Resting, Alone
<1>2. Working'
  <2> SUFFICES ASSUME et.started PROVE Working'
    BY DEF Alone, Working
  <2>1. /\ ~et.finished /\ et.state # "null"
        /\ ~conn.connect /\ ~conn.key_exchange /\ ~conn.rekeying
        /\ et.state \notin Passed
        /\ et.timer => et.later /\ et.state \in Later /\ Count(queue, "event") = 0
        /\ et.state \in Later => et.timer
        /\ et.state \notin {"register_error", "resume_error"}
        /\ et.state \in {"resolve_cmodes", "resume_completed"} => conn.local_id
        /\ et.state # "rekey" => calls = <<>>
        /\ et.state = "rekey" => ~timers.connect
        /\ \A k \in async : et.state \in WaitsFor(k)
        /\ et.state \notin {"resolve_cmodes", "resume_completed"} => cmds.resume = 0
        /\ conn.disconnected => cmds.resume = 0
    BY DEF ConnInv, Working, Alone
  <2>2. Runs' = Runs
    BY DEF Runs, Alone, One
  <2>3. ASSUME ~conn'.disconnected
        PROVE  /\ ~conn.disconnected
               /\ et.state \notin {"resume_completed"} \cup Errors =>
                    Runs' + One(async # {}) + One(et.timer) + cmds'.resume <= 1
               /\ et.state = "resume_completed" =>
                    Runs' + cmds'.resume <= IF resume > 1 THEN resume ELSE 1
               /\ et.state = "rekey" => Count(queue', "event") = 0
               /\ conn'.registering => et.state \in Registering
               /\ conn'.auth_request => et.state = "auth_data"
    BY <2>2, <2>3 DEF ConnInv, Working, Alone
  <2> QED
    BY <2>1, <2>3 DEF Alone, Working
<1> QED
  BY <1>1, <1>2

(* silc_schedule_iterate                                                   *)
LEMMA PollKeeps ==
  ASSUME ConnInv, Poll
  PROVE  ConnInv'
<1>1. /\ Dispatch("poll") /\ queue' = Append(Tail(queue), "poll")
      /\ UNCHANGED <<params, conn, machine, et, threads, timers, async, cmds, stream, resume, cpu,
                     after, calls>>
  BY DEF Poll, AtSelect
<1> DEFINE r == Tail(queue)
<1>2. cpu = "idle" /\ after = "idle" /\ Shrunk(r, queue, "poll") /\ queue # <<>> /\ queue[1] = "poll"
  BY <1>1, Dispatched DEF Dispatch
<1> HIDE DEF r
<1>3. Grown(queue', r, "poll") /\ r \in Seq(Tasks)
  BY <1>1, <1>2, Pushed DEF Shrunk, Tasks, r
<1>4. /\ queue' \in Seq(Tasks) /\ \A t : Count(queue', t) = Count(queue, t)
      /\ \A x, t : t # "poll" /\ NoAfter(queue, x, t) => NoAfter(queue', x, t)
  <2>1. \A t : Count(queue', t) = Count(r, t) + One(t = "poll")
    BY <1>3 DEF Grown
  <2>2. \A t : Count(queue, t) = Count(r, t) + One(t = "poll")
    BY <1>2 DEF Shrunk
  <2>3. \A x, t : t # "poll" /\ NoAfter(queue, x, t) => NoAfter(queue', x, t)
    BY <1>2, <1>3 DEF Grown, Shrunk
  <2> QED
    BY <1>3, <2>1, <2>2, <2>3 DEF Grown
<1>5. NoAfter(queue', "poll", "signal")
  <2>1. Count(r, "poll") = 0
    <3>1. Count(queue, "poll") = Count(r, "poll") + 1 /\ Count(r, "poll") \in Nat
      BY <1>2, <1>3, Counting DEF Shrunk, One
    <3> QED
      BY <3>1 DEF ConnInv, Starting
  <2>2. NoAfter(r, "poll", "signal")
    BY <1>3, <2>1, NoneAfter
  <2> QED
    BY <1>3, <2>2 DEF Grown
<1>6. machine.state # "none"
  <2>1. machine.state = "none" => queue[1] = "start"
    BY DEF ConnInv, Starting
  <2> QED
    BY <1>2, <2>1
<1>7. Typed' /\ Counted' /\ Abortable' /\ Unstarted' /\ Told'
  BY <1>1, <1>4 DEF ConnInv, Typed, Counted, Abortable, Unstarted, Told
<1>8. Working' /\ Resting'
  <2>1. Alone
    BY <1>1, <1>2, <1>4 DEF Alone, ConnInv, Working
  <2> QED
    BY <2>1, AloneKeeps
<1>9. Starting' /\ Control' /\ Closing'
  BY <1>1, <1>4, <1>6 DEF ConnInv, Starting, Control, Closing
<1>10. Ended'
  BY <1>1, <1>4 DEF ConnInv, Ended
<1>11. Signals'
  BY <1>1, <1>4, <1>5 DEF ConnInv, Signals, NoFlag
<1> QED
  BY <1>7, <1>8, <1>9, <1>10, <1>11 DEF ConnInv

(* The machine when a task that is not its start is dispatched.            *)
LEMMA UpWhenTaken ==
  ASSUME ConnInv, NEW y, Dispatch(y), y # "start"
  PROVE  machine.state # "none"
<1>1. queue # <<>> /\ Head(queue) = y
  BY Dispatched DEF Dispatch
<1>2. machine.state = "none" => Head(queue) = "start"
  BY DEF ConnInv, Starting
<1> QED
  BY <1>1, <1>2

(* silc_client_connection_st_start                                         *)
LEMMA StartKeeps ==
  ASSUME ConnInv, Start
  PROVE  ConnInv'
<1> DEFINE Set(flag) == IF flag THEN 1 ELSE 0
           n == Set(conn.disconnected) + Set(conn.connect) + Set(conn.key_exchange)
           r == Tail(queue)
<1>1. /\ Dispatch("start") /\ machine' = [state |-> "run", waiting |-> TRUE, value |-> n]
      /\ queue' = r \o [i \in 1..n |-> "signal"]
      /\ UNCHANGED <<params, conn, et, threads, timers, async, cmds, stream, resume, cpu, after,
                     calls>>
  BY DEF Start
<1>2. /\ cpu = "idle" /\ after = "idle" /\ Shrunk(r, queue, "start") /\ Count(queue, "start") > 0
  BY <1>1, Dispatched
<1>3. /\ machine.state = "none" /\ machine.value = 0 /\ (conn.connect \/ conn.key_exchange)
      /\ ~et.started /\ ~(conn.connect /\ conn.key_exchange) /\ ~conn.rekeying
  BY <1>2 DEF ConnInv, Starting, Unstarted
<1>4. n \in Nat /\ (~conn.disconnected => n = 1)
  <2>1. conn \in Connections
    BY Types
  <2> QED
    BY <1>3 DEF Connections
<1>5. machine' \in Machines /\ machine'.state = "run" /\ machine'.waiting /\ machine'.value = n
  BY <1>1, <1>4 DEF Machines
<1> HIDE DEF n, r
<1>6. r \in Seq(Tasks) /\ Extended(queue', r, "signal", n)
  BY <1>1, <1>2, <1>4, Repeated DEF Shrunk, Tasks
<1>7. \A t : t # "start" => Count(r, t) = Count(queue, t)
  <2> SUFFICES ASSUME NEW t, t # "start" PROVE Count(r, t) = Count(queue, t)
    OBVIOUS
  <2>1. Count(queue, t) = Count(r, t) + 0 /\ Count(r, t) \in Nat
    BY <1>2, <1>6, Counting DEF Shrunk, One
  <2> QED
    BY <2>1
<1>8. Count(r, "start") = 0 /\ Count(queue, "signal") = 0
  <2>1. queue = <<"start", "poll">>
    BY <1>3 DEF ConnInv, Starting
  <2>2. Len(queue) = 2 /\ queue[1] = "start" /\ queue[2] = "poll" /\ queue \in Seq(Tasks)
    BY <2>1, Types
  <2>3. NoAfter(queue, "start", "start")
    BY <2>2 DEF NoAfter
  <2>4. Count(queue, "signal") = 0
    BY <2>2, Counting
  <2> QED
    BY <1>2, <2>3, <2>4 DEF Shrunk
<1>9. /\ queue' \in Seq(Tasks) /\ Count(queue', "signal") = 0 + n
      /\ Count(queue', "start") = 0
      /\ \A t : t \notin {"start", "signal"} => Count(queue', t) = Count(queue, t)
  BY <1>6, <1>7, <1>8 DEF Extended
<1>10. NoAfter(queue', "signal", "poll")
  <2>1. Count(r, "signal") = 0
    BY <1>7, <1>8
  <2>2. NoAfter(r, "signal", "poll")
    BY <1>6, <2>1, NoneAfter
  <2> QED
    BY <1>6, <2>2 DEF Extended
<1>11. NoAfter(queue', "signal", "evfin")
  <2>1. Count(queue', "evfin") = 0
    BY <1>3, <1>9 DEF ConnInv, Unstarted
  <2> QED
    BY <1>9, <2>1, NoneAfter
<1>12. Typed' /\ Counted' /\ Abortable'
  BY <1>1, <1>5, <1>9 DEF ConnInv, Typed, Counted, Abortable
<1>13. Unstarted'
  BY <1>1, <1>3, <1>9 DEF ConnInv, Unstarted
<1>14. Told'
  BY <1>1, <1>3, <1>5 DEF ConnInv, Told
<1>15. Working' /\ Resting'
  <2>1. Alone
    BY <1>1, <1>2, <1>3, <1>9 DEF Alone
  <2> QED
    BY <2>1, AloneKeeps
<1>16. Starting' /\ Control' /\ Closing' /\ Ended'
  BY <1>1, <1>2, <1>3, <1>5, <1>9 DEF ConnInv, Starting, Control, Closing, Ended
<1>17. Signals'
  <2>1. ~conn.disconnected => Count(queue', "signal") + One(cpu' = "conn") <= 1
    BY <1>1, <1>2, <1>4, <1>9 DEF One
  <2> QED
    BY <1>1, <1>2, <1>3, <1>10, <1>11, <2>1 DEF Signals, NoFlag
<1> QED
  BY <1>12, <1>13, <1>14, <1>15, <1>16, <1>17 DEF ConnInv

(* silc_fsm_signal                                                         *)
LEMMA DeliverSignalKeeps ==
  ASSUME ConnInv, DeliverSignal
  PROVE  ConnInv'
<1>1. /\ Dispatch("signal") /\ queue' = Tail(queue)
      /\ cpu' = IF machine.value > 0 /\ machine.waiting THEN "conn" ELSE "idle"
      /\ UNCHANGED <<params, conn, machine, et, threads, timers, async, cmds, stream, resume, after,
                     calls>>
  BY DEF DeliverSignal
<1>2. /\ Less("signal") /\ cpu = "idle" /\ after = "idle" /\ Count(queue, "signal") > 0
      /\ \A t : NoAfter(queue, "signal", t) => Count(queue', t) = 0
  BY <1>1, Taken
<1>3. /\ queue' \in Seq(Tasks)
      /\ Count(queue', "signal") = Count(queue, "signal") - 1 /\ Count(queue', "signal") \in Nat
      /\ \A t : t # "signal" => Count(queue', t) = Count(queue, t)
      /\ \A x, t : NoAfter(queue, x, t) => NoAfter(queue', x, t)
  BY <1>2 DEF Less
<1>4. machine.state \in {"run", "close"}
  <2>1. machine.state \notin {"finished", "deleted", "gone"}
    BY <1>2 DEF ConnInv, Ended
  <2>2. machine.state # "none"
    BY <1>1, UpWhenTaken
  <2> QED
    BY <2>1, <2>2 DEF ConnInv, Typed, Machines
<1>5. Typed' /\ Abortable' /\ Unstarted' /\ Told'
  BY <1>1, <1>3 DEF ConnInv, Typed, Abortable, Unstarted, Told
<1>6. Counted'
  BY <1>1, <1>3 DEF ConnInv, Counted
<1>7. Working' /\ Resting'
  <2>1. Alone
    BY <1>1, <1>2, <1>3, <1>4 DEF Alone, ConnInv, Working
  <2> QED
    BY <2>1, AloneKeeps
<1>8. Starting' /\ Control'
  BY <1>1, <1>2, <1>3, <1>4 DEF ConnInv, Starting, Control
<1>9. Ended'
  BY <1>1, <1>4 DEF Ended
<1>10. Closing'
  <2>1. machine.state = "close" => cpu' = "idle"
    BY <1>1 DEF ConnInv, Closing
  <2> QED
    BY <1>1, <1>2, <1>3, <2>1 DEF ConnInv, Closing
<1>11. Signals'
  <2> SUFFICES ASSUME machine.state = "run", ~conn.disconnected PROVE Signals'
    BY <1>1 DEF Signals
  <2>1. ~(machine.value > 0 /\ NoFlag)
    BY <1>2 DEF ConnInv, Signals
  <2>2. NoAfter(queue', "poll", "signal")
    <3>1. CASE NoAfter(queue, "signal", "poll")
      BY <1>2, <1>3, <3>1 DEF ConnInv, Starting
    <3>2. CASE NoAfter(queue, "poll", "signal")
      BY <1>3, <3>2
    <3> QED
      BY <3>1, <3>2 DEF ConnInv, Signals
  <2>3. Count(queue', "evfin") = 0 /\ NoAfter(queue', "signal", "evfin")
    BY <1>2, <1>3 DEF ConnInv, Signals
  <2>4. conn.connect \/ conn.key_exchange => Count(queue', "signal") + One(cpu' = "conn") <= 1
    <3>1. One(cpu' = "conn") \in {0, 1} /\ One(cpu = "conn") = 0 /\ Count(queue, "signal") \in Nat
      BY <1>2, Types DEF One
    <3>2. conn.connect \/ conn.key_exchange => Count(queue, "signal") + One(cpu = "conn") <= 1
      BY DEF ConnInv, Signals
    <3> QED
      BY <1>3, <3>1, <3>2
  <2>5. et.started /\ et.state # "rekey" => Count(queue', "signal") = 0
    BY <1>2 DEF ConnInv, Signals
  <2> QED
    BY <1>1, <2>1, <2>2, <2>3, <2>4, <2>5 DEF Signals, NoFlag
<1> QED
  BY <1>5, <1>6, <1>7, <1>8, <1>9, <1>10, <1>11 DEF ConnInv

(* silc_fsm_run of the machine, in st_close                                *)
LEMMA RunMachineKeeps ==
  ASSUME ConnInv, RunMachine
  PROVE  ConnInv'
<1>1. /\ Dispatch("conn") /\ queue' = Tail(queue) /\ cpu' = "conn"
      /\ UNCHANGED <<params, conn, machine, et, threads, timers, async, cmds, stream, resume, after,
                     calls>>
  BY DEF RunMachine
<1>2. /\ Less("conn") /\ cpu = "idle" /\ after = "idle" /\ Count(queue, "conn") > 0
      /\ \A t : NoAfter(queue, "conn", t) => Count(queue', t) = 0
  BY <1>1, Taken
<1>3. /\ queue' \in Seq(Tasks)
      /\ Count(queue', "conn") = Count(queue, "conn") - 1 /\ Count(queue', "conn") \in Nat
      /\ \A t : t # "conn" => Count(queue', t) = Count(queue, t)
      /\ \A x, t : NoAfter(queue, x, t) => NoAfter(queue', x, t)
  BY <1>2 DEF Less
<1>4. machine.state = "close" /\ conn.disconnected
  BY <1>2 DEF ConnInv, Control, Starting
<1>5. Typed' /\ Abortable' /\ Unstarted' /\ Told'
  BY <1>1, <1>3 DEF ConnInv, Typed, Abortable, Unstarted, Told
<1>6. Counted'
  BY <1>1, <1>3 DEF ConnInv, Counted
<1>7. Working' /\ Resting'
  <2>1. Alone
    BY <1>1, <1>2, <1>3, <1>4 DEF Alone, ConnInv, Working
  <2> QED
    BY <2>1, AloneKeeps
<1>8. Starting' /\ Control'
  BY <1>1, <1>2, <1>3, <1>4 DEF ConnInv, Starting, Control
<1>9. Ended' /\ Signals'
  BY <1>1, <1>4 DEF Ended, Signals
<1>10. Closing'
  <2>1. One(cpu = "conn") = 0 /\ One(after = "yield") = 0 /\ One(cpu' = "conn") = 1
        /\ One(after' = "yield") = 0
    BY <1>1, <1>2 DEF One
  <2>2. ~machine.waiting /\ Count(queue, "conn") = 1 /\ NoAfter(queue, "conn", "signal")
    <3>1. Count(queue, "conn") \in Nat
      BY Types
    <3> QED
      BY <1>4, <2>1, <3>1 DEF ConnInv, Closing
  <2> QED
    BY <1>1, <1>2, <1>3, <2>1, <2>2 DEF Closing
<1> QED
  BY <1>5, <1>6, <1>7, <1>8, <1>9, <1>10 DEF ConnInv

(* SILC_FSM_EVENT_WAIT finds nothing signalled.                            *)
LEMMA AwaitEventKeeps ==
  ASSUME ConnInv, AwaitEvent
  PROVE  ConnInv'
<1>1. /\ cpu = "conn" /\ machine.state = "run" /\ machine.value = 0
      /\ machine' = [machine EXCEPT !.waiting = TRUE] /\ cpu' = "idle"
      /\ UNCHANGED <<params, conn, et, threads, queue, timers, async, cmds, stream, resume, after,
                     calls>>
  BY DEF AwaitEvent
<1>2. machine \in Machines /\ after = "idle"
  BY <1>1 DEF ConnInv, Typed, Control
<1>3. machine' \in Machines /\ machine'.state = "run" /\ machine'.value = 0
  BY <1>1, <1>2 DEF Machines
<1>4. Typed' /\ Counted' /\ Abortable' /\ Unstarted' /\ Told'
  BY <1>1, <1>3 DEF ConnInv, Typed, Counted, Abortable, Unstarted, Told
<1>5. Working' /\ Resting'
  <2>1. Alone
    BY <1>1, <1>3 DEF Alone, ConnInv, Working
  <2> QED
    BY <2>1, AloneKeeps
<1>6. Starting' /\ Control' /\ Closing' /\ Ended'
  BY <1>1, <1>2, <1>3 DEF ConnInv, Starting, Control, Closing, Ended
<1>7. Signals'
  <2> SUFFICES ASSUME ~conn.disconnected PROVE Signals'
    BY <1>1 DEF Signals
  <2>1. conn.connect \/ conn.key_exchange => Count(queue, "signal") + One(cpu' = "conn") <= 1
    <3>1. One(cpu' = "conn") = 0 /\ One(cpu = "conn") = 1 /\ Count(queue, "signal") \in Nat
      BY <1>1, Types DEF One
    <3> QED
      BY <1>1, <3>1 DEF ConnInv, Signals
  <2> QED
    BY <1>1, <1>3, <2>1 DEF ConnInv, Signals, NoFlag
<1> QED
  BY <1>4, <1>5, <1>6, <1>7 DEF ConnInv

(* The machine takes an event.                                             *)
LEMMA TakesEvent ==
  ASSUME ConnInv, EventTaken
  PROVE  /\ cpu = "conn" /\ after = "idle" /\ machine.state = "run" /\ machine.value > 0
         /\ machine' \in Machines /\ ~machine'.waiting
         /\ machine'.state = IF conn.disconnected THEN "close" ELSE "run"
<1>1. /\ cpu = "conn" /\ machine.state = "run" /\ machine.value > 0
      /\ machine' = [machine EXCEPT !.waiting = FALSE, !.value = @ - 1,
                                    !.state = IF conn.disconnected THEN "close" ELSE "run"]
  BY DEF EventTaken
<1>2. machine \in Machines /\ after = "idle"
  BY <1>1 DEF ConnInv, Typed, Control
<1> DEFINE v == machine.value - 1
           s == IF conn.disconnected THEN "close" ELSE "run"
<1>3. v \in Nat /\ s \in {"run", "close"}
  BY <1>1, <1>2 DEF Machines
<1>4. machine' = [machine EXCEPT !.waiting = FALSE, !.value = v, !.state = s]
  BY <1>1
<1> HIDE DEF v, s
<1>5. machine' \in Machines /\ ~machine'.waiting /\ machine'.state = s
  BY <1>2, <1>3, <1>4 DEF Machines
<1> QED
  BY <1>1, <1>2, <1>5 DEF s

(* The connection has been disconnected: st_run goes to st_close.          *)
LEMMA EventDisconnectedKeeps ==
  ASSUME ConnInv, EventDisconnected
  PROVE  ConnInv'
<1>1. /\ EventTaken /\ conn.disconnected /\ queue' = Append(queue, "conn") /\ cpu' = "idle"
      /\ UNCHANGED <<params, conn, et, threads, timers, async, cmds, stream, resume, after, calls>>
  BY DEF EventDisconnected
<1>2. /\ cpu = "conn" /\ after = "idle" /\ machine.state = "run"
      /\ machine' \in Machines /\ ~machine'.waiting /\ machine'.state = "close"
  BY <1>1, TakesEvent
<1>3. More("conn")
  BY <1>1, Types, Pushed, Added DEF Tasks
<1>4. /\ queue' \in Seq(Tasks)
      /\ Count(queue', "conn") = Count(queue, "conn") + 1
      /\ \A t : t # "conn" => Count(queue', t) = Count(queue, t)
      /\ \A x, t : t # "conn" /\ NoAfter(queue, x, t) => NoAfter(queue', x, t)
  BY <1>3 DEF More
<1>5. Count(queue, "conn") = 0
  BY <1>2 DEF ConnInv, Control
<1>6. Typed' /\ Abortable'
  BY <1>1, <1>2, <1>4 DEF ConnInv, Typed, Abortable
<1>7. Counted'
  BY <1>1, <1>4 DEF ConnInv, Counted
<1>8. Unstarted' /\ Told'
  BY <1>1, <1>2, <1>4 DEF ConnInv, Unstarted, Told
<1>9. Working' /\ Resting'
  <2>1. Alone
    BY <1>1, <1>2, <1>4 DEF Alone, ConnInv, Working
  <2> QED
    BY <2>1, AloneKeeps
<1>10. Starting' /\ Control'
  BY <1>1, <1>2, <1>4 DEF ConnInv, Starting, Control
<1>11. Ended' /\ Signals'
  BY <1>1, <1>2 DEF Ended, Signals
<1>12. Closing'
  <2>1. One(cpu' = "conn") = 0 /\ One(after' = "yield") = 0
    BY <1>1, <1>2 DEF One
  <2>2. NoAfter(queue', "conn", "signal")
    <3>1. NoAfter(queue, "conn", "signal")
      BY <1>5, Types, NoneAfter
    <3> QED
      BY <1>4, <3>1
  <2> QED
    BY <1>1, <1>2, <1>4, <1>5, <2>1, <2>2 DEF Closing
<1> QED
  BY <1>6, <1>7, <1>8, <1>9, <1>10, <1>11, <1>12 DEF ConnInv

(* The end of st_run: what was signalled has been taken before.            *)
LEMMA EventUnknownKeeps ==
  ASSUME ConnInv, EventUnknown
  PROVE  ConnInv'
<1>1. /\ EventTaken /\ NoFlag
      /\ UNCHANGED <<params, conn, et, threads, queue, timers, async, cmds, stream, resume, cpu,
                     after, calls>>
  BY DEF EventUnknown
<1>2. /\ cpu = "conn" /\ after = "idle" /\ machine.state = "run" /\ ~conn.disconnected
      /\ machine' \in Machines /\ ~machine'.waiting /\ machine'.state = "run"
  BY <1>1, TakesEvent DEF NoFlag
<1>3. Typed' /\ Counted' /\ Abortable' /\ Unstarted' /\ Told'
  BY <1>1, <1>2 DEF ConnInv, Typed, Counted, Abortable, Unstarted, Told
<1>4. Working' /\ Resting'
  <2>1. Alone
    BY <1>1, <1>2 DEF Alone, ConnInv, Working
  <2> QED
    BY <2>1, AloneKeeps
<1>5. Starting' /\ Control' /\ Closing' /\ Ended'
  BY <1>1, <1>2 DEF ConnInv, Starting, Control, Closing, Ended
<1>6. Signals'
  BY <1>1, <1>2 DEF ConnInv, Signals, NoFlag
<1> QED
  BY <1>3, <1>4, <1>5, <1>6 DEF ConnInv

(* silc_fsm_start_sync of the event thread, in state s: no run of it is    *)
(* left, and nothing that would wake it.                                   *)
LEMMA EventStarts ==
  ASSUME ConnInv, EventTaken, ~conn.disconnected, ~et.started,
         NEW s \in {"connect", "set_stream", "rekey"}, StartEvent(s),
         conn' \in Connections, ~conn'.connect, ~conn'.key_exchange, ~conn'.rekeying,
         conn'.disconnected = conn.disconnected, conn'.status = conn.status,
         conn'.callback = conn.callback, conn'.cop = conn.cop, conn'.op = conn.op,
         conn'.registering = conn.registering, conn'.auth_request = conn.auth_request,
         Count(queue, "evfin") = 0,
         s # "rekey" => calls = <<>> /\ Count(queue, "signal") = 0
  PROVE  ConnInv'
<1>1. /\ cpu = "conn" /\ after = "idle" /\ machine.state = "run"
      /\ machine' \in Machines /\ ~machine'.waiting /\ machine'.state = "run"
  BY TakesEvent
<1>2. /\ et' = [et EXCEPT !.state = s, !.started = TRUE, !.finished = FALSE, !.sync = TRUE]
      /\ threads' = threads + 1 /\ cpu' = "event" /\ after' = "continue"
      /\ UNCHANGED <<params, queue, timers, async, cmds, stream, resume, calls>>
  BY DEF StartEvent
<1>3. /\ Count(queue, "event") = 0 /\ ~et.timer /\ cmds.resume = 0
      /\ async = {} /\ ~conn.registering /\ ~conn.auth_request /\ ~timers.connect
  BY DEF ConnInv, Resting
<1>4. /\ et' \in EventThreads /\ et'.state = s /\ et'.started /\ ~et'.finished /\ et'.sync
      /\ ~et'.timer
  BY <1>2, <1>3, Types DEF EventThreads, EventStates
<1>5. Typed' /\ Abortable'
  BY <1>1, <1>2, <1>4 DEF ConnInv, Typed, Abortable
<1>6. Counted'
  <2>1. One(et.started) = 0 /\ One(et'.started) = 1
    BY <1>4 DEF One
  <2>2. Count(queue, "evfin") \in Nat /\ Count(queue, "cmdfin") \in Nat /\ threads' = threads + 1
    BY <1>2, Types
  <2>3. cmds.resume \in Nat /\ cmds.other \in Nat /\ threads \in Nat
    BY Types
  <2>4. threads = 0 + Count(queue, "evfin") + Count(queue, "cmdfin") + cmds.resume + cmds.other
    BY <2>1 DEF ConnInv, Counted
  <2>5. threads' = 1 + Count(queue, "evfin") + Count(queue, "cmdfin") + cmds.resume + cmds.other
    BY ONLY <2>2, <2>3, <2>4
  <2> QED
    BY <1>2, <2>1, <2>5 DEF Counted
<1>7. Resting' /\ Unstarted' /\ Closing' /\ Ended'
  BY <1>1, <1>4 DEF Resting, Unstarted, Closing, Ended
<1>8. Starting' /\ Control'
  BY <1>1, <1>2 DEF ConnInv, Starting, Control
<1>9. Told'
  BY <1>1, <1>2, <1>4 DEF ConnInv, Told
<1>10. Signals'
  BY <1>1, <1>2, <1>4 DEF ConnInv, Signals, NoFlag
<1>11. Working'
  <2>1. Runs' = 1
    BY <1>2, <1>3 DEF Runs, One
  <2>2. One(async' # {}) = 0 /\ One(et'.timer) = 0
    BY <1>2, <1>3, <1>4 DEF One
  <2>3. s \notin Later \cup Errors \cup {"null", "resolve_cmodes", "resume_completed"}
    BY DEF Later, Errors
  <2> QED
    BY <1>1, <1>2, <1>3, <1>4, <2>1, <2>2, <2>3 DEF Working
<1> QED
  BY <1>5, <1>6, <1>7, <1>8, <1>9, <1>10, <1>11 DEF ConnInv

(* The first event of a connection, which starts the event thread.         *)
LEMMA FirstEvent ==
  ASSUME ConnInv, EventTaken, ~conn.disconnected, conn.connect \/ conn.key_exchange
  PROVE  /\ ~(conn.connect /\ conn.key_exchange) /\ ~conn.rekeying /\ ~et.started
         /\ Count(queue, "evfin") = 0 /\ calls = <<>> /\ Count(queue, "signal") = 0
<1>1. cpu = "conn" /\ machine.state = "run"
  BY DEF EventTaken
<1>2. Count(queue, "signal") = 0
  <2>1. One(cpu = "conn") = 1 /\ Count(queue, "signal") \in Nat
    BY <1>1, Types DEF One
  <2> QED
    BY <1>1, <2>1 DEF ConnInv, Signals
<1> QED
  BY <1>2 DEF ConnInv, Unstarted

(* st_run starts the event thread to connect ...                           *)
LEMMA EventConnectKeeps ==
  ASSUME ConnInv, EventConnect
  PROVE  ConnInv'
<1>1. /\ EventTaken /\ ~conn.disconnected /\ conn.connect
      /\ conn' = [conn EXCEPT !.connect = FALSE] /\ StartEvent("connect")
  BY DEF EventConnect
<1>2. /\ ~conn.key_exchange /\ ~conn.rekeying /\ ~et.started
      /\ Count(queue, "evfin") = 0 /\ calls = <<>> /\ Count(queue, "signal") = 0
  BY <1>1, FirstEvent
<1>3. /\ conn' \in Connections /\ ~conn'.connect /\ ~conn'.key_exchange /\ ~conn'.rekeying
      /\ conn'.disconnected = conn.disconnected /\ conn'.status = conn.status
      /\ conn'.callback = conn.callback /\ conn'.cop = conn.cop /\ conn'.op = conn.op
      /\ conn'.registering = conn.registering /\ conn'.auth_request = conn.auth_request
  BY <1>1, <1>2, Types DEF Connections
<1> QED
  BY <1>1, <1>2, <1>3, EventStarts

(* ... to exchange keys over a stream it was given ...                     *)
LEMMA EventKeyExchangeKeeps ==
  ASSUME ConnInv, EventKeyExchange
  PROVE  ConnInv'
<1>1. /\ EventTaken /\ ~conn.disconnected /\ ~conn.connect /\ conn.key_exchange
      /\ conn' = [conn EXCEPT !.key_exchange = FALSE] /\ StartEvent("set_stream")
  BY DEF EventKeyExchange
<1>2. /\ ~conn.rekeying /\ ~et.started
      /\ Count(queue, "evfin") = 0 /\ calls = <<>> /\ Count(queue, "signal") = 0
  BY <1>1, FirstEvent
<1>3. /\ conn' \in Connections /\ ~conn'.connect /\ ~conn'.key_exchange /\ ~conn'.rekeying
      /\ conn'.disconnected = conn.disconnected /\ conn'.status = conn.status
      /\ conn'.callback = conn.callback /\ conn'.cop = conn.cop /\ conn'.op = conn.op
      /\ conn'.registering = conn.registering /\ conn'.auth_request = conn.auth_request
  BY <1>1, <1>2, Types DEF Connections
<1> QED
  BY <1>1, <1>2, <1>3, EventStarts

(* ... and to rekey, after the finish of the thread that rekeyed before.   *)
LEMMA EventRekeyKeeps ==
  ASSUME ConnInv, EventRekey
  PROVE  ConnInv'
<1>1. /\ EventTaken /\ ~conn.disconnected /\ ~conn.connect /\ ~conn.key_exchange /\ conn.rekeying
      /\ conn' = [conn EXCEPT !.rekeying = FALSE] /\ StartEvent("rekey")
  BY DEF EventRekey
<1>2. cpu = "conn" /\ machine.state = "run"
  BY <1>1 DEF EventTaken
<1>3. ~et.started /\ Count(queue, "evfin") = 0
  BY <1>1, <1>2 DEF ConnInv, Working, Signals, NoFlag
<1>4. /\ conn' \in Connections /\ ~conn'.connect /\ ~conn'.key_exchange /\ ~conn'.rekeying
      /\ conn'.disconnected = conn.disconnected /\ conn'.status = conn.status
      /\ conn'.callback = conn.callback /\ conn'.cop = conn.cop /\ conn'.op = conn.op
      /\ conn'.registering = conn.registering /\ conn'.auth_request = conn.auth_request
  BY <1>1, Types DEF Connections
<1> QED
  BY <1>1, <1>3, <1>4, EventStarts

(* st_close with the machine at work: the connection is disconnected, no   *)
(* reply of a resume is awaited, and neither a signal nor a run is queued. *)
LEMMA InClose ==
  ASSUME ConnInv, cpu = "conn", machine.state = "close"
  PROVE  /\ conn.disconnected /\ cmds.resume = 0 /\ after = "idle" /\ ~machine.waiting
         /\ Count(queue, "signal") = 0 /\ Count(queue, "conn") = 0 /\ Count(queue, "fin") = 0
<1>1. conn.disconnected /\ after = "idle" /\ Count(queue, "fin") = 0
  BY DEF ConnInv, Starting, Control
<1>2. cmds.resume = 0
  BY <1>1 DEF ConnInv, Resting, Working
<1>3. One(cpu = "conn") = 1 /\ One(after = "yield") = 0 /\ Count(queue, "conn") \in Nat
  BY <1>1, Types DEF One
<1>4. ~machine.waiting /\ Count(queue, "signal") = 0 /\ Count(queue, "conn") = 0
  BY <1>3 DEF ConnInv, Closing
<1> QED
  BY <1>1, <1>2, <1>4

(* silc_client_connection_st_close with commands outstanding               *)
LEMMA CloseCommandsKeeps ==
  ASSUME ConnInv, CloseCommands
  PROVE  ConnInv'
<1>1. /\ cpu = "conn" /\ machine.state = "close" /\ cmds' = [cmds EXCEPT !.resume = 0, !.other = 0]
      /\ cpu' = "idle"
      /\ UNCHANGED <<params, conn, machine, threads, timers, async, stream, resume, after, calls>>
  BY DEF CloseCommands
<1>2. /\ conn.disconnected /\ cmds.resume = 0 /\ after = "idle" /\ ~machine.waiting
      /\ Count(queue, "signal") = 0 /\ Count(queue, "conn") = 0 /\ Count(queue, "fin") = 0
  BY <1>1, InClose
<1>3. /\ queue \in Seq(Tasks) /\ cmds \in [resume: Nat, other: Nat] /\ cmds.other \in Nat
      /\ threads \in Nat /\ \A t : Count(queue, t) \in Nat
  BY Types
<1>4. et' = et
  BY <1>2 DEF CloseCommands
<1> DEFINE p == queue \o [i \in 1..cmds.other |-> "cmdfin"]
<1>5. Extended(p, queue, "cmdfin", cmds.other)
  BY <1>3, Repeated DEF Tasks
<1>6. p \in Seq(Tasks)
  BY <1>5 DEF Extended
<1>7. queue' = p \o <<"conn">>
  <2>1. 2 * cmds.resume = 0 /\ ~(cmds.resume > 0)
    BY <1>2
  <2> DEFINE w(m) == [i \in 1..m |-> IF i % 2 = 1 THEN "event" ELSE "cmdfin"]
  <2>2. queue' = (IF cmds.resume > 0 THEN CancelRuns(queue) ELSE queue)
                   \o w(2 * cmds.resume) \o [i \in 1..cmds.other |-> "cmdfin"] \o <<"conn">>
    BY DEF CloseCommands
  <2>3. w(2 * cmds.resume) = w(0)
    BY <2>1
  <2>4. w(0) = <<>>
    OBVIOUS
  <2> HIDE DEF w
  <2>5. queue' = (queue \o <<>>) \o [i \in 1..cmds.other |-> "cmdfin"] \o <<"conn">>
    BY <2>1, <2>2, <2>3, <2>4
  <2>6. queue \o <<>> = queue
    BY <1>3
  <2> QED
    BY <2>5, <2>6
<1> HIDE DEF p
<1>8. Grown(queue', p, "conn")
  <2>1. queue' = Append(p, "conn")
    BY <1>6, <1>7
  <2> QED
    BY <1>6, <2>1, Pushed DEF Tasks
<1>9. /\ queue' \in Seq(Tasks)
      /\ Count(queue', "cmdfin") = Count(queue, "cmdfin") + cmds.other
      /\ Count(queue', "conn") = 1
      /\ \A t : t \notin {"cmdfin", "conn"} => Count(queue', t) = Count(queue, t)
  <2>1. /\ queue' \in Seq(Tasks) /\ \A t : Count(queue', t) = Count(p, t) + One(t = "conn")
    BY <1>8 DEF Grown
  <2>2. /\ Count(p, "cmdfin") = Count(queue, "cmdfin") + cmds.other
        /\ \A t : t # "cmdfin" => Count(p, t) = Count(queue, t)
    BY <1>5 DEF Extended
  <2>3. \A t : Count(p, t) \in Nat
    BY <1>6, Counting
  <2>4. Count(queue', "cmdfin") = Count(p, "cmdfin") + 0
    BY <2>1 DEF One
  <2>5. Count(queue', "conn") = 0 + 1
    BY <1>2, <2>1, <2>2 DEF One
  <2>6. ASSUME NEW t, t \notin {"cmdfin", "conn"} PROVE Count(queue', t) = Count(queue, t)
    <3>1. Count(queue', t) = Count(p, t) + 0
      BY <2>1, <2>6 DEF One
    <3> QED
      BY <2>2, <2>3, <2>6, <3>1
  <2> QED
    BY <2>1, <2>2, <2>3, <2>4, <2>5, <2>6
<1>10. cmds' \in [resume: Nat, other: Nat] /\ cmds'.resume = 0 /\ cmds'.other = 0
  BY <1>1, <1>3
<1>11. Typed' /\ Abortable' /\ Unstarted' /\ Told'
  BY <1>1, <1>4, <1>9, <1>10 DEF ConnInv, Typed, Abortable, Unstarted, Told
<1>12. Counted'
  <2>1. threads = One(et.started) + Count(queue, "evfin") + Count(queue, "cmdfin")
                    + cmds.resume + cmds.other
    BY DEF ConnInv, Counted
  <2>2. One(et.started) \in Nat /\ Count(queue, "evfin") \in Nat /\ Count(queue, "cmdfin") \in Nat
    BY <1>3 DEF One
  <2>3. /\ Count(queue', "evfin") = Count(queue, "evfin")
        /\ Count(queue', "cmdfin") = Count(queue, "cmdfin") + cmds.other
        /\ cmds.other \in Nat /\ cmds.resume = 0 /\ cmds'.resume = 0 /\ cmds'.other = 0
    BY <1>2, <1>3, <1>9, <1>10
  <2>4. threads = One(et.started) + Count(queue', "evfin") + Count(queue', "cmdfin")
                    + cmds'.resume + cmds'.other
    BY ONLY <2>1, <2>2, <2>3
  <2> QED
    BY <1>1, <1>4, <2>4 DEF Counted
<1>13. Working' /\ Resting'
  <2>1. Alone
    BY <1>1, <1>2, <1>4, <1>9, <1>10 DEF Alone, ConnInv, Working
  <2> QED
    BY <2>1, AloneKeeps
<1>14. Starting' /\ Control'
  BY <1>1, <1>2, <1>9 DEF ConnInv, Starting, Control
<1>15. Ended' /\ Signals'
  BY <1>1 DEF Ended, Signals
<1>16. Closing'
  <2>1. One(cpu' = "conn") = 0 /\ One(after' = "yield") = 0 /\ Count(queue', "signal") = 0
    BY <1>1, <1>2, <1>9 DEF One
  <2>2. NoAfter(queue', "conn", "signal")
    BY <1>9, <2>1, NoneAfter
  <2> QED
    BY <1>1, <1>2, <1>9, <2>1, <2>2 DEF Closing
<1> QED
  BY <1>11, <1>12, <1>13, <1>14, <1>15, <1>16 DEF ConnInv

(* The rest of st_close: the machine finishes.                             *)
LEMMA CloseFinishKeeps ==
  ASSUME ConnInv, CloseFinish
  PROVE  ConnInv'
<1>1. /\ cpu = "conn" /\ machine.state = "close" /\ cmds.resume + cmds.other = 0 /\ ~et.started
      /\ async' = async \ {conn.op} /\ conn' = [conn EXCEPT !.op = "none"]
      /\ calls' = IF conn.callback THEN Append(calls, conn.status) ELSE calls
      /\ stream' = IF stream = "none" THEN "none" ELSE "destroyed"
      /\ machine' = [machine EXCEPT !.state = "finished"]
      /\ queue' = Append(queue, "fin") /\ cpu' = "idle"
      /\ UNCHANGED <<params, et, threads, timers, cmds, resume, after>>
  BY DEF CloseFinish, CloseReady, AbortOp
<1>2. /\ conn.disconnected /\ cmds.resume = 0 /\ after = "idle" /\ ~machine.waiting
      /\ Count(queue, "signal") = 0 /\ Count(queue, "conn") = 0 /\ Count(queue, "fin") = 0
  BY <1>1, InClose
<1>3. cmds.other = 0 /\ \A t : Count(queue, t) \in Nat
  BY <1>1, <1>2, Types
<1>4. /\ conn' \in Connections /\ FlagsKept /\ conn'.op = "none" /\ conn'.status = conn.status
  BY <1>1, Types DEF Connections, FlagsKept
<1>5. Grown(queue', queue, "fin")
  BY <1>1, Types, Pushed DEF Tasks
<1>6. More("fin")
  BY <1>5, Added
<1>7. /\ queue' \in Seq(Tasks) /\ \A t : t # "fin" => Count(queue', t) = Count(queue, t)
  BY <1>6 DEF More
<1>8. \A t \in Tasks \ {"poll"} : NoAfter(queue', "fin", t)
  <2>1. \A t : NoAfter(queue, "fin", t)
    BY <1>2, Types, NoneAfter
  <2> QED
    BY <1>2, <1>5, <2>1 DEF Grown
<1>9. machine' \in Machines /\ machine'.state = "finished" /\ ~machine'.waiting
  <2>1. machine \in Machines
    BY DEF ConnInv, Typed
  <2> QED
    BY <1>1, <1>2, <2>1 DEF Machines
<1>10. stream' \in {"none", "destroyed"} /\ async' \subseteq {"answer"}
  BY <1>1 DEF ConnInv, Abortable
<1>11. calls' \in Seq(Statuses)
  <2>1. conn.status \in Statuses /\ calls \in Seq(Statuses)
    BY DEF ConnInv, Typed, Connections
  <2> QED
    BY <1>1, <2>1
<1>12. Typed' /\ Abortable'
  <2>1. async' \subseteq async
    BY <1>1
  <2> QED
    BY <1>1, <1>4, <1>7, <1>9, <1>10, <1>11, <2>1 DEF ConnInv, Typed, Abortable
<1>13. Counted'
  BY <1>1, <1>7 DEF ConnInv, Counted
<1>14. Resting' /\ Working'
  BY <1>1, <1>2, <1>4, <1>7 DEF ConnInv, Resting, Working, FlagsKept
<1>15. Unstarted'
  BY <1>1, <1>2, <1>4, <1>7, <1>10 DEF ConnInv, Unstarted, FlagsKept
<1>16. Told'
  BY <1>1, <1>4, <1>9 DEF ConnInv, Told, FlagsKept
<1>17. Starting' /\ Control' /\ Closing' /\ Signals'
  BY <1>1, <1>2, <1>4, <1>7, <1>9 DEF ConnInv, Starting, Control, Closing, Signals, FlagsKept
<1>18. Ended'
  BY <1>1, <1>2, <1>3, <1>7, <1>8, <1>9, <1>10 DEF Ended
<1> QED
  BY <1>12, <1>13, <1>14, <1>15, <1>16, <1>17, <1>18 DEF ConnInv

(* silc_client_del_connection                                              *)
LEMMA DestroyKeeps ==
  ASSUME ConnInv, Destroy
  PROVE  ConnInv'
<1> DEFINE r == Tail(queue)
<1>1. /\ Dispatch("fin") /\ machine' = [machine EXCEPT !.state = "deleted"]
      /\ timers' = [connect |-> FALSE, rekey |-> FALSE] /\ queue' = Append(r, "thrfin")
      /\ UNCHANGED <<params, conn, et, threads, async, cmds, stream, resume, cpu, after, calls>>
  BY DEF Destroy
<1>2. cpu = "idle" /\ after = "idle" /\ Shrunk(r, queue, "fin") /\ Count(queue, "fin") > 0
  BY <1>1, Dispatched
<1> HIDE DEF r
<1>3. machine.state = "finished" /\ conn.disconnected
  BY <1>2 DEF ConnInv, Control, Starting
<1>4. /\ ~machine.waiting /\ ~et.started /\ cmds.resume = 0 /\ cmds.other = 0
      /\ async \subseteq {"answer"} /\ stream \in {"none", "destroyed"}
      /\ \A t \in Tasks \ {"poll"} : NoAfter(queue, "fin", t)
  BY <1>3 DEF ConnInv, Ended
<1>5. r \in Seq(Tasks) /\ \A t \in Tasks \ {"poll"} : Count(r, t) = 0
  BY <1>2, <1>4 DEF Shrunk
<1>6. Grown(queue', r, "thrfin")
  BY <1>1, <1>5, Pushed DEF Tasks
<1>7. /\ queue' \in Seq(Tasks) /\ \A t : Count(queue', t) = Count(r, t) + One(t = "thrfin")
  BY <1>6 DEF Grown
<1>8. ASSUME NEW t, t \notin {"thrfin", "fin"} PROVE Count(queue', t) = Count(queue, t)
  <2>1. Count(queue', t) = Count(r, t) + 0 /\ Count(queue, t) = Count(r, t) + 0
    BY <1>2, <1>7, <1>8 DEF Shrunk, One
  <2> QED
    BY <2>1
<1>9. \A t \in Tasks \ {"thrfin", "poll"} : Count(queue', t) = 0
  BY <1>5, <1>7 DEF One
<1>10. machine' \in Machines /\ machine'.state = "deleted" /\ ~machine'.waiting
  <2>1. machine \in Machines
    BY DEF ConnInv, Typed
  <2> QED
    BY <1>1, <1>4, <2>1 DEF Machines
<1>11. timers' \in [connect: BOOLEAN, rekey: BOOLEAN] /\ ~timers'.connect /\ ~timers'.rekey
  BY <1>1
<1>12. Typed' /\ Abortable'
  BY <1>1, <1>7, <1>10, <1>11 DEF ConnInv, Typed, Abortable
<1>13. Counted'
  BY <1>1, <1>8 DEF ConnInv, Counted
<1>14. Resting' /\ Working'
  BY <1>1, <1>3, <1>4, <1>8 DEF ConnInv, Resting, Working
<1>15. Unstarted' /\ Told'
  BY <1>1, <1>3, <1>4, <1>8, <1>10, <1>11 DEF ConnInv, Unstarted, Told
<1>16. Starting' /\ Control' /\ Closing' /\ Signals'
  <2>1. Count(queue', "start") = 0 /\ Count(queue', "conn") = 0 /\ Count(queue', "fin") = 0
        /\ Count(queue', "poll") = 1
    BY <1>8, <1>9 DEF ConnInv, Starting, Tasks
  <2> QED
    BY <1>1, <1>2, <1>3, <1>10, <2>1 DEF Starting, Control, Closing, Signals
<1>17. Ended'
  BY <1>1, <1>2, <1>4, <1>9, <1>10, <1>11 DEF Ended, Tasks
<1> QED
  BY <1>12, <1>13, <1>14, <1>15, <1>16, <1>17 DEF ConnInv

(* silc_client_connection_finished                                         *)
LEMMA FinishedKeeps ==
  ASSUME ConnInv, Finished
  PROVE  ConnInv'
<1>1. /\ Dispatch("thrfin") /\ machine' = [machine EXCEPT !.state = "gone"] /\ queue' = Tail(queue)
      /\ UNCHANGED <<params, conn, et, threads, timers, async, cmds, stream, resume, cpu, after,
                     calls>>
  BY DEF Finished
<1>2. Less("thrfin") /\ cpu = "idle" /\ after = "idle" /\ Count(queue, "thrfin") > 0
  BY <1>1, Taken
<1>3. machine.state \in {"deleted", "gone"} /\ conn.disconnected
  BY <1>2 DEF ConnInv, Control, Starting
<1>4. /\ queue' \in Seq(Tasks) /\ \A t : t # "thrfin" => Count(queue', t) = Count(queue, t)
  BY <1>2 DEF Less
<1>5. /\ ~machine.waiting /\ ~et.started /\ ~timers.connect /\ ~timers.rekey
      /\ \A t \in Tasks \ {"thrfin", "poll"} : Count(queue, t) = 0
  BY <1>3 DEF ConnInv, Ended
<1>6. machine' \in Machines /\ machine'.state = "gone" /\ ~machine'.waiting
  <2>1. machine \in Machines
    BY DEF ConnInv, Typed
  <2> QED
    BY <1>1, <1>5, <2>1 DEF Machines
<1>7. Typed' /\ Abortable'
  BY <1>1, <1>4, <1>6 DEF ConnInv, Typed, Abortable
<1>8. Counted'
  BY <1>1, <1>4 DEF ConnInv, Counted
<1>9. Resting' /\ Working'
  BY <1>1, <1>3, <1>4, <1>5 DEF ConnInv, Resting, Working
<1>10. Unstarted' /\ Told'
  BY <1>1, <1>3, <1>4, <1>5, <1>6 DEF ConnInv, Unstarted, Told
<1>11. Starting' /\ Control' /\ Closing' /\ Signals'
  BY <1>1, <1>2, <1>3, <1>4, <1>6 DEF ConnInv, Starting, Control, Closing, Signals
<1>12. Ended'
  BY <1>1, <1>3, <1>4, <1>5, <1>6 DEF ConnInv, Ended
<1> QED
  BY <1>7, <1>8, <1>9, <1>10, <1>11, <1>12 DEF ConnInv

(* silc_fsm_finish_fsm of the event thread                                 *)
LEMMA FinishEventThreadKeeps ==
  ASSUME ConnInv, FinishEventThread
  PROVE  ConnInv'
<1>1. /\ Dispatch("evfin") /\ et' = [et EXCEPT !.state = "null"] /\ threads' = threads - 1
      /\ queue' = Tail(queue)
      /\ UNCHANGED <<params, conn, machine, timers, async, cmds, stream, resume, cpu, after, calls>>
  BY DEF FinishEventThread
<1>2. Less("evfin") /\ cpu = "idle" /\ after = "idle" /\ Count(queue, "evfin") > 0
  BY <1>1, Taken
<1>3. /\ queue' \in Seq(Tasks)
      /\ Count(queue', "evfin") = Count(queue, "evfin") - 1 /\ Count(queue', "evfin") \in Nat
      /\ \A t : t # "evfin" => Count(queue', t) = Count(queue, t)
      /\ \A x, t : NoAfter(queue, x, t) => NoAfter(queue', x, t)
  BY <1>2 DEF Less
<1>4. ~et.started /\ ~conn.connect /\ ~conn.key_exchange
  BY <1>2 DEF ConnInv, Working, Unstarted
<1>5. machine.state \notin {"none", "deleted", "gone"}
  <2>1. machine.state # "none"
    BY <1>1, UpWhenTaken
  <2>2. machine.state \notin {"deleted", "gone"}
    BY <1>2 DEF ConnInv, Ended, Tasks
  <2> QED
    BY <2>1, <2>2
<1>6. et' \in EventThreads /\ ~et'.started /\ et'.timer = et.timer
  BY <1>1, <1>4, Types DEF EventThreads, EventStates
<1>7. Typed' /\ Abortable'
  BY <1>1, <1>3, <1>6 DEF ConnInv, Typed, Abortable
<1>8. Counted'
  <2>1. /\ threads = One(et.started) + Count(queue, "evfin") + Count(queue, "cmdfin")
                    + cmds.resume + cmds.other
    BY DEF ConnInv, Counted
  <2>2. /\ One(et.started) = 0 /\ One(et'.started) = 0 /\ Count(queue, "evfin") \in Nat
        /\ Count(queue, "cmdfin") \in Nat /\ cmds.resume \in Nat /\ cmds.other \in Nat
        /\ threads' = threads - 1 /\ Count(queue', "evfin") = Count(queue, "evfin") - 1
        /\ Count(queue', "cmdfin") = Count(queue, "cmdfin")
    BY <1>1, <1>3, <1>4, <1>6, Types DEF One
  <2>3. threads' = One(et'.started) + Count(queue', "evfin") + Count(queue', "cmdfin")
                     + cmds.resume + cmds.other
    BY ONLY <2>1, <2>2
  <2> QED
    BY <1>1, <2>3 DEF Counted
<1>9. Resting' /\ Working' /\ Unstarted'
  BY <1>1, <1>3, <1>4, <1>6 DEF ConnInv, Resting, Working, Unstarted
<1>10. Starting' /\ Control' /\ Closing'
  BY <1>1, <1>3, <1>5 DEF ConnInv, Starting, Control, Closing
<1>11. Ended'
  BY <1>1, <1>3, <1>5, <1>6 DEF ConnInv, Ended
<1>12. Signals'
  BY <1>1, <1>2, <1>3, <1>4, <1>6 DEF ConnInv, Signals, NoFlag
<1>13. Told'
  BY <1>1, <1>6 DEF ConnInv, Told
<1> QED
  BY <1>7, <1>8, <1>9, <1>10, <1>11, <1>12, <1>13 DEF ConnInv

(* silc_fsm_finish_fsm of a command thread                                 *)
LEMMA FinishCommandThreadKeeps ==
  ASSUME ConnInv, FinishCommandThread
  PROVE  ConnInv'
<1>1. /\ Dispatch("cmdfin") /\ threads' = threads - 1 /\ queue' = Tail(queue)
      /\ UNCHANGED <<params, conn, machine, et, timers, async, cmds, stream, resume, cpu, after,
                     calls>>
  BY DEF FinishCommandThread
<1>2. Less("cmdfin") /\ cpu = "idle" /\ after = "idle" /\ Count(queue, "cmdfin") > 0
  BY <1>1, Taken
<1>3. /\ queue' \in Seq(Tasks)
      /\ Count(queue', "cmdfin") = Count(queue, "cmdfin") - 1 /\ Count(queue', "cmdfin") \in Nat
      /\ \A t : t # "cmdfin" => Count(queue', t) = Count(queue, t)
      /\ \A x, t : NoAfter(queue, x, t) => NoAfter(queue', x, t)
  BY <1>2 DEF Less
<1>4. machine.state \notin {"none", "deleted", "gone"}
  <2>1. machine.state # "none"
    BY <1>1, UpWhenTaken
  <2>2. machine.state \notin {"deleted", "gone"}
    BY <1>2 DEF ConnInv, Ended, Tasks
  <2> QED
    BY <2>1, <2>2
<1>5. Typed' /\ Abortable' /\ Unstarted' /\ Told'
  BY <1>1, <1>3 DEF ConnInv, Typed, Abortable, Unstarted, Told
<1>6. Counted'
  <2>1. /\ threads = One(et.started) + Count(queue, "evfin") + Count(queue, "cmdfin")
                    + cmds.resume + cmds.other
    BY DEF ConnInv, Counted
  <2>2. /\ One(et.started) \in Nat /\ Count(queue, "evfin") \in Nat
        /\ Count(queue, "cmdfin") \in Nat /\ cmds.resume \in Nat /\ cmds.other \in Nat
        /\ threads' = threads - 1 /\ Count(queue', "cmdfin") = Count(queue, "cmdfin") - 1
        /\ Count(queue', "evfin") = Count(queue, "evfin")
    BY <1>1, <1>3, Types DEF One
  <2>3. threads' = One(et.started) + Count(queue', "evfin") + Count(queue', "cmdfin")
                     + cmds.resume + cmds.other
    BY ONLY <2>1, <2>2
  <2> QED
    BY <1>1, <2>3 DEF Counted
<1>7. Working' /\ Resting'
  <2>1. Alone
    BY <1>1, <1>2, <1>3 DEF Alone, ConnInv, Working
  <2> QED
    BY <2>1, AloneKeeps
<1>8. Starting' /\ Control' /\ Closing'
  BY <1>1, <1>3, <1>4 DEF ConnInv, Starting, Control, Closing
<1>9. Ended'
  BY <1>1, <1>3, <1>4 DEF ConnInv, Ended
<1>10. Signals'
  BY <1>1, <1>3 DEF ConnInv, Signals, NoFlag
<1> QED
  BY <1>5, <1>6, <1>7, <1>8, <1>9, <1>10 DEF ConnInv

(* SILC_FSM_EVENT_SIGNAL, at most once, and the signal it queues.          *)
LEMMA SignalQueued ==
  ASSUME ConnInv, NEW n \in {0, 1}, Signal(n)
  PROVE  /\ machine' \in Machines /\ machine'.state = machine.state
         /\ machine'.waiting = machine.waiting
<1>1. machine \in Machines /\ machine' = [machine EXCEPT !.value = @ + n]
  BY DEF ConnInv, Typed, Signal
<1> DEFINE v == machine.value + n
<1>2. v \in Nat
  BY <1>1 DEF Machines
<1>3. machine' = [machine EXCEPT !.value = v]
  BY <1>1
<1> HIDE DEF v
<1> QED
  BY <1>1, <1>2, <1>3 DEF Machines

(* A signal is queued, or not.                                             *)
MaybeSignalled ==
  /\ queue' \in Seq(Tasks)
  /\ ~machine.waiting => queue' = queue
  /\ \A t : t # "signal" => Count(queue', t) = Count(queue, t)
  /\ \A x, t : t # "signal" /\ NoAfter(queue, x, t) => NoAfter(queue', x, t)

(* A machine that waits is sent a signal, another one is not.              *)
LEMMA SignalAdded ==
  ASSUME ConnInv, NEW n \in {0, 1}, queue' = queue \o SignalTasks(n)
  PROVE  MaybeSignalled
<1>1. Typed /\ queue \in Seq(Tasks) /\ \A t : Count(queue, t) \in Nat
  BY Types
<1>2. /\ machine.waiting /\ n = 1 => Grown(queue', queue, "signal")
      /\ ~machine.waiting \/ n = 0 => queue' = queue
      /\ queue' \in Seq(Tasks)
  BY <1>1, Signalled
<1>3. CASE ~machine.waiting \/ n = 0
  BY <1>2, <1>3 DEF MaybeSignalled
<1>4. CASE machine.waiting /\ n = 1
  BY <1>2, <1>4, Added DEF More, MaybeSignalled
<1> QED
  BY <1>3, <1>4

(* The connection is asked to close: the flag is set and its machine       *)
(* signalled, unless it is not up yet.                                     *)
Disconnects ==
  /\ cpu = "idle" /\ cmds.resume = 0
  /\ conn' \in Connections /\ conn'.disconnected
  /\ conn'.connect = conn.connect /\ conn'.key_exchange = conn.key_exchange
  /\ conn'.rekeying = conn.rekeying /\ conn'.local_id = conn.local_id /\ conn'.op = conn.op
  /\ conn'.registering = conn.registering /\ conn'.auth_request = conn.auth_request
  /\ conn'.callback => Bad(conn'.status)
  /\ conn'.cop => conn.cop /\ conn'.callback = conn.callback
  /\ machine' \in Machines /\ machine'.state = machine.state /\ machine'.waiting = machine.waiting
  /\ MaybeSignalled
  /\ machine.state = "none" => machine' = machine /\ queue' = queue
  /\ stream' \in {"none", "open", "eos", "destroyed"}
  /\ stream \in {"none", "destroyed"} => stream' = stream
  /\ UNCHANGED <<params, et, threads, timers, async, cmds, resume, cpu, after, calls>>

(* The request to close keeps the invariant in every state of the machine. *)
LEMMA DisconnectsKeeps ==
  ASSUME ConnInv, Disconnects
  PROVE  ConnInv'
<1>1. /\ queue' \in Seq(Tasks) /\ after = "idle"
      /\ ~machine.waiting => queue' = queue
      /\ \A t : t # "signal" => Count(queue', t) = Count(queue, t)
  BY DEF Disconnects, MaybeSignalled, ConnInv, Control
<1>2. Typed' /\ Abortable'
  BY <1>1 DEF ConnInv, Typed, Abortable, Disconnects
<1>3. Counted'
  BY <1>1 DEF ConnInv, Counted, Disconnects
<1>4. Unstarted' /\ Told'
  BY <1>1 DEF ConnInv, Unstarted, Told, Disconnects
<1>5. Working' /\ Resting'
  <2>1. Alone
    BY <1>1 DEF Alone, ConnInv, Working, Disconnects
  <2> QED
    BY <2>1, AloneKeeps
<1>6. Starting' /\ Control'
  BY <1>1 DEF ConnInv, Starting, Control, Disconnects
<1>7. Closing'
  <2>1. machine.state = "close" => queue' = queue
    BY <1>1 DEF ConnInv, Closing
  <2> QED
    BY <1>1, <2>1 DEF ConnInv, Closing, Disconnects
<1>8. Ended'
  <2>1. machine.state \in {"finished", "deleted", "gone"} => queue' = queue
    BY <1>1 DEF ConnInv, Ended
  <2> QED
    BY <1>1, <2>1 DEF ConnInv, Ended, Disconnects
<1>9. Signals'
  BY DEF Signals, Disconnects
<1> QED
  BY <1>2, <1>3, <1>4, <1>5, <1>6, <1>7, <1>8, <1>9 DEF ConnInv

(* A connection that is up, or has a stream, has been started.             *)
LEMMA Receiving ==
  ASSUME ConnInv, Receives
  PROVE  /\ machine.state \in {"run", "close"} /\ Dispatch("poll") /\ cpu = "idle"
         /\ stream = "open" /\ ~conn.connect /\ ~conn.key_exchange
<1>1. stream = "open" /\ Dispatch("poll") /\ cpu = "idle"
  BY DEF Receives, AtSelect, Dispatch, Idle
<1>2. ~conn.connect /\ ~conn.key_exchange
  BY <1>1 DEF ConnInv, Unstarted
<1>3. machine.state \notin {"none", "finished", "deleted", "gone"}
  BY <1>1, <1>2 DEF ConnInv, Starting, Ended
<1> QED
  BY <1>1, <1>2, <1>3 DEF ConnInv, Typed, Machines

(* silc_client_disconnect, silc_client_packet_eos and                      *)
(* silc_client_close_connection                                            *)
LEMMA CloseRequestedKeeps ==
  ASSUME ConnInv, cmds.resume = 0, CloseRequested, cpu = "idle", machine.state \in {"run", "close"},
         stream' = stream \/ (stream' = "eos" /\ stream = "open")
  PROVE  ConnInv'
<1>1. /\ cmds.resume = 0
      /\ conn' = [conn EXCEPT !.disconnected = TRUE, !.status = "disconnected"]
      /\ Signal(CloseSignals) /\ queue' = queue \o SignalTasks(CloseSignals)
      /\ UNCHANGED <<params, et, threads, timers, async, cmds, resume, cpu, after, calls>>
  BY DEF CloseRequested, CloseTasks
<1>2. CloseSignals \in {0, 1}
  BY DEF CloseSignals
<1>3. /\ machine' \in Machines /\ machine'.state = machine.state
      /\ machine'.waiting = machine.waiting
  BY <1>1, <1>2, SignalQueued
<1>4. MaybeSignalled
  BY <1>1, <1>2, SignalAdded
<1>5. /\ conn' \in Connections /\ conn'.disconnected
      /\ conn'.connect = conn.connect /\ conn'.key_exchange = conn.key_exchange
      /\ conn'.rekeying = conn.rekeying /\ conn'.local_id = conn.local_id /\ conn'.op = conn.op
      /\ conn'.registering = conn.registering /\ conn'.auth_request = conn.auth_request
      /\ conn'.status = "disconnected" /\ conn'.cop = conn.cop /\ conn'.callback = conn.callback
  BY <1>1, Types DEF Connections, Statuses
<1>6. stream' \in {"none", "open", "eos", "destroyed"}
      /\ (stream \in {"none", "destroyed"} => stream' = stream)
  BY Types
<1>7. Disconnects
  BY <1>1, <1>3, <1>4, <1>5, <1>6 DEF Disconnects, Bad
<1> QED
  BY <1>7, DisconnectsKeeps

(* silc_client_disconnect                                                  *)
LEMMA DisconnectPacketKeeps ==
  ASSUME ConnInv, cmds.resume = 0, DisconnectPacket
  PROVE  ConnInv'
BY Receiving, CloseRequestedKeeps DEF DisconnectPacket

(* silc_client_packet_eos                                                  *)
LEMMA EndOfStreamKeeps ==
  ASSUME ConnInv, cmds.resume = 0, EndOfStream
  PROVE  ConnInv'
BY Receiving, CloseRequestedKeeps DEF EndOfStream

(* silc_client_close_connection                                            *)
LEMMA CloseKeeps ==
  ASSUME ConnInv, cmds.resume = 0, Close
  PROVE  ConnInv'
BY CloseRequestedKeeps DEF Close, Idle, Up

(* silc_client_connect_abort                                               *)
LEMMA AbortKeeps ==
  ASSUME ConnInv, cmds.resume = 0, Abort
  PROVE  ConnInv'
<1>1. /\ cpu = "idle" /\ cmds.resume = 0
      /\ conn' = [conn EXCEPT !.callback = FALSE, !.cop = FALSE, !.disconnected = TRUE]
      /\ UNCHANGED <<params, et, threads, timers, async, cmds, stream, resume, cpu, after, calls>>
  BY DEF Abort, Idle
<1>2. /\ machine' \in Machines /\ machine'.state = machine.state
      /\ machine'.waiting = machine.waiting /\ MaybeSignalled
      /\ machine.state = "none" => machine' = machine /\ queue' = queue
  <2>1. CASE Up
    <3>1. Signal(CloseSignals) /\ queue' = queue \o SignalTasks(CloseSignals)
      BY <2>1 DEF Abort, CloseTasks
    <3>2. CloseSignals \in {0, 1}
      BY DEF CloseSignals
    <3> QED
      BY <2>1, <3>1, <3>2, SignalQueued, SignalAdded DEF Up
  <2>2. CASE ~Up
    <3>1. UNCHANGED <<machine, queue>>
      BY <2>2 DEF Abort
    <3>2. machine \in Machines /\ queue \in Seq(Tasks)
      BY DEF ConnInv, Typed
    <3> QED
      BY <3>1, <3>2 DEF MaybeSignalled
  <2> QED
    BY <2>1, <2>2
<1>3. /\ conn' \in Connections /\ conn'.disconnected
      /\ conn'.connect = conn.connect /\ conn'.key_exchange = conn.key_exchange
      /\ conn'.rekeying = conn.rekeying /\ conn'.local_id = conn.local_id /\ conn'.op = conn.op
      /\ conn'.registering = conn.registering /\ conn'.auth_request = conn.auth_request
      /\ ~conn'.cop /\ ~conn'.callback
  BY <1>1, Types DEF Connections
<1>4. stream' = stream /\ stream \in {"none", "open", "eos", "destroyed"}
  BY <1>1, Types
<1>5. Disconnects
  BY <1>1, <1>2, <1>3, <1>4 DEF Disconnects
<1> QED
  BY <1>5, DisconnectsKeeps

(* A rekey is asked for, while the event thread is not at work.            *)
LEMMA RequestRekeyKeeps ==
  ASSUME ConnInv, NEW responder \in BOOLEAN, RequestRekey(responder), cpu = "idle", ~et.started,
         ~conn.connect, ~conn.key_exchange, machine.state # "none",
         machine.state = "run" /\ ~conn.disconnected => NoAfter(queue, "signal", "poll"),
         UNCHANGED <<params, et, threads, timers, async, cmds, stream, resume, cpu, after, calls>>
  PROVE  ConnInv'
<1>1. /\ conn' = [conn EXCEPT !.rekeying = TRUE, !.responder = responder]
      /\ Signal(1) /\ queue' = queue \o SignalTasks(1)
  BY DEF RequestRekey
<1>2. /\ machine' \in Machines /\ machine'.state = machine.state
      /\ machine'.waiting = machine.waiting /\ MaybeSignalled
  BY <1>1, SignalQueued, SignalAdded
<1>3. /\ conn' \in Connections /\ conn'.rekeying
      /\ conn'.disconnected = conn.disconnected /\ conn'.status = conn.status
      /\ conn'.connect = conn.connect /\ conn'.key_exchange = conn.key_exchange
      /\ conn'.local_id = conn.local_id /\ conn'.op = conn.op
      /\ conn'.registering = conn.registering /\ conn'.auth_request = conn.auth_request
      /\ conn'.cop = conn.cop /\ conn'.callback = conn.callback
  BY <1>1, Types DEF Connections
<1>4. /\ queue' \in Seq(Tasks) /\ after = "idle"
      /\ ~machine.waiting => queue' = queue
      /\ \A t : t # "signal" => Count(queue', t) = Count(queue, t)
      /\ \A x, t : t # "signal" /\ NoAfter(queue, x, t) => NoAfter(queue', x, t)
  BY <1>2 DEF MaybeSignalled, ConnInv, Control
<1>5. Typed' /\ Abortable'
  BY <1>2, <1>3, <1>4 DEF ConnInv, Typed, Abortable
<1>6. Counted'
  BY <1>4 DEF ConnInv, Counted
<1>7. Unstarted' /\ Told'
  BY <1>2, <1>3 DEF ConnInv, Unstarted, Told
<1>8. Working' /\ Resting'
  <2>1. Alone
    BY <1>3, <1>4 DEF Alone
  <2> QED
    BY <2>1, AloneKeeps
<1>9. Starting' /\ Control'
  BY <1>2, <1>3, <1>4 DEF ConnInv, Starting, Control
<1>10. Closing'
  <2>1. machine.state = "close" => queue' = queue
    BY <1>4 DEF ConnInv, Closing
  <2> QED
    BY <1>2, <1>4, <2>1 DEF ConnInv, Closing
<1>11. Ended'
  <2>1. machine.state \in {"finished", "deleted", "gone"} => queue' = queue
    BY <1>4 DEF ConnInv, Ended
  <2> QED
    BY <1>2, <1>4, <2>1 DEF ConnInv, Ended
<1>12. Signals'
  BY <1>2, <1>3, <1>4 DEF ConnInv, Signals, NoFlag
<1> QED
  BY <1>5, <1>6, <1>7, <1>8, <1>9, <1>10, <1>11, <1>12 DEF ConnInv

(* silc_client_rekey_timer                                                 *)
LEMMA RekeyTimerKeeps ==
  ASSUME ConnInv, ~Rekeyed, RekeyTimer
  PROVE  ConnInv'
<1>1. /\ cpu = "idle" /\ timers.rekey /\ ~et.started /\ ~conn.rekeying /\ ~RekeyJustWas
      /\ RequestRekey(FALSE)
      /\ UNCHANGED <<params, et, threads, timers, async, cmds, stream, resume, cpu, after, calls>>
  BY DEF RekeyTimer, Rekeyed, Idle
<1>2. ~conn.connect /\ ~conn.key_exchange
  BY <1>1 DEF ConnInv, Unstarted
<1>3. machine.state # "none"
  BY <1>2 DEF ConnInv, Starting
<1>4. ASSUME machine.state = "run", ~conn.disconnected PROVE NoAfter(queue, "signal", "poll")
  <2>1. machine.value = 0
    <3>1. after = "idle" /\ machine.value \in Nat
      BY <1>1 DEF ConnInv, Control, Typed, Machines
    <3>2. ~(machine.value > 0)
      BY <1>1, <1>2, <1>4, <3>1 DEF ConnInv, Signals, NoFlag
    <3> QED
      BY <3>1, <3>2
  <2>2. "signal" \notin {queue[i] : i \in 1..Len(queue)}
    <3>1. queue \in Seq(Tasks)
      BY Types
    <3>2. Range(queue) = {queue[i] : i \in 1..Len(queue)}
      BY <3>1 DEF Range
    <3> QED
      BY <1>1, <2>1, <3>2 DEF RekeyJustWas
  <2>3. Count(queue, "signal") = 0
    BY <2>2, Types, Counting
  <2> QED
    BY <2>3, Types, NoneAfter
<1> QED
  BY <1>1, <1>2, <1>3, <1>4, RequestRekeyKeeps

(* The tasks behind the select when no flag is set: none is a signal.      *)
LEMMA NoneSignalled ==
  ASSUME ConnInv, Dispatch("poll"), NoAfter(queue, "poll", "signal")
  PROVE  Count(queue, "signal") = 0
<1>1. Shrunk(Tail(queue), queue, "poll")
  BY Dispatched
<1>2. Count(Tail(queue), "signal") = 0
  BY <1>1 DEF Shrunk
<1>3. Count(queue, "signal") = Count(Tail(queue), "signal") + 0
  BY <1>1 DEF Shrunk, One
<1> QED
  BY <1>2, <1>3

(* silc_client_connection_st_packet, with a REKEY                          *)
LEMMA RekeyPacketKeeps ==
  ASSUME ConnInv, ~et.started, RekeyPacket
  PROVE  ConnInv'
<1>1. /\ Receives /\ ~et.started /\ RequestRekey(TRUE)
      /\ UNCHANGED <<params, et, threads, timers, async, cmds, stream, resume, cpu, after, calls>>
  BY DEF RekeyPacket
<1>2. /\ machine.state \in {"run", "close"} /\ Dispatch("poll") /\ cpu = "idle"
      /\ ~conn.connect /\ ~conn.key_exchange
  BY <1>1, Receiving
<1>3. ASSUME machine.state = "run", ~conn.disconnected PROVE NoAfter(queue, "signal", "poll")
  <2>1. CASE NoAfter(queue, "poll", "signal")
    <3>1. Count(queue, "signal") = 0
      BY <1>2, <2>1, NoneSignalled
    <3> QED
      BY <3>1, Types, NoneAfter
  <2> QED
    BY <1>3, <2>1 DEF ConnInv, Signals
<1> QED
  BY <1>1, <1>2, <1>3, RequestRekeyKeeps

(* What silc_fsm_finish leaves of the event thread.                        *)
LEMMA FinishedThreadLeft ==
  ASSUME ConnInv, et' = FinishedThread
  PROVE  et' \in EventThreads /\ ~et'.started /\ et'.finished /\ ~et'.timer
<1> DEFINE s == IF et.sync THEN "null" ELSE et.state
<1>1. et \in EventThreads
  BY Types
<1>2. s \in EventStates
  BY <1>1 DEF EventThreads, EventStates
<1>3. et' = [et EXCEPT !.started = FALSE, !.finished = TRUE, !.later = FALSE, !.timer = FALSE,
                       !.state = s]
  BY <1>1 DEF FinishedThread, EventThreads
<1> HIDE DEF s
<1> QED
  BY <1>1, <1>2, <1>3 DEF EventThreads

(* silc_client_rekey_completion                                            *)
LEMMA RekeyCompletesKeeps ==
  ASSUME ConnInv, et.started, NEW k \in {"rekey_initiator", "rekey_responder"}, RekeyCompletes(k)
  PROVE  ConnInv'
<1>1. /\ Dispatch("poll") /\ cpu = "idle" /\ k \in async /\ et.started /\ async' = async \ {k}
      /\ et' = FinishedThread /\ threads' = threads - (IF et.sync THEN 1 ELSE 0)
      /\ UNCHANGED <<params, timers, cmds, stream, resume, cpu, after, calls>>
  BY DEF RekeyCompletes, Completes, AtSelect, Dispatch, Idle
<1>2. /\ queue \in Seq(Tasks) /\ Typed /\ \A t : Count(queue, t) \in Nat
  BY Types
<1>3. /\ et.state = "rekey" /\ ~timers.connect /\ cmds.resume = 0 /\ after = "idle"
      /\ machine.state \in {"run", "close"} /\ Count(queue, "evfin") = 0
      /\ ~conn.connect /\ ~conn.key_exchange /\ ~conn.rekeying
      /\ ~conn.disconnected => ~conn.registering /\ ~conn.auth_request
  <2>1. et.state = "rekey"
    BY <1>1 DEF ConnInv, Working, WaitsFor
  <2> QED
    BY <1>1, <2>1 DEF ConnInv, Working, Registering, Control
<1>4. async' = {}
  <2>1. async \subseteq {conn.op, "answer"}
    BY DEF ConnInv, Abortable
  <2>2. "answer" \notin async
    BY <1>1, <1>3 DEF ConnInv, Working, WaitsFor
  <2> QED
    BY <1>1, <2>1, <2>2
<1> DEFINE p == FinishTasks(queue)
<1>5. Left(p, queue)
  BY <1>2, FinishTasksLeft
<1>6. p \in Seq(Tasks)
  BY <1>5 DEF Left
<1>7. PICK m \in {0, 1} :
         /\ queue' = p \o SignalTasks(m)
         /\ machine' \in Machines /\ machine'.state = machine.state
         /\ machine'.waiting = machine.waiting
         /\ conn' \in Connections /\ conn'.op = "none"
         /\ conn'.connect = conn.connect /\ conn'.key_exchange = conn.key_exchange
         /\ conn'.rekeying = conn.rekeying
         /\ conn'.registering = conn.registering /\ conn'.auth_request = conn.auth_request
         /\ conn'.cop = conn.cop /\ conn'.callback = conn.callback
         /\ conn.disconnected => conn'.disconnected
         /\ ~conn'.disconnected => m = 0 /\ machine' = machine /\ conn'.status = conn.status
         /\ conn'.status = conn.status \/ Bad(conn'.status)
         /\ conn'.disconnected /\ ~conn.disconnected => Bad(conn'.status)
  <2>1. CASE /\ conn' = [conn EXCEPT !.op = "none", !.ske = FALSE]
             /\ UNCHANGED machine /\ queue' = p
    <3>1. p \o SignalTasks(0) = p
      BY <1>2, <1>6, Signalled
    <3>2. /\ conn' \in Connections /\ conn'.op = "none"
          /\ conn'.connect = conn.connect /\ conn'.key_exchange = conn.key_exchange
          /\ conn'.rekeying = conn.rekeying
          /\ conn'.registering = conn.registering /\ conn'.auth_request = conn.auth_request
          /\ conn'.cop = conn.cop /\ conn'.callback = conn.callback
          /\ conn'.disconnected = conn.disconnected /\ conn'.status = conn.status
      BY <2>1, Types DEF Connections
    <3>3. machine \in Machines
      BY DEF ConnInv, Typed
    <3> HIDE DEF p
    <3> WITNESS 0 \in {0, 1}
    <3> QED
      BY <2>1, <3>1, <3>2, <3>3
  <2>2. CASE /\ conn' = [conn EXCEPT !.op = "none", !.ske = FALSE,
                                     !.disconnected = TRUE, !.status = "disconnected"]
             /\ Signal(CloseSignals) /\ queue' = p \o CloseTasks
    <3> CloseSignals \in {0, 1}
      BY DEF CloseSignals
    <3>1. CloseSignals \in {0, 1} /\ queue' = p \o SignalTasks(CloseSignals)
      BY <2>2 DEF CloseTasks
    <3>2. /\ conn' \in Connections /\ conn'.op = "none"
          /\ conn'.connect = conn.connect /\ conn'.key_exchange = conn.key_exchange
          /\ conn'.rekeying = conn.rekeying
          /\ conn'.registering = conn.registering /\ conn'.auth_request = conn.auth_request
          /\ conn'.cop = conn.cop /\ conn'.callback = conn.callback
          /\ conn'.disconnected /\ conn'.status = "disconnected"
      BY <2>2, Types DEF Connections, Statuses
    <3>3. /\ machine' \in Machines /\ machine'.state = machine.state
          /\ machine'.waiting = machine.waiting
      BY <2>2, <3>1, SignalQueued
    <3> HIDE DEF p
    <3> WITNESS CloseSignals \in {0, 1}
    <3> QED
      BY <3>1, <3>2, <3>3 DEF Bad
  <2> QED
    BY <2>1, <2>2 DEF RekeyCompletes
<1> HIDE DEF p
<1>8. /\ queue' \in Seq(Tasks) /\ Count(queue', "event") = 0
      /\ Count(queue', "evfin") = One(~et.sync)
      /\ \A t : t \notin {"event", "evfin", "signal"} => Count(queue', t) = Count(queue, t)
      /\ ~machine.waiting \/ m = 0 => Left(queue', queue)
  <2>1. /\ machine.waiting /\ m = 1 => Grown(queue', p, "signal")
        /\ ~machine.waiting \/ m = 0 => queue' = p
        /\ queue' \in Seq(Tasks)
    BY <1>2, <1>6, <1>7, Signalled
  <2>2. /\ Count(p, "event") = 0 /\ Count(p, "evfin") = 0 + One(~et.sync)
        /\ \A t : t \notin {"event", "evfin"} => Count(p, t) = Count(queue, t)
    BY <1>3, <1>5 DEF Left
  <2>3. \A t : t # "signal" => Count(queue', t) = Count(p, t)
    <3>1. CASE machine.waiting /\ m = 1
      <4> SUFFICES ASSUME NEW t, t # "signal" PROVE Count(queue', t) = Count(p, t)
        OBVIOUS
      <4>1. Count(queue', t) = Count(p, t) + 0
        BY <2>1, <3>1 DEF Grown, One
      <4>2. Count(p, t) \in Nat
        BY <1>6, Counting
      <4> QED
        BY <4>1, <4>2
    <3>2. CASE ~machine.waiting \/ m = 0
      BY <2>1, <3>2
    <3> QED
      BY <3>1, <3>2
  <2>4. One(~et.sync) \in Nat
    BY DEF One
  <2> QED
    BY <1>5, <2>1, <2>2, <2>3, <2>4
<1>9. et' \in EventThreads /\ ~et'.started /\ et'.finished /\ ~et'.timer
  BY <1>1, FinishedThreadLeft
<1>10. Typed' /\ Abortable'
  BY <1>1, <1>4, <1>7, <1>8, <1>9 DEF ConnInv, Typed, Abortable
<1>11. Counted'
  <2>1. threads = One(et.started) + Count(queue, "evfin") + Count(queue, "cmdfin")
                    + cmds.resume + cmds.other
    BY DEF ConnInv, Counted
  <2>2. /\ One(et.started) = 1 /\ One(et'.started) = 0 /\ Count(queue, "evfin") = 0
        /\ Count(queue, "cmdfin") \in Nat /\ cmds.resume \in Nat /\ cmds.other \in Nat
        /\ Count(queue', "cmdfin") = Count(queue, "cmdfin")
    BY <1>1, <1>2, <1>3, <1>8, <1>9, Types DEF One
  <2>3. threads' = threads - 1 + Count(queue', "evfin")
    <3>1. CASE et.sync
      <4>1. threads' = threads - 1 /\ Count(queue', "evfin") = 0
        BY <1>1, <1>8, <3>1 DEF One
      <4> QED
        BY <4>1, Types
    <3>2. CASE ~et.sync
      <4>1. threads' = threads - 0 /\ Count(queue', "evfin") = 1
        BY <1>1, <1>8, <3>2 DEF One
      <4> QED
        BY <4>1, Types
    <3> QED
      BY <3>1, <3>2
  <2>4. Count(queue', "evfin") \in Nat
    BY <1>8, Counting
  <2>5. threads' = One(et'.started) + Count(queue', "evfin") + Count(queue', "cmdfin")
                     + cmds.resume + cmds.other
    BY ONLY <2>1, <2>2, <2>3, <2>4
  <2> QED
    BY <1>1, <2>5 DEF Counted
<1>12. Resting' /\ Working' /\ Unstarted' /\ Ended'
  BY <1>1, <1>3, <1>4, <1>7, <1>8, <1>9 DEF Resting, Working, Unstarted, Ended
<1>13. Starting' /\ Control'
  BY <1>1, <1>3, <1>7, <1>8 DEF ConnInv, Starting, Control
<1>14. Closing'
  <2> SUFFICES ASSUME machine.state = "close" PROVE Closing'
    BY <1>7 DEF Closing
  <2>1. ~machine.waiting /\ NoAfter(queue, "conn", "signal")
        /\ Count(queue, "conn") + One(cpu = "conn") + One(after = "yield") = 1
    BY DEF ConnInv, Closing
  <2>2. NoAfter(queue', "conn", "signal") /\ Count(queue', "conn") = Count(queue, "conn")
    BY <1>8, <2>1 DEF Left
  <2> QED
    BY <1>1, <1>3, <1>7, <2>1, <2>2 DEF Closing
<1>15. Signals'
  <2> SUFFICES ASSUME machine.state = "run", ~conn'.disconnected PROVE Signals'
    BY <1>7 DEF Signals
  <2>1. NoFlag
    BY <1>3, <1>7 DEF NoFlag
  <2>2. /\ NoAfter(queue, "poll", "signal") /\ NoAfter(queue, "signal", "evfin")
        /\ ~(machine.value > 0)
    BY <1>1, <1>3, <2>1 DEF ConnInv, Signals, NoFlag
  <2>3. Count(queue, "signal") = 0
    BY <1>1, <2>2, NoneSignalled
  <2>4. NoAfter(queue', "poll", "signal") /\ NoAfter(queue', "signal", "evfin")
    BY <1>7, <1>8, <2>2, <2>3 DEF Left
  <2> QED
    BY <1>1, <1>3, <1>7, <1>9, <2>2, <2>4 DEF Signals, NoFlag
<1>16. Told'
  BY <1>1, <1>7, <1>9 DEF ConnInv, Told
<1> QED
  BY <1>10, <1>11, <1>12, <1>13, <1>14, <1>15, <1>16 DEF ConnInv

(* A command becomes pending.                                              *)
LEMMA PendingKeeps ==
  ASSUME ConnInv, Idle, Up, cmds' = [cmds EXCEPT !.other = @ + 1], threads' = threads + 1,
         UNCHANGED rest
  PROVE  ConnInv'
<1>1. /\ cpu = "idle" /\ machine.state \in {"run", "close"}
      /\ cmds' = [cmds EXCEPT !.other = @ + 1] /\ threads' = threads + 1
      /\ UNCHANGED <<params, conn, machine, et, queue, timers, async, stream, resume, cpu, after,
                     calls>>
  BY DEF Idle, Up, rest
<1>2. cmds' \in [resume: Nat, other: Nat] /\ cmds'.resume = cmds.resume
      /\ cmds'.other = cmds.other + 1
  BY <1>1, Types
<1>3. Typed' /\ Abortable' /\ Unstarted' /\ Told'
  BY <1>1, <1>2 DEF ConnInv, Typed, Abortable, Unstarted, Told
<1>4. Counted'
  <2>1. threads = One(et.started) + Count(queue, "evfin") + Count(queue, "cmdfin")
                    + cmds.resume + cmds.other
    BY DEF ConnInv, Counted
  <2>2. /\ One(et.started) \in Nat /\ Count(queue, "evfin") \in Nat
        /\ Count(queue, "cmdfin") \in Nat /\ cmds.resume \in Nat /\ cmds.other \in Nat
        /\ cmds'.resume = cmds.resume /\ cmds'.other = cmds.other + 1
        /\ threads' = threads + 1 /\ threads \in Nat
    BY <1>1, <1>2, Types DEF One
  <2>3. threads' = One(et.started) + Count(queue, "evfin") + Count(queue, "cmdfin")
                     + cmds'.resume + cmds'.other
    BY ONLY <2>1, <2>2
  <2> QED
    BY <1>1, <2>3 DEF Counted
<1>5. Working' /\ Resting'
  <2>1. Alone
    BY <1>1, <1>2 DEF Alone, ConnInv, Working
  <2> QED
    BY <2>1, AloneKeeps
<1>6. Starting' /\ Control' /\ Closing' /\ Ended'
  BY <1>1 DEF ConnInv, Starting, Control, Closing, Ended
<1>7. Signals'
  BY <1>1 DEF ConnInv, Signals, NoFlag
<1> QED
  BY <1>3, <1>4, <1>5, <1>6, <1>7 DEF ConnInv

(* silc_client_command_call and silc_client_command_send                   *)
LEMMA CommandKeeps ==
  ASSUME ConnInv, Command
  PROVE  ConnInv'
BY PendingKeeps DEF Command, rest

(* A command that was delayed is sent.                                     *)
LEMMA LoosePendsKeeps ==
  ASSUME ConnInv, LoosePends
  PROVE  ConnInv'
BY PendingKeeps DEF LoosePends

(* silc_client_command_reply                                               *)
LEMMA CommandReplyKeeps ==
  ASSUME ConnInv, CommandReply
  PROVE  ConnInv'
<1>1. /\ cpu = "idle" /\ machine.state \in {"run", "close"} /\ cmds.other > 0
      /\ cmds' = [cmds EXCEPT !.other = @ - 1] /\ queue' = Append(queue, "cmdfin")
      /\ UNCHANGED <<params, conn, machine, et, threads, timers, async, stream, resume, cpu, after,
                     calls>>
  BY DEF CommandReply, Idle, Up
<1>2. cmds' \in [resume: Nat, other: Nat] /\ cmds'.resume = cmds.resume
      /\ cmds'.other = cmds.other - 1
  <2>1. cmds.other - 1 \in Nat /\ cmds \in [resume: Nat, other: Nat]
    BY <1>1, Types
  <2> DEFINE m == cmds.other - 1
  <2> HIDE DEF m
  <2>2. cmds' = [cmds EXCEPT !.other = m] /\ m \in Nat
    BY <1>1, <2>1 DEF m
  <2>3. cmds' \in [resume: Nat, other: Nat] /\ cmds'.resume = cmds.resume /\ cmds'.other = m
    BY <2>1, <2>2
  <2> QED
    BY <2>3 DEF m
<1>3. More("cmdfin")
  BY <1>1, Types, Pushed, Added DEF Tasks
<1>4. /\ queue' \in Seq(Tasks)
      /\ Count(queue', "cmdfin") = Count(queue, "cmdfin") + 1
      /\ \A t : t # "cmdfin" => Count(queue', t) = Count(queue, t)
      /\ \A x, t : t # "cmdfin" /\ NoAfter(queue, x, t) => NoAfter(queue', x, t)
  BY <1>3 DEF More
<1>5. Typed' /\ Abortable' /\ Unstarted' /\ Told'
  BY <1>1, <1>2, <1>4 DEF ConnInv, Typed, Abortable, Unstarted, Told
<1>6. Counted'
  <2>1. threads = One(et.started) + Count(queue, "evfin") + Count(queue, "cmdfin")
                    + cmds.resume + cmds.other
    BY DEF ConnInv, Counted
  <2>2. /\ One(et.started) \in Nat /\ Count(queue, "evfin") \in Nat
        /\ Count(queue, "cmdfin") \in Nat /\ cmds.resume \in Nat /\ cmds.other \in Nat
        /\ cmds'.resume = cmds.resume /\ cmds'.other = cmds.other - 1
        /\ Count(queue', "evfin") = Count(queue, "evfin")
        /\ Count(queue', "cmdfin") = Count(queue, "cmdfin") + 1
    BY <1>2, <1>4, Types DEF One
  <2>3. threads = One(et.started) + Count(queue', "evfin") + Count(queue', "cmdfin")
                     + cmds'.resume + cmds'.other
    BY ONLY <2>1, <2>2
  <2> QED
    BY <1>1, <2>3 DEF Counted
<1>7. Working' /\ Resting'
  <2>1. Alone
    BY <1>1, <1>2, <1>4 DEF Alone, ConnInv, Working
  <2> QED
    BY <2>1, AloneKeeps
<1>8. Starting' /\ Control' /\ Closing' /\ Ended'
  BY <1>1, <1>4 DEF ConnInv, Starting, Control, Closing, Ended
<1>9. Signals'
  BY <1>1, <1>4 DEF ConnInv, Signals, NoFlag
<1> QED
  BY <1>5, <1>6, <1>7, <1>8, <1>9 DEF ConnInv

-----------------------------------------------------------------------------
(* The theorems.                                                           *)

(* A connection as silc_client_add_connection leaves it.                   *)
LEMMA InitKeeps ==
  ASSUME Init
  PROVE  ConnInv
<1>1. /\ params \in ParamSet /\ params \in Params /\ queue = <<"start", "poll">> /\ cpu = "idle"
      /\ after = "idle" /\ calls = <<>> /\ async = {} /\ stream = "none" /\ resume = 0
      /\ threads = 0
  BY ParamsAssumption DEF Init
<1>2. /\ conn \in Connections /\ ~conn.rekeying /\ ~conn.disconnected /\ ~conn.registering
      /\ ~conn.auth_request /\ conn.cop /\ conn.callback
      /\ conn.connect \/ conn.key_exchange
      /\ ~(conn.connect /\ conn.key_exchange)
  <2> DEFINE Fresh(c, k) ==
               [connect |-> c, key_exchange |-> k, rekeying |-> FALSE, disconnected |-> FALSE,
                registering |-> FALSE, auth_request |-> FALSE, responder |-> FALSE,
                local_id |-> FALSE, op |-> "none", cop |-> TRUE, callback |-> TRUE,
                ske |-> FALSE, status |-> "success", retry_count |-> 0]
  <2>1. params.start \in {"connect", "key_exchange"}
    BY <1>1 DEF ParamSet
  <2>2. conn = Fresh(params.start = "connect", params.start = "key_exchange")
    BY DEF Init
  <2>3. CASE params.start = "connect"
    <3>1. conn = Fresh(TRUE, FALSE)
      BY <2>2, <2>3
    <3> QED
      BY <3>1 DEF Connections, Statuses, RetryCount
  <2>4. CASE params.start = "key_exchange"
    <3>1. conn = Fresh(FALSE, TRUE)
      BY <2>2, <2>4
    <3> QED
      BY <3>1 DEF Connections, Statuses, RetryCount
  <2> QED
    BY <2>1, <2>3, <2>4
<1>3. machine \in Machines /\ machine.state = "none" /\ ~machine.waiting /\ machine.value = 0
  BY DEF Init, Machines
<1>4. et \in EventThreads /\ ~et.started /\ ~et.timer
  BY DEF Init, EventThreads, EventStates
<1>5. /\ timers \in [connect: BOOLEAN, rekey: BOOLEAN] /\ ~timers.connect /\ ~timers.rekey
      /\ cmds \in [resume: Nat, other: Nat] /\ cmds.resume = 0 /\ cmds.other = 0
  BY DEF Init
<1>6. queue \in Seq(Tasks)
  BY <1>1 DEF Tasks
<1>7. Len(queue) = 2 /\ queue[1] = "start" /\ queue[2] = "poll"
  BY <1>1
<1>8. \A t : t \notin {"start", "poll"} => Count(queue, t) = 0
  BY <1>6, <1>7, Counting
<1>9. Count(queue, "poll") = 1
  <2>1. At(queue, "poll") = {2}
    BY <1>7 DEF At
  <2> QED
    BY <2>1, FS_Singleton DEF Count
<1>10. Typed
  BY <1>1, <1>2, <1>3, <1>4, <1>5, <1>6 DEF Typed
<1>11. Counted
  BY <1>1, <1>4, <1>5, <1>8 DEF Counted, One
<1>12. Resting /\ Working /\ Abortable
  BY <1>1, <1>2, <1>4, <1>5, <1>8 DEF Resting, Working, Abortable
<1>13. Unstarted
  BY <1>1, <1>2, <1>4, <1>5, <1>8 DEF Unstarted
<1>14. Starting /\ Control /\ Closing /\ Ended /\ Signals
  BY <1>1, <1>2, <1>3, <1>8, <1>9 DEF Starting, Control, Closing, Ended, Signals
<1>15. Told
  BY <1>1, <1>2, <1>4 DEF Told
<1> QED
  BY <1>10, <1>11, <1>12, <1>13, <1>14, <1>15 DEF ConnInv

(* Nothing but the threads that are not pending, and the history, changes. *)
LEMMA RestKeeps ==
  ASSUME ConnInv, UNCHANGED <<rest, threads, cmds>>
  PROVE  ConnInv'
<1>1. /\ conn' \in Connections /\ FlagsKept
      /\ UNCHANGED <<params, conn, machine, et, threads, queue, timers, async, cmds, stream,
                     resume, cpu, after, calls>>
  BY Types DEF rest, FlagsKept
<1> QED
  BY <1>1, ConnKept

(* What the history says of a step that leaves it at none.                 *)
LEMMA Noted ==
  ASSUME NEW c \in Causes, NEW b, Note(c, b), late' = "none"
  PROVE  ~b
BY DEF Note, Causes

(* Every step before the first disturbance keeps the invariant.            *)
LEMMA NextKeeps ==
  ASSUME ConnInv, [Next]_vars, late' = "none"
  PROVE  ConnInv'
<1>1. CASE MachineStep
  BY <1>1, AwaitEventKeeps, EventDisconnectedKeeps, EventConnectKeeps, EventKeyExchangeKeeps,
     EventRekeyKeeps, EventUnknownKeeps, CloseCommandsKeeps, CloseEventThreadKeeps,
     CloseFinishKeeps DEF MachineStep
<1>2. CASE EventStep
  BY <1>2, StConnectKeeps, StSetStreamKeeps, StKeyExchangeKeeps, StSetupUdpKeeps,
     StAuthResolveKeeps, StAuthDataKeeps, StAuthStartKeeps, StConnectedKeeps, StConnectErrorKeeps,
     StRegisterKeeps, StRegisterCompleteKeeps, StRegisterErrorKeeps, StResumeKeeps,
     StResolveChannelsKeeps, StResolveCmodesKeeps, StResumeCompletedKeeps, StResumeErrorKeeps,
     StRekeyKeeps DEF EventStep
<1>3. CASE TaskStep
  BY <1>3, PollKeeps, StartKeeps, DeliverSignalKeeps, RunMachineKeeps, RunEventKeeps,
     FinishEventThreadKeeps, FinishCommandThreadKeeps, DestroyKeeps, FinishedKeeps DEF TaskStep
<1>4. CASE Answered
  <2>1. CASE ConnectTimeout /\ Note("timeout", ~et.started \/ cmds.resume > 0)
    <3>1. et.started /\ ~(cmds.resume > 0)
      BY <2>1, Noted DEF Causes
    <3>2. cmds.resume = 0
      BY <3>1, Types
    <3> QED
      BY <2>1, <3>1, <3>2, ConnectTimeoutKeeps
  <2>2. CASE OperationCompletes /\ Note("operation", ~et.started)
    <3>1. et.started
      BY <2>2, Noted DEF Causes
    <3> QED
      BY <2>2, <3>1, TcpCompletesKeeps, SkeCompletesKeeps, AuthCompletesKeeps,
         RekeyCompletesKeeps DEF OperationCompletes
  <2>3. CASE AuthAnswered /\ Note("answer", ~et.started)
    <3>1. et.started
      BY <2>3, Noted DEF Causes
    <3> QED
      BY <2>3, <3>1, AuthAnsweredKeeps
  <2>4. CASE LaterExpires \/ CommandReply \/ ResumeReply
    BY <2>4, LaterExpiresKeeps, CommandReplyKeeps, ResumeReplyKeeps
  <2> QED
    BY <1>4, <2>1, <2>2, <2>3, <2>4 DEF Answered
<1>5. CASE Unforced
  <2>1. CASE (NewId \/ AuthRequest) /\ Note("packet", ~et.started /\ cpu' = "event")
    <3>1. et.started \/ cpu' # "event"
      BY <2>1, Noted DEF Causes
    <3>2. CASE NewId
      BY <3>1, <3>2, NewIdKeeps
    <3>3. CASE AuthRequest
      <4>1. cpu' = "event"
        BY <3>3 DEF AuthRequest, ContinueSync
      <4> QED
        BY <3>1, <3>3, <4>1, AuthRequestKeeps
    <3> QED
      BY <2>1, <3>2, <3>3
  <2>2. CASE RekeyPacket /\ Note("rekey", et.started)
    <3>1. ~et.started
      BY <2>2, Noted DEF Causes
    <3> QED
      BY <2>2, <3>1, RekeyPacketKeeps
  <2>3. CASE RekeyTimer /\ Note("rekey", Rekeyed)
    <3>1. ~Rekeyed
      BY <2>3, Noted DEF Causes
    <3> QED
      BY <2>3, <3>1, RekeyTimerKeeps
  <2>4. CASE (DisconnectPacket \/ EndOfStream \/ Abort \/ Close)
               /\ Note("resume", cmds.resume > 0)
    <3>1. ~(cmds.resume > 0)
      BY <2>4, Noted DEF Causes
    <3>2. cmds.resume = 0
      BY <3>1, Types
    <3> QED
      BY <2>4, <3>2, DisconnectPacketKeeps, EndOfStreamKeeps, AbortKeeps, CloseKeeps
  <2>5. CASE Command
    BY <2>5, CommandKeeps
  <2>6. CASE LooseCall \/ LooseEnds
    BY <2>6, RestKeeps DEF LooseCall, LooseEnds
  <2>7. CASE LoosePends
    BY <2>7, LoosePendsKeeps
  <2> QED
    BY <1>5, <2>1, <2>2, <2>3, <2>4, <2>5, <2>6, <2>7 DEF Unforced
<1>6. CASE UNCHANGED vars
  BY <1>6, RestKeeps DEF vars, rest
<1> QED
  BY <1>1, <1>2, <1>3, <1>4, <1>5, <1>6 DEF Next, Scheduled, Done

(* The history starts at none and never returns to it.                     *)
LEMMA LateStays ==
  ASSUME [Next]_vars, late' = "none"
  PROVE  late = "none"
<1>1. ASSUME NEW c \in Causes, NEW b, Note(c, b) PROVE late = "none"
  BY <1>1 DEF Note, Causes
<1>2. CASE Answered
  BY <1>1, <1>2 DEF Answered, InTime, Causes
<1>3. CASE Unforced
  BY <1>1, <1>3 DEF Unforced, InTime, Causes
<1>4. CASE Scheduled
  BY <1>4 DEF Scheduled, InTime
<1>5. CASE UNCHANGED vars
  BY <1>5 DEF vars
<1> QED
  BY <1>2, <1>3, <1>4, <1>5 DEF Next, Done

(* Of every connection the invariant holds until the first wakeup of an    *)
(* event thread that is not at work, close of one that has replies of a    *)
(* resume outstanding, or rekey of one that is at work or due to rekey.    *)
THEOREM ConnInvariant == Spec => [](late = "none" => ConnInv)
<1>1. Init => (late = "none" => ConnInv)
  BY InitKeeps
<1>2. (late = "none" => ConnInv) /\ [Next]_vars => (late = "none" => ConnInv)'
  BY NextKeeps, LateStays
<1> QED
  BY <1>1, <1>2, PTL DEF Spec

(* The history and the number of threads that are not pending.             *)
History == loose \in Nat /\ late \in Causes \cup {"none"}

(* Every step keeps them.                                                  *)
LEMMA HistoryKeeps ==
  ASSUME History, [Next]_vars
  PROVE  History'
<1>1. ASSUME NEW c \in Causes, NEW b, Note(c, b) PROVE History'
  BY <1>1 DEF Note, History
<1>2. ASSUME UNCHANGED <<late, loose>> PROVE History'
  BY <1>2 DEF History
<1>3. CASE Answered
  BY <1>1, <1>2, <1>3 DEF Answered, InTime, Causes
<1>4. ASSUME LooseCall \/ LoosePends \/ LooseEnds, UNCHANGED late PROVE History'
  <2>1. loose \in Nat /\ loose' \in {loose + 1, loose - 1} /\ (loose' = loose - 1 => loose > 0)
    BY <1>4 DEF LooseCall, LoosePends, LooseEnds, History
  <2>2. loose' \in Nat
    BY <2>1
  <2> QED
    BY <1>4, <2>2 DEF History
<1>5. CASE Unforced
  BY <1>1, <1>2, <1>4, <1>5 DEF Unforced, InTime, Causes
<1>6. CASE Scheduled
  BY <1>2, <1>6 DEF Scheduled, InTime
<1>7. CASE UNCHANGED vars
  BY <1>2, <1>7 DEF vars
<1> QED
  BY <1>3, <1>5, <1>6, <1>7 DEF Next, Done

(* Until the first disturbance the fields of a connection hold what the    *)
(* code puts there: the number of threads of its machine, which is counted *)
(* up and down, is never negative, and no retry counter passes its limit.  *)
THEOREM ConnectionTyped == Spec => [](late = "none" => TypeOK)
<1>1. Init => History
  BY DEF Init, History
<1>2. History /\ [Next]_vars => History'
  BY HistoryKeeps
<1>3. History /\ ConnInv => TypeOK
  BY Types DEF ConnInv, Typed, History, TypeOK
<1>4. Spec => []History
  BY <1>1, <1>2, PTL DEF Spec
<1> QED
  BY <1>3, <1>4, ConnInvariant, PTL

(* In every behaviour a state function of the event thread runs after the  *)
(* thread has finished only after one of the disturbances that `late'      *)
(* records.                                                                *)
THEOREM ConnectionRunsUnfinished == Spec => []RunsUnfinished
<1>1. (late = "none" => ConnInv) => RunsUnfinished
  BY DEF ConnInv, Resting, Working, RunsUnfinished, RunsFinished
<1> QED
  BY <1>1, ConnInvariant, PTL

(* A task that is queued nowhere is not in the range of the queue.         *)
LEMMA NotQueued ==
  ASSUME ConnInv, NEW t
  PROVE  t \in Range(queue) <=> Count(queue, t) # 0
<1>1. queue \in Seq(Tasks)
  BY Types
<1>2. Range(queue) = {queue[i] : i \in 1..Len(queue)}
  BY <1>1 DEF Range
<1>3. Count(queue, t) = 0 <=> \A i \in 1..Len(queue) : queue[i] # t
  BY <1>1, Counting
<1> QED
  BY <1>2, <1>3

(* In every behaviour the machine starts the event thread while it is at   *)
(* work, or while its last finish is queued (st_run's SILC_ASSERT), only   *)
(* after one of the disturbances that `late' records.                      *)
THEOREM ConnectionOneEventAtATime == Spec => []OneEventAtATime
<1>1. (late = "none" => ConnInv) => OneEventAtATime
  <2> SUFFICES ASSUME ConnInv, cpu = "conn", machine.state = "run", ~conn.disconnected, ~NoFlag
               PROVE  ~et.started /\ "evfin" \notin Range(queue)
    BY DEF OneEventAtATime, RestartsBusy, Restarts
  <2>1. ~et.started
    BY DEF ConnInv, Working, NoFlag
  <2>2. Count(queue, "evfin") = 0
    BY DEF ConnInv, Signals
  <2> QED
    BY <2>1, <2>2, NotQueued
<1> QED
  BY <1>1, ConnInvariant, PTL

(* Until the first disturbance the machine of a connection is finished     *)
(* only when its event thread and the threads of all commands that were    *)
(* pending are, whatever commands are called that are not.                 *)
THEOREM ConnectionFinishesAlone == Spec => [](late = "none" => FinishesAlone)
<1>1. ConnInv => FinishesAlone
  <2> SUFFICES ASSUME ConnInv, Dispatch("fin") PROVE threads = 0
    BY DEF FinishesAlone
  <2>1. Shrunk(Tail(queue), queue, "fin") /\ Count(queue, "fin") > 0
    BY Dispatched
  <2>2. machine.state = "finished"
    BY <2>1 DEF ConnInv, Control
  <2>3. /\ ~et.started /\ cmds.resume = 0 /\ cmds.other = 0
        /\ \A t \in Tasks \ {"poll"} : NoAfter(queue, "fin", t)
    BY <2>2 DEF ConnInv, Ended
  <2>4. \A t \in Tasks \ {"poll"} : Count(Tail(queue), t) = 0
    BY <2>1, <2>3 DEF Shrunk
  <2>5. \A t \in Tasks \ {"poll", "fin"} : Count(queue, t) = 0 + 0
    BY <2>1, <2>4 DEF Shrunk, One
  <2>6. Count(queue, "evfin") = 0 /\ Count(queue, "cmdfin") = 0
    BY <2>5 DEF Tasks
  <2> QED
    BY <2>3, <2>6 DEF ConnInv, Counted, One
<1> QED
  BY <1>1, ConnInvariant, PTL

(* Until the first disturbance nothing of a connection outlives it: no     *)
(* task of its machine or event thread, no timer, no operation but the     *)
(* application's own answer.                                               *)
THEOREM ConnectionNothingOutlives == Spec => [](late = "none" => NothingOutlives)
<1>1. ConnInv => NothingOutlives
  <2> SUFFICES ASSUME ConnInv, machine.state \in {"deleted", "gone"} PROVE NothingOutlives
    BY DEF NothingOutlives
  <2>1. /\ ~et.started /\ cmds.resume = 0 /\ cmds.other = 0 /\ async \subseteq {"answer"}
        /\ ~timers.connect /\ ~timers.rekey
        /\ \A t \in Tasks \ {"thrfin", "poll"} : Count(queue, t) = 0
    BY DEF ConnInv, Ended
  <2>2. ~et.timer
    BY <2>1 DEF ConnInv, Resting
  <2>3. Range(queue) \subseteq {"thrfin", "poll"}
    <3>1. Range(queue) \subseteq Tasks
      BY Types DEF Range
    <3> QED
      BY <2>1, <3>1, NotQueued
  <2>4. cmds = [resume |-> 0, other |-> 0]
    BY <2>1, Types
  <2> QED
    BY <2>1, <2>2, <2>3, <2>4 DEF NothingOutlives
<1> QED
  BY <1>1, ConnInvariant, PTL

-----------------------------------------------------------------------------
(* What the application is promised.                                       *)

(* The machine stays before its finish, or after its connection is deleted. *)
SameStage ==
  \/ machine'.state = machine.state
  \/ machine.state \in {"none", "run", "close"} /\ machine'.state \in {"none", "run", "close"}
  \/ machine.state \in {"deleted", "gone"} /\ machine'.state \in {"deleted", "gone"}

(* Nobody is told anything, but the connection may be asked to close.      *)
Continues ==
  /\ conn'.callback = conn.callback /\ (conn.disconnected => conn'.disconnected)
  /\ calls' = calls /\ SameStage

(* Then the connection does what ConnectionLifecycle allows, or nothing    *)
(* that it speaks of.                                                      *)
LEMMA ContinuesLife ==
  ASSUME ConnInv, ~Broken, ~Broken', conn' \in Connections, Continues
  PROVE  [Lifecycle!Next]_(Lifecycle!lifecycle)
<1>1. Phase' = Phase
  BY DEF Phase, Stage, Continues, SameStage
<1>2. CASE conn'.disconnected = conn.disconnected
  BY <1>1, <1>2 DEF Lifecycle!lifecycle, Continues
<1>3. CASE conn'.disconnected # conn.disconnected
  <2>1. ~conn.disconnected /\ conn'.disconnected = TRUE /\ conn.disconnected = FALSE
    BY <1>3, Types DEF Continues, Connections
  <2>2. machine.state \in {"none", "run"} /\ conn.callback
    BY <2>1 DEF ConnInv, Starting, Told
  <2>3. Phase \in {"connecting", "up"}
    BY <2>2 DEF Phase, Stage
  <2>4. Lifecycle!AskClose
    BY <1>1, <2>1, <2>3 DEF Lifecycle!AskClose, Continues
  <2> QED
    BY <2>4 DEF Lifecycle!Next
<1> QED
  BY <1>2, <1>3

(* The flags the steps below leave alone or set.                           *)
LEMMA MachineStages ==
  ASSUME ConnInv
  PROVE  /\ machine \in Machines /\ conn \in Connections
         /\ UNCHANGED machine => SameStage
         /\ \A n : Signal(n) => SameStage
         /\ EventTaken => SameStage
<1>1. machine \in Machines /\ conn \in Connections
  BY DEF ConnInv, Typed
<1>2. ASSUME NEW n, Signal(n) PROVE SameStage
  BY <1>1, <1>2 DEF Signal, SameStage, Machines
<1>3. ASSUME EventTaken PROVE SameStage
  BY <1>1, <1>3 DEF EventTaken, SameStage, Machines
<1> QED
  BY <1>1, <1>2, <1>3 DEF SameStage

(* The steps of the machine, but its finish.                               *)
LEMMA MachineContinues ==
  ASSUME ConnInv, MachineStep, ~CloseFinish
  PROVE  Continues
<1>1. /\ machine \in Machines /\ conn \in Connections
      /\ UNCHANGED machine => SameStage
      /\ EventTaken => SameStage
  BY MachineStages
<1>2. CASE AwaitEvent
  BY <1>1, <1>2 DEF AwaitEvent, Continues, SameStage, Machines
<1>3. CASE EventDisconnected \/ EventUnknown
  BY <1>1, <1>3 DEF EventDisconnected, EventUnknown, Continues
<1>4. CASE EventConnect
  BY <1>1, <1>4 DEF EventConnect, StartEvent, Continues, Connections
<1>5. CASE EventKeyExchange
  BY <1>1, <1>5 DEF EventKeyExchange, StartEvent, Continues, Connections
<1>6. CASE EventRekey
  BY <1>1, <1>6 DEF EventRekey, StartEvent, Continues, Connections
<1>7. CASE CloseCommands
  BY <1>1, <1>7 DEF CloseCommands, Continues
<1>8. CASE CloseEventThread
  BY <1>1, <1>8 DEF CloseEventThread, AbortOp, Continues, Connections
<1> QED
  BY <1>2, <1>3, <1>4, <1>5, <1>6, <1>7, <1>8 DEF MachineStep

(* The tasks of the scheduler, but the deletion of the connection.         *)
LEMMA TaskContinues ==
  ASSUME ConnInv, TaskStep, ~Destroy
  PROVE  Continues
<1>1. /\ machine \in Machines /\ conn \in Connections
      /\ UNCHANGED machine => SameStage
  BY MachineStages
<1>2. CASE Poll \/ DeliverSignal \/ RunMachine \/ RunEvent \/ FinishEventThread
             \/ FinishCommandThread
  BY <1>1, <1>2
     DEF Poll, DeliverSignal, RunMachine, RunEvent, FinishEventThread, FinishCommandThread,
         Continues
<1>3. CASE Start
  <2>1. Count(queue, "start") > 0
    BY <1>3, Dispatched DEF Start
  <2>2. machine.state = "none"
    BY <2>1 DEF ConnInv, Starting
  <2>3. machine'.state = "run" /\ UNCHANGED <<conn, calls>>
    BY <1>3 DEF Start
  <2> QED
    BY <2>2, <2>3 DEF Continues, SameStage
<1>4. CASE Finished
  <2>1. Count(queue, "thrfin") > 0
    BY <1>4, Dispatched DEF Finished
  <2>2. machine.state \in {"deleted", "gone"}
    BY <2>1 DEF ConnInv, Control
  <2>3. machine'.state = "gone" /\ UNCHANGED <<conn, calls>>
    BY <1>1, <1>4 DEF Finished, Machines
  <2> QED
    BY <2>2, <2>3 DEF Continues, SameStage
<1> QED
  BY <1>2, <1>3, <1>4 DEF TaskStep

(* Timers, operations and replies.                                         *)
LEMMA AnsweredContinues ==
  ASSUME ConnInv, Answered
  PROVE  Continues
<1>1. /\ machine \in Machines /\ conn \in Connections
      /\ UNCHANGED machine => SameStage
      /\ \A n : Signal(n) => SameStage
  BY MachineStages
<1>2. CASE LaterExpires \/ AuthAnswered \/ CommandReply \/ ResumeReply
  BY <1>1, <1>2 DEF LaterExpires, AuthAnswered, CommandReply, ResumeReply, Continues
<1>3. CASE ConnectTimeout
  BY <1>1, <1>3 DEF ConnectTimeout, Failed, Continues, Connections
<1>4. CASE TcpCompletes
  BY <1>1, <1>4 DEF TcpCompletes, Continues, Connections
<1>5. CASE SkeCompletes
  BY <1>1, <1>5 DEF SkeCompletes, Continues, Connections
<1>6. CASE AuthCompletes
  BY <1>1, <1>6 DEF AuthCompletes, Continues, Connections
<1>7. ASSUME NEW k, RekeyCompletes(k) PROVE Continues
  BY <1>1, <1>7 DEF RekeyCompletes, Continues, Connections
<1> QED
  BY <1>2, <1>3, <1>4, <1>5, <1>6, <1>7 DEF Answered, OperationCompletes

(* Packets and the application, but an abort.                              *)
LEMMA UnforcedContinues ==
  ASSUME ConnInv, Unforced, ~Abort
  PROVE  Continues
<1>1. /\ machine \in Machines /\ conn \in Connections
      /\ UNCHANGED machine => SameStage
      /\ \A n : Signal(n) => SameStage
  BY MachineStages
<1>2. CASE AuthRequest \/ Command \/ LooseCall \/ LoosePends \/ LooseEnds
  BY <1>1, <1>2 DEF AuthRequest, Command, LooseCall, LoosePends, LooseEnds, rest, Continues
<1>3. CASE NewId
  BY <1>1, <1>3 DEF NewId, Continues, Connections
<1>4. ASSUME NEW r, RequestRekey(r), calls' = calls PROVE Continues
  BY <1>1, <1>4 DEF RequestRekey, Continues, Connections
<1>5. CASE RekeyTimer \/ RekeyPacket
  BY <1>4, <1>5 DEF RekeyTimer, RekeyPacket
<1>6. ASSUME CloseRequested PROVE Continues
  BY <1>1, <1>6 DEF CloseRequested, Continues, Connections
<1>7. CASE DisconnectPacket \/ EndOfStream \/ Close
  BY <1>6, <1>7 DEF DisconnectPacket, EndOfStream, Close
<1> QED
  BY <1>2, <1>3, <1>5, <1>7 DEF Unforced

(* The callback is given a success, by an event thread that is not         *)
(* rekeying: nobody has been told anything before.                         *)
LEMMA EstablishedSucceeds ==
  ASSUME ConnInv, ~Broken, ~Broken', cpu = "event", et.state # "rekey", ~conn.disconnected,
         NEW c \in Connections, c.callback = conn.callback, c.disconnected = conn.disconnected,
         NEW t, NEW s \in {"success", "resumed"}, NEW n, Established(c, t, s, n)
  PROVE  Lifecycle!Succeed
<1>1. /\ machine \in Machines /\ conn \in Connections
      /\ \A m : Signal(m) => machine'.state = machine.state
  BY MachineStages DEF Signal, Machines
<1>2. et.started
  BY DEF ConnInv, Resting
<1>3. calls = <<>> /\ machine.state = "run"
  BY <1>2 DEF ConnInv, Working, Starting
<1>4. conn.callback
  BY DEF ConnInv, Told
<1>5. PICK closes \in BOOLEAN :
        /\ conn' = IF closes THEN [c EXCEPT !.cop = FALSE, !.disconnected = TRUE,
                                            !.status = "disconnected"]
                             ELSE [c EXCEPT !.cop = FALSE]
        /\ calls' = Append(calls, s)
        /\ Signal(IF closes THEN CloseSignals ELSE 0)
  BY DEF Established
<1>6. machine'.state = "run"
  BY <1>1, <1>3, <1>5
<1>7. conn'.callback /\ conn'.disconnected \in BOOLEAN
  BY <1>4, <1>5 DEF Connections
<1>8. calls' = <<s>> /\ calls' # <<>>
  BY <1>3, <1>5
<1>9. Phase = "connecting" /\ Phase' = "up"
  BY <1>3, <1>4, <1>6, <1>7, <1>8 DEF Phase, Stage
<1> QED
  BY <1>5, <1>7, <1>9 DEF Lifecycle!Succeed

(* A state function of the event thread tells the application of a success *)
(* or nothing.                                                             *)
LEMMA EventLife ==
  ASSUME ConnInv, ~Broken, ~Broken', EventStep
  PROVE  Continues \/ Lifecycle!Succeed
<1>1. /\ machine \in Machines /\ conn \in Connections
      /\ UNCHANGED machine => SameStage
      /\ \A n : Signal(n) => SameStage
  BY MachineStages
<1>2. ASSUME NEW s, IfDisconnected(s) PROVE Continues
  BY <1>1, <1>2 DEF IfDisconnected, Continues
<1>3. ASSUME NEW s, Failed(s) PROVE conn'.callback = conn.callback /\ conn'.disconnected = conn.disconnected
  BY <1>1, <1>3 DEF Failed, Connections
<1>4. CASE StConnect
  BY <1>1, <1>3, <1>4 DEF StConnect, Continues, Connections
<1>5. CASE StSetStream
  BY <1>1, <1>2, <1>3, <1>5 DEF StSetStream, Continues
<1>6. CASE StKeyExchange
  BY <1>1, <1>3, <1>6 DEF StKeyExchange, Continues, Connections
<1>7. CASE StSetupUdp
  BY <1>1, <1>2, <1>3, <1>7 DEF StSetupUdp, Continues
<1>8. CASE StAuthResolve
  BY <1>1, <1>2, <1>8 DEF StAuthResolve, Continues, Connections
<1>9. CASE StAuthData
  BY <1>1, <1>2, <1>9 DEF StAuthData, Continues, Connections
<1>10. CASE StAuthStart
  BY <1>1, <1>2, <1>3, <1>10 DEF StAuthStart, Continues, Connections
<1>11. CASE StConnected
  <2> DEFINE c == [conn EXCEPT !.ske = FALSE]
             t == [timers EXCEPT !.rekey = @ \/ params.server]
  <2>1. c \in Connections /\ c.callback = conn.callback /\ c.disconnected = conn.disconnected
    BY <1>1 DEF Connections
  <2>2. cpu = "event" /\ et.state = "connected"
    BY <1>11 DEF StConnected, Running
  <2>3. \/ conn' = c /\ UNCHANGED <<machine, calls>>
        \/ ~conn.disconnected /\ Established(c, t, "success", 0)
    BY <1>11 DEF StConnected
  <2> HIDE DEF c, t
  <2>4. CASE conn' = c /\ UNCHANGED <<machine, calls>>
    BY <1>1, <2>1, <2>4 DEF Continues
  <2>5. CASE ~conn.disconnected /\ Established(c, t, "success", 0)
    BY <2>1, <2>2, <2>5, EstablishedSucceeds
  <2> QED
    BY <2>3, <2>4, <2>5
<1>12. CASE StConnectError
  BY <1>1, <1>12 DEF StConnectError, Continues, Connections
<1>13. CASE StRegister
  BY <1>1, <1>13 DEF StRegister, Continues, Connections
<1>14. CASE StRegisterComplete
  <2> DEFINE c == [conn EXCEPT !.registering = FALSE]
  <2>1. c \in Connections /\ c.callback = conn.callback /\ c.disconnected = conn.disconnected
    BY <1>1 DEF Connections
  <2>2. cpu = "event" /\ et.state = "register_complete"
    BY <1>14 DEF StRegisterComplete, Running
  <2>3. CASE IfDisconnected("register_error")
    BY <1>2, <2>3
  <2>4. CASE conn' = [conn EXCEPT !.registering = FALSE, !.retry_count = 0] /\ UNCHANGED <<machine, calls>>
    BY <1>1, <2>4 DEF Continues, Connections
  <2>5. CASE conn' = [conn EXCEPT !.retry_count = @ + 1] /\ UNCHANGED <<machine, calls>>
    BY <1>1, <2>5 DEF Continues, Connections
  <2>6. ASSUME NEW n, ~conn.disconnected, Established(c, timers, "success", n)
        PROVE  Lifecycle!Succeed
    <3> HIDE DEF c
    <3> QED
      BY <2>1, <2>2, <2>6, EstablishedSucceeds
  <2> QED
    BY <1>14, <2>3, <2>4, <2>5, <2>6 DEF StRegisterComplete
<1>15. CASE StRegisterError
  BY <1>1, <1>15 DEF StRegisterError, Continues, Connections
<1>16. CASE StResume
  BY <1>1, <1>16 DEF StResume, Continues, Connections
<1>17. CASE StResolveChannels
  BY <1>1, <1>2, <1>17 DEF StResolveChannels, Continues, Connections
<1>18. CASE StResolveCmodes
  BY <1>1, <1>2, <1>18 DEF StResolveCmodes, Continues
<1>19. CASE StResumeCompleted
  <2> DEFINE c == [conn EXCEPT !.registering = FALSE]
  <2>1. c \in Connections /\ c.callback = conn.callback /\ c.disconnected = conn.disconnected
    BY <1>1 DEF Connections
  <2>2. cpu = "event" /\ et.state = "resume_completed"
    BY <1>19 DEF StResumeCompleted, Running
  <2>3. CASE IfDisconnected("resume_error")
    BY <1>2, <2>3
  <2>4. CASE UNCHANGED <<conn, machine, calls>>
    BY <1>1, <2>4 DEF Continues
  <2>5. ASSUME ~conn.disconnected, Established(c, timers, "resumed", 2)
        PROVE  Lifecycle!Succeed
    <3> HIDE DEF c
    <3> QED
      BY <2>1, <2>2, <2>5, EstablishedSucceeds
  <2> QED
    BY <1>19, <2>3, <2>4, <2>5 DEF StResumeCompleted
<1>20. CASE StResumeError
  BY <1>1, <1>20 DEF StResumeError, Continues, Connections
<1>21. CASE StRekey
  BY <1>1, <1>21 DEF StRekey, Continues, Connections
<1> QED
  BY <1>4, <1>5, <1>6, <1>7, <1>8, <1>9, <1>10, <1>11, <1>12, <1>13, <1>14, <1>15, <1>16,
     <1>17, <1>18, <1>19, <1>20, <1>21 DEF EventStep

(* The application aborts an attempt it has not been told the outcome of.  *)
LEMMA AbortLife ==
  ASSUME ConnInv, ~Broken, ~Broken', Abort
  PROVE  Lifecycle!Abort
<1>1. machine \in Machines /\ conn \in Connections
  BY MachineStages
<1>2. conn.cop /\ machine.state \in {"none", "run", "close"} /\ calls' = calls
  BY DEF Abort
<1>3. conn.callback /\ calls = <<>>
  BY <1>2 DEF ConnInv, Told
<1>4. conn'.callback = FALSE /\ conn'.disconnected = TRUE
  BY <1>1 DEF Abort, Connections
<1>5. machine'.state = machine.state
  BY <1>1 DEF Abort, Signal, Machines
<1>6. Phase = "connecting" /\ Phase' = "aborted"
  BY <1>2, <1>3, <1>4, <1>5 DEF Phase, Stage
<1> QED
  BY <1>2, <1>4, <1>6 DEF Lifecycle!Abort

(* The machine finishes, and tells an application that has not aborted why. *)
LEMMA CloseFinishLife ==
  ASSUME ConnInv, ~Broken, ~Broken', CloseFinish
  PROVE  Lifecycle!Close
<1>1. machine \in Machines /\ conn \in Connections
  BY MachineStages
<1>2. machine.state = "close" /\ machine'.state = "finished"
  BY <1>1 DEF CloseFinish, CloseReady, Machines
<1>3. conn.disconnected
  BY <1>2 DEF ConnInv, Starting
<1>4. conn'.disconnected = conn.disconnected
  BY <1>1 DEF CloseFinish, AbortOp, Connections
<1>5. Phase' = "closed"
  BY <1>2 DEF Phase, Stage
<1>6. CASE conn.callback
  <2>1. conn.status \in Statuses \ {"success", "resumed"}
    BY <1>1, <1>3, <1>6 DEF ConnInv, Told, Bad, Connections
  <2>2. calls' = Append(calls, conn.status)
    BY <1>6 DEF CloseFinish
  <2>3. Phase \in {"connecting", "up"}
    BY <1>2, <1>6 DEF Phase, Stage
  <2> QED
    BY <1>3, <1>4, <1>5, <2>1, <2>2, <2>3 DEF Lifecycle!Close
<1>7. CASE ~conn.callback
  <2>1. calls' = calls
    BY <1>7 DEF CloseFinish
  <2>2. Phase = "aborted"
    BY <1>2, <1>7 DEF Phase, Stage
  <2> QED
    BY <1>3, <1>4, <1>5, <2>1, <2>2 DEF Lifecycle!Close
<1> QED
  BY <1>6, <1>7

(* The connection is deleted once its machine has finished.                *)
LEMMA DestroyLife ==
  ASSUME ConnInv, ~Broken, ~Broken', Destroy
  PROVE  Lifecycle!Delete
<1>1. machine \in Machines
  BY MachineStages
<1>2. Count(queue, "fin") > 0
  BY Dispatched DEF Destroy
<1>3. machine.state = "finished"
  BY <1>2 DEF ConnInv, Control
<1>4. machine'.state = "deleted" /\ UNCHANGED <<conn, calls>>
  BY <1>1 DEF Destroy, Machines
<1>5. Phase = "closed" /\ Phase' = "gone"
  BY <1>3, <1>4 DEF Phase, Stage
<1> QED
  BY <1>4, <1>5 DEF Lifecycle!Delete

(* Until the first disturbance every step of a connection is one that      *)
(* ConnectionLifecycle allows: the application is told of a success at     *)
(* most once and only while the connecting has neither been aborted nor    *)
(* asked to close; the close is told once, never as a success and never to *)
(* one that has aborted; and the connection is deleted only after it.      *)
THEOREM ConnectionKeepsLifecycle ==
  Spec => Lifecycle!Init /\ [][late' = "none" => [Lifecycle!Next]_(Lifecycle!lifecycle)]_vars
<1>1. Init => Lifecycle!Init
  <2> SUFFICES ASSUME Init PROVE Lifecycle!Init
    OBVIOUS
  <2>1. /\ machine.state = "none" /\ conn.callback /\ conn.disconnected = FALSE /\ calls = <<>>
        /\ cpu = "idle" /\ Head(queue) = "start"
    BY DEF Init
  <2>2. ~Broken
    BY <2>1 DEF Broken, RunsFinished, RestartsBusy, Restarts, LeavesThreads, Dispatch, Idle
  <2>3. Phase = "connecting"
    BY <2>1, <2>2 DEF Phase, Stage
  <2> QED
    BY <2>1, <2>3 DEF Lifecycle!Init
<1>2. (late = "none" => ConnInv) /\ [Next]_vars
        => [late' = "none" => [Lifecycle!Next]_(Lifecycle!lifecycle)]_vars
  <2> SUFFICES ASSUME late = "none" => ConnInv, Next, late' = "none"
               PROVE  [Lifecycle!Next]_(Lifecycle!lifecycle)
    OBVIOUS
  <2>0. ConnInv /\ ConnInv'
    BY NextKeeps, LateStays
  <2>1. conn' \in Connections
    BY <2>0 DEF ConnInv, Typed
  <2>2. CASE UNCHANGED vars
    BY <2>2 DEF vars, Lifecycle!lifecycle, Phase, Stage, Broken, RunsFinished, RestartsBusy, Restarts,
                NoFlag, LeavesThreads, Dispatch, Idle
  <2>3. CASE ~Broken /\ Broken'
    BY <2>3 DEF Phase, Stage, Lifecycle!Disturb, Lifecycle!Next
  <2>4. CASE ~Broken /\ ~Broken' /\ (Scheduled \/ Answered \/ Unforced)
    <3>1. CASE Continues
      BY <2>0, <2>1, <2>4, <3>1, ContinuesLife
    <3>2. CASE MachineStep
      BY <2>0, <2>4, <3>1, <3>2, MachineContinues, CloseFinishLife DEF Lifecycle!Next
    <3>3. CASE EventStep
      BY <2>0, <2>4, <3>1, <3>3, EventLife DEF Lifecycle!Next
    <3>4. CASE TaskStep
      BY <2>0, <2>4, <3>1, <3>4, TaskContinues, DestroyLife DEF Lifecycle!Next
    <3>5. CASE Answered
      BY <2>0, <3>1, <3>5, AnsweredContinues
    <3>6. CASE Unforced
      BY <2>0, <2>4, <3>1, <3>6, UnforcedContinues, AbortLife DEF Lifecycle!Next
    <3> QED
      BY <2>4, <3>2, <3>3, <3>4, <3>5, <3>6 DEF Scheduled
  <2> QED
    BY <2>2, <2>3, <2>4 DEF Next, Scheduled, Answered, Unforced, Done
<1> QED
  BY <1>1, <1>2, ConnInvariant, PTL DEF Spec
=============================================================================
