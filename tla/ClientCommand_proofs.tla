------------------------ MODULE ClientCommand_proofs ------------------------
(***************************************************************************)
(* Proofs about ClientCommand, for every number of commands, every choice  *)
(* of the kinds called and sent, and every range of identifiers.           *)
(*                                                                         *)
(* CommandInv says in which states a command is pending, asked or due as a *)
(* task, that a WHOIS that resolves clients waits for as long as the reply *)
(* it is needed for, and which identifier every command has taken.         *)
(***************************************************************************)
EXTENDS ClientCommand, Loops, SequenceTheorems, TLAPS

-----------------------------------------------------------------------------
(* The invariant.                                                          *)

States == {"idle", "delay", "ask", "quit", "wait", "resolve", "resume",
           "finish", "gone"}
Commands == [kind : AllKinds \union {"none"}, st : States, ident : 0..MaxIdent,
             called : BOOLEAN, parent : Cmd \union {None}, list : BOOLEAN,
             answers : 0..2]
Questions == [owner : Cmd, kind : AllKinds, ident : 0..MaxIdent,
              items : 0..(MaxItems + 1)]
TaskSet == [do : {"run", "finish", "close", "destroy"}, cmd : Cmd \union {None}]

(* The commands m themselves.  Only a finished one has answered.           *)
Thread(x) ==
  /\ x.st \notin {"idle", "gone"} => x.kind \in AllKinds
  /\ x.answers = 0 \/ (x.answers = 1 /\ x.st = "finish")
  /\ x.st = "delay" => x.called /\ x.kind \in {"NICK", "JOIN"}
  /\ x.st = "quit" => x.kind = "QUIT"
  /\ x.st = "resolve" => x.kind \in Resolving
  /\ x.parent # None => x.kind = "WHOIS" /\ x.st \in {"wait", "finish"}
ThreadsOK(m) == m \in [Cmd -> Commands] /\ \A c \in Cmd : Thread(m[c])

(* A WHOIS that waits is needed by one reply, which waits for it.          *)
Needed(m, c, p) == m[c].st = "wait" /\ m[c].parent = p /\ p # None
Kin(m) ==
  /\ \A c, p \in Cmd : Needed(m, c, p) => m[p].st = "resolve"
  /\ \A c, d, p \in Cmd : Needed(m, c, p) /\ Needed(m, d, p) => c = d

(* The pending list p.                                                     *)
Listed(p, c) == \E i \in 1..Len(p) : p[i] = c
PendingOK(m, p) ==
  /\ p \in Seq(Cmd) /\ \A i, j \in 1..Len(p) : p[i] = p[j] => i = j
  /\ \A c \in Cmd : Listed(p, c) =>
       m[c].st \in {"wait", "quit"} \/ (m[c].st = "finish" /\ m[c].kind = "QUIT")

(* What the server owes.                                                   *)
AskedOK(m, p, a) ==
  /\ a \subseteq Questions
  /\ \A r \in a : /\ r.kind # "QUIT"
                  /\ m[r.owner].st \in {"wait", "finish", "gone"}
                  /\ m[r.owner].st = "wait" => Listed(p, r.owner)
  /\ \A r, s \in a : r.owner = s.owner => r = s

(* The tasks q; a continued thread is due once.                            *)
TaskOK(m, t) ==
  /\ t.do = "run" => t.cmd \in Cmd /\ m[t.cmd].st = "resume"
  /\ t.do = "finish" => t.cmd \in Cmd /\ m[t.cmd].st \in {"finish", "gone"}
RunOnce(q) ==
  \A i, j \in 1..Len(q) :
    q[i].do = "run" /\ q[j].do = "run" /\ q[i].cmd = q[j].cmd => i = j
TasksOK(m, q) ==
  q \in Seq(TaskSet) /\ (\A i \in 1..Len(q) : TaskOK(m, q[i])) /\ RunOnce(q)

(* The flag and the machine.                                               *)
MachineOK(a, d, x, q) ==
  /\ d \in BOOLEAN /\ x \in {"run", "finish", "gone"}
  /\ x # "run" => d /\ a = {}
  /\ \A i \in 1..Len(q) : /\ q[i].do = "close" => d
                          /\ q[i].do = "destroy" => x # "run"

(* What is owed while the connection is up.                                *)
UpOK(m, t, d) ==
  /\ t \subseteq Cmd
  /\ ~ d =>
       /\ \A c \in Cmd : m[c].st = "finish" =>
            m[c].answers = 1 \/ (m[c].called /\ m[c].kind \in {"NICK", "JOIN"})
       /\ \A p \in Cmd : m[p].st = "resolve" => \E c \in Cmd : Needed(m, c, p)
       /\ \A c \in t : m[c].st = "wait" /\ m[c].parent # None

(* The k-th identifier after i, and the identifiers taken when n commands  *)
(* have been allocated.                                                    *)
Nth(i, k) == IF i + k <= MaxIdent THEN i + k ELSE i + k - MaxIdent
Taken(m, a, id, i, n) ==
  /\ id = Nth(i, n)
  /\ \A c \in Cmd : m[c].st = "idle" <=> c > n
  /\ \A c \in Cmd : m[c].st \notin {"idle", "gone"} => m[c].ident = Nth(i, c)
  /\ \A r \in a : r.ident = Nth(i, r.owner)
IdentOK(m, a, id, x) ==
  /\ id \in 0..MaxIdent
  /\ x # "gone" =>
       \E i \in 0..MaxIdent, n \in 0..MaxCmds : Taken(m, a, id, i, n)

CommandInv ==
  /\ ThreadsOK(cmd) /\ Kin(cmd)
  /\ PendingOK(cmd, pending) /\ AskedOK(cmd, pending, asked)
  /\ TasksOK(cmd, tasks) /\ MachineOK(asked, disconnected, machine, tasks)
  /\ UpOK(cmd, attached, disconnected)
  /\ IdentOK(cmd, asked, ident, machine)

-----------------------------------------------------------------------------
(* The identifiers.                                                        *)

(* silc_client_cmd_ident takes one identifier after the other; zero is not *)
(* among them.                                                             *)
LEMMA NthNext ==
  ASSUME NEW i \in 0..MaxIdent, NEW n \in 0..MaxCmds, n < MaxCmds
  PROVE  /\ CmdIdent(Nth(i, n)) = Nth(i, n + 1)
         /\ Nth(i, n + 1) \in 1..MaxIdent
  BY BoundAssumption, IdentAssumption DEF CmdIdent, Nth

(* No two commands of a run have the same identifier.                      *)
LEMMA NthDiffer ==
  ASSUME NEW i \in 0..MaxIdent, NEW c \in Cmd, NEW d \in Cmd, Nth(i, c) = Nth(i, d)
  PROVE  c = d
  BY BoundAssumption, IdentAssumption DEF Nth, Cmd

-----------------------------------------------------------------------------
(* The pending list.                                                       *)

(* silc_list_del takes one command off the list and keeps the others.      *)
LEMMA Removed ==
  ASSUME NEW p \in Seq(Cmd), \A i, j \in 1..Len(p) : p[i] = p[j] => i = j, NEW c \in Cmd
  PROVE  /\ RemoveFirst(p, c) \in Seq(Cmd)
         /\ \A i, j \in 1..Len(RemoveFirst(p, c)) :
              RemoveFirst(p, c)[i] = RemoveFirst(p, c)[j] => i = j
         /\ \A x \in Cmd : Listed(RemoveFirst(p, c), x) <=> Listed(p, x) /\ x # c
<1>1. CASE ~ \E i \in 1..Len(p) : p[i] = c
  BY <1>1 DEF RemoveFirst, Listed
<1>2. CASE \E i \in 1..Len(p) : p[i] = c
  <2> DEFINE I == {i \in 1..Len(p) : p[i] = c}
             k == SelectInSeq(p, LAMBDA v : v = c)
  <2>1. PICK h \in I : \A y \in I : h <= y
    <3>1. I \subseteq Nat /\ I # {}
      BY <1>2
    <3> QED
      BY <3>1, NatMin
  <2>2. k \in 1..Len(p) /\ p[k] = c
    <3>1. k = Min(I)
      BY <1>2 DEF SelectInSeq
    <3>2. Min(I) \in I
      BY <2>1 DEF Min
    <3> QED
      BY <3>1, <3>2
  <2>3. RemoveFirst(p, c) = RemoveAt(p, k)
    BY <1>2 DEF RemoveFirst
  <2> HIDE DEF k
  <2> DEFINE q == RemoveAt(p, k)
  <2>4. /\ q \in Seq(Cmd) /\ Len(q) = Len(p) - 1
        /\ \A i \in 1..Len(q) : q[i] = IF i < k THEN p[i] ELSE p[i + 1]
    <3> DEFINE a == SubSeq(p, 1, k - 1)
               b == SubSeq(p, k + 1, Len(p))
    <3>1. /\ a \in Seq(Cmd) /\ Len(a) = k - 1
          /\ \A i \in 1..Len(a) : a[i] = p[i]
      BY <2>2
    <3>2. /\ b \in Seq(Cmd) /\ Len(b) = Len(p) - k
          /\ \A i \in 1..Len(b) : b[i] = p[k + i]
      BY <2>2
    <3>3. q = a \o b
      BY DEF RemoveAt
    <3> HIDE DEF a, b, q
    <3>4. /\ Len(q) = Len(a) + Len(b)
          /\ \A i \in 1..Len(a) : q[i] = a[i]
          /\ \A i \in 1..Len(b) : q[Len(a) + i] = b[i]
      BY <3>1, <3>2, <3>3
    <3>6. q \in Seq(Cmd)
      BY <3>1, <3>2, <3>3, ConcatProperties
    <3>5. ASSUME NEW i \in 1..Len(q) PROVE q[i] = IF i < k THEN p[i] ELSE p[i + 1]
      <4>1. CASE i < k
        BY <2>2, <3>1, <3>2, <3>4, <4>1
      <4>2. CASE i >= k
        <5>1. PICK j \in 1..Len(b) : i = Len(a) + j
          <6>1. i - Len(a) \in 1..Len(b) /\ i = Len(a) + (i - Len(a))
            BY <2>2, <3>1, <3>2, <3>4, <4>2
          <6> QED
            BY <6>1
        <5>2. k + j = i + 1
          BY <2>2, <3>1, <5>1
        <5>3. q[i] = p[i + 1]
          BY <3>2, <3>4, <5>1, <5>2
        <5> QED
          BY <2>2, <4>2, <5>3
      <4> QED
        BY <2>2, <4>1, <4>2
    <3> QED
      BY <2>2, <3>1, <3>2, <3>4, <3>5, <3>6
  <2> HIDE DEF q
  <2>5. \A i, j \in 1..Len(q) : q[i] = q[j] => i = j
    BY <2>2, <2>4
  <2>6. ASSUME NEW x \in Cmd PROVE Listed(q, x) <=> Listed(p, x) /\ x # c
    <3>1. ASSUME Listed(q, x) PROVE Listed(p, x) /\ x # c
      BY <2>2, <2>4, <3>1 DEF Listed
    <3>2. ASSUME NEW i \in 1..Len(p), p[i] = x, x # c PROVE Listed(q, x)
      <4>1. CASE i < k
        BY <2>2, <2>4, <3>2, <4>1 DEF Listed
      <4>2. CASE i > k
        <5>1. i - 1 \in 1..Len(q) /\ q[i - 1] = x
          BY <2>2, <2>4, <3>2, <4>2
        <5> QED
          BY <5>1 DEF Listed
      <4> QED
        BY <2>2, <3>2, <4>1, <4>2
    <3> QED
      BY <3>1, <3>2 DEF Listed
  <2> QED
    BY <2>3, <2>4, <2>5, <2>6 DEF q
<1> QED
  BY <1>1, <1>2

(* The command silc_client_command_reply finds is pending and is asked     *)
(* for: the list has a first command with the reply's identifier.          *)
LEMMA Found ==
  ASSUME pending \in Seq(Cmd), NEW r, Find(r) # None
  PROVE  Find(r) \in Cmd /\ Listed(pending, Find(r)) /\ Matches(Find(r), r)
<1> DEFINE I == {i \in 1..Len(pending) : Matches(pending[i], r)}
<1>1. I # {} /\ I \subseteq Nat
  BY DEF Find
<1>2. PICK h \in I : \A y \in I : h <= y
  BY <1>1, NatMin
<1> DEFINE first(i) == Matches(pending[i], r) /\ \A j \in 1..(i - 1) : ~ Matches(pending[j], r)
           k == CHOOSE i \in 1..Len(pending) : first(i)
<1>3. h \in 1..Len(pending) /\ first(h)
  BY <1>2
<1>4. k \in 1..Len(pending) /\ first(k)
  BY <1>3
<1>5. Find(r) = pending[k]
  BY <1>1 DEF Find
<1> HIDE DEF k
<1> QED
  BY <1>4, <1>5 DEF Listed

(* The loop of silc_client_connection_st_close, over the tasks.            *)
LEMMA ClosedLoop ==
  ASSUME pending \in Seq(Cmd)
  PROVE  /\ Closed[0] = Tail(tasks)
         /\ \A i \in 1..Len(pending) :
              Closed[i] = Closed[i - 1] \o
                (IF pending[i] \in Woken
                 THEN FinishTasks(pending[i], pending[i] \in WokenFinal) ELSE <<>>)
<1> DEFINE item(i) == IF pending[i] \in Woken
                      THEN FinishTasks(pending[i], pending[i] \in WokenFinal) ELSE <<>>
           n == Len(pending)
           e == [i \in 1..n |-> item(i)]
           Is(f) == f = [i \in 0..n |-> IF i = 0 THEN Tail(tasks) ELSE f[i - 1] \o item(i)]
<1>1. n \in Nat
  OBVIOUS
<1> HIDE DEF n, e
<1>2. PICK f : Joins(f, n, Tail(tasks), e)
  BY <1>1, Joinable
<1>3. Closed = CHOOSE g : Is(g)
  BY DEF Closed, n
<1> HIDE DEF item
<1>4. Is(f)
  <2>1. \A i \in 0..n : i # 0 => e[i] = item(i)
    BY <1>1 DEF e
  <2> QED
    BY <1>2, <2>1, Zenon DEF Joins
<1>5. Is(Closed)
  BY <1>3, <1>4, Zenon
<1>6. Closed[0] = Tail(tasks)
  BY <1>1, <1>5
<1>7. ASSUME NEW i \in 1..n PROVE Closed[i] = Closed[i - 1] \o item(i)
  <2>1. i \in 0..n /\ i # 0
    BY <1>1
  <2> QED
    BY <1>5, <2>1
<1> QED
  BY <1>6, <1>7 DEF item, n

(* The same loop, over the pending list.                                   *)
LEMMA StillPendingLoop ==
  ASSUME pending \in Seq(Cmd)
  PROVE  /\ StillPending[0] = <<>>
         /\ \A i \in 1..Len(pending) :
              StillPending[i] = StillPending[i - 1] \o
                (IF cmd[pending[i]].st = "wait" THEN <<>> ELSE <<pending[i]>>)
<1> DEFINE item(i) == IF cmd[pending[i]].st = "wait" THEN <<>> ELSE <<pending[i]>>
           n == Len(pending)
           e == [i \in 1..n |-> item(i)]
           Is(f) == f = [i \in 0..n |-> IF i = 0 THEN <<>> ELSE f[i - 1] \o item(i)]
<1>1. n \in Nat
  OBVIOUS
<1> HIDE DEF n, e
<1>2. PICK f : Joins(f, n, <<>>, e)
  BY <1>1, Joinable
<1>3. StillPending = CHOOSE g : Is(g)
  BY DEF StillPending, n
<1> HIDE DEF item
<1>4. Is(f)
  <2>1. \A i \in 0..n : i # 0 => e[i] = item(i)
    BY <1>1 DEF e
  <2> QED
    BY <1>2, <2>1, Zenon DEF Joins
<1>5. Is(StillPending)
  BY <1>3, <1>4, Zenon
<1>6. StillPending[0] = <<>>
  BY <1>1, <1>5
<1>7. ASSUME NEW i \in 1..n PROVE StillPending[i] = StillPending[i - 1] \o item(i)
  <2>1. i \in 0..n /\ i # 0
    BY <1>1
  <2> QED
    BY <1>5, <2>1
<1> QED
  BY <1>6, <1>7 DEF item, n

(* What the loop leaves on the list: the commands that do not wait.        *)
LEMMA StillPendingSpec ==
  ASSUME PendingOK(cmd, pending)
  PROVE  LET q == StillPending[Len(pending)] IN
         /\ q \in Seq(Cmd) /\ \A i, j \in 1..Len(q) : q[i] = q[j] => i = j
         /\ \A x \in Cmd : Listed(q, x) <=> Listed(pending, x) /\ cmd[x].st # "wait"
<1> DEFINE n == Len(pending)
           q(k) == StillPending[k]
           Before(x, k) == \E i \in 1..k : pending[i] = x
           Q(k) == /\ q(k) \in Seq(Cmd)
                   /\ \A i, j \in 1..Len(q(k)) : q(k)[i] = q(k)[j] => i = j
                   /\ \A x \in Cmd : Listed(q(k), x) <=> Before(x, k) /\ cmd[x].st # "wait"
           S == {k \in Nat : k <= n => Q(k)}
<1>1. /\ n \in Nat /\ \A i \in 1..n : pending[i] \in Cmd
      /\ \A i, j \in 1..n : pending[i] = pending[j] => i = j
  BY DEF PendingOK
<1>2. /\ q(0) = <<>>
      /\ \A i \in 1..n : q(i) = q(i - 1) \o
                (IF cmd[pending[i]].st = "wait" THEN <<>> ELSE <<pending[i]>>)
  BY StillPendingLoop DEF PendingOK
<1> HIDE DEF n, q
<1>3. 0 \in S
  <2>1. q(0) \in Seq(Cmd) /\ Len(q(0)) = 0
    <3>1. q(0) = <<>>
      BY <1>2
    <3>2. <<>> \in Seq(Cmd) /\ Len(<<>>) = 0
      OBVIOUS
    <3> QED
      BY ONLY <3>1, <3>2
  <2>2. \A x : ~ Listed(q(0), x) /\ ~ Before(x, 0)
    BY <2>1 DEF Listed
  <2> QED
    BY <2>1, <2>2
<1>4. ASSUME NEW k \in Nat, k \in S, k + 1 <= n PROVE Q(k + 1)
  <2> DEFINE c == pending[k + 1]
  <2>1. Q(k) /\ k + 1 \in 1..n /\ c \in Cmd
    BY <1>1, <1>4
  <2>6. q(k + 1) = q(k) \o (IF cmd[c].st = "wait" THEN <<>> ELSE <<c>>)
    <3>1. (k + 1) - 1 = k
      OBVIOUS
    <3> QED
      BY <1>2, <2>1, <3>1
  <2>2. \A x : Before(x, k + 1) <=> Before(x, k) \/ x = c
    BY <1>1, <1>4
  <2>3. ~ Before(c, k)
    BY <1>1, <1>4
  <2>4. CASE cmd[c].st = "wait"
    <3>1. q(k + 1) = q(k)
      <4>1. q(k + 1) = q(k) \o <<>>
        BY <2>4, <2>6
      <4> QED
        BY <2>1, <4>1, ConcatEmptySeq
    <3> QED
      BY <2>1, <2>2, <2>4, <3>1
  <2>5. CASE cmd[c].st # "wait"
    <3> HIDE DEF c
    <3>1. q(k + 1) = Append(q(k), c)
      BY <2>1, <2>5, <2>6, AppendIsConcat
    <3>2. /\ q(k + 1) \in Seq(Cmd) /\ Len(q(k + 1)) = Len(q(k)) + 1
          /\ \A i \in 1..Len(q(k)) : q(k + 1)[i] = q(k)[i]
          /\ q(k + 1)[Len(q(k)) + 1] = c
      BY <2>1, <3>1, AppendProperties, SMTT(20)
    <3>3. ~ Listed(q(k), c)
      BY <2>1, <2>3
    <3>4. \A i, j \in 1..Len(q(k + 1)) : q(k + 1)[i] = q(k + 1)[j] => i = j
      BY <2>1, <3>2, <3>3, SMTT(20) DEF Listed
    <3>5. ASSUME NEW x PROVE Listed(q(k + 1), x) <=> Listed(q(k), x) \/ x = c
      <4>1. Len(q(k)) \in Nat
        BY <2>1
      <4>2. \A i : i \in 1..Len(q(k + 1)) <=> i \in 1..Len(q(k)) \/ i = Len(q(k)) + 1
        BY <3>2, <4>1
      <4> QED
        BY <3>2, <4>2 DEF Listed
    <3> HIDE DEF Before
    <3> QED
      BY <2>1, <2>2, <2>5, <3>2, <3>4, <3>5
  <2> QED
    BY <2>4, <2>5
<1>5. \A k \in Nat : k \in S
  <2> HIDE DEF Q
  <2>1. \A k \in Nat : k \in S => k + 1 \in S
    BY <1>4
  <2> HIDE DEF S
  <2> QED
    BY <1>3, <2>1, NatInd
<1>6. Q(n)
  <2> HIDE DEF Q
  <2> QED
    BY <1>1, <1>5
<1> QED
  BY <1>6 DEF n, q, Listed

-----------------------------------------------------------------------------
(* Tasks.                                                                  *)

(* Tasks stay right while the threads that are due are.                    *)
LEMMA TasksKept ==
  ASSUME NEW m, NEW m2, NEW q, TasksOK(m, q),
         \A c \in Cmd : /\ m[c].st = "resume" => m2[c].st = "resume"
                        /\ m[c].st \in {"finish", "gone"} => m2[c].st \in {"finish", "gone"}
  PROVE  TasksOK(m2, q)
  BY DEF TasksOK, TaskOK

(* What a concatenation holds comes from one of its parts.                 *)
LEMMA FromEither ==
  ASSUME NEW q \in Seq(TaskSet), NEW s \in Seq(TaskSet), NEW j \in 1..Len(q \o s)
  PROVE  \/ \E i \in 1..Len(q) : (q \o s)[j] = q[i]
         \/ \E i \in 1..Len(s) : (q \o s)[j] = s[i]
<1> DEFINE r == q \o s
<1>1. /\ r \in Seq(TaskSet) /\ Len(r) = Len(q) + Len(s) /\ Len(q) \in Nat /\ Len(s) \in Nat
      /\ \A i \in 1..Len(q) : r[i] = q[i]
      /\ \A i \in 1..Len(s) : r[Len(q) + i] = s[i]
  OBVIOUS
<1>2. j \in 1..Len(r)
  OBVIOUS
<1> HIDE DEF r
<1>3. CASE j \in 1..Len(q)
  BY <1>1, <1>3 DEF r
<1>4. CASE j \notin 1..Len(q)
  <2>1. j - Len(q) \in 1..Len(s) /\ j = Len(q) + (j - Len(q))
    BY <1>1, <1>2, <1>4
  <2>2. r[j] = s[j - Len(q)]
    BY <1>1, <2>1
  <2> QED
    BY <2>1, <2>2 DEF r
<1> QED
  BY <1>3, <1>4

(* Tasks of different threads may be put together.                         *)
LEMMA TasksJoined ==
  ASSUME NEW m, NEW q, NEW s, TasksOK(m, q), TasksOK(m, s),
         \A i \in 1..Len(q), j \in 1..Len(s) :
           q[i].do = "run" /\ s[j].do = "run" => q[i].cmd # s[j].cmd
  PROVE  TasksOK(m, q \o s)
<1> DEFINE r == q \o s
<1>1. q \in Seq(TaskSet) /\ s \in Seq(TaskSet)
  BY DEF TasksOK
<1>2. /\ r \in Seq(TaskSet) /\ Len(r) = Len(q) + Len(s)
      /\ \A i \in 1..Len(q) : r[i] = q[i]
      /\ \A i \in 1..Len(s) : r[Len(q) + i] = s[i]
  BY <1>1
<1> HIDE DEF r
<1>3. ASSUME NEW i \in 1..Len(r), i \notin 1..Len(q)
      PROVE  \E j \in 1..Len(s) : i = Len(q) + j
  <2>1. i - Len(q) \in 1..Len(s) /\ i = Len(q) + (i - Len(q))
    BY <1>1, <1>2, <1>3
  <2> QED
    BY <2>1
<1>4. \A i \in 1..Len(r) : TaskOK(m, r[i])
  BY <1>2, <1>3 DEF TasksOK
<1>5. RunOnce(r)
  <2> SUFFICES ASSUME NEW i \in 1..Len(r), NEW j \in 1..Len(r),
                      r[i].do = "run", r[j].do = "run", r[i].cmd = r[j].cmd
               PROVE  i = j
    BY DEF RunOnce
  <2>1. CASE i \in 1..Len(q) /\ j \in 1..Len(q)
    BY <1>2, <2>1 DEF TasksOK, RunOnce
  <2>2. CASE i \in 1..Len(q) /\ j \notin 1..Len(q)
    <3>1. PICK l \in 1..Len(s) : j = Len(q) + l
      BY <1>3, <2>2
    <3> QED
      BY <1>2, <2>2, <3>1
  <2>3. CASE i \notin 1..Len(q) /\ j \in 1..Len(q)
    <3>1. PICK l \in 1..Len(s) : i = Len(q) + l
      BY <1>3, <2>3
    <3> QED
      BY <1>2, <2>3, <3>1
  <2>4. CASE i \notin 1..Len(q) /\ j \notin 1..Len(q)
    <3>1. PICK k \in 1..Len(s) : i = Len(q) + k
      BY <1>3, <2>4
    <3>2. PICK l \in 1..Len(s) : j = Len(q) + l
      BY <1>3, <2>4
    <3> QED
      BY <1>2, <3>1, <3>2 DEF TasksOK, RunOnce
  <2> QED
    BY <2>1, <2>2, <2>3, <2>4
<1> QED
  BY <1>2, <1>4, <1>5 DEF TasksOK, r

(* The first task is done.                                                 *)
LEMMA TasksTail ==
  ASSUME NEW m, NEW q, TasksOK(m, q), q # <<>>
  PROVE  /\ Head(q) \in TaskSet /\ TaskOK(m, Head(q)) /\ TasksOK(m, Tail(q))
         /\ \A i \in 1..Len(Tail(q)) : \E j \in 1..Len(q) : Tail(q)[i] = q[j]
         /\ Head(q).do = "run" =>
              \A i \in 1..Len(Tail(q)) : Tail(q)[i].do = "run" => Tail(q)[i].cmd # Head(q).cmd
<1>1. /\ Head(q) = q[1] /\ 1 \in 1..Len(q) /\ Head(q) \in TaskSet
      /\ Tail(q) \in Seq(TaskSet) /\ Len(Tail(q)) = Len(q) - 1
      /\ \A i \in 1..Len(Tail(q)) : i + 1 \in 1..Len(q) /\ Tail(q)[i] = q[i + 1]
  BY DEF TasksOK
<1>2. RunOnce(Tail(q)) /\ \A i \in 1..Len(Tail(q)) : TaskOK(m, Tail(q)[i])
  BY <1>1 DEF TasksOK, RunOnce
<1> QED
  BY <1>1, <1>2 DEF TasksOK, RunOnce

-----------------------------------------------------------------------------
(* Finishing.                                                              *)

(* The fields that say which command it is.                                *)
Same(x, y) ==
  x.kind = y.kind /\ x.ident = y.ident /\ x.called = y.called /\ x.parent = y.parent

(* What becomes of command c when F and N finish: it finishes, the command *)
(* it was needed for goes on, or nothing.                                  *)
Ends(m, F, N, c) ==
  c \in F \union N /\ m[c].st = "finish" /\ m[c].answers = IF c \in F THEN 1 ELSE 0
GoesOn(m, F, c) ==
  /\ cmd[c].st = "resolve" /\ \E d \in F : Needed(cmd, d, c)
  /\ \/ cmd[c].kind = "JOIN" /\ m[c].st = "finish" /\ m[c].answers = 1
     \/ cmd[c].kind = "USERS" /\ m[c].st = "resume" /\ m[c].answers = 0
Stays(m, F, N, c) ==
  c \notin F \union N /\ (\A d \in F : ~ Needed(cmd, d, c)) /\ m[c] = cmd[c]
Finished(m, F, N) ==
  \A c \in Cmd : /\ Ends(m, F, N, c) \/ GoesOn(m, F, c) \/ Stays(m, F, N, c)
                 /\ Same(m[c], cmd[c])

(* A command that delivers its final status and finishes.                  *)
LEMMA Delivered ==
  ASSUME NEW x \in Commands, x.answers = 0, NEW y,
         y = [x EXCEPT !.st = "finish", !.answers = @ + 1]
  PROVE  y \in Commands /\ y.st = "finish" /\ y.answers = 1 /\ Same(y, x)
<1>1. y.answers = x.answers + 1
  BY DEF Commands
<1>2. y.answers = 1
  BY <1>1
<1>3. /\ y.st = "finish" /\ Same(y, x)
      /\ y = [x EXCEPT !.st = "finish", !.answers = y.answers]
  BY <1>1 DEF Commands, Same
<1>4. y.answers \in 0..2
  BY <1>2
<1>5. y \in Commands
  BY <1>3, <1>4 DEF Commands, States
<1> QED
  BY <1>2, <1>3, <1>5

(* Threads that wait or run finish, and their callbacks continue only      *)
(* commands whose reply waits for them.                                    *)
LEMMA FinishingSpec ==
  ASSUME ThreadsOK(cmd), Kin(cmd), NEW F \in SUBSET Cmd, NEW N \in SUBSET Cmd,
         \A c \in F \union N : cmd[c].st \in {"wait", "quit", "resume"}
  PROVE  /\ Finished(Finishing(F, N), F, N)
         /\ ThreadsOK(Finishing(F, N)) /\ Kin(Finishing(F, N))
<1> DEFINE m == Finishing(F, N)
<1>1. \A c \in Cmd : cmd[c] \in Commands /\ Thread(cmd[c]) /\ c # None
  BY BoundAssumption DEF ThreadsOK, Cmd, None
<1>2. ASSUME NEW d \in F, NEW c \in Cmd
      PROVE  c \in Continued(d) <=> Needed(cmd, d, c)
  <2>1. cmd[d].parent # None => cmd[d].st = "wait"
    BY <1>1 DEF Thread
  <2> QED
    BY <1>1, <2>1 DEF Continued, Needed
<1>3. ASSUME NEW c \in Cmd
      PROVE  /\ m[c] \in Commands /\ Thread(m[c]) /\ Same(m[c], cmd[c])
             /\ Ends(m, F, N, c) \/ GoesOn(m, F, c) \/ Stays(m, F, N, c)
  <2>1. CASE c \in F
    <3>2. cmd[c].answers = 0
      BY <1>1, <2>1 DEF Thread
    <3>1. m[c] = [cmd[c] EXCEPT !.st = "finish", !.answers = @ + 1]
      BY <2>1 DEF Finishing
    <3> HIDE DEF m
    <3>3. m[c] \in Commands /\ m[c].st = "finish" /\ m[c].answers = 1 /\ Same(m[c], cmd[c])
      BY <1>1, <3>1, <3>2, Delivered
    <3> QED
      BY <1>1, <2>1, <3>3 DEF Thread, Same, Ends
  <2>2. CASE c \notin F /\ c \in N
    <3>1. m[c] = [cmd[c] EXCEPT !.st = "finish"]
      BY <2>2 DEF Finishing
    <3>2. cmd[c].answers = 0
      BY <1>1, <2>2 DEF Thread
    <3> QED
      BY <1>1, <2>2, <3>1, <3>2 DEF Commands, States, Thread, Same, Ends
  <2>3. CASE c \notin F \union N /\ \E d \in F : c \in Continued(d)
    <3>1. m[c] = Resumed(c)
      BY <2>3 DEF Finishing
    <3>2. PICK d \in F : Needed(cmd, d, c)
      BY <1>2, <2>3
    <3>3. cmd[c].st = "resolve"
      BY <3>2 DEF Kin
    <3>4. cmd[c].kind \in {"JOIN", "USERS"} /\ cmd[c].answers = 0 /\ cmd[c].parent = None
      BY <1>1, <3>3 DEF Thread, Resolving
    <3>5. CASE cmd[c].kind = "JOIN"
      <4>1. m[c] = [cmd[c] EXCEPT !.st = "finish", !.answers = @ + 1]
        BY <3>1, <3>5 DEF Resumed
      <4> HIDE DEF m
      <4>2. m[c] \in Commands /\ m[c].st = "finish" /\ m[c].answers = 1 /\ Same(m[c], cmd[c])
        BY <1>1, <3>4, <4>1, Delivered
      <4> QED
        BY <3>2, <3>3, <3>4, <3>5, <4>2 DEF Thread, Same, GoesOn, AllKinds
    <3>6. CASE cmd[c].kind = "USERS"
      <4>1. m[c] = [cmd[c] EXCEPT !.st = "resume"]
        BY <3>1, <3>6 DEF Resumed
      <4> QED
        BY <1>1, <3>2, <3>3, <3>4, <3>6, <4>1
        DEF Commands, States, Thread, Same, GoesOn, AllKinds
    <3> QED
      BY <3>4, <3>5, <3>6
  <2>4. CASE c \notin F \union N /\ ~ \E d \in F : c \in Continued(d)
    <3>1. m[c] = cmd[c]
      BY <2>4 DEF Finishing
    <3> QED
      BY <1>1, <1>2, <2>4, <3>1 DEF Same, Stays
  <2> QED
    BY <2>1, <2>2, <2>3, <2>4
<1>4. ThreadsOK(m)
  <2>1. m = [c \in Cmd |-> m[c]]
    BY DEF Finishing
  <2> HIDE DEF m
  <2> QED
    BY <1>3, <2>1 DEF ThreadsOK
<1> HIDE DEF m
<1>5. ASSUME NEW c \in Cmd, NEW p \in Cmd, Needed(m, c, p)
      PROVE  Needed(cmd, c, p) /\ m[p].st = "resolve"
  <2>1. Stays(m, F, N, c)
    BY <1>3, <1>5 DEF Needed, Ends, GoesOn
  <2>2. Needed(cmd, c, p)
    BY <1>5, <2>1 DEF Needed, Stays
  <2>3. cmd[p].st = "resolve" /\ \A d \in F : ~ Needed(cmd, d, p)
    BY <2>1, <2>2 DEF Kin, Stays
  <2> QED
    BY <1>3, <2>2, <2>3 DEF Ends, GoesOn, Stays
<1>6. Kin(m)
  BY <1>5 DEF Kin
<1> QED
  BY <1>3, <1>4, <1>6 DEF Finished, m

-----------------------------------------------------------------------------
(* One command changes.                                                    *)

(* In m, command c is x and the others are what they were.                 *)
Becomes(m, c, x) ==
  m \in [Cmd -> Commands] /\ \A d \in Cmd : m[d] = IF d = c THEN x ELSE cmd[d]

(* An assignment to a field or to all of a command.                        *)
LEMMA Assigned ==
  ASSUME ThreadsOK(cmd), NEW c \in Cmd, NEW x \in Commands
  PROVE  Becomes([cmd EXCEPT ![c] = x], c, x)
  BY DEF ThreadsOK, Becomes

(* A command that no other waits for is replaced by x, which does not      *)
(* start to be waited for.                                                 *)
LEMMA Replaced ==
  ASSUME ThreadsOK(cmd), Kin(cmd), NEW c \in Cmd, NEW x, Thread(x),
         cmd[c].st # "resolve",
         x.st = "wait" => x.parent = None \/ (cmd[c].st = "wait" /\ x.parent = cmd[c].parent),
         NEW m, Becomes(m, c, x)
  PROVE  ThreadsOK(m) /\ Kin(m)
<1>1. ThreadsOK(m)
  BY DEF ThreadsOK, Becomes
<1>2. \A d, p \in Cmd : Needed(m, d, p) => Needed(cmd, d, p)
  BY DEF Needed, Becomes
<1>3. Kin(m)
  BY <1>2 DEF Kin, Becomes
<1> QED
  BY <1>1, <1>3

(* silc_client_command_send_vap of a command that starts to wait.          *)
LEMMA Sent ==
  ASSUME ThreadsOK(cmd), PendingOK(cmd, pending), AskedOK(cmd, pending, asked),
         NEW c \in Cmd, cmd[c].st \in {"idle", "delay", "resume"},
         NEW x \in Commands, x.st \in {"wait", "quit"}, x.kind \in AllKinds,
         x.st = "quit" => x.kind = "QUIT",
         NEW m, Becomes(m, c, x),
         SendVap(c, x.kind, x.ident)
  PROVE  /\ PendingOK(m, pending') /\ AskedOK(m, pending', asked')
         /\ \A r \in asked' : \/ r \in asked
                              \/ r.owner = c /\ r.ident = x.ident /\ x.st = "wait"
         /\ disconnected => asked' = asked
<1>1. ~ Listed(pending, c) /\ \A r \in asked : r.owner # c
  BY DEF PendingOK, AskedOK
<1>2. pending \in Seq(Cmd) /\ asked \subseteq Questions
  BY DEF PendingOK, AskedOK
<1>3. CASE disconnected
  <2>1. pending' = pending /\ asked' = asked
    BY <1>3 DEF SendVap
  <2> QED
    BY <1>1, <1>2, <2>1 DEF PendingOK, AskedOK, Questions, Becomes
<1>4. CASE ~ disconnected
  <2> DEFINE new == [owner |-> c, kind |-> x.kind, ident |-> x.ident, items |-> 0]
  <2>1. /\ pending' = Append(pending, c)
        /\ asked' = IF x.kind = "QUIT" THEN asked ELSE asked \union {new}
    BY <1>4 DEF SendVap
  <2>2. /\ pending' \in Seq(Cmd) /\ Len(pending') = Len(pending) + 1
        /\ \A i \in 1..Len(pending) : pending'[i] = pending[i]
        /\ pending'[Len(pending) + 1] = c
    BY <1>2, <2>1
  <2>3. \A d \in Cmd : Listed(pending', d) <=> Listed(pending, d) \/ d = c
    BY <1>2, <2>2 DEF Listed
  <2>4. \A i, j \in 1..Len(pending') : pending'[i] = pending'[j] => i = j
    BY <1>1, <1>2, <2>2 DEF Listed, PendingOK
  <2>5. PendingOK(m, pending')
    BY <2>2, <2>3, <2>4 DEF PendingOK, Becomes
  <2>6. new \in Questions /\ new.owner = c /\ new.ident = x.ident /\ new.kind = x.kind
    BY BoundAssumption DEF Questions, Commands
  <2> HIDE DEF new
  <2>7. \A r \in asked' : r \in asked \/ (r = new /\ x.kind # "QUIT")
    BY <2>1
  <2>8. AskedOK(m, pending', asked')
    BY <1>1, <1>2, <2>3, <2>6, <2>7 DEF AskedOK, Questions, Becomes
  <2> QED
    BY <1>4, <2>5, <2>6, <2>7, <2>8
<1> QED
  BY <1>3, <1>4

(* No identifier is taken: what is asked was, or is of a waiting command.  *)
LEMMA IdentKept ==
  ASSUME AskedOK(cmd, pending, asked), IdentOK(cmd, asked, ident, machine), NEW m, NEW a,
         \A c \in Cmd :
           /\ m[c].st = "idle" <=> cmd[c].st = "idle"
           /\ m[c].st \notin {"idle", "gone"} =>
                cmd[c].st \notin {"idle", "gone"} /\ m[c].ident = cmd[c].ident,
         \A r \in a :
           \/ \E s \in asked : r.owner = s.owner /\ r.ident = s.ident
           \/ r.owner \in Cmd /\ m[r.owner].st = "wait" /\ r.ident = m[r.owner].ident
  PROVE  IdentOK(m, a, ident, machine)
<1> SUFFICES ASSUME machine # "gone", NEW i \in 0..MaxIdent, NEW n \in 0..MaxCmds,
                    Taken(cmd, asked, ident, i, n)
             PROVE  Taken(m, a, ident, i, n)
  BY DEF IdentOK
<1> QED
  BY DEF Taken, AskedOK

(* A command is allocated and takes the next identifier, which is not 0.   *)
LEMMA IdentNew ==
  ASSUME AskedOK(cmd, pending, asked), IdentOK(cmd, asked, ident, machine),
         machine # "gone", NEW c \in Cmd, Fresh(c)
  PROVE  /\ CmdIdent(ident) \in 1..MaxIdent
         /\ \A m, a :
              /\ \A d \in Cmd :
                   /\ m[d].st = "idle" <=> cmd[d].st = "idle" /\ d # c
                   /\ m[d].st \notin {"idle", "gone"} /\ d # c =>
                        cmd[d].st \notin {"idle", "gone"} /\ m[d].ident = cmd[d].ident
              /\ m[c].st # "gone" => m[c].ident = CmdIdent(ident)
              /\ \A r \in a :
                   \/ \E s \in asked : r.owner = s.owner /\ r.ident = s.ident
                   \/ r.owner \in Cmd /\ m[r.owner].st = "wait" /\ r.ident = m[r.owner].ident
              => IdentOK(m, a, CmdIdent(ident), machine)
<1>1. PICK i \in 0..MaxIdent, n \in 0..MaxCmds : Taken(cmd, asked, ident, i, n)
  BY DEF IdentOK
<1>2. n < MaxCmds /\ c = n + 1
  <2>1. c > n
    BY <1>1 DEF Fresh, Taken
  <2>2. CASE c = 1
    BY <2>1, <2>2, BoundAssumption DEF Cmd
  <2>3. CASE c # 1
    <3>1. c - 1 \in Cmd /\ c - 1 \in 1..(c - 1)
      BY <2>3, BoundAssumption DEF Cmd
    <3>2. ~(c - 1 > n)
      BY <1>1, <3>1 DEF Fresh, Taken
    <3> QED
      BY <2>1, <3>1, <3>2, BoundAssumption DEF Cmd
  <2> QED
    BY <2>2, <2>3
<1>3. CmdIdent(ident) = Nth(i, c) /\ CmdIdent(ident) \in 1..MaxIdent
  BY <1>1, <1>2, NthNext DEF Taken
<1>4. c \in 0..MaxCmds /\ CmdIdent(ident) \in 0..MaxIdent
  BY <1>3, BoundAssumption DEF Cmd
<1>5. ASSUME NEW m, NEW a,
             \A d \in Cmd :
               /\ m[d].st = "idle" <=> cmd[d].st = "idle" /\ d # c
               /\ m[d].st \notin {"idle", "gone"} /\ d # c =>
                    cmd[d].st \notin {"idle", "gone"} /\ m[d].ident = cmd[d].ident,
             m[c].st # "gone" => m[c].ident = CmdIdent(ident),
             \A r \in a :
               \/ \E s \in asked : r.owner = s.owner /\ r.ident = s.ident
               \/ r.owner \in Cmd /\ m[r.owner].st = "wait" /\ r.ident = m[r.owner].ident
      PROVE  Taken(m, a, CmdIdent(ident), i, c)
  <2>1. \A d \in Cmd : m[d].st = "idle" <=> d > c
    BY <1>1, <1>2, <1>5, BoundAssumption DEF Taken, Cmd
  <2>2. \A d \in Cmd : m[d].st \notin {"idle", "gone"} => m[d].ident = Nth(i, d)
    BY <1>1, <1>3, <1>5 DEF Taken
  <2>3. \A r \in a : r.ident = Nth(i, r.owner)
    BY <1>1, <1>5, <2>2 DEF Taken
  <2> QED
    BY <1>3, <2>1, <2>2, <2>3 DEF Taken
<1> QED
  BY <1>3, <1>4, <1>5 DEF IdentOK

(* Nobody who waits for a command is left waiting when c is replaced.      *)
LEMMA UpReplaced ==
  ASSUME UpOK(cmd, attached, disconnected), NEW c \in Cmd, NEW x,
         NEW m, Becomes(m, c, x),
         x.st # "resolve",
         x.st = "finish" => x.answers = 1 \/ (x.called /\ x.kind \in {"NICK", "JOIN"}),
         cmd[c].st = "wait" => x.st = "wait" /\ x.parent = cmd[c].parent
  PROVE  UpOK(m, attached, disconnected)
<1>1. \A d, p \in Cmd : Needed(cmd, d, p) => Needed(m, d, p)
  BY DEF Needed, Becomes
<1> QED
  BY <1>1 DEF UpOK, Becomes

-----------------------------------------------------------------------------
(* The invariant holds at first, and every action keeps it.                *)

(* A command that is not called, and one that is destroyed.                *)
LEMMA BlankSpec ==
  /\ Blank \in Commands /\ Blank.st = "idle" /\ Blank.parent = None /\ Blank.answers = 0
  /\ Freed \in Commands /\ Freed.st = "gone" /\ Freed.parent = None /\ Freed.answers = 0
  /\ Thread(Freed)
<1>1. Blank \in Commands /\ Blank.st = "idle" /\ Blank.parent = None /\ Blank.answers = 0
  BY IdentAssumption DEF Blank, Commands, States, None
<1>2. Freed \in Commands /\ Freed.st = "gone" /\ Freed.parent = None /\ Freed.answers = 0
  BY <1>1 DEF Freed, Commands, States
<1>3. Thread(Freed)
  BY <1>2 DEF Thread
<1> QED
  BY <1>1, <1>2, <1>3

(* Init: nothing is called yet.                                            *)
LEMMA InitKeeps ==
  ASSUME Init
  PROVE  CommandInv
<1>1. Blank \in Commands /\ Blank.st = "idle" /\ Blank.parent = None /\ Blank.answers = 0
  BY BlankSpec
<1>2. \A c \in Cmd : cmd[c] = Blank
  BY DEF Init
<1>3. ThreadsOK(cmd) /\ Kin(cmd)
  BY <1>1, <1>2 DEF Init, ThreadsOK, Thread, Kin, Needed
<1>4. /\ PendingOK(cmd, pending) /\ AskedOK(cmd, pending, asked)
      /\ TasksOK(cmd, tasks) /\ MachineOK(asked, disconnected, machine, tasks)
  <2>1. /\ pending = <<>> /\ tasks = <<>> /\ asked = {} /\ disconnected = FALSE
        /\ machine = "run"
    BY DEF Init
  <2>2. /\ pending \in Seq(Cmd) /\ Len(pending) = 0
        /\ tasks \in Seq(TaskSet) /\ Len(tasks) = 0
    BY <2>1
  <2>3. PendingOK(cmd, pending)
    BY <2>2 DEF PendingOK, Listed
  <2>4. AskedOK(cmd, pending, asked)
    BY <2>1 DEF AskedOK
  <2>5. TasksOK(cmd, tasks)
    BY <2>2 DEF TasksOK, RunOnce
  <2>6. MachineOK(asked, disconnected, machine, tasks)
    <3>1. \A i : i \notin 1..Len(tasks)
      BY <2>2
    <3> QED
      BY <2>1, <3>1 DEF MachineOK
  <2> QED
    BY <2>3, <2>4, <2>5, <2>6
<1>5. UpOK(cmd, attached, disconnected)
  BY <1>1, <1>2 DEF Init, UpOK
<1>6. IdentOK(cmd, asked, ident, machine)
  <2>1. ident \in 0..MaxIdent /\ asked = {}
    BY IdentAssumption DEF Init
  <2>2. \A c \in Cmd : c > 0
    BY BoundAssumption DEF Cmd
  <2>3. 0 \in 0..MaxCmds /\ Nth(ident, 0) = ident
    BY <2>1, BoundAssumption, IdentAssumption DEF Nth
  <2>4. Taken(cmd, asked, ident, ident, 0)
    BY <1>1, <1>2, <2>1, <2>2, <2>3 DEF Taken
  <2> QED
    BY <2>1, <2>3, <2>4 DEF IdentOK
<1> QED
  BY <1>3, <1>4, <1>5, <1>6 DEF CommandInv

(* A fresh command becomes x; the packet is sent, or it is not.            *)
LEMMA NewCommand ==
  ASSUME CommandInv, NEW c \in Cmd, Fresh(c), machine = "run", NEW x \in Commands, Thread(x),
         x.st \in {"delay", "ask", "wait", "quit", "gone"}, x.parent = None,
         x.st # "gone" => x.ident = CmdIdent(ident),
         ident' = CmdIdent(ident), cmd' = [cmd EXCEPT ![c] = x],
         UNCHANGED <<attached, disconnected, machine, tasks>>,
         \/ x.st \in {"wait", "quit"} /\ SendVap(c, x.kind, x.ident)
         \/ x.st \notin {"wait", "quit"} /\ UNCHANGED <<pending, asked>>
  PROVE  CommandInv'
<1>1. cmd[c].st = "idle"
  BY DEF Fresh
<1>7. Becomes(cmd', c, x)
  BY Assigned DEF CommandInv
<1>2. ThreadsOK(cmd') /\ Kin(cmd')
  BY <1>1, <1>7, Replaced DEF CommandInv
<1>3. /\ PendingOK(cmd', pending') /\ AskedOK(cmd', pending', asked')
      /\ \A r \in asked' : r \in asked \/ (r.owner = c /\ r.ident = x.ident /\ x.st = "wait")
  <2>1. CASE x.st \in {"wait", "quit"} /\ SendVap(c, x.kind, x.ident)
    <3>1. x.kind \in AllKinds /\ (x.st = "quit" => x.kind = "QUIT")
      BY <2>1 DEF Thread
    <3>2. /\ ThreadsOK(cmd) /\ PendingOK(cmd, pending) /\ AskedOK(cmd, pending, asked)
          /\ cmd[c].st \in {"idle", "delay", "resume"}
      BY <1>1 DEF CommandInv
    <3> QED
      BY <1>7, <2>1, <3>1, <3>2, Sent
  <2>2. CASE UNCHANGED <<pending, asked>>
    BY <1>1, <1>7, <2>2 DEF CommandInv, PendingOK, AskedOK, Questions, Becomes
  <2> QED
    BY <2>1, <2>2
<1>4. TasksOK(cmd', tasks') /\ MachineOK(asked', disconnected', machine', tasks')
  <2>1. TasksOK(cmd', tasks)
    <3>1. \A d \in Cmd :
            /\ cmd[d].st = "resume" => cmd'[d].st = "resume"
            /\ cmd[d].st \in {"finish", "gone"} => cmd'[d].st \in {"finish", "gone"}
      BY <1>1, <1>7 DEF Becomes
    <3>2. TasksOK(cmd, tasks)
      BY DEF CommandInv
    <3> QED
      BY ONLY <3>1, <3>2, TasksKept
  <2> QED
    BY <2>1 DEF CommandInv, MachineOK
<1>5. UpOK(cmd', attached', disconnected')
  BY <1>1, <1>7, UpReplaced DEF CommandInv
<1>6. IdentOK(cmd', asked', ident', machine')
  <2>1. \A d \in Cmd :
          /\ cmd'[d].st = "idle" <=> cmd[d].st = "idle" /\ d # c
          /\ cmd'[d].st \notin {"idle", "gone"} /\ d # c =>
               cmd[d].st \notin {"idle", "gone"} /\ cmd'[d].ident = cmd[d].ident
    BY <1>1, <1>7 DEF Becomes
  <2>2. cmd'[c].st # "gone" => cmd'[c].ident = CmdIdent(ident)
    BY <1>7 DEF Becomes
  <2>3. \A r \in asked' :
          \/ \E s \in asked : r.owner = s.owner /\ r.ident = s.ident
          \/ r.owner \in Cmd /\ cmd'[r.owner].st = "wait" /\ r.ident = cmd'[r.owner].ident
    BY <1>3, <1>7 DEF Becomes
  <2> QED
    BY <2>1, <2>2, <2>3, IdentNew DEF CommandInv
<1> QED
  BY <1>2, <1>3, <1>4, <1>5, <1>6 DEF CommandInv

(* silc_client_command_call *)
LEMMA CallKeeps ==
  ASSUME CommandInv, NEW c \in Cmd, NEW k \in Kinds, Call(c, k)
  PROVE  CommandInv'
<1> DEFINE id == CmdIdent(ident)
           new(st) == [Blank EXCEPT !.kind = k, !.st = st, !.ident = id, !.called = TRUE]
<1>1. Fresh(c) /\ machine = "run" /\ ident' = id
  BY DEF Call
<1>2. id \in 1..MaxIdent /\ k \in AllKinds
  BY <1>1, IdentNew, KindsAssumption DEF CommandInv
<1>3. ASSUME NEW st \in {"delay", "ask", "wait", "quit"}
      PROVE  /\ new(st) \in Commands /\ new(st).st = st /\ new(st).kind = k
             /\ new(st).ident = id /\ new(st).called /\ new(st).parent = None
             /\ new(st).answers = 0
  <2>1. id \in 0..MaxIdent
    BY <1>2, IdentAssumption
  <2> HIDE DEF id
  <2> QED
    BY <1>2, <2>1, BlankSpec DEF Commands, States
<1> HIDE DEF new, id
<1>4. CASE Delayed(k) /\ cmd' = [cmd EXCEPT ![c] = new("delay")] /\ UNCHANGED <<pending, asked>>
  <2>1. k \in {"NICK", "JOIN"}
    <3>1. PICK i \in 1..Len(pending) : cmd[pending[i]].kind = Rival(k)
      BY <1>4 DEF Delayed
    <3>2. pending[i] \in Cmd /\ Listed(pending, pending[i])
      BY DEF CommandInv, PendingOK, Listed
    <3>3. cmd[pending[i]].kind \in AllKinds
      BY <3>2 DEF CommandInv, PendingOK, ThreadsOK, Thread
    <3> QED
      BY <1>2, <3>1, <3>3 DEF Rival, AllKinds
  <2>2. new("delay") \in Commands /\ Thread(new("delay")) /\ new("delay").st = "delay"
    BY <1>2, <1>3, <2>1 DEF Thread
  <2> QED
    BY <1>1, <1>3, <1>4, <2>2, NewCommand DEF Call, id
<1>5. CASE cmd' = [cmd EXCEPT ![c] = new("ask")] /\ UNCHANGED <<pending, asked>>
  <2>1. new("ask") \in Commands /\ Thread(new("ask")) /\ new("ask").st = "ask"
    BY <1>2, <1>3 DEF Thread
  <2> QED
    BY <1>1, <1>3, <1>5, <2>1, NewCommand DEF Call, id
<1>6. CASE /\ FirstWait(k) # "ask" /\ cmd' = [cmd EXCEPT ![c] = new(FirstWait(k))]
           /\ SendVap(c, k, id)
  <2> DEFINE x == new(FirstWait(k))
  <2>1. FirstWait(k) \in {"quit", "wait"} /\ (FirstWait(k) = "quit" => k = "QUIT")
    BY <1>2, <1>6 DEF FirstWait, AllKinds
  <2>2. /\ x \in Commands /\ x.st = FirstWait(k) /\ x.kind = k /\ x.ident = id
        /\ x.parent = None /\ x.answers = 0
    BY <1>3, <2>1
  <2> HIDE DEF x
  <2>3. Thread(x)
    BY <1>2, <2>1, <2>2 DEF Thread
  <2>4. cmd' = [cmd EXCEPT ![c] = x] /\ SendVap(c, x.kind, x.ident)
    BY <1>6, <2>2 DEF x
  <2> QED
    BY <1>1, <2>1, <2>2, <2>3, <2>4, NewCommand DEF Call, id
<1> QED
  BY <1>4, <1>5, <1>6 DEF Call, new, id

(* silc_client_command_call, refused                                       *)
LEMMA CallRefusedKeeps ==
  ASSUME CommandInv, NEW c \in Cmd, CallRefused(c)
  PROVE  CommandInv'
  BY BlankSpec, NewCommand DEF CallRefused

(* silc_client_command_send                                                *)
LEMMA SendKeeps ==
  ASSUME CommandInv, NEW c \in Cmd, NEW k \in SentKinds, Send(c, k)
  PROVE  CommandInv'
<1> DEFINE x == NewSent(c, k, None)
<1>1. Fresh(c) /\ machine = "run" /\ k \in AllKinds
  BY KindsAssumption DEF Send
<1>2. CmdIdent(ident) \in 1..MaxIdent
  BY <1>1, IdentNew DEF CommandInv
<1>3. /\ x \in Commands /\ x.st = "wait" /\ x.kind = k /\ x.ident = CmdIdent(ident)
      /\ x.parent = None /\ x.answers = 0
  <2>1. x = [Blank EXCEPT !.kind = k, !.parent = None, !.ident = CmdIdent(ident), !.st = "wait"]
    <3>1. CmdIdent(ident) # 0
      BY <1>2
    <3> QED
      BY <3>1 DEF NewSent
  <2>2. CmdIdent(ident) \in 0..MaxIdent
    BY <1>2
  <2> QED
    BY <1>1, <2>1, <2>2, BlankSpec DEF Commands, States
<1> HIDE DEF x
<1>4. Thread(x)
  BY <1>1, <1>3 DEF Thread
<1> QED
  BY <1>1, <1>3, <1>4, NewCommand DEF Send, x

-----------------------------------------------------------------------------
(* A thread goes to another state.                                         *)

(* The next state of a thread.                                             *)
LEMMA StateSet ==
  ASSUME ThreadsOK(cmd), NEW c \in Cmd, NEW s \in States
  PROVE  \E x \in Commands :
           /\ x.st = s /\ Same(x, cmd[c]) /\ x.answers = cmd[c].answers
           /\ Becomes([cmd EXCEPT ![c].st = s], c, x)
<1> DEFINE x == [cmd[c] EXCEPT !.st = s]
<1>1. cmd[c] \in Commands
  BY DEF ThreadsOK
<1>2. x \in Commands /\ x.st = s /\ Same(x, cmd[c]) /\ x.answers = cmd[c].answers
  BY <1>1 DEF Commands, Same
<1>3. [cmd EXCEPT ![c].st = s] = [cmd EXCEPT ![c] = x]
  BY DEF ThreadsOK
<1> HIDE DEF x
<1>4. Becomes([cmd EXCEPT ![c].st = s], c, x)
  BY <1>2, <1>3, Assigned
<1> QED
  BY <1>2, <1>4

(* A command that exists, is not resolving and keeps waiting when it waits *)
(* becomes x.  What is asked afterwards was asked, or x is sent.           *)
LEMMA Moved ==
  ASSUME CommandInv, NEW c \in Cmd, cmd[c].st \notin {"idle", "resolve"},
         NEW x \in Commands, Thread(x), x.st \notin {"idle", "resolve"},
         x.st # "gone" => cmd[c].st # "gone" /\ Same(x, cmd[c]),
         x.st = "wait" => cmd[c].st = "wait" \/ cmd[c].parent = None,
         cmd[c].st = "wait" => x.st = "wait",
         x.st = "finish" => x.answers = 1 \/ (x.called /\ x.kind \in {"NICK", "JOIN"}),
         Becomes(cmd', c, x), UNCHANGED <<ident, attached, disconnected, machine>>,
         \A r \in asked' : r \in asked \/ (r.owner = c /\ r.ident = x.ident /\ x.st = "wait")
  PROVE  /\ ThreadsOK(cmd') /\ Kin(cmd') /\ UpOK(cmd', attached', disconnected')
         /\ IdentOK(cmd', asked', ident', machine')
<1>1. ThreadsOK(cmd') /\ Kin(cmd')
  <2>1. x.st = "wait" => x.parent = None \/ (cmd[c].st = "wait" /\ x.parent = cmd[c].parent)
    BY DEF Same
  <2> QED
    BY <2>1, Replaced DEF CommandInv
<1>2. UpOK(cmd', attached', disconnected')
  <2>1. cmd[c].st = "wait" => x.st = "wait" /\ x.parent = cmd[c].parent
    BY DEF Same
  <2>2. UpOK(cmd', attached, disconnected)
    BY <2>1, UpReplaced DEF CommandInv
  <2> QED
    BY <2>2
<1>3. IdentOK(cmd', asked', ident', machine')
  <2>1. \A d \in Cmd :
           /\ cmd'[d].st = "idle" <=> cmd[d].st = "idle"
           /\ cmd'[d].st \notin {"idle", "gone"} =>
                cmd[d].st \notin {"idle", "gone"} /\ cmd'[d].ident = cmd[d].ident
    BY DEF Becomes, Same
  <2>2. \A r \in asked' :
          \/ \E s \in asked : r.owner = s.owner /\ r.ident = s.ident
          \/ r.owner \in Cmd /\ cmd'[r.owner].st = "wait" /\ r.ident = cmd'[r.owner].ident
    BY DEF Becomes
  <2>3. IdentOK(cmd', asked', ident, machine)
    BY <2>1, <2>2, IdentKept DEF CommandInv
  <2> QED
    BY <2>3
<1> QED
  BY <1>1, <1>2, <1>3

(* A list of pending commands stays right when c, which is not on it or    *)
(* waits, or its state, changes.                                           *)
LEMMA ListKept ==
  ASSUME PendingOK(cmd, pending), AskedOK(cmd, pending, asked), NEW c \in Cmd, NEW x,
         cmd[c].st \in {"delay", "ask", "resume"}, x.st \in {"resume", "finish"},
         NEW m, Becomes(m, c, x)
  PROVE  PendingOK(m, pending) /\ AskedOK(m, pending, asked)
  BY DEF PendingOK, AskedOK, Questions, Becomes

(* The tasks and one more task.                                            *)
LEMMA TaskAdded ==
  ASSUME NEW m, NEW q, TasksOK(m, q), NEW t \in TaskSet, TaskOK(m, t),
         t.do = "run" => \A i \in 1..Len(q) : q[i].do = "run" => q[i].cmd # t.cmd
  PROVE  TasksOK(m, Append(q, t))
<1>1. q \in Seq(TaskSet)
  BY DEF TasksOK
<1>2. <<t>> \in Seq(TaskSet) /\ Len(<<t>>) = 1 /\ <<t>>[1] = t
  OBVIOUS
<1> DEFINE s == <<t>>
<1> HIDE DEF s
<1>3. s \in Seq(TaskSet) /\ Len(s) = 1 /\ s[1] = t
  BY <1>2 DEF s
<1>4. TasksOK(m, s)
  BY <1>3 DEF TasksOK, RunOnce
<1>5. \A i \in 1..Len(q), j \in 1..Len(s) :
        q[i].do = "run" /\ s[j].do = "run" => q[i].cmd # s[j].cmd
  BY <1>3
<1>6. TasksOK(m, q \o s)
  BY <1>4, <1>5, TasksJoined
<1>7. Append(q, t) = q \o s
  BY <1>1, AppendIsConcat DEF s
<1> QED
  BY <1>6, <1>7

(* The machine, when tasks are added that do not close it.                 *)
LEMMA MachineKept ==
  ASSUME NEW a, NEW a2, NEW d, NEW x, NEW q, NEW q2, MachineOK(a, d, x, q),
         x # "run" => a2 = {},
         \A j \in 1..Len(q2) : \/ \E i \in 1..Len(q) : q2[j].do = q[i].do
                               \/ q2[j].do \in {"run", "finish"}
                               \/ q2[j].do = "close" /\ d
  PROVE  MachineOK(a2, d, x, q2)
  BY DEF MachineOK

(* Tasks added to q or taken from its front.                               *)
LEMMA Appended ==
  ASSUME NEW q \in Seq(TaskSet), NEW t \in TaskSet
  PROVE  \A j \in 1..Len(Append(q, t)) :
           (\E i \in 1..Len(q) : Append(q, t)[j].do = q[i].do) \/ Append(q, t)[j] = t
  OBVIOUS

(* The timer of a delayed NICK or JOIN.                                    *)
LEMMA DelayTimerKeeps ==
  ASSUME CommandInv, NEW c \in Cmd, DelayTimer(c)
  PROVE  CommandInv'
<1>1. /\ cmd[c].st = "delay" /\ UNCHANGED <<ident, attached, disconnected, machine>>
      /\ ThreadsOK(cmd) /\ Thread(cmd[c]) /\ tasks \in Seq(TaskSet)
  BY DEF DelayTimer, CommandInv, ThreadsOK, TasksOK
<1>2. /\ cmd[c].called /\ cmd[c].kind \in {"NICK", "JOIN"} /\ cmd[c].parent = None
      /\ cmd[c].answers = 0
  BY <1>1 DEF Thread
<1>3. CASE /\ cmd' = [cmd EXCEPT ![c].st = "finish"]
           /\ tasks' = Append(tasks, Task("finish", c)) /\ UNCHANGED <<pending, asked>>
  <2>1. PICK x \in Commands : /\ x.st = "finish" /\ Same(x, cmd[c]) /\ x.answers = cmd[c].answers
                              /\ Becomes(cmd', c, x)
    BY <1>1, <1>3, StateSet DEF States
  <2>2. Thread(x) /\ x.called /\ x.kind \in {"NICK", "JOIN"}
    BY <1>2, <2>1 DEF Thread, Same, AllKinds
  <2>3. /\ ThreadsOK(cmd') /\ Kin(cmd') /\ UpOK(cmd', attached', disconnected')
        /\ IdentOK(cmd', asked', ident', machine')
    BY <1>1, <1>3, <2>1, <2>2, Moved
  <2>4. PendingOK(cmd', pending') /\ AskedOK(cmd', pending', asked')
    BY <1>1, <1>3, <2>1, ListKept DEF CommandInv
  <2>5. /\ Task("finish", c) \in TaskSet /\ TaskOK(cmd', Task("finish", c))
        /\ Task("finish", c).do = "finish"
    BY <2>1 DEF Task, TaskSet, TaskOK, Becomes
  <2>6. TasksOK(cmd', tasks)
    <3>1. \A d \in Cmd :
            /\ cmd[d].st = "resume" => cmd'[d].st = "resume"
            /\ cmd[d].st \in {"finish", "gone"} => cmd'[d].st \in {"finish", "gone"}
      BY <1>1, <2>1 DEF Becomes
    <3> QED
      BY <3>1, TasksKept DEF CommandInv
  <2>7. TasksOK(cmd', tasks')
    BY <1>3, <2>5, <2>6, TaskAdded
  <2>8. MachineOK(asked', disconnected', machine', tasks')
    <3>1. \A j \in 1..Len(tasks') : \/ \E i \in 1..Len(tasks) : tasks'[j].do = tasks[i].do
                                    \/ tasks'[j].do \in {"run", "finish"}
      BY <1>1, <1>3, <2>5, Appended
    <3>2. MachineOK(asked, disconnected, machine, tasks')
      BY <3>1, MachineKept DEF CommandInv, MachineOK
    <3> QED
      BY <1>1, <1>3, <3>2
  <2> QED
    BY <2>3, <2>4, <2>7, <2>8 DEF CommandInv
<1>4. CASE /\ cmd' = [cmd EXCEPT ![c].st = "wait"] /\ UNCHANGED tasks
           /\ SendVap(c, cmd[c].kind, cmd[c].ident)
  <2>1. PICK x \in Commands : /\ x.st = "wait" /\ Same(x, cmd[c]) /\ x.answers = cmd[c].answers
                              /\ Becomes(cmd', c, x)
    BY <1>1, <1>4, StateSet DEF States
  <2>2. Thread(x) /\ x.kind \in AllKinds /\ SendVap(c, x.kind, x.ident)
    BY <1>2, <1>4, <2>1 DEF Thread, Same, AllKinds
  <2>3. /\ PendingOK(cmd', pending') /\ AskedOK(cmd', pending', asked')
        /\ \A r \in asked' : r \in asked \/ (r.owner = c /\ r.ident = x.ident /\ x.st = "wait")
        /\ disconnected => asked' = asked
    BY <1>1, <2>1, <2>2, Sent DEF CommandInv
  <2>4. /\ ThreadsOK(cmd') /\ Kin(cmd') /\ UpOK(cmd', attached', disconnected')
        /\ IdentOK(cmd', asked', ident', machine')
    BY <1>1, <1>2, <2>1, <2>2, <2>3, Moved
  <2>5. TasksOK(cmd', tasks)
    <3>1. \A d \in Cmd :
            /\ cmd[d].st = "resume" => cmd'[d].st = "resume"
            /\ cmd[d].st \in {"finish", "gone"} => cmd'[d].st \in {"finish", "gone"}
      BY <1>1, <2>1 DEF Becomes
    <3> QED
      BY <3>1, TasksKept DEF CommandInv
  <2>6. MachineOK(asked', disconnected', machine', tasks')
    BY <1>1, <1>4, <2>3 DEF CommandInv, MachineOK
  <2> QED
    BY <1>4, <2>3, <2>4, <2>5, <2>6 DEF CommandInv
<1> QED
  BY <1>3, <1>4 DEF DelayTimer

(* silc_client_command_oper_cb                                             *)
LEMMA PassphraseKeeps ==
  ASSUME CommandInv, NEW c \in Cmd, Passphrase(c)
  PROVE  CommandInv'
<1>1. /\ cmd[c].st = "ask" /\ UNCHANGED <<pending, ident, asked, attached, disconnected, machine>>
      /\ cmd' = [cmd EXCEPT ![c].st = "resume"] /\ tasks' = Append(tasks, Task("run", c))
      /\ ThreadsOK(cmd) /\ Thread(cmd[c]) /\ tasks \in Seq(TaskSet)
  BY DEF Passphrase, CommandInv, ThreadsOK, TasksOK
<1>2. cmd[c].kind \in AllKinds /\ cmd[c].parent = None /\ cmd[c].answers = 0
  BY <1>1 DEF Thread
<1>3. PICK x \in Commands : /\ x.st = "resume" /\ Same(x, cmd[c]) /\ x.answers = cmd[c].answers
                            /\ Becomes(cmd', c, x)
  BY <1>1, StateSet DEF States
<1>4. Thread(x)
  BY <1>2, <1>3 DEF Thread, Same
<1>5. /\ ThreadsOK(cmd') /\ Kin(cmd') /\ UpOK(cmd', attached', disconnected')
      /\ IdentOK(cmd', asked', ident', machine')
  BY <1>1, <1>3, <1>4, Moved
<1>6. PendingOK(cmd', pending') /\ AskedOK(cmd', pending', asked')
  BY <1>1, <1>3, ListKept DEF CommandInv
<1>7. /\ Task("run", c) \in TaskSet /\ TaskOK(cmd', Task("run", c))
      /\ Task("run", c).do = "run" /\ Task("run", c).cmd = c
  BY <1>3 DEF Task, TaskSet, TaskOK, Becomes
<1>8. TasksOK(cmd', tasks)
  <2>1. \A d \in Cmd :
          /\ cmd[d].st = "resume" => cmd'[d].st = "resume"
          /\ cmd[d].st \in {"finish", "gone"} => cmd'[d].st \in {"finish", "gone"}
    BY <1>1, <1>3 DEF Becomes
  <2> QED
    BY <2>1, TasksKept DEF CommandInv
<1>9. TasksOK(cmd', tasks')
  <2>1. \A i \in 1..Len(tasks) : tasks[i].do = "run" => tasks[i].cmd # c
    BY <1>1 DEF CommandInv, TasksOK, TaskOK
  <2> QED
    BY <1>1, <1>7, <1>8, <2>1, TaskAdded
<1>10. MachineOK(asked', disconnected', machine', tasks')
  <2>1. \A j \in 1..Len(tasks') : \/ \E i \in 1..Len(tasks) : tasks'[j].do = tasks[i].do
                                  \/ tasks'[j].do \in {"run", "finish"}
    BY <1>1, <1>7, Appended
  <2>2. MachineOK(asked, disconnected, machine, tasks')
    BY <2>1, MachineKept DEF CommandInv, MachineOK
  <2> QED
    BY <1>1, <2>2
<1> QED
  BY <1>5, <1>6, <1>9, <1>10 DEF CommandInv

(* Tasks stay right when the thread that was due once has run.             *)
LEMMA TasksKeptBut ==
  ASSUME NEW m, NEW m2, NEW q, TasksOK(m, q), NEW c \in Cmd, m[c].st = "resume",
         \A i \in 1..Len(q) : q[i].do = "run" => q[i].cmd # c,
         \A d \in Cmd \ {c} :
           /\ m[d].st = "resume" => m2[d].st = "resume"
           /\ m[d].st \in {"finish", "gone"} => m2[d].st \in {"finish", "gone"}
  PROVE  TasksOK(m2, q)
  BY DEF TasksOK, TaskOK

(* The task at the head of the queue.                                      *)
LEMMA DueSpec ==
  ASSUME CommandInv, NEW do, Due(do)
  PROVE  /\ tasks \in Seq(TaskSet) /\ Head(tasks).do = do /\ machine # "gone"
         /\ TasksOK(cmd, Tail(tasks)) /\ Tail(tasks) \in Seq(TaskSet)
         /\ do = "run" => /\ Head(tasks).cmd \in Cmd /\ cmd[Head(tasks).cmd].st = "resume"
                          /\ \A i \in 1..Len(Tail(tasks)) :
                               Tail(tasks)[i].do = "run" => Tail(tasks)[i].cmd # Head(tasks).cmd
         /\ do = "finish" => /\ Head(tasks).cmd \in Cmd
                             /\ cmd[Head(tasks).cmd].st \in {"finish", "gone"}
         /\ do = "close" => disconnected
         /\ do = "destroy" => machine # "run"
         /\ MachineOK(asked, disconnected, machine, Tail(tasks))
<1>1. TasksOK(cmd, tasks) /\ tasks # <<>> /\ Head(tasks).do = do /\ machine # "gone"
  BY DEF CommandInv, Due
<1>2. /\ Head(tasks) \in TaskSet /\ TaskOK(cmd, Head(tasks)) /\ TasksOK(cmd, Tail(tasks))
      /\ \A i \in 1..Len(Tail(tasks)) : \E j \in 1..Len(tasks) : Tail(tasks)[i] = tasks[j]
      /\ Head(tasks).do = "run" =>
           \A i \in 1..Len(Tail(tasks)) :
             Tail(tasks)[i].do = "run" => Tail(tasks)[i].cmd # Head(tasks).cmd
  BY <1>1, TasksTail
<1>3. Head(tasks) = tasks[1] /\ 1 \in 1..Len(tasks)
  BY <1>1 DEF TasksOK
<1>4. (do = "close" => disconnected) /\ (do = "destroy" => machine # "run")
  BY <1>1, <1>3 DEF CommandInv, MachineOK
<1>5. MachineOK(asked, disconnected, machine, Tail(tasks))
  BY <1>2 DEF CommandInv, MachineOK
<1> QED
  BY <1>1, <1>2, <1>4, <1>5 DEF TaskOK, TasksOK

(* silc_client_command_oper_send                                           *)
LEMMA RunOperKeeps ==
  ASSUME CommandInv, RunOper
  PROVE  CommandInv'
<1> DEFINE c == Head(tasks).cmd
<1>1. /\ Due("run") /\ cmd[c].kind = "OPER" /\ tasks' = Tail(tasks)
      /\ cmd' = [cmd EXCEPT ![c].st = "wait"] /\ SendVap(c, "OPER", cmd[c].ident)
      /\ UNCHANGED <<ident, attached, disconnected, machine>>
  BY DEF RunOper
<1>2. /\ c \in Cmd /\ cmd[c].st = "resume" /\ TasksOK(cmd, tasks')
      /\ \A i \in 1..Len(tasks') : tasks'[i].do = "run" => tasks'[i].cmd # c
      /\ MachineOK(asked, disconnected, machine, tasks')
  BY <1>1, DueSpec
<1> HIDE DEF c
<1>3. ThreadsOK(cmd) /\ Thread(cmd[c])
  BY <1>2 DEF CommandInv, ThreadsOK
<1>4. cmd[c].parent = None /\ cmd[c].answers = 0
  BY <1>2, <1>3 DEF Thread
<1>5. PICK x \in Commands : /\ x.st = "wait" /\ Same(x, cmd[c]) /\ x.answers = cmd[c].answers
                            /\ Becomes(cmd', c, x)
  BY <1>1, <1>2, <1>3, StateSet DEF States
<1>6. Thread(x) /\ x.kind \in AllKinds /\ SendVap(c, x.kind, x.ident)
  BY <1>1, <1>4, <1>5 DEF Thread, Same, AllKinds
<1>7. /\ PendingOK(cmd', pending') /\ AskedOK(cmd', pending', asked')
      /\ \A r \in asked' : r \in asked \/ (r.owner = c /\ r.ident = x.ident /\ x.st = "wait")
      /\ disconnected => asked' = asked
  BY <1>2, <1>5, <1>6, Sent DEF CommandInv
<1>8. /\ ThreadsOK(cmd') /\ Kin(cmd') /\ UpOK(cmd', attached', disconnected')
      /\ IdentOK(cmd', asked', ident', machine')
  BY <1>1, <1>2, <1>4, <1>5, <1>6, <1>7, Moved
<1>9. TasksOK(cmd', tasks')
  <2>1. \A d \in Cmd \ {c} :
          /\ cmd[d].st = "resume" => cmd'[d].st = "resume"
          /\ cmd[d].st \in {"finish", "gone"} => cmd'[d].st \in {"finish", "gone"}
    BY <1>5 DEF Becomes
  <2> QED
    BY <1>2, <2>1, TasksKeptBut
<1>10. MachineOK(asked', disconnected', machine', tasks')
  BY <1>1, <1>2, <1>7 DEF MachineOK
<1> QED
  BY <1>7, <1>8, <1>9, <1>10 DEF CommandInv

(* silc_fsm_finish_fsm of a command's thread, and its destructor.          *)
LEMMA FinishThreadKeeps ==
  ASSUME CommandInv, FinishThread
  PROVE  CommandInv'
<1> DEFINE c == Head(tasks).cmd
<1>1. /\ Due("finish") /\ tasks' = Tail(tasks) /\ cmd' = [cmd EXCEPT ![c] = Freed]
      /\ pending' = RemoveFirst(pending, c)
      /\ UNCHANGED <<ident, asked, attached, disconnected, machine>>
  BY DEF FinishThread, Unpended
<1>2. /\ c \in Cmd /\ cmd[c].st \in {"finish", "gone"} /\ TasksOK(cmd, tasks')
      /\ MachineOK(asked, disconnected, machine, tasks')
  BY <1>1, DueSpec
<1> HIDE DEF c
<1>3. Becomes(cmd', c, Freed) /\ Thread(Freed) /\ Freed.st = "gone" /\ Freed \in Commands
  BY <1>1, <1>2, Assigned, BlankSpec DEF CommandInv
<1>4. /\ ThreadsOK(cmd') /\ Kin(cmd') /\ UpOK(cmd', attached', disconnected')
      /\ IdentOK(cmd', asked', ident', machine')
  BY <1>1, <1>2, <1>3, Moved
<1>5. PendingOK(cmd', pending') /\ AskedOK(cmd', pending', asked')
  <2>1. /\ pending' \in Seq(Cmd) /\ \A i, j \in 1..Len(pending') : pending'[i] = pending'[j] => i = j
        /\ \A d \in Cmd : Listed(pending', d) <=> Listed(pending, d) /\ d # c
    BY <1>1, <1>2, Removed DEF CommandInv, PendingOK
  <2>2. PendingOK(cmd', pending')
    BY <1>3, <2>1 DEF CommandInv, PendingOK, Becomes
  <2>3. AskedOK(cmd', pending', asked')
    BY <1>1, <1>3, <2>1 DEF CommandInv, AskedOK, Becomes, Questions
  <2> QED
    BY <2>2, <2>3
<1>6. TasksOK(cmd', tasks')
  <2>1. \A d \in Cmd :
          /\ cmd[d].st = "resume" => cmd'[d].st = "resume"
          /\ cmd[d].st \in {"finish", "gone"} => cmd'[d].st \in {"finish", "gone"}
    BY <1>2, <1>3 DEF Becomes
  <2> QED
    BY <1>2, <2>1, TasksKept
<1>7. MachineOK(asked', disconnected', machine', tasks')
  BY <1>1, <1>2
<1> QED
  BY <1>4, <1>5, <1>6, <1>7 DEF CommandInv

-----------------------------------------------------------------------------
(* The server answers.                                                     *)

(* What the server owes after a reply: the same commands, but for one that *)
(* has been answered completely.                                           *)
LEMMA ServedSpec ==
  ASSUME NEW m, NEW p, AskedOK(m, p, asked), NEW r \in asked, NEW status,
         status \in Answers(r) \/ status = "ok"
  PROVE  /\ Served(r, status) \subseteq Questions
         /\ \A s \in Served(r, status) : \E q \in asked :
              s.owner = q.owner /\ s.ident = q.ident /\ s.kind = q.kind
         /\ \A s, q \in Served(r, status) : s.owner = q.owner => s = q
         /\ Final(status) => \A s \in Served(r, status) : s.owner # r.owner
<1>1. asked \subseteq Questions /\ \A s, q \in asked : s.owner = q.owner => s = q
  BY DEF AskedOK
<1>2. CASE Final(status)
  BY <1>1, <1>2 DEF Served
<1>3. CASE ~ Final(status)
  <2> DEFINE new == [r EXCEPT !.items = @ + 1]
  <2>1. status \in Answers(r) /\ status \in {"list_item", "list_start"}
    BY <1>3 DEF Final, Answers
  <2>2. r \in Questions
    BY <1>1
  <2>3. r.items + 1 \in 0..(MaxItems + 1)
    BY <2>1, <2>2, BoundAssumption DEF Answers, Questions
  <2>4. new \in Questions /\ new.owner = r.owner /\ new.ident = r.ident /\ new.kind = r.kind
    BY <2>2, <2>3 DEF Questions
  <2>5. Served(r, status) = (asked \ {r}) \union {new}
    BY <1>3 DEF Served
  <2> HIDE DEF new
  <2> QED
    BY <1>1, <1>3, <2>4, <2>5
<1> QED
  BY <1>2, <1>3

(* A reply that belongs to no pending command is dropped.                  *)
LEMMA ReplyUnknownKeeps ==
  ASSUME CommandInv, machine # "gone", NEW r \in asked, NEW status \in Answers(r),
         ReplyUnknown(r, status)
  PROVE  CommandInv'
<1>1. /\ asked' = Served(r, status)
      /\ UNCHANGED <<cmd, pending, ident, attached, disconnected, machine, tasks>>
  BY DEF ReplyUnknown
<1>2. /\ asked' \subseteq Questions
      /\ \A s \in asked' : \E q \in asked : s.owner = q.owner /\ s.ident = q.ident /\ s.kind = q.kind
      /\ \A s, q \in asked' : s.owner = q.owner => s = q
  BY <1>1, ServedSpec DEF CommandInv
<1>3. AskedOK(cmd, pending, asked')
  BY <1>2 DEF CommandInv, AskedOK
<1>4. IdentOK(cmd, asked', ident, machine)
  BY <1>2, IdentKept DEF CommandInv
<1>5. MachineOK(asked', disconnected, machine, tasks)
  BY DEF CommandInv, MachineOK
<1> QED
  BY <1>1, <1>3, <1>4, <1>5 DEF CommandInv

(* silc_client_command_pending of a notify.                                *)
LEMMA AttachKeeps ==
  ASSUME CommandInv, NEW c \in Cmd, Attach(c)
  PROVE  CommandInv'
<1>1. /\ cmd[c].parent # None /\ Pending(c) /\ attached' = attached \union {c}
      /\ UNCHANGED <<cmd, pending, ident, asked, disconnected, machine, tasks>>
  BY DEF Attach
<1>2. Listed(pending, c)
  BY <1>1 DEF Pending, Contains, Listed
<1>3. cmd[c].st = "wait"
  BY <1>1, <1>2 DEF CommandInv, PendingOK, ThreadsOK, Thread
<1>4. UpOK(cmd, attached', disconnected)
  BY <1>1, <1>3 DEF CommandInv, UpOK
<1> QED
  BY <1>1, <1>4 DEF CommandInv

-----------------------------------------------------------------------------
(* The connection closes.                                                  *)

(* The close is signalled once.                                            *)
LEMMA SignalledSpec ==
  ASSUME CommandInv, NEW m, TasksOK(m, tasks)
  PROVE  /\ TasksOK(m, Signalled)
         /\ \A j \in 1..Len(Signalled) :
              (\E i \in 1..Len(tasks) : Signalled[j].do = tasks[i].do) \/ Signalled[j].do = "close"
<1>1. tasks \in Seq(TaskSet)
  BY DEF TasksOK
<1>2. CASE disconnected
  BY <1>2 DEF Signalled
<1>3. CASE ~ disconnected
  <2> DEFINE t == Task("close", None)
  <2>1. t \in TaskSet /\ t.do = "close" /\ TaskOK(m, t)
    BY DEF Task, TaskSet, TaskOK
  <2>2. Signalled = Append(tasks, t)
    BY <1>3 DEF Signalled
  <2> HIDE DEF t
  <2>3. TasksOK(m, Append(tasks, t))
    BY <2>1, TaskAdded
  <2> QED
    BY <1>1, <2>1, <2>2, <2>3, Appended
<1> QED
  BY <1>2, <1>3

(* The connection is told to close.                                        *)
LEMMA DisconnectKeeps ==
  ASSUME CommandInv, Disconnect
  PROVE  CommandInv'
<1>1. /\ disconnected' = TRUE /\ tasks' = Signalled /\ machine = "run"
      /\ UNCHANGED <<cmd, pending, ident, asked, attached, machine>>
  BY DEF Disconnect
<1>2. /\ TasksOK(cmd, tasks')
      /\ \A j \in 1..Len(tasks') :
           (\E i \in 1..Len(tasks) : tasks'[j].do = tasks[i].do) \/ tasks'[j].do = "close"
  BY <1>1, SignalledSpec DEF CommandInv
<1>3. MachineOK(asked, TRUE, machine, tasks')
  BY <1>1, <1>2 DEF CommandInv, MachineOK
<1>4. UpOK(cmd, attached, TRUE)
  BY DEF CommandInv, UpOK
<1> QED
  BY <1>1, <1>2, <1>3, <1>4 DEF CommandInv

(* silc_client_connection_st_close with no command pending.                *)
LEMMA CloseMachineKeeps ==
  ASSUME CommandInv, CloseMachine
  PROVE  CommandInv'
<1> DEFINE t == Task("destroy", None)
<1>1. /\ Due("close") /\ machine' = "finish" /\ asked' = {} /\ tasks' = Append(Tail(tasks), t)
      /\ UNCHANGED <<cmd, pending, ident, attached, disconnected>>
  BY DEF CloseMachine
<1>2. /\ TasksOK(cmd, Tail(tasks)) /\ Tail(tasks) \in Seq(TaskSet) /\ disconnected = TRUE
      /\ MachineOK(asked, disconnected, machine, Tail(tasks)) /\ machine # "gone"
  <2>1. disconnected \in BOOLEAN
    BY DEF CommandInv, MachineOK
  <2> QED
    BY <1>1, <2>1, DueSpec
<1>3. t \in TaskSet /\ t.do = "destroy" /\ TaskOK(cmd, t)
  BY DEF Task, TaskSet, TaskOK
<1> HIDE DEF t
<1>4. TasksOK(cmd, tasks')
  BY <1>1, <1>2, <1>3, TaskAdded
<1>5. MachineOK({}, disconnected, "finish", tasks')
  BY <1>2 DEF MachineOK
<1>6. AskedOK(cmd, pending, {})
  BY DEF AskedOK
<1>7. IdentOK(cmd, {}, ident, "finish")
  BY <1>2 DEF CommandInv, IdentOK, Taken
<1> QED
  BY <1>1, <1>4, <1>5, <1>6, <1>7 DEF CommandInv

(* silc_fsm_finish_fsm of the machine.                                     *)
LEMMA DestroyKeeps ==
  ASSUME CommandInv, Destroy
  PROVE  CommandInv'
<1>1. /\ Due("destroy") /\ machine' = "gone" /\ cmd' = [c \in Cmd |-> Freed] /\ pending' = <<>>
      /\ attached' = {} /\ tasks' = <<>> /\ UNCHANGED <<ident, asked, disconnected>>
  BY DEF Destroy
<1>2. disconnected = TRUE /\ asked = {}
  <2>1. machine # "run"
    BY <1>1, DueSpec
  <2> QED
    BY <2>1 DEF CommandInv, MachineOK
<1>3. ThreadsOK(cmd') /\ Kin(cmd') /\ UpOK(cmd', attached', disconnected')
  BY <1>1, <1>2, BlankSpec DEF ThreadsOK, Kin, Needed, UpOK
<1>4. /\ pending' \in Seq(Cmd) /\ Len(pending') = 0
      /\ tasks' \in Seq(TaskSet) /\ Len(tasks') = 0
  BY <1>1
<1>5. PendingOK(cmd', pending') /\ TasksOK(cmd', tasks')
  BY <1>4 DEF PendingOK, Listed, TasksOK, RunOnce
<1>6. AskedOK(cmd', pending', asked') /\ MachineOK(asked', disconnected', machine', tasks')
  BY <1>1, <1>2, <1>4 DEF AskedOK, MachineOK
<1>7. IdentOK(cmd', asked', ident', machine')
  BY <1>1 DEF CommandInv, IdentOK
<1> QED
  BY <1>3, <1>5, <1>6, <1>7 DEF CommandInv

-----------------------------------------------------------------------------
(* Commands end.                                                           *)

(* A reply meets the command it answers, which waits for it.               *)
LEMMA FoundSpec ==
  ASSUME CommandInv, machine # "gone", NEW r \in asked, Find(r) # None
  PROVE  /\ Find(r) = r.owner /\ r.owner \in Cmd /\ cmd[r.owner].st = "wait"
         /\ cmd[r.owner].kind = r.kind
<1> DEFINE c == Find(r)
<1>1. c \in Cmd /\ Listed(pending, c) /\ cmd[c].kind = r.kind /\ cmd[c].ident = r.ident
  BY Found DEF CommandInv, PendingOK, Matches
<1>2. r.kind # "QUIT" /\ r.owner \in Cmd
  BY DEF CommandInv, AskedOK, Questions
<1>3. cmd[c].st = "wait"
  BY <1>1, <1>2 DEF CommandInv, PendingOK, ThreadsOK, Thread
<1>4. PICK i \in 0..MaxIdent, n \in 0..MaxCmds : Taken(cmd, asked, ident, i, n)
  BY DEF CommandInv, IdentOK
<1>5. Nth(i, c) = Nth(i, r.owner)
  BY <1>1, <1>3, <1>4 DEF Taken
<1>6. c = r.owner
  BY <1>1, <1>2, <1>5, NthDiffer
<1> QED
  BY <1>1, <1>2, <1>3, <1>6

(* The threads in F and N wait, sleep before they close or are continued.  *)
Ready(F, N) == \A c \in F \union N : cmd[c].st \in {"wait", "quit", "resume"}

(* The tasks of one command that finishes: at most the one it was needed   *)
(* for is run, before it.                                                  *)
EndTasks(m, F, c, s) ==
  /\ TasksOK(m, s)
  /\ \A j \in 1..Len(s) :
       /\ s[j].do \in {"run", "finish"}
       /\ s[j].do = "run" => c \in F /\ s[j].cmd \in Cmd /\ Needed(cmd, c, s[j].cmd)

(* They are the tasks of FinishTasks.                                      *)
LEMMA FinishTasksSpec ==
  ASSUME ThreadsOK(cmd), Kin(cmd), NEW F \in SUBSET Cmd, NEW N \in SUBSET Cmd, Ready(F, N),
         NEW m, Finished(m, F, N), NEW c \in F \union N, cmd[c].st # "resume",
         NEW final, final <=> c \in F
  PROVE  EndTasks(m, F, c, FinishTasks(c, final))
<1> DEFINE t == Task("finish", c)
           p == cmd[c].parent
<1>1. c \in Cmd /\ cmd[c].st \in {"wait", "quit"} /\ cmd[c] \in Commands /\ Thread(cmd[c])
  BY DEF Ready, ThreadsOK
<1>2. m[c].st = "finish"
  BY <1>1 DEF Finished, Ends, GoesOn, Stays
<1>3. t \in TaskSet /\ t.do = "finish" /\ TaskOK(m, t)
  BY <1>1, <1>2 DEF Task, TaskSet, TaskOK
<1>4. CASE ~ final \/ p = None
  <2>1. FinishTasks(c, final) = <<>> \o <<t>>
    BY <1>4 DEF FinishTasks, ContinuedTasks
  <2> HIDE DEF t
  <2> DEFINE s == <<t>>
  <2>2. s \in Seq(TaskSet) /\ Len(s) = 1 /\ s[1] = t /\ <<>> \o s = s
    BY <1>3
  <2> HIDE DEF s
  <2>3. TasksOK(m, s)
    BY <1>3, <2>2 DEF TasksOK, RunOnce
  <2>4. FinishTasks(c, final) = s
    BY <2>1, <2>2 DEF s
  <2>5. EndTasks(m, F, c, s)
    BY <1>3, <2>2, <2>3 DEF EndTasks
  <2> QED
    BY <2>4, <2>5
<1>5. CASE final /\ p # None
  <2> DEFINE u == Task(IF cmd[p].kind = "JOIN" THEN "finish" ELSE "run", p)
  <2>1. FinishTasks(c, final) = <<u>> \o <<t>>
    BY <1>5 DEF FinishTasks, ContinuedTasks
  <2>2. p \in Cmd /\ cmd[c].st = "wait"
    BY <1>1, <1>5 DEF Commands, Thread
  <2>3. Needed(cmd, c, p) /\ c \in F
    BY <1>5, <2>2 DEF Needed
  <2>4. cmd[p].st = "resolve"
    BY <1>1, <2>2, <2>3 DEF Kin
  <2>5. GoesOn(m, F, p)
    BY <2>2, <2>3, <2>4 DEF Finished, Ends, Stays, Ready
  <2> HIDE DEF p
  <2>6. /\ u \in TaskSet /\ u.cmd = p /\ u.do \in {"run", "finish"} /\ TaskOK(m, u)
    BY <2>2, <2>5 DEF Task, TaskSet, TaskOK, GoesOn
  <2> HIDE DEF t, u
  <2> DEFINE s == <<u>> \o <<t>>
  <2>7. s \in Seq(TaskSet) /\ Len(s) = 2 /\ s[1] = u /\ s[2] = t
    BY <1>3, <2>6
  <2> HIDE DEF s
  <2>8. TasksOK(m, s)
    BY <1>3, <2>6, <2>7 DEF TasksOK, RunOnce
  <2>9. FinishTasks(c, final) = s
    BY <2>1 DEF s
  <2>10. \A j \in 1..Len(s) :
           /\ s[j].do \in {"run", "finish"}
           /\ s[j].do = "run" => c \in F /\ s[j].cmd \in Cmd /\ Needed(cmd, c, s[j].cmd)
    <3>1. \A j \in 1..Len(s) : j = 1 \/ j = 2
      BY <2>7
    <3> QED
      BY <1>3, <2>2, <2>3, <2>6, <2>7, <3>1
  <2>11. EndTasks(m, F, c, s)
    BY <2>8, <2>10 DEF EndTasks
  <2> QED
    BY <2>9, <2>11
<1> QED
  BY <1>4, <1>5

(* What is asked, and the identifiers, when commands finish.               *)
LEMMA FinishedKeeps ==
  ASSUME CommandInv, NEW F \in SUBSET Cmd, NEW N \in SUBSET Cmd, Ready(F, N),
         NEW m, Finished(m, F, N), NEW a, a \subseteq asked
  PROVE  /\ IdentOK(m, a, ident, machine)
         /\ \A d \in Cmd : m[d].st = "wait" => cmd[d].st = "wait" /\ m[d] = cmd[d]
         /\ \A c \in F \union N : m[c].st = "finish" /\ m[c].kind = cmd[c].kind
         /\ \A d \in Cmd : cmd[d].st \in {"finish", "gone", "wait", "quit"} /\ d \notin F \union N =>
              m[d] = cmd[d]
         /\ \A r \in a : m[r.owner].st \in {"wait", "finish", "gone"}
<1>1. \A d \in Cmd : m[d].st = "wait" => cmd[d].st = "wait" /\ m[d] = cmd[d]
  BY DEF Finished, Ends, GoesOn, Stays
<1>2. \A d \in Cmd : cmd[d].st \in {"finish", "gone", "wait", "quit"} /\ d \notin F \union N =>
        m[d] = cmd[d]
  BY DEF Finished, Ends, GoesOn, Stays
<1>3. \A c \in F \union N : m[c].st = "finish" /\ m[c].kind = cmd[c].kind
  BY DEF Finished, Ends, GoesOn, Stays, Same, Ready
<1>4. \A r \in a : r.owner \in Cmd /\ m[r.owner].st \in {"wait", "finish", "gone"}
  BY <1>2, <1>3 DEF CommandInv, AskedOK, Questions
<1>5. IdentOK(m, a, ident, machine)
  <2>1. \A d \in Cmd :
          /\ m[d].st = "idle" <=> cmd[d].st = "idle"
          /\ m[d].st \notin {"idle", "gone"} =>
               cmd[d].st \notin {"idle", "gone"} /\ m[d].ident = cmd[d].ident
    BY DEF Finished, Ends, GoesOn, Stays, Same, Ready
  <2>2. \A r \in a : \E s \in asked : r.owner = s.owner /\ r.ident = s.ident
    OBVIOUS
  <2> QED
    BY <2>1, <2>2, IdentKept DEF CommandInv
<1> QED
  BY <1>1, <1>2, <1>3, <1>4, <1>5

(* Nobody is left waiting: while the connection is up every command that   *)
(* finishes delivers a final status.                                       *)
LEMMA UpFinished ==
  ASSUME CommandInv, NEW F \in SUBSET Cmd, NEW N \in SUBSET Cmd, Ready(F, N),
         NEW m, Finished(m, F, N), disconnected \/ N = {}
  PROVE  UpOK(m, attached \ F, disconnected)
<1> SUFFICES ASSUME ~ disconnected
             PROVE  /\ \A c \in Cmd : m[c].st = "finish" =>
                         m[c].answers = 1 \/ (m[c].called /\ m[c].kind \in {"NICK", "JOIN"})
                    /\ \A p \in Cmd : m[p].st = "resolve" => \E c \in Cmd : Needed(m, c, p)
                    /\ \A c \in attached \ F : m[c].st = "wait" /\ m[c].parent # None
  BY DEF UpOK, CommandInv
<1>1. N = {} /\ attached \subseteq Cmd
  BY DEF CommandInv, UpOK
<1>2. ASSUME NEW c \in Cmd, m[c].st = "finish"
      PROVE  m[c].answers = 1 \/ (m[c].called /\ m[c].kind \in {"NICK", "JOIN"})
  BY <1>1, <1>2 DEF Finished, Ends, GoesOn, Stays, CommandInv, UpOK
<1>3. ASSUME NEW p \in Cmd, m[p].st = "resolve" PROVE \E c \in Cmd : Needed(m, c, p)
  <2>1. Stays(m, F, N, p)
    BY <1>3 DEF Finished, Ends, GoesOn
  <2>2. PICK c \in Cmd : Needed(cmd, c, p)
    BY <1>3, <2>1 DEF CommandInv, UpOK, Stays
  <2>3. c \notin F
    BY <2>1, <2>2 DEF Stays
  <2>4. m[c] = cmd[c]
    BY <1>1, <2>2, <2>3 DEF Finished, Ends, GoesOn, Stays, Needed
  <2> QED
    BY <2>2, <2>4 DEF Needed
<1>4. ASSUME NEW c \in attached \ F PROVE m[c].st = "wait" /\ m[c].parent # None
  <2>1. cmd[c].st = "wait" /\ c \in Cmd /\ cmd[c].parent # None
    BY <1>1 DEF CommandInv, UpOK
  <2> QED
    BY <1>1, <2>1 DEF Finished, Ends, GoesOn, Stays
<1> QED
  BY <1>2, <1>3, <1>4

(* One pending command ends, by a reply or by its timeout.                 *)
LEMMA EndsOne ==
  ASSUME CommandInv, NEW c \in Cmd, cmd[c].st = "wait", NEW final \in BOOLEAN,
         final \/ disconnected,
         cmd' = IF final THEN Finishing({c}, {}) ELSE Finishing({}, {c}),
         pending' = Unpended(c), asked' \subseteq asked,
         attached' = IF final THEN attached \ {c} ELSE attached,
         tasks' = tasks \o FinishTasks(c, final),
         UNCHANGED <<ident, disconnected, machine>>
  PROVE  CommandInv'
<1> DEFINE F == IF final THEN {c} ELSE {}
           N == IF final THEN {} ELSE {c}
           s == FinishTasks(c, final)
<1>1. /\ F \in SUBSET Cmd /\ N \in SUBSET Cmd /\ Ready(F, N) /\ c \in F \union N
      /\ final <=> c \in F
      /\ cmd' = Finishing(F, N) /\ attached' = attached \ F /\ (disconnected \/ N = {})
      /\ \A d \in F \union N : d = c
  BY DEF Ready
<1> HIDE DEF F, N
<1>2. Finished(cmd', F, N) /\ ThreadsOK(cmd') /\ Kin(cmd')
  BY <1>1, FinishingSpec DEF CommandInv, Ready
<1>3. UpOK(cmd', attached', disconnected')
  BY <1>1, <1>2, UpFinished
<1>12. /\ IdentOK(cmd', asked', ident, machine)
       /\ \A d \in Cmd : cmd'[d].st = "wait" => cmd[d].st = "wait" /\ cmd'[d] = cmd[d]
       /\ \A d \in F \union N : cmd'[d].st = "finish" /\ cmd'[d].kind = cmd[d].kind
       /\ \A d \in Cmd : cmd[d].st \in {"finish", "gone", "wait", "quit"} /\ d \notin F \union N =>
            cmd'[d] = cmd[d]
       /\ \A r \in asked' : cmd'[r.owner].st \in {"wait", "finish", "gone"}
  <2>1. /\ CommandInv /\ F \in SUBSET Cmd /\ N \in SUBSET Cmd /\ Ready(F, N)
        /\ Finished(cmd', F, N) /\ asked' \subseteq asked
    BY <1>1, <1>2
  <2> QED
    BY ONLY <2>1, FinishedKeeps
<1>4. /\ IdentOK(cmd', asked', ident', machine')
      /\ \A d \in Cmd : cmd'[d].st = "wait" => cmd[d].st = "wait" /\ cmd'[d] = cmd[d]
      /\ cmd'[c].st = "finish"
      /\ \A d \in Cmd : cmd[d].st \in {"finish", "gone", "wait", "quit"} /\ d # c =>
              cmd'[d] = cmd[d]
      /\ \A r \in asked' : cmd'[r.owner].st \in {"wait", "finish", "gone"}
  BY <1>1, <1>12
<1>5. /\ pending' \in Seq(Cmd) /\ \A i, j \in 1..Len(pending') : pending'[i] = pending'[j] => i = j
      /\ \A d \in Cmd : Listed(pending', d) <=> Listed(pending, d) /\ d # c
  BY Removed DEF CommandInv, PendingOK, Unpended
<1>6. PendingOK(cmd', pending')
  <2>1. PendingOK(cmd, pending)
    BY DEF CommandInv
  <2>2. \A d \in Cmd : Listed(pending', d) => cmd'[d] = cmd[d] /\ Listed(pending, d)
    BY <1>4, <1>5, <2>1 DEF PendingOK
  <2> QED
    BY ONLY <1>5, <2>1, <2>2 DEF PendingOK
<1>7. AskedOK(cmd', pending', asked')
  BY <1>4, <1>5 DEF CommandInv, AskedOK, Questions
<1>8. /\ TasksOK(cmd', s)
      /\ \A j \in 1..Len(s) :
              /\ s[j].do \in {"run", "finish"}
              /\ s[j].do = "run" => s[j].cmd \in Cmd /\ Needed(cmd, c, s[j].cmd)
  <2>1. /\ ThreadsOK(cmd) /\ Kin(cmd) /\ F \in SUBSET Cmd /\ N \in SUBSET Cmd /\ Ready(F, N)
        /\ Finished(cmd', F, N) /\ c \in F \union N /\ cmd[c].st # "resume"
        /\ final <=> c \in F
    BY <1>1, <1>2 DEF CommandInv
  <2>2. EndTasks(cmd', F, c, s)
    BY ONLY <2>1, FinishTasksSpec
  <2> HIDE DEF s
  <2> QED
    BY <2>2 DEF EndTasks
<1> HIDE DEF s
<1>9. TasksOK(cmd', tasks)
  <2>1. \A d \in Cmd :
          /\ cmd[d].st = "resume" => cmd'[d].st = "resume"
          /\ cmd[d].st \in {"finish", "gone"} => cmd'[d].st \in {"finish", "gone"}
    BY <1>1, <1>2 DEF Finished, Ends, GoesOn, Stays
  <2>2. TasksOK(cmd, tasks)
    BY DEF CommandInv
  <2> QED
    BY ONLY <2>1, <2>2, TasksKept
<1>10. TasksOK(cmd', tasks \o s)
  <2>1. \A j \in 1..Len(s) : s[j].do = "run" => cmd[s[j].cmd].st = "resolve"
    BY <1>8 DEF CommandInv, Kin
  <2>2. \A i \in 1..Len(tasks) : tasks[i].do = "run" => cmd[tasks[i].cmd].st = "resume"
    BY DEF CommandInv, TasksOK, TaskOK
  <2>3. \A i \in 1..Len(tasks), j \in 1..Len(s) :
          tasks[i].do = "run" /\ s[j].do = "run" => tasks[i].cmd # s[j].cmd
    BY <2>1, <2>2
  <2> QED
    BY <1>8, <1>9, <2>3, TasksJoined
<1>11. MachineOK(asked', disconnected', machine', tasks')
  <2>1. tasks \in Seq(TaskSet) /\ s \in Seq(TaskSet)
    BY <1>8 DEF CommandInv, TasksOK
  <2>2. \A j \in 1..Len(tasks \o s) : \/ \E i \in 1..Len(tasks) : (tasks \o s)[j].do = tasks[i].do
                                      \/ (tasks \o s)[j].do \in {"run", "finish"}
    BY <1>8, <2>1
  <2>3. machine # "run" => asked' = {}
    BY DEF CommandInv, MachineOK
  <2>4. MachineOK(asked', disconnected, machine, tasks')
    BY <2>2, <2>3, MachineKept DEF CommandInv, s
  <2> QED
    BY <2>4
<1> QED
  BY <1>2, <1>3, <1>4, <1>6, <1>7, <1>10, <1>11 DEF CommandInv, s

(* silc_client_command_reply_timeout                                       *)
LEMMA ReplyTimeoutKeeps ==
  ASSUME CommandInv, NEW c \in Cmd, ReplyTimeout(c)
  PROVE  CommandInv'
<1> DEFINE final == TimeoutFinal(c)
<1>1. final \in BOOLEAN /\ (final \/ disconnected)
  BY DEF TimeoutFinal
<1>2. /\ cmd[c].st = "wait" /\ pending' = Unpended(c)
      /\ cmd' = IF final THEN Finishing({c}, {}) ELSE Finishing({}, {c})
      /\ attached' = IF final THEN attached \ {c} ELSE attached
      /\ tasks' = tasks \o FinishTasks(c, final)
      /\ UNCHANGED <<ident, asked, disconnected, machine>>
  BY DEF ReplyTimeout
<1> HIDE DEF final
<1> QED
  BY <1>1, <1>2, EndsOne

(* The last reply to command c.                                            *)
LEMMA LastReply ==
  ASSUME CommandInv, NEW r \in asked, NEW c \in Cmd, cmd[c].st = "wait", NEW status,
         Final(status), asked' = Served(r, status),
         pending' = Unpended(c), cmd' = Finishing({c}, {}), attached' = attached \ {c},
         tasks' = tasks \o FinishTasks(c, TRUE), UNCHANGED <<ident, disconnected, machine>>
  PROVE  CommandInv'
<1>1. asked' \subseteq asked
  BY DEF Served
<1> QED
  BY <1>1, EndsOne

(* The reply of JOIN or USERS that names known clients.                    *)
LEMMA ReplyKnownKeeps ==
  ASSUME CommandInv, machine # "gone", NEW r \in asked, ReplyKnown(r)
  PROVE  CommandInv'
<1>1. Find(r) \in Cmd /\ cmd[Find(r)].st = "wait"
  BY FoundSpec DEF ReplyKnown
<1> QED
  BY <1>1, LastReply DEF ReplyKnown, Final

(* silc_client_command_reply, with silc_client_command_reply_processed.    *)
LEMMA ReplyPlainKeeps ==
  ASSUME CommandInv, machine # "gone", NEW r \in asked, NEW status \in Answers(r),
         ReplyPlain(r, status)
  PROVE  CommandInv'
<1> DEFINE c == Find(r)
<1>1. c = r.owner /\ c \in Cmd /\ cmd[c].st = "wait"
  BY FoundSpec DEF ReplyPlain
<1>2. CASE Final(status)
  BY <1>1, <1>2, LastReply DEF ReplyPlain
<1>3. CASE ~ Final(status)
  <2>1. /\ pending' = Append(Unpended(c), c) /\ cmd' = [cmd EXCEPT ![c].list = TRUE]
        /\ asked' = Served(r, status)
        /\ UNCHANGED <<attached, tasks, ident, disconnected, machine>>
    BY <1>3 DEF ReplyPlain
  <2> HIDE DEF c
  <2> DEFINE x == [cmd[c] EXCEPT !.list = TRUE]
  <2>2. /\ x \in Commands /\ x.st = "wait" /\ Same(x, cmd[c]) /\ x.answers = cmd[c].answers
        /\ Thread(cmd[c]) /\ ThreadsOK(cmd)
    BY <1>1 DEF CommandInv, ThreadsOK, Commands, Same
  <2>3. cmd' = [cmd EXCEPT ![c] = x]
    BY <1>1, <2>1, <2>2 DEF ThreadsOK
  <2> HIDE DEF x
  <2>4. Becomes(cmd', c, x) /\ Thread(x)
    BY <1>1, <2>2, <2>3, Assigned DEF Thread, Same
  <2>5. /\ asked' \subseteq Questions
        /\ \A s \in asked' : \E q \in asked : s.owner = q.owner /\ s.ident = q.ident /\ s.kind = q.kind
        /\ \A s, q \in asked' : s.owner = q.owner => s = q
    BY <2>1, ServedSpec DEF CommandInv
  <2>6. ThreadsOK(cmd') /\ Kin(cmd')
    BY <1>1, <2>2, <2>4, Replaced DEF CommandInv, Same
  <2>7. UpOK(cmd', attached', disconnected')
    BY <1>1, <2>1, <2>2, <2>4, UpReplaced DEF CommandInv, Same
  <2>8. IdentOK(cmd', asked', ident', machine')
    <3>1. \A d \in Cmd : cmd'[d].st = cmd[d].st /\ cmd'[d].ident = cmd[d].ident
      BY <1>1, <2>2, <2>4 DEF Becomes, Same
    <3>2. IdentOK(cmd', asked', ident, machine)
      BY <2>5, <3>1, IdentKept DEF CommandInv
    <3> QED
      BY <2>1, <3>2
  <2>9. /\ pending' \in Seq(Cmd) /\ \A i, j \in 1..Len(pending') : pending'[i] = pending'[j] => i = j
        /\ \A d \in Cmd : Listed(pending', d) <=> Listed(pending, d) \/ d = c
    <3> DEFINE q == RemoveFirst(pending, c)
    <3>1. /\ q \in Seq(Cmd) /\ \A i, j \in 1..Len(q) : q[i] = q[j] => i = j
          /\ \A d \in Cmd : Listed(q, d) <=> Listed(pending, d) /\ d # c
      BY <1>1, Removed DEF CommandInv, PendingOK
    <3>2. pending' = Append(q, c)
      BY <2>1 DEF Unpended
    <3> HIDE DEF q
    <3>3. /\ pending' \in Seq(Cmd) /\ Len(pending') = Len(q) + 1
          /\ \A i \in 1..Len(q) : pending'[i] = q[i]
          /\ pending'[Len(q) + 1] = c
      BY <1>1, <3>1, <3>2
    <3>4. \A d \in Cmd : Listed(pending', d) <=> Listed(q, d) \/ d = c
      BY <3>1, <3>3 DEF Listed
    <3>5. \A i, j \in 1..Len(pending') : pending'[i] = pending'[j] => i = j
      BY <1>1, <3>1, <3>3 DEF Listed
    <3> QED
      BY <3>1, <3>3, <3>4, <3>5
  <2>10. PendingOK(cmd', pending') /\ AskedOK(cmd', pending', asked')
    <3>1. \A d \in Cmd : cmd'[d].st = cmd[d].st /\ cmd'[d].kind = cmd[d].kind
      BY <1>1, <2>2, <2>4 DEF Becomes, Same
    <3>2. PendingOK(cmd', pending')
      BY <1>1, <2>9, <3>1 DEF CommandInv, PendingOK
    <3>3. AskedOK(cmd', pending', asked')
      BY <2>5, <2>9, <3>1 DEF CommandInv, AskedOK, Questions
    <3> QED
      BY <3>2, <3>3
  <2>11. TasksOK(cmd', tasks') /\ MachineOK(asked', disconnected', machine', tasks')
    <3>1. \A d \in Cmd : cmd'[d].st = cmd[d].st
      BY <1>1, <2>2, <2>4 DEF Becomes
    <3>2. TasksOK(cmd', tasks)
      BY <3>1, TasksKept DEF CommandInv
    <3> QED
      BY <2>1, <3>2 DEF CommandInv, MachineOK
  <2> QED
    BY <2>6, <2>7, <2>8, <2>10, <2>11 DEF CommandInv
<1> QED
  BY <1>2, <1>3

(* The reply of USERS after its clients have been resolved.                *)
LEMMA RunUsersKeeps ==
  ASSUME CommandInv, RunUsers
  PROVE  CommandInv'
<1> DEFINE c == Head(tasks).cmd
           t == Task("finish", c)
<1>1. /\ Due("run") /\ cmd' = Finishing({c}, {}) /\ tasks' = Append(Tail(tasks), t)
      /\ UNCHANGED <<pending, ident, asked, attached, disconnected, machine>>
  BY DEF RunUsers
<1>2. /\ c \in Cmd /\ cmd[c].st = "resume" /\ TasksOK(cmd, Tail(tasks))
      /\ \A i \in 1..Len(Tail(tasks)) : Tail(tasks)[i].do = "run" => Tail(tasks)[i].cmd # c
      /\ MachineOK(asked, disconnected, machine, Tail(tasks)) /\ Tail(tasks) \in Seq(TaskSet)
  BY <1>1, DueSpec
<1> HIDE DEF c
<1>3. {c} \in SUBSET Cmd /\ {} \in SUBSET Cmd /\ Ready({c}, {})
  BY <1>2 DEF Ready
<1>4. Finished(cmd', {c}, {}) /\ ThreadsOK(cmd') /\ Kin(cmd')
  BY <1>1, <1>3, FinishingSpec DEF CommandInv, Ready
<1>5. UpOK(cmd', attached', disconnected')
  <2>1. UpOK(cmd', attached \ {c}, disconnected)
    BY <1>3, <1>4, UpFinished
  <2>2. disconnected \/ c \notin attached
    BY <1>2 DEF CommandInv, UpOK
  <2>3. attached \subseteq Cmd
    BY DEF CommandInv, UpOK
  <2> QED
    BY <1>1, <2>1, <2>2, <2>3 DEF UpOK
<1>6. /\ IdentOK(cmd', asked, ident, machine)
      /\ \A d \in Cmd : cmd'[d].st = "wait" => cmd[d].st = "wait" /\ cmd'[d] = cmd[d]
      /\ \A d \in {c} \union {} : cmd'[d].st = "finish" /\ cmd'[d].kind = cmd[d].kind
      /\ \A d \in Cmd : cmd[d].st \in {"finish", "gone", "wait", "quit"} /\ d \notin {c} \union {} =>
           cmd'[d] = cmd[d]
      /\ \A r \in asked : cmd'[r.owner].st \in {"wait", "finish", "gone"}
  <2>1. asked \subseteq asked
    OBVIOUS
  <2> QED
    BY ONLY CommandInv, <1>3, <1>4, <2>1, FinishedKeeps
<1>7. PendingOK(cmd', pending)
  <2>1. PendingOK(cmd, pending)
    BY DEF CommandInv
  <2>2. \A d \in Cmd : Listed(pending, d) => cmd'[d] = cmd[d]
    BY <1>2, <1>6, <2>1 DEF PendingOK
  <2> QED
    BY ONLY <2>1, <2>2 DEF PendingOK
<1>8. AskedOK(cmd', pending, asked)
  BY <1>6 DEF CommandInv, AskedOK, Questions
<1>9. t \in TaskSet /\ t.do = "finish" /\ TaskOK(cmd', t)
  BY <1>2, <1>6 DEF Task, TaskSet, TaskOK
<1> HIDE DEF t
<1>10. TasksOK(cmd', Tail(tasks))
  <2>1. \A d \in Cmd \ {c} :
          /\ cmd[d].st = "resume" => cmd'[d].st = "resume"
          /\ cmd[d].st \in {"finish", "gone"} => cmd'[d].st \in {"finish", "gone"}
    BY <1>4 DEF Finished, Ends, GoesOn, Stays
  <2> DEFINE q == Tail(tasks)
  <2>2. /\ TasksOK(cmd, q) /\ c \in Cmd /\ cmd[c].st = "resume"
        /\ \A i \in 1..Len(q) : q[i].do = "run" => q[i].cmd # c
    BY <1>2
  <2> HIDE DEF q
  <2>3. TasksOK(cmd', q)
    BY ONLY <2>1, <2>2, TasksKeptBut
  <2> QED
    BY <2>3 DEF q
<1>11. TasksOK(cmd', tasks')
  BY <1>1, <1>9, <1>10, TaskAdded
<1>12. MachineOK(asked, disconnected, machine, tasks')
  <2>1. \A j \in 1..Len(tasks') :
          \/ \E i \in 1..Len(Tail(tasks)) : tasks'[j].do = Tail(tasks)[i].do
          \/ tasks'[j].do \in {"run", "finish"}
    BY <1>1, <1>2, <1>9, Appended
  <2>2. machine # "run" => asked = {}
    BY DEF CommandInv, MachineOK
  <2> QED
    BY <1>2, <2>1, <2>2, MachineKept
<1> QED
  BY <1>1, <1>4, <1>5, <1>6, <1>7, <1>8, <1>11, <1>12 DEF CommandInv

(* silc_client_command_quit_final                                          *)
LEMMA QuitTimerKeeps ==
  ASSUME CommandInv, NEW c \in Cmd, QuitTimer(c)
  PROVE  CommandInv'
<1> DEFINE t == Task("finish", c)
<1>1. /\ cmd[c].st = "quit" /\ cmd' = Finishing({}, {c}) /\ disconnected' = TRUE
      /\ tasks' = Append(Signalled, t)
      /\ UNCHANGED <<pending, ident, asked, attached, machine>>
  BY DEF QuitTimer
<1>2. {} \in SUBSET Cmd /\ {c} \in SUBSET Cmd /\ Ready({}, {c})
  BY <1>1 DEF Ready
<1>3. Finished(cmd', {}, {c}) /\ ThreadsOK(cmd') /\ Kin(cmd')
  BY <1>1, <1>2, FinishingSpec DEF CommandInv, Ready
<1>4. UpOK(cmd', attached', disconnected')
  BY <1>1 DEF CommandInv, UpOK
<1>5. /\ IdentOK(cmd', asked, ident, machine)
      /\ \A d \in Cmd : cmd'[d].st = "wait" => cmd[d].st = "wait" /\ cmd'[d] = cmd[d]
      /\ \A d \in {} \union {c} : cmd'[d].st = "finish" /\ cmd'[d].kind = cmd[d].kind
      /\ \A d \in Cmd : cmd[d].st \in {"finish", "gone", "wait", "quit"} /\ d \notin {} \union {c} =>
           cmd'[d] = cmd[d]
      /\ \A r \in asked : cmd'[r.owner].st \in {"wait", "finish", "gone"}
  <2>1. asked \subseteq asked
    OBVIOUS
  <2> QED
    BY ONLY CommandInv, <1>2, <1>3, <2>1, FinishedKeeps
<1>6. PendingOK(cmd', pending)
  <2>1. PendingOK(cmd, pending) /\ cmd[c].kind = "QUIT"
    BY <1>1 DEF CommandInv, ThreadsOK, Thread
  <2>2. \A d \in Cmd : Listed(pending, d) =>
          cmd'[d] = cmd[d] \/ (cmd'[d].st = "finish" /\ cmd'[d].kind = "QUIT")
    BY <1>5, <2>1 DEF PendingOK
  <2> QED
    BY ONLY <2>1, <2>2 DEF PendingOK
<1>7. AskedOK(cmd', pending, asked)
  BY <1>5 DEF CommandInv, AskedOK, Questions
<1>8. t \in TaskSet /\ t.do = "finish" /\ TaskOK(cmd', t)
  BY <1>5 DEF Task, TaskSet, TaskOK
<1> HIDE DEF t
<1>9. TasksOK(cmd', tasks)
  <2>1. \A d \in Cmd :
          /\ cmd[d].st = "resume" => cmd'[d].st = "resume"
          /\ cmd[d].st \in {"finish", "gone"} => cmd'[d].st \in {"finish", "gone"}
    BY <1>1, <1>3 DEF Finished, Ends, GoesOn, Stays
  <2>2. TasksOK(cmd, tasks)
    BY DEF CommandInv
  <2> QED
    BY ONLY <2>1, <2>2, TasksKept
<1>10. /\ TasksOK(cmd', Signalled)
       /\ \A j \in 1..Len(Signalled) :
            (\E i \in 1..Len(tasks) : Signalled[j].do = tasks[i].do) \/ Signalled[j].do = "close"
  BY <1>9, SignalledSpec
<1>11. TasksOK(cmd', tasks')
  BY <1>1, <1>8, <1>10, TaskAdded
<1>12. MachineOK(asked, TRUE, machine, tasks')
  <2>1. Signalled \in Seq(TaskSet)
    BY <1>10 DEF TasksOK
  <2>2. \A j \in 1..Len(tasks') :
          \/ \E i \in 1..Len(Signalled) : tasks'[j].do = Signalled[i].do
          \/ tasks'[j].do = "finish"
    BY <1>1, <1>8, <2>1, Appended
  <2>3. MachineOK(asked, disconnected, machine, tasks)
    BY DEF CommandInv
  <2>4. \A j \in 1..Len(tasks') : tasks'[j].do = "destroy" => machine # "run"
    BY <1>10, <2>2, <2>3 DEF MachineOK
  <2> QED
    BY <2>3, <2>4 DEF MachineOK
<1> QED
  BY <1>1, <1>3, <1>4, <1>5, <1>6, <1>7, <1>11, <1>12 DEF CommandInv

(* The reply of JOIN or USERS that names unknown clients, on a connection  *)
(* that is disconnected: nothing is sent.                                  *)
LEMMA UnresolvedClosed ==
  ASSUME CommandInv, NEW r \in asked, NEW c \in Cmd, c = r.owner, cmd[c].st = "wait",
         cmd[c].kind \in Resolving, disconnected,
         cmd' = [cmd EXCEPT ![c].st = "resolve"], pending' = Unpended(c),
         asked' = Served(r, "ok"),
         UNCHANGED <<ident, attached, disconnected, machine, tasks>>
  PROVE  CommandInv'
<1>1. ThreadsOK(cmd) /\ Thread(cmd[c])
  BY DEF CommandInv, ThreadsOK
<1>2. cmd[c].parent = None /\ cmd[c].answers = 0
  BY <1>1 DEF Thread, Resolving
<1>3. PICK x \in Commands : /\ x.st = "resolve" /\ Same(x, cmd[c]) /\ x.answers = cmd[c].answers
                            /\ Becomes(cmd', c, x)
  BY <1>1, StateSet DEF States
<1>4. Thread(x)
  BY <1>2, <1>3 DEF Thread, Same, Resolving, AllKinds
<1>5. ThreadsOK(cmd') /\ Kin(cmd')
  BY <1>1, <1>3, <1>4, Replaced DEF CommandInv
<1>6. UpOK(cmd', attached', disconnected')
  BY DEF CommandInv, UpOK
<1>7. /\ asked' \subseteq asked /\ \A s \in asked' : s.owner # c
  BY ServedSpec DEF CommandInv, Served, Final
<1>8. IdentOK(cmd', asked', ident', machine')
  <2>1. \A d \in Cmd :
           /\ cmd'[d].st = "idle" <=> cmd[d].st = "idle"
           /\ cmd'[d].st \notin {"idle", "gone"} =>
                cmd[d].st \notin {"idle", "gone"} /\ cmd'[d].ident = cmd[d].ident
    BY <1>3 DEF Becomes, Same
  <2>2. \A s \in asked' : \E q \in asked : s.owner = q.owner /\ s.ident = q.ident
    BY <1>7
  <2>3. IdentOK(cmd', asked', ident, machine)
    BY <2>1, <2>2, IdentKept DEF CommandInv
  <2> QED
    BY <2>3
<1>9. PendingOK(cmd', pending') /\ AskedOK(cmd', pending', asked')
  <2>1. /\ pending' \in Seq(Cmd) /\ \A i, j \in 1..Len(pending') : pending'[i] = pending'[j] => i = j
        /\ \A d \in Cmd : Listed(pending', d) <=> Listed(pending, d) /\ d # c
    BY Removed DEF CommandInv, PendingOK, Unpended
  <2>2. PendingOK(cmd', pending')
    BY <1>3, <2>1 DEF CommandInv, PendingOK, Becomes
  <2>3. AskedOK(cmd', pending', asked')
    BY <1>3, <1>7, <2>1 DEF CommandInv, AskedOK, Becomes, Questions
  <2> QED
    BY <2>2, <2>3
<1>10. TasksOK(cmd', tasks') /\ MachineOK(asked', disconnected', machine', tasks')
  <2>1. \A d \in Cmd :
          /\ cmd[d].st = "resume" => cmd'[d].st = "resume"
          /\ cmd[d].st \in {"finish", "gone"} => cmd'[d].st \in {"finish", "gone"}
    BY <1>3 DEF Becomes
  <2>2. TasksOK(cmd, tasks)
    BY DEF CommandInv
  <2>3. TasksOK(cmd', tasks)
    BY ONLY <2>1, <2>2, TasksKept
  <2> QED
    BY <1>7, <2>3 DEF CommandInv, MachineOK
<1> QED
  BY <1>5, <1>6, <1>8, <1>9, <1>10 DEF CommandInv

(* The same on a connection that is up: WHOIS is sent as command d.        *)
LEMMA UnresolvedSent ==
  ASSUME CommandInv, NEW r \in asked, NEW c \in Cmd, c = r.owner, cmd[c].st = "wait",
         cmd[c].kind \in Resolving, ~ disconnected, NEW d \in Cmd, Fresh(d),
         cmd' = [cmd EXCEPT ![c].st = "resolve", ![d] = NewSent(d, "WHOIS", c)],
         ident' = CmdIdent(ident), pending' = Append(Unpended(c), d),
         asked' = Served(r, "ok") \union
                    {[owner |-> d, kind |-> "WHOIS", ident |-> CmdIdent(ident), items |-> 0]},
         UNCHANGED <<attached, disconnected, machine, tasks>>
  PROVE  CommandInv'
<1> DEFINE x == [cmd[c] EXCEPT !.st = "resolve"]
           y == NewSent(d, "WHOIS", c)
           new == [owner |-> d, kind |-> "WHOIS", ident |-> CmdIdent(ident), items |-> 0]
<1>1. /\ ThreadsOK(cmd) /\ Thread(cmd[c]) /\ cmd[c] \in Commands /\ machine = "run"
      /\ cmd[d].st = "idle" /\ d # c /\ c # None
  BY BoundAssumption DEF CommandInv, ThreadsOK, MachineOK, Fresh, Cmd, None
<1>2. cmd[c].parent = None /\ cmd[c].answers = 0
  BY <1>1 DEF Thread, Resolving
<1>3. x \in Commands /\ x.st = "resolve" /\ Same(x, cmd[c]) /\ x.answers = 0
  BY <1>1, <1>2 DEF Commands, States, Same
<1>4. Thread(x)
  BY <1>2, <1>3 DEF Thread, Same, Resolving, AllKinds
<1>5. CmdIdent(ident) \in 1..MaxIdent /\ CmdIdent(ident) \in 0..MaxIdent
  <2>1. CmdIdent(ident) \in 1..MaxIdent
    BY <1>1, IdentNew DEF CommandInv
  <2> QED
    BY <2>1
<1>6. /\ y \in Commands /\ y.st = "wait" /\ y.kind = "WHOIS" /\ y.ident = CmdIdent(ident)
      /\ y.parent = c /\ y.answers = 0
  <2>1. y = [Blank EXCEPT !.kind = "WHOIS", !.parent = c, !.ident = CmdIdent(ident), !.st = "wait"]
    <3>1. CmdIdent(ident) # 0
      BY <1>5
    <3> QED
      BY <3>1 DEF NewSent
  <2> QED
    BY <1>5, <2>1, BlankSpec DEF Commands, States, AllKinds
<1>7. Thread(y)
  <2> HIDE DEF y
  <2> QED
    BY <1>6 DEF Thread, AllKinds
<1>8. /\ cmd' \in [Cmd -> Commands] /\ cmd'[c] = x /\ cmd'[d] = y
      /\ \A e \in Cmd : e # c /\ e # d => cmd'[e] = cmd[e]
  <2> HIDE DEF y
  <2>1. cmd' = [cmd EXCEPT ![c] = x, ![d] = y]
    BY <1>1 DEF ThreadsOK, y
  <2> HIDE DEF x
  <2> QED
    BY <1>1, <1>3, <1>6, <2>1 DEF ThreadsOK
<1> HIDE DEF x, y
<1>9. ThreadsOK(cmd')
  BY <1>1, <1>4, <1>7, <1>8 DEF ThreadsOK
<1>10. \A e, p \in Cmd : Needed(cmd', e, p) <=> Needed(cmd, e, p) \/ (e = d /\ p = c)
  BY <1>1, <1>2, <1>3, <1>6, <1>8 DEF Needed
<1>11. Kin(cmd')
  <2>1. \A e \in Cmd : ~ Needed(cmd, e, c)
    BY DEF CommandInv, Kin
  <2>2. \A e, p \in Cmd : Needed(cmd, e, p) => cmd[p].st = "resolve" /\ p # d
    BY <1>1 DEF CommandInv, Kin
  <2>3. \A e, p \in Cmd : Needed(cmd', e, p) => cmd'[p].st = "resolve"
    <3> SUFFICES ASSUME NEW e \in Cmd, NEW p \in Cmd, Needed(cmd', e, p)
                 PROVE  cmd'[p].st = "resolve"
      OBVIOUS
    <3>1. CASE p = c
      BY <1>3, <1>8, <3>1
    <3>2. CASE p # c
      <4>1. Needed(cmd, e, p)
        BY <1>10, <3>2
      <4> QED
        BY <1>8, <2>2, <3>2, <4>1
    <3> QED
      BY <3>1, <3>2
  <2>4. \A e, g, p \in Cmd : Needed(cmd', e, p) /\ Needed(cmd', g, p) => e = g
    BY <1>10, <2>1 DEF CommandInv, Kin
  <2> QED
    BY <2>3, <2>4 DEF Kin
<1>12. UpOK(cmd', attached', disconnected')
  <2>1. \A e \in attached : cmd'[e] = cmd[e]
    BY <1>1, <1>2, <1>8 DEF CommandInv, UpOK
  <2>2. \A p \in Cmd : cmd'[p].st = "resolve" => \E e \in Cmd : Needed(cmd', e, p)
    BY <1>6, <1>8, <1>10 DEF CommandInv, UpOK
  <2>3. \A e \in Cmd : cmd'[e].st = "finish" => cmd'[e] = cmd[e]
    BY <1>3, <1>6, <1>8
  <2> QED
    BY <2>1, <2>2, <2>3 DEF CommandInv, UpOK
<1>13. Served(r, "ok") \subseteq asked /\ \A s \in Served(r, "ok") : s.owner # c
  BY ServedSpec DEF CommandInv, Served, Final
<1>14. /\ new \in Questions /\ new.owner = d /\ new.kind = "WHOIS" /\ new.ident = CmdIdent(ident)
  BY <1>5, BoundAssumption DEF Questions, AllKinds
<1>15. asked' = Served(r, "ok") \union {new}
  OBVIOUS
<1> HIDE DEF new
<1>16. /\ pending' \in Seq(Cmd) /\ \A i, j \in 1..Len(pending') : pending'[i] = pending'[j] => i = j
       /\ \A e \in Cmd : Listed(pending', e) <=> (Listed(pending, e) /\ e # c) \/ e = d
  <2> DEFINE q == RemoveFirst(pending, c)
  <2>1. /\ q \in Seq(Cmd) /\ \A i, j \in 1..Len(q) : q[i] = q[j] => i = j
        /\ \A e \in Cmd : Listed(q, e) <=> Listed(pending, e) /\ e # c
    BY Removed DEF CommandInv, PendingOK
  <2>2. pending' = Append(q, d)
    BY DEF Unpended
  <2> HIDE DEF q
  <2>3. /\ pending' \in Seq(Cmd) /\ Len(pending') = Len(q) + 1
        /\ \A i \in 1..Len(q) : pending'[i] = q[i]
        /\ pending'[Len(q) + 1] = d
    BY <2>1, <2>2
  <2>4. ~ Listed(q, d)
    BY <1>1, <2>1 DEF CommandInv, PendingOK
  <2>5. \A e \in Cmd : Listed(pending', e) <=> Listed(q, e) \/ e = d
    BY <2>1, <2>3 DEF Listed
  <2>6. \A i, j \in 1..Len(pending') : pending'[i] = pending'[j] => i = j
    BY <2>1, <2>3, <2>4 DEF Listed
  <2> QED
    BY <2>1, <2>3, <2>5, <2>6
<1>17. PendingOK(cmd', pending')
  <2>1. PendingOK(cmd, pending)
    BY DEF CommandInv
  <2>2. \A e \in Cmd : Listed(pending', e) =>
          cmd'[e].st = "wait" \/ (Listed(pending, e) /\ cmd'[e] = cmd[e])
    BY <1>6, <1>8, <1>16
  <2> QED
    BY ONLY <1>16, <2>1, <2>2 DEF PendingOK
<1>18. AskedOK(cmd', pending', asked')
  <2>1. AskedOK(cmd, pending, asked)
    BY DEF CommandInv
  <2>2. \A s \in Served(r, "ok") : s \in asked /\ s.owner \in Cmd /\ s.owner # c /\ s.owner # d
    BY <1>1, <1>13, <2>1 DEF AskedOK, Questions
  <2>3. \A s \in Served(r, "ok") : /\ s.kind # "QUIT"
                                   /\ cmd'[s.owner].st \in {"wait", "finish", "gone"}
                                   /\ cmd'[s.owner].st = "wait" => Listed(pending', s.owner)
    BY <1>8, <1>16, <2>1, <2>2 DEF AskedOK
  <2>4. new.kind # "QUIT" /\ cmd'[new.owner].st = "wait" /\ Listed(pending', new.owner)
    BY <1>6, <1>8, <1>14, <1>16
  <2>5. \A s, q \in asked' : s.owner = q.owner => s = q
    BY <1>14, <1>15, <2>1, <2>2 DEF AskedOK
  <2>6. asked' \subseteq Questions
    BY <1>13, <1>14, <1>15, <2>1 DEF AskedOK
  <2> QED
    BY <1>15, <2>3, <2>4, <2>5, <2>6 DEF AskedOK
<1>19. TasksOK(cmd', tasks') /\ MachineOK(asked', disconnected', machine', tasks')
  <2>1. \A e \in Cmd :
          /\ cmd[e].st = "resume" => cmd'[e].st = "resume"
          /\ cmd[e].st \in {"finish", "gone"} => cmd'[e].st \in {"finish", "gone"}
    BY <1>1, <1>8
  <2>2. TasksOK(cmd, tasks)
    BY DEF CommandInv
  <2>3. TasksOK(cmd', tasks)
    BY ONLY <2>1, <2>2, TasksKept
  <2> QED
    BY <1>1, <2>3 DEF CommandInv, MachineOK
<1>20. IdentOK(cmd', asked', ident', machine')
  <2>1. \A e \in Cmd :
          /\ cmd'[e].st = "idle" <=> cmd[e].st = "idle" /\ e # d
          /\ cmd'[e].st \notin {"idle", "gone"} /\ e # d =>
               cmd[e].st \notin {"idle", "gone"} /\ cmd'[e].ident = cmd[e].ident
    BY <1>1, <1>3, <1>6, <1>8 DEF Same
  <2>2. cmd'[d].st # "gone" => cmd'[d].ident = CmdIdent(ident)
    BY <1>6, <1>8
  <2>3. \A s \in asked' :
          \/ \E q \in asked : s.owner = q.owner /\ s.ident = q.ident
          \/ s.owner \in Cmd /\ cmd'[s.owner].st = "wait" /\ s.ident = cmd'[s.owner].ident
    BY <1>6, <1>8, <1>13, <1>14, <1>15
  <2>4. IdentOK(cmd', asked', CmdIdent(ident), machine)
    <3>1. /\ AskedOK(cmd, pending, asked) /\ IdentOK(cmd, asked, ident, machine)
          /\ machine # "gone" /\ d \in Cmd /\ Fresh(d)
      BY <1>1 DEF CommandInv
    <3> QED
      BY ONLY <2>1, <2>2, <2>3, <3>1, IdentNew
  <2> QED
    BY <2>4
<1> QED
  BY <1>9, <1>11, <1>12, <1>17, <1>18, <1>19, <1>20 DEF CommandInv

(* The reply of JOIN or USERS that names unknown clients.                  *)
LEMMA ReplyUnresolvedKeeps ==
  ASSUME CommandInv, machine # "gone", NEW r \in asked, NEW d \in Cmd, ReplyUnresolved(r, d)
  PROVE  CommandInv'
<1>1. Find(r) = r.owner /\ Find(r) \in Cmd /\ cmd[Find(r)].st = "wait"
  BY FoundSpec DEF ReplyUnresolved
<1>2. CASE disconnected
  BY <1>1, <1>2, UnresolvedClosed DEF ReplyUnresolved
<1>3. CASE ~ disconnected
  BY <1>1, <1>3, UnresolvedSent DEF ReplyUnresolved
<1> QED
  BY <1>2, <1>3

(* The tasks after the loop of silc_client_connection_st_close.            *)
LEMMA ClosedSpec ==
  ASSUME CommandInv, Due("close"), NEW m, Finished(m, WokenFinal, Woken \ WokenFinal),
         Ready(WokenFinal, Woken \ WokenFinal)
  PROVE  /\ TasksOK(m, Closed[Len(pending)])
         /\ \A j \in 1..Len(Closed[Len(pending)]) :
              \/ \E i \in 1..Len(Tail(tasks)) : Closed[Len(pending)][j].do = Tail(tasks)[i].do
              \/ Closed[Len(pending)][j].do \in {"run", "finish"}
<1> DEFINE n == Len(pending)
           b == Tail(tasks)
           F == WokenFinal
           N == Woken \ WokenFinal
           C(k) == Closed[k]
           Known(k, j) == \/ \E i \in 1..Len(b) : C(k)[j].do = b[i].do
                          \/ C(k)[j].do \in {"run", "finish"}
           Old(t) == cmd[t.cmd].st = "resume"
           New(t, k) == \E i \in 1..k : pending[i] \in F /\ Needed(cmd, pending[i], t.cmd)
           Q(k) == /\ TasksOK(m, C(k))
                   /\ \A j \in 1..Len(C(k)) :
                        Known(k, j) /\ (C(k)[j].do = "run" => Old(C(k)[j]) \/ New(C(k)[j], k))
           S == {k \in Nat : k <= n => Q(k)}
<1>1. /\ n \in Nat /\ \A i \in 1..n : pending[i] \in Cmd
      /\ \A i, j \in 1..n : pending[i] = pending[j] => i = j
      /\ ThreadsOK(cmd) /\ Kin(cmd) /\ pending \in Seq(Cmd)
  BY DEF CommandInv, PendingOK
<1>2. TasksOK(cmd, b)
  BY DueSpec
<1>3. F \in SUBSET Cmd /\ N \in SUBSET Cmd /\ F \union N = Woken /\ Ready(F, N) /\ Finished(m, F, N)
  BY DEF Woken, WokenFinal
<1>4. \A c \in Woken : cmd[c].st \in {"wait", "quit"}
  BY DEF Woken
<1>5. /\ C(0) = b
      /\ \A i \in 1..n : C(i) = C(i - 1) \o
           (IF pending[i] \in Woken THEN FinishTasks(pending[i], pending[i] \in F) ELSE <<>>)
  BY <1>1, ClosedLoop
<1> HIDE DEF n, b, F, N, C
<1>6. Q(0)
  <2>1. \A d \in Cmd :
          /\ cmd[d].st = "resume" => m[d].st = "resume"
          /\ cmd[d].st \in {"finish", "gone"} => m[d].st \in {"finish", "gone"}
    BY <1>3, <1>4 DEF Finished, Ends, GoesOn, Stays
  <2>2. TasksOK(m, b)
    BY <1>2, <2>1, TasksKept
  <2>3. \A j \in 1..Len(b) : b[j].do = "run" => Old(b[j])
    BY <1>2 DEF TasksOK, TaskOK
  <2> QED
    BY <1>5, <2>2, <2>3
<1>7. ASSUME NEW k \in Nat, k + 1 <= n, Q(k) PROVE Q(k + 1)
  <2> DEFINE c == pending[k + 1]
             s == FinishTasks(c, c \in F)
  <2>1. k + 1 \in 1..n /\ c \in Cmd /\ (k + 1) - 1 = k
    BY <1>1, <1>7
  <2>2. C(k + 1) = C(k) \o (IF c \in Woken THEN s ELSE <<>>)
    BY <1>5, <2>1
  <2>3. \A t : New(t, k) => New(t, k + 1)
    BY <2>1
  <2>4. CASE c \notin Woken
    <3>1. C(k + 1) = C(k)
      <4>1. C(k) \in Seq(TaskSet) /\ C(k + 1) = C(k) \o <<>>
        BY <1>7, <2>2, <2>4 DEF TasksOK
      <4> QED
        BY ONLY <4>1, ConcatEmptySeq
    <3> HIDE DEF New, Old
    <3> QED
      BY <1>7, <2>3, <3>1
  <2>5. CASE c \in Woken
    <3>1. C(k + 1) = C(k) \o s
      BY <2>2, <2>5
    <3>2. /\ TasksOK(m, s)
          /\ \A j \in 1..Len(s) :
               /\ s[j].do \in {"run", "finish"}
               /\ s[j].do = "run" => c \in F /\ s[j].cmd \in Cmd /\ Needed(cmd, c, s[j].cmd)
      <4>1. c \in F \union N /\ cmd[c].st # "resume"
        BY <1>3, <1>4, <2>5
      <4> HIDE DEF c
      <4>2. EndTasks(m, F, c, s)
        BY <1>1, <1>3, <4>1, FinishTasksSpec
      <4> HIDE DEF s
      <4> QED
        BY <4>2 DEF EndTasks
    <3> HIDE DEF s
    <3>3. \A i \in 1..Len(C(k)), j \in 1..Len(s) :
            C(k)[i].do = "run" /\ s[j].do = "run" => C(k)[i].cmd # s[j].cmd
      <4> SUFFICES ASSUME NEW i \in 1..Len(C(k)), NEW j \in 1..Len(s), C(k)[i].do = "run",
                          s[j].do = "run", C(k)[i].cmd = s[j].cmd
                   PROVE  FALSE
        OBVIOUS
      <4>1. c \in F /\ s[j].cmd \in Cmd /\ Needed(cmd, c, s[j].cmd)
        BY <3>2
      <4>2. cmd[s[j].cmd].st = "resolve"
        BY <1>1, <2>1, <4>1 DEF Kin
      <4>3. ~ Old(C(k)[i])
        BY <4>2
      <4>4. PICK l \in 1..k : pending[l] \in F /\ Needed(cmd, pending[l], C(k)[i].cmd)
        BY <1>7, <4>3
      <4>5. l \in 1..n /\ l # k + 1
        BY <1>1, <1>7
      <4>6. pending[l] = c
        BY <1>1, <2>1, <4>1, <4>4, <4>5 DEF Kin
      <4> QED
        BY <1>1, <2>1, <4>5, <4>6
    <3>4. TasksOK(m, C(k + 1))
      BY <1>7, <3>1, <3>2, <3>3, TasksJoined
    <3>5. \A j \in 1..Len(C(k + 1)) : \/ \E i \in 1..Len(C(k)) : C(k + 1)[j] = C(k)[i]
                                      \/ \E i \in 1..Len(s) : C(k + 1)[j] = s[i]
      <4>1. C(k) \in Seq(TaskSet) /\ s \in Seq(TaskSet)
        BY <1>7, <3>2 DEF TasksOK
      <4> HIDE DEF C
      <4>2. \A j \in 1..Len(C(k) \o s) : \/ \E i \in 1..Len(C(k)) : (C(k) \o s)[j] = C(k)[i]
                                         \/ \E i \in 1..Len(s) : (C(k) \o s)[j] = s[i]
        BY ONLY <4>1, FromEither
      <4> QED
        BY ONLY <3>1, <4>2
    <3>6. \A i \in 1..Len(s) : s[i].do = "run" => New(s[i], k + 1)
      BY <2>1, <3>2
    <3> HIDE DEF New, Old
    <3>7. ASSUME NEW j \in 1..Len(C(k + 1))
          PROVE  /\ Known(k + 1, j)
                 /\ C(k + 1)[j].do = "run" => Old(C(k + 1)[j]) \/ New(C(k + 1)[j], k + 1)
      <4>1. CASE \E i \in 1..Len(C(k)) : C(k + 1)[j] = C(k)[i]
        BY <1>7, <2>3, <4>1
      <4>2. CASE \E i \in 1..Len(s) : C(k + 1)[j] = s[i]
        BY <3>2, <3>6, <4>2
      <4> QED
        BY <3>5, <4>1, <4>2
    <3> QED
      BY <3>4, <3>7
  <2> QED
    BY <2>4, <2>5
<1> HIDE DEF Q
<1>8. \A k \in Nat : k \in S
  <2>1. 0 \in S
    BY <1>6
  <2>2. \A k \in Nat : k \in S => k + 1 \in S
    BY <1>1, <1>7
  <2> HIDE DEF S
  <2> QED
    BY <2>1, <2>2, NatInd
<1>9. Q(n)
  BY <1>1, <1>8
<1> QED
  BY <1>9 DEF Q, n, b, C

(* silc_client_connection_st_close with commands pending.                  *)
LEMMA CloseCommandsKeeps ==
  ASSUME CommandInv, CloseCommands
  PROVE  CommandInv'
<1> DEFINE F == WokenFinal
           N == Woken \ WokenFinal
           q == Closed[Len(pending)]
           t == Task("close", None)
<1>1. /\ Due("close") /\ pending' = StillPending[Len(pending)] /\ cmd' = Finishing(F, N)
      /\ attached' = attached \ F /\ tasks' = Append(q, t)
      /\ UNCHANGED <<ident, asked, disconnected, machine>>
  BY DEF CloseCommands
<1>2. disconnected /\ MachineOK(asked, disconnected, machine, Tail(tasks))
  BY <1>1, DueSpec
<1>3. /\ F \in SUBSET Cmd /\ N \in SUBSET Cmd /\ F \union N = Woken /\ Ready(F, N)
      /\ \A d \in Cmd : d \in Woken <=> Listed(pending, d) /\ cmd[d].st \in {"wait", "quit"}
  BY DEF Woken, WokenFinal, Ready, Pending, Contains, Listed
<1>4. Finished(cmd', F, N) /\ ThreadsOK(cmd') /\ Kin(cmd')
  BY <1>1, <1>3, FinishingSpec DEF CommandInv, Ready
<1>5. /\ TasksOK(cmd', q)
      /\ \A j \in 1..Len(q) : \/ \E i \in 1..Len(Tail(tasks)) : q[j].do = Tail(tasks)[i].do
                              \/ q[j].do \in {"run", "finish"}
  BY <1>1, <1>3, <1>4, ClosedSpec
<1> HIDE DEF F, N, q
<1>6. UpOK(cmd', attached', disconnected')
  BY <1>1, <1>2, <1>3, <1>4, UpFinished
<1>7. /\ IdentOK(cmd', asked, ident, machine)
      /\ \A d \in Cmd : cmd'[d].st = "wait" => cmd[d].st = "wait" /\ cmd'[d] = cmd[d]
      /\ \A d \in F \union N : cmd'[d].st = "finish" /\ cmd'[d].kind = cmd[d].kind
      /\ \A d \in Cmd : cmd[d].st \in {"finish", "gone", "wait", "quit"} /\ d \notin F \union N =>
           cmd'[d] = cmd[d]
      /\ \A r \in asked : cmd'[r.owner].st \in {"wait", "finish", "gone"}
  <2>1. asked \subseteq asked
    OBVIOUS
  <2> QED
    BY ONLY CommandInv, <1>3, <1>4, <2>1, FinishedKeeps
<1>8. /\ pending' \in Seq(Cmd) /\ \A i, j \in 1..Len(pending') : pending'[i] = pending'[j] => i = j
      /\ \A x \in Cmd : Listed(pending', x) <=> Listed(pending, x) /\ cmd[x].st # "wait"
  BY <1>1, StillPendingSpec DEF CommandInv
<1>9. PendingOK(cmd', pending')
  <2>1. PendingOK(cmd, pending) /\ \A d \in Cmd : cmd[d].st = "quit" => cmd[d].kind = "QUIT"
    BY DEF CommandInv, ThreadsOK, Thread
  <2>2. \A d \in Cmd : Listed(pending', d) => cmd'[d].st = "finish" /\ cmd'[d].kind = "QUIT"
    <3> SUFFICES ASSUME NEW d \in Cmd, Listed(pending', d)
                 PROVE  cmd'[d].st = "finish" /\ cmd'[d].kind = "QUIT"
      OBVIOUS
    <3>1. Listed(pending, d) /\ cmd[d].st \in {"quit", "finish"} /\ cmd[d].kind = "QUIT"
      BY <1>8, <2>1 DEF PendingOK
    <3>2. CASE cmd[d].st = "quit"
      BY <1>3, <1>7, <3>1, <3>2
    <3>3. CASE cmd[d].st = "finish"
      BY <1>3, <1>7, <3>1, <3>3
    <3> QED
      BY <3>1, <3>2, <3>3
  <2> QED
    BY <1>8, <2>2 DEF PendingOK
<1>10. AskedOK(cmd', pending', asked)
  <2>1. AskedOK(cmd, pending, asked)
    BY DEF CommandInv
  <2>2. ASSUME NEW r \in asked PROVE cmd'[r.owner].st # "wait"
    <3>1. r.owner \in Cmd /\ (cmd[r.owner].st = "wait" => Listed(pending, r.owner))
      BY <2>1 DEF AskedOK, Questions
    <3>2. CASE cmd[r.owner].st = "wait"
      BY <1>3, <1>7, <3>1, <3>2
    <3>3. CASE cmd[r.owner].st # "wait"
      BY <1>7, <3>1, <3>3
    <3> QED
      BY <3>2, <3>3
  <2> QED
    BY <1>7, <2>1, <2>2 DEF AskedOK
<1>11. t \in TaskSet /\ t.do = "close" /\ TaskOK(cmd', t)
  BY DEF Task, TaskSet, TaskOK
<1> HIDE DEF t
<1>12. TasksOK(cmd', tasks')
  BY <1>1, <1>5, <1>11, TaskAdded
<1>13. MachineOK(asked, disconnected, machine, tasks')
  <2>1. q \in Seq(TaskSet)
    BY <1>5 DEF TasksOK
  <2>2. \A j \in 1..Len(tasks') : \/ \E i \in 1..Len(q) : tasks'[j].do = q[i].do
                                  \/ tasks'[j].do = "close"
    BY <1>1, <1>11, <2>1, Appended
  <2>3. \A j \in 1..Len(tasks') : tasks'[j].do = "destroy" => machine # "run"
    BY <1>2, <1>5, <2>2 DEF MachineOK
  <2> QED
    BY <1>2, <2>3 DEF MachineOK
<1> QED
  BY <1>1, <1>4, <1>6, <1>7, <1>9, <1>10, <1>12, <1>13 DEF CommandInv

(* Every step of the specification keeps the invariant.                    *)
LEMMA NextKeeps ==
  ASSUME CommandInv, [Next]_vars
  PROVE  CommandInv'
<1>1. CASE Scheduled
  BY <1>1, CloseCommandsKeeps, CloseMachineKeeps, DestroyKeeps, FinishThreadKeeps, RunOperKeeps,
     RunUsersKeeps
  DEF Scheduled
<1>2. CASE Reply
  <2>1. machine # "gone"
    BY <1>2 DEF Reply
  <2>2. PICK r \in asked :
          \/ \E status \in Answers(r) : ReplyUnknown(r, status) \/ ReplyPlain(r, status)
          \/ ReplyKnown(r)
          \/ \E d \in Cmd : ReplyUnresolved(r, d)
    BY <1>2 DEF Reply
  <2>3. CASE \E status \in Answers(r) : ReplyUnknown(r, status)
    BY <2>1, <2>3, ReplyUnknownKeeps
  <2>4. CASE \E status \in Answers(r) : ReplyPlain(r, status)
    BY <2>1, <2>4, ReplyPlainKeeps
  <2>5. CASE ReplyKnown(r)
    BY <2>1, <2>5, ReplyKnownKeeps
  <2>6. CASE \E d \in Cmd : ReplyUnresolved(r, d)
    BY <2>1, <2>6, ReplyUnresolvedKeeps
  <2> QED
    BY <2>2, <2>3, <2>4, <2>5, <2>6
<1>3. CASE Disconnect
  BY <1>3, DisconnectKeeps
<1>4. ASSUME NEW c \in Cmd, NEW k \in Kinds, Call(c, k) PROVE CommandInv'
  BY <1>4, CallKeeps
<1>5. ASSUME NEW c \in Cmd, NEW k \in SentKinds, Send(c, k) PROVE CommandInv'
  BY <1>5, SendKeeps
<1>6. ASSUME NEW c \in Cmd,
             CallRefused(c) \/ DelayTimer(c) \/ Passphrase(c) \/ ReplyTimeout(c)
               \/ QuitTimer(c) \/ Attach(c)
      PROVE  CommandInv'
  BY <1>6, CallRefusedKeeps, DelayTimerKeeps, PassphraseKeeps, ReplyTimeoutKeeps, QuitTimerKeeps,
     AttachKeeps
<1>7. CASE UNCHANGED vars
  BY <1>7 DEF vars, CommandInv
<1> QED
  BY <1>1, <1>2, <1>3, <1>4, <1>5, <1>6, <1>7 DEF Next

-----------------------------------------------------------------------------
(* The theorems.                                                           *)

(* CommandInv holds in every state of the commands of a connection.        *)
THEOREM CommandInvariant == Spec => []CommandInv
<1>1. Init => CommandInv
  BY InitKeeps
<1>2. CommandInv /\ [Next]_vars => CommandInv'
  BY NextKeeps
<1> QED
  BY <1>1, <1>2, PTL DEF Spec

(* The contexts, the pending list, the queue of the server and the tasks   *)
(* keep their types, and no command is on the pending list twice.          *)
THEOREM CommandTypeCorrect == Spec => []TypeOK
<1>1. CommandInv => TypeOK
  <2> SUFFICES ASSUME CommandInv PROVE TypeOK
    OBVIOUS
  <2>1. cmd \in [Cmd -> Commands] /\ attached \subseteq Cmd /\ asked \subseteq Questions
    BY DEF CommandInv, ThreadsOK, UpOK, AskedOK
  <2>2. /\ tasks \in Seq(TaskSet) /\ ident \in 0..MaxIdent
        /\ disconnected \in BOOLEAN /\ machine \in {"run", "finish", "gone"}
    BY DEF CommandInv, TasksOK, MachineOK, IdentOK
  <2>3. pending \in Seq(Cmd) /\ IsInjective(pending)
    <3>1. pending \in Seq(Cmd) /\ \A i, j \in 1..Len(pending) : pending[i] = pending[j] => i = j
      BY DEF CommandInv, PendingOK
    <3>2. DOMAIN pending = 1..Len(pending)
      BY <3>1
    <3> QED
      BY <3>1, <3>2 DEF IsInjective
  <2> QED
    BY <2>1, <2>2, <2>3 DEF TypeOK, Commands, States, Questions, TaskSet
<1> QED
  BY <1>1, CommandInvariant, PTL

(* The pending list holds no freed command, and a command that awaits what *)
(* the server owes is on it: through replies, timeouts, lists, resolving   *)
(* and the close of the connection.                                        *)
THEOREM CommandPendingLive == Spec => []PendingLive
<1>1. CommandInv => PendingLive
  <2> SUFFICES ASSUME CommandInv PROVE PendingLive
    OBVIOUS
  <2>1. PendingOK(cmd, pending) /\ AskedOK(cmd, pending, asked)
    BY DEF CommandInv
  <2>2. ASSUME NEW i \in 1..Len(pending)
        PROVE  cmd[pending[i]].st \in {"wait", "quit", "finish"}
    <3>1. pending[i] \in Cmd /\ Listed(pending, pending[i])
      BY <2>1 DEF PendingOK, Listed
    <3> QED
      BY <2>1, <3>1 DEF PendingOK
  <2>3. \A r \in asked : cmd[r.owner].st = "wait" => Pending(r.owner)
    BY <2>1 DEF AskedOK, PendingOK, Pending, Contains, Listed
  <2> QED
    BY <2>2, <2>3 DEF PendingLive
<1> QED
  BY <1>1, CommandInvariant, PTL

(* silc_client_command_reply never takes a reply for that of another       *)
(* command, wherever in the sixteen bits the identifiers started.          *)
THEOREM CommandReplyFindsItsCommand == Spec => []ReplyFindsItsCommand
<1>1. CommandInv => ReplyFindsItsCommand
  <2> SUFFICES ASSUME CommandInv, NEW r \in asked PROVE Find(r) \in {r.owner, None}
    BY DEF ReplyFindsItsCommand
  <2>1. machine # "gone"
    BY DEF CommandInv, MachineOK
  <2> QED
    BY <2>1, FoundSpec
<1> QED
  BY <1>1, CommandInvariant, PTL

(* No command delivers two final statuses, and while the connection is up  *)
(* none ends unanswered once it was sent, nobody waits for a command that  *)
(* will not answer.                                                        *)
THEOREM CommandAnsweredOnce == Spec => []AnsweredOnce
<1>1. CommandInv => AnsweredOnce
  <2> SUFFICES ASSUME CommandInv PROVE AnsweredOnce
    OBVIOUS
  <2>1. \A c \in Cmd : cmd[c].answers <= 1
    BY DEF CommandInv, ThreadsOK, Thread
  <2>2. UpOK(cmd, attached, disconnected)
    BY DEF CommandInv
  <2> QED
    BY <2>1, <2>2 DEF UpOK, Needed, AnsweredOnce
<1> QED
  BY <1>1, CommandInvariant, PTL
=============================================================================
