------------------------ MODULE ClientMachine_proofs ------------------------
(***************************************************************************)
(* Proofs about ClientMachine, for every finite set of connections and     *)
(* every bound on the signals: StopInv is inductive.  The flags and the    *)
(* value of the event are related through the number of connections, so    *)
(* that what Connect and ConnectionFinished do to it comes first.          *)
(***************************************************************************)
EXTENDS ClientMachine, FiniteSetTheorems, TLAPS

(* Counting the connections tells whether one is active. *)
LEMMA CountActive ==
  ASSUME ConnsCounted
  PROVE  /\ IsFiniteSet(Active)
         /\ conns = 0 <=> Active = {}
<1>1. IsFiniteSet(Active)
  BY ConnsAssumption, FS_Subset DEF Active
<1> QED BY <1>1, FS_EmptySet DEF ConnsCounted

(* silc_client_add_connection adds one to the count. *)
LEMMA ConnectCounts ==
  ASSUME TypeOK, ConnsCounted, NEW c \in Conns, Connect(c)
  PROVE  ConnsCounted' /\ Active' # {} /\ conns' \in Nat
<1>1. Active' = Active \cup {c} /\ c \notin Active
  BY DEF Connect, Active, TypeOK
<1>2. Cardinality(Active \cup {c}) = Cardinality(Active) + 1
  BY <1>1, CountActive, FS_AddElement
<1> QED BY <1>1, <1>2 DEF Connect, ConnsCounted, TypeOK

(* silc_client_connection_finished takes it off again. *)
LEMMA FinishedCounts ==
  ASSUME TypeOK, ConnsCounted, NEW c \in Conns, ConnectionFinished(c)
  PROVE  ConnsCounted' /\ Active # {} /\ conns' \in Nat
<1>1. Active' = Active \ {c} /\ c \in Active
  BY DEF ConnectionFinished, Active, TypeOK
<1>2. /\ Cardinality(Active \ {c}) = Cardinality(Active) - 1
      /\ IsFiniteSet(Active \ {c})
  BY <1>1, CountActive, FS_RemoveElement
<1>3. conns' = Cardinality(Active')
  BY <1>1, <1>2 DEF ConnectionFinished, ConnsCounted
<1>4. Cardinality(Active') \in Nat
  BY <1>1, <1>2, FS_CardinalityType
<1> QED BY <1>1, <1>3, <1>4 DEF ConnsCounted

(* No other step adds or removes a connection. *)
LEMMA OthersCount ==
  ASSUME ConnsCounted, UNCHANGED <<conns, phase>>
  PROVE  ConnsCounted' /\ Active' = Active
BY DEF ConnsCounted, Active

(* A callback is called and nothing else is appended. *)
LEMMA CallAppended ==
  ASSUME TypeOK, calls' = Append(calls, running)
  PROVE  /\ calls' \in Seq({"running", "stopped"})
         /\ Len(calls') = Len(calls) + 1
         /\ DOMAIN calls' = 1..Len(calls')
         /\ DOMAIN calls = 1..Len(calls)
         /\ \A i \in DOMAIN calls : calls'[i] = calls[i]
         /\ calls'[Len(calls')] = running
BY DEF TypeOK

(* TypeOK in two parts, the flags and the rest. *)
FlagsOK ==
  /\ run_callback \in BOOLEAN /\ connection_closed \in BOOLEAN
  /\ stop \in BOOLEAN /\ waiting \in BOOLEAN
RestOK ==
  /\ conns \in Nat
  /\ phase \in [Conns -> {"none", "active", "finished"}]
  /\ running \in {"running", "stopped"}
  /\ state \in {"run", "stop", "finished"}
  /\ value \in Nat /\ signals \in Nat
  /\ cpu \in {"idle", "client", "callback"}
  /\ calls \in Seq({"running", "stopped"})

LEMMA TypeParts == (TypeOK <=> FlagsOK /\ RestOK) /\ (TypeOK' <=> FlagsOK' /\ RestOK')
BY Zenon DEF TypeOK, FlagsOK, RestOK

(* The types of the variables, and the count. *)
LEMMA TypeInit == Init => TypeOK /\ ConnsCounted
<1> SUFFICES ASSUME Init PROVE TypeOK /\ ConnsCounted
  OBVIOUS
<1>1. Active = {}
  BY DEF Init, Active
<1>2. FlagsOK
  BY Zenon DEF Init, FlagsOK
<1>3. RestOK
  BY DEF Init, RestOK
<1> QED BY <1>1, <1>2, <1>3, TypeParts, FS_EmptySet DEF Init, ConnsCounted

LEMMA TypeNext ==
  ASSUME TypeOK, ConnsCounted, [Next]_vars
  PROVE  TypeOK' /\ ConnsCounted'
<1> FlagsOK /\ RestOK
  BY TypeParts
<1>1. CASE DeliverSignal
  <2>1. FlagsOK'
    BY <1>1, Zenon DEF DeliverSignal, FlagsOK, flags, machine
  <2>2. RestOK'
    BY <1>1 DEF DeliverSignal, RestOK, machine
  <2> QED BY <1>1, <2>1, <2>2, TypeParts, OthersCount DEF DeliverSignal
<1>2. CASE AwaitEvent
  <2>1. FlagsOK'
    BY <1>2, Zenon DEF AwaitEvent, FlagsOK, flags
  <2>2. RestOK'
    BY <1>2 DEF AwaitEvent, RestOK
  <2> QED BY <1>2, <2>1, <2>2, TypeParts, OthersCount DEF AwaitEvent
<1>3. CASE EventRunning
  <2>1. FlagsOK'
    BY <1>3, Zenon DEF EventRunning, FlagsOK
  <2>2. RestOK'
    BY <1>3, CallAppended DEF EventRunning, RestOK, EventTaken
  <2> QED BY <1>3, <2>1, <2>2, TypeParts, OthersCount DEF EventRunning
<1>4. CASE EventConnectionClosed
  <2>1. FlagsOK'
    BY <1>4, Zenon DEF EventConnectionClosed, FlagsOK
  <2>2. RestOK'
    BY <1>4 DEF EventConnectionClosed, RestOK, EventTaken
  <2> QED BY <1>4, <2>1, <2>2, TypeParts, OthersCount DEF EventConnectionClosed
<1>5. CASE EventStop
  <2>1. FlagsOK'
    BY <1>5, Zenon DEF EventStop, FlagsOK, flags
  <2>2. RestOK'
    BY <1>5 DEF EventStop, RestOK, EventTaken
  <2> QED BY <1>5, <2>1, <2>2, TypeParts, OthersCount DEF EventStop
<1>6. CASE EventUnknown
  <2>1. FlagsOK'
    BY <1>6, Zenon DEF EventUnknown, FlagsOK, flags
  <2>2. RestOK'
    BY <1>6 DEF EventUnknown, RestOK, EventTaken
  <2> QED BY <1>6, <2>1, <2>2, TypeParts, OthersCount DEF EventUnknown
<1>7. CASE StStop
  <2>1. FlagsOK'
    BY <1>7, Zenon DEF StStop, FlagsOK, flags
  <2>2. RestOK'
    BY <1>7, CallAppended DEF StStop, RestOK
  <2> QED BY <1>7, <2>1, <2>2, TypeParts, OthersCount DEF StStop
<1>8. CASE CallbackReturns
  <2>1. FlagsOK'
    BY <1>8, Zenon DEF CallbackReturns, FlagsOK, flags, machine
  <2>2. RestOK'
    BY <1>8 DEF CallbackReturns, RestOK, machine
  <2> QED BY <1>8, <2>1, <2>2, TypeParts, OthersCount DEF CallbackReturns
<1>9. CASE Stop
  <2>1. FlagsOK'
    BY <1>9, Zenon DEF Stop, FlagsOK, machine
  <2>2. RestOK'
    BY <1>9 DEF Stop, RestOK, Signal, machine
  <2> QED BY <1>9, <2>1, <2>2, TypeParts, OthersCount DEF Stop
<1>10. ASSUME NEW c \in Conns, Connect(c) PROVE TypeOK' /\ ConnsCounted'
  <2>1. FlagsOK'
    BY <1>10, Zenon DEF Connect, FlagsOK, flags, machine
  <2>2. RestOK'
    BY <1>10, ConnectCounts DEF Connect, Signal, RestOK, machine
  <2> QED BY <1>10, <2>1, <2>2, TypeParts, ConnectCounts
<1>11. ASSUME NEW c \in Conns, ConnectionFinished(c) PROVE TypeOK' /\ ConnsCounted'
  <2>1. FlagsOK'
    BY <1>11, Zenon DEF ConnectionFinished, FlagsOK, flags, machine
  <2>2. RestOK'
    <3>1. value' \in Nat /\ signals' \in Nat
      BY <1>11 DEF ConnectionFinished, Signal, RestOK
    <3>2. conns' \in Nat
      BY <1>11, FinishedCounts
    <3>3. phase' \in [Conns -> {"none", "active", "finished"}]
      BY <1>11 DEF ConnectionFinished, RestOK
    <3> QED BY <1>11, <3>1, <3>2, <3>3 DEF ConnectionFinished, RestOK, machine
  <2> QED BY <1>11, <2>1, <2>2, TypeParts, FinishedCounts
<1>12. CASE UNCHANGED vars
  BY <1>12, OthersCount DEF vars, flags, machine, TypeOK
<1> QED
  BY <1>1, <1>2, <1>3, <1>4, <1>5, <1>6, <1>7, <1>8, <1>9, <1>10, <1>11, <1>12
     DEF Next, Machine
(* Nothing happens before the running callback. *)
LEMMA EarlyNext ==
  ASSUME StopInv, [Next]_vars
  PROVE  NothingBeforeRunning'
<1>1. conns = 0 <=> Active = {}
  BY CountActive DEF StopInv
<1> USE DEF StopInv
<1>2. CASE DeliverSignal
  BY <1>1, <1>2, OthersCount
     DEF DeliverSignal, flags, machine, NothingBeforeRunning, NoFlag,
         SleepsWaiting, TypeOK
<1>3. CASE AwaitEvent
  BY <1>1, <1>3, OthersCount
     DEF AwaitEvent, flags, machine, NothingBeforeRunning, NoFlag,
         SleepsWaiting, TypeOK
<1>4. CASE EventRunning
  BY <1>1, <1>4, OthersCount
     DEF EventRunning, EventTaken, flags, machine, NothingBeforeRunning,
         NoFlag, SleepsWaiting, TypeOK
<1>5. CASE EventConnectionClosed
  BY <1>1, <1>5, OthersCount
     DEF EventConnectionClosed, EventTaken, flags, machine,
         NothingBeforeRunning, NoFlag, SleepsWaiting, TypeOK
<1>6. CASE EventStop
  BY <1>1, <1>6, OthersCount
     DEF EventStop, EventTaken, flags, machine, NothingBeforeRunning,
         NoFlag, SleepsWaiting, TypeOK
<1>7. CASE EventUnknown
  BY <1>1, <1>7, OthersCount
     DEF EventUnknown, EventTaken, flags, machine, NothingBeforeRunning,
         NoFlag, SleepsWaiting, TypeOK
<1>8. CASE StStop
  BY <1>1, <1>8, OthersCount
     DEF StStop, flags, machine, NothingBeforeRunning, NoFlag,
         SleepsWaiting, TypeOK
<1>9. CASE CallbackReturns
  BY <1>1, <1>9, OthersCount
     DEF CallbackReturns, flags, machine, NothingBeforeRunning, NoFlag,
         SleepsWaiting, TypeOK
<1>10. CASE Stop
  BY <1>1, <1>10, OthersCount
     DEF Stop, Application, Signal, flags, machine, NothingBeforeRunning,
         NoFlag, SleepsWaiting, TypeOK
<1>11. ASSUME NEW c \in Conns, Connect(c) PROVE NothingBeforeRunning'
  BY <1>1, <1>11, ConnectCounts
     DEF Connect, Application, flags, machine, NothingBeforeRunning,
         NoFlag, SleepsWaiting, TypeOK
<1>12. ASSUME NEW c \in Conns, ConnectionFinished(c) PROVE NothingBeforeRunning'
  BY <1>1, <1>12, FinishedCounts
     DEF ConnectionFinished, Signal, flags, machine, NothingBeforeRunning,
         NoFlag, SleepsWaiting, TypeOK
<1>13. CASE UNCHANGED vars
  BY <1>1, <1>13, OthersCount
     DEF vars, flags, machine, NothingBeforeRunning, NoFlag,
         SleepsWaiting, TypeOK
<1> QED
  BY <1>2, <1>3, <1>4, <1>5, <1>6, <1>7, <1>8, <1>9, <1>10, <1>11, <1>12, <1>13
     DEF Next, Machine

(* The machine goes to sleep as a waiter and is woken for an event. *)
LEMMA SleepNext ==
  ASSUME StopInv, [Next]_vars
  PROVE  SleepsWaiting'
<1>1. conns = 0 <=> Active = {}
  BY CountActive DEF StopInv
<1> USE DEF StopInv
<1>2. CASE DeliverSignal
  BY <1>1, <1>2, OthersCount
     DEF DeliverSignal, flags, machine, SleepsWaiting, TypeOK
<1>3. CASE AwaitEvent
  BY <1>1, <1>3, OthersCount
     DEF AwaitEvent, flags, machine, SleepsWaiting, TypeOK
<1>4. CASE EventRunning
  BY <1>1, <1>4, OthersCount
     DEF EventRunning, EventTaken, flags, machine, SleepsWaiting, TypeOK
<1>5. CASE EventConnectionClosed
  BY <1>1, <1>5, OthersCount
     DEF EventConnectionClosed, EventTaken, flags, machine, SleepsWaiting,
         TypeOK
<1>6. CASE EventStop
  BY <1>1, <1>6, OthersCount
     DEF EventStop, EventTaken, flags, machine, SleepsWaiting, TypeOK
<1>7. CASE EventUnknown
  BY <1>1, <1>7, OthersCount
     DEF EventUnknown, EventTaken, flags, machine, SleepsWaiting, TypeOK
<1>8. CASE StStop
  BY <1>1, <1>8, OthersCount DEF StStop, flags, machine, SleepsWaiting, TypeOK
<1>9. CASE CallbackReturns
  BY <1>1, <1>9, OthersCount
     DEF CallbackReturns, flags, machine, SleepsWaiting, TypeOK
<1>10. CASE Stop
  BY <1>1, <1>10, OthersCount
     DEF Stop, Application, Signal, flags, machine, SleepsWaiting, TypeOK
<1>11. ASSUME NEW c \in Conns, Connect(c) PROVE SleepsWaiting'
  BY <1>1, <1>11, ConnectCounts
     DEF Connect, Application, flags, machine, SleepsWaiting, TypeOK
<1>12. ASSUME NEW c \in Conns, ConnectionFinished(c) PROVE SleepsWaiting'
  BY <1>1, <1>12, FinishedCounts
     DEF ConnectionFinished, Signal, flags, machine, SleepsWaiting, TypeOK
<1>13. CASE UNCHANGED vars
  BY <1>1, <1>13, OthersCount DEF vars, flags, machine, SleepsWaiting, TypeOK
<1> QED
  BY <1>2, <1>3, <1>4, <1>5, <1>6, <1>7, <1>8, <1>9, <1>10, <1>11, <1>12, <1>13
     DEF Next, Machine

(* An event is left to stop for, and with connections none is needed. *)
LEMMA PendingNext ==
  ASSUME StopInv, [Next]_vars
  PROVE  StopPending' /\ StopWaits'
<1>1. conns = 0 <=> Active = {}
  BY CountActive DEF StopInv
<1> USE DEF StopInv
<1>2. CASE DeliverSignal
  BY <1>1, <1>2, OthersCount
     DEF DeliverSignal, flags, machine, StopPending, StopWaits,
         NothingBeforeRunning, SleepsWaiting, NoFlag, TypeOK
<1>3. CASE AwaitEvent
  BY <1>1, <1>3, OthersCount
     DEF AwaitEvent, flags, machine, StopPending, StopWaits,
         NothingBeforeRunning, SleepsWaiting, NoFlag, TypeOK
<1>4. CASE EventRunning
  BY <1>1, <1>4, OthersCount
     DEF EventRunning, EventTaken, flags, machine, StopPending, StopWaits,
         NothingBeforeRunning, SleepsWaiting, NoFlag, TypeOK
<1>5. CASE EventConnectionClosed
  BY <1>1, <1>5, OthersCount
     DEF EventConnectionClosed, EventTaken, flags, machine, StopPending,
         StopWaits, NothingBeforeRunning, SleepsWaiting, NoFlag, TypeOK
<1>6. CASE EventStop
  BY <1>1, <1>6, OthersCount
     DEF EventStop, EventTaken, flags, machine, StopPending, StopWaits,
         NothingBeforeRunning, SleepsWaiting, NoFlag, TypeOK
<1>7. CASE EventUnknown
  BY <1>1, <1>7, OthersCount
     DEF EventUnknown, EventTaken, flags, machine, StopPending, StopWaits,
         NothingBeforeRunning, SleepsWaiting, NoFlag, TypeOK
<1>8. CASE StStop
  BY <1>1, <1>8, OthersCount
     DEF StStop, flags, machine, StopPending, StopWaits,
         NothingBeforeRunning, SleepsWaiting, NoFlag, TypeOK
<1>9. CASE CallbackReturns
  BY <1>1, <1>9, OthersCount
     DEF CallbackReturns, flags, machine, StopPending, StopWaits,
         NothingBeforeRunning, SleepsWaiting, NoFlag, TypeOK
<1>10. CASE Stop
  BY <1>1, <1>10, OthersCount
     DEF Stop, Application, Signal, flags, machine, StopPending,
         StopWaits, NothingBeforeRunning, SleepsWaiting, NoFlag, TypeOK
<1>11. ASSUME NEW c \in Conns, Connect(c) PROVE StopPending' /\ StopWaits'
  BY <1>1, <1>11, ConnectCounts
     DEF Connect, Application, flags, machine, StopPending, StopWaits,
         NothingBeforeRunning, SleepsWaiting, NoFlag, TypeOK
<1>12. ASSUME NEW c \in Conns, ConnectionFinished(c) PROVE StopPending' /\ StopWaits'
  <2>1. state = "run" /\ state' = state
    BY <1>12, FinishedCounts DEF ConnectionFinished, machine, StopWaits, TypeOK
  <2>2. value' > 0
    BY <1>12 DEF ConnectionFinished, Signal, TypeOK
  <2> QED BY <2>1, <2>2 DEF StopPending, StopWaits
<1>13. CASE UNCHANGED vars
  BY <1>1, <1>13, OthersCount
     DEF vars, flags, machine, StopPending, StopWaits,
         NothingBeforeRunning, SleepsWaiting, NoFlag, TypeOK
<1> QED
  BY <1>2, <1>3, <1>4, <1>5, <1>6, <1>7, <1>8, <1>9, <1>10, <1>11, <1>12, <1>13
     DEF Next, Machine

(* The stopped callback is called last. *)
LEMMA CallsNext ==
  ASSUME StopInv, [Next]_vars
  PROVE  OnlyRunning' /\ StoppedLast'
<1>1. conns = 0 <=> Active = {}
  BY CountActive DEF StopInv
<1> USE DEF StopInv
<1>2. CASE DeliverSignal
  BY <1>1, <1>2, OthersCount
     DEF DeliverSignal, flags, machine, OnlyRunning, StoppedLast,
         NothingBeforeRunning, StopWaits, SleepsWaiting, TypeOK
<1>3. CASE AwaitEvent
  BY <1>1, <1>3, OthersCount
     DEF AwaitEvent, flags, machine, OnlyRunning, StoppedLast,
         NothingBeforeRunning, StopWaits, SleepsWaiting, TypeOK
<1>4. CASE EventRunning
  BY <1>1, <1>4, OthersCount, CallAppended
     DEF EventRunning, EventTaken, flags, machine, OnlyRunning,
         StoppedLast, NothingBeforeRunning, StopWaits, SleepsWaiting,
         TypeOK
<1>5. CASE EventConnectionClosed
  BY <1>1, <1>5, OthersCount
     DEF EventConnectionClosed, EventTaken, flags, machine, OnlyRunning,
         StoppedLast, NothingBeforeRunning, StopWaits, SleepsWaiting,
         TypeOK
<1>6. CASE EventStop
  BY <1>1, <1>6, OthersCount
     DEF EventStop, EventTaken, flags, machine, OnlyRunning, StoppedLast,
         NothingBeforeRunning, StopWaits, SleepsWaiting, TypeOK
<1>7. CASE EventUnknown
  BY <1>1, <1>7, OthersCount
     DEF EventUnknown, EventTaken, flags, machine, OnlyRunning,
         StoppedLast, NothingBeforeRunning, StopWaits, SleepsWaiting,
         TypeOK
<1>8. CASE StStop
  BY <1>1, <1>8, OthersCount, CallAppended
     DEF StStop, flags, machine, OnlyRunning, StoppedLast,
         NothingBeforeRunning, StopWaits, SleepsWaiting, TypeOK
<1>9. CASE CallbackReturns
  BY <1>1, <1>9, OthersCount
     DEF CallbackReturns, flags, machine, OnlyRunning, StoppedLast,
         NothingBeforeRunning, StopWaits, SleepsWaiting, TypeOK
<1>10. CASE Stop
  BY <1>1, <1>10, OthersCount
     DEF Stop, Application, Signal, flags, machine, OnlyRunning,
         StoppedLast, NothingBeforeRunning, StopWaits, SleepsWaiting,
         TypeOK
<1>11. ASSUME NEW c \in Conns, Connect(c) PROVE OnlyRunning' /\ StoppedLast'
  BY <1>1, <1>11, ConnectCounts
     DEF Connect, Application, flags, machine, OnlyRunning, StoppedLast,
         NothingBeforeRunning, StopWaits, SleepsWaiting, TypeOK
<1>12. ASSUME NEW c \in Conns, ConnectionFinished(c) PROVE OnlyRunning' /\ StoppedLast'
  BY <1>1, <1>12, FinishedCounts
     DEF ConnectionFinished, Signal, flags, machine, OnlyRunning,
         StoppedLast, NothingBeforeRunning, StopWaits, SleepsWaiting,
         TypeOK
<1>13. CASE UNCHANGED vars
  BY <1>1, <1>13, OthersCount
     DEF vars, flags, machine, OnlyRunning, StoppedLast,
         NothingBeforeRunning, StopWaits, SleepsWaiting, TypeOK
<1> QED
  BY <1>2, <1>3, <1>4, <1>5, <1>6, <1>7, <1>8, <1>9, <1>10, <1>11, <1>12, <1>13
     DEF Next, Machine

(* StopInv holds initially and every step keeps it. *)
LEMMA StopInvInit == Init => StopInv
<1> SUFFICES ASSUME Init PROVE StopInv
  OBVIOUS
<1>1. TypeOK /\ ConnsCounted
  BY TypeInit
<1>2. Active = {}
  BY DEF Init, Active
<1>3. NothingBeforeRunning /\ SleepsWaiting /\ StopPending /\ StopWaits
  BY <1>2 DEF Init, NothingBeforeRunning, SleepsWaiting, StopPending, StopWaits
<1>4. OnlyRunning /\ StoppedLast
  BY DEF Init, OnlyRunning, StoppedLast
<1> QED BY <1>1, <1>3, <1>4 DEF StopInv

LEMMA StopInvNext == StopInv /\ [Next]_vars => StopInv'
<1> SUFFICES ASSUME StopInv, [Next]_vars PROVE StopInv'
  OBVIOUS
<1>1. TypeOK' /\ ConnsCounted'
  BY TypeNext DEF StopInv
<1> QED BY <1>1, EarlyNext, SleepNext, PendingNext, CallsNext DEF StopInv

(* The inductive invariant of the client machine holds in every state. *)
THEOREM StopInvariant == Spec => []StopInv
BY StopInvInit, StopInvNext, PTL DEF Spec

(* The variables keep their types: the count of connections and the value  *)
(* of the event never go below zero.                                       *)
THEOREM ClientTypeCorrect == Spec => []TypeOK
<1>1. StopInv => TypeOK
  BY DEF StopInv
<1> QED BY <1>1, StopInvariant, PTL

(* silc_client_st_stop is never entered while a connection is active. *)
THEOREM StopWaitsForConnections == Spec => []StopWaits
<1>1. StopInv => StopWaits
  BY DEF StopInv
<1> QED BY <1>1, StopInvariant, PTL

(* When the last connection has finished a stopped client has an event and *)
(* a task left that make it stop, in whatever order st_run took the others. *)
THEOREM StopIsRemembered == Spec => []StopNotForgotten
<1>1. StopInv => StopNotForgotten
  BY DEF StopInv, StopPending, SleepsWaiting, StopNotForgotten
<1> QED BY <1>1, StopInvariant, PTL

(* The callback of silc_client_stop is called last, after all connections. *)
THEOREM StoppedIsLast == Spec => []StoppedLast
<1>1. StopInv => StoppedLast
  BY DEF StopInv
<1> QED BY <1>1, StopInvariant, PTL
=============================================================================
