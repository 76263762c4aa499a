-------------------------- MODULE SilcRekey_proofs --------------------------
(***************************************************************************)
(* Proofs about SilcRekey, for every bound on the rekeys and the packets.  *)
(*                                                                         *)
(* What is on its way to an end is described by the control packets among  *)
(* it and by the key in use after each of them (Flight).  The invariant    *)
(* RekeyInv says, for every pair of states the two ends may be in, which   *)
(* control packets those are.  It needs that one end alone starts rekeys   *)
(* and that the other one hands the REKEY packet to its responder.         *)
(***************************************************************************)
EXTENDS SilcRekey, SequenceTheorems, TLAPS

-----------------------------------------------------------------------------
(* Types.                                                                  *)

Types == {"data", "failure", "rekey", "ke1", "ke2", "rekey_done"}
Dirs == {"i2r", "r2i"}
Values == {0} \cup (End \X Nat)
Materials == Seq(Values)
Keys == [mat : Materials, dir : Dirs]
Packets == [type : Types, key : Keys, val : Values]
Skes == [role : {"none", "ini", "res"}, at : SkeStates, queued : BOOLEAN,
         packet : Types \cup {"none"}, val : Values, keymat : Materials]

(* A state of the SKE belongs to one role.                                 *)
RoleFits(k) ==
  /\ k.role = "none" <=> k.at = "none"
  /\ k.at \in {"start", "phase3"} => k.role = "ini"
  /\ k.at \in {"wait", "phase2"} => k.role = "res"
  /\ k.queued => k.role = "ini"

FlagsOK == /\ pfs \in BOOLEAN /\ fault \in BOOLEAN
           /\ closed \in [End -> BOOLEAN]

FullType ==
  /\ FlagsOK
  /\ due \in [End -> {"none", "ini", "res"}]
  /\ ske \in [End -> Skes]
  /\ \A e \in End : RoleFits(ske[e])
  /\ mat \in [End -> Materials]
  /\ send \in [End -> Keys] /\ recv \in [End -> Keys]
  /\ net \in [End -> Seq(Packets)]
  /\ count \in [End -> [rekeys : 0..MaxRekeys, data : 0..MaxData]]

-----------------------------------------------------------------------------
(* Packets in flight.                                                      *)

Plain == {"data", "failure"}

(* A control packet: its type, its value, the key in use after it.         *)
Ctls == [type : Types, val : Values, then : Keys]
Ctl(t, v, k) == [type |-> t, val |-> v, then |-> k]
Rekey(k) == Ctl("rekey", 0, k)
Ke1(v, k) == Ctl("ke1", v, k)
Ke2(v, k) == Ctl("ke2", v, k)
RekeyDone(k) == Ctl("rekey_done", 0, k)

(* The key in use after j of the control packets c.                        *)
KeyAt(k, c, j) == IF j = 0 THEN k ELSE c[j].then

(* g tells how many control packets are among the first n packets of q.    *)
Follows(q, k, c, g) ==
  /\ g[0] = 0 /\ g[Len(q)] = Len(c)
  /\ \A m, n \in 0..Len(q) : m <= n => g[m] <= g[n]
  /\ \A n \in 1..Len(q) :
       /\ q[n].key = KeyAt(k, c, g[n - 1])
       /\ q[n].type \in Plain => g[n] = g[n - 1]
       /\ q[n].type \notin Plain =>
            /\ g[n - 1] < Len(c) /\ g[n] = g[n - 1] + 1
            /\ q[n].type = c[g[n]].type /\ q[n].val = c[g[n]].val

(* The packets q start with key k and carry the control packets c.         *)
Flight(q, k, c) == \E g \in [0..Len(q) -> 0..Len(c)] : Follows(q, k, c, g)

-----------------------------------------------------------------------------
(* The rekey of the end i, the only one that starts one.                   *)

I2R(m) == Key(m, "i2r")
R2I(m) == Key(m, "r2i")

To(e, c) == Flight(net[e], recv[e], c)
At(e, s) == ske[e].at = s
New(e) == ske[e].keymat

OneInitiator(i) == i \in End /\ Initiators \subseteq {i} /\ Far(i) \in Hands

(* The states of the two ends while both are open, with the control        *)
(* packets a on their way to the responder r and b to the initiator i.     *)
(* Between0: no rekey.  Between1: the responder has yet to switch the      *)
(* direction it reads; the initiator may go on to the next rekey.  Asked:  *)
(* without PFS the initiator has sent all it sends.  Offered and Answered: *)
(* the exchange of PFS.  Switching, Switched: REKEY_DONE is on its way.    *)
Between0(i, r, a, b) ==
  /\ ske[i].at \in {"none", "start"} /\ At(r, "none")
  /\ a = <<>> /\ b = <<>> /\ mat[i] = mat[r]

Between1(i, r, a, b) ==
  /\ ske[i].at \in {"none", "start"} /\ At(r, "end")
  /\ a = <<RekeyDone(I2R(New(r)))>> /\ b = <<>> /\ mat[i] = New(r)

Asked0(i, r, a, b) ==
  /\ ~pfs /\ At(i, "end") /\ At(r, "none")
  /\ a = <<Rekey(recv[r]), RekeyDone(I2R(New(i)))>> /\ b = <<>>
  /\ New(i) = Append(mat[r], 0)

Asked1(i, r, a, b) ==
  /\ ~pfs /\ At(i, "end") /\ At(r, "end")
  /\ a = <<RekeyDone(I2R(New(r))), Rekey(I2R(New(r))), RekeyDone(I2R(New(i)))>>
  /\ b = <<>> /\ New(i) = Append(New(r), 0)

Offered0(i, r, a, b) ==
  /\ pfs /\ At(i, "phase3") /\ At(r, "none")
  /\ a = <<Rekey(recv[r]), Ke1(Fresh(i), recv[r])>> /\ b = <<>>

Offered1(i, r, a, b) ==
  /\ pfs /\ At(i, "phase3") /\ At(r, "end")
  /\ a = <<RekeyDone(I2R(New(r))), Rekey(I2R(New(r))), Ke1(Fresh(i), I2R(New(r)))>>
  /\ b = <<>>

Offered2(i, r, a, b) ==
  /\ pfs /\ At(i, "phase3") /\ At(r, "phase2")
  /\ a = <<Ke1(Fresh(i), recv[r])>> /\ b = <<>>

Answered(i, r, a, b) ==
  /\ pfs /\ At(i, "phase3") /\ At(r, "end") /\ a = <<>>
  /\ \E w \in Values :
       b = <<Ke2(w, recv[i]), RekeyDone(R2I(New(r)))>> /\ New(r) = <<Fresh(i), w>>

Switching(i, r, a, b) ==
  /\ At(i, "end") /\ At(r, "end") /\ New(i) = New(r)
  /\ a = <<RekeyDone(I2R(New(r)))>> /\ b = <<RekeyDone(R2I(New(i)))>>

Switched(i, r, a, b) ==
  /\ At(i, "end") /\ At(r, "none") /\ mat[r] = New(i)
  /\ a = <<>> /\ b = <<RekeyDone(R2I(New(i)))>>

Phase(i, r, a, b) ==
  \/ Between0(i, r, a, b) \/ Between1(i, r, a, b)
  \/ Asked0(i, r, a, b) \/ Asked1(i, r, a, b)
  \/ Offered0(i, r, a, b) \/ Offered1(i, r, a, b) \/ Offered2(i, r, a, b)
  \/ Answered(i, r, a, b) \/ Switching(i, r, a, b) \/ Switched(i, r, a, b)

(* The responder, once the initiator has closed: it reads what is left.    *)
ResponderPhase(r, a) ==
  \/ At(r, "none") /\ a = <<>>
  \/ ~pfs /\ At(r, "none")
     /\ a = <<Rekey(recv[r]), RekeyDone(I2R(Append(mat[r], 0)))>>
  \/ pfs /\ At(r, "none")
     /\ \E v \in Values : a = <<Rekey(recv[r]), Ke1(v, recv[r])>>
  \/ pfs /\ At(r, "phase2") /\ \E v \in Values : a = <<Ke1(v, recv[r])>>
  \/ At(r, "end") /\ a = <<>>
  \/ At(r, "end") /\ a = <<RekeyDone(I2R(New(r)))>>
  \/ ~pfs /\ At(r, "end")
     /\ a = <<RekeyDone(I2R(New(r))), Rekey(I2R(New(r))),
              RekeyDone(I2R(Append(New(r), 0)))>>
  \/ pfs /\ At(r, "end")
     /\ \E v \in Values :
          a = <<RekeyDone(I2R(New(r))), Rekey(I2R(New(r))), Ke1(v, I2R(New(r)))>>

(* The initiator, once the responder has closed.                           *)
InitiatorPhase(i, b) ==
  \/ ske[i].at \in {"none", "start"} /\ b = <<>>
  \/ pfs /\ At(i, "phase3") /\ b = <<>>
  \/ pfs /\ At(i, "phase3")
     /\ \E w \in Values : b = <<Ke2(w, recv[i]), RekeyDone(R2I(<<Fresh(i), w>>))>>
  \/ At(i, "end") /\ b = <<>>
  \/ At(i, "end") /\ b = <<RekeyDone(R2I(New(i)))>>

(* The key a packet that is sent now has to have.                          *)
LastKey(e, c) == KeyAt(recv[e], c, Len(c))

Both(i, r) ==
  \E a, b \in Seq(Ctls) :
    /\ To(r, a) /\ send[i] = LastKey(r, a)
    /\ To(i, b) /\ send[r] = LastKey(i, b)
    /\ Phase(i, r, a, b)

Responder(r) == \E a \in Seq(Ctls) : To(r, a) /\ ResponderPhase(r, a)
Initiator(i) == \E b \in Seq(Ctls) : To(i, b) /\ InitiatorPhase(i, b)

(* Who may be where, and what a closed connection and a FAILURE mean.      *)
Roles(i, r) ==
  /\ ske[i].role \in {"none", "ini"} /\ ske[r].role \in {"none", "res"}
  /\ due[i] \in {"none", "ini"} /\ due[r] = "none"
  /\ \A e \in End : closed[e] => ske[e].at = "none" /\ due[e] = "none"
  /\ \A e \in End : ske[e].queued => At(e, "start")

Faults ==
  \A e \in End :
    /\ closed[e] => fault
    /\ \A n \in 1..Len(net[e]) : net[e][n].type = "failure" => fault

Agreement(i, r) ==
  /\ ~closed[i] /\ ~closed[r] => Both(i, r)
  /\ closed[i] /\ ~closed[r] => Responder(r)
  /\ ~closed[i] /\ closed[r] => Initiator(i)

RekeyInv(i) == FullType /\ Roles(i, Far(i)) /\ Faults /\ Agreement(i, Far(i))

-----------------------------------------------------------------------------
(* Lemmas about packets in flight.                                         *)

(* Nothing in flight. *)
LEMMA FlightNothing ==
  ASSUME NEW k
  PROVE  Flight(<<>>, k, <<>>)
<1>1. /\ [n \in 0..0 |-> 0] \in [0..Len(<<>>) -> 0..Len(<<>>)]
      /\ Follows(<<>>, k, <<>>, [n \in 0..0 |-> 0])
  BY DEF Follows
<1> QED BY <1>1 DEF Flight

(* With no control packet left every packet has the receiver's key. *)
LEMMA FlightEmpty ==
  ASSUME NEW k, NEW c, NEW S, c \in Seq(S), Flight(<<>>, k, c)
  PROVE  c = <<>>
BY DEF Flight, Follows

(* The first packet has the receiver's key, and is the first of the        *)
(* control packets if it is one of them. *)
LEMMA FlightHead ==
  ASSUME NEW q \in Seq(Packets), NEW k, NEW c, NEW S, c \in Seq(S),
         Flight(q, k, c), q # <<>>
  PROVE  /\ Head(q).key = k
         /\ Head(q).type \notin Plain =>
              c # <<>> /\ Head(q).type = c[1].type /\ Head(q).val = c[1].val
<1>1. PICK g \in [0..Len(q) -> 0..Len(c)] : Follows(q, k, c, g)
  BY DEF Flight
<1>2. Len(q) >= 1 /\ Head(q) = q[1]
  OBVIOUS
<1> QED BY <1>1, <1>2 DEF Follows, KeyAt

(* A data packet or a FAILURE is sent. *)
LEMMA FlightPlainSent ==
  ASSUME NEW q \in Seq(Packets), NEW k, NEW c, NEW S, c \in Seq(S),
         Flight(q, k, c), NEW p \in Packets, p.type \in Plain,
         p.key = KeyAt(k, c, Len(c))
  PROVE  Flight(Append(q, p), k, c)
<1>1. PICK g \in [0..Len(q) -> 0..Len(c)] : Follows(q, k, c, g)
  BY DEF Flight
<1> DEFINE h == [n \in 0..(Len(q) + 1) |-> IF n = Len(q) + 1 THEN Len(c) ELSE g[n]]
<1>2. /\ Len(Append(q, p)) = Len(q) + 1 /\ Len(q) \in Nat /\ Len(c) \in Nat
      /\ Append(q, p)[Len(q) + 1] = p
      /\ \A n \in 1..Len(q) : Append(q, p)[n] = q[n]
  OBVIOUS
<1>3. h \in [0..Len(Append(q, p)) -> 0..Len(c)]
  BY <1>2
<1>4. h[0] = 0 /\ h[Len(q) + 1] = Len(c) /\ h[Len(q)] = Len(c)
  BY <1>1, <1>2 DEF Follows
<1>5. \A n \in 1..Len(q) : h[n] = g[n] /\ h[n - 1] = g[n - 1]
  BY <1>2
<1>6. \A m, n \in 0..(Len(q) + 1) : m <= n => h[m] <= h[n]
  BY <1>1, <1>2 DEF Follows
<1> HIDE DEF h
<1>7. Follows(Append(q, p), k, c, h)
  BY <1>1, <1>2, <1>4, <1>5, <1>6 DEF Follows
<1> QED BY <1>3, <1>7 DEF Flight

(* A control packet is sent; x stands for it. *)
LEMMA FlightCtlSent ==
  ASSUME NEW q \in Seq(Packets), NEW k, NEW c, NEW S, c \in Seq(S),
         Flight(q, k, c), NEW p \in Packets, p.type \notin Plain,
         p.key = KeyAt(k, c, Len(c)),
         NEW x \in S, x.type = p.type, x.val = p.val
  PROVE  Flight(Append(q, p), k, Append(c, x))
<1>1. PICK g \in [0..Len(q) -> 0..Len(c)] : Follows(q, k, c, g)
  BY DEF Flight
<1> DEFINE h == [n \in 0..(Len(q) + 1) |-> IF n = Len(q) + 1 THEN Len(c) + 1 ELSE g[n]]
<1> DEFINE d == Append(c, x)
<1>2. /\ Len(Append(q, p)) = Len(q) + 1 /\ Len(q) \in Nat /\ Len(c) \in Nat
      /\ Append(q, p)[Len(q) + 1] = p
      /\ \A n \in 1..Len(q) : Append(q, p)[n] = q[n]
  OBVIOUS
<1>3. /\ Len(d) = Len(c) + 1 /\ d[Len(c) + 1] = x
      /\ \A n \in 1..Len(c) : d[n] = c[n]
  OBVIOUS
<1>4. h \in [0..Len(Append(q, p)) -> 0..Len(d)]
  BY <1>2, <1>3
<1>5. h[0] = 0 /\ h[Len(q) + 1] = Len(d) /\ h[Len(q)] = Len(c)
  BY <1>1, <1>2, <1>3 DEF Follows
<1>6. \A n \in 1..Len(q) : h[n] = g[n] /\ h[n - 1] = g[n - 1]
  BY <1>2
<1>7. \A n \in 0..Len(q) : g[n] \in 0..Len(c)
  OBVIOUS
<1>8. \A j \in 0..Len(c) : KeyAt(k, d, j) = KeyAt(k, c, j)
  BY <1>2, <1>3 DEF KeyAt
<1>m. \A m, n \in 0..(Len(q) + 1) : m <= n => h[m] <= h[n]
  <2>1. \A n \in 0..Len(q) : h[n] = g[n] /\ g[n] \in 0..Len(c)
    BY <1>2, <1>7
  <2>2. h[Len(q) + 1] = Len(c) + 1
    BY <1>2
  <2>3. \A m, n \in 0..Len(q) : m <= n => g[m] <= g[n]
    BY <1>1 DEF Follows
  <2> HIDE DEF h
  <2> QED BY <1>2, <2>1, <2>2, <2>3
<1> HIDE DEF h, d
<1>9. ASSUME NEW n \in 1..Len(q)
      PROVE  /\ q[n].key = KeyAt(k, d, h[n - 1])
             /\ q[n].type \in Plain => h[n] = h[n - 1]
             /\ q[n].type \notin Plain =>
                  /\ h[n - 1] < Len(d) /\ h[n] = h[n - 1] + 1
                  /\ q[n].type = d[h[n]].type /\ q[n].val = d[h[n]].val
  <2>0. n \in 0..Len(q) /\ n - 1 \in 0..Len(q)
    BY <1>2
  <2>1. /\ h[n] = g[n] /\ h[n - 1] = g[n - 1]
        /\ g[n] \in 0..Len(c) /\ g[n - 1] \in 0..Len(c)
    BY <1>6, <1>7, <2>0
  <2> QED BY <1>1, <1>2, <1>3, <1>8, <2>1 DEF Follows
<1>11. ASSUME NEW n, n = Len(q) + 1
       PROVE  /\ p.key = KeyAt(k, d, h[n - 1])
              /\ h[n - 1] < Len(d) /\ h[n] = h[n - 1] + 1
              /\ p.type = d[h[n]].type /\ p.val = d[h[n]].val
  BY <1>2, <1>3, <1>5, <1>8, <1>11
<1>10. Follows(Append(q, p), k, d, h)
  <2> DEFINE a == Append(q, p)
  <2>1. h[0] = 0 /\ h[Len(a)] = Len(d) /\ \A m, n \in 0..Len(a) : m <= n => h[m] <= h[n]
    BY <1>2, <1>5, <1>m
  <2>2. ASSUME NEW n \in 1..Len(a)
        PROVE  /\ a[n].key = KeyAt(k, d, h[n - 1])
               /\ a[n].type \in Plain => h[n] = h[n - 1]
               /\ a[n].type \notin Plain =>
                    /\ h[n - 1] < Len(d) /\ h[n] = h[n - 1] + 1
                    /\ a[n].type = d[h[n]].type /\ a[n].val = d[h[n]].val
    <3>1. CASE n = Len(q) + 1
      BY <1>2, <1>11, <3>1
    <3>2. CASE n \in 1..Len(q)
      BY <1>2, <1>9, <3>2
    <3> QED BY <1>2, <3>1, <3>2
  <2> HIDE DEF a
  <2> QED BY <2>1, <2>2 DEF Follows, a
<1> QED BY <1>4, <1>10 DEF Flight, d

(* A data packet or a FAILURE is read. *)
LEMMA FlightPlainRead ==
  ASSUME NEW q \in Seq(Packets), NEW k, NEW c, NEW S, c \in Seq(S),
         Flight(q, k, c), q # <<>>, Head(q).type \in Plain
  PROVE  Flight(Tail(q), k, c)
<1>1. PICK g \in [0..Len(q) -> 0..Len(c)] : Follows(q, k, c, g)
  BY DEF Flight
<1> DEFINE h == [n \in 0..(Len(q) - 1) |-> g[n + 1]]
<1>2. /\ Len(Tail(q)) = Len(q) - 1 /\ Len(q) \in Nat \ {0} /\ Len(c) \in Nat
      /\ Head(q) = q[1]
      /\ \A n \in 1..(Len(q) - 1) : Tail(q)[n] = q[n + 1]
  OBVIOUS
<1>3. h \in [0..Len(Tail(q)) -> 0..Len(c)]
  BY <1>2
<1>4. h[0] = g[1] /\ g[1] = g[0] /\ h[Len(q) - 1] = Len(c)
  BY <1>1, <1>2 DEF Follows
<1>5. \A n \in 1..(Len(q) - 1) : h[n] = g[n + 1] /\ h[n - 1] = g[n]
  BY <1>2
<1>m. \A m, n \in 0..(Len(q) - 1) : m <= n => h[m] <= h[n]
  BY <1>1, <1>2 DEF Follows
<1> HIDE DEF h
<1>6. ASSUME NEW n \in 1..(Len(q) - 1)
      PROVE  /\ q[n + 1].key = KeyAt(k, c, h[n - 1])
             /\ q[n + 1].type \in Plain => h[n] = h[n - 1]
             /\ q[n + 1].type \notin Plain =>
                  /\ h[n - 1] < Len(c) /\ h[n] = h[n - 1] + 1
                  /\ q[n + 1].type = c[h[n]].type /\ q[n + 1].val = c[h[n]].val
  <2>1. n + 1 \in 1..Len(q) /\ (n + 1) - 1 = n
    BY <1>2
  <2> QED BY <1>1, <1>5, <2>1 DEF Follows
<1>7. Follows(Tail(q), k, c, h)
  BY <1>1, <1>2, <1>4, <1>6, <1>m DEF Follows
<1> QED BY <1>3, <1>7 DEF Flight

(* A control packet is read, after which its key is in use. *)
LEMMA FlightCtlRead ==
  ASSUME NEW q \in Seq(Packets), NEW k, NEW c, NEW S, c \in Seq(S),
         Flight(q, k, c), q # <<>>, Head(q).type \notin Plain
  PROVE  Flight(Tail(q), c[1].then, Tail(c))
<1>1. PICK g \in [0..Len(q) -> 0..Len(c)] : Follows(q, k, c, g)
  BY DEF Flight
<1> DEFINE h == [n \in 0..(Len(q) - 1) |-> g[n + 1] - 1]
<1> DEFINE d == Tail(c)
<1>2. /\ Len(Tail(q)) = Len(q) - 1 /\ Len(q) \in Nat \ {0} /\ Len(c) \in Nat
      /\ Head(q) = q[1]
      /\ \A n \in 1..(Len(q) - 1) : Tail(q)[n] = q[n + 1]
  OBVIOUS
<1>3. g[0] = 0 /\ Len(c) > 0 /\ g[1] = 1 /\ g[Len(q)] = Len(c)
  BY <1>1, <1>2 DEF Follows
<1>4. /\ c # <<>> /\ Len(d) = Len(c) - 1
      /\ \A n \in 1..(Len(c) - 1) : d[n] = c[n + 1]
  BY <1>2, <1>3
<1>t. \A n \in 0..Len(q) : g[n] \in 0..Len(c)
  OBVIOUS
<1>5. \A m, n \in 0..(Len(q) - 1) : m <= n => h[m] <= h[n]
  <2>1. \A n \in 0..(Len(q) - 1) :
          n + 1 \in 0..Len(q) /\ h[n] = g[n + 1] - 1 /\ g[n + 1] \in 0..Len(c)
    BY <1>2, <1>t
  <2>2. \A m, n \in 0..Len(q) : m <= n => g[m] <= g[n]
    BY <1>1 DEF Follows
  <2> HIDE DEF h
  <2> QED BY <1>2, <2>1, <2>2
<1>6. \A n \in 1..Len(q) : g[n] >= 1
  BY <1>1, <1>2, <1>3 DEF Follows
<1>7. h \in [0..Len(Tail(q)) -> 0..Len(d)]
  <2>1. \A n \in 0..(Len(q) - 1) : n + 1 \in 1..Len(q) /\ g[n + 1] \in 0..Len(c)
    BY <1>2
  <2> QED BY <1>2, <1>4, <1>6, <2>1
<1>8. h[0] = 0 /\ h[Len(q) - 1] = Len(d)
  BY <1>2, <1>3, <1>4
<1>9. \A n \in 1..(Len(q) - 1) : h[n] = g[n + 1] - 1 /\ h[n - 1] = g[n] - 1
  BY <1>2
<1>10. \A j \in 1..Len(c) : KeyAt(c[1].then, d, j - 1) = KeyAt(k, c, j)
  BY <1>2, <1>4 DEF KeyAt
<1> HIDE DEF h, d
<1>11. ASSUME NEW n \in 1..(Len(q) - 1)
      PROVE  /\ q[n + 1].key = KeyAt(c[1].then, d, h[n - 1])
             /\ q[n + 1].type \in Plain => h[n] = h[n - 1]
             /\ q[n + 1].type \notin Plain =>
                  /\ h[n - 1] < Len(d) /\ h[n] = h[n - 1] + 1
                  /\ q[n + 1].type = d[h[n]].type /\ q[n + 1].val = d[h[n]].val
  <2>1. n + 1 \in 1..Len(q) /\ (n + 1) - 1 = n /\ n \in 1..Len(q)
    BY <1>2
  <2>2. g[n] \in 1..Len(c) /\ g[n + 1] \in 1..Len(c)
    BY <1>2, <1>6, <1>t, <2>1
  <2>3. q[n + 1].key = KeyAt(c[1].then, d, h[n - 1])
    BY <1>1, <1>9, <1>10, <2>1, <2>2 DEF Follows
  <2>4. q[n + 1].type \in Plain => h[n] = h[n - 1]
    BY <1>1, <1>9, <2>1, <2>2 DEF Follows
  <2>5. ASSUME q[n + 1].type \notin Plain
        PROVE  /\ h[n - 1] < Len(d) /\ h[n] = h[n - 1] + 1
               /\ q[n + 1].type = d[h[n]].type /\ q[n + 1].val = d[h[n]].val
    <3>1. /\ g[n] < Len(c) /\ g[n + 1] = g[n] + 1
          /\ q[n + 1].type = c[g[n + 1]].type /\ q[n + 1].val = c[g[n + 1]].val
      BY <1>1, <2>1, <2>5 DEF Follows
    <3>2. d[g[n]] = c[g[n] + 1]
      BY <1>4, <2>2, <3>1
    <3> QED BY <1>2, <1>4, <1>9, <2>2, <3>1, <3>2
  <2> QED BY <2>3, <2>4, <2>5
<1>12. Follows(Tail(q), c[1].then, d, h)
  BY <1>2, <1>5, <1>8, <1>11 DEF Follows
<1> QED BY <1>7, <1>12 DEF Flight, d

(* Sequences of at most three control packets. *)
LEMMA Tuple0 ==
  ASSUME NEW k
  PROVE  <<>> \in Seq(Ctls) /\ KeyAt(k, <<>>, Len(<<>>)) = k
BY DEF KeyAt

(* One control packet. *)
LEMMA Tuple1 ==
  ASSUME NEW k, NEW x \in Ctls
  PROVE  /\ <<x>> \in Seq(Ctls) /\ Append(<<>>, x) = <<x>> /\ Tail(<<x>>) = <<>>
         /\ <<x>>[1] = x /\ KeyAt(k, <<x>>, Len(<<x>>)) = x.then
<1>1. <<>> \in Seq(Ctls) /\ <<x>> \in Seq(Ctls) /\ Append(<<>>, x) \in Seq(Ctls)
  OBVIOUS
<1>2. /\ Len(Append(<<>>, x)) = 1 /\ Len(<<x>>) = 1
      /\ \A i \in 1..1 : Append(<<>>, x)[i] = <<x>>[i]
  OBVIOUS
<1>3. Append(<<>>, x) = <<x>>
  BY <1>1, <1>2, SeqEqual
<1>4. Tail(<<x>>) = <<>> /\ <<x>>[1] = x
  OBVIOUS
<1> QED BY <1>1, <1>3, <1>4 DEF KeyAt

(* Two control packets. *)
LEMMA Tuple2 ==
  ASSUME NEW k, NEW x \in Ctls, NEW y \in Ctls
  PROVE  /\ <<x, y>> \in Seq(Ctls) /\ Append(<<x>>, y) = <<x, y>>
         /\ Tail(<<x, y>>) = <<y>>
         /\ <<x, y>>[1] = x /\ KeyAt(k, <<x, y>>, Len(<<x, y>>)) = y.then
<1>1. <<x>> \in Seq(Ctls) /\ <<x, y>> \in Seq(Ctls) /\ Append(<<x>>, y) \in Seq(Ctls)
  OBVIOUS
<1>2. /\ Len(Append(<<x>>, y)) = 2 /\ Len(<<x, y>>) = 2
      /\ Append(<<x>>, y)[1] = x /\ Append(<<x>>, y)[2] = y
  OBVIOUS
<1>3. \A i \in 1..2 : Append(<<x>>, y)[i] = <<x, y>>[i]
  BY <1>2
<1>4. Append(<<x>>, y) = <<x, y>>
  BY <1>1, <1>2, <1>3, SeqEqual
<1>5. Tail(<<x, y>>) = <<y>> /\ <<x, y>>[1] = x
  OBVIOUS
<1> QED BY <1>1, <1>4, <1>5 DEF KeyAt

(* Three control packets. *)
LEMMA Tuple3 ==
  ASSUME NEW k, NEW x \in Ctls, NEW y \in Ctls, NEW z \in Ctls
  PROVE  /\ <<x, y, z>> \in Seq(Ctls) /\ Append(<<x, y>>, z) = <<x, y, z>>
         /\ Tail(<<x, y, z>>) = <<y, z>>
         /\ <<x, y, z>>[1] = x /\ KeyAt(k, <<x, y, z>>, Len(<<x, y, z>>)) = z.then
<1>1. /\ <<x, y>> \in Seq(Ctls) /\ <<x, y, z>> \in Seq(Ctls)
      /\ Append(<<x, y>>, z) \in Seq(Ctls)
  OBVIOUS
<1>2. /\ Len(Append(<<x, y>>, z)) = 3 /\ Len(<<x, y, z>>) = 3
      /\ Append(<<x, y>>, z)[1] = x /\ Append(<<x, y>>, z)[2] = y
      /\ Append(<<x, y>>, z)[3] = z
  OBVIOUS
<1>3. \A i \in 1..3 : Append(<<x, y>>, z)[i] = <<x, y, z>>[i]
  BY <1>2
<1>4. Append(<<x, y>>, z) = <<x, y, z>>
  BY <1>1, <1>2, <1>3, SeqEqual
<1>5. Tail(<<x, y, z>>) = <<y, z>> /\ <<x, y, z>>[1] = x
  OBVIOUS
<1> QED BY <1>1, <1>4, <1>5 DEF KeyAt

(* The control packets are of their set. *)
LEMMA CtlTypes ==
  ASSUME NEW k \in Keys, NEW v \in Values
  PROVE  /\ Rekey(k) \in Ctls /\ Rekey(k).type = "rekey"
         /\ Rekey(k).val = 0 /\ Rekey(k).then = k
         /\ Ke1(v, k) \in Ctls /\ Ke1(v, k).type = "ke1"
         /\ Ke1(v, k).val = v /\ Ke1(v, k).then = k
         /\ Ke2(v, k) \in Ctls /\ Ke2(v, k).type = "ke2"
         /\ Ke2(v, k).val = v /\ Ke2(v, k).then = k
         /\ RekeyDone(k) \in Ctls /\ RekeyDone(k).type = "rekey_done"
         /\ RekeyDone(k).val = 0 /\ RekeyDone(k).then = k
BY DEF Rekey, Ke1, Ke2, RekeyDone, Ctl, Ctls, Types, Values

(* Materials and the keys made of them. *)
LEMMA KeyTypes ==
  ASSUME NEW m \in Materials, NEW v \in Values, NEW w \in Values
  PROVE  /\ \A d \in Dirs : Key(m, d) \in Keys
         /\ I2R(m) \in Keys /\ R2I(m) \in Keys
         /\ Append(m, 0) \in Materials /\ <<v, w>> \in Materials
         /\ 0 \in Values
BY DEF Materials, Values, I2R, R2I, Key, Keys, Dirs

(* There are two ends. *)
LEMMA Ends ==
  ASSUME NEW e \in End
  PROVE  /\ Far(e) \in End /\ Far(e) # e /\ Far(Far(e)) = e
         /\ \A x \in End : x = e \/ x = Far(e)
BY DEF End, Far

-----------------------------------------------------------------------------
(* Types.                                                                  *)

(* The values of an exchange are new ones. *)
LEMMA FreshType ==
  ASSUME FullType, NEW e \in End
  PROVE  Fresh(e) \in Values
<1>1. count["client"].rekeys \in Nat /\ count["peer"].rekeys \in Nat
  BY RekeyAssumption DEF FullType, End
<1> QED BY <1>1 DEF Fresh, Values

(* The flags are TypeOK's too. *)
LEMMA TypeImplied == FullType => TypeOK
<1> SUFFICES ASSUME FullType PROVE TypeOK
  OBVIOUS
<1>1. /\ pfs \in BOOLEAN /\ fault \in BOOLEAN
      /\ \A e \in End : closed[e] \in BOOLEAN
  BY Zenon DEF FullType, FlagsOK
<1>2. ASSUME NEW e \in End
      PROVE  /\ due[e] \in {"none", "ini", "res"}
             /\ ske[e].role \in {"none", "ini", "res"} /\ ske[e].at \in SkeStates
             /\ ske[e].role = "none" <=> ske[e].at = "none"
             /\ ske[e].at \in {"start", "phase3"} => ske[e].role = "ini"
             /\ ske[e].at \in {"wait", "phase2"} => ske[e].role = "res"
             /\ send[e].dir \in {"i2r", "r2i"} /\ recv[e].dir \in {"i2r", "r2i"}
             /\ count[e].rekeys \in 0..MaxRekeys /\ count[e].data \in 0..MaxData
  BY DEF FullType, RoleFits, Skes, Keys, Dirs
<1> QED BY <1>1, <1>2 DEF TypeOK

(* The types at the start. *)
LEMMA TypeInit == Init => FullType
<1> SUFFICES ASSUME Init PROVE FullType
  OBVIOUS
<1>1. FlagsOK
  BY RekeyAssumption, Zenon DEF Init, FlagsOK
<1>2. <<0>> \in Materials /\ <<>> \in Materials /\ 0 \in Values
  BY DEF Materials, Values
<1>3. ske \in [End -> Skes] /\ \A e \in End : RoleFits(ske[e])
  BY <1>2 DEF Init, NoSke, Skes, SkeStates, RoleFits
<1>4. send \in [End -> Keys] /\ recv \in [End -> Keys]
  BY <1>2 DEF Init, Key, Keys, Dirs
<1>5. net \in [End -> Seq(Packets)]
  BY DEF Init
<1> QED BY <1>1, <1>2, <1>3, <1>4, <1>5, RekeyAssumption DEF Init, FullType

(* Sending keeps the network's type. *)
LEMMA SentType ==
  ASSUME FullType, NEW e \in End, NEW n \in [End -> Seq(Packets)],
         NEW t \in Types, NEW v \in Values
  PROVE  Sent(e, n, t, v) \in [End -> Seq(Packets)]
<1>1. [type |-> t, key |-> send[e], val |-> v] \in Packets
  BY DEF FullType, Packets
<1>2. Far(e) \in End
  BY Ends
<1> QED BY <1>1, <1>2 DEF Sent

(* Closing keeps the types. *)
LEMMA ShutType ==
  ASSUME FullType, NEW e \in End, NEW n \in [End -> Seq(Packets)],
         Shut(e, n), fault' \in BOOLEAN
  PROVE  FullType'
<1>1. FlagsOK'
  BY Zenon DEF Shut, FlagsOK, FullType
<1>2. NoSke \in Skes /\ RoleFits(NoSke)
  BY DEF NoSke, Skes, RoleFits, SkeStates, Values, Materials
<1>3. ske' \in [End -> Skes] /\ \A x \in End : RoleFits(ske[x])'
  BY <1>2 DEF Shut, FullType
<1> QED BY <1>1, <1>3 DEF Shut, FullType

(* So do the error states. *)
LEMMA ErrorType ==
  ASSUME FullType, NEW e \in End, NEW n \in [End -> Seq(Packets)],
         Error(e, n), fault' \in BOOLEAN
  PROVE  FullType'
<1>1. 0 \in Values /\ "failure" \in Types
  BY DEF Values, Types
<1> QED BY <1>1, SentType, ShutType DEF Error

(* Sending REKEY_DONE and switching the sending key keeps the types. *)
LEMMA DoneType ==
  ASSUME FullType, NEW e \in End, NEW n \in [End -> Seq(Packets)],
         NEW k \in Skes, RoleFits(k), k.role # "none", NEW m \in Materials,
         Done(e, k, n, m), fault' \in BOOLEAN
  PROVE  FullType'
<1>1. FlagsOK'
  BY Zenon DEF Done, FlagsOK, FullType
<1>2. Key(m, SendDir(k.role)) \in Keys
  BY DEF Key, Keys, SendDir, Dirs
<1>3. /\ [k EXCEPT !.at = "end", !.keymat = m] \in Skes
      /\ RoleFits([k EXCEPT !.at = "end", !.keymat = m])
  BY DEF Skes, SkeStates, RoleFits
<1>4. ske' \in [End -> Skes] /\ \A x \in End : RoleFits(ske[x])'
  BY <1>3 DEF Done, FullType
<1>5. [type |-> "rekey_done", key |-> send[e], val |-> 0] \in Packets
  BY DEF FullType, Packets, Types, Values
<1>6. net' \in [End -> Seq(Packets)]
  BY <1>5, Ends DEF Done, DoneKey
<1> QED BY <1>1, <1>2, <1>4, <1>6 DEF Done, FullType

(* So does waiting for a packet. *)
LEMMA WaitsType ==
  ASSUME FullType, NEW e \in End, NEW n \in [End -> Seq(Packets)],
         NEW k \in Skes, RoleFits(k), Waits(e, k, n), fault' \in BOOLEAN
  PROVE  FullType'
<1>1. FlagsOK'
  BY Zenon DEF Waits, FlagsOK, FullType
<1>2. ske' \in [End -> Skes] /\ \A x \in End : RoleFits(ske[x])'
  BY DEF Waits, FullType
<1> QED BY <1>1, <1>2 DEF Waits, FullType

(* The material of a rekey. *)
LEMMA MaterialType ==
  ASSUME FullType, NEW e \in End, NEW k \in Skes, NEW v \in Values
  PROVE  Material(e, k, v) \in Materials
<1>1. mat[e] \in Materials /\ Fresh(e) \in Values
  BY FreshType DEF FullType
<1>2. /\ Append(mat[e], 0) \in Materials /\ <<Fresh(e), v>> \in Materials
      /\ <<v, Fresh(e)>> \in Materials
  BY <1>1, KeyTypes
<1> QED BY <1>2 DEF Material

(* A state function of the rekey, and the error it may end in. *)
LEMMA RunType ==
  ASSUME FullType, NEW e \in End, NEW n \in [End -> Seq(Packets)],
         NEW k \in Skes, RoleFits(k), k.role # "none", Run(e, k, n)
  PROVE  FullType'
<1>0. fault \in BOOLEAN
  BY DEF FullType, FlagsOK
<1>1. CASE Error(e, n) /\ fault' = TRUE
  BY <1>1, ErrorType
<1>2. CASE StateFunction(e, k, n) /\ UNCHANGED fault
  <2>0. fault' \in BOOLEAN
    BY <1>0, <1>2, Zenon
  <2>1. /\ Fresh(e) \in Values /\ 0 \in Values
        /\ \A v \in Values : Material(e, k, v) \in Materials
        /\ k.val \in Values /\ k.at \in SkeStates /\ k.at # "none"
    BY FreshType, MaterialType DEF Values, Skes, RoleFits
  <2>2. /\ {"rekey", "ke1", "ke2"} \subseteq Types /\ {"phase2", "phase3"} \subseteq SkeStates
    BY DEF Types, SkeStates
  <2>3. CASE k.at = "start" /\ InitiatorStart(e, k, n)
    <3> DEFINE asked == Sent(e, n, "rekey", 0)
    <3>1. /\ asked \in [End -> Seq(Packets)]
          /\ Sent(e, asked, "ke1", Fresh(e)) \in [End -> Seq(Packets)]
      BY <2>1, <2>2, SentType
    <3>2. /\ [k EXCEPT !.at = "phase3"] \in Skes /\ RoleFits([k EXCEPT !.at = "phase3"])
      BY <2>2, <2>3 DEF Skes, RoleFits
    <3> HIDE DEF asked
    <3>3. CASE pfs
      BY <2>0, <2>3, <3>1, <3>2, <3>3, WaitsType DEF InitiatorStart, asked
    <3>4. CASE ~pfs
      BY <2>0, <2>1, <2>3, <3>1, <3>4, DoneType DEF InitiatorStart, asked
    <3> QED BY <3>3, <3>4
  <2> DEFINE kn == [k EXCEPT !.packet = "none"]
  <2>4. kn \in Skes /\ RoleFits(kn) /\ kn.role # "none"
    BY DEF Skes, RoleFits
  <2> HIDE DEF kn
  <2>5. CASE k.at = "phase3" /\ InitiatorPhase3(e, k, n)
    <3>1. CASE k.packet = "ke2"
      BY <2>0, <2>1, <2>4, <2>5, <3>1, DoneType DEF InitiatorPhase3, kn
    <3>2. CASE k.packet # "ke2"
      BY <2>0, <2>5, <3>2, ErrorType DEF InitiatorPhase3
    <3> QED BY <3>1, <3>2
  <2>6. CASE k.at = "wait" /\ ResponderStart(e, k, n)
    <3>1. CASE k.packet # "rekey"
      BY <2>0, <2>6, <3>1, ErrorType DEF ResponderStart
    <3>2. CASE k.packet = "rekey" /\ pfs
      <4>1. [k EXCEPT !.at = "phase2"] \in Skes /\ RoleFits([k EXCEPT !.at = "phase2"])
        BY <2>2, <2>6 DEF Skes, RoleFits
      <4> QED BY <2>0, <2>6, <3>2, <4>1, WaitsType DEF ResponderStart
    <3>3. CASE k.packet = "rekey" /\ ~pfs
      BY <2>0, <2>1, <2>6, <3>3, DoneType DEF ResponderStart
    <3> QED BY <3>1, <3>2, <3>3
  <2>7. CASE k.at = "phase2" /\ ResponderPhase2(e, k, n)
    <3>1. CASE k.packet = "ke1"
      <4>1. Sent(e, n, "ke2", Fresh(e)) \in [End -> Seq(Packets)]
        BY <2>1, <2>2, SentType
      <4> QED BY <2>0, <2>1, <2>4, <2>7, <3>1, <4>1, DoneType DEF ResponderPhase2, kn
    <3>2. CASE k.packet # "ke1"
      BY <2>0, <2>7, <3>2, ErrorType DEF ResponderPhase2
    <3> QED BY <3>1, <3>2
  <2>8. CASE k.at = "end" /\ RekeyEnd(e, k, n)
    <3>1. CASE k.packet # "rekey_done"
      BY <2>0, <2>4, <2>8, <3>1, WaitsType DEF RekeyEnd, kn
    <3>2. CASE k.packet = "rekey_done"
      <4>1. FlagsOK'
        BY <2>0, <2>8, <3>2, Zenon DEF RekeyEnd, FlagsOK, FullType
      <4>2. NoSke \in Skes /\ RoleFits(NoSke)
        BY DEF NoSke, Skes, RoleFits, SkeStates, Values, Materials
      <4>3. ske' \in [End -> Skes] /\ \A x \in End : RoleFits(ske[x])'
        BY <2>8, <3>2, <4>2, ZenonT(60) DEF RekeyEnd, FullType
      <4>4. k.keymat \in Materials /\ ReceiveKey(e, k) \in Keys
        BY DEF Skes, ReceiveKey, RecvDir, Key, Keys, Dirs
      <4> QED BY <2>8, <3>2, <4>1, <4>3, <4>4, ZenonT(60) DEF RekeyEnd, FullType
    <3> QED BY <3>1, <3>2
  <2> QED BY <1>2, <2>1, <2>3, <2>5, <2>6, <2>7, <2>8 DEF StateFunction, SkeStates
<1> QED BY <1>1, <1>2 DEF Run

(* Every step keeps the types. *)
LEMMA TypeNext ==
  ASSUME FullType, [Next]_vars
  PROVE  FullType'
<1>0. /\ \A e \in End : net[e] # <<>> =>
           /\ Head(net[e]) \in Packets
           /\ Rest(e) \in [End -> Seq(Packets)]
      /\ fault \in BOOLEAN
  <2>1. fault \in BOOLEAN
    BY DEF FullType, FlagsOK
  <2>2. ASSUME NEW e \in End, net[e] # <<>>
        PROVE  Head(net[e]) \in Packets /\ Rest(e) \in [End -> Seq(Packets)]
    BY <2>2 DEF FullType, Rest
  <2> QED BY <2>1, <2>2
<1>1. CASE UNCHANGED vars
  <2>1. FlagsOK'
    BY <1>1, Zenon DEF vars, FlagsOK, FullType
  <2> QED BY <1>1, <2>1 DEF vars, FullType
<1> SUFFICES ASSUME NEW e \in End,
               \/ Data(e) \/ RekeyTimer(e) \/ StRekey(e) \/ QueuedRun(e)
               \/ Receive(e) \/ ReceiveFailure(e) \/ ReceiveRekey(e) \/ ReceiveOther(e)
               \/ Timeout(e) \/ Eos(e)
             PROVE FullType'
  BY <1>1 DEF Next
<1>2. CASE Data(e)
  <2>1. FlagsOK'
    BY <1>2, Zenon DEF Data, FlagsOK, FullType
  <2>2. net' \in [End -> Seq(Packets)]
    <3>1. "data" \in Types /\ 0 \in Values /\ net \in [End -> Seq(Packets)]
      BY DEF Types, Values, FullType
    <3> QED BY <1>2, <3>1, SentType DEF Data
  <2>3. count' \in [End -> [rekeys : 0..MaxRekeys, data : 0..MaxData]]
    <3>0. /\ count[e] \in [rekeys : 0..MaxRekeys, data : 0..MaxData]
          /\ count[e].data \in 0..MaxData /\ count[e].data < MaxData
      BY <1>2 DEF Data, FullType
    <3>3. count[e].data + 1 \in 0..MaxData
      BY <3>0, RekeyAssumption
    <3>1. [count[e] EXCEPT !.data = @ + 1] \in [rekeys : 0..MaxRekeys, data : 0..MaxData]
      BY <3>0, <3>3
    <3>2. count' = [count EXCEPT ![e] = [count[e] EXCEPT !.data = @ + 1]]
      BY <1>2 DEF Data, FullType
    <3> QED BY <3>1, <3>2 DEF FullType
  <2> QED BY <1>2, <2>1, <2>2, <2>3 DEF Data, FullType
<1>3. CASE RekeyTimer(e)
  <2>1. FlagsOK'
    BY <1>3, Zenon DEF RekeyTimer, FlagsOK, FullType
  <2>2. count' \in [End -> [rekeys : 0..MaxRekeys, data : 0..MaxData]]
    <3>0. /\ count[e] \in [rekeys : 0..MaxRekeys, data : 0..MaxData]
          /\ count[e].rekeys \in 0..MaxRekeys /\ count[e].rekeys < MaxRekeys
      BY <1>3 DEF RekeyTimer, FullType
    <3>3. count[e].rekeys + 1 \in 0..MaxRekeys
      BY <3>0, RekeyAssumption
    <3>1. [count[e] EXCEPT !.rekeys = @ + 1] \in [rekeys : 0..MaxRekeys, data : 0..MaxData]
      BY <3>0, <3>3
    <3>2. count' = [count EXCEPT ![e] = [count[e] EXCEPT !.rekeys = @ + 1]]
      BY <1>3 DEF RekeyTimer, FullType
    <3> QED BY <3>1, <3>2 DEF FullType
  <2> QED BY <1>3, <2>1, <2>2 DEF RekeyTimer, FullType
<1>4. CASE StRekey(e)
  <2>1. FlagsOK'
    BY <1>4, Zenon DEF StRekey, FlagsOK, FullType
  <2> DEFINE k == [NoSke EXCEPT !.role = due[e], !.at = FirstState(due[e]),
                                !.queued = due[e] = "ini"]
  <2>2. k \in Skes /\ RoleFits(k)
    <3>1. due[e] \in {"ini", "res"}
      BY <1>4 DEF StRekey, FullType
    <3>3. /\ FirstState(due[e]) \in {"start", "wait"} /\ (due[e] = "ini") \in BOOLEAN
          /\ due[e] = "ini" <=> FirstState(due[e]) = "start"
      BY <3>1 DEF FirstState
    <3>4. NoSke \in Skes
      BY DEF NoSke, Skes, SkeStates, Values, Materials
    <3>5. k \in Skes
      BY <3>1, <3>3, <3>4 DEF Skes, SkeStates
    <3>6. RoleFits(k)
      <4>1. k.role = due[e] /\ k.at = FirstState(due[e]) /\ k.queued = (due[e] = "ini")
        BY <3>4 DEF Skes
      <4> HIDE DEF k
      <4> QED BY <3>1, <3>3, <4>1 DEF RoleFits
    <3> QED BY <3>5, <3>6
  <2> HIDE DEF k
  <2>3. ske' = [ske EXCEPT ![e] = k]
    BY <1>4 DEF StRekey, k
  <2>4. ske' \in [End -> Skes] /\ \A x \in End : RoleFits(ske[x])'
    BY <2>2, <2>3 DEF FullType
  <2> QED BY <1>4, <2>1, <2>4 DEF StRekey, FullType
<1>5. CASE QueuedRun(e)
  <2> DEFINE k == [ske[e] EXCEPT !.queued = FALSE]
  <2>1. k \in Skes /\ RoleFits(k) /\ k.role # "none"
    BY <1>5, ZenonT(60) DEF QueuedRun, FullType, Skes, RoleFits
  <2>2. net \in [End -> Seq(Packets)] /\ Run(e, k, net)
    BY <1>5 DEF QueuedRun, FullType
  <2> HIDE DEF k
  <2> QED BY <2>1, <2>2, RunType
<1>6. CASE Receive(e)
  <2> DEFINE k == [ske[e] EXCEPT !.packet = Head(net[e]).type, !.val = Head(net[e]).val]
  <2>1. k \in Skes /\ RoleFits(k) /\ k.role # "none"
    <3>1. /\ ske[e] \in Skes /\ RoleFits(ske[e]) /\ ske[e].role # "none"
          /\ Head(net[e]).type \in Types /\ Head(net[e]).val \in Values
      BY <1>0, <1>6 DEF Receive, Read, FullType, Packets
    <3>2. k \in Skes
      BY <3>1 DEF Skes
    <3>3. /\ k.role = ske[e].role /\ k.at = ske[e].at /\ k.queued = ske[e].queued
      BY <3>1 DEF Skes
    <3> HIDE DEF k
    <3> QED BY <3>1, <3>2, <3>3 DEF RoleFits
  <2>2. Rest(e) \in [End -> Seq(Packets)] /\ Run(e, k, Rest(e))
    BY <1>0, <1>6 DEF Receive, Read
  <2> HIDE DEF k
  <2> QED BY <2>1, <2>2, RunType
<1>7. CASE ReceiveFailure(e)
  <2>0. fault' \in BOOLEAN
    BY <1>0, <1>7, Zenon DEF ReceiveFailure
  <2>1. CASE ske[e].role # "none"
    BY <1>0, <1>7, <2>0, <2>1, ShutType DEF ReceiveFailure, Read
  <2>2. CASE ske[e].role = "none"
    <3>1. FlagsOK'
      BY <1>7, <2>0, <2>2, Zenon DEF ReceiveFailure, FlagsOK, FullType
    <3> QED BY <1>0, <1>7, <2>2, <3>1 DEF ReceiveFailure, Read, FullType
  <2> QED BY <2>1, <2>2
<1>8. CASE ReceiveRekey(e)
  <2>1. CASE e \in Hands
    <3> DEFINE k == [NoSke EXCEPT !.role = "res", !.at = "wait", !.packet = "rekey"]
    <3>1. k \in Skes /\ RoleFits(k) /\ k.role # "none"
      <4>1. NoSke \in Skes /\ NoSke.queued = FALSE
        BY DEF NoSke, Skes, SkeStates, Values, Materials
      <4>2. k \in Skes
        BY <4>1 DEF Skes, SkeStates, Types
      <4>3. k.role = "res" /\ k.at = "wait" /\ k.queued = FALSE
        BY <4>1 DEF Skes
      <4> HIDE DEF k
      <4> QED BY <4>2, <4>3 DEF RoleFits
    <3>2. Rest(e) \in [End -> Seq(Packets)] /\ Run(e, k, Rest(e))
      BY <1>0, <1>8, <2>1 DEF ReceiveRekey, Read
    <3> HIDE DEF k
    <3> QED BY <3>1, <3>2, RunType
  <2>2. CASE e \notin Hands
    <3>1. FlagsOK'
      BY <1>8, <2>2, Zenon DEF ReceiveRekey, FlagsOK, FullType
    <3> QED BY <1>0, <1>8, <2>2, <3>1, ZenonT(60) DEF ReceiveRekey, Read, FullType
  <2> QED BY <2>1, <2>2
<1>9. CASE ReceiveOther(e)
  <2>1. FlagsOK'
    BY <1>9, Zenon DEF ReceiveOther, FlagsOK, FullType
  <2> QED BY <1>0, <1>9, <2>1 DEF ReceiveOther, Read, FullType
<1>10. CASE Timeout(e)
  <2>1. net \in [End -> Seq(Packets)]
    BY DEF FullType
  <2> QED BY <1>10, <2>1, ShutType DEF Timeout
<1>11. CASE Eos(e)
  <2>1. net \in [End -> Seq(Packets)]
    BY DEF FullType
  <2>2. fault' \in BOOLEAN
    BY <1>0, <1>11, Zenon DEF Eos
  <2> QED BY <1>11, <2>1, <2>2, ShutType DEF Eos
<1> QED BY <1>2, <1>3, <1>4, <1>5, <1>6, <1>7, <1>8, <1>9, <1>10, <1>11

(* TypeOK is an invariant, whoever initiates rekeys: a state of the SKE    *)
(* always belongs to the role it was started in. *)
THEOREM RekeyTypeCorrect == Spec => []TypeOK
<1>1. Init => FullType
  BY TypeInit
<1>2. FullType /\ [Next]_vars => FullType'
  BY TypeNext
<1>3. FullType => TypeOK
  BY TypeImplied
<1> QED BY <1>1, <1>2, <1>3, PTL DEF Spec

-----------------------------------------------------------------------------
(* What each kind of step does to the agreement of the two ends.           *)

(* The phases look at nothing but these. *)
LEMMA PhaseKept ==
  ASSUME UNCHANGED <<pfs, ske, mat, recv>>, NEW i, Fresh(i)' = Fresh(i),
         NEW r, NEW a, NEW b
  PROVE  /\ Phase(i, r, a, b) => Phase(i, r, a, b)'
         /\ ResponderPhase(r, a) => ResponderPhase(r, a)'
         /\ InitiatorPhase(i, b) => InitiatorPhase(i, b)'
<1>1. Phase(i, r, a, b) => Phase(i, r, a, b)'
  BY DEF Phase, Between0, Between1, Asked0, Asked1, Offered0, Offered1, Offered2,
         Answered, Switching, Switched, At, New
<1>2. ResponderPhase(r, a) => ResponderPhase(r, a)'
  BY DEF ResponderPhase, At, New
<1>3. InitiatorPhase(i, b) => InitiatorPhase(i, b)'
  BY DEF InitiatorPhase, At, New
<1> QED BY <1>1, <1>2, <1>3

(* Each end sees its part of the phase. *)
LEMMA PhaseParts ==
  ASSUME FullType, NEW i \in End, NEW r \in End, NEW a, NEW b, Phase(i, r, a, b)
  PROVE  ResponderPhase(r, a) /\ InitiatorPhase(i, b)
<1>1. Fresh(i) \in Values
  BY FreshType
<1>2. ResponderPhase(r, a)
  BY <1>1 DEF Phase, Between0, Between1, Asked0, Asked1, Offered0, Offered1, Offered2,
         Answered, Switching, Switched, At, New, ResponderPhase
<1>3. InitiatorPhase(i, b)
  BY DEF Phase, Between0, Between1, Asked0, Asked1, Offered0, Offered1, Offered2,
         Answered, Switching, Switched, At, New, InitiatorPhase
<1> QED BY <1>2, <1>3

(* What may happen to the packets on their way to e besides a control      *)
(* packet: none, one is sent or the first of them is read. *)
Slides(e) ==
  \/ net'[e] = net[e]
  \/ /\ ~closed[Far(e)]
     /\ \E p \in Packets : /\ p.type \in Plain /\ p.key = send[Far(e)]
                           /\ net'[e] = Append(net[e], p)
  \/ /\ net[e] # <<>> /\ Head(net[e]).type \in Plain
     /\ net'[e] = Tail(net[e])

(* The control packets on their way are then the same. *)
LEMMA SlidesTo ==
  ASSUME FullType, NEW e \in End, Slides(e), recv'[e] = recv[e],
         NEW c \in Seq(Ctls), To(e, c),
         ~closed[Far(e)] => send[Far(e)] = LastKey(e, c)
  PROVE  To(e, c)'
<1>1. net[e] \in Seq(Packets)
  BY DEF FullType
<1>2. CASE net'[e] = net[e]
  BY <1>2 DEF To
<1>3. CASE /\ ~closed[Far(e)]
           /\ \E p \in Packets : /\ p.type \in Plain /\ p.key = send[Far(e)]
                                 /\ net'[e] = Append(net[e], p)
  <2>1. PICK p \in Packets : /\ p.type \in Plain /\ p.key = send[Far(e)]
                             /\ net'[e] = Append(net[e], p)
    BY <1>3
  <2>2. p.key = KeyAt(recv[e], c, Len(c))
    BY <1>3, <2>1 DEF LastKey
  <2>3. Flight(Append(net[e], p), recv[e], c)
    BY <1>1, <2>1, <2>2, FlightPlainSent DEF To
  <2> QED BY <2>1, <2>3 DEF To
<1>4. CASE /\ net[e] # <<>> /\ Head(net[e]).type \in Plain
           /\ net'[e] = Tail(net[e])
  <2>1. Flight(Tail(net[e]), recv[e], c)
    BY <1>1, <1>4, FlightPlainRead DEF To
  <2> QED BY <1>4, <2>1 DEF To
<1> QED BY <1>2, <1>3, <1>4 DEF Slides

(* A step that only moves data and FAILURE packets. *)
LEMMA DataStep ==
  ASSUME NEW i \in End, FullType, Agreement(i, Far(i)),
         UNCHANGED <<pfs, ske, mat, send, recv, closed>>, Fresh(i)' = Fresh(i),
         Slides(i), Slides(Far(i))
  PROVE  Agreement(i, Far(i))'
<1> DEFINE r == Far(i)
<1>0. r \in End /\ Far(r) = i
  BY Ends
<1> HIDE DEF r
<1>e. Slides(r) /\ Agreement(i, r) /\ r = Far(i)
  BY DEF r
<1>1. ASSUME ~closed[i], ~closed[r] PROVE Both(i, r)'
  <2>1. PICK a, b \in Seq(Ctls) :
               /\ To(r, a) /\ send[i] = LastKey(r, a)
               /\ To(i, b) /\ send[r] = LastKey(i, b)
               /\ Phase(i, r, a, b)
    BY <1>e, <1>1 DEF Agreement, Both
  <2>2. To(r, a)' /\ To(i, b)'
    BY <1>0, <1>e, <2>1, SlidesTo
  <2>3. Phase(i, r, a, b)'
    BY <2>1, PhaseKept
  <2>4. send'[i] = LastKey(r, a)' /\ send'[r] = LastKey(i, b)'
    BY <2>1 DEF LastKey
  <2> QED BY <2>2, <2>3, <2>4 DEF Both
<1>2. ASSUME closed[i], ~closed[r] PROVE Responder(r)'
  <2>1. PICK a \in Seq(Ctls) : To(r, a) /\ ResponderPhase(r, a)
    BY <1>e, <1>2 DEF Agreement, Responder
  <2>2. To(r, a)'
    BY <1>0, <1>e, <1>2, <2>1, SlidesTo
  <2> QED BY <2>1, <2>2, PhaseKept DEF Responder
<1>3. ASSUME ~closed[i], closed[r] PROVE Initiator(i)'
  <2>1. PICK b \in Seq(Ctls) : To(i, b) /\ InitiatorPhase(i, b)
    BY <1>e, <1>3 DEF Agreement, Initiator
  <2>2. To(i, b)'
    BY <1>0, <1>e, <1>3, <2>1, SlidesTo
  <2> QED BY <2>1, <2>2, PhaseKept DEF Initiator
<1> QED BY <1>1, <1>2, <1>3 DEF Agreement, r

(* An end closes: the other one goes on with what it has been sent. *)
LEMMA CloseStep ==
  ASSUME NEW i \in End, FullType, Agreement(i, Far(i)), NEW e \in End,
         ~closed[e],
         ske' = [ske EXCEPT ![e] = NoSke],
         closed' = [closed EXCEPT ![e] = TRUE],
         UNCHANGED <<pfs, mat, send, recv, count>>,
         Slides(Far(e))
  PROVE  Agreement(i, Far(i))'
<1> DEFINE r == Far(i)
<1>0. r \in End /\ Far(r) = i /\ r # i /\ (e = i \/ e = r)
  BY Ends
<1> HIDE DEF r
<1>e. Slides(Far(e)) /\ Agreement(i, r) /\ r = Far(i)
  BY DEF r
<1>c. closed'[e] = TRUE /\ \A x \in End : x # e => closed'[x] = closed[x]
  BY DEF FullType, FlagsOK
<1>1. CASE e = i
  <2>1. ASSUME ~closed[r] PROVE Responder(r)'
    <3>1. PICK a, b \in Seq(Ctls) :
               /\ To(r, a) /\ send[i] = LastKey(r, a)
               /\ To(i, b) /\ send[r] = LastKey(i, b)
               /\ Phase(i, r, a, b)
      BY <1>e, <1>1, <2>1 DEF Agreement, Both
    <3>2. To(r, a)'
      BY <1>0, <1>1, <1>e, <3>1, SlidesTo
    <3>3. ResponderPhase(r, a)
      BY <1>0, <3>1, PhaseParts
    <3>4. ske'[r] = ske[r]
      BY <1>0, <1>1
    <3>5. ResponderPhase(r, a)'
      BY <3>3, <3>4 DEF ResponderPhase, At, New
    <3> QED BY <3>2, <3>5 DEF Responder
  <2> QED BY <1>0, <1>1, <1>c, <2>1 DEF Agreement, r
<1>2. CASE e = r
  <2>1. ASSUME ~closed[i] PROVE Initiator(i)'
    <3>1. PICK a, b \in Seq(Ctls) :
               /\ To(r, a) /\ send[i] = LastKey(r, a)
               /\ To(i, b) /\ send[r] = LastKey(i, b)
               /\ Phase(i, r, a, b)
      BY <1>e, <1>2, <2>1 DEF Agreement, Both
    <3>2. To(i, b)'
      BY <1>0, <1>2, <1>e, <3>1, SlidesTo
    <3>3. InitiatorPhase(i, b)
      BY <1>0, <3>1, PhaseParts
    <3>4. ske'[i] = ske[i]
      BY <1>0, <1>2
    <3>5. InitiatorPhase(i, b)'
      BY <3>3, <3>4 DEF InitiatorPhase, At, New, Fresh
    <3> QED BY <3>2, <3>5 DEF Initiator
  <2> QED BY <1>0, <1>2, <1>c, <2>1 DEF Agreement, r
<1> QED BY <1>0, <1>1, <1>2

(* A step of the initiator before it has sent anything: its timer fires or *)
(* the rekey is started. *)
LEMMA BeginStep ==
  ASSUME NEW i \in End, FullType, Agreement(i, Far(i)),
         At(i, "none"), ske'[i].at \in {"none", "start"}, ske'[Far(i)] = ske[Far(i)],
         UNCHANGED <<pfs, mat, send, recv, net, closed>>
  PROVE  Agreement(i, Far(i))'
<1> DEFINE r == Far(i)
<1> HIDE DEF r
<1>e. Agreement(i, r) /\ r = Far(i)
  BY DEF r
<1>1. ASSUME ~closed[i], ~closed[r] PROVE Both(i, r)'
  <2>1. PICK a, b \in Seq(Ctls) :
               /\ To(r, a) /\ send[i] = LastKey(r, a)
               /\ To(i, b) /\ send[r] = LastKey(i, b)
               /\ Phase(i, r, a, b)
    BY <1>e, <1>1 DEF Agreement, Both
  <2>2. /\ To(r, a)' /\ send'[i] = LastKey(r, a)'
        /\ To(i, b)' /\ send'[r] = LastKey(i, b)'
    BY <2>1 DEF To, LastKey
  <2>3. Between0(i, r, a, b) \/ Between1(i, r, a, b)
    BY <2>1 DEF Phase, Asked0, Asked1, Offered0, Offered1, Offered2,
                Answered, Switching, Switched, At
  <2>4. Between0(i, r, a, b)' \/ Between1(i, r, a, b)'
    BY <1>e, <2>3 DEF Between0, Between1, At, New
  <2> QED BY <2>2, <2>4 DEF Both, Phase
<1>2. ASSUME closed[i], ~closed[r] PROVE Responder(r)'
  <2>1. PICK a \in Seq(Ctls) : To(r, a) /\ ResponderPhase(r, a)
    BY <1>e, <1>2 DEF Agreement, Responder
  <2>2. To(r, a)' /\ ResponderPhase(r, a)'
    BY <1>e, <2>1 DEF To, ResponderPhase, At, New
  <2> QED BY <2>2 DEF Responder
<1>3. ASSUME ~closed[i], closed[r] PROVE Initiator(i)'
  <2>1. PICK b \in Seq(Ctls) : To(i, b) /\ InitiatorPhase(i, b)
    BY <1>e, <1>3 DEF Agreement, Initiator
  <2>2. To(i, b)' /\ InitiatorPhase(i, b)'
    BY <2>1 DEF To, InitiatorPhase, At
  <2> QED BY <2>2 DEF Initiator
<1> QED BY <1>1, <1>2, <1>3 DEF Agreement, r

(* A control packet is sent when there are none, one or two on their way. *)
LEMMA SendCtl ==
  ASSUME NEW q \in Seq(Packets), NEW k \in Keys, NEW p \in Packets,
         p.type \notin Plain,
         NEW x \in Ctls, x.type = p.type, x.val = p.val,
         NEW y \in Ctls, NEW z \in Ctls
  PROVE  /\ Append(q, p) \in Seq(Packets)
         /\ Flight(q, k, <<>>) /\ p.key = k => Flight(Append(q, p), k, <<x>>)
         /\ Flight(q, k, <<y>>) /\ p.key = y.then => Flight(Append(q, p), k, <<y, x>>)
         /\ Flight(q, k, <<y, z>>) /\ p.key = z.then =>
              Flight(Append(q, p), k, <<y, z, x>>)
<1>1. Flight(q, k, <<>>) /\ p.key = k => Flight(Append(q, p), k, <<x>>)
  <2>1. <<>> \in Seq(Ctls) /\ KeyAt(k, <<>>, Len(<<>>)) = k
    BY Tuple0
  <2>2. Append(<<>>, x) = <<x>>
    BY Tuple1
  <2> QED BY <2>1, <2>2, FlightCtlSent
<1>2. Flight(q, k, <<y>>) /\ p.key = y.then => Flight(Append(q, p), k, <<y, x>>)
  <2>1. /\ <<y>> \in Seq(Ctls) /\ KeyAt(k, <<y>>, Len(<<y>>)) = y.then
        /\ Append(<<y>>, x) = <<y, x>>
    BY Tuple1, Tuple2
  <2> QED BY <2>1, FlightCtlSent
<1>3. Flight(q, k, <<y, z>>) /\ p.key = z.then => Flight(Append(q, p), k, <<y, z, x>>)
  <2>1. <<y, z>> \in Seq(Ctls) /\ KeyAt(k, <<y, z>>, Len(<<y, z>>)) = z.then
    BY DEF KeyAt
  <2>2. Append(<<y, z>>, x) = <<y, z, x>>
    BY Tuple3
  <2> QED BY <2>1, <2>2, FlightCtlSent
<1> QED BY <1>1, <1>2, <1>3

(* A control packet is read only where there is one. *)
LEMMA ReadCtl0 ==
  ASSUME NEW q \in Seq(Packets), NEW k \in Keys, q # <<>>, Head(q).type \notin Plain,
         NEW c \in Seq(Ctls), Flight(q, k, c)
  PROVE  /\ Tail(q) \in Seq(Packets) /\ c # <<>>
         /\ Head(q).type = c[1].type /\ Head(q).val = c[1].val
         /\ Flight(Tail(q), c[1].then, Tail(c))
<1>1. Tail(q) \in Seq(Packets)
  OBVIOUS
<1> QED BY <1>1, FlightHead, FlightCtlRead

(* It is the only one. *)
LEMMA ReadCtl1 ==
  ASSUME NEW q \in Seq(Packets), NEW k \in Keys, q # <<>>, Head(q).type \notin Plain,
         NEW x \in Ctls, Flight(q, k, <<x>>)
  PROVE  /\ Head(q).type = x.type /\ Head(q).val = x.val
         /\ Flight(Tail(q), x.then, <<>>)
<1>1. PICK c \in Seq(Ctls) : c = <<x>> /\ c[1] = x /\ Tail(c) = <<>>
  BY Tuple1
<1>2. /\ Head(q).type = c[1].type /\ Head(q).val = c[1].val
      /\ Flight(Tail(q), c[1].then, Tail(c))
  BY <1>1, ReadCtl0
<1> QED BY <1>1, <1>2

(* It is the first of two. *)
LEMMA ReadCtl2 ==
  ASSUME NEW q \in Seq(Packets), NEW k \in Keys, q # <<>>, Head(q).type \notin Plain,
         NEW x \in Ctls, NEW y \in Ctls, Flight(q, k, <<x, y>>)
  PROVE  /\ Head(q).type = x.type /\ Head(q).val = x.val
         /\ Flight(Tail(q), x.then, <<y>>)
<1>1. PICK c \in Seq(Ctls) : c = <<x, y>> /\ c[1] = x /\ Tail(c) = <<y>>
  BY Tuple2
<1>2. /\ Head(q).type = c[1].type /\ Head(q).val = c[1].val
      /\ Flight(Tail(q), c[1].then, Tail(c))
  BY <1>1, ReadCtl0
<1> QED BY <1>1, <1>2

(* It is the first of three. *)
LEMMA ReadCtl3 ==
  ASSUME NEW q \in Seq(Packets), NEW k \in Keys, q # <<>>, Head(q).type \notin Plain,
         NEW x \in Ctls, NEW y \in Ctls,
         NEW z \in Ctls, Flight(q, k, <<x, y, z>>)
  PROVE  /\ Head(q).type = x.type /\ Head(q).val = x.val
         /\ Flight(Tail(q), x.then, <<y, z>>)
<1>1. PICK c \in Seq(Ctls) : c = <<x, y, z>> /\ c[1] = x /\ Tail(c) = <<y, z>>
  BY Tuple3
<1>2. /\ Head(q).type = c[1].type /\ Head(q).val = c[1].val
      /\ Flight(Tail(q), c[1].then, Tail(c))
  BY <1>1, ReadCtl0
<1> QED BY <1>1, <1>2

(* The ends agree in the next state. *)
LEMMA BothNext ==
  ASSUME NEW i, NEW r, NEW a \in Seq(Ctls), NEW b \in Seq(Ctls),
         Flight(net'[r], recv'[r], a), send'[i] = KeyAt(recv'[r], a, Len(a)),
         Flight(net'[i], recv'[i], b), send'[r] = KeyAt(recv'[i], b, Len(b)),
         Phase(i, r, a, b)'
  PROVE  Both(i, r)'
BY DEF Both, To, LastKey

(* Each end alone in the next state. *)
LEMMA AloneNext ==
  ASSUME NEW e, NEW c \in Seq(Ctls), Flight(net'[e], recv'[e], c)
  PROVE  /\ ResponderPhase(e, c)' => Responder(e)'
         /\ InitiatorPhase(e, c)' => Initiator(e)'
BY DEF Responder, Initiator, To

(* The initiator starts: REKEY, and the first packet of the exchange with  *)
(* PFS or REKEY_DONE without. *)
LEMMA AskStep ==
  ASSUME NEW i \in End, FullType, Agreement(i, Far(i)), Roles(i, Far(i)),
         ~closed[i], At(i, "start"),
         NEW k \in Skes, k.role = "ini", k.at = "start",
         InitiatorStart(i, k, net)
  PROVE  Agreement(i, Far(i))'
<1> DEFINE r == Far(i)
<1> HIDE DEF r
<1>e. Agreement(i, r) /\ r = Far(i) /\ r \in End /\ r # i
  BY Ends DEF r
<1>t. /\ recv[r] \in Keys /\ recv[i] \in Keys /\ send[i] \in Keys /\ send[r] \in Keys
      /\ net[r] \in Seq(Packets) /\ net[i] \in Seq(Packets) /\ Fresh(i) \in Values
      /\ mat[i] \in Materials /\ New(r) \in Materials /\ 0 \in Values
  BY <1>e, FreshType, KeyTypes DEF FullType, Skes, New
<1> DEFINE q == Append(net[r], [type |-> "rekey", key |-> send[i], val |-> 0])
<1>1. CASE pfs
  <2> DEFINE p == [type |-> "ke1", key |-> send[i], val |-> Fresh(i)]
  <2>1. /\ net' = [net EXCEPT ![r] = Append(q, p)]
        /\ ske' = [ske EXCEPT ![i] = [k EXCEPT !.at = "phase3"]]
        /\ UNCHANGED <<pfs, due, mat, send, recv, closed, count>>
    BY <1>1, <1>e DEF InitiatorStart, Waits, Sent, FullType
  <2>2. /\ net'[r] = Append(q, p) /\ net'[i] = net[i]
        /\ ske'[i].at = "phase3" /\ ske'[r] = ske[r]
    BY <1>e, <2>1 DEF FullType, Skes
  <2> HIDE DEF p
  <2>3. ASSUME NEW c \in Seq(Ctls), To(i, c) PROVE Flight(net'[i], recv'[i], c)
    BY <2>1, <2>2, <2>3 DEF To
  <2>4. ASSUME ~closed[r] PROVE Both(i, r)'
    <3>1. PICK a, b \in Seq(Ctls) :
               /\ To(r, a) /\ send[i] = LastKey(r, a)
               /\ To(i, b) /\ send[r] = LastKey(i, b)
               /\ Phase(i, r, a, b)
      BY <1>e, <2>4 DEF Agreement, Both
    <3>2. Between0(i, r, a, b) \/ Between1(i, r, a, b)
      BY <3>1 DEF Phase, Asked0, Asked1, Offered0, Offered1, Offered2,
                Answered, Switching, Switched, At
    <3>p. /\ [type |-> "rekey", key |-> send[i], val |-> 0] \in Packets /\ p \in Packets
          /\ p.type = "ke1" /\ p.key = send[i] /\ p.val = Fresh(i)
          /\ "rekey" \notin Plain /\ "ke1" \notin Plain
      BY <1>t DEF Packets, Types, Plain, p
    <3>q. q \in Seq(Packets)
      BY <1>t, <3>p
    <3>3. CASE Between0(i, r, a, b)
      <4>1. /\ a = <<>> /\ b = <<>> /\ At(r, "none")
        BY <3>3 DEF Between0
      <4>2. send[i] = recv[r] /\ send[r] = recv[i]
        BY <3>1, <4>1, Tuple0 DEF LastKey
      <4>3. PICK x \in Ctls : x = Rekey(recv[r]) /\ x.type = "rekey" /\ x.val = 0 /\ x.then = recv[r]
        BY <1>t, CtlTypes
      <4>4. PICK y \in Ctls : y = Ke1(Fresh(i), recv[r]) /\ y.type = "ke1"
                              /\ y.val = Fresh(i) /\ y.then = recv[r]
        BY <1>t, CtlTypes
      <4>5. Flight(q, recv[r], <<x>>)
        BY <1>t, <3>1, <3>p, <4>1, <4>2, <4>3, SendCtl DEF To
      <4>6. Flight(Append(q, p), recv[r], <<x, y>>)
        BY <1>t, <3>p, <3>q, <4>2, <4>3, <4>4, <4>5, SendCtl
      <4> HIDE DEF q
      <4>7. Offered0(i, r, <<x, y>>, b)'
        BY <1>1, <2>1, <2>2, <4>1, <4>3, <4>4 DEF Offered0, At, Fresh
      <4>8. <<x, y>> \in Seq(Ctls) /\ KeyAt(recv'[r], <<x, y>>, Len(<<x, y>>)) = y.then
        BY DEF KeyAt
      <4>9. KeyAt(recv'[i], b, Len(b)) = recv'[i]
        BY <4>1, Tuple0
      <4> QED BY <2>1, <2>2, <2>3, <3>1, <4>2, <4>4, <4>6, <4>7, <4>8, <4>9, BothNext DEF Phase
    <3>4. CASE Between1(i, r, a, b)
      <4>1. /\ a = <<RekeyDone(I2R(New(r)))>> /\ b = <<>> /\ At(r, "end")
        BY <3>4 DEF Between1
      <4>0. PICK kk \in Keys : kk = I2R(New(r))
        BY <1>t, KeyTypes
      <4>d. PICK d \in Ctls : d = RekeyDone(kk) /\ d.then = kk
        BY CtlTypes, <1>t
      <4>2. send[i] = kk /\ send[r] = recv[i]
        BY <3>1, <4>1, <4>0, <4>d, Tuple0, Tuple1 DEF LastKey
      <4>3. PICK x \in Ctls : x = Rekey(kk) /\ x.type = "rekey" /\ x.val = 0 /\ x.then = kk
        BY <1>t, CtlTypes
      <4>4. PICK y \in Ctls : y = Ke1(Fresh(i), kk) /\ y.type = "ke1"
                              /\ y.val = Fresh(i) /\ y.then = kk
        BY <1>t, CtlTypes
      <4>5. Flight(q, recv[r], <<d, x>>)
        BY <1>t, <3>1, <3>p, <4>0, <4>1, <4>2, <4>3, <4>d, SendCtl DEF To
      <4>6. Flight(Append(q, p), recv[r], <<d, x, y>>)
        BY <1>t, <3>p, <3>q, <4>2, <4>3, <4>4, <4>5, SendCtl, ZenonT(60)
      <4> HIDE DEF q
      <4>7. Offered1(i, r, <<d, x, y>>, b)'
        BY <1>1, <2>1, <2>2, <4>0, <4>1, <4>3, <4>4, <4>d DEF Offered1, At, Fresh, New
      <4>8. /\ <<d, x, y>> \in Seq(Ctls)
            /\ KeyAt(recv'[r], <<d, x, y>>, Len(<<d, x, y>>)) = y.then
        BY DEF KeyAt
      <4>9. KeyAt(recv'[i], b, Len(b)) = recv'[i]
        BY <4>1, Tuple0
      <4> QED BY <2>1, <2>2, <2>3, <3>1, <4>2, <4>4, <4>6, <4>7, <4>8, <4>9, BothNext, ZenonT(60) DEF Phase
    <3> QED BY <3>2, <3>3, <3>4
  <2>5. ASSUME closed[r] PROVE Initiator(i)'
    <3>1. PICK b \in Seq(Ctls) : To(i, b) /\ InitiatorPhase(i, b)
      BY <1>e, <2>5 DEF Agreement, Initiator
    <3>2. b = <<>>
      BY <3>1 DEF InitiatorPhase, At
    <3>3. InitiatorPhase(i, b)'
      BY <1>1, <2>1, <2>2, <3>2 DEF InitiatorPhase, At
    <3> QED BY <2>3, <3>1, <3>3, AloneNext
  <2> QED BY <1>e, <2>1, <2>4, <2>5 DEF Agreement
<1>2. CASE ~pfs
  <2> DEFINE p == [type |-> "rekey_done", key |-> send[i], val |-> 0]
  <2>m. PICK m \in Materials : m = Append(mat[i], 0)
    BY <1>t, KeyTypes
  <2>k. PICK new \in Keys : new = I2R(m)
    BY <1>t, KeyTypes
  <2>1. /\ net' = [net EXCEPT ![r] = Append(q, p)]
        /\ ske' = [ske EXCEPT ![i] = [k EXCEPT !.at = "end", !.keymat = m]]
        /\ send' = [send EXCEPT ![i] = new]
        /\ UNCHANGED <<pfs, due, mat, recv, closed, count>>
    BY <1>2, <1>e, <2>m, <2>k
       DEF InitiatorStart, Done, DoneKey, Sent, FullType, Material, I2R, SendDir
  <2>2. /\ net'[r] = Append(q, p) /\ net'[i] = net[i]
        /\ ske'[i].at = "end" /\ ske'[i].keymat = m /\ ske'[r] = ske[r]
        /\ send'[i] = new /\ send'[r] = send[r]
    BY <1>e, <2>1 DEF FullType, Skes
  <2> HIDE DEF p
  <2>3. ASSUME NEW c \in Seq(Ctls), To(i, c) PROVE Flight(net'[i], recv'[i], c)
    BY <2>1, <2>2, <2>3 DEF To
  <2>4. ASSUME ~closed[r] PROVE Both(i, r)'
    <3>1. PICK a, b \in Seq(Ctls) :
               /\ To(r, a) /\ send[i] = LastKey(r, a)
               /\ To(i, b) /\ send[r] = LastKey(i, b)
               /\ Phase(i, r, a, b)
      BY <1>e, <2>4 DEF Agreement, Both
    <3>2. Between0(i, r, a, b) \/ Between1(i, r, a, b)
      BY <3>1 DEF Phase, Asked0, Asked1, Offered0, Offered1, Offered2,
                Answered, Switching, Switched, At
    <3>p. /\ [type |-> "rekey", key |-> send[i], val |-> 0] \in Packets /\ p \in Packets
          /\ p.type = "rekey_done" /\ p.key = send[i] /\ p.val = 0
          /\ "rekey" \notin Plain /\ "rekey_done" \notin Plain
      BY <1>t DEF Packets, Types, Plain, p
    <3>q. q \in Seq(Packets)
      BY <1>t, <3>p
    <3>y. PICK y \in Ctls : y = RekeyDone(new) /\ y.type = "rekey_done" /\ y.val = 0 /\ y.then = new
      BY <1>t, CtlTypes
    <3>3. CASE Between0(i, r, a, b)
      <4>1. /\ a = <<>> /\ b = <<>> /\ At(r, "none") /\ mat[i] = mat[r]
        BY <3>3 DEF Between0
      <4>2. send[i] = recv[r] /\ send[r] = recv[i]
        BY <3>1, <4>1, Tuple0 DEF LastKey
      <4>3. PICK x \in Ctls : x = Rekey(recv[r]) /\ x.type = "rekey" /\ x.val = 0 /\ x.then = recv[r]
        BY <1>t, CtlTypes
      <4>5. Flight(q, recv[r], <<x>>)
        BY <1>t, <3>1, <3>p, <4>1, <4>2, <4>3, SendCtl DEF To
      <4>6. Flight(Append(q, p), recv[r], <<x, y>>)
        BY <1>t, <3>p, <3>q, <3>y, <4>2, <4>3, <4>5, SendCtl
      <4> HIDE DEF q
      <4>7. Asked0(i, r, <<x, y>>, b)'
        BY <1>2, <2>1, <2>2, <2>m, <2>k, <3>y, <4>1, <4>3 DEF Asked0, At, New
      <4>8. <<x, y>> \in Seq(Ctls) /\ KeyAt(recv'[r], <<x, y>>, Len(<<x, y>>)) = y.then
        BY DEF KeyAt
      <4>9. KeyAt(recv'[i], b, Len(b)) = recv'[i]
        BY <4>1, Tuple0
      <4> QED BY <2>1, <2>2, <2>3, <3>1, <3>y, <4>2, <4>6, <4>7, <4>8, <4>9, BothNext, ZenonT(60) DEF Phase
    <3>4. CASE Between1(i, r, a, b)
      <4>1. /\ a = <<RekeyDone(I2R(New(r)))>> /\ b = <<>> /\ At(r, "end") /\ mat[i] = New(r)
        BY <3>4 DEF Between1
      <4>0. PICK kk \in Keys : kk = I2R(New(r))
        BY <1>t, KeyTypes
      <4>d. PICK d \in Ctls : d = RekeyDone(kk) /\ d.then = kk
        BY CtlTypes, <1>t
      <4>2. send[i] = kk /\ send[r] = recv[i]
        BY <3>1, <4>1, <4>0, <4>d, Tuple0, Tuple1 DEF LastKey
      <4>3. PICK x \in Ctls : x = Rekey(kk) /\ x.type = "rekey" /\ x.val = 0 /\ x.then = kk
        BY <1>t, CtlTypes
      <4>5. Flight(q, recv[r], <<d, x>>)
        BY <1>t, <3>1, <3>p, <4>0, <4>1, <4>2, <4>3, <4>d, SendCtl DEF To
      <4>6. Flight(Append(q, p), recv[r], <<d, x, y>>)
        BY <1>t, <3>p, <3>q, <3>y, <4>2, <4>3, <4>5, SendCtl
      <4> HIDE DEF q
      <4>7. Asked1(i, r, <<d, x, y>>, b)'
        BY <1>2, <2>1, <2>2, <2>m, <2>k, <3>y, <4>0, <4>1, <4>3, <4>d DEF Asked1, At, New
      <4>8. /\ <<d, x, y>> \in Seq(Ctls)
            /\ KeyAt(recv'[r], <<d, x, y>>, Len(<<d, x, y>>)) = y.then
        BY DEF KeyAt
      <4>9. KeyAt(recv'[i], b, Len(b)) = recv'[i]
        BY <4>1, Tuple0
      <4> QED BY <2>1, <2>2, <2>3, <3>1, <3>y, <4>2, <4>6, <4>7, <4>8, <4>9, BothNext, ZenonT(60) DEF Phase
    <3> QED BY <3>2, <3>3, <3>4
  <2>5. ASSUME closed[r] PROVE Initiator(i)'
    <3>1. PICK b \in Seq(Ctls) : To(i, b) /\ InitiatorPhase(i, b)
      BY <1>e, <2>5 DEF Agreement, Initiator
    <3>2. b = <<>>
      BY <3>1 DEF InitiatorPhase, At
    <3>3. InitiatorPhase(i, b)'
      BY <2>1, <2>2, <3>2 DEF InitiatorPhase, At
    <3> QED BY <2>3, <3>1, <3>3, AloneNext
  <2> QED BY <1>e, <2>1, <2>4, <2>5 DEF Agreement
<1> QED BY <1>1, <1>2

(* The control packets that an end can find at the head of what it reads   *)
(* are the ones its state wants. *)
LEMMA Expected ==
  ASSUME NEW i \in End, FullType, Agreement(i, Far(i)), NEW e \in End,
         ~closed[e], net[e] # <<>>, Head(net[e]).type \notin Plain
  PROVE  /\ e = i => \/ At(e, "phase3") /\ Head(net[e]).type = "ke2"
                     \/ At(e, "end") /\ Head(net[e]).type = "rekey_done"
         /\ e # i => \/ At(e, "none") /\ Head(net[e]).type = "rekey"
                     \/ At(e, "phase2") /\ Head(net[e]).type = "ke1"
                     \/ At(e, "end") /\ Head(net[e]).type = "rekey_done"
<1>t. /\ recv[e] \in Keys /\ net[e] \in Seq(Packets) /\ Fresh(e) \in Values
      /\ mat[e] \in Materials /\ New(e) \in Materials /\ 0 \in Values
  BY FreshType, KeyTypes DEF FullType, Skes, New
<1>h. ASSUME NEW c \in Seq(Ctls), To(e, c)
      PROVE  c # <<>> /\ Head(net[e]).type = c[1].type
  BY <1>h, <1>t, FlightHead DEF To
<1>1. CASE e = i
  <2>1. PICK b \in Seq(Ctls) : To(e, b) /\ InitiatorPhase(e, b)
    <3>1. CASE closed[Far(e)]
      BY <1>1, <3>1 DEF Agreement, Initiator
    <3>2. CASE ~closed[Far(e)]
      BY <1>1, <3>2, Ends, PhaseParts DEF Agreement, Both
    <3> QED BY <3>1, <3>2
  <2>2. b # <<>> /\ Head(net[e]).type = b[1].type
    BY <2>1, <1>h
  <2>3. CASE /\ At(e, "phase3")
             /\ \E w \in Values : b = <<Ke2(w, recv[e]), RekeyDone(R2I(<<Fresh(e), w>>))>>
    BY <1>1, <2>2, <2>3 DEF Ke2, Ctl
  <2>4. CASE At(e, "end") /\ b = <<RekeyDone(R2I(New(e)))>>
    BY <1>1, <2>2, <2>4 DEF RekeyDone, Ctl
  <2> QED BY <2>1, <2>2, <2>3, <2>4 DEF InitiatorPhase
<1>2. CASE e # i
  <2>0. e = Far(i) /\ i = Far(e) /\ i \in End
    BY <1>2, Ends
  <2>1. PICK a \in Seq(Ctls) : To(e, a) /\ ResponderPhase(e, a)
    <3>1. CASE closed[i]
      BY <2>0, <3>1 DEF Agreement, Responder
    <3>2. CASE ~closed[i]
      BY <2>0, <3>2, PhaseParts DEF Agreement, Both
    <3> QED BY <3>1, <3>2
  <2>2. a # <<>> /\ Head(net[e]).type = a[1].type
    BY <2>1, <1>h
  <2>3. CASE /\ At(e, "none")
             /\ \/ a = <<Rekey(recv[e]), RekeyDone(I2R(Append(mat[e], 0)))>>
                \/ \E v \in Values : a = <<Rekey(recv[e]), Ke1(v, recv[e])>>
    BY <1>2, <2>2, <2>3 DEF Rekey, Ctl
  <2>4. CASE /\ At(e, "phase2") /\ \E v \in Values : a = <<Ke1(v, recv[e])>>
    BY <1>2, <2>2, <2>4 DEF Ke1, Ctl
  <2>5. CASE /\ At(e, "end")
             /\ \/ a = <<RekeyDone(I2R(New(e)))>>
                \/ a = <<RekeyDone(I2R(New(e))), Rekey(I2R(New(e))),
                         RekeyDone(I2R(Append(New(e), 0)))>>
                \/ \E v \in Values :
                     a = <<RekeyDone(I2R(New(e))), Rekey(I2R(New(e))), Ke1(v, I2R(New(e)))>>
    BY <1>2, <2>2, <2>5 DEF RekeyDone, Ctl
  <2> QED BY <2>1, <2>2, <2>3, <2>4, <2>5 DEF ResponderPhase
<1> QED BY <1>1, <1>2

(* The initiator gets the other half of the exchange, sends REKEY_DONE and *)
(* switches its sending key. *)
LEMMA Ke2Step ==
  ASSUME NEW i \in End, FullType, Agreement(i, Far(i)), ~closed[i],
         At(i, "phase3"), net[i] # <<>>, Head(net[i]).type = "ke2",
         NEW k \in Skes, k.role = "ini", k.val = Head(net[i]).val,
         Done(i, [k EXCEPT !.packet = "none"], Rest(i), Material(i, k, k.val))
  PROVE  Agreement(i, Far(i))'
<1> DEFINE r == Far(i)
<1> HIDE DEF r
<1>e. Agreement(i, r) /\ r = Far(i) /\ i = Far(r) /\ r \in End /\ r # i
  BY Ends DEF r
<1>t. /\ recv[r] \in Keys /\ recv[i] \in Keys /\ send[i] \in Keys /\ send[r] \in Keys
      /\ net[r] \in Seq(Packets) /\ net[i] \in Seq(Packets)
      /\ Fresh(i) \in Values /\ Fresh(r) \in Values
      /\ mat[r] \in Materials /\ New(i) \in Materials /\ New(r) \in Materials /\ 0 \in Values
  BY <1>e, FreshType, KeyTypes DEF FullType, Skes, New
<1>p. "ke2" \notin Plain /\ "rekey_done" \notin Plain
  BY DEF Plain
<1>m. PICK m \in Materials : m = Material(i, k, k.val)
  BY MaterialType DEF Skes
<1>k. PICK new \in Keys : new = I2R(m)
  BY <1>t, KeyTypes
<1>o. PICK old \in Keys : old = R2I(m)
  BY <1>t, KeyTypes
<1>y. PICK y \in Ctls : y = RekeyDone(new) /\ y.type = "rekey_done" /\ y.val = 0 /\ y.then = new
  BY <1>t, CtlTypes
<1>z. PICK z \in Ctls : z = RekeyDone(old) /\ z.then = old
  BY <1>t, CtlTypes
<1> DEFINE p == [type |-> "rekey_done", key |-> send[i], val |-> 0]
<1>1. /\ net'[i] = Tail(net[i]) /\ net'[r] = Append(net[r], p)
      /\ ske'[i].at = "end" /\ ske'[i].keymat = m /\ ske'[r] = ske[r]
      /\ send'[i] = new /\ send'[r] = send[r]
      /\ UNCHANGED <<pfs, due, mat, recv, closed, count>>
  BY <1>e, <1>m, <1>k DEF Done, DoneKey, Rest, SendDir, I2R, FullType, Skes
<1>2. p \in Packets /\ p.type = "rekey_done" /\ p.key = send[i] /\ p.val = 0
  BY <1>t DEF Packets, Types
<1> HIDE DEF p
<1>3. ASSUME NEW w \in Values, pfs, To(i, <<Ke2(w, recv[i]), RekeyDone(R2I(<<Fresh(i), w>>))>>)
      PROVE  m = <<Fresh(i), w>> /\ Flight(net'[i], recv'[i], <<z>>)
  <2>1. PICK x \in Ctls : x = Ke2(w, recv[i]) /\ x.val = w /\ x.then = recv[i]
    BY <1>t, CtlTypes
  <2>2. PICK u \in Ctls : u = RekeyDone(R2I(<<Fresh(i), w>>))
    BY <1>t, CtlTypes, KeyTypes
  <2>3. Flight(net[i], recv[i], <<x, u>>)
    BY <1>3, <2>1, <2>2 DEF To
  <2>4. Head(net[i]).val = w /\ Flight(Tail(net[i]), recv[i], <<u>>)
    BY <1>t, <1>p, <2>1, <2>3, ReadCtl2
  <2>5. m = <<Fresh(i), w>>
    BY <1>3, <1>m, <2>4 DEF Material
  <2> QED BY <1>1, <1>o, <1>z, <2>2, <2>4, <2>5
<1>4. ASSUME ~closed[r] PROVE Both(i, r)'
  <2>1. PICK a, b \in Seq(Ctls) :
               /\ To(r, a) /\ send[i] = LastKey(r, a)
               /\ To(i, b) /\ send[r] = LastKey(i, b)
               /\ Phase(i, r, a, b)
    BY <1>e, <1>4 DEF Agreement, Both
  <2>2. b # <<>>
    BY <1>t, <1>p, <2>1, FlightHead DEF To
  <2>3. Answered(i, r, a, b)
    BY <2>1, <2>2 DEF Phase, Between0, Between1, Asked0, Asked1, Offered0, Offered1,
                      Offered2, Switching, Switched, At
  <2>4. PICK w \in Values :
               b = <<Ke2(w, recv[i]), RekeyDone(R2I(New(r)))>> /\ New(r) = <<Fresh(i), w>>
    BY <2>3 DEF Answered
  <2>5. a = <<>> /\ At(r, "end") /\ pfs
    BY <2>3 DEF Answered
  <2>6. m = <<Fresh(i), w>> /\ Flight(net'[i], recv'[i], <<z>>)
    BY <1>3, <2>1, <2>4, <2>5
  <2>7. send[i] = recv[r]
    BY <2>1, <2>5, Tuple0 DEF LastKey
  <2>8. send[r] = old
    <3>1. PICK x \in Ctls : x = Ke2(w, recv[i])
      BY <1>t, CtlTypes
    <3>2. b = <<x, z>>
      BY <1>o, <1>z, <2>4, <2>6, <3>1
    <3>3. KeyAt(recv[i], <<x, z>>, Len(<<x, z>>)) = z.then
      BY DEF KeyAt
    <3> QED BY <1>z, <2>1, <3>2, <3>3 DEF LastKey
  <2>9. Flight(net'[r], recv'[r], <<y>>)
    BY <1>1, <1>2, <1>t, <1>p, <1>y, <2>1, <2>5, <2>7, SendCtl, ZenonT(60) DEF To
  <2>10. Switching(i, r, <<y>>, <<z>>)'
    BY <1>1, <1>k, <1>o, <1>y, <1>z, <2>4, <2>5, <2>6 DEF Switching, At, New
  <2>11. /\ <<y>> \in Seq(Ctls) /\ KeyAt(recv'[r], <<y>>, Len(<<y>>)) = y.then
         /\ <<z>> \in Seq(Ctls) /\ KeyAt(recv'[i], <<z>>, Len(<<z>>)) = z.then
    BY DEF KeyAt
  <2> QED BY <1>1, <1>y, <1>z, <2>6, <2>8, <2>9, <2>10, <2>11, BothNext DEF Phase
<1>5. ASSUME closed[r] PROVE Initiator(i)'
  <2>1. PICK b \in Seq(Ctls) : To(i, b) /\ InitiatorPhase(i, b)
    BY <1>e, <1>5 DEF Agreement, Initiator
  <2>2. b # <<>>
    BY <1>t, <1>p, <2>1, FlightHead DEF To
  <2>3. /\ pfs
        /\ \E w \in Values : b = <<Ke2(w, recv[i]), RekeyDone(R2I(<<Fresh(i), w>>))>>
    BY <2>1, <2>2 DEF InitiatorPhase, At
  <2>4. Flight(net'[i], recv'[i], <<z>>)
    BY <1>3, <2>1, <2>3
  <2>5. <<z>> \in Seq(Ctls) /\ InitiatorPhase(i, <<z>>)'
    BY <1>1, <1>o, <1>z DEF InitiatorPhase, At, New
  <2> QED BY <2>4, <2>5, AloneNext
<1> QED BY <1>1, <1>4, <1>5, <1>e DEF Agreement

(* The initiator gets REKEY_DONE and switches its receiving key. *)
LEMMA InitiatorDoneStep ==
  ASSUME NEW i \in End, FullType, Agreement(i, Far(i)), ~closed[i],
         At(i, "end"), net[i] # <<>>, Head(net[i]).type = "rekey_done",
         ske' = [ske EXCEPT ![i] = NoSke], recv' = [recv EXCEPT ![i] = R2I(New(i))],
         mat' = [mat EXCEPT ![i] = New(i)], net' = Rest(i),
         UNCHANGED <<pfs, send, closed, count>>
  PROVE  Agreement(i, Far(i))'
<1> DEFINE r == Far(i)
<1> HIDE DEF r
<1>e. Agreement(i, r) /\ r = Far(i) /\ i = Far(r) /\ r \in End /\ r # i
  BY Ends DEF r
<1>t. /\ recv[r] \in Keys /\ recv[i] \in Keys /\ send[i] \in Keys /\ send[r] \in Keys
      /\ net[r] \in Seq(Packets) /\ net[i] \in Seq(Packets)
      /\ Fresh(i) \in Values /\ Fresh(r) \in Values
      /\ mat[r] \in Materials /\ New(i) \in Materials /\ New(r) \in Materials /\ 0 \in Values
  BY <1>e, FreshType, KeyTypes DEF FullType, Skes, New
<1>p. "rekey_done" \notin Plain
  BY DEF Plain
<1>k. R2I(New(i)) \in Keys
  BY <1>t, KeyTypes
<1>z. PICK z \in Ctls : z = RekeyDone(R2I(New(i))) /\ z.then = R2I(New(i))
  BY <1>t, <1>k, CtlTypes
<1>1. /\ net'[i] = Tail(net[i]) /\ net'[r] = net[r]
      /\ ske'[i].at = "none" /\ ske'[r] = ske[r]
      /\ mat'[i] = New(i) /\ mat'[r] = mat[r]
      /\ recv'[i] = R2I(New(i)) /\ recv'[r] = recv[r]
  BY <1>e DEF Rest, FullType, NoSke
<1>2. ASSUME To(i, <<z>>) PROVE Flight(net'[i], recv'[i], <<>>)
  <2>1. Flight(Tail(net[i]), z.then, <<>>)
    BY <1>2, <1>t, <1>p, <1>z, ReadCtl1 DEF To
  <2> QED BY <1>1, <1>z, <2>1
<1>4. ASSUME ~closed[r] PROVE Both(i, r)'
  <2>1. PICK a, b \in Seq(Ctls) :
               /\ To(r, a) /\ send[i] = LastKey(r, a)
               /\ To(i, b) /\ send[r] = LastKey(i, b)
               /\ Phase(i, r, a, b)
    BY <1>e, <1>4 DEF Agreement, Both
  <2>2. b # <<>>
    BY <1>t, <1>p, <2>1, FlightHead DEF To
  <2>3. Switching(i, r, a, b) \/ Switched(i, r, a, b)
    BY <2>1, <2>2 DEF Phase, Between0, Between1, Asked0, Asked1, Offered0, Offered1,
                      Offered2, Answered, At
  <2>4. b = <<z>>
    BY <1>z, <2>3 DEF Switching, Switched
  <2>5. Flight(net'[i], recv'[i], <<>>)
    BY <1>2, <2>1, <2>4
  <2>6. Flight(net'[r], recv'[r], a) /\ send'[i] = KeyAt(recv'[r], a, Len(a))
    BY <1>1, <2>1 DEF To, LastKey
  <2>7. send'[r] = KeyAt(recv'[i], <<>>, Len(<<>>))
    <3>1. send[r] = z.then
      BY <1>z, <2>1, <2>4, Tuple1 DEF LastKey
    <3> QED BY <1>1, <1>z, <3>1, Tuple0
  <2>8. Between0(i, r, a, <<>>)' \/ Between1(i, r, a, <<>>)'
    BY <1>1, <2>3 DEF Switching, Switched, Between0, Between1, At, New
  <2>9. <<>> \in Seq(Ctls)
    OBVIOUS
  <2> QED BY <2>1, <2>5, <2>6, <2>7, <2>8, <2>9, BothNext DEF Phase
<1>5. ASSUME closed[r] PROVE Initiator(i)'
  <2>1. PICK b \in Seq(Ctls) : To(i, b) /\ InitiatorPhase(i, b)
    BY <1>e, <1>5 DEF Agreement, Initiator
  <2>2. b # <<>>
    BY <1>t, <1>p, <2>1, FlightHead DEF To
  <2>3. b = <<z>>
    BY <1>z, <2>1, <2>2 DEF InitiatorPhase, At
  <2>4. Flight(net'[i], recv'[i], <<>>)
    BY <1>2, <2>1, <2>3
  <2>5. <<>> \in Seq(Ctls) /\ InitiatorPhase(i, <<>>)'
    BY <1>1 DEF InitiatorPhase, At
  <2> QED BY <2>4, <2>5, AloneNext
<1> QED BY <1>1, <1>4, <1>5, <1>e DEF Agreement

(* The responder gets REKEY.  With PFS it waits for the exchange. *)
LEMMA RekeyPfsStep ==
  ASSUME NEW i \in End, FullType, Agreement(i, Far(i)), ~closed[Far(i)],
         At(Far(i), "none"), net[Far(i)] # <<>>, Head(net[Far(i)]).type = "rekey",
         pfs, NEW k \in Skes,
         ske' = [ske EXCEPT ![Far(i)] = [k EXCEPT !.at = "phase2"]], net' = Rest(Far(i)),
         UNCHANGED <<pfs, mat, send, recv, closed, count>>
  PROVE  Agreement(i, Far(i))'
<1> DEFINE r == Far(i)
<1> HIDE DEF r
<1>e. Agreement(i, r) /\ r = Far(i) /\ i = Far(r) /\ r \in End /\ r # i
  BY Ends DEF r
<1>t. /\ recv[r] \in Keys /\ recv[i] \in Keys /\ send[i] \in Keys /\ send[r] \in Keys
      /\ net[r] \in Seq(Packets) /\ net[i] \in Seq(Packets)
      /\ Fresh(i) \in Values /\ Fresh(r) \in Values
      /\ mat[r] \in Materials /\ New(i) \in Materials /\ New(r) \in Materials /\ 0 \in Values
  BY <1>e, FreshType, KeyTypes DEF FullType, Skes, New
<1>p. "rekey" \notin Plain
  BY DEF Plain
<1>h. net[r] # <<>> /\ Head(net[r]).type = "rekey" /\ ~closed[r] /\ At(r, "none")
  BY <1>e
<1>1. /\ net'[r] = Tail(net[r]) /\ net'[i] = net[i]
      /\ ske'[r].at = "phase2" /\ ske'[i] = ske[i]
  BY <1>e DEF Rest, FullType, Skes
<1>x. PICK x \in Ctls : x = Rekey(recv[r]) /\ x.then = recv[r]
  BY <1>t, CtlTypes
<1>2. ASSUME NEW y \in Ctls, To(r, <<x, y>>) PROVE Flight(net'[r], recv'[r], <<y>>)
  <2>1. Flight(Tail(net[r]), x.then, <<y>>)
    BY <1>2, <1>t, <1>p, <1>h, ReadCtl2 DEF To
  <2> QED BY <1>1, <1>x, <2>1
<1>4. ASSUME ~closed[i] PROVE Both(i, r)'
  <2>1. PICK a, b \in Seq(Ctls) :
               /\ To(r, a) /\ send[i] = LastKey(r, a)
               /\ To(i, b) /\ send[r] = LastKey(i, b)
               /\ Phase(i, r, a, b)
    BY <1>e, <1>4, <1>h DEF Agreement, Both
  <2>2. a # <<>>
    BY <1>t, <1>p, <1>h, <2>1, FlightHead DEF To
  <2>3. Offered0(i, r, a, b)
    BY <1>h, <2>1, <2>2 DEF Phase, Between0, Between1, Asked0, Asked1, Offered1,
                      Offered2, Answered, Switching, Switched, At
  <2>4. PICK y \in Ctls : y = Ke1(Fresh(i), recv[r]) /\ y.then = recv[r]
    BY <1>t, CtlTypes
  <2>5. a = <<x, y>> /\ b = <<>> /\ At(i, "phase3")
    BY <1>x, <2>3, <2>4 DEF Offered0
  <2>6. Flight(net'[r], recv'[r], <<y>>) /\ Flight(net'[i], recv'[i], b)
    BY <1>1, <1>2, <2>1, <2>5 DEF To
  <2>7. send[i] = y.then
    <3>1. KeyAt(recv[r], <<x, y>>, Len(<<x, y>>)) = y.then
      BY DEF KeyAt
    <3> QED BY <2>1, <2>5, <3>1 DEF LastKey
  <2>8. Offered2(i, r, <<y>>, b)'
    BY <1>1, <2>4, <2>5 DEF Offered2, At, Fresh
  <2>9. <<y>> \in Seq(Ctls) /\ KeyAt(recv'[r], <<y>>, Len(<<y>>)) = y.then
    BY DEF KeyAt
  <2>10. send'[r] = KeyAt(recv'[i], b, Len(b))
    BY <2>1 DEF LastKey
  <2> QED BY <2>1, <2>6, <2>7, <2>8, <2>9, <2>10, BothNext DEF Phase
<1>5. ASSUME closed[i] PROVE Responder(r)'
  <2>1. PICK a \in Seq(Ctls) : To(r, a) /\ ResponderPhase(r, a)
    BY <1>e, <1>5, <1>h DEF Agreement, Responder
  <2>2. a # <<>>
    BY <1>t, <1>p, <1>h, <2>1, FlightHead DEF To
  <2>3. \E v \in Values : a = <<Rekey(recv[r]), Ke1(v, recv[r])>>
    BY <1>h, <2>1, <2>2 DEF ResponderPhase, At
  <2>4. PICK v \in Values : a = <<Rekey(recv[r]), Ke1(v, recv[r])>>
    BY <2>3
  <2>5. PICK y \in Ctls : y = Ke1(v, recv[r])
    BY <1>t, CtlTypes
  <2>6. Flight(net'[r], recv'[r], <<y>>)
    BY <1>2, <1>x, <2>1, <2>4, <2>5
  <2>7. <<y>> \in Seq(Ctls) /\ ResponderPhase(r, <<y>>)'
    BY <1>1, <2>5 DEF ResponderPhase, At
  <2> QED BY <2>6, <2>7, AloneNext
<1> QED BY <1>1, <1>4, <1>5, <1>e, <1>h DEF Agreement

(* Without PFS it sends REKEY_DONE and switches its sending key. *)
LEMMA RekeyPlainStep ==
  ASSUME NEW i \in End, FullType, Agreement(i, Far(i)), ~closed[Far(i)],
         At(Far(i), "none"), net[Far(i)] # <<>>, Head(net[Far(i)]).type = "rekey",
         ~pfs, NEW k \in Skes, k.role = "res",
         Done(Far(i), k, Rest(Far(i)), Append(mat[Far(i)], 0))
  PROVE  Agreement(i, Far(i))'
<1> DEFINE r == Far(i)
<1> HIDE DEF r
<1>e. Agreement(i, r) /\ r = Far(i) /\ i = Far(r) /\ r \in End /\ r # i
  BY Ends DEF r
<1>t. /\ recv[r] \in Keys /\ recv[i] \in Keys /\ send[i] \in Keys /\ send[r] \in Keys
      /\ net[r] \in Seq(Packets) /\ net[i] \in Seq(Packets)
      /\ Fresh(i) \in Values /\ Fresh(r) \in Values
      /\ mat[r] \in Materials /\ New(i) \in Materials /\ New(r) \in Materials /\ 0 \in Values
  BY <1>e, FreshType, KeyTypes DEF FullType, Skes, New
<1>p. "rekey" \notin Plain /\ "rekey_done" \notin Plain
  BY DEF Plain
<1>h. net[r] # <<>> /\ Head(net[r]).type = "rekey" /\ ~closed[r] /\ At(r, "none")
  BY <1>e
<1>m. PICK m \in Materials : m = Append(mat[r], 0)
  BY <1>t, KeyTypes
<1>n. PICK new \in Keys : new = R2I(m)
  BY <1>t, KeyTypes
<1>o. PICK other \in Keys : other = I2R(m)
  BY <1>t, KeyTypes
<1>x. PICK x \in Ctls : x = Rekey(recv[r]) /\ x.then = recv[r]
  BY <1>t, CtlTypes
<1>y. PICK y \in Ctls : y = RekeyDone(other) /\ y.then = other
  BY <1>t, CtlTypes
<1>z. PICK z \in Ctls : z = RekeyDone(new) /\ z.then = new /\ z.type = "rekey_done" /\ z.val = 0
  BY <1>t, CtlTypes
<1> DEFINE p == [type |-> "rekey_done", key |-> send[r], val |-> 0]
<1>1. /\ net'[r] = Tail(net[r]) /\ net'[i] = Append(net[i], p)
      /\ ske'[r].at = "end" /\ ske'[r].keymat = m /\ ske'[i] = ske[i]
      /\ send'[r] = new /\ send'[i] = send[i]
      /\ UNCHANGED <<pfs, due, mat, recv, closed, count>>
  BY <1>e, <1>m, <1>n DEF Done, DoneKey, Rest, SendDir, R2I, FullType, Skes
<1>3. p \in Packets /\ p.type = "rekey_done" /\ p.key = send[r] /\ p.val = 0
  BY <1>t DEF Packets, Types
<1> HIDE DEF p
<1>2. ASSUME To(r, <<x, y>>) PROVE Flight(net'[r], recv'[r], <<y>>)
  <2>1. Flight(Tail(net[r]), x.then, <<y>>)
    BY <1>2, <1>t, <1>p, <1>h, ReadCtl2 DEF To
  <2> QED BY <1>1, <1>x, <2>1
<1>4. ASSUME ~closed[i] PROVE Both(i, r)'
  <2>1. PICK a, b \in Seq(Ctls) :
               /\ To(r, a) /\ send[i] = LastKey(r, a)
               /\ To(i, b) /\ send[r] = LastKey(i, b)
               /\ Phase(i, r, a, b)
    BY <1>e, <1>4, <1>h DEF Agreement, Both
  <2>2. a # <<>>
    BY <1>t, <1>p, <1>h, <2>1, FlightHead DEF To
  <2>3. Asked0(i, r, a, b)
    BY <1>h, <2>1, <2>2 DEF Phase, Between0, Between1, Asked1, Offered0, Offered1,
                      Offered2, Answered, Switching, Switched, At
  <2>5. a = <<x, y>> /\ b = <<>> /\ At(i, "end") /\ New(i) = m
    BY <1>m, <1>o, <1>x, <1>y, <2>3 DEF Asked0
  <2>6. Flight(net'[r], recv'[r], <<y>>)
    BY <1>2, <2>1, <2>5
  <2>7. send[i] = y.then
    <3>1. KeyAt(recv[r], <<x, y>>, Len(<<x, y>>)) = y.then
      BY DEF KeyAt
    <3> QED BY <2>1, <2>5, <3>1 DEF LastKey
  <2>8. send[r] = recv[i]
    BY <2>1, <2>5, Tuple0 DEF LastKey
  <2>9. Flight(net'[i], recv'[i], <<z>>)
    BY <1>1, <1>3, <1>t, <1>p, <1>z, <2>1, <2>5, <2>8, SendCtl, ZenonT(60) DEF To
  <2>10. Switching(i, r, <<y>>, <<z>>)'
    BY <1>1, <1>n, <1>o, <1>y, <1>z, <2>5 DEF Switching, At, New
  <2>11. /\ <<y>> \in Seq(Ctls) /\ KeyAt(recv'[r], <<y>>, Len(<<y>>)) = y.then
         /\ <<z>> \in Seq(Ctls) /\ KeyAt(recv'[i], <<z>>, Len(<<z>>)) = z.then
    BY DEF KeyAt
  <2> QED BY <1>1, <1>y, <1>z, <2>6, <2>7, <2>9, <2>10, <2>11, BothNext DEF Phase
<1>5. ASSUME closed[i] PROVE Responder(r)'
  <2>1. PICK a \in Seq(Ctls) : To(r, a) /\ ResponderPhase(r, a)
    BY <1>e, <1>5, <1>h DEF Agreement, Responder
  <2>2. a # <<>>
    BY <1>t, <1>p, <1>h, <2>1, FlightHead DEF To
  <2>3. a = <<x, y>>
    BY <1>h, <1>m, <1>o, <1>x, <1>y, <2>1, <2>2 DEF ResponderPhase, At
  <2>6. Flight(net'[r], recv'[r], <<y>>)
    BY <1>2, <2>1, <2>3
  <2>7. <<y>> \in Seq(Ctls) /\ ResponderPhase(r, <<y>>)'
    BY <1>1, <1>o, <1>y DEF ResponderPhase, At, New
  <2> QED BY <2>6, <2>7, AloneNext
<1> QED BY <1>1, <1>4, <1>5, <1>e, <1>h DEF Agreement

(* The responder gets its half of the exchange, sends the other half and   *)
(* REKEY_DONE, and switches its sending key. *)
LEMMA Ke1Step ==
  ASSUME NEW i \in End, FullType, Agreement(i, Far(i)), ~closed[Far(i)],
         At(Far(i), "phase2"), net[Far(i)] # <<>>, Head(net[Far(i)]).type = "ke1",
         NEW k \in Skes, k.role = "res", k.val = Head(net[Far(i)]).val,
         Done(Far(i), [k EXCEPT !.packet = "none"],
              Sent(Far(i), Rest(Far(i)), "ke2", Fresh(Far(i))),
              Material(Far(i), k, k.val))
  PROVE  Agreement(i, Far(i))'
<1> DEFINE r == Far(i)
<1> HIDE DEF r
<1>e. Agreement(i, r) /\ r = Far(i) /\ i = Far(r) /\ r \in End /\ r # i
  BY Ends DEF r
<1>t. /\ recv[r] \in Keys /\ recv[i] \in Keys /\ send[i] \in Keys /\ send[r] \in Keys
      /\ net[r] \in Seq(Packets) /\ net[i] \in Seq(Packets)
      /\ Fresh(i) \in Values /\ Fresh(r) \in Values
      /\ mat[r] \in Materials /\ New(i) \in Materials /\ New(r) \in Materials /\ 0 \in Values
  BY <1>e, FreshType, KeyTypes DEF FullType, Skes, New
<1>p. "ke1" \notin Plain /\ "ke2" \notin Plain /\ "rekey_done" \notin Plain
  BY DEF Plain
<1>h. /\ net[r] # <<>> /\ Head(net[r]).type = "ke1" /\ ~closed[r] /\ At(r, "phase2")
      /\ k.val = Head(net[r]).val
  BY <1>e
<1>m. PICK m \in Materials : m = Material(r, k, k.val)
  BY <1>e, MaterialType DEF Skes
<1>n. PICK new \in Keys : new = R2I(m)
  BY <1>t, KeyTypes
<1> DEFINE o == [type |-> "ke2", key |-> send[r], val |-> Fresh(r)]
<1> DEFINE p == [type |-> "rekey_done", key |-> send[r], val |-> 0]
<1>1. /\ net'[r] = Tail(net[r]) /\ net'[i] = Append(Append(net[i], o), p)
      /\ ske'[r].at = "end" /\ ske'[r].keymat = m /\ ske'[i] = ske[i]
      /\ send'[r] = new /\ send'[i] = send[i]
      /\ UNCHANGED <<pfs, due, mat, recv, closed, count>>
  BY <1>e, <1>m, <1>n DEF Done, DoneKey, Rest, Sent, SendDir, R2I, FullType, Skes
<1>3. /\ p \in Packets /\ p.type = "rekey_done" /\ p.key = send[r] /\ p.val = 0
      /\ o \in Packets /\ o.type = "ke2" /\ o.key = send[r] /\ o.val = Fresh(r)
  BY <1>t DEF Packets, Types
<1> HIDE DEF o, p
<1>2. ASSUME NEW v \in Values, pfs, To(r, <<Ke1(v, recv[r])>>)
      PROVE  Flight(net'[r], recv'[r], <<>>) /\ m = <<v, Fresh(r)>>
  <2>1. PICK x \in Ctls : x = Ke1(v, recv[r]) /\ x.val = v /\ x.then = recv[r]
    BY <1>t, CtlTypes
  <2>2. Head(net[r]).val = v /\ Flight(Tail(net[r]), recv[r], <<>>)
    BY <1>2, <1>t, <1>p, <1>h, <2>1, ReadCtl1 DEF To
  <2>3. m = <<v, Fresh(r)>>
    BY <1>2, <1>h, <1>m, <2>2 DEF Material
  <2> QED BY <1>1, <2>2, <2>3
<1>4. ASSUME ~closed[i] PROVE Both(i, r)'
  <2>1. PICK a, b \in Seq(Ctls) :
               /\ To(r, a) /\ send[i] = LastKey(r, a)
               /\ To(i, b) /\ send[r] = LastKey(i, b)
               /\ Phase(i, r, a, b)
    BY <1>e, <1>4, <1>h DEF Agreement, Both
  <2>2. a # <<>>
    BY <1>t, <1>p, <1>h, <2>1, FlightHead DEF To
  <2>3. Offered2(i, r, a, b)
    BY <1>h, <2>1, <2>2 DEF Phase, Between0, Between1, Asked0, Asked1, Offered0, Offered1,
                      Answered, Switching, Switched, At
  <2>4. a = <<Ke1(Fresh(i), recv[r])>> /\ b = <<>> /\ At(i, "phase3") /\ pfs
    BY <2>3 DEF Offered2
  <2>5. Flight(net'[r], recv'[r], <<>>) /\ m = <<Fresh(i), Fresh(r)>>
    BY <1>2, <1>t, <2>1, <2>4
  <2>6. send[r] = recv[i]
    BY <2>1, <2>4, Tuple0 DEF LastKey
  <2>7. send[i] = recv[r]
    <3>1. PICK x \in Ctls : x = Ke1(Fresh(i), recv[r]) /\ x.then = recv[r]
      BY <1>t, CtlTypes
    <3> QED BY <2>1, <2>4, <3>1, Tuple1 DEF LastKey
  <2>x. PICK x \in Ctls : x = Ke2(Fresh(r), recv[i]) /\ x.type = "ke2" /\ x.val = Fresh(r)
                          /\ x.then = recv[i]
    BY <1>t, CtlTypes
  <2>z. PICK z \in Ctls : z = RekeyDone(new) /\ z.type = "rekey_done" /\ z.val = 0 /\ z.then = new
    BY <1>t, CtlTypes
  <2>8. Flight(Append(net[i], o), recv[i], <<x>>) /\ Append(net[i], o) \in Seq(Packets)
    BY <1>3, <1>t, <1>p, <2>1, <2>4, <2>6, <2>x, SendCtl DEF To
  <2>9. Flight(net'[i], recv'[i], <<x, z>>)
    <3> DEFINE q == Append(net[i], o)
    <3>1. q \in Seq(Packets) /\ Flight(q, recv[i], <<x>>)
      BY <2>8
    <3> HIDE DEF q
    <3>2. p.key = x.then /\ p.type \notin Plain /\ z.type = p.type /\ z.val = p.val
      BY <1>3, <1>p, <2>6, <2>x, <2>z
    <3>3. Flight(Append(q, p), recv[i], <<x, z>>)
      BY <1>3, <1>t, <3>1, <3>2, SendCtl
    <3> QED BY <1>1, <3>3 DEF q
  <2>10. Answered(i, r, <<>>, <<x, z>>)'
    <3>1. \E w \in Values : /\ <<x, z>> = <<Ke2(w, recv'[i]), RekeyDone(R2I(m))>>
                            /\ m = <<Fresh(i)', w>>
      BY <1>1, <1>n, <1>t, <2>5, <2>x, <2>z DEF Fresh
    <3> QED BY <1>1, <2>4, <3>1 DEF Answered, At, New
  <2>11. /\ <<>> \in Seq(Ctls) /\ KeyAt(recv'[r], <<>>, Len(<<>>)) = recv'[r]
         /\ <<x, z>> \in Seq(Ctls) /\ KeyAt(recv'[i], <<x, z>>, Len(<<x, z>>)) = z.then
    BY DEF KeyAt
  <2> QED BY <1>1, <2>5, <2>7, <2>9, <2>10, <2>11, <2>z, BothNext DEF Phase
<1>5. ASSUME closed[i] PROVE Responder(r)'
  <2>1. PICK a \in Seq(Ctls) : To(r, a) /\ ResponderPhase(r, a)
    BY <1>e, <1>5, <1>h DEF Agreement, Responder
  <2>2. a # <<>>
    BY <1>t, <1>p, <1>h, <2>1, FlightHead DEF To
  <2>3. pfs /\ \E v \in Values : a = <<Ke1(v, recv[r])>>
    BY <1>h, <2>1, <2>2 DEF ResponderPhase, At
  <2>6. Flight(net'[r], recv'[r], <<>>)
    BY <1>2, <2>1, <2>3
  <2>7. <<>> \in Seq(Ctls) /\ ResponderPhase(r, <<>>)'
    BY <1>1 DEF ResponderPhase, At
  <2> QED BY <2>6, <2>7, AloneNext
<1> QED BY <1>1, <1>4, <1>5, <1>e, <1>h DEF Agreement

(* The responder gets REKEY_DONE and switches the key it reads with; the   *)
(* initiator may have started the next rekey meanwhile. *)
LEMMA ResponderDoneStep ==
  ASSUME NEW i \in End, FullType, Agreement(i, Far(i)), ~closed[Far(i)],
         At(Far(i), "end"), net[Far(i)] # <<>>, Head(net[Far(i)]).type = "rekey_done",
         ske' = [ske EXCEPT ![Far(i)] = NoSke],
         recv' = [recv EXCEPT ![Far(i)] = I2R(New(Far(i)))],
         mat' = [mat EXCEPT ![Far(i)] = New(Far(i))], net' = Rest(Far(i)),
         UNCHANGED <<pfs, send, closed, count>>
  PROVE  Agreement(i, Far(i))'
<1> DEFINE r == Far(i)
<1> HIDE DEF r
<1>e. Agreement(i, r) /\ r = Far(i) /\ i = Far(r) /\ r \in End /\ r # i
  BY Ends DEF r
<1>t. /\ recv[r] \in Keys /\ recv[i] \in Keys /\ send[i] \in Keys /\ send[r] \in Keys
      /\ net[r] \in Seq(Packets) /\ net[i] \in Seq(Packets)
      /\ Fresh(i) \in Values /\ Fresh(r) \in Values
      /\ mat[r] \in Materials /\ New(i) \in Materials /\ New(r) \in Materials /\ 0 \in Values
  BY <1>e, FreshType, KeyTypes DEF FullType, Skes, New
<1>p. "rekey_done" \notin Plain
  BY DEF Plain
<1>h. net[r] # <<>> /\ Head(net[r]).type = "rekey_done" /\ ~closed[r] /\ At(r, "end")
  BY <1>e
<1>n. PICK m \in Materials : m = New(r)
  BY <1>t
<1>k. PICK new \in Keys : new = I2R(m)
  BY <1>n, <1>t, KeyTypes
<1>z. PICK z \in Ctls : z = RekeyDone(new) /\ z.then = new
  BY <1>t, <1>k, CtlTypes
<1>y. PICK y \in Ctls : y = Rekey(new) /\ y.then = new
  BY <1>t, <1>k, CtlTypes
<1>1. /\ net'[r] = Tail(net[r]) /\ net'[i] = net[i]
      /\ ske'[r].at = "none" /\ ske'[i] = ske[i]
      /\ mat'[r] = m /\ mat'[i] = mat[i]
      /\ recv'[r] = new /\ recv'[i] = recv[i]
  BY <1>e, <1>n, <1>k DEF Rest, FullType, NoSke
<1>2. ASSUME To(r, <<z>>) PROVE Flight(net'[r], recv'[r], <<>>)
  <2>1. Flight(Tail(net[r]), z.then, <<>>)
    BY <1>2, <1>t, <1>p, <1>h, ReadCtl1 DEF To
  <2> QED BY <1>1, <1>z, <2>1
<1>3. ASSUME NEW x \in Ctls, To(r, <<z, y, x>>) PROVE Flight(net'[r], recv'[r], <<y, x>>)
  <2>1. Flight(Tail(net[r]), z.then, <<y, x>>)
    BY <1>3, <1>t, <1>p, <1>h, ReadCtl3 DEF To
  <2> QED BY <1>1, <1>z, <2>1
<1>4. ASSUME ~closed[i] PROVE Both(i, r)'
  <2>1. PICK a, b \in Seq(Ctls) :
               /\ To(r, a) /\ send[i] = LastKey(r, a)
               /\ To(i, b) /\ send[r] = LastKey(i, b)
               /\ Phase(i, r, a, b)
    BY <1>e, <1>4, <1>h DEF Agreement, Both
  <2>2. a # <<>>
    BY <1>t, <1>p, <1>h, <2>1, FlightHead DEF To
  <2>3. Flight(net'[i], recv'[i], b) /\ send'[r] = KeyAt(recv'[i], b, Len(b))
    BY <1>1, <2>1 DEF To, LastKey
  <2>4. \/ Between1(i, r, a, b) \/ Asked1(i, r, a, b) \/ Offered1(i, r, a, b)
        \/ Switching(i, r, a, b)
    BY <1>h, <2>1, <2>2 DEF Phase, Between0, Asked0, Offered0, Offered2, Answered,
                            Switched, At
  <2>5. CASE Between1(i, r, a, b) \/ Switching(i, r, a, b)
    <3>1. a = <<z>>
      BY <1>k, <1>n, <1>z, <2>5 DEF Between1, Switching
    <3>2. Flight(net'[r], recv'[r], <<>>)
      BY <1>2, <2>1, <3>1
    <3>3. send[i] = z.then
      BY <2>1, <3>1, Tuple1 DEF LastKey
    <3>4. /\ <<>> \in Seq(Ctls) /\ KeyAt(recv'[r], <<>>, Len(<<>>)) = recv'[r]
      BY Tuple0
    <3>5. Between0(i, r, <<>>, b)' \/ Switched(i, r, <<>>, b)'
      BY <1>1, <1>n, <2>5 DEF Between1, Switching, Between0, Switched, At, New
    <3> QED BY <1>1, <1>z, <2>1, <2>3, <3>2, <3>3, <3>4, <3>5, BothNext DEF Phase
  <2>6. CASE Asked1(i, r, a, b)
    <3>1. PICK x \in Ctls : x = RekeyDone(I2R(New(i))) /\ x.then = I2R(New(i))
      <4>1. I2R(New(i)) \in Keys
        BY <1>t, KeyTypes
      <4> QED BY <1>t, <4>1, CtlTypes
    <3>2. a = <<z, y, x>>
      BY <1>k, <1>n, <1>z, <1>y, <2>6, <3>1 DEF Asked1
    <3>3. Flight(net'[r], recv'[r], <<y, x>>)
      BY <1>3, <2>1, <3>2
    <3>4. send[i] = x.then
      <4>1. KeyAt(recv[r], <<z, y, x>>, Len(<<z, y, x>>)) = x.then
        BY DEF KeyAt
      <4> QED BY <2>1, <3>2, <4>1 DEF LastKey
    <3>5. <<y, x>> \in Seq(Ctls) /\ KeyAt(recv'[r], <<y, x>>, Len(<<y, x>>)) = x.then
      BY DEF KeyAt
    <3>6. Asked0(i, r, <<y, x>>, b)'
      BY <1>1, <1>n, <1>y, <2>6, <3>1 DEF Asked1, Asked0, At, New
    <3> QED BY <2>1, <2>3, <3>3, <3>4, <3>5, <3>6, BothNext DEF Phase
  <2>7. CASE Offered1(i, r, a, b)
    <3>1. PICK x \in Ctls : x = Ke1(Fresh(i), new) /\ x.then = new
      BY <1>t, CtlTypes, KeyTypes
    <3>2. a = <<z, y, x>>
      BY <1>k, <1>n, <1>z, <1>y, <2>7, <3>1 DEF Offered1
    <3>3. Flight(net'[r], recv'[r], <<y, x>>)
      BY <1>3, <2>1, <3>2
    <3>4. send[i] = x.then
      <4>1. KeyAt(recv[r], <<z, y, x>>, Len(<<z, y, x>>)) = x.then
        BY DEF KeyAt
      <4> QED BY <2>1, <3>2, <4>1 DEF LastKey
    <3>5. <<y, x>> \in Seq(Ctls) /\ KeyAt(recv'[r], <<y, x>>, Len(<<y, x>>)) = x.then
      BY DEF KeyAt
    <3>6. Offered0(i, r, <<y, x>>, b)'
      BY <1>1, <1>n, <1>y, <2>7, <3>1 DEF Offered1, Offered0, At, New, Fresh
    <3> QED BY <2>1, <2>3, <3>3, <3>4, <3>5, <3>6, BothNext DEF Phase
  <2> QED BY <2>4, <2>5, <2>6, <2>7
<1>5. ASSUME closed[i] PROVE Responder(r)'
  <2>1. PICK a \in Seq(Ctls) : To(r, a) /\ ResponderPhase(r, a)
    BY <1>e, <1>5, <1>h DEF Agreement, Responder
  <2>2. a # <<>>
    BY <1>t, <1>p, <1>h, <2>1, FlightHead DEF To
  <2>3. CASE a = <<RekeyDone(I2R(New(r)))>>
    <3>1. Flight(net'[r], recv'[r], <<>>)
      BY <1>2, <1>k, <1>n, <1>z, <2>1, <2>3
    <3>2. <<>> \in Seq(Ctls) /\ ResponderPhase(r, <<>>)'
      BY <1>1 DEF ResponderPhase, At
    <3> QED BY <3>1, <3>2, AloneNext
  <2>4. CASE /\ ~pfs
             /\ a = <<RekeyDone(I2R(New(r))), Rekey(I2R(New(r))),
                      RekeyDone(I2R(Append(New(r), 0)))>>
    <3>1. PICK x \in Ctls : x = RekeyDone(I2R(Append(m, 0)))
      <4>1. I2R(Append(m, 0)) \in Keys
        BY <1>t, KeyTypes
      <4> QED BY <1>t, <4>1, CtlTypes
    <3>2. Flight(net'[r], recv'[r], <<y, x>>)
      BY <1>3, <1>k, <1>n, <1>y, <1>z, <2>1, <2>4, <3>1
    <3>3. <<y, x>> \in Seq(Ctls) /\ ResponderPhase(r, <<y, x>>)'
      BY <1>1, <1>y, <2>4, <3>1 DEF ResponderPhase, At
    <3> QED BY <3>2, <3>3, AloneNext
  <2>5. CASE /\ pfs
             /\ \E v \in Values :
                  a = <<RekeyDone(I2R(New(r))), Rekey(I2R(New(r))), Ke1(v, I2R(New(r)))>>
    <3>0. PICK v \in Values :
            a = <<RekeyDone(I2R(New(r))), Rekey(I2R(New(r))), Ke1(v, I2R(New(r)))>>
      BY <2>5
    <3>1. PICK x \in Ctls : x = Ke1(v, new)
      BY <1>t, CtlTypes
    <3>2. Flight(net'[r], recv'[r], <<y, x>>)
      BY <1>3, <1>k, <1>n, <1>y, <1>z, <2>1, <3>0, <3>1
    <3>3. <<y, x>> \in Seq(Ctls) /\ ResponderPhase(r, <<y, x>>)'
      BY <1>1, <1>y, <2>5, <3>1 DEF ResponderPhase, At
    <3> QED BY <3>2, <3>3, AloneNext
  <2> QED BY <1>h, <2>1, <2>2, <2>3, <2>4, <2>5 DEF ResponderPhase, At
<1> QED BY <1>1, <1>4, <1>5, <1>e, <1>h DEF Agreement

-----------------------------------------------------------------------------
(* Roles and faults.                                                       *)

(* A FAILURE on its way tells of a fault. *)
Clean(q, f) == \A n \in 1..Len(q) : q[n].type = "failure" => f

(* Sending and reading keep that. *)
LEMMA CleanMoves ==
  ASSUME NEW q \in Seq(Packets), NEW f, Clean(q, f)
  PROVE  /\ \A p \in Packets : (p.type = "failure" => f) =>
                                 Clean(Append(q, p), f) /\ Append(q, p) \in Seq(Packets)
         /\ q # <<>> => Clean(Tail(q), f) /\ Tail(q) \in Seq(Packets)
         /\ Clean(<<>>, f)
BY DEF Clean

(* A fault is never taken back. *)
LEMMA CleanLater ==
  ASSUME NEW q, NEW f, NEW g, f => g, Clean(q, f)
  PROVE  Clean(q, g)
BY DEF Clean

(* An end closes because of a fault. *)
LEMMA CloseRoles ==
  ASSUME NEW i \in End, FullType, Roles(i, Far(i)), Faults, NEW e \in End, ~closed[e],
         NEW n \in [End -> Seq(Packets)], Shut(e, n), fault',
         Clean(n[Far(e)], fault')
  PROVE  Roles(i, Far(i))' /\ Faults'
<1>e. Far(e) \in End /\ Far(e) # e /\ Far(i) \in End /\ \A x \in End : x = e \/ x = Far(e)
  BY Ends
<1>1. /\ ske'[e] = NoSke /\ ske'[Far(e)] = ske[Far(e)]
      /\ due'[e] = "none" /\ due'[Far(e)] = due[Far(e)]
      /\ net'[e] = <<>> /\ net'[Far(e)] = n[Far(e)]
      /\ closed'[Far(e)] = closed[Far(e)]
  BY <1>e DEF Shut, FullType, FlagsOK
<1>2. NoSke.role = "none" /\ NoSke.at = "none" /\ ~NoSke.queued
  BY DEF NoSke
<1>3. Roles(i, Far(i))'
  <2>1. \A x \in End : /\ ske'[x] = NoSke \/ ske'[x] = ske[x]
                       /\ due'[x] = "none" \/ due'[x] = due[x]
    BY <1>e, <1>1
  <2>2. /\ ske'[i].role \in {"none", "ini"} /\ ske'[Far(i)].role \in {"none", "res"}
        /\ due'[i] \in {"none", "ini"} /\ due'[Far(i)] = "none"
    BY <1>e, <1>2, <2>1 DEF Roles
  <2>3. ASSUME NEW x \in End PROVE (closed[x] => ske[x].at = "none" /\ due[x] = "none")'
    BY <1>e, <1>1, <1>2 DEF Roles
  <2>4. ASSUME NEW x \in End PROVE (ske[x].queued => At(x, "start"))'
    BY <1>2, <2>1 DEF Roles, At
  <2> QED BY <2>2, <2>3, <2>4 DEF Roles
<1>4. Faults'
  BY <1>e, <1>1 DEF Faults, Clean
<1> QED BY <1>3, <1>4

(* A state function fails: FAILURE is sent and the connection closed. *)
LEMMA BreakStep ==
  ASSUME NEW i \in End, RekeyInv(i), NEW e \in End, ~closed[e],
         NEW n \in [End -> Seq(Packets)], n[Far(e)] = net[Far(e)],
         Error(e, n), fault' = TRUE
  PROVE  (Roles(i, Far(i)) /\ Faults /\ Agreement(i, Far(i)))'
<1>e. Far(e) \in End /\ Far(e) # e /\ Far(Far(e)) = e
  BY Ends
<1> DEFINE p == [type |-> "failure", key |-> send[e], val |-> 0]
<1>1. p \in Packets /\ p.type = "failure" /\ p.key = send[e]
  BY DEF RekeyInv, FullType, Packets, Types, Values
<1> HIDE DEF p
<1> DEFINE s == Sent(e, n, "failure", 0)
<1>2. s[Far(e)] = Append(net[Far(e)], p) /\ s \in [End -> Seq(Packets)]
  BY <1>1, <1>e DEF Sent, p
<1> HIDE DEF s
<1>3. Shut(e, s)
  BY DEF Error, s
<1>4. Slides(Far(e))
  <2>1. net'[Far(e)] = Append(net[Far(e)], p)
    BY <1>2, <1>3, <1>e DEF Shut
  <2>2. p.type \in Plain
    BY <1>1 DEF Plain
  <2> QED BY <1>1, <1>e, <2>1, <2>2 DEF Slides
<1>5. Agreement(i, Far(i))'
  BY <1>3, <1>4, CloseStep DEF Shut, RekeyInv
<1>6. Clean(s[Far(e)], fault')
  <2>1. net[Far(e)] \in Seq(Packets) /\ Clean(net[Far(e)], TRUE)
    BY <1>e DEF RekeyInv, FullType, Clean
  <2> QED BY <1>1, <1>2, <2>1, CleanMoves
<1>7. Roles(i, Far(i))' /\ Faults'
  BY <1>2, <1>3, <1>6, CloseRoles DEF RekeyInv
<1> QED BY <1>5, <1>7

(* The same of everything on its way. *)
CleanNet(n) == n \in [End -> Seq(Packets)] /\ \A x \in End : Clean(n[x], fault)

(* Nothing but the error states sends FAILURE. *)
LEMMA CleanSent ==
  ASSUME FullType, NEW e \in End, NEW n, CleanNet(n),
         NEW t \in Types \ {"failure"}, NEW v \in Values
  PROVE  CleanNet(Sent(e, n, t, v))
<1> DEFINE p == [type |-> t, key |-> send[e], val |-> v]
<1>1. p \in Packets /\ p.type # "failure"
  BY DEF FullType, Packets
<1> HIDE DEF p
<1>2. Sent(e, n, t, v) = [n EXCEPT ![Far(e)] = Append(n[Far(e)], p)]
  BY DEF Sent, p
<1>3. /\ Far(e) \in End /\ n[Far(e)] \in Seq(Packets) /\ Clean(n[Far(e)], fault)
      /\ n \in [End -> Seq(Packets)]
  BY Ends DEF CleanNet
<1>4. Clean(Append(n[Far(e)], p), fault) /\ Append(n[Far(e)], p) \in Seq(Packets)
  BY <1>1, <1>3, CleanMoves
<1> QED BY <1>2, <1>3, <1>4 DEF CleanNet

(* Reading a packet. *)
LEMMA CleanRest ==
  ASSUME FullType, Faults, NEW e \in End
  PROVE  CleanNet(net) /\ (net[e] # <<>> => CleanNet(Rest(e)))
<1>1. CleanNet(net)
  BY DEF CleanNet, FullType, Faults, Clean
<1>2. ASSUME net[e] # <<>> PROVE CleanNet(Rest(e))
  <2>1. Clean(Tail(net[e]), fault) /\ Tail(net[e]) \in Seq(Packets)
    BY <1>1, <1>2, CleanMoves DEF CleanNet
  <2> QED BY <1>1, <2>1 DEF CleanNet, Rest
<1> QED BY <1>1, <1>2

(* The role that belongs to an end. *)
RoleOf(e, i) == IF e = i THEN "ini" ELSE "res"

(* A step of the rekey of one end. *)
LEMMA WorkRoles ==
  ASSUME NEW i \in End, FullType, Roles(i, Far(i)), Faults, NEW e \in End, ~closed[e],
         NEW k, ske' = [ske EXCEPT ![e] = k], k.role \in {"none", RoleOf(e, i)}, ~k.queued,
         UNCHANGED <<due, closed, fault>>, CleanNet(net')
  PROVE  Roles(i, Far(i))' /\ Faults'
<1>e. Far(i) \in End /\ Far(i) # i /\ \A x \in End : x = i \/ x = Far(i)
  BY Ends
<1>1. ske'[e] = k /\ \A x \in End : x # e => ske'[x] = ske[x]
  BY DEF FullType
<1>2. Roles(i, Far(i))'
  <2>1. ske'[i].role \in {"none", "ini"}
    BY <1>1 DEF Roles, RoleOf
  <2>2. ske'[Far(i)].role \in {"none", "res"}
    BY <1>1, <1>e DEF Roles, RoleOf
  <2>3. ASSUME NEW x \in End PROVE (closed[x] => ske[x].at = "none" /\ due[x] = "none")'
    BY <1>1 DEF Roles
  <2>4. ASSUME NEW x \in End PROVE (ske[x].queued => At(x, "start"))'
    BY <1>1 DEF Roles, At
  <2>5. due'[i] \in {"none", "ini"} /\ due'[Far(i)] = "none"
    BY DEF Roles
  <2> QED BY <2>1, <2>2, <2>3, <2>4, <2>5 DEF Roles
<1>3. Faults'
  BY DEF Faults, CleanNet, Clean
<1> QED BY <1>2, <1>3

(* Waiting for a packet is such a step. *)
LEMMA WaitsRoles ==
  ASSUME NEW i \in End, FullType, Roles(i, Far(i)), Faults, NEW e \in End, ~closed[e],
         NEW n, CleanNet(n), NEW k \in Skes, k.role = RoleOf(e, i), ~k.queued, UNCHANGED fault,
         Waits(e, k, n)
  PROVE  Roles(i, Far(i))' /\ Faults'
BY WorkRoles DEF Waits

(* So is sending REKEY_DONE. *)
LEMMA DoneRoles ==
  ASSUME NEW i \in End, FullType, Roles(i, Far(i)), Faults, NEW e \in End, ~closed[e],
         NEW n, CleanNet(n), NEW k \in Skes, k.role = RoleOf(e, i), ~k.queued, UNCHANGED fault,
         NEW m \in Materials, Done(e, k, n, m)
  PROVE  Roles(i, Far(i))' /\ Faults'
<1> DEFINE d == [k EXCEPT !.at = "end", !.keymat = m]
<1>1. d.role = k.role /\ d.queued = k.queued
  BY DEF Skes
<1>2. ske' = [ske EXCEPT ![e] = d] /\ UNCHANGED <<due, closed>>
  BY DEF Done
<1> HIDE DEF d
<1>3. net' = Sent(e, n, "rekey_done", 0)
  BY DEF Done, DoneKey, Sent
<1>4. "rekey_done" \in Types \ {"failure"} /\ 0 \in Values
  BY DEF Types, Values
<1>5. CleanNet(net')
  BY <1>3, <1>4, CleanSent
<1> QED BY <1>1, <1>2, <1>5, WorkRoles

-----------------------------------------------------------------------------
(* The actions.                                                            *)

(* The parts of the invariant besides the types. *)
Kept(i) == Roles(i, Far(i)) /\ Faults /\ Agreement(i, Far(i))

(* The queued task is the start of the initiator. *)
LEMMA QueuedRunInv ==
  ASSUME NEW i \in End, RekeyInv(i), NEW e \in End, QueuedRun(e)
  PROVE  Kept(i)'
<1> DEFINE k == [ske[e] EXCEPT !.queued = FALSE]
<1>t. FullType /\ Roles(i, Far(i)) /\ Faults /\ Agreement(i, Far(i))
  BY DEF RekeyInv
<1>0. At(e, "start") /\ ske[e] \in Skes /\ RoleFits(ske[e]) /\ ~closed[e]
  BY <1>t DEF QueuedRun, Roles, FullType, At
<1>1. k \in Skes /\ k.role = "ini" /\ k.at = "start" /\ ~k.queued
  BY <1>0 DEF Skes, RoleFits, At
<1>2. Run(e, k, net)
  BY DEF QueuedRun
<1> HIDE DEF k
<1>3. e = i
  BY <1>0, <1>t, Ends DEF Roles, RoleFits, At
<1>4. CleanNet(net) /\ net \in [End -> Seq(Packets)]
  BY <1>t, CleanRest DEF CleanNet
<1>5. CASE Error(e, net) /\ fault' = TRUE
  BY <1>0, <1>4, <1>5, BreakStep DEF Kept
<1>6. CASE StateFunction(e, k, net) /\ UNCHANGED fault
  <2>1. InitiatorStart(i, k, net)
    BY <1>1, <1>3, <1>6 DEF StateFunction
  <2>2. Agreement(i, Far(i))'
    BY <1>0, <1>1, <1>3, <1>t, <2>1, AskStep
  <2>3. /\ "rekey" \in Types \ {"failure"} /\ "ke1" \in Types \ {"failure"}
        /\ 0 \in Values /\ Fresh(i) \in Values
    BY <1>t, FreshType DEF Types, Values
  <2> DEFINE asked == Sent(i, net, "rekey", 0)
  <2> DEFINE offered == Sent(i, asked, "ke1", Fresh(i))
  <2>4. CleanNet(asked) /\ CleanNet(offered)
    <3>1. CleanNet(asked)
      BY <1>4, <1>t, <2>3, CleanSent
    <3> HIDE DEF asked
    <3> QED BY <1>t, <2>3, <3>1, CleanSent
  <2> HIDE DEF asked, offered
  <2>5. CASE pfs
    <3> DEFINE w == [k EXCEPT !.at = "phase3"]
    <3>1. Waits(i, w, offered)
      BY <2>1, <2>5 DEF InitiatorStart, asked, offered
    <3>2. w \in Skes /\ w.role = "ini" /\ ~w.queued
      BY <1>1 DEF Skes, SkeStates
    <3> HIDE DEF w
    <3>3. Roles(i, Far(i))' /\ Faults'
      BY <1>0, <1>3, <1>6, <1>t, <2>4, <3>1, <3>2, WaitsRoles DEF RoleOf
    <3> QED BY <2>2, <3>3 DEF Kept
  <2>6. CASE ~pfs
    <3>1. PICK m \in Materials : m = Material(i, k, 0)
      BY <1>1, <1>t, <2>3, MaterialType
    <3>2. Done(i, k, asked, m)
      BY <2>1, <2>6, <3>1 DEF InitiatorStart, asked
    <3>3. Roles(i, Far(i))' /\ Faults'
      BY <1>0, <1>1, <1>3, <1>6, <1>t, <2>4, <3>2, DoneRoles DEF RoleOf
    <3> QED BY <2>2, <3>3 DEF Kept
  <2> QED BY <2>5, <2>6
<1> QED BY <1>2, <1>5, <1>6 DEF Run

(* A packet of the rekey under way: it is the one the end waits for. *)
LEMMA ReceiveInv ==
  ASSUME NEW i \in End, RekeyInv(i), NEW e \in End, Receive(e)
  PROVE  Kept(i)'
<1> DEFINE k == [ske[e] EXCEPT !.packet = Head(net[e]).type, !.val = Head(net[e]).val]
<1> DEFINE n == Rest(e)
<1>t. FullType /\ Roles(i, Far(i)) /\ Faults /\ Agreement(i, Far(i))
  BY DEF RekeyInv
<1>0. /\ ske[e] \in Skes /\ RoleFits(ske[e]) /\ ~closed[e] /\ net[e] # <<>>
      /\ net[e] \in Seq(Packets) /\ ske[e].role # "none"
  BY <1>t DEF Receive, Read, FullType
<1>h. Head(net[e]).type \in Types /\ Head(net[e]).val \in Values
  <2>1. Head(net[e]) \in Packets
    BY <1>0
  <2> QED BY <2>1 DEF Packets
<1>1. /\ k \in Skes /\ k.role = ske[e].role /\ k.at = ske[e].at
      /\ k.queued = ske[e].queued /\ k.packet = Head(net[e]).type
      /\ k.val = Head(net[e]).val /\ k.keymat = New(e)
  BY <1>0, <1>h DEF Skes, New
<1>2. Run(e, k, n)
  BY DEF Receive
<1> HIDE DEF k
<1>3. Head(net[e]).type \notin Plain
  BY DEF Receive, Linked, Plain
<1>4. CleanNet(n) /\ n \in [End -> Seq(Packets)] /\ n[Far(e)] = net[Far(e)]
  BY <1>0, <1>t, CleanRest, Ends DEF CleanNet, Rest, FullType
<1>x. \/ e = i /\ At(e, "phase3") /\ k.packet = "ke2"
      \/ e # i /\ At(e, "phase2") /\ k.packet = "ke1"
      \/ At(e, "end") /\ k.packet = "rekey_done"
  BY <1>0, <1>1, <1>3, <1>t, Expected DEF RoleFits, At
<1>r. k.role = RoleOf(e, i) /\ ~k.queued /\ (e # i => e = Far(i))
  BY <1>0, <1>1, <1>x, <1>t, Ends DEF Roles, RoleOf, At
<1>m. Material(e, k, k.val) \in Materials
  BY <1>1, <1>t, MaterialType DEF Skes
<1>5. CASE Error(e, n) /\ fault' = TRUE
  BY <1>0, <1>4, <1>5, BreakStep DEF Kept
<1>6. CASE StateFunction(e, k, n) /\ UNCHANGED fault
  <2> DEFINE d == [k EXCEPT !.packet = "none"]
  <2>d. d \in Skes /\ d.role = RoleOf(e, i) /\ ~d.queued
    BY <1>1, <1>r DEF Skes
  <2>1. CASE e = i /\ At(e, "phase3") /\ k.packet = "ke2"
    <3>1. Done(e, d, n, Material(e, k, k.val))
      BY <1>1, <1>6, <2>1 DEF StateFunction, InitiatorPhase3, At
    <3>2. Agreement(i, Far(i))'
      BY <1>0, <1>1, <1>r, <1>t, <2>1, <3>1, Ke2Step DEF RoleOf
    <3> HIDE DEF d
    <3>3. Roles(i, Far(i))' /\ Faults'
      BY <1>0, <1>4, <1>6, <1>m, <1>t, <2>d, <3>1, DoneRoles
    <3> QED BY <3>2, <3>3 DEF Kept
  <2>2. CASE e # i /\ At(e, "phase2") /\ k.packet = "ke1"
    <3>1. Done(e, d, Sent(e, n, "ke2", Fresh(e)), Material(e, k, k.val))
      BY <1>1, <1>6, <2>2 DEF StateFunction, ResponderPhase2, At
    <3>2. Agreement(i, Far(i))'
      BY <1>0, <1>1, <1>r, <1>t, <2>2, <3>1, Ke1Step DEF RoleOf
    <3> HIDE DEF d
    <3>3. "ke2" \in Types \ {"failure"} /\ Fresh(e) \in Values
      BY <1>t, FreshType DEF Types
    <3>4. CleanNet(Sent(e, n, "ke2", Fresh(e)))
      BY <1>4, <1>t, <3>3, CleanSent
    <3>5. Roles(i, Far(i))' /\ Faults'
      BY <1>0, <1>6, <1>m, <1>t, <2>d, <3>1, <3>4, DoneRoles
    <3> QED BY <3>2, <3>5 DEF Kept
  <2>3. CASE At(e, "end") /\ k.packet = "rekey_done"
    <3>1. /\ recv' = [recv EXCEPT ![e] = Key(New(e), RecvDir(k.role))]
          /\ mat' = [mat EXCEPT ![e] = New(e)]
          /\ ske' = [ske EXCEPT ![e] = NoSke]
          /\ net' = n
          /\ UNCHANGED <<pfs, due, send, closed, count>>
      BY <1>1, <1>6, <2>3 DEF StateFunction, RekeyEnd, ReceiveKey, At
    <3>2. Agreement(i, Far(i))'
      <4>1. CASE e = i
        <5>1. recv' = [recv EXCEPT ![i] = R2I(New(i))]
          BY <1>r, <3>1, <4>1 DEF RoleOf, RecvDir, R2I
        <5> QED BY <1>0, <1>1, <1>t, <2>3, <3>1, <4>1, <5>1, InitiatorDoneStep
      <4>2. CASE e = Far(i)
        <5>0. e # i
          BY <4>2, Ends
        <5>1. recv' = [recv EXCEPT ![e] = I2R(New(e))]
          BY <1>r, <3>1, <5>0 DEF RoleOf, RecvDir, I2R
        <5> QED BY <1>0, <1>1, <1>t, <2>3, <3>1, <4>2, <5>1, ResponderDoneStep
      <4> QED BY <1>r, <4>1, <4>2
    <3>3. NoSke.role = "none" /\ ~NoSke.queued
      BY DEF NoSke
    <3>4. Roles(i, Far(i))' /\ Faults'
      BY <1>0, <1>4, <1>6, <1>t, <3>1, <3>3, WorkRoles
    <3> QED BY <3>2, <3>4 DEF Kept
  <2> QED BY <1>x, <2>1, <2>2, <2>3
<1> QED BY <1>2, <1>5, <1>6 DEF Run

(* A REKEY packet while there is no rekey: it comes to the responder. *)
LEMMA ReceiveRekeyInv ==
  ASSUME NEW i, OneInitiator(i), RekeyInv(i), NEW e \in End, ReceiveRekey(e)
  PROVE  Kept(i)'
<1> DEFINE k == [NoSke EXCEPT !.role = "res", !.at = "wait", !.packet = "rekey"]
<1> DEFINE n == Rest(e)
<1>t. FullType /\ Roles(i, Far(i)) /\ Faults /\ Agreement(i, Far(i)) /\ i \in End
  BY DEF RekeyInv, OneInitiator
<1>0. /\ RoleFits(ske[e]) /\ ~closed[e] /\ net[e] # <<>>
      /\ Head(net[e]).type = "rekey" /\ ske[e].role = "none" /\ At(e, "none")
  BY <1>t DEF ReceiveRekey, Read, FullType, RoleFits, At
<1>1. "rekey" \notin Plain
  BY DEF Plain
<1>2. e # i
  BY <1>0, <1>1, <1>t, Expected
<1>3. e = Far(i) /\ e \in Hands
  BY <1>2, <1>t, Ends DEF OneInitiator
<1>4. CleanNet(n) /\ n \in [End -> Seq(Packets)] /\ n[Far(e)] = net[Far(e)]
  BY <1>0, <1>t, CleanRest, Ends DEF CleanNet, Rest, FullType
<1>5. k \in Skes /\ k.role = "res" /\ ~k.queued /\ k.at = "wait" /\ k.packet = "rekey"
  <2>1. 0 \in Values /\ <<>> \in Materials /\ "wait" \in SkeStates /\ "rekey" \in Types
    BY DEF SkeStates, Types, Values, Materials
  <2>2. NoSke \in Skes /\ ~NoSke.queued
    BY <2>1 DEF NoSke, Skes, SkeStates
  <2> QED BY <2>1, <2>2 DEF Skes
<1>6. Run(e, k, n)
  BY <1>3 DEF ReceiveRekey
<1> HIDE DEF k
<1>7. CASE Error(e, n) /\ fault' = TRUE
  BY <1>0, <1>4, <1>7, <1>t, BreakStep DEF Kept
<1>8. CASE StateFunction(e, k, n) /\ UNCHANGED fault
  <2>1. ResponderStart(e, k, n)
    BY <1>5, <1>8 DEF StateFunction
  <2>2. CASE pfs
    <3> DEFINE w == [k EXCEPT !.at = "phase2"]
    <3>1. Waits(e, w, n)
      BY <1>5, <2>1, <2>2 DEF ResponderStart
    <3>2. w \in Skes /\ w.role = "res" /\ ~w.queued
      BY <1>5 DEF Skes, SkeStates
    <3>3. Agreement(i, Far(i))'
      BY <1>0, <1>3, <1>5, <1>t, <2>2, <3>1, RekeyPfsStep DEF Waits
    <3> HIDE DEF w
    <3>4. Roles(i, Far(i))' /\ Faults'
      BY <1>0, <1>2, <1>4, <1>8, <1>t, <3>1, <3>2, WaitsRoles DEF RoleOf
    <3> QED BY <3>3, <3>4 DEF Kept
  <2>3. CASE ~pfs
    <3>1. PICK m \in Materials : m = Append(mat[e], 0)
      <4>1. mat[e] \in Materials /\ 0 \in Values
        BY <1>t DEF FullType, Values
      <4> QED BY <4>1, KeyTypes
    <3>2. Done(e, k, n, m)
      BY <1>5, <2>1, <2>3, <3>1 DEF ResponderStart, Material
    <3>3. Agreement(i, Far(i))'
      BY <1>0, <1>3, <1>5, <1>t, <2>3, <3>1, <3>2, RekeyPlainStep
    <3>4. Roles(i, Far(i))' /\ Faults'
      BY <1>0, <1>2, <1>4, <1>5, <1>8, <1>t, <3>2, DoneRoles DEF RoleOf
    <3> QED BY <3>3, <3>4 DEF Kept
  <2> QED BY <2>2, <2>3
<1> QED BY <1>6, <1>7, <1>8 DEF Run

(* A step that only moves data and FAILURE packets. *)
LEMMA SlideInv ==
  ASSUME NEW i \in End, RekeyInv(i), CleanNet(net'),
         UNCHANGED <<pfs, due, ske, mat, send, recv, closed, fault>>,
         Fresh(i)' = Fresh(i), Slides(i), Slides(Far(i))
  PROVE  Kept(i)'
<1>1. Agreement(i, Far(i))'
  BY DataStep DEF RekeyInv
<1>2. Roles(i, Far(i))'
  BY DEF RekeyInv, Roles, At
<1>3. Faults'
  BY DEF RekeyInv, Faults, CleanNet, Clean
<1> QED BY <1>1, <1>2, <1>3 DEF Kept

(* The application sends a packet. *)
LEMMA DataInv ==
  ASSUME NEW i \in End, RekeyInv(i), NEW e \in End, Data(e)
  PROVE  Kept(i)'
<1>t. FullType /\ Faults
  BY DEF RekeyInv
<1>e. Far(e) \in End /\ Far(e) # e /\ Far(Far(e)) = e /\ (i = e \/ i = Far(e))
  BY Ends
<1> DEFINE p == [type |-> "data", key |-> send[e], val |-> 0]
<1>1. p \in Packets /\ p.type = "data" /\ p.key = send[e]
  BY <1>t DEF FullType, Packets, Types, Values
<1>2. net'[Far(e)] = Append(net[Far(e)], p) /\ net'[e] = net[e]
  BY <1>e, <1>t DEF Data, Sent, FullType
<1> HIDE DEF p
<1>3. Slides(e)
  BY <1>2 DEF Slides
<1>4. Slides(Far(e))
  <2>1. p.type \in Plain /\ ~closed[e]
    BY <1>1 DEF Plain, Data
  <2> QED BY <1>1, <1>2, <1>e, <2>1 DEF Slides
<1>5. "data" \in Types \ {"failure"} /\ 0 \in Values
  BY DEF Types, Values
<1>6. CleanNet(net')
  BY <1>5, <1>t, CleanRest, CleanSent DEF Data
<1>7. Fresh(i)' = Fresh(i)
  <2>1. \A x \in End : count'[x].rekeys = count[x].rekeys
    BY <1>t DEF Data, FullType
  <2> QED BY <2>1 DEF Fresh, End
<1>8. Slides(i) /\ Slides(Far(i))
  BY <1>3, <1>4, <1>e
<1> QED BY <1>6, <1>7, <1>8, SlideInv DEF Data

(* A packet for the application, or a FAILURE, is read. *)
LEMMA PlainInv ==
  ASSUME NEW i \in End, RekeyInv(i), NEW e \in End, net[e] # <<>>,
         Head(net[e]).type \in Plain, net' = Rest(e),
         UNCHANGED <<pfs, due, ske, mat, send, recv, closed, fault, count>>
  PROVE  Kept(i)'
<1>t. FullType /\ Faults
  BY DEF RekeyInv
<1>e. Far(e) \in End /\ Far(e) # e /\ ((i = e /\ Far(i) = Far(e)) \/ (i = Far(e) /\ Far(i) = e))
  BY Ends
<1>1. net'[e] = Tail(net[e]) /\ net'[Far(e)] = net[Far(e)]
  BY <1>e, <1>t DEF Rest, FullType
<1>2. Slides(e) /\ Slides(Far(e))
  BY <1>1 DEF Slides
<1>3. CleanNet(net')
  BY <1>t, CleanRest
<1> QED BY <1>2, <1>3, <1>e, SlideInv DEF Fresh

(* Packets of other types: no control packet is among them. *)
LEMMA ReceiveOtherInv ==
  ASSUME NEW i \in End, RekeyInv(i), NEW e \in End, ReceiveOther(e)
  PROVE  Kept(i)'
<1>t. FullType /\ Roles(i, Far(i)) /\ Agreement(i, Far(i)) /\ RoleFits(ske[e])
  BY DEF RekeyInv, FullType
<1>0. ~closed[e] /\ net[e] # <<>>
  BY DEF ReceiveOther, Read
<1>1. Head(net[e]).type \in Plain
  <2> SUFFICES ASSUME Head(net[e]).type \notin Plain PROVE FALSE
    OBVIOUS
  <2>1. /\ e = i => \/ At(e, "phase3") /\ Head(net[e]).type = "ke2"
                    \/ At(e, "end") /\ Head(net[e]).type = "rekey_done"
        /\ e # i => \/ At(e, "none") /\ Head(net[e]).type = "rekey"
                    \/ At(e, "phase2") /\ Head(net[e]).type = "ke1"
                    \/ At(e, "end") /\ Head(net[e]).type = "rekey_done"
    BY <1>0, <1>t, Expected
  <2>2. ske[e].role = "none" \/ Head(net[e]).type \notin Linked(ske[e].role)
    BY DEF ReceiveOther
  <2>3. Head(net[e]).type # "rekey"
    BY DEF ReceiveOther
  <2> QED BY <1>t, <2>1, <2>2, <2>3 DEF At, RoleFits, Linked
<1> QED BY <1>0, <1>1, PlainInv DEF ReceiveOther

(* The end of a connection: a FAILURE, a timeout or the end of the stream. *)
LEMMA ShutInv ==
  ASSUME NEW i \in End, RekeyInv(i), NEW e \in End, ~closed[e],
         NEW n \in [End -> Seq(Packets)], n[Far(e)] = net[Far(e)], Shut(e, n),
         fault', fault => fault'
  PROVE  Kept(i)'
<1>e. Far(e) \in End /\ Far(e) # e
  BY Ends
<1>1. net'[Far(e)] = net[Far(e)]
  BY <1>e DEF Shut
<1>2. Agreement(i, Far(i))'
  BY <1>1, CloseStep DEF Slides, Shut, RekeyInv
<1>3. Clean(n[Far(e)], fault')
  BY DEF Clean
<1>4. Roles(i, Far(i))' /\ Faults'
  BY <1>3, CloseRoles DEF RekeyInv
<1> QED BY <1>2, <1>4 DEF Kept

(* The rekey timer and the start of the initiator. *)
LEMMA StartInv ==
  ASSUME NEW i, OneInitiator(i), RekeyInv(i), NEW e \in End, RekeyTimer(e) \/ StRekey(e)
  PROVE  Kept(i)'
<1>t. FullType /\ Roles(i, Far(i)) /\ Faults /\ Agreement(i, Far(i)) /\ i \in End
  BY DEF RekeyInv, OneInitiator
<1>e. Far(i) \in End /\ Far(i) # i /\ \A x \in End : x = i \/ x = Far(i)
  BY <1>t, Ends
<1>1. e = i
  BY <1>e, <1>t DEF OneInitiator, RekeyTimer, StRekey, Roles
<1>2. At(i, "none") /\ ~closed[i]
  BY <1>1, <1>t DEF RekeyTimer, StRekey, FullType, RoleFits, At, Roles
<1>3. Faults'
  BY <1>t DEF RekeyTimer, StRekey, Faults
<1>4. CASE RekeyTimer(e)
  <2>1. due'[i] = "ini" /\ due'[Far(i)] = due[Far(i)] /\ UNCHANGED <<ske, closed>>
    BY <1>1, <1>4, <1>e, <1>t DEF RekeyTimer, FullType
  <2>2. Agreement(i, Far(i))'
    BY <1>2, <1>4, <1>t, <2>1, BeginStep DEF RekeyTimer, At
  <2>3. Roles(i, Far(i))'
    BY <1>2, <1>e, <1>t, <2>1 DEF Roles, At
  <2> QED BY <1>3, <2>2, <2>3 DEF Kept
<1>5. CASE StRekey(e)
  <2>0. due[i] = "ini"
    BY <1>1, <1>5, <1>t DEF StRekey, Roles
  <2>1. /\ due'[i] = "none" /\ due'[Far(i)] = due[Far(i)] /\ UNCHANGED closed
        /\ ske'[i].role = "ini" /\ ske'[i].at = "start"
        /\ ske'[Far(i)] = ske[Far(i)]
    BY <1>1, <1>5, <1>e, <1>t, <2>0 DEF StRekey, FullType, FirstState, NoSke
  <2>2. Agreement(i, Far(i))'
    BY <1>2, <1>5, <1>t, <2>1, BeginStep DEF StRekey
  <2>3. Roles(i, Far(i))'
    BY <1>2, <1>e, <1>t, <2>1 DEF Roles, At
  <2> QED BY <1>3, <2>2, <2>3 DEF Kept
<1> QED BY <1>4, <1>5

(* Every step keeps the invariant. *)
LEMMA RekeyInvNext ==
  ASSUME NEW i, OneInitiator(i), RekeyInv(i), [Next]_vars
  PROVE  RekeyInv(i)'
<1>t. FullType /\ Roles(i, Far(i)) /\ Faults /\ Agreement(i, Far(i)) /\ i \in End
  BY DEF RekeyInv, OneInitiator
<1>1. FullType'
  BY <1>t, TypeNext
<1>2. Kept(i)'
  <2>1. CASE UNCHANGED vars
    <3>1. Slides(i) /\ Slides(Far(i)) /\ Fresh(i)' = Fresh(i)
      BY <2>1 DEF Slides, vars, Fresh
    <3>2. CleanNet(net')
      BY <1>t, <2>1, CleanRest DEF vars
    <3> QED BY <1>t, <2>1, <3>1, <3>2, SlideInv DEF vars
  <2>2. ASSUME NEW e \in End, Data(e) PROVE Kept(i)'
    BY <1>t, <2>2, DataInv
  <2>3. ASSUME NEW e \in End, RekeyTimer(e) \/ StRekey(e) PROVE Kept(i)'
    BY <2>3, StartInv
  <2>4. ASSUME NEW e \in End, QueuedRun(e) PROVE Kept(i)'
    BY <1>t, <2>4, QueuedRunInv
  <2>5. ASSUME NEW e \in End, Receive(e) PROVE Kept(i)'
    BY <1>t, <2>5, ReceiveInv
  <2>6. ASSUME NEW e \in End, ReceiveFailure(e) PROVE Kept(i)'
    <3>1. ~closed[e] /\ net[e] # <<>> /\ Head(net[e]).type = "failure"
      BY <2>6 DEF ReceiveFailure, Read
    <3>2. fault
      <4>1. Len(net[e]) >= 1 /\ Head(net[e]) = net[e][1]
        BY <1>t, <3>1 DEF FullType
      <4> QED BY <1>t, <3>1, <4>1 DEF Faults, FullType
    <3>3. CASE ske[e].role # "none"
      <4>1. /\ Rest(e) \in [End -> Seq(Packets)] /\ Rest(e)[Far(e)] = net[Far(e)]
        BY <1>t, <3>1, Ends, CleanRest DEF Rest, FullType, CleanNet
      <4>2. Shut(e, Rest(e)) /\ UNCHANGED fault
        BY <2>6, <3>3 DEF ReceiveFailure
      <4> QED BY <1>t, <3>1, <3>2, <4>1, <4>2, ShutInv
    <3>4. CASE ske[e].role = "none"
      <4>1. Head(net[e]).type \in Plain
        BY <3>1 DEF Plain
      <4> QED BY <1>t, <2>6, <3>1, <3>4, <4>1, PlainInv DEF ReceiveFailure
    <3> QED BY <3>3, <3>4
  <2>7. ASSUME NEW e \in End, ReceiveRekey(e) PROVE Kept(i)'
    BY <2>7, ReceiveRekeyInv
  <2>8. ASSUME NEW e \in End, ReceiveOther(e) PROVE Kept(i)'
    BY <1>t, <2>8, ReceiveOtherInv
  <2>9. ASSUME NEW e \in End, Timeout(e) \/ Eos(e) PROVE Kept(i)'
    <3>1. ~closed[e] /\ Shut(e, net) /\ net \in [End -> Seq(Packets)]
      BY <1>t, <2>9 DEF Timeout, Eos, FullType
    <3>2. fault' /\ (fault => fault')
      BY <1>t, <2>9, Ends DEF Timeout, Eos, Faults
    <3> QED BY <1>t, <3>1, <3>2, ShutInv
  <2> QED BY <2>1, <2>2, <2>3, <2>4, <2>5, <2>6, <2>7, <2>8, <2>9 DEF Next
<1> QED BY <1>1, <1>2 DEF Kept, RekeyInv

(* After the key exchange nothing is on its way and both ends have the     *)
(* same material. *)
LEMMA RekeyInvInit ==
  ASSUME NEW i, OneInitiator(i), Init
  PROVE  RekeyInv(i)
<1>t. FullType /\ i \in End /\ Far(i) \in End /\ Far(i) # i
  BY TypeInit, Ends DEF OneInitiator
<1>1. /\ \A e \in End : /\ net[e] = <<>> /\ mat[e] = <<0>> /\ ~closed[e]
                        /\ due[e] = "none" /\ ske[e] = NoSke
      /\ \A e \in End : send[Far(e)] = recv[e]
  BY DEF Init, End, Far
<1>2. NoSke.role = "none" /\ NoSke.at = "none" /\ ~NoSke.queued
  BY DEF NoSke
<1>3. Roles(i, Far(i)) /\ Faults
  BY <1>1, <1>2, <1>t DEF Roles, Faults, At
<1>4. \A e \in End : To(e, <<>>) /\ send[Far(e)] = LastKey(e, <<>>)
  BY <1>1, FlightNothing DEF To, LastKey, KeyAt
<1>5. Between0(i, Far(i), <<>>, <<>>)
  BY <1>1, <1>2, <1>t DEF Between0, At
<1>6. Both(i, Far(i))
  <2>1. <<>> \in Seq(Ctls)
    OBVIOUS
  <2>2. Far(Far(i)) = i
    BY <1>t, Ends
  <2> QED BY <1>4, <1>5, <1>t, <2>1, <2>2 DEF Both, Phase
<1> QED BY <1>1, <1>3, <1>6, <1>t DEF Agreement, RekeyInv

(* The invariant means that the ends are in step. *)
LEMMA RekeyInvInStep ==
  ASSUME NEW i, OneInitiator(i), RekeyInv(i)
  PROVE  InStep /\ SurvivesRekey
<1>t. FullType /\ Agreement(i, Far(i)) /\ Faults /\ i \in End /\ Far(i) \in End
  BY Ends DEF RekeyInv, OneInitiator
<1>e. \A e \in End : e = i \/ e = Far(i)
  BY <1>t, Ends
<1>1. ASSUME NEW e \in End, ~closed[e], net[e] # <<>> PROVE Head(net[e]).key = recv[e]
  <2>1. PICK c \in Seq(Ctls) : To(e, c)
    <3>1. CASE ~closed[i] /\ ~closed[Far(i)]
      BY <1>e, <1>t, <3>1 DEF Agreement, Both
    <3>2. CASE closed[i] \/ closed[Far(i)]
      BY <1>1, <1>e, <1>t, <3>2 DEF Agreement, Responder, Initiator
    <3> QED BY <3>1, <3>2
  <2> QED BY <1>1, <1>t, <2>1, FlightHead DEF To, FullType
<1>2. ASSUME ~closed[i], ~closed[Far(i)], \A x \in End : net[x] = <<>>,
             \A x \in End : ske[x].role = "none"
      PROVE  /\ recv[i] = send[Far(i)] /\ recv[Far(i)] = send[i]
             /\ mat[i] = mat[Far(i)]
  <2>1. PICK a, b \in Seq(Ctls) :
               /\ To(Far(i), a) /\ send[i] = LastKey(Far(i), a)
               /\ To(i, b) /\ send[Far(i)] = LastKey(i, b)
               /\ Phase(i, Far(i), a, b)
    BY <1>2, <1>t DEF Agreement, Both
  <2>2. a = <<>> /\ b = <<>>
    BY <1>2, <1>t, <2>1, FlightEmpty DEF To
  <2>3. At(i, "none") /\ At(Far(i), "none")
    BY <1>2, <1>t DEF FullType, RoleFits, At
  <2>4. Between0(i, Far(i), a, b)
    BY <2>1, <2>3 DEF Phase, Between1, Asked0, Asked1, Offered0, Offered1, Offered2,
                      Answered, Switching, Switched, At
  <2> QED BY <2>1, <2>2, <2>4 DEF Between0, LastKey, KeyAt
<1>3. InStep
  <2> SUFFICES ASSUME NEW e \in End, ~closed[e], net = [x \in End |-> <<>>], ~closed[Far(e)],
                      \A x \in End : ske[x].role = "none"
               PROVE  recv[e] = send[Far(e)] /\ mat[e] = mat[Far(e)]
    BY <1>1 DEF InStep
  <2>1. \A x \in End : net[x] = <<>>
    OBVIOUS
  <2>2. ~closed[i] /\ ~closed[Far(i)] /\ (e = i \/ (e = Far(i) /\ Far(e) = i))
    BY <1>e, <1>t, Ends
  <2> QED BY <1>2, <2>1, <2>2
<1>4. SurvivesRekey
  BY <1>t DEF Faults, SurvivesRekey
<1> QED BY <1>3, <1>4

-----------------------------------------------------------------------------
(* Every packet is read with the key it was protected with and the ends    *)
(* have the same material between two rekeys, whatever the number of       *)
(* rekeys and of packets sent meanwhile, with PFS or without: REKEY_DONE   *)
(* goes out before silc_packet_set_keys switches the sending key, and the  *)
(* responder may be asked for the next rekey before it has seen the end of *)
(* the last.                                                               *)
THEOREM RekeyInStep ==
  ASSUME NEW CONSTANT i, OneInitiator(i)
  PROVE  Spec => []InStep
<1>1. Init => RekeyInv(i)
  BY RekeyInvInit
<1>2. RekeyInv(i) /\ [Next]_vars => RekeyInv(i)'
  BY RekeyInvNext
<1>3. RekeyInv(i) => InStep
  BY RekeyInvInStep
<1> QED BY <1>1, <1>2, <1>3, PTL DEF Spec

(* silc_client_rekey_completion closes the connection only after a step    *)
(* has failed or somebody has closed it: no state of the rekey meets a     *)
(* packet it does not want. *)
THEOREM RekeySurvives ==
  ASSUME NEW CONSTANT i, OneInitiator(i)
  PROVE  Spec => []SurvivesRekey
<1>1. Init => RekeyInv(i)
  BY RekeyInvInit
<1>2. RekeyInv(i) /\ [Next]_vars => RekeyInv(i)'
  BY RekeyInvNext
<1>3. RekeyInv(i) => SurvivesRekey
  BY RekeyInvInStep
<1> QED BY <1>1, <1>2, <1>3, PTL DEF Spec
=============================================================================
