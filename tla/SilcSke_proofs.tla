--------------------------- MODULE SilcSke_proofs ---------------------------
(***************************************************************************)
(* Proofs about SilcSke, for every kind of exchange and every number of    *)
(* retransmissions.  BaseInv holds in every state.  SkeInv, which says     *)
(* where both sides are and what is on its way between them, holds until   *)
(* the program breaks or leaves the protocol: an answer comes too late, a  *)
(* datagram overtakes a verification, or phase 3 leaves by its error       *)
(* return.  The history variable says when that is (Led).                  *)
(***************************************************************************)
EXTENDS SilcSke, SequenceTheorems, TLAPS

-----------------------------------------------------------------------------
(* The SKE of one side: k is the SKE of side s, r says that its state      *)
(* functions run, p is the kind of exchange.                               *)

ParType == [udp : BOOLEAN, prop : BOOLEAN, no_acks : BOOLEAN, verify : SUBSET Side,
            guarded : BOOLEAN]
SkeType ==
  [next : States, started : BOOLEAN, run : Nat, fin : BOOLEAN,
   packet : Packets \cup {"none"}, ok : BOOLEAN, notified : BOOLEAN, aborted : BOOLEAN,
   linked : BOOLEAN, timers : SUBSET {"timeout", "probe", "retry"}, retry : 0..RetryCount,
   retrans : Packets \cup {"none"}, refcnt : 0..2, owned : BOOLEAN,
   verdict : {"none", "asked", "yes", "no", "late"}, told : Seq(BOOLEAN)]

Working == {"start", "phase1", "phase2", "phase3", "phase4", "phase5", "end"}

(* The states that read a packet.                                          *)
Reads(s, k, p) ==
  \/ k.next \in {"phase1", "phase3"}
  \/ k.next = "phase2" /\ s = "res"
  \/ k.next = "end" /\ ~p.no_acks

(* Not started yet; taking part in the exchange, with no failure and no    *)
(* abort noticed; and done.                                                *)
Fresh(k) == ~k.started /\ k.told = <<>> /\ ~k.aborted
Active(k) == k.started /\ ~k.notified /\ k.next \in Working
Silent(k) == ~k.started /\ ~Fresh(k)

(* References, what runs, and what ends.                                   *)
Lives(k, r) ==
  /\ r => k.started
  /\ Fresh(k) => k = Idle
  /\ k.fin => k.told # <<>> \/ k.aborted
  /\ k.started => ~k.fin /\ k.told = <<>> /\ k.linked
  /\ ~k.started => ~k.linked /\ k.timers = {} /\ k.run = 0
  /\ k.refcnt = (IF k.owned THEN 1 ELSE 0) + (IF k.started \/ k.fin THEN 1 ELSE 0)
  /\ k.told \in {<<>>, <<TRUE>>, <<FALSE>>}
  /\ k.aborted => k.told = <<>>
  /\ k.started /\ ~k.owned => r /\ k.notified

(* The state function that runs next.                                      *)
Where(s, k, r, p) ==
  k.started =>
    /\ \/ Active(k)
       \/ k.next = "failure" /\ k.notified
       \/ k.next = "error" /\ r /\ ~k.ok
       \/ k.next = "aborted" /\ r /\ k.aborted
    /\ s = "ini" => k.next # "phase5"
    /\ s = "res" => k.next # "phase3"
    /\ p.prop => k.next # "phase1" /\ (s = "ini" => k.next # "start")

(* The wakeups of an SKE: each for its reason.                             *)
Woken(s, k, r, p) ==
  /\ k.started /\ k.notified /\ ~r => k.packet = "failure" /\ k.run > 0
  /\ k.verdict = "asked" => k.run < 2
  /\ r /\ k.packet = "success" => ~k.aborted
  /\ k.packet = "failure" => k.notified
  /\ Active(k) =>
    /\ ~r /\ k.next = "start" => k.run = IF k.packet = "none" THEN 1 ELSE 2
    /\ ~r /\ Reads(s, k, p) => k.run = IF k.packet = "none" THEN 0 ELSE 1
    /\ ~r \/ (s = "res" /\ k.next = "start") => k.packet # "success"
    /\ ~r /\ k.next = "phase2" /\ s = "ini" => p.prop /\ k.run = 1
    /\ ~r /\ k.next = "phase4" =>
         \/ k.verdict = "asked" /\ k.run = 0
         \/ k.verdict \in {"yes", "no"} /\ k.run = 1
    /\ ~r => k.next # "phase5" /\ (k.next = "end" => ~p.no_acks)
    /\ r /\ ~(s = "res" /\ k.next = "start") => k.run = 0
    /\ r /\ s = "res" /\ k.next = "start" => k.run = IF k.packet = "none" THEN 0 ELSE 1
    /\ r /\ Reads(s, k, p) => k.packet # "none"
    /\ r /\ k.next = "phase4" => k.verdict # "asked"
    /\ ~Reads(s, k, p) /\ ~(s = "res" /\ k.next = "start") => k.packet = "none"

(* The verification, and what it means for the result.                     *)
Verified(s, k, r, p) ==
  /\ Active(k) /\ k.next = "phase4" /\ s \in p.verify =>
       k.verdict \notin {"none", "late"} /\ (k.verdict = "no" => ~k.ok)
  /\ Active(k) /\ k.next \in {"phase5", "end"} =>
       k.ok /\ (s \in p.verify => k.verdict = "yes")
  /\ k.told = <<TRUE>> /\ s \in p.verify => k.verdict = "yes"
  /\ k.verdict = "asked" /\ Active(k) => k.next = "phase4" /\ ~r
  /\ k.verdict = "asked" /\ k.owned /\ k.told = <<>> /\ ~k.aborted
       => k.started /\ (k.notified \/ k.next = "phase4")

(* What is sent again: the responder does not repeat its SUCCESS.          *)
Resends(s, k, p) ==
  /\ "retry" \in k.timers => k.retrans # "none" /\ p.udp
  /\ s = "res" => k.retrans # "success"

Local(s, k, r, p) ==
  /\ Lives(k, r) /\ Where(s, k, r, p) /\ Woken(s, k, r, p) /\ Verified(s, k, r, p)
  /\ Resends(s, k, p)

-----------------------------------------------------------------------------
(* Both sides.                                                             *)

(* The responder has told success before the initiator hears of it.        *)
Confirmed(p, i, r, n) ==
  /\ (\E j \in DOMAIN n : n[j] = "success") \/ i.packet = "success" => r.told = <<TRUE>>
  /\ ~p.no_acks /\ i.told = <<TRUE>> => r.told = <<TRUE>>

(* Over a stream: the packet x on its way in n, or received.               *)
OneOf(n, k, x) == (n = <<x>> /\ k.packet = "none") \/ (n = <<>> /\ k.packet = x)

(* The responder has not answered anything yet.                            *)
First(p) == IF p.prop THEN "ke1" ELSE "ke"
Early(k, p) ==
  \/ Fresh(k)
  \/ Active(k) /\ k.next \in {"start", IF p.prop THEN "phase2" ELSE "phase1"}
Takes(k) == Fresh(k) \/ Active(k)

(* Both exchange: they take turns.                                         *)
Turns(p, i, r, ni, nr) ==
  \/ /\ (Fresh(i) \/ i.next = (IF p.prop THEN "phase2" ELSE "start")) /\ Early(r, p)
     /\ ni = <<>> /\ nr = <<>> /\ r.packet = "none"
  \/ /\ i.next = (IF p.prop THEN "phase3" ELSE "phase1") /\ Early(r, p)
     /\ ni = <<>> /\ i.packet = "none" /\ OneOf(nr, r, First(p))
  \/ /\ ~p.prop /\ i.next = "phase1" /\ r.next = "phase2"
     /\ nr = <<>> /\ r.packet = "none" /\ OneOf(ni, i, "ke")
  \/ /\ ~p.prop /\ i.next = "phase2" /\ r.next = "phase2"
     /\ ni = <<>> /\ nr = <<>> /\ r.packet = "none"
  \/ /\ ~p.prop /\ i.next = "phase3" /\ r.next = "phase2"
     /\ ni = <<>> /\ i.packet = "none" /\ OneOf(nr, r, "ke1")
  \/ /\ i.next = "phase3" /\ r.next \in {"phase4", "phase5"}
     /\ ni = <<>> /\ nr = <<>> /\ i.packet = "none"
  \/ /\ i.next = "phase3" /\ r.next = "end"
     /\ nr = <<>> /\ r.packet = "none" /\ OneOf(ni, i, "ke2")
  \/ /\ ~p.no_acks /\ i.next = "phase4" /\ r.next = "end"
     /\ ni = <<>> /\ nr = <<>> /\ r.packet = "none"
  \/ /\ ~p.no_acks /\ i.next = "end" /\ r.next = "end"
     /\ ni = <<>> /\ i.packet = "none" /\ OneOf(nr, r, "success")

(* The packets that side s may wait for, whatever the other side does.     *)
Awaits(s, k, p, x) ==
  \/ s = "ini" /\ k.next = "phase1" /\ x = "ke"
  \/ s = "ini" /\ k.next = "phase3" /\ x = "ke2"
  \/ s = "res" /\ (Fresh(k) \/ k.next = "start") /\ x = First(p)
  \/ s = "res" /\ k.next = "phase1" /\ x = "ke"
  \/ s = "res" /\ k.next = "phase2" /\ x = "ke1"
  \/ k.next = "end" /\ ~p.no_acks /\ x = "success"

(* What is on its way to side s: what it waits for, and a failure behind.  *)
Inbox(s, k, p, n) ==
  \/ n = <<>> \/ n = <<"failure">>
  \/ /\ k.packet = "none"
     /\ \E x \in Packets : Awaits(s, k, p, x) /\ (n = <<x>> \/ n = <<x, "failure">>)

NoFailure(n) == \A j \in DOMAIN n : n[j] # "failure"

(* A failure is the last that a side sends.                                *)
Last(k, o, n) ==
  /\ ~Silent(o) => NoFailure(n)
  /\ k.started /\ k.packet = "failure" => n = <<>> /\ Silent(o)

(* A responder that is early has heard nothing, or the first packet, or    *)
(* that the initiator has given up before it.                              *)
NotAhead(p, i, r, ni, nr) ==
  Early(r, p) =>
    /\ ni = <<>>
    /\ OneOf(nr, r, First(p)) \/ (r.packet = "none" /\ (nr = <<>> \/ nr = <<"failure">>))
    /\ i.started /\ i.next \in {"error", "aborted"} => nr = <<>> /\ r.packet = "none"

InStream(p, i, r, ni, nr) ==
  ~p.udp =>
    /\ Takes(i) /\ Takes(r) => Turns(p, i, r, ni, nr)
    /\ Takes(i) => Inbox("ini", i, p, ni)
    /\ Takes(r) => Inbox("res", r, p, nr)
    /\ Last(i, r, ni) /\ Last(r, i, nr)
    /\ NotAhead(p, i, r, ni, nr)

FullType ==
  /\ par \in Params /\ par \in ParType /\ ~(par.udp /\ par.guarded)
  /\ running \in Side \cup {"none"}
  /\ net \in [Side -> Seq(Packets)]
  /\ ske \in [Side -> SkeType]

SkeInv ==
  /\ FullType
  /\ \A s \in Side : Local(s, ske[s], running = s, par)
  /\ Confirmed(par, ske["ini"], ske["res"], net["ini"])
  /\ InStream(par, ske["ini"], ske["res"], net["ini"], net["res"])

-----------------------------------------------------------------------------
(* Lemmas about the SKE of one side.                                       *)

(* What no step of a started SKE but its end changes.                      *)
Same(k, m) ==
  /\ m.started <=> k.started
  /\ m.fin <=> k.fin
  /\ m.linked <=> k.linked
  /\ m.told = k.told

(* A started SKE that gives up, and whose state function for that runs:    *)
(* silc_ske_notify_failure, or the states error and aborted.               *)
LEMMA GivesUp ==
  ASSUME NEW s \in Side, NEW k \in SkeType, NEW m \in SkeType, NEW p \in ParType,
         NEW r \in BOOLEAN, Local(s, k, r, p), k.started, Same(k, m),
         m.refcnt = (IF m.owned THEN 1 ELSE 0) + 1,
         \/ m.next = "failure" /\ m.notified
         \/ m.next = "error" /\ ~m.ok /\ r
         \/ m.next = "aborted" /\ m.aborted,
         m.packet # "success", m.packet = "failure" => m.notified,
         m.run = k.run, m.verdict = k.verdict,
         m.owned => k.owned, ~m.owned => m.notified, k.aborted => m.aborted, r => Active(k),
         Resends(s, m, p)
  PROVE  Local(s, m, TRUE, p)
<1>1. k.told = <<>> /\ ~k.fin /\ k.linked
  BY DEF Local, Lives
<1>2. ~Active(m) /\ ~Fresh(m)
  BY <1>1 DEF Active, Fresh, Same, Working, SkeType
<1>3. Lives(m, TRUE)
  BY <1>1, <1>2 DEF Lives, Same, SkeType
<1>4. Where(s, m, TRUE, p)
  BY DEF Where
<1>5. Woken(s, m, TRUE, p)
  BY <1>2 DEF Woken, Local
<1>6. m.verdict = "asked" /\ m.owned /\ m.told = <<>> /\ ~m.aborted
        => m.started /\ (m.notified \/ m.next = "phase4")
  BY <1>1 DEF Local, Verified, Woken, Same, Active
<1>7. Verified(s, m, TRUE, p)
  BY <1>1, <1>2, <1>6 DEF Verified, Same
<1> QED
  BY <1>3, <1>4, <1>5, <1>7 DEF Local

(* A state function that goes on: to a state that reads a packet and waits *)
(* for it, to one that runs at once, or to wait for the application.       *)
LEMMA GoesOn ==
  ASSUME NEW s \in Side, NEW k \in SkeType, NEW m \in SkeType, NEW p \in ParType,
         NEW r \in BOOLEAN, Local(s, k, TRUE, p), Active(k), Same(k, m),
         ~(s = "res" /\ k.next = "start"), ~(s = "res" /\ m.next = "start"),
         m.refcnt = k.refcnt, m.owned <=> k.owned, m.aborted <=> k.aborted,
         m.notified <=> k.notified, m.run = k.run, m.packet = "none",
         m.next \in Working, s = "ini" => m.next # "phase5", s = "res" => m.next # "phase3",
         p.prop => m.next # "phase1" /\ (s = "ini" => m.next # "start"),
         r => ~Reads(s, m, p) /\ m.verdict # "asked",
         ~r => Reads(s, m, p) \/ (m.next = "phase4" /\ m.verdict = "asked"),
         m.verdict = "asked" => m.next = "phase4",
         m.next = "phase4" /\ s \in p.verify =>
           m.verdict \notin {"none", "late"} /\ (m.verdict = "no" => ~m.ok),
         m.next \in {"phase5", "end"} => m.ok /\ (s \in p.verify => m.verdict = "yes"),
         Resends(s, m, p)
  PROVE  Local(s, m, r, p)
<1>1. k.told = <<>> /\ ~k.fin /\ k.linked /\ k.started /\ ~k.notified /\ k.run = 0
  BY DEF Local, Lives, Active, Woken
<1>2. Active(m) /\ ~Fresh(m)
  BY <1>1 DEF Active, Fresh, Same
<1>3. Lives(m, r)
  BY <1>1, <1>2 DEF Lives, Same, SkeType, Local
<1>4. Where(s, m, r, p)
  BY <1>2 DEF Where
<1>5. Woken(s, m, r, p)
  BY <1>1, <1>2 DEF Woken, Reads, Side, Active, Working
<1>7. Verified(s, m, r, p)
  BY <1>1, <1>2 DEF Verified, Same
<1> QED
  BY <1>3, <1>4, <1>5, <1>7 DEF Local

(* The fields of an SKE that has finished.                                 *)
LEMMA FinishedFields ==
  ASSUME NEW k \in SkeType, k.told = <<>>
  PROVE  /\ Finished(k) \in SkeType /\ Finished(k).timers = {} /\ Finished(k).packet = "none"
         /\ Finished(k).run = 0 /\ Finished(k).refcnt = k.refcnt
         /\ Finished(k).verdict = k.verdict /\ Finished(k).retrans = k.retrans
         /\ Finished(k).told = IF k.aborted THEN <<>> ELSE <<k.ok>>
         /\ ~Finished(k).linked /\ ~Finished(k).started /\ Finished(k).fin
         /\ Finished(k).aborted <=> k.aborted
         /\ Finished(k).owned <=> k.owned
         /\ Finished(k).told \in {<<>>, <<TRUE>>, <<FALSE>>}
         /\ Finished(k).told = <<TRUE>> => k.ok /\ ~k.aborted
         /\ Finished(k).told = <<>> => k.aborted
<1> DEFINE m == Finished(k)
<1>1. k.ok \in BOOLEAN /\ <<k.ok>> \in Seq(BOOLEAN) /\ Append(<<>>, k.ok) = <<k.ok>>
  BY DEF SkeType
<1>2. <<k.ok>> \in {<<TRUE>>, <<FALSE>>} /\ (<<k.ok>> = <<TRUE>> => k.ok) /\ <<k.ok>> # <<>>
  BY <1>1
<1>3. m \in SkeType
  <2> DEFINE told == IF k.aborted THEN k.told ELSE Append(k.told, k.ok)
         c == [k EXCEPT !.linked = FALSE, !.timers = {}, !.packet = "none"]
         d == [c EXCEPT !.told = told, !.started = FALSE]
  <2>1. told \in Seq(BOOLEAN)
    <3>1. k.told \in Seq(BOOLEAN) /\ Append(k.told, k.ok) = <<k.ok>>
      BY <1>1 DEF SkeType
    <3> QED
      BY <1>1, <3>1
  <2>2. c \in SkeType
    BY DEF SkeType
  <2> HIDE DEF told, c
  <2>3. d \in SkeType
    BY <2>1, <2>2 DEF SkeType
  <2> HIDE DEF d
  <2>4. 0 \in 0..2
    OBVIOUS
  <2>5. [d EXCEPT !.run = 0, !.fin = TRUE] \in SkeType
    BY <2>3, <2>4 DEF SkeType
  <2> QED
    BY <2>5 DEF Finished, told, c, d, SkeType
<1>4. /\ m.timers = {} /\ m.packet = "none" /\ m.run = 0 /\ m.refcnt = k.refcnt
      /\ m.verdict = k.verdict /\ m.retrans = k.retrans
      /\ m.told = IF k.aborted THEN <<>> ELSE <<k.ok>>
  BY <1>1 DEF SkeType, Finished
<1>5. ~m.linked /\ ~m.started /\ m.fin /\ (m.aborted <=> k.aborted) /\ (m.owned <=> k.owned)
  BY DEF SkeType, Finished
<1> HIDE DEF m
<1>6. /\ m.told = <<TRUE>> => k.ok /\ ~k.aborted
      /\ m.told = <<>> => k.aborted
      /\ m.told \in {<<>>, <<TRUE>>, <<FALSE>>}
  <2>1. CASE k.aborted
    BY <1>4, <2>1, <<>> # <<TRUE>>
  <2>2. CASE ~k.aborted
    BY <1>2, <1>4, <2>2
  <2> QED
    BY <2>1, <2>2
<1> QED
  BY <1>3, <1>4, <1>5, <1>6 DEF m

(* The end of a state function that unlinks, tells the owner and finishes. *)
LEMMA Ends ==
  ASSUME NEW s \in Side, NEW k \in SkeType, NEW p \in ParType,
         k.started, ~k.fin, k.told = <<>>, k.refcnt = (IF k.owned THEN 1 ELSE 0) + 1,
         k.ok /\ ~k.aborted /\ s \in p.verify => k.verdict = "yes",
         s = "res" => k.retrans # "success"
  PROVE  /\ Finished(k) \in SkeType /\ Local(s, Finished(k), FALSE, p) /\ Silent(Finished(k))
         /\ Finished(k).packet = "none"
         /\ Finished(k).told = IF k.aborted THEN <<>> ELSE <<k.ok>>
<1> DEFINE m == Finished(k)
<1>1. /\ m \in SkeType /\ m.timers = {} /\ m.packet = "none" /\ m.run = 0
      /\ m.refcnt = k.refcnt /\ m.verdict = k.verdict /\ m.retrans = k.retrans
      /\ m.told = IF k.aborted THEN <<>> ELSE <<k.ok>>
      /\ m.told \in {<<>>, <<TRUE>>, <<FALSE>>}
  BY FinishedFields
<1>2. /\ ~m.linked /\ ~m.started /\ m.fin /\ (m.aborted <=> k.aborted) /\ (m.owned <=> k.owned)
      /\ m.told = <<TRUE>> => k.ok /\ ~k.aborted
      /\ m.told = <<>> => k.aborted
  BY FinishedFields
<1> HIDE DEF m
<1>3. ~Fresh(m) /\ ~Active(m)
  BY <1>1, <1>2 DEF Fresh, Active
<1>4. Lives(m, FALSE)
  BY <1>1, <1>2, <1>3 DEF Lives, SkeType
<1>5. Where(s, m, FALSE, p) /\ Woken(s, m, FALSE, p)
  BY <1>1, <1>2, <1>3 DEF Where, Woken
<1>6. Verified(s, m, FALSE, p)
  BY <1>1, <1>2, <1>3 DEF Verified
<1>7. Resends(s, m, p)
  BY <1>1 DEF Resends
<1> QED
  BY <1>1, <1>2, <1>3, <1>4, <1>5, <1>6, <1>7 DEF m, Local, Silent

(* A packet that a state function will read: silc_ske_packet_receive.      *)
LEMMA Receives ==
  ASSUME NEW s \in Side, NEW k \in SkeType, NEW m \in SkeType, NEW p \in ParType,
         NEW r \in BOOLEAN, Local(s, k, FALSE, p), Active(k), Same(k, m),
         m.next = k.next, m.refcnt = k.refcnt, m.owned <=> k.owned, m.aborted <=> k.aborted,
         m.ok <=> k.ok, m.notified <=> k.notified, m.verdict = k.verdict,
         Reads(s, k, p) \/ (s = "res" /\ k.next = "start" /\ ~r),
         k.packet = "none", m.packet \in Packets \ {"failure"},
         r <=> m.packet = "success", r => ~k.aborted /\ m.run = k.run, ~r => m.run = k.run + 1,
         Resends(s, m, p)
  PROVE  Local(s, m, r, p)
<1>1. k.told = <<>> /\ ~k.fin /\ k.linked /\ k.started /\ ~k.notified /\ k.owned
  BY DEF Local, Lives, Active
<1>2. Active(m) /\ ~Fresh(m)
  BY <1>1 DEF Active, Fresh, Same
<1>3. Lives(m, r)
  BY <1>1, <1>2 DEF Lives, Same, SkeType, Local
<1>4. Where(s, m, r, p)
  BY <1>1, <1>2 DEF Where, Local
<1>5. k.verdict # "asked"
  BY DEF Local, Verified, Reads
<1>6. k.run = IF k.next = "start" THEN 1 ELSE 0
  BY DEF Local, Woken, Reads
<1>7. Woken(s, m, r, p)
  BY <1>1, <1>2, <1>5, <1>6 DEF Woken, Reads, Packets, Side, Local, SkeType
<1>8. Verified(s, m, r, p)
  BY <1>1, <1>2, <1>5 DEF Verified, Same, Local
<1> QED
  BY <1>3, <1>4, <1>7, <1>8 DEF Local

(* The FAILURE packet of the other side, received.                         *)
LEMMA IsTold ==
  ASSUME NEW s \in Side, NEW k \in SkeType, NEW m \in SkeType, NEW p \in ParType,
         Local(s, k, FALSE, p), Active(k), Same(k, m),
         m.next = "failure", m.refcnt = k.refcnt, m.owned <=> k.owned, m.aborted <=> k.aborted,
         m.notified, m.verdict = k.verdict,
         m.packet = "failure", m.run = k.run + 1,
         Resends(s, m, p)
  PROVE  Local(s, m, FALSE, p)
<1>1. k.told = <<>> /\ ~k.fin /\ k.linked /\ k.started /\ ~k.notified /\ k.owned
  BY DEF Local, Lives, Active
<1>2. ~Active(m) /\ ~Fresh(m)
  BY <1>1 DEF Active, Fresh, Same
<1>3. Lives(m, FALSE)
  BY <1>1, <1>2 DEF Lives, Same, SkeType, Local
<1>4. Where(s, m, FALSE, p)
  BY <1>2 DEF Where, Local
<1>5. k.verdict = "asked" => k.run = 0
  BY DEF Local, Verified, Woken
<1>7. Woken(s, m, FALSE, p)
  BY <1>1, <1>2, <1>5 DEF Woken, SkeType
<1>8. Verified(s, m, FALSE, p)
  BY <1>1, <1>2 DEF Verified, Same, Local
<1> QED
  BY <1>3, <1>4, <1>7, <1>8 DEF Local

(* silc_ske_initiator, silc_ske_responder.                                 *)
LEMMA Starts ==
  ASSUME NEW s \in Side, NEW m \in SkeType, NEW p \in ParType,
         m.next = (IF s = "ini" /\ p.prop THEN "phase2" ELSE "start"),
         m.started, m.linked, ~m.fin, ~m.notified, ~m.aborted, m.owned,
         m.run = 1, m.refcnt = 2, m.packet = "none", m.told = <<>>, m.verdict = "none",
         Resends(s, m, p)
  PROVE  Local(s, m, FALSE, p) /\ Active(m)
<1>1. Active(m) /\ ~Fresh(m)
  BY DEF Active, Fresh, Working
<1>2. Lives(m, FALSE)
  BY <1>1 DEF Lives
<1>3. Where(s, m, FALSE, p)
  BY <1>1 DEF Where, Side
<1>4. ~Reads(s, m, p)
  BY DEF Reads, Side
<1>5. Woken(s, m, FALSE, p)
  BY <1>1, <1>4 DEF Woken, Side
<1>6. Verified(s, m, FALSE, p)
  BY <1>1 DEF Verified
<1> QED
  BY <1>1, <1>2, <1>3, <1>5, <1>6 DEF Local

(* The first state of the responder: it waits for the first packet, which  *)
(* may have come already.                                                  *)
LEMMA StartsToWait ==
  ASSUME NEW k \in SkeType, NEW m \in SkeType, NEW p \in ParType,
         Local("res", k, TRUE, p), Active(k), Same(k, m), k.next = "start",
         k.packet # "success",
         m.next = (IF p.prop THEN "phase2" ELSE "phase1"),
         m.refcnt = k.refcnt, m.owned <=> k.owned, m.aborted <=> k.aborted,
         m.notified <=> k.notified, m.run = k.run, m.packet = k.packet, m.verdict = k.verdict,
         Resends("res", m, p)
  PROVE  Local("res", m, FALSE, p)
<1>1. k.told = <<>> /\ ~k.fin /\ k.linked /\ k.started /\ ~k.notified /\ k.owned
  BY DEF Local, Lives, Active
<1>2. Active(m) /\ ~Fresh(m)
  BY <1>1 DEF Active, Fresh, Same, Working
<1>3. Lives(m, FALSE)
  BY <1>1, <1>2 DEF Lives, Same, SkeType, Local
<1>4. Where("res", m, FALSE, p)
  BY <1>1, <1>2 DEF Where, Local
<1>5. k.verdict # "asked"
  BY DEF Local, Verified
<1>6. k.run = IF k.packet = "none" THEN 0 ELSE 1
  BY DEF Local, Woken
<1>7. Woken("res", m, FALSE, p)
  BY <1>1, <1>2, <1>5, <1>6 DEF Woken, Reads, Local
<1>8. Verified("res", m, FALSE, p)
  BY <1>1, <1>2, <1>5 DEF Verified, Same, Local
<1> QED
  BY <1>3, <1>4, <1>7, <1>8 DEF Local

(* What happens to a started SKE that does not run and leaves it where it  *)
(* is: its retransmission timer, an abort.                                 *)
LEMMA Stays ==
  ASSUME NEW s \in Side, NEW k \in SkeType, NEW m \in SkeType, NEW p \in ParType,
         Local(s, k, FALSE, p), k.started, Same(k, m),
         m.next = k.next, m.refcnt = k.refcnt, m.owned <=> k.owned, k.aborted => m.aborted,
         m.ok <=> k.ok, m.notified <=> k.notified, m.verdict = k.verdict,
         m.packet = k.packet, m.run = k.run, Resends(s, m, p)
  PROVE  Local(s, m, FALSE, p)
<1>1. k.told = <<>> /\ ~k.fin /\ k.linked /\ k.owned
  BY DEF Local, Lives
<1>2. (Active(m) <=> Active(k)) /\ ~Fresh(m)
  BY <1>1 DEF Active, Fresh, Same
<1>3. Lives(m, FALSE)
  BY <1>1, <1>2 DEF Lives, Same, SkeType, Local
<1>4. Where(s, m, FALSE, p)
  BY <1>1, <1>2 DEF Where, Local
<1>5. Reads(s, m, p) <=> Reads(s, k, p)
  BY DEF Reads
<1>7. Woken(s, m, FALSE, p)
  BY <1>1, <1>2, <1>5 DEF Woken, Local
<1>8. Verified(s, m, FALSE, p)
  BY <1>1, <1>2 DEF Verified, Same, Local
<1> QED
  BY <1>3, <1>4, <1>7, <1>8 DEF Local

(* silc_ske_pk_verified.                                                   *)
LEMMA IsAnswered ==
  ASSUME NEW s \in Side, NEW k \in SkeType, NEW m \in SkeType, NEW p \in ParType,
         Local(s, k, FALSE, p), k.started, Same(k, m), k.verdict = "asked",
         m.next = k.next, m.refcnt = k.refcnt, m.owned <=> k.owned, m.aborted <=> k.aborted,
         m.notified <=> k.notified, m.verdict = IF m.ok THEN "yes" ELSE "no",
         m.packet = k.packet, m.run = k.run + 1, Resends(s, m, p)
  PROVE  Local(s, m, FALSE, p)
<1>1. k.told = <<>> /\ ~k.fin /\ k.linked /\ k.owned
  BY DEF Local, Lives
<1>2. (Active(m) <=> Active(k)) /\ ~Fresh(m)
  BY <1>1 DEF Active, Fresh, Same
<1>3. Lives(m, FALSE)
  BY <1>1, <1>2 DEF Lives, Same, SkeType, Local
<1>4. Where(s, m, FALSE, p)
  BY <1>1, <1>2 DEF Where, Local
<1>5. Active(k) => k.next = "phase4" /\ k.run = 0 /\ k.packet = "none"
  BY DEF Local, Verified, Woken, Reads
<1>6. m.verdict \in {"yes", "no"} /\ (m.verdict = "no" => ~m.ok)
  OBVIOUS
<1>7. Woken(s, m, FALSE, p)
  BY <1>1, <1>2, <1>5, <1>6 DEF Woken, Local, Reads, SkeType
<1>8. Verified(s, m, FALSE, p)
  BY <1>1, <1>2, <1>5, <1>6 DEF Verified, Same
<1> QED
  BY <1>3, <1>4, <1>7, <1>8 DEF Local

(* silc_fsm_run: a queued run of a state function.                         *)
LEMMA IsRun ==
  ASSUME NEW s \in Side, NEW k \in SkeType, NEW m \in SkeType, NEW p \in ParType,
         Local(s, k, FALSE, p), k.run > 0, Same(k, m),
         m.next = k.next, m.refcnt = k.refcnt, m.owned <=> k.owned, m.aborted <=> k.aborted,
         m.ok <=> k.ok, m.notified <=> k.notified, m.verdict = k.verdict,
         m.packet = k.packet, m.run = k.run - 1, Resends(s, m, p)
  PROVE  Local(s, m, TRUE, p)
<1>1. k.started /\ k.told = <<>> /\ ~k.fin /\ k.linked /\ k.owned
  BY DEF Local, Lives
<1>2. (Active(m) <=> Active(k)) /\ ~Fresh(m)
  BY <1>1 DEF Active, Fresh, Same
<1>3. Lives(m, TRUE)
  BY <1>1, <1>2 DEF Lives, Same, SkeType, Local
<1>4. Where(s, m, TRUE, p)
  BY <1>1, <1>2 DEF Where, Local
<1>5. Reads(s, m, p) <=> Reads(s, k, p)
  BY DEF Reads
<1>6. k.packet # "success"
  BY <1>1 DEF Local, Woken, Where
<1>a. Active(k) => k.verdict # "asked"
  BY DEF Local, Verified, Woken
<1>7. Woken(s, m, TRUE, p)
  BY <1>1, <1>2, <1>5, <1>6, <1>a DEF Woken, Local, SkeType, Reads, Side, Active, Working
<1>8. Verified(s, m, TRUE, p)
  BY <1>1, <1>2, <1>a DEF Verified, Same, Local
<1> QED
  BY <1>3, <1>4, <1>7, <1>8 DEF Local

(* What happens to an SKE that has finished: its destructor, its owner     *)
(* frees it, an answer is dropped.                                         *)
LEMMA Rests ==
  ASSUME NEW s \in Side, NEW k \in SkeType, NEW m \in SkeType, NEW p \in ParType,
         Local(s, k, FALSE, p), Silent(k), ~m.started,
         m.fin => k.fin, ~m.linked, m.told = k.told, m.aborted <=> k.aborted,
         m.refcnt = (IF m.owned THEN 1 ELSE 0) + (IF m.fin THEN 1 ELSE 0),
         m.owned => k.owned, m.timers = k.timers, m.run = k.run,
         m.verdict = k.verdict \/ (m.verdict = "none" /\ k.verdict = "asked"),
         m.retrans = k.retrans, m.packet \in {"none", k.packet}, k.notified => m.notified
  PROVE  Local(s, m, FALSE, p) /\ Silent(m)
<1>1. ~k.started /\ ~Fresh(k) /\ k.timers = {} /\ k.run = 0
  BY DEF Local, Lives, Silent
<1>2. ~Active(m) /\ ~Fresh(m) /\ ~Active(k)
  BY <1>1 DEF Active, Fresh
<1>3. Lives(m, FALSE)
  BY <1>1, <1>2 DEF Lives, SkeType, Local
<1>4. Where(s, m, FALSE, p) /\ Woken(s, m, FALSE, p)
  BY <1>1, <1>2 DEF Where, Woken, Local
<1>5. Verified(s, m, FALSE, p)
  BY <1>1, <1>2 DEF Verified, Local
<1>6. Resends(s, m, p)
  BY DEF Resends, Local
<1> QED
  BY <1>2, <1>3, <1>4, <1>5, <1>6 DEF Local, Silent

-----------------------------------------------------------------------------
(* Lemmas about both sides: what the responder has told.                   *)

Has(n, x) == \E j \in DOMAIN n : n[j] = x

(* What is on its way after a packet is sent or taken.                     *)
LEMMA HasItems ==
  ASSUME NEW n \in Seq(Packets), NEW t \in Packets, NEW x \in Packets
  PROVE  /\ Append(n, t) \in Seq(Packets) /\ (Has(Append(n, t), x) => Has(n, x) \/ t = x)
         /\ n # <<>> => Tail(n) \in Seq(Packets) /\ Head(n) \in Packets /\ Has(n, Head(n))
                        /\ (Has(Tail(n), x) => Has(n, x))
<1>1. Append(n, t) \in Seq(Packets) /\ (Has(Append(n, t), x) => Has(n, x) \/ t = x)
  BY DEF Has
<1>2. n # <<>> => Tail(n) \in Seq(Packets) /\ Head(n) \in Packets /\ Has(n, Head(n))
                  /\ (Has(Tail(n), x) => Has(n, x))
  <2> SUFFICES ASSUME n # <<>>
               PROVE  Tail(n) \in Seq(Packets) /\ Head(n) \in Packets /\ Has(n, Head(n))
                      /\ (Has(Tail(n), x) => Has(n, x))
    OBVIOUS
  <2>1. Tail(n) \in Seq(Packets) /\ Head(n) \in Packets /\ Head(n) = n[1] /\ 1 \in DOMAIN n
    OBVIOUS
  <2>2. \A j \in DOMAIN Tail(n) : Tail(n)[j] = n[j + 1] /\ j + 1 \in DOMAIN n
    OBVIOUS
  <2> QED
    BY <2>1, <2>2 DEF Has
<1> QED
  BY <1>1, <1>2

(* A step of the initiator.                                                *)
LEMMA InitiatorConfirmed ==
  ASSUME NEW p, NEW i, NEW r, NEW n, NEW m, NEW n2, Confirmed(p, i, r, n),
         Has(n2, "success") => Has(n, "success"),
         m.packet = "success" => i.packet = "success" \/ Has(n, "success"),
         m.told = <<TRUE>> /\ ~p.no_acks => i.told = <<TRUE>> \/ i.packet = "success"
  PROVE  Confirmed(p, m, r, n2)
BY DEF Confirmed, Has

(* A step of the responder.                                                *)
LEMMA ResponderConfirmed ==
  ASSUME NEW p, NEW i, NEW r, NEW n, NEW m, NEW n2, Confirmed(p, i, r, n),
         r.told = <<TRUE>> => m.told = <<TRUE>>,
         Has(n2, "success") => Has(n, "success") \/ m.told = <<TRUE>>
  PROVE  Confirmed(p, i, m, n2)
BY DEF Confirmed, Has

-----------------------------------------------------------------------------
(* Lemmas about both sides: what is on its way over a stream.              *)

(* A step that leaves a side where it is, or a side that has finished.     *)
Quiet(k, m) ==
  \/ Silent(k) /\ Silent(m)
  \/ /\ k.started /\ m.started /\ (m.notified <=> k.notified)
     /\ m.next = k.next /\ m.packet = k.packet

(* A quiet step of the initiator keeps the stream.                         *)
LEMMA QuietInitiator ==
  ASSUME NEW p, NEW i, NEW r, NEW ni, NEW nr, NEW m,
         InStream(p, i, r, ni, nr), Quiet(i, m)
  PROVE  InStream(p, m, r, ni, nr)
<1>1. CASE Silent(i) /\ Silent(m)
  BY <1>1 DEF InStream, Takes, Last, NotAhead, Silent, Active, Fresh
<1>2. CASE ~(Silent(i) /\ Silent(m))
  <2>1. /\ Takes(m) <=> Takes(i)
        /\ Silent(m) <=> Silent(i)
        /\ Fresh(m) <=> Fresh(i)
        /\ m.next = i.next /\ m.packet = i.packet /\ i.started /\ m.started
    BY <1>2 DEF Takes, Active, Fresh, Silent, Quiet
  <2>2. Turns(p, i, r, ni, nr) => Turns(p, m, r, ni, nr)
    BY <2>1 DEF Turns, OneOf
  <2>3. Inbox("ini", i, p, ni) => Inbox("ini", m, p, ni)
    BY <2>1 DEF Inbox, Awaits
  <2> QED
    BY <2>1, <2>2, <2>3 DEF InStream, Last, NotAhead
<1> QED
  BY <1>1, <1>2

(* A quiet step of the responder keeps the stream.                         *)
LEMMA QuietResponder ==
  ASSUME NEW p, NEW i, NEW r, NEW ni, NEW nr, NEW m,
         InStream(p, i, r, ni, nr), Quiet(r, m)
  PROVE  InStream(p, i, m, ni, nr)
<1>1. CASE Silent(r) /\ Silent(m)
  BY <1>1 DEF InStream, Takes, Last, NotAhead, Silent, Active, Fresh, Early
<1>2. CASE ~(Silent(r) /\ Silent(m))
  <2>1. /\ Takes(m) <=> Takes(r)
        /\ Silent(m) <=> Silent(r)
        /\ Fresh(m) <=> Fresh(r)
        /\ m.next = r.next /\ m.packet = r.packet /\ r.started /\ m.started
        /\ Early(m, p) <=> Early(r, p)
    BY <1>2 DEF Takes, Active, Fresh, Silent, Quiet, Early
  <2>2. Turns(p, i, r, ni, nr) => Turns(p, i, m, ni, nr)
    BY <2>1 DEF Turns, OneOf
  <2>3. Inbox("res", r, p, nr) => Inbox("res", m, p, nr)
    BY <2>1 DEF Inbox, Awaits
  <2>4. \A x : OneOf(nr, r, x) => OneOf(nr, m, x)
    BY <2>1 DEF OneOf
  <2> QED
    BY <2>1, <2>2, <2>3, <2>4 DEF InStream, Last, NotAhead
<1> QED
  BY <1>1, <1>2

(* The contents of the streams.                                            *)
LEMMA Contents ==
  ASSUME NEW x, NEW y
  PROVE  /\ Append(<<>>, x) = <<x>> /\ Append(<<x>>, y) = <<x, y>>
         /\ Tail(<<x>>) = <<>> /\ Tail(<<x, y>>) = <<y>>
         /\ Head(<<x>>) = x /\ Head(<<x, y>>) = x
         /\ <<x>> # <<>> /\ <<x, y>> # <<>> /\ ~(NoFailure(<<"failure">>))
         /\ ~(NoFailure(<<x, "failure">>)) /\ NoFailure(<<>>)
<1>1. /\ Append(<<>>, x) = <<x>> /\ Tail(<<x>>) = <<>> /\ Tail(<<x, y>>) = <<y>>
      /\ Head(<<x>>) = x /\ Head(<<x, y>>) = x
      /\ <<x>> # <<>> /\ <<x, y>> # <<>>
  OBVIOUS
<1>a. Append(<<x>>, y) = <<x, y>>
  <2>1. /\ <<x>> \in Seq({x, y}) /\ Append(<<x>>, y) \in Seq({x, y})
        /\ Len(Append(<<x>>, y)) = 2 /\ Append(<<x>>, y)[1] = x /\ Append(<<x>>, y)[2] = y
    OBVIOUS
  <2>2. <<x, y>> \in Seq({x, y}) /\ Len(<<x, y>>) = 2 /\ <<x, y>>[1] = x /\ <<x, y>>[2] = y
    OBVIOUS
  <2>3. \A j \in 1..2 : Append(<<x>>, y)[j] = <<x, y>>[j]
    BY <2>1, <2>2
  <2> QED
    BY <2>1, <2>2, <2>3, SeqEqual
<1>2. ~NoFailure(<<"failure">>) /\ ~NoFailure(<<x, "failure">>) /\ NoFailure(<<>>)
  BY DEF NoFailure
<1> QED
  BY <1>1, <1>a, <1>2

(* A side that gives up, with what has been taken from its stream.         *)
LEMMA InitiatorGivesUp ==
  ASSUME NEW p, NEW i, NEW r, NEW ni, NEW nr, NEW m, NEW ni2,
         InStream(p, i, r, ni, nr), i.started, m.started, ~Active(m), m.packet # "failure",
         NoFailure(ni) => NoFailure(ni2), ni = <<>> => ni2 = <<>>,
         ~p.udp /\ m.next \in {"error", "aborted"} /\ Early(r, p) => nr = <<>> /\ r.packet = "none"
  PROVE  InStream(p, m, r, ni2, nr)
<1>1. ~Takes(m) /\ ~Silent(m) /\ ~Silent(i)
  BY DEF Takes, Fresh, Silent
<1> QED
  BY <1>1 DEF InStream, Last, NotAhead

(* The same for the responder.                                             *)
LEMMA ResponderGivesUp ==
  ASSUME NEW p, NEW i, NEW r, NEW ni, NEW nr, NEW m, NEW nr2,
         InStream(p, i, r, ni, nr), r.started, m.started, ~Active(m), m.packet # "failure",
         NoFailure(nr) => NoFailure(nr2)
  PROVE  InStream(p, i, m, ni, nr2)
<1>1. ~Takes(m) /\ ~Silent(m) /\ ~Silent(r) /\ ~Early(m, p)
  BY DEF Takes, Fresh, Silent, Early
<1> QED
  BY <1>1 DEF InStream, Last, NotAhead

(* A side that receives the FAILURE of the other.                          *)
LEMMA InitiatorIsTold ==
  ASSUME NEW p, NEW i, NEW r, NEW ni, NEW nr, NEW m,
         InStream(p, i, r, ni, nr), i.started, m.started, ~Active(m),
         m.next = "failure", ~p.udp => Silent(r)
  PROVE  InStream(p, m, r, <<>>, nr)
<1>1. ~Takes(m) /\ ~Silent(m) /\ ~Silent(i)
  BY DEF Takes, Fresh, Silent
<1> QED
  BY <1>1, Contents DEF InStream, Last, NotAhead

(* The same for the responder.                                             *)
LEMMA ResponderIsTold ==
  ASSUME NEW p, NEW i, NEW r, NEW ni, NEW nr, NEW m,
         InStream(p, i, r, ni, nr), r.started, m.started, ~Active(m),
         ~p.udp => Silent(i)
  PROVE  InStream(p, i, m, ni, <<>>)
<1>1. ~Takes(m) /\ ~Silent(m) /\ ~Silent(r) /\ ~Early(m, p)
  BY DEF Takes, Fresh, Silent, Early
<1> QED
  BY <1>1, Contents DEF InStream, Last, NotAhead

(* A FAILURE behind what a side has sent before.                           *)
LEMMA FailureSent ==
  ASSUME NEW s, NEW k, NEW p, NEW n, Inbox(s, k, p, n), NoFailure(n)
  PROVE  Inbox(s, k, p, Append(n, "failure"))
<1>1. CASE n = <<>>
  BY <1>1, Contents DEF Inbox
<1>2. CASE n # <<>>
  <2>1. PICK x \in Packets : Awaits(s, k, p, x) /\ (n = <<x>> \/ n = <<x, "failure">>)
    BY <1>2, Contents DEF Inbox
  <2>2. k.packet = "none"
    BY <1>2, Contents DEF Inbox
  <2>3. Append(n, "failure") = <<x, "failure">>
    BY <2>1, Contents
  <2> QED
    BY <2>1, <2>2, <2>3 DEF Inbox
<1> QED
  BY <1>1, <1>2

(* A side that finishes, after a FAILURE or without one.                   *)
LEMMA InitiatorEnds ==
  ASSUME NEW p, NEW i, NEW r, NEW ni, NEW nr, NEW m, NEW nr2,
         InStream(p, i, r, ni, nr), i.started, Silent(m),
         \/ nr2 = nr
         \/ nr2 = Append(nr, "failure") /\ i.next \in {"error", "aborted"}
  PROVE  InStream(p, m, r, ni, nr2)
<1> SUFFICES ASSUME ~p.udp
             PROVE  InStream(p, m, r, ni, nr2)
  BY DEF InStream
<1>1. ~Takes(m) /\ ~Silent(i) /\ ~m.started
  BY DEF Takes, Fresh, Silent, Active
<1>2. NoFailure(nr) /\ (r.started => r.packet # "failure")
  BY <1>1 DEF InStream, Last
<1>3. Takes(r) => Inbox("res", r, p, nr2)
  BY <1>2, FailureSent DEF InStream
<1>4. NotAhead(p, m, r, ni, nr2)
  BY <1>1, Contents DEF InStream, NotAhead
<1> QED
  BY <1>1, <1>2, <1>3, <1>4 DEF InStream, Last

(* The end of the responder, with or without its FAILURE or its SUCCESS.   *)
LEMMA ResponderEnds ==
  ASSUME NEW p, NEW i, NEW r, NEW ni, NEW nr, NEW m, NEW ni2,
         InStream(p, i, r, ni, nr), r.started, Silent(m),
         \/ ni2 = ni
         \/ ni2 = Append(ni, "failure")
         \/ /\ ni2 = Append(ni, "success") /\ Active(r) /\ r.next = "end"
            /\ r.packet = "success" /\ ~p.no_acks
  PROVE  InStream(p, i, m, ni2, nr)
<1> SUFFICES ASSUME ~p.udp
             PROVE  InStream(p, i, m, ni2, nr)
  BY DEF InStream
<1>1. ~Takes(m) /\ ~Silent(r) /\ ~m.started /\ ~Early(m, p)
  BY DEF Takes, Fresh, Silent, Active, Early
<1>2. NoFailure(ni) /\ (i.started => i.packet # "failure")
  BY <1>1 DEF InStream, Last
<1>3. Takes(i) => Inbox("ini", i, p, ni2)
  <2>1. CASE ni2 = ni
    BY <2>1 DEF InStream
  <2>2. CASE ni2 = Append(ni, "failure")
    BY <1>2, <2>2, FailureSent DEF InStream
  <2>3. CASE /\ ni2 = Append(ni, "success") /\ Active(r) /\ r.next = "end"
             /\ r.packet = "success" /\ ~p.no_acks
    <3> SUFFICES ASSUME Takes(i)
                 PROVE  Inbox("ini", i, p, ni2)
      OBVIOUS
    <3>1. Turns(p, i, r, ni, nr) /\ ~Early(r, p)
      BY <2>3 DEF InStream, Takes, Early, Active, Fresh
    <3>2. i.next = "end" /\ i.packet = "none" /\ ni = <<>>
      BY <2>3, <3>1 DEF Turns, OneOf
    <3>3. ni2 = <<"success">>
      BY <2>3, <3>2, Contents
    <3> QED
      BY <2>3, <3>2, <3>3 DEF Inbox, Awaits, Packets
  <2> QED
    BY <2>1, <2>2, <2>3
<1> QED
  BY <1>1, <1>2, <1>3 DEF InStream, Last, NotAhead

(* Packets that are sent and taken are no failures unless they say so.     *)
LEMMA NoFailures ==
  ASSUME NEW n \in Seq(Packets), NoFailure(n)
  PROVE  /\ \A x \in Packets : x # "failure" => NoFailure(Append(n, x))
         /\ n # <<>> => NoFailure(Tail(n)) /\ Head(n) # "failure"
<1>1. \A x \in Packets : x # "failure" => NoFailure(Append(n, x))
  BY DEF NoFailure
<1>2. ASSUME n # <<>>
      PROVE  NoFailure(Tail(n)) /\ Head(n) # "failure"
  <2>1. Head(n) = n[1] /\ 1 \in DOMAIN n
    BY <1>2
  <2>2. \A j \in DOMAIN Tail(n) : Tail(n)[j] = n[j + 1] /\ j + 1 \in DOMAIN n
    BY <1>2
  <2> QED
    BY <2>1, <2>2 DEF NoFailure
<1> QED
  BY <1>1, <1>2

(* A side that starts.                                                     *)
LEMMA InitiatorStarts ==
  ASSUME NEW p, NEW i, NEW r, NEW ni, NEW nr, NEW m,
         InStream(p, i, r, ni, nr), i = Idle, Active(m), m.packet = "none",
         m.next = (IF p.prop THEN "phase2" ELSE "start")
  PROVE  InStream(p, m, r, ni, nr)
<1> SUFFICES ASSUME ~p.udp
             PROVE  InStream(p, m, r, ni, nr)
  BY DEF InStream
<1>1. Fresh(i) /\ i.next = "null" /\ i.packet = "none" /\ ~i.started
  BY DEF Idle, Fresh
<1>2. Takes(i) /\ Takes(m) /\ ~Silent(m) /\ ~Silent(i)
  BY <1>1 DEF Takes, Silent, Active
<1>3. Takes(r) => Turns(p, m, r, ni, nr)
  BY <1>1, <1>2 DEF InStream, Turns
<1>4. Inbox("ini", m, p, ni)
  BY <1>1, <1>2 DEF InStream, Inbox, Awaits
<1>5. NotAhead(p, m, r, ni, nr)
  BY <1>1, <1>2 DEF InStream, NotAhead
<1> QED
  BY <1>2, <1>3, <1>4, <1>5 DEF InStream, Last

(* A responder that starts, or that goes from its start to its first wait. *)
LEMMA ResponderStarts ==
  ASSUME NEW p, NEW i, NEW r, NEW ni, NEW nr, NEW m,
         InStream(p, i, r, ni, nr), Early(r, p), Fresh(r) => r = Idle,
         r.next \in {"null", "start"}, Active(m), Early(m, p), m.packet = r.packet
  PROVE  InStream(p, i, m, ni, nr)
<1> SUFFICES ASSUME ~p.udp
             PROVE  InStream(p, i, m, ni, nr)
  BY DEF InStream
<1>1. Takes(r) /\ Takes(m) /\ ~Silent(m) /\ ~Silent(r) /\ ~Fresh(m)
  BY DEF Takes, Silent, Active, Early, Fresh
<1>2. \A x : OneOf(nr, r, x) => OneOf(nr, m, x)
  BY DEF OneOf
<1>3. Takes(i) => Turns(p, i, m, ni, nr)
  BY <1>1, <1>2 DEF InStream, Turns
<1>4. Inbox("res", m, p, nr)
  <2>1. \A x : Awaits("res", r, p, x) => Awaits("res", m, p, x)
    BY <1>1 DEF Awaits, Early, First
  <2> QED
    BY <1>1, <2>1 DEF InStream, Inbox
<1>5. NotAhead(p, i, m, ni, nr)
  BY <1>1, <1>2 DEF InStream, NotAhead
<1>6. m.packet # "failure"
  BY <1>1 DEF InStream, NotAhead, OneOf, First
<1> QED
  BY <1>1, <1>3, <1>4, <1>5, <1>6 DEF InStream, Last

(* The first packet of a stream, and what is left without it.              *)
LEMMA FirstTaken ==
  ASSUME NEW s, NEW k, NEW p, NEW n, Inbox(s, k, p, n), n # <<>>, Head(n) # "failure"
  PROVE  Tail(n) = <<>> \/ Tail(n) = <<"failure">>
<1>1. n # <<"failure">>
  BY Contents
<1>2. PICK x \in Packets : n = <<x>> \/ n = <<x, "failure">>
  BY <1>1 DEF Inbox
<1>3. Tail(<<x>>) = <<>> /\ Tail(<<x, "failure">>) = <<"failure">>
  BY Contents
<1> QED
  BY <1>2, <1>3

(* The packet on its way becomes the packet received.                      *)
LEMMA OneTaken ==
  ASSUME NEW k, NEW m, NEW n, NEW x, OneOf(n, k, x), n # <<>>, m.packet = Head(n)
  PROVE  OneOf(Tail(n), m, x)
BY Contents DEF OneOf

(* A side that receives the packet it waits for.                           *)
LEMMA InitiatorReceives ==
  ASSUME NEW p, NEW i, NEW r, NEW ni \in Seq(Packets), NEW nr, NEW m,
         InStream(p, i, r, ni, nr), Active(i), Active(m), m.next = i.next,
         ni # <<>>, i.packet = "none", m.packet = Head(ni), Head(ni) # "failure"
  PROVE  InStream(p, m, r, Tail(ni), nr)
<1> SUFFICES ASSUME ~p.udp
             PROVE  InStream(p, m, r, Tail(ni), nr)
  BY DEF InStream
<1>1. Takes(i) /\ Takes(m) /\ ~Silent(m) /\ ~Silent(i) /\ ~Fresh(m) /\ ~Fresh(i)
  BY DEF Takes, Silent, Active, Fresh
<1>2. Tail(ni) = <<>> \/ Tail(ni) = <<"failure">>
  BY <1>1, FirstTaken DEF InStream
<1>3. Takes(r) => Turns(p, m, r, Tail(ni), nr)
  <2> SUFFICES ASSUME Takes(r)
               PROVE  Turns(p, m, r, Tail(ni), nr)
    OBVIOUS
  <2>1. Turns(p, i, r, ni, nr)
    BY <1>1 DEF InStream
  <2>2. \A x : OneOf(ni, i, x) => OneOf(Tail(ni), m, x)
    BY OneTaken
  <2> QED
    BY <1>1, <2>1, <2>2, Contents DEF Turns
<1>4. Inbox("ini", m, p, Tail(ni))
  BY <1>2 DEF Inbox
<1>5. ~Early(r, p)
  BY DEF InStream, NotAhead
<1>6. NoFailure(ni) => NoFailure(Tail(ni))
  BY NoFailures
<1> QED
  BY <1>1, <1>3, <1>4, <1>5, <1>6 DEF InStream, Last, NotAhead

(* The same for the responder.                                             *)
LEMMA ResponderReceives ==
  ASSUME NEW p, NEW i, NEW r, NEW ni, NEW nr \in Seq(Packets), NEW m,
         InStream(p, i, r, ni, nr), Active(r), Active(m), m.next = r.next,
         nr # <<>>, r.packet = "none", m.packet = Head(nr), Head(nr) # "failure"
  PROVE  InStream(p, i, m, ni, Tail(nr))
<1> SUFFICES ASSUME ~p.udp
             PROVE  InStream(p, i, m, ni, Tail(nr))
  BY DEF InStream
<1>1. Takes(r) /\ Takes(m) /\ ~Silent(m) /\ ~Silent(r) /\ ~Fresh(m) /\ ~Fresh(r)
  BY DEF Takes, Silent, Active, Fresh
<1>2. Tail(nr) = <<>> \/ Tail(nr) = <<"failure">>
  BY <1>1, FirstTaken DEF InStream
<1>a. Early(m, p) <=> Early(r, p)
  BY <1>1 DEF Early
<1>3. Takes(i) => Turns(p, i, m, ni, Tail(nr))
  <2> SUFFICES ASSUME Takes(i)
               PROVE  Turns(p, i, m, ni, Tail(nr))
    OBVIOUS
  <2>1. Turns(p, i, r, ni, nr)
    BY <1>1 DEF InStream
  <2>2. \A x : OneOf(nr, r, x) => OneOf(Tail(nr), m, x)
    BY OneTaken
  <2> QED
    BY <1>1, <1>a, <2>1, <2>2, Contents DEF Turns
<1>4. Inbox("res", m, p, Tail(nr))
  BY <1>2 DEF Inbox
<1>5. NotAhead(p, i, m, ni, Tail(nr))
  <2> SUFFICES ASSUME Early(r, p)
               PROVE  NotAhead(p, i, m, ni, Tail(nr))
    BY <1>a DEF NotAhead
  <2>1. ni = <<>> /\ nr = <<First(p)>> /\ ~(i.started /\ i.next \in {"error", "aborted"})
    BY Contents DEF InStream, NotAhead, OneOf
  <2> QED
    BY <2>1, Contents DEF NotAhead, OneOf
<1>6. NoFailure(nr) => NoFailure(Tail(nr))
  BY NoFailures
<1> QED
  BY <1>1, <1>3, <1>4, <1>5, <1>6 DEF InStream, Last

(* What a side has in its stream when it is not waiting for a packet.      *)
LEMMA NothingAwaited ==
  ASSUME NEW s, NEW k, NEW m, NEW p, NEW n, Inbox(s, k, p, n),
         k.packet # "none" \/ \A x : ~Awaits(s, k, p, x)
  PROVE  Inbox(s, m, p, n)
BY DEF Inbox

(* The initiator takes its turn, and sends its next packet.                *)
LEMMA InitiatorMoves ==
  ASSUME NEW p, NEW i, NEW r, NEW ni, NEW nr \in Seq(Packets), NEW m, NEW nr2,
         InStream(p, i, r, ni, nr), Active(i), Active(m), m.packet = "none",
         Fresh(r) => r = Idle, Active(r) /\ r.next = "end" => ~p.no_acks,
         \/ i.next = "start" /\ m.next = "phase1" /\ ~p.prop /\ nr2 = Append(nr, "ke")
         \/ i.next = "phase1" /\ i.packet = "ke" /\ m.next = "phase2" /\ ~p.prop /\ nr2 = nr
         \/ i.next = "phase2" /\ m.next = "phase3" /\ nr2 = Append(nr, "ke1")
         \/ i.next = "phase3" /\ i.packet = "ke2" /\ m.next = "phase4" /\ nr2 = nr
         \/ i.next = "phase4" /\ m.next = "end" /\ p.no_acks /\ nr2 = nr
         \/ i.next = "phase4" /\ m.next = "end" /\ ~p.no_acks /\ nr2 = Append(nr, "success")
  PROVE  InStream(p, m, r, ni, nr2)
<1> SUFFICES ASSUME ~p.udp
             PROVE  InStream(p, m, r, ni, nr2)
  BY DEF InStream
<1>1. Takes(i) /\ Takes(m) /\ ~Silent(m) /\ ~Silent(i) /\ ~Fresh(m) /\ ~Fresh(i)
  BY DEF Takes, Silent, Active, Fresh
<1>2. Inbox("ini", m, p, ni)
  <2>1. i.packet # "none" \/ \A x : ~Awaits("ini", i, p, x)
    BY DEF Awaits
  <2> QED
    BY <1>1, <2>1, NothingAwaited DEF InStream
<1>3. ASSUME Takes(r)
      PROVE  Turns(p, m, r, ni, nr2) /\ Inbox("res", r, p, nr2) /\ NotAhead(p, m, r, ni, nr2)
  <2>1. Turns(p, i, r, ni, nr)
    BY <1>1, <1>3 DEF InStream
  <2>2. Fresh(r) => r.next = "null" /\ r.packet = "none"
    BY DEF Idle
  <2>3. /\ Append(<<>>, "ke") = <<"ke">> /\ Append(<<>>, "ke1") = <<"ke1">>
        /\ Append(<<>>, "success") = <<"success">>
    BY Contents
  <2>4. CASE i.next = "start" /\ m.next = "phase1" /\ ~p.prop /\ nr2 = Append(nr, "ke")
    <3>1. Early(r, p) /\ ni = <<>> /\ nr2 = <<"ke">> /\ r.packet = "none"
      BY <1>1, <2>1, <2>3, <2>4 DEF Turns
    <3>2. OneOf(nr2, r, First(p))
      BY <2>4, <3>1 DEF OneOf, First
    <3>3. Turns(p, m, r, ni, nr2)
      BY <2>4, <3>1, <3>2 DEF Turns
    <3>4. Inbox("res", r, p, nr2)
      BY <2>4, <3>1 DEF Inbox, Awaits, Early, First, Packets
    <3> QED
      BY <2>4, <3>1, <3>2, <3>3, <3>4 DEF NotAhead
  <2>5. CASE i.next = "phase1" /\ i.packet = "ke" /\ m.next = "phase2" /\ ~p.prop /\ nr2 = nr
    <3>1. r.next = "phase2" /\ ni = <<>> /\ nr = <<>> /\ r.packet = "none"
      BY <1>1, <2>1, <2>5 DEF Turns, OneOf
    <3>2. ~Early(r, p)
      BY <2>2, <2>5, <3>1 DEF Early
    <3> QED
      BY <1>1, <1>3, <2>5, <3>1, <3>2 DEF Turns, NotAhead, InStream
  <2>6. CASE i.next = "phase2" /\ m.next = "phase3" /\ nr2 = Append(nr, "ke1")
    <3>1. CASE p.prop
      <4>1. Early(r, p) /\ ni = <<>> /\ nr2 = <<"ke1">> /\ r.packet = "none"
        BY <1>1, <2>1, <2>3, <2>6, <3>1 DEF Turns
      <4>2. OneOf(nr2, r, First(p))
        BY <3>1, <4>1 DEF OneOf, First
      <4>3. Turns(p, m, r, ni, nr2)
        BY <2>6, <3>1, <4>1, <4>2 DEF Turns
      <4>4. Inbox("res", r, p, nr2)
        BY <3>1, <4>1 DEF Inbox, Awaits, Early, First, Packets
      <4> QED
        BY <2>6, <4>1, <4>2, <4>3, <4>4 DEF NotAhead
    <3>2. CASE ~p.prop
      <4>1. r.next = "phase2" /\ ni = <<>> /\ nr2 = <<"ke1">> /\ r.packet = "none"
        BY <1>1, <2>1, <2>3, <2>6, <3>2 DEF Turns
      <4>2. ~Early(r, p)
        BY <2>2, <3>2, <4>1 DEF Early
      <4>3. Turns(p, m, r, ni, nr2)
        BY <2>6, <3>2, <4>1 DEF Turns, OneOf
      <4>4. Inbox("res", r, p, nr2)
        BY <4>1 DEF Inbox, Awaits, Packets
      <4> QED
        BY <4>2, <4>3, <4>4 DEF NotAhead
    <3> QED
      BY <3>1, <3>2
  <2>7. CASE i.next = "phase3" /\ i.packet = "ke2" /\ m.next = "phase4" /\ nr2 = nr
    <3>1. r.next = "end" /\ ni = <<>> /\ nr = <<>> /\ r.packet = "none"
      BY <1>1, <2>1, <2>7 DEF Turns, OneOf
    <3>2. ~Early(r, p) /\ ~p.no_acks
      BY <1>3, <2>2, <3>1 DEF Early, Takes
    <3> QED
      BY <1>1, <1>3, <2>7, <3>1, <3>2 DEF Turns, NotAhead, InStream
  <2>8. CASE i.next = "phase4" /\ m.next = "end" /\ p.no_acks /\ nr2 = nr
    BY <1>1, <2>1, <2>8 DEF Turns
  <2>9. CASE i.next = "phase4" /\ m.next = "end" /\ ~p.no_acks /\ nr2 = Append(nr, "success")
    <3>1. r.next = "end" /\ ni = <<>> /\ nr2 = <<"success">> /\ r.packet = "none"
      BY <1>1, <2>1, <2>3, <2>9 DEF Turns
    <3>2. ~Early(r, p)
      BY <2>2, <3>1 DEF Early
    <3>3. Turns(p, m, r, ni, nr2)
      BY <2>9, <3>1 DEF Turns, OneOf
    <3>4. Inbox("res", r, p, nr2)
      BY <2>9, <3>1 DEF Inbox, Awaits, Packets
    <3> QED
      BY <3>2, <3>3, <3>4 DEF NotAhead
  <2> QED
    BY <2>4, <2>5, <2>6, <2>7, <2>8, <2>9
<1>4. NotAhead(p, m, r, ni, nr2)
  BY <1>3 DEF NotAhead, Early, Takes
<1>5. Last(m, r, ni)
  BY <1>1 DEF InStream, Last
<1>6. Last(r, m, nr2)
  BY <1>1, NoFailures DEF InStream, Last, Packets
<1> QED
  BY <1>2, <1>3, <1>4, <1>5, <1>6 DEF InStream

(* The responder takes its turn, and answers.                              *)
LEMMA ResponderMoves ==
  ASSUME NEW p, NEW i, NEW r, NEW ni \in Seq(Packets), NEW nr, NEW m, NEW ni2,
         InStream(p, i, r, ni, nr), Active(r), Active(m), m.packet = "none",
         Fresh(i) => i = Idle,
         \/ r.next = "phase1" /\ r.packet = "ke" /\ m.next = "phase2" /\ ~p.prop
            /\ ni2 = Append(ni, "ke")
         \/ r.next = "phase2" /\ r.packet = "ke1" /\ m.next = "phase4" /\ ni2 = ni
         \/ r.next = "phase4" /\ m.next = "phase5" /\ ni2 = ni
         \/ r.next = "phase5" /\ m.next = "end" /\ ni2 = Append(ni, "ke2")
  PROVE  InStream(p, i, m, ni2, nr)
<1> SUFFICES ASSUME ~p.udp
             PROVE  InStream(p, i, m, ni2, nr)
  BY DEF InStream
<1>1. Takes(r) /\ Takes(m) /\ ~Silent(m) /\ ~Silent(r) /\ ~Fresh(m) /\ ~Fresh(r)
  BY DEF Takes, Silent, Active, Fresh
<1>a. ~Early(m, p)
  BY <1>1 DEF Early
<1>2. Inbox("res", m, p, nr)
  <2>1. r.packet # "none" \/ \A x : ~Awaits("res", r, p, x)
    BY <1>1 DEF Awaits
  <2> QED
    BY <1>1, <2>1, NothingAwaited DEF InStream
<1>3. ASSUME Takes(i)
      PROVE  Turns(p, i, m, ni2, nr) /\ Inbox("ini", i, p, ni2)
  <2>1. Turns(p, i, r, ni, nr)
    BY <1>1, <1>3 DEF InStream
  <2>2. Fresh(i) => i.next = "null" /\ i.packet = "none"
    BY DEF Idle
  <2>3. Append(<<>>, "ke") = <<"ke">> /\ Append(<<>>, "ke2") = <<"ke2">>
    BY Contents
  <2>4. CASE r.next = "phase1" /\ r.packet = "ke" /\ m.next = "phase2" /\ ~p.prop
             /\ ni2 = Append(ni, "ke")
    <3>1. i.next = "phase1" /\ ni2 = <<"ke">> /\ nr = <<>> /\ i.packet = "none"
      BY <1>1, <2>1, <2>3, <2>4 DEF Turns, OneOf
    <3> QED
      BY <2>4, <3>1 DEF Turns, OneOf, Inbox, Awaits, Packets
  <2>5. CASE r.next = "phase2" /\ r.packet = "ke1" /\ m.next = "phase4" /\ ni2 = ni
    <3>1. i.next = "phase3" /\ ni = <<>> /\ nr = <<>> /\ i.packet = "none"
      BY <1>1, <2>1, <2>5 DEF Turns, OneOf, First, Early
    <3> QED
      BY <2>5, <3>1 DEF Turns, Inbox
  <2>6. CASE r.next = "phase4" /\ m.next = "phase5" /\ ni2 = ni
    <3>1. i.next = "phase3" /\ ni = <<>> /\ nr = <<>> /\ i.packet = "none"
      BY <1>1, <2>1, <2>6 DEF Turns, Early
    <3> QED
      BY <2>6, <3>1 DEF Turns, Inbox
  <2>7. CASE r.next = "phase5" /\ m.next = "end" /\ ni2 = Append(ni, "ke2")
    <3>1. i.next = "phase3" /\ ni2 = <<"ke2">> /\ nr = <<>> /\ i.packet = "none"
      BY <1>1, <2>1, <2>3, <2>7 DEF Turns, Early
    <3> QED
      BY <2>7, <3>1 DEF Turns, OneOf, Inbox, Awaits, Packets
  <2> QED
    BY <2>4, <2>5, <2>6, <2>7
<1>5. Last(m, i, nr)
  BY <1>1 DEF InStream, Last
<1>6. Last(i, m, ni2)
  BY <1>1, NoFailures DEF InStream, Last, Packets
<1> QED
  BY <1>2, <1>3, <1>a, <1>5, <1>6 DEF InStream, NotAhead

-----------------------------------------------------------------------------
(* The operators that the actions are made of.                             *)

(* Two SKEs that differ at most in their timers and saved packets.         *)
Alike(k, m) ==
  /\ Same(k, m)
  /\ m.next = k.next /\ m.packet = k.packet /\ m.run = k.run /\ m.refcnt = k.refcnt
  /\ m.verdict = k.verdict
  /\ m.ok <=> k.ok
  /\ m.notified <=> k.notified
  /\ m.aborted <=> k.aborted
  /\ m.owned <=> k.owned

(* silc_ske_install_retransmission.                                        *)
LEMMA ArmedAlike ==
  ASSUME NEW s \in Side, NEW k \in SkeType
  PROVE  /\ Armed(k) \in SkeType /\ Alike(k, Armed(k))
         /\ Resends(s, k, par) => Resends(s, Armed(k), par)
<1>1. CASE Armed(k) = k
  BY <1>1 DEF Alike, Same
<1>2. CASE Armed(k) # k
  <2> DEFINE m == [k EXCEPT !.timers = @ \cup {"retry"}]
  <2>1. Armed(k) = m /\ k.retrans # "none" /\ par.udp
    BY <1>2 DEF Armed
  <2>2. m \in SkeType
    BY DEF SkeType
  <2>3. Alike(k, m) /\ m.retrans = k.retrans
    BY DEF Alike, Same, SkeType
  <2> HIDE DEF m
  <2> QED
    BY <2>1, <2>2, <2>3 DEF Resends
<1> QED
  BY <1>1, <1>2

(* silc_ske_packet_send.                                                   *)
LEMMA SavedAlike ==
  ASSUME NEW s \in Side, NEW k \in SkeType, NEW t \in Packets, s = "res" => t # "success"
  PROVE  /\ Saved(k, t) \in SkeType /\ Alike(k, Saved(k, t))
         /\ Resends(s, k, par) => Resends(s, Saved(k, t), par)
<1>1. CASE ~par.udp
  BY <1>1 DEF Saved, Alike, Same
<1>2. CASE par.udp
  <2> DEFINE m == [k EXCEPT !.retrans = t]
  <2>1. Saved(k, t) = Armed(m)
    BY <1>2 DEF Saved
  <2>2. m \in SkeType
    BY DEF SkeType
  <2>3. Alike(k, m) /\ m.retrans = t
    BY DEF Alike, Same, SkeType
  <2>4. Resends(s, m, par)
    BY <1>2, <2>3 DEF Resends, Packets
  <2> HIDE DEF m
  <2>5. Armed(m) \in SkeType /\ Alike(m, Armed(m)) /\ Resends(s, Armed(m), par)
    BY <2>2, <2>4, ArmedAlike
  <2> QED
    BY <2>1, <2>3, <2>5 DEF Alike, Same
<1> QED
  BY <1>1, <1>2

(* silc_ske_notify_failure.                                                *)
LEMMA NotifiedFields ==
  ASSUME NEW s \in Side, NEW k \in SkeType
  PROVE  /\ Notified(k) \in SkeType /\ Same(k, Notified(k)) /\ Notified(k).notified
         /\ Notified(k).next = IF k.notified THEN k.next ELSE "failure"
         /\ Notified(k).packet = k.packet /\ Notified(k).run = k.run
         /\ Notified(k).refcnt = k.refcnt /\ Notified(k).verdict = k.verdict
         /\ Notified(k).timers = k.timers /\ Notified(k).retrans = k.retrans
         /\ Notified(k).aborted <=> k.aborted
         /\ Notified(k).owned <=> k.owned
         /\ Notified(k).ok <=> k.ok
<1>1. CASE k.notified
  BY <1>1 DEF Notified, Same
<1>2. CASE ~k.notified
  <2> DEFINE m == [k EXCEPT !.notified = TRUE, !.next = "failure"]
  <2>1. Notified(k) = m
    BY <1>2 DEF Notified
  <2>2. m \in SkeType
    BY DEF SkeType, States
  <2>3. /\ m.next = "failure" /\ m.packet = k.packet /\ m.run = k.run
        /\ m.refcnt = k.refcnt /\ m.verdict = k.verdict
        /\ m.timers = k.timers /\ m.retrans = k.retrans
    BY DEF SkeType
  <2>4. /\ Same(k, m) /\ m.notified
        /\ m.aborted <=> k.aborted
        /\ m.owned <=> k.owned
        /\ m.ok <=> k.ok
    BY DEF SkeType, Same
  <2> HIDE DEF m
  <2> QED
    BY <1>2, <2>1, <2>2, <2>3, <2>4
<1> QED
  BY <1>1, <1>2

(* The network after a packet is sent.                                     *)
LEMMA SentPackets ==
  ASSUME net \in [Side -> Seq(Packets)], NEW s \in Side, NEW t \in Packets
  PROVE  /\ Sent(s, t) \in [Side -> Seq(Packets)]
         /\ Sent(s, t)[s] = net[s]
         /\ ~par.udp => Sent(s, t)[Other(s)] = Append(net[Other(s)], t)
         /\ \A x \in Packets : Has(Sent(s, t)[Other(s)], x) => Has(net[Other(s)], x) \/ t = x
<1> DEFINE o == Other(s)
<1>1. o \in Side /\ o # s
  BY DEF Other, Side
<1>2. net[o] \in Seq(Packets) /\ Append(net[o], t) \in Seq(Packets)
  BY <1>1, HasItems
<1>3. Sent(s, t) = net \/ Sent(s, t) = [net EXCEPT ![o] = Append(net[o], t)]
  BY DEF Sent
<1>4. ~par.udp => Sent(s, t) = [net EXCEPT ![o] = Append(net[o], t)]
  BY DEF Sent
<1> HIDE DEF o
<1>5. CASE Sent(s, t) = net /\ par.udp
  BY <1>1, <1>5 DEF o
<1>6. CASE Sent(s, t) = [net EXCEPT ![o] = Append(net[o], t)]
  <2>1. /\ Sent(s, t) \in [Side -> Seq(Packets)] /\ Sent(s, t)[s] = net[s]
        /\ Sent(s, t)[o] = Append(net[o], t)
    BY <1>1, <1>2, <1>6
  <2> QED
    BY <1>2, <2>1, HasItems DEF o
<1> QED
  BY <1>3, <1>4, <1>5, <1>6

-----------------------------------------------------------------------------
(* Steps of one side.                                                      *)

(* A step of side s that turns its SKE into m.                             *)
Turned(s, m) ==
  /\ ske' = [ske EXCEPT ![s] = m] /\ par' = par
  /\ running \in {"none", s} /\ running' \in {"none", s}

(* What the invariant says of a side, and of the other.                    *)
LEMMA SideFacts ==
  ASSUME SkeInv, NEW s \in Side
  PROVE  /\ ske[s] \in SkeType /\ Local(s, ske[s], running = s, par)
         /\ par \in ParType /\ ~(par.udp /\ par.guarded)
         /\ net \in [Side -> Seq(Packets)] /\ net[s] \in Seq(Packets)
         /\ Other(s) \in Side /\ Other(s) # s /\ net[Other(s)] \in Seq(Packets)
         /\ Fresh(ske[s]) => ske[s] = Idle
BY DEF SkeInv, FullType, Other, Side, Local, Lives

(* What has to be shown of a step: the new SKE, and both sides together.   *)
LEMMA Stepping ==
  ASSUME SkeInv, NEW s \in Side, NEW m \in SkeType, Turned(s, m),
         net' \in [Side -> Seq(Packets)], Local(s, m, running' = s, par),
         s = "ini" => /\ Confirmed(par, m, ske["res"], net'["ini"])
                      /\ InStream(par, m, ske["res"], net'["ini"], net'["res"]),
         s = "res" => /\ Confirmed(par, ske["ini"], m, net'["ini"])
                      /\ InStream(par, ske["ini"], m, net'["ini"], net'["res"])
  PROVE  SkeInv'
<1>1. FullType'
  BY DEF SkeInv, FullType, Turned
<1>2. ske'[s] = m /\ \A o \in Side : o # s => ske'[o] = ske[o]
  BY DEF SkeInv, FullType, Turned
<1>3. ASSUME NEW o \in Side
      PROVE  Local(o, ske'[o], running' = o, par')
  <2>1. CASE o = s
    BY <1>2, <2>1 DEF Turned
  <2>2. CASE o # s
    <3>1. running # o /\ running' # o /\ "none" \notin Side
      BY <2>2 DEF Turned, Side
    <3>2. (running' = o) = FALSE /\ (running = o) = FALSE
      BY <3>1
    <3>3. Local(o, ske[o], running = o, par)
      BY DEF SkeInv
    <3> QED
      BY <1>2, <2>2, <3>2, <3>3 DEF Turned
  <2> QED
    BY <2>1, <2>2
<1>4. "ini" \in Side /\ "res" \in Side /\ (s = "ini" \/ s = "res")
  BY DEF Side
<1>5. Confirmed(par', ske'["ini"], ske'["res"], net'["ini"])
  BY <1>2, <1>4 DEF Turned
<1>6. InStream(par', ske'["ini"], ske'["res"], net'["ini"], net'["res"])
  BY <1>2, <1>4 DEF Turned
<1> QED
  BY <1>1, <1>3, <1>5, <1>6 DEF SkeInv

(* A step that leaves its side where it is, and sends nothing.             *)
LEMMA QuietStep ==
  ASSUME SkeInv, NEW s \in Side, NEW m \in SkeType, Turned(s, m), net' = net,
         Local(s, m, running' = s, par), Quiet(ske[s], m), m.told = ske[s].told,
         m.packet \in {"none", ske[s].packet}
  PROVE  SkeInv'
<1>1. net' \in [Side -> Seq(Packets)]
  BY SideFacts
<1>a. Confirmed(par, ske["ini"], ske["res"], net["ini"])
  BY DEF SkeInv
<1>2. CASE s = "ini"
  <2>1. InStream(par, m, ske["res"], net'["ini"], net'["res"])
    BY <1>2, QuietInitiator DEF SkeInv
  <2>2. Confirmed(par, m, ske["res"], net'["ini"])
    BY <1>2, <1>a, InitiatorConfirmed
  <2> QED
    BY <1>1, <1>2, <2>1, <2>2, Stepping
<1>3. CASE s = "res"
  <2>1. InStream(par, ske["ini"], m, net'["ini"], net'["res"])
    BY <1>3, QuietResponder DEF SkeInv
  <2>2. Confirmed(par, ske["ini"], m, net'["ini"])
    BY <1>3, <1>a, ResponderConfirmed
  <2> QED
    BY <1>1, <1>3, <2>1, <2>2, Stepping
<1> QED
  BY <1>2, <1>3 DEF Side

(* A step with which a side gives up, before it has sent anything for it.  *)
LEMMA GivesUpStep ==
  ASSUME SkeInv, NEW s \in Side, NEW m \in SkeType, Turned(s, m), net' = net,
         Local(s, m, running' = s, par), ske[s].started, m.started, ~Active(m),
         m.told = ske[s].told, m.packet \notin {"success", "failure"},
         s = "ini" /\ ~par.udp /\ m.next \in {"error", "aborted"} /\ Early(ske["res"], par)
           => net["res"] = <<>> /\ ske["res"].packet = "none"
  PROVE  SkeInv'
<1>1. net' \in [Side -> Seq(Packets)]
  BY SideFacts
<1>a. Confirmed(par, ske["ini"], ske["res"], net["ini"])
  BY DEF SkeInv
<1>2. CASE s = "ini"
  <2>1. InStream(par, m, ske["res"], net'["ini"], net'["res"])
    BY <1>2, InitiatorGivesUp DEF SkeInv
  <2>2. Confirmed(par, m, ske["res"], net'["ini"])
    BY <1>2, <1>a, InitiatorConfirmed
  <2> QED
    BY <1>1, <1>2, <2>1, <2>2, Stepping
<1>3. CASE s = "res"
  <2>1. InStream(par, ske["ini"], m, net'["ini"], net'["res"])
    BY <1>3, ResponderGivesUp DEF SkeInv
  <2>2. Confirmed(par, ske["ini"], m, net'["ini"])
    BY <1>3, <1>a, ResponderConfirmed
  <2> QED
    BY <1>1, <1>3, <2>1, <2>2, Stepping
<1> QED
  BY <1>2, <1>3 DEF Side

(* A step with which a side ends without success, with or without a        *)
(* FAILURE, and one with which the initiator ends with success.            *)
LEMMA EndStep ==
  ASSUME SkeInv, NEW s \in Side, NEW m \in SkeType, Turned(s, m),
         Local(s, m, running' = s, par), ske[s].started, Silent(m), m.packet = "none",
         \/ net' = net
         \/ net' = Sent(s, "failure") /\ ske[s].next \in {"error", "aborted"},
         s = "ini" /\ m.told = <<TRUE>> => par.no_acks \/ ske[s].packet = "success"
  PROVE  SkeInv'
<1>1. /\ Sent(s, "failure") \in [Side -> Seq(Packets)] /\ Sent(s, "failure")[s] = net[s]
      /\ ~par.udp => Sent(s, "failure")[Other(s)] = Append(net[Other(s)], "failure")
      /\ Has(Sent(s, "failure")[Other(s)], "success") => Has(net[Other(s)], "success")
  BY SideFacts, SentPackets DEF Packets
<1>2. net' \in [Side -> Seq(Packets)]
  BY <1>1, SideFacts
<1>3. CASE s = "ini"
  <2>1. InStream(par, m, ske["res"], net'["ini"], net'["res"])
    <3>1. CASE ~par.udp
      <4>1. \/ net'["res"] = net["res"]
            \/ net'["res"] = Append(net["res"], "failure") /\ ske["ini"].next \in {"error", "aborted"}
        BY <1>1, <1>3, <3>1 DEF Other
      <4>2. net'["ini"] = net["ini"]
        BY <1>1, <1>3
      <4>3. InStream(par, ske["ini"], ske["res"], net["ini"], net["res"])
        BY DEF SkeInv
      <4> QED
        BY <1>3, <4>1, <4>2, <4>3, InitiatorEnds
    <3>2. CASE par.udp
      BY <3>2 DEF InStream
    <3> QED
      BY <3>1, <3>2
  <2>2. Confirmed(par, m, ske["res"], net'["ini"])
    <3>1. net'["ini"] = net["ini"]
      BY <1>1, <1>3
    <3> QED
      BY <1>3, <3>1, InitiatorConfirmed DEF SkeInv
  <2> QED
    BY <1>2, <1>3, <2>1, <2>2, Stepping
<1>4. CASE s = "res"
  <2>1. InStream(par, ske["ini"], m, net'["ini"], net'["res"])
    <3>1. CASE ~par.udp
      <4>1. net'["ini"] = net["ini"] \/ net'["ini"] = Append(net["ini"], "failure")
        BY <1>1, <1>4, <3>1 DEF Other
      <4>2. net'["res"] = net["res"]
        BY <1>1, <1>4
      <4>3. InStream(par, ske["ini"], ske["res"], net["ini"], net["res"])
        BY DEF SkeInv
      <4> QED
        BY <1>4, <4>1, <4>2, <4>3, ResponderEnds
    <3>2. CASE par.udp
      BY <3>2 DEF InStream
    <3> QED
      BY <3>1, <3>2
  <2>2. Confirmed(par, ske["ini"], m, net'["ini"])
    <3>1. Has(net'["ini"], "success") => Has(net["ini"], "success")
      BY <1>1, <1>4 DEF Other
    <3>2. ske["res"].told # <<TRUE>>
      BY <1>4, SideFacts, <<>> # <<TRUE>> DEF Local, Lives
    <3> QED
      BY <3>1, <3>2, ResponderConfirmed DEF SkeInv
  <2> QED
    BY <1>2, <1>4, <2>1, <2>2, Stepping
<1> QED
  BY <1>3, <1>4 DEF Side

-----------------------------------------------------------------------------
(* The invariant is preserved by every action.                             *)

(* silc_ske_initiator, silc_ske_responder.                                 *)
LEMMA StartStep ==
  ASSUME SkeInv, NEW s \in Side, Start(s)
  PROVE  SkeInv'
<1> DEFINE k == ske[s]
           m == [k EXCEPT !.next = IF s = "ini" /\ par.prop THEN "phase2" ELSE "start",
                          !.started = TRUE, !.run = 1, !.linked = TRUE,
                          !.refcnt = @ + 1, !.timers = StartTimers(s)]
<1>1. /\ k = Idle /\ k \in SkeType /\ par \in ParType /\ net' = net
      /\ net \in [Side -> Seq(Packets)] /\ running' = running /\ running = "none"
  BY SideFacts DEF Start
<1>2. ske' = [ske EXCEPT ![s] = m]
  BY DEF Start, SkeInv, FullType
<1>3. StartTimers(s) \in SUBSET {"timeout", "probe", "retry"} /\ "retry" \notin StartTimers(s)
  BY DEF StartTimers
<1>4. m \in SkeType
  <2>1. (IF s = "ini" /\ par.prop THEN "phase2" ELSE "start") \in States /\ k.refcnt + 1 \in 0..2
        /\ 1 \in 0..2
    BY <1>1 DEF States, Idle
  <2>2. [k EXCEPT !.next = IF s = "ini" /\ par.prop THEN "phase2" ELSE "start",
                  !.started = TRUE, !.linked = TRUE] \in SkeType
    BY <1>1, <2>1 DEF SkeType
  <2> QED
    <3>1. 1 \in 0..2 /\ k.refcnt + 1 \in 0..2
      BY <2>1
    <3> QED
      BY <1>1, <1>3, <2>2, <3>1 DEF SkeType
<1>5. /\ m.next = (IF s = "ini" /\ par.prop THEN "phase2" ELSE "start")
      /\ m.run = 1 /\ m.refcnt = 2 /\ m.packet = "none" /\ m.told = <<>> /\ m.verdict = "none"
      /\ m.retrans = "none" /\ m.timers = StartTimers(s)
  BY <1>1 DEF Idle
<1>6. m.started /\ m.linked /\ ~m.fin /\ ~m.notified /\ ~m.aborted /\ m.owned
  BY <1>1 DEF Idle
<1> HIDE DEF m
<1>7. Local(s, m, FALSE, par) /\ Active(m)
  BY <1>1, <1>3, <1>4, <1>5, <1>6, Starts DEF Resends
<1>8. Turned(s, m) /\ (running' = s) = FALSE
  BY <1>1, <1>2 DEF Turned, Start, Side
<1>9. CASE s = "ini"
  <2>1. InStream(par, ske["ini"], ske["res"], net["ini"], net["res"])
    BY DEF SkeInv
  <2>2. InStream(par, m, ske["res"], net["ini"], net["res"])
    BY <1>1, <1>5, <1>7, <1>9, <2>1, InitiatorStarts
  <2>3. Confirmed(par, ske["ini"], ske["res"], net["ini"])
    BY DEF SkeInv
  <2>4. Confirmed(par, m, ske["res"], net["ini"])
    BY <1>5, <2>3, InitiatorConfirmed, <<>> # <<TRUE>>
  <2> QED
    BY <1>1, <1>4, <1>7, <1>8, <1>9, <2>2, <2>4, Stepping
<1>10. CASE s = "res"
  <2>1. InStream(par, ske["ini"], ske["res"], net["ini"], net["res"])
    BY DEF SkeInv
  <2>2. Early(k, par) /\ Early(m, par) /\ k.next = "null" /\ k.packet = "none"
        /\ k.told # <<TRUE>>
    BY <1>1, <1>5, <1>7, <1>10 DEF Early, Fresh, Idle
  <2>3. InStream(par, ske["ini"], m, net["ini"], net["res"])
    BY <1>1, <1>5, <1>7, <1>10, <2>1, <2>2, ResponderStarts
  <2>4. Confirmed(par, ske["ini"], ske["res"], net["ini"])
    BY DEF SkeInv
  <2>5. Confirmed(par, ske["ini"], m, net["ini"])
    BY <1>10, <2>2, <2>4, ResponderConfirmed
  <2> QED
    BY <1>1, <1>4, <1>7, <1>8, <1>10, <2>3, <2>5, Stepping
<1> QED
  BY <1>9, <1>10 DEF Side

(* silc_ske_abort.                                                         *)
LEMMA AbortStep ==
  ASSUME SkeInv, NEW s \in Side, Abort(s)
  PROVE  SkeInv'
<1> DEFINE k == ske[s]
           m == [k EXCEPT !.aborted = TRUE]
<1>1. /\ k \in SkeType /\ par \in ParType /\ net' = net /\ running' = running /\ running = "none"
      /\ k.told = <<>> /\ ~k.aborted /\ k.next # "null" /\ (running = s) = FALSE
      /\ Local(s, k, FALSE, par)
  BY SideFacts DEF Abort, Side
<1>2. ske' = [ske EXCEPT ![s] = m]
  BY DEF Abort, SkeInv, FullType
<1>3. m \in SkeType
  BY <1>1 DEF SkeType
<1>4. k.started
  BY <1>1 DEF Local, Lives, Fresh, Idle
<1>5. /\ m.next = k.next /\ m.refcnt = k.refcnt /\ m.verdict = k.verdict /\ m.told = k.told
      /\ m.packet = k.packet /\ m.run = k.run /\ m.timers = k.timers /\ m.retrans = k.retrans
  BY <1>1 DEF SkeType
<1>6. /\ Same(k, m) /\ m.aborted
      /\ m.owned <=> k.owned
      /\ m.ok <=> k.ok
      /\ m.notified <=> k.notified
  BY <1>1 DEF SkeType, Same
<1> HIDE DEF m
<1>7. Resends(s, m, par)
  BY <1>1, <1>5 DEF Local, Lives, Verified, Resends
<1>8. Local(s, m, FALSE, par)
  BY <1>1, <1>3, <1>4, <1>5, <1>6, <1>7, Stays
<1>9. Quiet(k, m) /\ Turned(s, m)
  BY <1>1, <1>2, <1>4, <1>5, <1>6 DEF Quiet, Turned, Same, Abort
<1> QED
  BY <1>1, <1>3, <1>5, <1>8, <1>9, QuietStep

(* The timer of a retransmission that another SKE deletes.                 *)
LEMMA RetryDeletedStep ==
  ASSUME SkeInv, NEW s \in Side, RetryDeletedByOther(s)
  PROVE  SkeInv'
<1> DEFINE k == ske[s]
           m == [k EXCEPT !.timers = @ \ {"retry"}]
<1>1. /\ k \in SkeType /\ par \in ParType /\ net' = net /\ running' = running /\ running = "none"
      /\ "retry" \in k.timers /\ (running = s) = FALSE /\ Local(s, k, FALSE, par)
  BY SideFacts DEF RetryDeletedByOther, Side
<1>2. ske' = [ske EXCEPT ![s] = m]
  BY DEF RetryDeletedByOther, SkeInv, FullType
<1>3. m \in SkeType
  BY <1>1 DEF SkeType
<1>4. k.started
  BY <1>1 DEF Local, Lives
<1>5. /\ m.next = k.next /\ m.refcnt = k.refcnt /\ m.verdict = k.verdict /\ m.told = k.told
      /\ m.packet = k.packet /\ m.run = k.run /\ "retry" \notin m.timers
      /\ m.retrans = k.retrans
  BY <1>1 DEF SkeType
<1>6. /\ Same(k, m)
      /\ m.aborted <=> k.aborted
      /\ m.owned <=> k.owned
      /\ m.ok <=> k.ok
      /\ m.notified <=> k.notified
  BY <1>1 DEF SkeType, Same
<1> HIDE DEF m
<1>7. Resends(s, m, par)
  BY <1>1, <1>5 DEF Local, Verified, Resends
<1>8. Local(s, m, FALSE, par)
  BY <1>1, <1>3, <1>4, <1>5, <1>6, <1>7, Stays
<1>9. Quiet(k, m) /\ Turned(s, m)
  BY <1>1, <1>2, <1>4, <1>5, <1>6 DEF Quiet, Turned, Same, RetryDeletedByOther
<1> QED
  BY <1>1, <1>3, <1>5, <1>8, <1>9, QuietStep

(* silc_fsm_run.                                                           *)
LEMMA RunTaskStep ==
  ASSUME SkeInv, NEW s \in Side, RunTask(s)
  PROVE  SkeInv'
<1> DEFINE k == ske[s]
           m == [k EXCEPT !.run = @ - 1]
<1>1. /\ k \in SkeType /\ par \in ParType /\ net' = net /\ running' = s /\ running = "none"
      /\ k.run > 0 /\ (running = s) = FALSE /\ Local(s, k, FALSE, par) /\ (running' = s) = TRUE
  BY SideFacts DEF RunTask, Side
<1>2. ske' = [ske EXCEPT ![s] = m]
  BY DEF RunTask, SkeInv, FullType
<1>3. m \in SkeType
  <2>1. k.run - 1 \in Nat
    BY <1>1 DEF SkeType
  <2> QED
    BY <1>1, <2>1 DEF SkeType
<1>4. k.started
  BY <1>1 DEF Local, Lives
<1>5. /\ m.next = k.next /\ m.refcnt = k.refcnt /\ m.verdict = k.verdict /\ m.told = k.told
      /\ m.packet = k.packet /\ m.run = k.run - 1 /\ m.timers = k.timers
      /\ m.retrans = k.retrans
  BY <1>1 DEF SkeType
<1>6. /\ Same(k, m)
      /\ m.aborted <=> k.aborted
      /\ m.owned <=> k.owned
      /\ m.ok <=> k.ok
      /\ m.notified <=> k.notified
  BY <1>1 DEF SkeType, Same
<1> HIDE DEF m
<1>7. Resends(s, m, par)
  BY <1>1, <1>5 DEF Local, Lives, Verified, Resends
<1>8. Local(s, m, TRUE, par)
  BY <1>1, <1>3, <1>5, <1>6, <1>7, IsRun
<1>9. Quiet(k, m) /\ Turned(s, m)
  BY <1>1, <1>2, <1>4, <1>5, <1>6 DEF Quiet, Turned, Same, RunTask
<1> QED
  BY <1>1, <1>3, <1>5, <1>8, <1>9, QuietStep

(* silc_ske_pk_verified, and an answer that the owner drops.               *)
LEMMA AnswerStep ==
  ASSUME SkeInv, NEW s \in Side, NEW trusted \in BOOLEAN, Answer(s, trusted)
  PROVE  SkeInv'
<1> DEFINE k == ske[s]
<1>1. /\ k \in SkeType /\ par \in ParType /\ net' = net /\ running' = running /\ running = "none"
      /\ k.verdict = "asked" /\ (running = s) = FALSE /\ Local(s, k, FALSE, par)
      /\ par.guarded /\ k.owned => k.told = <<>> /\ ~k.aborted
      /\ ~par.guarded => k.started
  BY SideFacts DEF Answer, Side
<1>2. CASE par.guarded /\ ~k.owned
  <2> DEFINE m == [k EXCEPT !.verdict = "none"]
  <2>1. ske' = [ske EXCEPT ![s] = m]
    BY <1>2 DEF Answer, SkeInv, FullType
  <2>2. m \in SkeType
    BY <1>1 DEF SkeType
  <2>3. Silent(k) /\ ~k.started /\ ~k.linked
    <3>1. ~k.started /\ ~k.linked
      BY <1>1, <1>2 DEF Local, Lives
    <3>2. ~Fresh(k)
      BY <1>1 DEF Local, Lives, Idle
    <3> QED
      BY <3>1, <3>2 DEF Silent
  <2>4. /\ m.refcnt = k.refcnt /\ m.verdict = "none" /\ m.told = k.told
        /\ m.packet = k.packet /\ m.run = k.run /\ m.timers = k.timers /\ m.retrans = k.retrans
    BY <1>1 DEF SkeType
  <2>5. /\ Same(k, m)
        /\ m.aborted <=> k.aborted
        /\ m.owned <=> k.owned
        /\ m.notified <=> k.notified
    BY <1>1 DEF SkeType, Same
  <2> HIDE DEF m
  <2>6. m.refcnt = (IF m.owned THEN 1 ELSE 0) + (IF m.fin THEN 1 ELSE 0)
    BY <1>1, <2>3, <2>4, <2>5 DEF Local, Lives, Same
  <2>7. Local(s, m, FALSE, par) /\ Silent(m)
    BY <1>1, <2>2, <2>3, <2>4, <2>5, <2>6, Rests DEF Same
  <2>8. Quiet(k, m) /\ Turned(s, m)
    BY <1>1, <2>1, <2>3, <2>7 DEF Quiet, Turned, Answer
  <2> QED
    BY <1>1, <2>2, <2>4, <2>7, <2>8, QuietStep
<1>3. CASE ~(par.guarded /\ ~k.owned)
  <2> DEFINE m == [k EXCEPT !.verdict = IF trusted THEN "yes" ELSE "no",
                            !.ok = trusted, !.run = @ + 1]
  <2>1. ske' = [ske EXCEPT ![s] = m]
    BY <1>3 DEF Answer, SkeInv, FullType
  <2>2. k.started
    BY <1>1, <1>3 DEF Local, Verified, ParType
  <2>3. k.run + 1 \in Nat /\ (IF trusted THEN "yes" ELSE "no") \in {"none", "asked", "yes", "no"}
    BY <1>1 DEF Local, Woken, SkeType
  <2>4. m \in SkeType
    BY <1>1, <2>3 DEF SkeType
  <2>5. /\ m.next = k.next /\ m.refcnt = k.refcnt /\ m.told = k.told
        /\ m.packet = k.packet /\ m.run = k.run + 1 /\ m.timers = k.timers
        /\ m.retrans = k.retrans
    BY <1>1 DEF SkeType
  <2>6. m.verdict = (IF trusted THEN "yes" ELSE "no") /\ (m.ok <=> trusted)
    BY <1>1 DEF SkeType
  <2>7. /\ Same(k, m)
        /\ m.aborted <=> k.aborted
        /\ m.owned <=> k.owned
        /\ m.notified <=> k.notified
    BY <1>1 DEF SkeType, Same
  <2> HIDE DEF m
  <2>8. Resends(s, m, par)
    BY <1>1, <2>5 DEF Local, Resends
  <2>9. m.verdict = IF m.ok THEN "yes" ELSE "no"
    BY <2>6
  <2>10. Local(s, m, FALSE, par)
    BY <1>1, <2>2, <2>4, <2>5, <2>7, <2>8, <2>9, IsAnswered
  <2>11. Quiet(k, m) /\ Turned(s, m)
    BY <1>1, <2>1, <2>2, <2>5, <2>7 DEF Quiet, Turned, Same, Answer
  <2> QED
    BY <1>1, <2>4, <2>5, <2>10, <2>11, QuietStep
<1> QED
  BY <1>2, <1>3

(* silc_ske_free, but for the state function it may run.                   *)
LEMMA ReleasedFields ==
  ASSUME NEW k \in SkeType, k.refcnt > 0
  PROVE  /\ Released(k) \in SkeType /\ Same(k, Released(k))
         /\ Released(k).refcnt = k.refcnt - 1
         /\ Released(k).run = k.run /\ Released(k).verdict = k.verdict
         /\ Released(k).timers = k.timers /\ Released(k).retrans = k.retrans
         /\ Released(k).packet \in {"none", k.packet}
         /\ k.notified => Released(k).notified /\ Released(k).next = k.next
         /\ k.aborted => Released(k).notified /\ Released(k).packet = "none"
         /\ k.aborted /\ ~k.notified => Released(k).next = "failure"
         /\ Released(k).aborted <=> k.aborted
         /\ Released(k).owned <=> k.owned
<1> DEFINE c == [k EXCEPT !.packet = "none", !.ok = FALSE]
           d == IF k.aborted THEN Notified(c) ELSE k
<1>1. k.refcnt - 1 \in 0..2
  BY DEF SkeType
<1>2. c \in SkeType
  BY DEF SkeType
<1>3. /\ c.next = k.next /\ c.packet = "none" /\ c.run = k.run /\ c.refcnt = k.refcnt
      /\ c.verdict = k.verdict /\ c.timers = k.timers /\ c.retrans = k.retrans
  BY DEF SkeType
<1>4. /\ Same(k, c)
      /\ c.aborted <=> k.aborted
      /\ c.owned <=> k.owned
      /\ c.notified <=> k.notified
  BY DEF SkeType, Same
<1> HIDE DEF c
<1>5. "ini" \in Side
  BY DEF Side
<1>6. /\ d \in SkeType /\ Same(k, d) /\ d.run = k.run /\ d.refcnt = k.refcnt
      /\ d.verdict = k.verdict /\ d.timers = k.timers /\ d.retrans = k.retrans
      /\ d.packet \in {"none", k.packet}
      /\ k.notified => d.notified /\ d.next = k.next
      /\ k.aborted => d.notified /\ d.packet = "none"
      /\ k.aborted /\ ~k.notified => d.next = "failure"
      /\ d.aborted <=> k.aborted
      /\ d.owned <=> k.owned
  <2>1. CASE k.aborted
    BY <1>2, <1>3, <1>4, <1>5, <2>1, NotifiedFields DEF Same
  <2>2. CASE ~k.aborted
    BY <2>2 DEF Same
  <2> QED
    BY <2>1, <2>2
<1>7. Released(k) = [d EXCEPT !.refcnt = @ - 1]
  BY DEF Released, c
<1> HIDE DEF d
<1> DEFINE m == [d EXCEPT !.refcnt = @ - 1]
<1>8. m \in SkeType
  BY <1>1, <1>6 DEF SkeType
<1>9. /\ m.next = d.next /\ m.packet = d.packet /\ m.run = d.run /\ m.refcnt = d.refcnt - 1
      /\ m.verdict = d.verdict /\ m.timers = d.timers /\ m.retrans = d.retrans
  BY <1>6 DEF SkeType
<1>10. /\ Same(d, m)
       /\ m.aborted <=> d.aborted
       /\ m.owned <=> d.owned
       /\ m.notified <=> d.notified
  BY <1>6 DEF SkeType, Same
<1> HIDE DEF m
<1> QED
  BY <1>6, <1>7, <1>8, <1>9, <1>10 DEF Same, m

(* silc_fsm_finish_fsm and its destructor.                                 *)
LEMMA FinishTaskStep ==
  ASSUME SkeInv, NEW s \in Side, FinishTask(s)
  PROVE  SkeInv'
<1> DEFINE k == ske[s]
           c == [k EXCEPT !.fin = FALSE, !.next = "null"]
           m == Released(c)
<1>1. /\ k \in SkeType /\ par \in ParType /\ net' = net /\ running' = running /\ running = "none"
      /\ k.fin /\ (running = s) = FALSE /\ Local(s, k, FALSE, par)
  BY SideFacts DEF FinishTask, Side
<1>2. ske' = [ske EXCEPT ![s] = m]
  BY DEF FinishTask, SkeInv, FullType
<1>3. c \in SkeType
  BY <1>1 DEF SkeType, States
<1>4. /\ c.packet = k.packet /\ c.run = k.run /\ c.refcnt = k.refcnt /\ c.told = k.told
      /\ c.verdict = k.verdict /\ c.timers = k.timers /\ c.retrans = k.retrans
  BY <1>1 DEF SkeType
<1>5. /\ ~c.fin
      /\ c.started <=> k.started
      /\ c.linked <=> k.linked
      /\ c.aborted <=> k.aborted
      /\ c.owned <=> k.owned
      /\ c.notified <=> k.notified
  BY <1>1 DEF SkeType
<1>6. Silent(k) /\ ~k.started /\ ~k.linked /\ k.refcnt = (IF k.owned THEN 1 ELSE 0) + 1
  <2>1. ~k.started /\ ~k.linked /\ k.refcnt = (IF k.owned THEN 1 ELSE 0) + 1
    BY <1>1 DEF Local, Lives
  <2>2. ~Fresh(k)
    BY <1>1 DEF Local, Lives, Idle
  <2> QED
    BY <2>1, <2>2 DEF Silent
<1> HIDE DEF c
<1>7. /\ m \in SkeType /\ Same(c, m) /\ m.refcnt = c.refcnt - 1 /\ m.run = c.run
      /\ m.verdict = c.verdict /\ m.timers = c.timers /\ m.retrans = c.retrans
      /\ m.packet \in {"none", c.packet}
      /\ c.notified => m.notified
      /\ m.aborted <=> c.aborted
      /\ m.owned <=> c.owned
  BY <1>3, <1>4, <1>6, ReleasedFields
<1> HIDE DEF m
<1>8. ~m.started /\ ~m.fin /\ ~m.linked /\ m.told = k.told
  BY <1>4, <1>5, <1>6, <1>7 DEF Same
<1>9. m.refcnt = (IF m.owned THEN 1 ELSE 0) + (IF m.fin THEN 1 ELSE 0)
  BY <1>4, <1>5, <1>6, <1>7, <1>8
<1>10. Local(s, m, FALSE, par) /\ Silent(m)
  <2>1. /\ m.run = k.run /\ m.verdict = k.verdict /\ m.timers = k.timers
        /\ m.retrans = k.retrans /\ m.packet \in {"none", k.packet}
    BY <1>4, <1>7
  <2>2. /\ k.notified => m.notified
        /\ m.aborted <=> k.aborted
        /\ m.owned <=> k.owned
    BY <1>5, <1>7
  <2> QED
    BY <1>1, <1>6, <1>7, <1>8, <1>9, <2>1, <2>2, Rests
<1>11. Quiet(k, m) /\ Turned(s, m)
  BY <1>1, <1>2, <1>6, <1>10 DEF Quiet, Turned, FinishTask
<1> QED
  BY <1>1, <1>4, <1>7, <1>8, <1>10, <1>11, QuietStep

(* silc_ske_free by the owner.                                             *)
LEMMA FreeStep ==
  ASSUME SkeInv, NEW s \in Side, Free(s)
  PROVE  SkeInv'
<1> DEFINE k == ske[s]
           c == Released(k)
           m == [c EXCEPT !.owned = FALSE]
<1>1. /\ k \in SkeType /\ par \in ParType /\ net' = net /\ running = "none"
      /\ k.owned /\ (k.told # <<>> \/ k.aborted) /\ (running = s) = FALSE
      /\ Local(s, k, FALSE, par)
      /\ running' = IF k.aborted /\ k.started THEN s ELSE "none"
  BY SideFacts DEF Free, Side
<1>2. ske' = [ske EXCEPT ![s] = m]
  BY DEF Free, SkeInv, FullType
<1>3. k.refcnt = 1 + (IF k.started \/ k.fin THEN 1 ELSE 0)
  BY <1>1 DEF Local, Lives
<1>4. /\ c \in SkeType /\ Same(k, c) /\ c.refcnt = k.refcnt - 1 /\ c.run = k.run
      /\ c.verdict = k.verdict /\ c.timers = k.timers /\ c.retrans = k.retrans
      /\ c.packet \in {"none", k.packet}
      /\ k.notified => c.notified /\ c.next = k.next
      /\ k.aborted => c.notified /\ c.packet = "none"
      /\ k.aborted /\ ~k.notified => c.next = "failure"
      /\ c.aborted <=> k.aborted
  BY <1>1, <1>3, ReleasedFields
<1> HIDE DEF c
<1>5. m \in SkeType
  BY <1>4 DEF SkeType
<1>6. /\ m.next = c.next /\ m.packet = c.packet /\ m.run = c.run /\ m.refcnt = c.refcnt
      /\ m.verdict = c.verdict /\ m.timers = c.timers /\ m.retrans = c.retrans
      /\ m.told = k.told
  BY <1>4 DEF SkeType, Same
<1>7. /\ Same(k, m) /\ ~m.owned
      /\ m.aborted <=> k.aborted
      /\ m.notified <=> c.notified
  BY <1>4 DEF SkeType, Same
<1> HIDE DEF m
<1>8. CASE k.started
  <2>1. k.told = <<>> /\ k.aborted /\ running' = s /\ (running' = s) = TRUE
    BY <1>1, <1>8 DEF Local, Lives
  <2>2. m.next = "failure" /\ m.notified
    BY <1>1, <1>4, <1>6, <1>7, <1>8, <2>1 DEF Local, Where, Active
  <2>3. Resends(s, m, par)
    BY <1>1, <1>4, <1>6 DEF Local, Resends
  <2>4. m.refcnt = (IF m.owned THEN 1 ELSE 0) + 1
    BY <1>3, <1>4, <1>6, <1>7, <1>8
  <2>5. Local(s, m, TRUE, par)
    BY <1>1, <1>4, <1>5, <1>6, <1>7, <1>8, <2>1, <2>2, <2>3, <2>4, GivesUp
  <2>6. Turned(s, m) /\ ~Active(m) /\ m.started
    BY <1>1, <1>2, <1>7, <1>8, <2>1, <2>2 DEF Turned, Free, Active, Same
  <2> QED
    BY <1>1, <1>4, <1>5, <1>6, <1>8, <2>1, <2>2, <2>5, <2>6, GivesUpStep
<1>9. CASE ~k.started
  <2>1. Silent(k) /\ ~k.linked
    BY <1>1, <1>9 DEF Local, Lives, Silent, Fresh
  <2>2. ~m.started /\ ~m.linked /\ (m.fin <=> k.fin) /\ m.told = k.told
    BY <1>7, <1>9, <2>1 DEF Same
  <2>3. m.refcnt = (IF m.owned THEN 1 ELSE 0) + (IF m.fin THEN 1 ELSE 0)
    BY <1>3, <1>4, <1>6, <1>7, <1>9, <2>2
  <2>4. Local(s, m, FALSE, par) /\ Silent(m)
    BY <1>1, <1>4, <1>5, <1>6, <1>7, <2>1, <2>2, <2>3, Rests
  <2>5. running' = "none" /\ (running' = s) = FALSE
    BY <1>1, <1>9 DEF Side
  <2>6. Quiet(k, m) /\ Turned(s, m)
    BY <1>1, <1>2, <2>1, <2>4, <2>5 DEF Quiet, Turned, Free
  <2> QED
    BY <1>1, <1>4, <1>5, <1>6, <2>4, <2>5, <2>6, QuietStep
<1> QED
  BY <1>8, <1>9

(* silc_ske_timeout and silc_ske_probe_timeout.                            *)
LEMMA TimeoutStep ==
  ASSUME SkeInv, NEW s \in Side, NEW which \in {"timeout", "probe"}, Timeout(s, which)
  PROVE  SkeInv'
<1> DEFINE k == ske[s]
           c == [k EXCEPT !.timers = @ \ {which}, !.packet = "none", !.ok = FALSE]
           m == Notified(c)
<1>1. /\ k \in SkeType /\ par \in ParType /\ net' = net /\ running = "none" /\ running' = s
      /\ which \in k.timers /\ (running = s) = FALSE /\ (running' = s) = TRUE
      /\ Local(s, k, FALSE, par)
  BY SideFacts DEF Timeout, Side
<1>2. ske' = [ske EXCEPT ![s] = m]
  BY Zenon DEF Timeout
<1>3. k.started /\ k.told = <<>> /\ k.owned /\ ~k.fin
  BY <1>1 DEF Local, Lives
<1>4. c \in SkeType
  BY <1>1 DEF SkeType
<1>5. /\ c.next = k.next /\ c.packet = "none" /\ c.run = k.run /\ c.refcnt = k.refcnt
      /\ c.verdict = k.verdict /\ c.timers = k.timers \ {which} /\ c.retrans = k.retrans
  BY <1>1 DEF SkeType
<1>6. /\ Same(k, c)
      /\ c.aborted <=> k.aborted
      /\ c.owned <=> k.owned
      /\ c.notified <=> k.notified
  BY <1>1 DEF SkeType, Same
<1> HIDE DEF c
<1>7. /\ m \in SkeType /\ Same(c, m) /\ m.notified /\ m.packet = c.packet /\ m.run = c.run
      /\ m.next = IF c.notified THEN c.next ELSE "failure"
      /\ m.refcnt = c.refcnt /\ m.verdict = c.verdict
      /\ m.timers = c.timers /\ m.retrans = c.retrans
      /\ m.aborted <=> c.aborted
      /\ m.owned <=> c.owned
  BY <1>4, NotifiedFields
<1> HIDE DEF m
<1>8. m.next = "failure" /\ Same(k, m) /\ m.told = k.told
  BY <1>1, <1>3, <1>5, <1>6, <1>7 DEF Local, Where, Active, Same
<1>9. Resends(s, m, par)
  BY <1>1, <1>5, <1>7 DEF Local, Resends
<1>10. m.refcnt = (IF m.owned THEN 1 ELSE 0) + 1
  BY <1>1, <1>3, <1>5, <1>6, <1>7 DEF Local, Lives
<1>11. Local(s, m, TRUE, par)
  BY <1>1, <1>3, <1>5, <1>6, <1>7, <1>8, <1>9, <1>10, GivesUp
<1>12. Turned(s, m) /\ ~Active(m) /\ m.started
  BY <1>1, <1>2, <1>3, <1>7, <1>8 DEF Turned, Timeout, Active, Same
<1> QED
  BY <1>1, <1>3, <1>5, <1>7, <1>8, <1>11, <1>12, GivesUpStep

(* silc_ske_packet_send_retry.                                             *)
LEMMA RetryStep ==
  ASSUME SkeInv, NEW s \in Side, Retry(s)
  PROVE  SkeInv'
<1> DEFINE k == ske[s]
           c == [k EXCEPT !.timers = @ \ {"retry"}]
<1>1. /\ k \in SkeType /\ par \in ParType /\ running = "none"
      /\ "retry" \in k.timers /\ (running = s) = FALSE
      /\ Local(s, k, FALSE, par)
  BY SideFacts DEF Retry, Side
<1>2. k.started /\ k.told = <<>> /\ k.owned /\ ~k.fin /\ k.packet # "success"
  BY <1>1 DEF Local, Lives, Woken, Where
<1>3. par.udp /\ k.retrans \in Packets /\ (s = "res" => k.retrans # "success")
  BY <1>1 DEF Local, Resends, SkeType
<1>4. c \in SkeType
  BY <1>1 DEF SkeType
<1>5. Alike(k, c) /\ c.retrans = k.retrans /\ "retry" \notin c.timers /\ c.retry = k.retry
  BY <1>1 DEF SkeType, Alike, Same
<1>6. CASE /\ Exhausted(c)
           /\ ske' = [ske EXCEPT ![s] = Notified([c EXCEPT !.retry = 0, !.retrans = "none",
                                                           !.ok = FALSE])]
           /\ running' = s
           /\ UNCHANGED net
  <2> DEFINE d == [c EXCEPT !.retry = 0, !.retrans = "none", !.ok = FALSE]
             m == Notified(d)
  <2>1. 0 \in 0..RetryCount
    BY ParamsAssumption
  <2> HIDE DEF c
  <2>2. d \in SkeType
    BY <1>4, <2>1 DEF SkeType
  <2>3. /\ d.next = c.next /\ d.packet = c.packet /\ d.run = c.run /\ d.refcnt = c.refcnt
        /\ d.verdict = c.verdict /\ d.timers = c.timers /\ d.retrans = "none"
    BY <1>4 DEF SkeType
  <2>4. /\ Same(c, d)
        /\ d.aborted <=> c.aborted
        /\ d.owned <=> c.owned
        /\ d.notified <=> c.notified
    BY <1>4 DEF SkeType, Same
  <2>5. ske' = [ske EXCEPT ![s] = m]
    BY <1>6
  <2> HIDE DEF d
  <2>6. /\ m \in SkeType /\ Same(d, m) /\ m.notified /\ m.packet = d.packet /\ m.run = d.run
        /\ m.next = IF d.notified THEN d.next ELSE "failure"
        /\ m.refcnt = d.refcnt /\ m.verdict = d.verdict
        /\ m.timers = d.timers /\ m.retrans = d.retrans
        /\ m.aborted <=> d.aborted
        /\ m.owned <=> d.owned
    BY <2>2, NotifiedFields
  <2> HIDE DEF m
  <2>7. Same(k, m) /\ m.told = k.told /\ m.packet = k.packet /\ m.run = k.run
        /\ m.verdict = k.verdict /\ (m.aborted <=> k.aborted) /\ (m.owned <=> k.owned)
    BY <1>5, <2>3, <2>4, <2>6 DEF Same, Alike
  <2>8. m.next = "failure"
    BY <1>1, <1>2, <1>5, <2>3, <2>4, <2>6 DEF Local, Where, Active, Alike
  <2>9. Resends(s, m, par)
    BY <1>5, <2>3, <2>6 DEF Resends
  <2>10. m.refcnt = (IF m.owned THEN 1 ELSE 0) + 1
    BY <1>1, <1>2, <1>5, <2>3, <2>6, <2>7 DEF Local, Lives, Alike
  <2>11. Local(s, m, TRUE, par)
    BY <1>1, <1>2, <2>6, <2>7, <2>8, <2>9, <2>10, GivesUp
  <2>12. Turned(s, m) /\ ~Active(m) /\ m.started /\ (running' = s) = TRUE
    BY <1>1, <1>2, <1>6, <2>5, <2>6, <2>7 DEF Turned, Retry, Active, Same
  <2>13. CASE k.notified
    <3>1. Quiet(k, m)
      BY <1>1, <1>2, <2>6, <2>7, <2>8, <2>12, <2>13 DEF Quiet, Local, Where, Active
    <3> QED
      BY <1>6, <2>6, <2>7, <2>11, <2>12, <3>1, QuietStep
  <2>14. CASE ~k.notified
    <3>1. k.packet # "failure"
      BY <1>1, <2>14 DEF Local, Woken
    <3> QED
      BY <1>2, <1>6, <2>6, <2>7, <2>8, <2>11, <2>12, <3>1, GivesUpStep
  <2> QED
    BY <2>13, <2>14
<1>7. CASE /\ ~Exhausted(c)
           /\ ske' = [ske EXCEPT ![s] = Armed([c EXCEPT !.retry = @ + 1])]
           /\ net' = Sent(s, c.retrans)
           /\ UNCHANGED running
  <2> DEFINE d == [c EXCEPT !.retry = @ + 1]
             m == Armed(d)
  <2> HIDE DEF c
  <2>1. c.retry + 1 \in 0..RetryCount
    BY <1>4, <1>7, ParamsAssumption DEF Exhausted, SkeType
  <2>2. d \in SkeType
    BY <1>4, <2>1 DEF SkeType
  <2>3. Alike(c, d) /\ d.retrans = c.retrans /\ d.timers = c.timers
    BY <1>4 DEF SkeType, Alike, Same
  <2>4. ske' = [ske EXCEPT ![s] = m] /\ net' = Sent(s, k.retrans)
    BY <1>5, <1>7
  <2> HIDE DEF d
  <2>5. Resends(s, d, par)
    BY <1>3, <1>5, <2>3 DEF Resends
  <2>6. m \in SkeType /\ Alike(d, m) /\ Resends(s, m, par)
    BY <2>2, <2>5, ArmedAlike
  <2> HIDE DEF m
  <2>7. Alike(k, m)
    BY <1>5, <2>3, <2>6 DEF Alike, Same
  <2>8. Local(s, m, FALSE, par)
    BY <1>1, <1>2, <2>6, <2>7, Stays DEF Alike
  <2>9. Turned(s, m) /\ (running' = s) = FALSE
    BY <1>1, <1>7, <2>4 DEF Turned, Retry
  <2>10. /\ net' \in [Side -> Seq(Packets)] /\ net'[s] = net[s]
         /\ \A x \in Packets : Has(net'[Other(s)], x) => Has(net[Other(s)], x) \/ k.retrans = x
    BY <1>3, <2>4, SideFacts, SentPackets
  <2>11. Confirmed(par, ske["ini"], ske["res"], net["ini"])
    BY DEF SkeInv
  <2>12. CASE s = "ini"
    <3>1. Confirmed(par, m, ske["res"], net'["ini"])
      BY <2>7, <2>10, <2>11, <2>12, InitiatorConfirmed DEF Alike, Same
    <3>2. InStream(par, m, ske["res"], net'["ini"], net'["res"])
      BY <1>3 DEF InStream
    <3> QED
      BY <2>6, <2>8, <2>9, <2>10, <2>12, <3>1, <3>2, Stepping
  <2>13. CASE s = "res"
    <3>1. Has(net'["ini"], "success") => Has(net["ini"], "success")
      BY <1>3, <2>10, <2>13 DEF Other, Packets
    <3>2. Confirmed(par, ske["ini"], m, net'["ini"])
      BY <2>7, <2>11, <2>13, <3>1, ResponderConfirmed DEF Alike, Same
    <3>3. InStream(par, ske["ini"], m, net'["ini"], net'["res"])
      BY <1>3 DEF InStream
    <3> QED
      BY <2>6, <2>8, <2>9, <2>10, <2>13, <3>2, <3>3, Stepping
  <2> QED
    BY <2>12, <2>13 DEF Side
<1> QED
  BY <1>6, <1>7 DEF Retry

(* A packet that nobody is linked for.                                     *)
LEMMA IgnoreStep ==
  ASSUME SkeInv, NEW s \in Side, Ignore(s)
  PROVE  SkeInv'
<1> DEFINE k == ske[s]
<1>1. /\ k \in SkeType /\ Local(s, k, FALSE, par) /\ ske' = ske /\ par' = par
      /\ running' = running /\ running = "none" /\ ~par.udp /\ k # Idle /\ ~k.linked
      /\ net[s] # <<>> /\ net' = [net EXCEPT ![s] = Tail(net[s])]
      /\ net \in [Side -> Seq(Packets)] /\ net[s] \in Seq(Packets)
    BY SideFacts DEF Ignore, Side
<1>2. Tail(net[s]) \in Seq(Packets) /\ (Has(Tail(net[s]), "success") => Has(net[s], "success"))
  BY <1>1, HasItems DEF Packets
<1>3. net' \in [Side -> Seq(Packets)] /\ net'[s] = Tail(net[s])
      /\ \A o \in Side : o # s => net'[o] = net[o]
  BY <1>1, <1>2
<1>4. Silent(k) /\ ~Takes(k) /\ ~Early(k, par) /\ ~k.started
  BY <1>1 DEF Local, Lives, Silent, Takes, Early, Active
<1>5. InStream(par, ske["ini"], ske["res"], net["ini"], net["res"])
      /\ Confirmed(par, ske["ini"], ske["res"], net["ini"])
  BY DEF SkeInv
<1>6. NoFailure(net[s]) => NoFailure(Tail(net[s]))
  BY <1>1, NoFailures
<1>7. CASE s = "ini"
  <2>1. net'["res"] = net["res"] /\ net'["ini"] = Tail(net["ini"])
    BY <1>3, <1>7 DEF Side
  <2>2. Confirmed(par, ske["ini"], ske["res"], net'["ini"])
    BY <1>2, <1>5, <1>7, <2>1, InitiatorConfirmed
  <2>3. InStream(par, ske["ini"], ske["res"], net'["ini"], net'["res"])
    BY <1>1, <1>4, <1>5, <1>6, <1>7, <2>1 DEF InStream, Last, NotAhead
  <2> QED
    BY <1>1, <1>3, <2>2, <2>3 DEF SkeInv, FullType
<1>8. CASE s = "res"
  <2>1. net'["ini"] = net["ini"] /\ net'["res"] = Tail(net["res"])
    BY <1>3, <1>8 DEF Side
  <2>2. InStream(par, ske["ini"], ske["res"], net'["ini"], net'["res"])
    BY <1>1, <1>4, <1>5, <1>6, <1>8, <2>1 DEF InStream, Last, NotAhead
  <2> QED
    BY <1>1, <1>3, <1>5, <2>1, <2>2 DEF SkeInv, FullType
<1> QED
  BY <1>7, <1>8 DEF Side

(* A packet t that is delivered to side s.                                 *)
Delivers(s, t) ==
  /\ running = "none" /\ ske[s].linked /\ par' = par
  /\ par.udp => ske[s].run = 0
  /\ ske[s].verdict = "asked" => ~par.udp
  /\ t \in Packets /\ Has(net[s], t)
  /\ ~par.udp => net[s] # <<>> /\ t = Head(net[s])
  /\ net' = IF par.udp THEN net ELSE [net EXCEPT ![s] = Tail(net[s])]

(* What a delivery finds: the SKE takes part in the exchange, and the      *)
(* packet is one that it waits for, or the FAILURE of the other side.      *)
LEMMA DeliverFacts ==
  ASSUME SkeInv, NEW s \in Side, NEW t, Delivers(s, t)
  PROVE  /\ ske[s] \in SkeType /\ par \in ParType /\ Local(s, ske[s], FALSE, par)
         /\ Active(ske[s]) /\ ske[s].run < 2
         /\ \/ t = "failure"
            \/ /\ ske[s].packet = "none"
               /\ Reads(s, ske[s], par) \/ (s = "res" /\ ske[s].next = "start" /\ t # "success")
         /\ net' \in [Side -> Seq(Packets)] /\ net'[Other(s)] = net[Other(s)]
         /\ net[s] \in Seq(Packets)
         /\ ~par.udp => net'[s] = Tail(net[s]) /\ net[s] # <<>> /\ t = Head(net[s])
         /\ Has(net'[s], "success") => Has(net[s], "success")
         /\ ~par.udp /\ t = "failure" => net'[s] = <<>> /\ Silent(ske[Other(s)])
<1> DEFINE k == ske[s]
           o == Other(s)
<1>1. /\ k \in SkeType /\ par \in ParType /\ Local(s, k, FALSE, par)
      /\ net \in [Side -> Seq(Packets)] /\ net[s] \in Seq(Packets) /\ o \in Side /\ o # s
      /\ k.started /\ ~(par.udp /\ par.guarded)
  <2>1. (running = s) = FALSE
    BY DEF Delivers, Side
  <2> QED
    BY <2>1, SideFacts DEF Delivers, Local, Lives
<1>2. /\ net' \in [Side -> Seq(Packets)] /\ net'[o] = net[o]
      /\ ~par.udp => net'[s] = Tail(net[s]) /\ net[s] # <<>> /\ t = Head(net[s])
      /\ par.udp => net'[s] = net[s]
  <2>1. CASE par.udp
    BY <1>1, <2>1 DEF Delivers
  <2>2. CASE ~par.udp
    <3>1. Tail(net[s]) \in Seq(Packets)
      BY <1>1, <2>2, HasItems DEF Delivers, Packets
    <3> QED
      BY <1>1, <2>2, <3>1 DEF Delivers
  <2> QED
    BY <2>1, <2>2
<1>3. Has(net'[s], "success") => Has(net[s], "success")
  <2>1. "success" \in Packets
    BY DEF Packets
  <2>2. net[s] # <<>> => (Has(Tail(net[s]), "success") => Has(net[s], "success"))
    BY <1>1, <2>1, HasItems
  <2> QED
    BY <1>2, <2>2
<1>4. InStream(par, ske["ini"], ske["res"], net["ini"], net["res"])
  BY DEF SkeInv
<1>5. ~par.udp => Last(k, ske[o], net[s]) /\ (Takes(k) => Inbox(s, k, par, net[s]))
  BY <1>4 DEF InStream, Other, Side
<1>6. Active(k)
  <2>1. k.notified => k.packet = "failure" /\ k.run > 0
    BY <1>1 DEF Local, Woken
  <2>2. ~k.notified
    BY <1>1, <1>2, <1>5, <2>1 DEF Last, Delivers
  <2> QED
    BY <1>1, <2>2 DEF Local, Where, Active
<1>7. ~par.udp /\ k.next = "start" /\ s = "res" => k.packet = "none"
  <2> SUFFICES ASSUME ~par.udp, k.next = "start", s = "res"
               PROVE  k.packet = "none"
    OBVIOUS
  <2>1. Early(k, par)
    BY <1>6 DEF Early
  <2> QED
    BY <1>2, <1>4, <2>1 DEF InStream, NotAhead, OneOf
<1>8. k.run < 2
  BY <1>1, <1>6, <1>7 DEF Local, Woken, Reads, Side, Where, SkeType, Active, Working, Delivers, ParType
<1>9. ASSUME par.udp
      PROVE  k.packet = "none" /\ Reads(s, k, par)
  <2>1. k.run = 0 /\ k.verdict # "asked"
    BY <1>1, <1>9 DEF Delivers
  <2>2. Reads(s, k, par)
    BY <1>1, <1>6, <2>1 DEF Local, Woken, Reads, Side, Where, Active, Working
  <2> QED
    BY <1>1, <1>6, <2>1, <2>2 DEF Local, Woken
<1>10. ASSUME ~par.udp, t # "failure"
       PROVE  /\ k.packet = "none"
              /\ Reads(s, k, par) \/ (s = "res" /\ k.next = "start" /\ t # "success")
  <2>1. Inbox(s, k, par, net[s]) /\ net[s] # <<>> /\ t = Head(net[s])
    BY <1>2, <1>5, <1>6, <1>10 DEF Takes
  <2>2. net[s] # <<"failure">>
    BY <1>10, <2>1, Contents
  <2>3. k.packet = "none"
    BY <2>1, <2>2 DEF Inbox
  <2>4. PICK x \in Packets : Awaits(s, k, par, x) /\ (net[s] = <<x>> \/ net[s] = <<x, "failure">>)
    BY <2>1, <2>2 DEF Inbox
  <2>5. t = x
    BY <2>1, <2>4, Contents
  <2>6. ~Fresh(k)
    BY <1>6 DEF Active, Fresh
  <2> QED
    BY <2>3, <2>4, <2>5, <2>6 DEF Awaits, Reads, First
<1>11. ASSUME ~par.udp, t = "failure"
       PROVE  net'[s] = <<>> /\ Silent(ske[o])
  <2>1. Inbox(s, k, par, net[s]) /\ net[s] # <<>> /\ t = Head(net[s])
    BY <1>2, <1>5, <1>6, <1>11 DEF Takes
  <2>2. net[s] = <<"failure">>
    <3>1. ASSUME NEW x \in Packets, Awaits(s, k, par, x), net[s] = <<x>> \/ net[s] = <<x, "failure">>
          PROVE  FALSE
      <4>1. x = "failure"
        BY <1>11, <2>1, <3>1, Contents
      <4> QED
        BY <3>1, <4>1 DEF Awaits, First
    <3> QED
      BY <2>1, <3>1 DEF Inbox
  <2>3. ~NoFailure(net[s])
    BY <2>2, Contents
  <2> QED
    BY <1>2, <1>5, <1>11, <2>2, <2>3, Contents DEF Last
<1> QED
  BY <1>1, <1>2, <1>3, <1>6, <1>8, <1>9, <1>10, <1>11

(* The SKE with a packet just received.                                    *)
Received(k, t) == [k EXCEPT !.retry = 0, !.timers = @ \ {"retry"}, !.packet = t]

(* The fields of such an SKE.                                              *)
LEMMA ReceivedFields ==
  ASSUME NEW s \in Side, NEW k \in SkeType, NEW t \in Packets, Resends(s, k, par)
  PROVE  /\ Received(k, t) \in SkeType /\ Same(k, Received(k, t))
         /\ Resends(s, Received(k, t), par)
         /\ Received(k, t).next = k.next /\ Received(k, t).packet = t
         /\ Received(k, t).run = k.run /\ Received(k, t).refcnt = k.refcnt
         /\ Received(k, t).verdict = k.verdict /\ "retry" \notin Received(k, t).timers
         /\ Received(k, t).retrans = k.retrans
         /\ Received(k, t).ok <=> k.ok
         /\ Received(k, t).notified <=> k.notified
         /\ Received(k, t).aborted <=> k.aborted
         /\ Received(k, t).owned <=> k.owned
<1> DEFINE m == Received(k, t)
<1>1. 0 \in 0..RetryCount
  BY ParamsAssumption
<1>2. m \in SkeType
  BY <1>1 DEF SkeType, Received
<1>3. /\ m.next = k.next /\ m.packet = t /\ m.run = k.run /\ m.refcnt = k.refcnt
      /\ m.verdict = k.verdict /\ "retry" \notin m.timers /\ m.retrans = k.retrans
  BY DEF SkeType, Received
<1>4. /\ Same(k, m)
      /\ m.ok <=> k.ok
      /\ m.notified <=> k.notified
      /\ m.aborted <=> k.aborted
      /\ m.owned <=> k.owned
  BY DEF SkeType, Received, Same
<1> HIDE DEF m
<1>5. Resends(s, m, par)
  BY <1>3 DEF Resends
<1> QED
  BY <1>2, <1>3, <1>4, <1>5 DEF m

(* A packet for an SKE that its owner has aborted.                         *)
LEMMA DeliverAborted ==
  ASSUME SkeInv, NEW s \in Side, NEW t, Delivers(s, t), ske[s].aborted, running' = s,
         ske' = [ske EXCEPT ![s] = [Received(ske[s], t) EXCEPT !.packet = "none",
                                                               !.next = "aborted"]]
  PROVE  SkeInv'
<1> DEFINE k == ske[s]
           c == Received(k, t)
           m == [c EXCEPT !.packet = "none", !.next = "aborted"]
<1>1. /\ k \in SkeType /\ par \in ParType /\ Local(s, k, FALSE, par) /\ Active(k)
      /\ net' \in [Side -> Seq(Packets)] /\ net'[Other(s)] = net[Other(s)]
      /\ net[s] \in Seq(Packets)
      /\ ~par.udp => net'[s] = Tail(net[s]) /\ net[s] # <<>>
      /\ Has(net'[s], "success") => Has(net[s], "success")
      /\ t \in Packets /\ running = "none"
  BY DeliverFacts DEF Delivers
<1>2. k.started /\ k.owned /\ k.told = <<>> /\ ~k.fin /\ Resends(s, k, par) /\ k.refcnt = 2
  BY <1>1 DEF Local, Lives, Active
<1>3. /\ c \in SkeType /\ Same(k, c) /\ Resends(s, c, par) /\ c.run = k.run
      /\ c.refcnt = k.refcnt /\ c.verdict = k.verdict
      /\ c.notified <=> k.notified
      /\ c.aborted <=> k.aborted
      /\ c.owned <=> k.owned
  BY <1>1, <1>2, ReceivedFields
<1> HIDE DEF c
<1>4. m \in SkeType
  BY <1>3 DEF SkeType, States
<1>5. /\ m.next = "aborted" /\ m.packet = "none" /\ m.run = c.run /\ m.refcnt = c.refcnt
      /\ m.verdict = c.verdict /\ m.timers = c.timers /\ m.retrans = c.retrans
  BY <1>3 DEF SkeType
<1>6. /\ Same(c, m)
      /\ m.notified <=> c.notified
      /\ m.aborted <=> c.aborted
      /\ m.owned <=> c.owned
  BY <1>3 DEF SkeType, Same
<1>7. ske' = [ske EXCEPT ![s] = m]
  BY DEF c
<1> HIDE DEF m
<1>8. Same(k, m) /\ Resends(s, m, par) /\ m.told = k.told /\ m.started
  BY <1>2, <1>3, <1>5, <1>6 DEF Same, Resends
<1>9. m.refcnt = (IF m.owned THEN 1 ELSE 0) + 1
  BY <1>2, <1>3, <1>5, <1>6
<1>10. Local(s, m, TRUE, par)
  BY <1>1, <1>2, <1>3, <1>4, <1>5, <1>6, <1>8, <1>9, GivesUp
<1>11. Turned(s, m) /\ ~Active(m) /\ (running' = s) = TRUE
  BY <1>1, <1>5, <1>7 DEF Turned, Delivers, Active, Working
<1>12. /\ Confirmed(par, ske["ini"], ske["res"], net["ini"])
       /\ InStream(par, ske["ini"], ske["res"], net["ini"], net["res"])
  BY DEF SkeInv
<1>13. ~par.udp /\ NoFailure(net[s]) => NoFailure(net'[s])
  BY <1>1, NoFailures
<1>14. CASE s = "ini"
  <2>1. net'["res"] = net["res"]
    BY <1>1, <1>14 DEF Other
  <2>2. Confirmed(par, m, ske["res"], net'["ini"])
    BY <1>1, <1>2, <1>5, <1>8, <1>12, <1>14, InitiatorConfirmed
  <2>3. InStream(par, m, ske["res"], net'["ini"], net'["res"])
    <3>1. CASE par.udp
      BY <3>1 DEF InStream
    <3>2. CASE ~par.udp
      <4>1. ~Early(ske["res"], par)
        BY <1>1, <1>12, <1>14, <3>2 DEF InStream, NotAhead
      <4> QED
        BY <1>1, <1>2, <1>5, <1>8, <1>11, <1>12, <1>13, <1>14, <2>1, <3>2, <4>1, InitiatorGivesUp
    <3> QED
      BY <3>1, <3>2
  <2> QED
    BY <1>1, <1>4, <1>10, <1>11, <1>14, <2>2, <2>3, Stepping
<1>15. CASE s = "res"
  <2>1. net'["ini"] = net["ini"]
    BY <1>1, <1>15 DEF Other
  <2>2. Confirmed(par, ske["ini"], m, net'["ini"])
    BY <1>8, <1>12, <1>15, <2>1, ResponderConfirmed
  <2>3. InStream(par, ske["ini"], m, net'["ini"], net'["res"])
    <3>1. CASE par.udp
      BY <3>1 DEF InStream
    <3>2. CASE ~par.udp
      BY <1>2, <1>5, <1>8, <1>11, <1>12, <1>13, <1>15, <2>1, <3>2, ResponderGivesUp
    <3> QED
      BY <3>1, <3>2
  <2> QED
    BY <1>1, <1>4, <1>10, <1>11, <1>15, <2>2, <2>3, Stepping
<1> QED
  BY <1>14, <1>15 DEF Side

(* The SKE with the packet t, and a run queued for it unless it is         *)
(* processed at once.                                                      *)
Taken(k, m, t) ==
  /\ Same(k, m)
  /\ m.next = k.next /\ m.packet = t /\ m.refcnt = k.refcnt /\ m.verdict = k.verdict
  /\ m.run = k.run + (IF t = "success" THEN 0 ELSE 1)
  /\ m.ok <=> k.ok
  /\ m.notified <=> k.notified
  /\ m.aborted <=> k.aborted
  /\ m.owned <=> k.owned

(* The packet that an SKE waits for, which is processed at once when it is *)
(* a SUCCESS.                                                              *)
LEMMA DeliverPacket ==
  ASSUME SkeInv, NEW s \in Side, NEW t, Delivers(s, t), ~ske[s].aborted, t # "failure",
         NEW m \in SkeType, ske' = [ske EXCEPT ![s] = m],
         running' = (IF t = "success" THEN s ELSE running),
         Taken(ske[s], m, t), Resends(s, m, par)
  PROVE  SkeInv'
<1> DEFINE k == ske[s]
<1>1. /\ k \in SkeType /\ par \in ParType /\ Local(s, k, FALSE, par) /\ Active(k)
      /\ k.packet = "none"
      /\ Reads(s, k, par) \/ (s = "res" /\ k.next = "start" /\ t # "success")
      /\ net' \in [Side -> Seq(Packets)] /\ net'[Other(s)] = net[Other(s)]
      /\ net[s] \in Seq(Packets)
      /\ ~par.udp => net'[s] = Tail(net[s]) /\ net[s] # <<>> /\ t = Head(net[s])
      /\ Has(net'[s], "success") => Has(net[s], "success")
      /\ t \in Packets /\ running = "none" /\ Has(net[s], t)
  <2>1. /\ t \in Packets /\ running = "none" /\ Has(net[s], t)
        /\ ~par.udp => net[s] # <<>> /\ t = Head(net[s])
    BY DEF Delivers
  <2>2. /\ k \in SkeType /\ par \in ParType /\ Local(s, k, FALSE, par) /\ Active(k)
        /\ net' \in [Side -> Seq(Packets)] /\ net'[Other(s)] = net[Other(s)]
        /\ net[s] \in Seq(Packets)
    BY DeliverFacts
  <2>3. /\ ~par.udp => net'[s] = Tail(net[s])
        /\ Has(net'[s], "success") => Has(net[s], "success")
    BY DeliverFacts
  <2>4. /\ k.packet = "none"
        /\ Reads(s, k, par) \/ (s = "res" /\ k.next = "start" /\ t # "success")
    BY DeliverFacts
  <2> QED
    BY <2>1, <2>2, <2>3, <2>4
<1>2. k.run \in Nat
  BY <1>1 DEF SkeType
<1>3. Local(s, m, t = "success", par)
  <2>1. m.packet \in Packets \ {"failure"}
    BY <1>1 DEF Taken
  <2>2. CASE t = "success"
    <3>1. /\ (t = "success") = TRUE /\ m.packet = "success" /\ m.run = k.run
          /\ Reads(s, k, par)
      BY <1>1, <1>2, <2>2 DEF Taken
    <3> QED
      BY <1>1, <2>1, <3>1, Receives DEF Taken
  <2>3. CASE t # "success"
    <3>1. /\ (t = "success") = FALSE /\ m.packet # "success" /\ m.run = k.run + 1
      BY <1>2, <2>3 DEF Taken
    <3> QED
      BY <1>1, <2>1, <3>1, Receives DEF Taken
  <2> QED
    BY <2>2, <2>3
<1>4. /\ Turned(s, m) /\ Active(m) /\ m.told = k.told
      /\ (running' = s) = (t = "success")
  BY <1>1 DEF Turned, Delivers, Active, Side, Same, Taken
<1>5. /\ Confirmed(par, ske["ini"], ske["res"], net["ini"])
      /\ InStream(par, ske["ini"], ske["res"], net["ini"], net["res"])
  BY DEF SkeInv
<1>6. CASE s = "ini"
  <2>1. net'["res"] = net["res"]
    BY <1>1, <1>6 DEF Other
  <2>2. Confirmed(par, m, ske["res"], net'["ini"])
    <3>1. /\ Has(net'["ini"], "success") => Has(net["ini"], "success")
          /\ m.packet = "success" => Has(net["ini"], "success")
          /\ m.told = ske["ini"].told
      BY <1>1, <1>4, <1>6 DEF Taken
    <3> QED
      BY <1>5, <3>1, InitiatorConfirmed
  <2>3. InStream(par, m, ske["res"], net'["ini"], net'["res"])
    <3>1. CASE par.udp
      BY <3>1 DEF InStream
    <3>2. CASE ~par.udp
      BY <1>1, <1>4, <1>5, <1>6, <2>1, <3>2, InitiatorReceives DEF Taken
    <3> QED
      BY <3>1, <3>2
  <2> QED
    BY <1>1, <1>3, <1>4, <1>6, <2>2, <2>3, Stepping
<1>7. CASE s = "res"
  <2>1. net'["ini"] = net["ini"]
    BY <1>1, <1>7 DEF Other
  <2>2. Confirmed(par, ske["ini"], m, net'["ini"])
    BY <1>4, <1>5, <1>7, <2>1, ResponderConfirmed
  <2>3. InStream(par, ske["ini"], m, net'["ini"], net'["res"])
    <3>1. CASE par.udp
      BY <3>1 DEF InStream
    <3>2. CASE ~par.udp
      BY <1>1, <1>4, <1>5, <1>7, <2>1, <3>2, ResponderReceives DEF Taken
    <3> QED
      BY <3>1, <3>2
  <2> QED
    BY <1>1, <1>3, <1>4, <1>7, <2>2, <2>3, Stepping
<1> QED
  BY <1>6, <1>7 DEF Side

(* The FAILURE of the other side.                                          *)
LEMMA DeliverFailure ==
  ASSUME SkeInv, NEW s \in Side, Delivers(s, "failure"), ~ske[s].aborted, running' = running,
         ske' = [ske EXCEPT ![s] = [Notified(Received(ske[s], "failure")) EXCEPT !.run = @ + 1]]
  PROVE  SkeInv'
<1> DEFINE k == ske[s]
           c == Received(k, "failure")
           d == Notified(c)
           m == [d EXCEPT !.run = @ + 1]
<1>1. /\ k \in SkeType /\ par \in ParType /\ Local(s, k, FALSE, par) /\ Active(k) /\ k.run < 2
      /\ net' \in [Side -> Seq(Packets)] /\ net'[Other(s)] = net[Other(s)]
      /\ Has(net'[s], "success") => Has(net[s], "success")
      /\ ~par.udp => net'[s] = <<>> /\ Silent(ske[Other(s)])
      /\ running = "none" /\ "failure" \in Packets
  BY DeliverFacts DEF Delivers
<1>2. k.started /\ ~k.notified /\ Resends(s, k, par)
  BY <1>1 DEF Local, Active
<1>3. /\ c \in SkeType /\ Same(k, c) /\ Resends(s, c, par) /\ c.run = k.run
      /\ c.refcnt = k.refcnt /\ c.verdict = k.verdict /\ c.packet = "failure"
      /\ ~c.notified
      /\ c.aborted <=> k.aborted
      /\ c.owned <=> k.owned
  BY <1>1, <1>2, ReceivedFields
<1> HIDE DEF c
<1>4. /\ d \in SkeType /\ Same(c, d) /\ d.notified /\ d.next = "failure"
      /\ d.packet = c.packet /\ d.run = c.run
      /\ d.refcnt = c.refcnt /\ d.verdict = c.verdict
      /\ d.timers = c.timers /\ d.retrans = c.retrans
      /\ d.aborted <=> c.aborted
      /\ d.owned <=> c.owned
  BY <1>3, NotifiedFields
<1> HIDE DEF d
<1>5. d.run + 1 \in 0..2
  BY <1>1, <1>3, <1>4 DEF SkeType
<1>6. m \in SkeType
  BY <1>4, <1>5 DEF SkeType
<1>7. /\ m.next = "failure" /\ m.packet = "failure" /\ m.run = k.run + 1 /\ m.refcnt = k.refcnt
      /\ m.verdict = k.verdict /\ m.timers = c.timers /\ m.retrans = c.retrans
  BY <1>3, <1>4 DEF SkeType
<1>8. /\ Same(d, m) /\ m.notified
      /\ m.aborted <=> d.aborted
      /\ m.owned <=> d.owned
  BY <1>4 DEF SkeType, Same
<1>9. ske' = [ske EXCEPT ![s] = m]
  BY DEF c, d
<1> HIDE DEF m
<1>10. Same(k, m) /\ Resends(s, m, par) /\ m.told = k.told /\ m.started
  BY <1>2, <1>3, <1>4, <1>7, <1>8 DEF Same, Resends
<1>11. Local(s, m, FALSE, par)
  BY <1>1, <1>3, <1>4, <1>6, <1>7, <1>8, <1>10, IsTold
<1>12. Turned(s, m) /\ ~Active(m) /\ (running' = s) = FALSE
  BY <1>1, <1>7, <1>9 DEF Turned, Delivers, Active, Side, Working
<1>13. /\ Confirmed(par, ske["ini"], ske["res"], net["ini"])
       /\ InStream(par, ske["ini"], ske["res"], net["ini"], net["res"])
  BY DEF SkeInv
<1>14. CASE s = "ini"
  <2>1. net'["res"] = net["res"] /\ (~par.udp => Silent(ske["res"]))
    BY <1>1, <1>14 DEF Other
  <2>2. Confirmed(par, m, ske["res"], net'["ini"])
    BY <1>1, <1>7, <1>10, <1>13, <1>14, InitiatorConfirmed
  <2>3. InStream(par, m, ske["res"], net'["ini"], net'["res"])
    <3>1. CASE par.udp
      BY <3>1 DEF InStream
    <3>2. CASE ~par.udp
      BY <1>1, <1>2, <1>7, <1>10, <1>12, <1>13, <1>14, <2>1, <3>2, InitiatorIsTold
    <3> QED
      BY <3>1, <3>2
  <2> QED
    BY <1>1, <1>6, <1>11, <1>12, <1>14, <2>2, <2>3, Stepping
<1>15. CASE s = "res"
  <2>1. net'["ini"] = net["ini"] /\ (~par.udp => Silent(ske["ini"]))
    BY <1>1, <1>15 DEF Other
  <2>2. Confirmed(par, ske["ini"], m, net'["ini"])
    BY <1>10, <1>13, <1>15, <2>1, ResponderConfirmed
  <2>3. InStream(par, ske["ini"], m, net'["ini"], net'["res"])
    <3>1. CASE par.udp
      BY <3>1 DEF InStream
    <3>2. CASE ~par.udp
      BY <1>1, <1>2, <1>10, <1>12, <1>13, <1>15, <2>1, <3>2, ResponderIsTold
    <3> QED
      BY <3>1, <3>2
  <2> QED
    BY <1>1, <1>6, <1>11, <1>12, <1>15, <2>2, <2>3, Stepping
<1> QED
  BY <1>14, <1>15 DEF Side

(* silc_ske_packet_receive.                                                *)
LEMMA DeliverStep ==
  ASSUME SkeInv, NEW s \in Side, Deliver(s), ske[s].verdict = "asked" => ~par.udp
  PROVE  SkeInv'
<1> DEFINE k == ske[s]
<1>1. PICK i \in 1..Len(net[s]) :
        /\ ~par.udp => i = 1
        /\ net[s][i] \in Wants(s)
        /\ PacketReceive(s, net[s][i])
        /\ net' = IF par.udp THEN net ELSE [net EXCEPT ![s] = Tail(net[s])]
  BY DEF Deliver
<1> DEFINE t == net[s][i]
<1>2. k \in SkeType /\ net[s] \in Seq(Packets) /\ Local(s, k, FALSE, par) /\ running = "none"
  <2>1. running = "none" /\ (running = s) = FALSE
    BY DEF Deliver, Side
  <2> QED
    BY <2>1, SideFacts
<1>3. t \in Packets /\ Has(net[s], t) /\ (~par.udp => net[s] # <<>> /\ t = Head(net[s]))
  BY <1>1, <1>2 DEF Has
<1> HIDE DEF t
<1>4. Delivers(s, t)
  BY <1>1, <1>2, <1>3 DEF Delivers, Deliver
<1>5. Resends(s, k, par)
  BY <1>2 DEF Local
<1> DEFINE c == Received(k, t)
           failed == IF t = "failure" THEN Notified(c) ELSE c
<1>6. \/ /\ k.aborted
         /\ ske' = [ske EXCEPT ![s] = [c EXCEPT !.packet = "none", !.next = "aborted"]]
         /\ running' = s
      \/ /\ ~k.aborted
         /\ t = "success"
         /\ ske' = [ske EXCEPT ![s] = failed]
         /\ running' = s
      \/ /\ ~k.aborted
         /\ t # "success"
         /\ ske' = [ske EXCEPT ![s] = [failed EXCEPT !.run = @ + 1]]
         /\ running' = running
  <2>1. c.aborted <=> k.aborted
    BY <1>2, <1>3, <1>5, ReceivedFields
  <2>2. PacketReceive(s, t)
    BY <1>1 DEF t
  <2> QED
    BY <2>1, <2>2 DEF PacketReceive, Received
<1>7. CASE k.aborted
  BY <1>4, <1>6, <1>7, DeliverAborted
<1>8. CASE ~k.aborted /\ t = "success"
  <2> DEFINE m == c
  <2>1. ske' = [ske EXCEPT ![s] = m] /\ running' = s
    BY <1>6, <1>8
  <2>2. /\ m \in SkeType /\ Same(k, m) /\ Resends(s, m, par) /\ m.next = k.next /\ m.packet = t
        /\ m.run = k.run + 0 /\ m.refcnt = k.refcnt /\ m.verdict = k.verdict
        /\ m.ok <=> k.ok
        /\ m.notified <=> k.notified
        /\ m.aborted <=> k.aborted
        /\ m.owned <=> k.owned
    BY <1>2, <1>3, <1>5, ReceivedFields DEF SkeType
  <2> HIDE DEF m
  <2> QED
    BY <1>4, <1>8, <2>1, <2>2, DeliverPacket DEF Taken
<1>9. CASE ~k.aborted /\ t = "failure"
  <2>1. /\ ske' = [ske EXCEPT ![s] = [Notified(c) EXCEPT !.run = @ + 1]]
        /\ running' = running
    BY <1>6, <1>9
  <2> QED
    BY <1>4, <1>9, <2>1, DeliverFailure
<1>10. CASE ~k.aborted /\ t \notin {"success", "failure"}
  <2> DEFINE m == [c EXCEPT !.run = @ + 1]
  <2>1. ske' = [ske EXCEPT ![s] = m] /\ running' = running
    BY <1>6, <1>10
  <2> HIDE DEF failed, m
  <2>a. Resends(s, k, par) /\ k \in SkeType /\ t \in Packets
    BY <1>2, <1>3, <1>5
  <2>2. /\ c \in SkeType /\ Same(k, c) /\ Resends(s, c, par) /\ c.next = k.next /\ c.packet = t
        /\ c.run = k.run /\ c.refcnt = k.refcnt /\ c.verdict = k.verdict
        /\ c.ok <=> k.ok
        /\ c.notified <=> k.notified
        /\ c.aborted <=> k.aborted
        /\ c.owned <=> k.owned
    <3> HIDE <1>10
    <3> HIDE DEF k
    <3> QED
      BY <2>a, ReceivedFields
  <2> HIDE DEF c
  <2> USE DEF m
  <2>3. c.run + 1 \in 0..2
    <3>1. k.run < 2
      BY <1>4, DeliverFacts
    <3> QED
      BY <2>2, <3>1 DEF SkeType
  <2>4. m \in SkeType
    BY <2>2, <2>3 DEF SkeType
  <2>5. /\ m.next = c.next /\ m.packet = c.packet /\ m.run = c.run + 1 /\ m.refcnt = c.refcnt
        /\ m.verdict = c.verdict /\ m.timers = c.timers /\ m.retrans = c.retrans
    BY <2>2 DEF SkeType
  <2>6. /\ Same(c, m)
        /\ m.ok <=> c.ok
        /\ m.notified <=> c.notified
        /\ m.aborted <=> c.aborted
        /\ m.owned <=> c.owned
    BY <2>2 DEF SkeType, Same
  <2> HIDE DEF m
  <2>7. Same(k, m) /\ Resends(s, m, par)
    BY <2>2, <2>5, <2>6 DEF Same, Resends
  <2> QED
    <3>1. Taken(k, m, t)
      BY <1>10, <2>2, <2>5, <2>6, <2>7 DEF Taken
    <3> QED
      BY <1>4, <1>10, <2>1, <2>4, <2>7, <3>1, DeliverPacket
<1> QED
  BY <1>7, <1>8, <1>9, <1>10

-----------------------------------------------------------------------------
(* The state functions.                                                    *)

(* Over a stream, an initiator that gives up with a FAILURE before the     *)
(* responder has answered has sent nothing else.                           *)
LEMMA InitiatorAlone ==
  ASSUME NEW p, NEW i, NEW r, NEW ni, NEW nr, InStream(p, i, r, ni, nr), ~p.udp, Active(i),
         Reads("ini", i, p) => i.packet # "none", Fresh(r) => r = Idle, Early(r, p)
  PROVE  nr = <<>> /\ r.packet = "none"
<1>1. Takes(i) /\ Takes(r) /\ ~Fresh(i)
  BY DEF Takes, Early, Fresh, Active
<1>2. Turns(p, i, r, ni, nr)
  BY <1>1 DEF InStream
<1>3. r.next \in {"null", "start", IF p.prop THEN "phase2" ELSE "phase1"}
  BY DEF Early, Idle
<1> QED
  BY <1>1, <1>2, <1>3 DEF Turns, Reads

(* What a running state function finds.                                    *)
LEMMA RunningFacts ==
  ASSUME SkeInv, NEW s \in Side, running = s
  PROVE  /\ ske[s] \in SkeType /\ par \in ParType /\ Local(s, ske[s], TRUE, par)
         /\ net \in [Side -> Seq(Packets)]
         /\ ske[s].started /\ ~ske[s].fin /\ ske[s].told = <<>> /\ Resends(s, ske[s], par)
         /\ ske[s].refcnt = (IF ske[s].owned THEN 1 ELSE 0) + 1
         /\ ske[s].verdict = "asked" => ~Active(ske[s])
         /\ ske[s].next \in Working => Active(ske[s]) /\ ske[s].owned
<1>1. (running = s) = TRUE
  OBVIOUS
<1>2. /\ ske[s] \in SkeType /\ par \in ParType /\ Local(s, ske[s], TRUE, par)
      /\ net \in [Side -> Seq(Packets)]
  BY <1>1, SideFacts
<1>3. ske[s].started /\ ~ske[s].fin /\ ske[s].told = <<>> /\ Resends(s, ske[s], par)
  BY <1>2 DEF Local, Lives
<1>4. ske[s].refcnt = (IF ske[s].owned THEN 1 ELSE 0) + 1
  BY <1>2, <1>3 DEF Local, Lives
<1>5. ske[s].verdict = "asked" => ~Active(ske[s])
  BY <1>2 DEF Local, Verified
<1>6. ske[s].next \in Working => Active(ske[s])
  BY <1>2, <1>3 DEF Local, Where, Working
<1>7. Active(ske[s]) => ske[s].owned
  BY <1>2 DEF Local, Lives, Active
<1> QED
  BY <1>2, <1>3, <1>4, <1>5, <1>6, <1>7

(* What the state functions leave alone while the exchange goes on.        *)
Kept(k, m) ==
  /\ Same(k, m)
  /\ m.run = k.run /\ m.refcnt = k.refcnt
  /\ m.notified <=> k.notified
  /\ m.aborted <=> k.aborted
  /\ m.owned <=> k.owned

(* A state function that goes over to the state error or aborted.          *)
LEMMA LeavesStep ==
  ASSUME SkeInv, NEW s \in Side, running = s, Active(ske[s]), NEW m \in SkeType,
         Continue(s, m), Kept(ske[s], m), m.verdict = ske[s].verdict,
         (m.next = "error" /\ ~m.ok) \/ (m.next = "aborted" /\ m.aborted),
         m.packet \in {"none", ske[s].packet}, m.packet # "success", Resends(s, m, par)
  PROVE  SkeInv'
<1> DEFINE k == ske[s]
<1>1. /\ k \in SkeType /\ par \in ParType /\ Local(s, k, TRUE, par)
      /\ k.refcnt = (IF k.owned THEN 1 ELSE 0) + 1 /\ k.started
      /\ k.verdict # "asked" /\ k.owned
  BY RunningFacts DEF Active
<1>2. m.packet # "failure"
  BY <1>1 DEF Local, Woken, Active
<1>3. m.owned /\ m.refcnt = (IF m.owned THEN 1 ELSE 0) + 1 /\ m.started /\ m.told = k.told
  BY <1>1 DEF Kept, Same
<1>4. Local(s, m, TRUE, par)
  BY <1>1, <1>2, <1>3, GivesUp DEF Kept
<1>5. Turned(s, m) /\ (running' = s) = TRUE /\ net' = net /\ ~Active(m)
  BY DEF Continue, Turned, Active, Working
<1>6. s = "ini" /\ ~par.udp /\ Early(ske["res"], par)
        => net["res"] = <<>> /\ ske["res"].packet = "none"
  <2> SUFFICES ASSUME s = "ini", ~par.udp, Early(ske["res"], par)
               PROVE  net["res"] = <<>> /\ ske["res"].packet = "none"
    OBVIOUS
  <2>1. InStream(par, ske["ini"], ske["res"], net["ini"], net["res"])
    BY DEF SkeInv
  <2>2. Reads("ini", k, par) => k.packet # "none"
    BY <1>1 DEF Local, Woken
  <2>3. Fresh(ske["res"]) => ske["res"] = Idle
    BY SideFacts DEF Side
  <2> QED
    BY <2>1, <2>2, <2>3, InitiatorAlone
<1> QED
  BY <1>1, <1>2, <1>3, <1>4, <1>5, <1>6, GivesUpStep

(* A state function that fails: silc_fsm_next to the state error.          *)
LEMMA FailingStep ==
  ASSUME SkeInv, NEW s \in Side, running = s, Active(ske[s]), NEW c \in SkeType,
         Continue(s, Failing(c)), Kept(ske[s], c), c.verdict = ske[s].verdict,
         c.packet = "none", Resends(s, c, par)
  PROVE  SkeInv'
<1> DEFINE m == Failing(c)
<1>1. m \in SkeType
  BY DEF Failing, SkeType, States
<1>2. /\ m.next = "error" /\ m.run = c.run /\ m.refcnt = c.refcnt /\ m.verdict = c.verdict
      /\ m.packet = c.packet /\ m.timers = c.timers /\ m.retrans = c.retrans
  BY DEF Failing, SkeType
<1>3. /\ ~m.ok /\ Same(c, m)
      /\ m.notified <=> c.notified
      /\ m.aborted <=> c.aborted
      /\ m.owned <=> c.owned
  BY DEF Failing, SkeType, Same
<1> HIDE DEF m
<1>4. Kept(ske[s], m) /\ Resends(s, m, par)
  BY <1>2, <1>3 DEF Kept, Same, Resends
<1>5. Continue(s, m)
  BY DEF m
<1> QED
  BY <1>1, <1>2, <1>3, <1>4, <1>5, LeavesStep

(* A state function that finds the SKE aborted.                            *)
LEMMA AbortedStep ==
  ASSUME SkeInv, NEW s \in Side, running = s, Active(ske[s]), ske[s].aborted,
         Continue(s, [ske[s] EXCEPT !.next = "aborted"])
  PROVE  SkeInv'
<1> DEFINE k == ske[s]
           m == [k EXCEPT !.next = "aborted"]
<1>1. k \in SkeType /\ Local(s, k, TRUE, par) /\ Resends(s, k, par)
  BY RunningFacts
<1>2. m \in SkeType
  BY <1>1 DEF SkeType, States
<1>3. /\ m.next = "aborted" /\ m.run = k.run /\ m.refcnt = k.refcnt /\ m.verdict = k.verdict
      /\ m.packet = k.packet /\ m.timers = k.timers /\ m.retrans = k.retrans
  BY <1>1 DEF SkeType
<1>4. /\ Same(k, m)
      /\ m.notified <=> k.notified
      /\ m.aborted <=> k.aborted
      /\ m.owned <=> k.owned
  BY <1>1 DEF SkeType, Same
<1>5. Continue(s, m)
  OBVIOUS
<1> HIDE DEF m
<1>6. Kept(k, m) /\ Resends(s, m, par)
  BY <1>1, <1>3, <1>4 DEF Kept, Resends
<1>7. k.packet # "success"
  BY <1>1 DEF Local, Woken
<1> QED
  BY <1>2, <1>3, <1>4, <1>5, <1>6, <1>7, LeavesStep

(* The SKE without the packet it has read.                                 *)
Cleared(k) == [k EXCEPT !.packet = "none"]

(* What Cleared leaves alone.                                              *)
LEMMA ClearedFields ==
  ASSUME NEW s \in Side, NEW k \in SkeType, Resends(s, k, par)
  PROVE  /\ Cleared(k) \in SkeType /\ Kept(k, Cleared(k)) /\ Resends(s, Cleared(k), par)
         /\ Cleared(k).next = k.next /\ Cleared(k).verdict = k.verdict
         /\ Cleared(k).packet = "none" /\ Cleared(k).timers = k.timers
         /\ Cleared(k).retrans = k.retrans
         /\ Cleared(k).ok <=> k.ok
<1> DEFINE m == Cleared(k)
<1>1. m \in SkeType
  BY DEF Cleared, SkeType
<1>2. /\ m.next = k.next /\ m.run = k.run /\ m.refcnt = k.refcnt /\ m.verdict = k.verdict
      /\ m.packet = "none" /\ m.timers = k.timers /\ m.retrans = k.retrans
  BY DEF Cleared, SkeType
<1>3. /\ Same(k, m)
      /\ m.ok <=> k.ok
      /\ m.notified <=> k.notified
      /\ m.aborted <=> k.aborted
      /\ m.owned <=> k.owned
  BY DEF Cleared, SkeType, Same
<1> HIDE DEF m
<1>4. Kept(k, m) /\ Resends(s, m, par)
  BY <1>2, <1>3 DEF Kept, Resends
<1> QED
  BY <1>1, <1>2, <1>3, <1>4 DEF m

(* A packet that is not the expected one: over UDP it is an old one, and   *)
(* the state function waits for the next.                                  *)
LEMMA OldPacketStep ==
  ASSUME SkeInv, NEW s \in Side, running = s, Active(ske[s]), Reads(s, ske[s], par),
         OldPacket(s)
  PROVE  SkeInv'
<1> DEFINE k == ske[s]
           c == Cleared(k)
<1>1. /\ k \in SkeType /\ par \in ParType /\ Local(s, k, TRUE, par) /\ Resends(s, k, par)
      /\ k.verdict # "asked" /\ net \in [Side -> Seq(Packets)]
  BY RunningFacts
<1>2. /\ c \in SkeType /\ Kept(k, c) /\ Resends(s, c, par)
      /\ c.next = k.next /\ c.verdict = k.verdict /\ c.packet = "none"
      /\ c.ok <=> k.ok
  BY <1>1, ClearedFields
<1>3. IF par.udp THEN Wait(s, Armed(c)) ELSE Continue(s, Failing(c))
  BY DEF OldPacket, Cleared
<1> HIDE DEF c
<1>4. CASE par.udp
  <2> DEFINE m == Armed(c)
  <2>1. m \in SkeType /\ Alike(c, m) /\ Resends(s, m, par)
    BY <1>2, ArmedAlike
  <2>2. Wait(s, m)
    BY <1>3, <1>4
  <2> HIDE DEF m
  <2>3. Kept(k, m) /\ Same(k, m) /\ m.next = k.next /\ m.verdict = k.verdict /\ m.packet = "none"
    BY <1>2, <2>1 DEF Alike, Kept, Same
  <2>4. m.ok <=> k.ok
    BY <1>2, <2>1 DEF Alike
  <2>5. k.next \in Working /\ k.next \notin {"start", "phase4"} /\ Reads(s, m, par)
    BY <2>3 DEF Active, Reads
  <2>6. /\ s = "ini" => m.next # "phase5"
        /\ s = "res" => m.next # "phase3"
        /\ par.prop => m.next # "phase1" /\ (s = "ini" => m.next # "start")
        /\ m.next \in {"phase5", "end"} => m.ok /\ (s \in par.verify => m.verdict = "yes")
    BY <1>1, <2>3, <2>4 DEF Local, Where, Verified, Active
  <2>7. Local(s, m, FALSE, par)
    BY <1>1, <2>1, <2>3, <2>5, <2>6, GoesOn DEF Kept
  <2>8. Turned(s, m) /\ (running' = s) = FALSE /\ net' = net
    BY <2>2 DEF Turned, Wait, Side
  <2>9. Confirmed(par, ske["ini"], ske["res"], net["ini"])
    BY DEF SkeInv
  <2>10. CASE s = "ini"
    <3>1. Confirmed(par, m, ske["res"], net'["ini"])
      BY <2>3, <2>8, <2>9, <2>10, InitiatorConfirmed DEF Same
    <3>2. InStream(par, m, ske["res"], net'["ini"], net'["res"])
      BY <1>4 DEF InStream
    <3> QED
      BY <1>1, <2>1, <2>7, <2>8, <2>10, <3>1, <3>2, Stepping
  <2>11. CASE s = "res"
    <3>1. Confirmed(par, ske["ini"], m, net'["ini"])
      BY <2>3, <2>8, <2>9, <2>11, ResponderConfirmed DEF Same
    <3>2. InStream(par, ske["ini"], m, net'["ini"], net'["res"])
      BY <1>4 DEF InStream
    <3> QED
      BY <1>1, <2>1, <2>7, <2>8, <2>11, <3>1, <3>2, Stepping
  <2> QED
    BY <2>10, <2>11 DEF Side
<1>5. CASE ~par.udp
  BY <1>2, <1>3, <1>5, FailingStep
<1> QED
  BY <1>4, <1>5

(* The moves of the exchange: x is the packet sent, r says that the next   *)
(* state function runs at once.                                            *)
Moves(s, k, m, p, r, x) ==
  \/ s = "ini" /\ k.next = "start" /\ m.next = "phase1" /\ x = "ke" /\ ~r
  \/ s = "ini" /\ k.next = "phase1" /\ k.packet = "ke" /\ m.next = "phase2" /\ x = "none" /\ r
  \/ s = "ini" /\ k.next = "phase2" /\ m.next = "phase3" /\ x = "ke1" /\ ~r
  \/ /\ s = "ini" /\ k.next = "phase3" /\ k.packet = "ke2" /\ m.next = "phase4" /\ x = "none"
     /\ r <=> m.verdict # "asked"
  \/ s = "ini" /\ k.next = "phase4" /\ k.ok /\ m.next = "end" /\ p.no_acks /\ x = "none" /\ r
  \/ s = "ini" /\ k.next = "phase4" /\ k.ok /\ m.next = "end" /\ ~p.no_acks /\ x = "success" /\ ~r
  \/ s = "res" /\ k.next = "phase1" /\ k.packet = "ke" /\ m.next = "phase2" /\ x = "ke" /\ ~r
  \/ /\ s = "res" /\ k.next = "phase2" /\ k.packet = "ke1" /\ m.next = "phase4" /\ x = "none"
     /\ r <=> m.verdict # "asked"
  \/ s = "res" /\ k.next = "phase4" /\ k.ok /\ m.next = "phase5" /\ x = "none" /\ r
  \/ /\ s = "res" /\ k.next = "phase5" /\ m.next = "end" /\ x = "ke2"
     /\ r <=> p.no_acks

(* What becomes of the verification in a move.                             *)
Judged(s, k, m, p) ==
  /\ m.next # "phase4" => m.verdict = k.verdict /\ (m.ok <=> k.ok)
  /\ m.next = "phase4" /\ s \in p.verify =>
       m.verdict \notin {"none", "late"} /\ (m.verdict = "no" => ~m.ok)

(* A move keeps the invariant of its side.                                 *)
LEMMA MovesLocal ==
  ASSUME NEW s \in Side, NEW k \in SkeType, NEW m \in SkeType, NEW p \in ParType,
         NEW r \in BOOLEAN, NEW x, Local(s, k, TRUE, p), Active(k), Kept(k, m), m.packet = "none",
         Moves(s, k, m, p, r, x), Judged(s, k, m, p), Resends(s, m, p)
  PROVE  Local(s, m, r, p) /\ Active(m)
<1>1. /\ k.verdict # "asked"
      /\ k.next = "phase4" /\ k.ok /\ s \in p.verify => k.verdict = "yes"
      /\ k.next = "phase5" => k.ok /\ (s \in p.verify => k.verdict = "yes")
      /\ p.prop => k.next # "phase1" /\ (s = "ini" => k.next # "start")
  BY DEF Local, Verified, Where, Active, SkeType
<1>2. Active(m)
  BY DEF Active, Kept, Same, Moves, Working
<1>3. /\ m.next \in Working /\ ~(s = "res" /\ k.next = "start") /\ m.next # "start"
      /\ s = "ini" => m.next # "phase5"
      /\ s = "res" => m.next # "phase3"
      /\ p.prop => m.next # "phase1"
  BY <1>1 DEF Moves, Working
<1>4. /\ m.verdict = "asked" => m.next = "phase4"
      /\ m.next = "phase4" /\ s \in p.verify =>
           m.verdict \notin {"none", "late"} /\ (m.verdict = "no" => ~m.ok)
      /\ m.next \in {"phase5", "end"} => m.ok /\ (s \in p.verify => m.verdict = "yes")
  BY <1>1 DEF Judged, Moves
<1>5. /\ r => ~Reads(s, m, p) /\ m.verdict # "asked"
      /\ ~r => Reads(s, m, p) \/ (m.next = "phase4" /\ m.verdict = "asked")
  BY <1>1 DEF Moves, Reads, Judged
<1> QED
  BY <1>2, <1>3, <1>4, <1>5, GoesOn DEF Kept

(* A move keeps the invariant.                                             *)
LEMMA MoveStep ==
  ASSUME SkeInv, NEW s \in Side, running = s, Active(ske[s]), NEW m \in SkeType,
         NEW x \in Packets \cup {"none"}, NEW r \in BOOLEAN,
         Turned(s, m), running' = (IF r THEN s ELSE "none"),
         net' = (IF x = "none" THEN net ELSE Sent(s, x)),
         Kept(ske[s], m), m.packet = "none", Moves(s, ske[s], m, par, r, x),
         Judged(s, ske[s], m, par), Resends(s, m, par)
  PROVE  SkeInv'
<1> DEFINE k == ske[s]
           o == Other(s)
<1>1. /\ k \in SkeType /\ par \in ParType /\ Local(s, k, TRUE, par)
      /\ net \in [Side -> Seq(Packets)]
  BY RunningFacts
<1>2. Local(s, m, r, par) /\ Active(m)
  BY <1>1, MovesLocal
<1>3. (running' = s) = r /\ m.told = k.told
  BY DEF Side, Kept, Same
<1>4. Local(s, m, running' = s, par)
  BY <1>2, <1>3
<1>5. par.prop => k.next # "phase1" /\ (s = "ini" => k.next # "start")
  BY <1>1 DEF Local, Where, Active
<1>6. /\ net' \in [Side -> Seq(Packets)] /\ net'[s] = net[s]
      /\ ~par.udp => net'[o] = IF x = "none" THEN net[o] ELSE Append(net[o], x)
      /\ s = "res" => (Has(net'[o], "success") => Has(net[o], "success"))
  <2>1. CASE x = "none"
    BY <1>1, <2>1
  <2>2. CASE x # "none"
    <3>1. x \in Packets /\ "success" \in Packets /\ (s = "res" => x # "success")
      BY <2>2 DEF Moves, Packets
    <3> QED
      BY <1>1, <2>2, <3>1, SentPackets
  <2> QED
    BY <2>1, <2>2
<1>7. /\ Confirmed(par, ske["ini"], ske["res"], net["ini"])
      /\ InStream(par, ske["ini"], ske["res"], net["ini"], net["res"])
      /\ Local(o, ske[o], FALSE, par)
  <2>1. (running = o) = FALSE /\ o \in Side
    BY DEF Other, Side
  <2> QED
    BY <2>1 DEF SkeInv
<1>8. Fresh(ske[o]) => ske[o] = Idle
  BY <1>7 DEF Local, Lives
<1>9. CASE s = "ini"
  <2>1. o = "res" /\ net["res"] \in Seq(Packets)
    BY <1>1, <1>9 DEF Other, Side
  <2>2. Confirmed(par, m, ske["res"], net'["ini"])
    <3>1. Has(net'["ini"], "success") => Has(net["ini"], "success")
      BY <1>6, <1>9
    <3> QED
      BY <1>3, <1>7, <1>9, <3>1, InitiatorConfirmed
  <2>3. Active(ske["res"]) /\ ske["res"].next = "end" => ~par.no_acks
    BY <1>7, <2>1 DEF Local, Woken
  <2>4. InStream(par, m, ske["res"], net'["ini"], net'["res"])
    <3>1. CASE par.udp
      BY <3>1 DEF InStream
    <3>2. CASE ~par.udp
      <4>1. \/ k.next = "start" /\ m.next = "phase1" /\ ~par.prop /\ net'["res"] = Append(net["res"], "ke")
            \/ k.next = "phase1" /\ k.packet = "ke" /\ m.next = "phase2" /\ ~par.prop /\ net'["res"] = net["res"]
            \/ k.next = "phase2" /\ m.next = "phase3" /\ net'["res"] = Append(net["res"], "ke1")
            \/ k.next = "phase3" /\ k.packet = "ke2" /\ m.next = "phase4" /\ net'["res"] = net["res"]
            \/ k.next = "phase4" /\ m.next = "end" /\ par.no_acks /\ net'["res"] = net["res"]
            \/ k.next = "phase4" /\ m.next = "end" /\ ~par.no_acks
               /\ net'["res"] = Append(net["res"], "success")
        BY <1>5, <1>6, <1>9, <2>1, <3>2 DEF Moves
      <4>2. InStream(par, m, ske["res"], net["ini"], net'["res"])
        BY <1>2, <1>7, <1>8, <1>9, <2>1, <2>3, <4>1, InitiatorMoves
      <4> QED
        BY <1>6, <1>9, <4>2
    <3> QED
      BY <3>1, <3>2
  <2> QED
    BY <1>4, <1>6, <1>9, <2>2, <2>4, Stepping
<1>10. CASE s = "res"
  <2>1. o = "ini" /\ net["ini"] \in Seq(Packets)
    BY <1>1, <1>10 DEF Other, Side
  <2>2. Confirmed(par, ske["ini"], m, net'["ini"])
    <3>1. Has(net'["ini"], "success") => Has(net["ini"], "success")
      BY <1>6, <1>10, <2>1
    <3> QED
      BY <1>3, <1>7, <1>10, <3>1, ResponderConfirmed
  <2>3. InStream(par, ske["ini"], m, net'["ini"], net'["res"])
    <3>1. CASE par.udp
      BY <3>1 DEF InStream
    <3>2. CASE ~par.udp
      <4>1. \/ k.next = "phase1" /\ k.packet = "ke" /\ m.next = "phase2" /\ ~par.prop
               /\ net'["ini"] = Append(net["ini"], "ke")
            \/ k.next = "phase2" /\ k.packet = "ke1" /\ m.next = "phase4" /\ net'["ini"] = net["ini"]
            \/ k.next = "phase4" /\ m.next = "phase5" /\ net'["ini"] = net["ini"]
            \/ k.next = "phase5" /\ m.next = "end" /\ net'["ini"] = Append(net["ini"], "ke2")
        BY <1>5, <1>6, <1>10, <2>1, <3>2 DEF Moves
      <4>2. InStream(par, ske["ini"], m, net'["ini"], net["res"])
        BY <1>2, <1>7, <1>8, <1>10, <2>1, <4>1, ResponderMoves
      <4> QED
        BY <1>6, <1>10, <4>2
    <3> QED
      BY <3>1, <3>2
  <2> QED
    BY <1>4, <1>6, <1>10, <2>2, <2>3, Stepping
<1> QED
  BY <1>9, <1>10 DEF Side

(* The SKE with its next state function.                                   *)
To(k, n) == [k EXCEPT !.next = n]

(* What To leaves alone.                                                   *)
LEMMA ToFields ==
  ASSUME NEW s \in Side, NEW k \in SkeType, NEW n \in Working, Resends(s, k, par)
  PROVE  /\ To(k, n) \in SkeType /\ Kept(k, To(k, n)) /\ Resends(s, To(k, n), par)
         /\ To(k, n).next = n /\ To(k, n).verdict = k.verdict /\ To(k, n).packet = k.packet
         /\ To(k, n).ok <=> k.ok
<1> DEFINE m == To(k, n)
<1>1. m \in SkeType
  BY DEF To, SkeType, Working, States
<1>2. /\ m.next = n /\ m.run = k.run /\ m.refcnt = k.refcnt /\ m.verdict = k.verdict
      /\ m.packet = k.packet /\ m.timers = k.timers /\ m.retrans = k.retrans
  BY DEF To, SkeType
<1>3. /\ Same(k, m)
      /\ m.ok <=> k.ok
      /\ m.notified <=> k.notified
      /\ m.aborted <=> k.aborted
      /\ m.owned <=> k.owned
  BY DEF To, SkeType, Same
<1> HIDE DEF m
<1>4. Kept(k, m) /\ Resends(s, m, par)
  BY <1>2, <1>3 DEF Kept, Resends
<1> QED
  BY <1>1, <1>2, <1>3, <1>4 DEF m

(* What two changes leave alone, one change leaves alone after the other.  *)
LEMMA KeptTwice ==
  ASSUME NEW k, NEW c, NEW m, Kept(k, c), Kept(c, m)
  PROVE  Kept(k, m)
BY DEF Kept, Same

(* A move without a packet.                                                *)
LEMMA GoStep ==
  ASSUME SkeInv, NEW s \in Side, running = s, Active(ske[s]), NEW m \in SkeType,
         NEW r \in BOOLEAN, IF r THEN Continue(s, m) ELSE Wait(s, m),
         Kept(ske[s], m), m.packet = "none", Moves(s, ske[s], m, par, r, "none"),
         Judged(s, ske[s], m, par), Resends(s, m, par)
  PROVE  SkeInv'
<1>1. Turned(s, m) /\ running' = (IF r THEN s ELSE "none") /\ net' = net
  BY DEF Turned, Continue, Wait
<1> QED
  BY <1>1, MoveStep

(* A move with a packet, which is saved for retransmission.                *)
LEMMA SendStep ==
  ASSUME SkeInv, NEW s \in Side, running = s, Active(ske[s]), NEW c \in SkeType,
         NEW x \in Packets, s = "res" => x # "success", NEW r \in BOOLEAN,
         ske' = [ske EXCEPT ![s] = Saved(c, x)], par' = par, net' = Sent(s, x),
         running' = (IF r THEN s ELSE "none"),
         Kept(ske[s], c), c.packet = "none", Moves(s, ske[s], c, par, r, x),
         c.next # "phase4", c.verdict = ske[s].verdict, c.ok <=> ske[s].ok, Resends(s, c, par)
  PROVE  SkeInv'
<1> DEFINE m == Saved(c, x)
<1>1. m \in SkeType /\ Alike(c, m) /\ Resends(s, m, par)
  BY SavedAlike
<1>2. ske' = [ske EXCEPT ![s] = m]
  OBVIOUS
<1> HIDE DEF m
<1>3. Kept(ske[s], m) /\ m.packet = "none" /\ Judged(s, ske[s], m, par)
  BY <1>1 DEF Alike, Kept, Same, Judged
<1>4. Moves(s, ske[s], m, par, r, x)
  BY <1>1 DEF Alike, Moves
<1>5. Turned(s, m) /\ net' = (IF x = "none" THEN net ELSE Sent(s, x))
  BY <1>2 DEF Turned, Packets
<1> QED
  BY <1>1, <1>3, <1>4, <1>5, MoveStep

(* The verification of the remote's key.                                   *)
LEMMA VerifyStep ==
  ASSUME SkeInv, NEW s \in Side, running = s, Active(ske[s]), NEW c \in SkeType,
         Verify(s, c), Kept(ske[s], c), c.packet = "none", c.next = "phase4",
         c.verdict = ske[s].verdict, Resends(s, c, par),
         \/ s = "ini" /\ ske[s].next = "phase3" /\ ske[s].packet = "ke2"
         \/ s = "res" /\ ske[s].next = "phase2" /\ ske[s].packet = "ke1"
  PROVE  SkeInv'
<1>1. c.verdict # "asked"
  BY RunningFacts
<1>2. CASE s \notin par.verify /\ Continue(s, c)
  <2>1. Moves(s, ske[s], c, par, TRUE, "none") /\ Judged(s, ske[s], c, par)
    BY <1>1, <1>2 DEF Moves, Judged
  <2> QED
    BY <1>2, <2>1, GoStep
<1>3. CASE Wait(s, [c EXCEPT !.verdict = "asked"])
  <2> DEFINE m == [c EXCEPT !.verdict = "asked"]
  <2>1. m \in SkeType
    BY DEF SkeType
  <2>2. /\ m.next = c.next /\ m.run = c.run /\ m.refcnt = c.refcnt /\ m.verdict = "asked"
        /\ m.packet = c.packet /\ m.timers = c.timers /\ m.retrans = c.retrans
    BY DEF SkeType
  <2>3. /\ Same(c, m)
        /\ m.notified <=> c.notified
        /\ m.aborted <=> c.aborted
        /\ m.owned <=> c.owned
    BY DEF SkeType, Same
  <2>4. Wait(s, m)
    BY <1>3
  <2> HIDE DEF m
  <2>5. Kept(ske[s], m) /\ Resends(s, m, par)
    BY <2>2, <2>3 DEF Kept, Same, Resends
  <2>6. Moves(s, ske[s], m, par, FALSE, "none") /\ Judged(s, ske[s], m, par)
    BY <2>2 DEF Moves, Judged
  <2> QED
    BY <2>1, <2>2, <2>4, <2>5, <2>6, GoStep
<1>4. ASSUME NEW b \in BOOLEAN,
             Continue(s, [c EXCEPT !.verdict = IF b THEN "yes" ELSE "no", !.ok = b])
      PROVE  SkeInv'
  <2> DEFINE m == [c EXCEPT !.verdict = IF b THEN "yes" ELSE "no", !.ok = b]
  <2>1. m \in SkeType
    BY DEF SkeType
  <2>2. /\ m.next = c.next /\ m.run = c.run /\ m.refcnt = c.refcnt
        /\ m.verdict = IF b THEN "yes" ELSE "no"
        /\ m.packet = c.packet /\ m.timers = c.timers /\ m.retrans = c.retrans
    BY DEF SkeType
  <2>3. /\ Same(c, m)
        /\ m.ok <=> b
        /\ m.notified <=> c.notified
        /\ m.aborted <=> c.aborted
        /\ m.owned <=> c.owned
    BY DEF SkeType, Same
  <2>4. Continue(s, m)
    BY <1>4
  <2> HIDE DEF m
  <2>5. Kept(ske[s], m) /\ Resends(s, m, par)
    BY <2>2, <2>3 DEF Kept, Same, Resends
  <2>6. Moves(s, ske[s], m, par, TRUE, "none") /\ Judged(s, ske[s], m, par)
    BY <2>2, <2>3 DEF Moves, Judged
  <2> QED
    BY <2>1, <2>2, <2>4, <2>5, <2>6, GoStep
<1>5. \/ s \notin par.verify /\ Continue(s, c)
      \/ Wait(s, [c EXCEPT !.verdict = "asked"])
      \/ Continue(s, [c EXCEPT !.verdict = IF TRUE THEN "yes" ELSE "no", !.ok = TRUE])
      \/ Continue(s, [c EXCEPT !.verdict = IF FALSE THEN "yes" ELSE "no", !.ok = FALSE])
  BY DEF Verify
<1> QED
  BY <1>2, <1>3, <1>4, <1>5

(* silc_ske_st_initiator_start.                                            *)
LEMMA InitiatorStartStep ==
  ASSUME SkeInv, InitiatorStart
  PROVE  SkeInv'
<1> DEFINE k == ske["ini"]
           c == To(k, "phase1")
<1>1. running = "ini" /\ k.next = "start" /\ "ini" \in Side /\ "start" \in Working
  BY DEF InitiatorStart, In, Side, Working
<1>2. /\ k \in SkeType /\ Local("ini", k, TRUE, par) /\ Resends("ini", k, par) /\ Active(k)
  BY <1>1, RunningFacts
<1>3. k.packet = "none"
  BY <1>1, <1>2 DEF Local, Woken, Reads
<1>4. Kept(k, k)
  BY DEF Kept, Same
<1>5. CASE k.aborted /\ Continue("ini", [k EXCEPT !.next = "aborted"])
  BY <1>1, <1>2, <1>5, AbortedStep
<1>6. CASE Continue("ini", Failing(k))
  BY <1>1, <1>2, <1>3, <1>4, <1>6, FailingStep
<1>7. CASE SendAndWait("ini", [k EXCEPT !.next = "phase1"], "ke")
  <2>1. "phase1" \in Working /\ "ke" \in Packets
    BY DEF Working, Packets
  <2>2. /\ c \in SkeType /\ Kept(k, c) /\ Resends("ini", c, par) /\ c.next = "phase1"
        /\ c.verdict = k.verdict /\ c.packet = "none"
        /\ c.ok <=> k.ok
    BY <1>1, <1>2, <1>3, <2>1, ToFields
  <2>3. /\ ske' = [ske EXCEPT !["ini"] = Saved(c, "ke")] /\ par' = par
        /\ net' = Sent("ini", "ke") /\ running' = "none"
    BY <1>7 DEF SendAndWait, To
  <2> HIDE DEF c
  <2>4. Moves("ini", k, c, par, FALSE, "ke")
    BY <1>1, <2>2 DEF Moves
  <2> QED
    BY <1>1, <1>2, <2>1, <2>2, <2>3, <2>4, SendStep
<1> QED
  BY <1>5, <1>6, <1>7 DEF InitiatorStart

(* silc_ske_st_initiator_phase1.                                           *)
LEMMA InitiatorPhase1Step ==
  ASSUME SkeInv, InitiatorPhase1
  PROVE  SkeInv'
<1> DEFINE k == ske["ini"]
           c == [k EXCEPT !.packet = "none", !.timers = @ \ {"probe"}]
           m == To(c, "phase2")
<1>1. running = "ini" /\ k.next = "phase1" /\ "ini" \in Side /\ "phase1" \in Working
  BY DEF InitiatorPhase1, In, Side, Working
<1>2. /\ k \in SkeType /\ Resends("ini", k, par) /\ Active(k) /\ Reads("ini", k, par)
  BY <1>1, RunningFacts DEF Reads
<1>3. c \in SkeType
  BY <1>2 DEF SkeType
<1>4. /\ c.next = k.next /\ c.run = k.run /\ c.refcnt = k.refcnt /\ c.verdict = k.verdict
      /\ c.packet = "none" /\ c.timers = k.timers \ {"probe"} /\ c.retrans = k.retrans
  BY <1>2 DEF SkeType
<1>5. /\ Same(k, c)
      /\ c.ok <=> k.ok
      /\ c.notified <=> k.notified
      /\ c.aborted <=> k.aborted
      /\ c.owned <=> k.owned
  BY <1>2 DEF SkeType, Same
<1>6. \/ OldPacket("ini")
      \/ Continue("ini", Failing(c))
      \/ k.packet = "ke" /\ Continue("ini", m)
  BY DEF InitiatorPhase1, To
<1> HIDE DEF c
<1>7. Kept(k, c) /\ Resends("ini", c, par)
  BY <1>2, <1>4, <1>5 DEF Kept, Resends
<1>8. CASE OldPacket("ini")
  BY <1>1, <1>2, <1>8, OldPacketStep
<1>9. CASE Continue("ini", Failing(c))
  BY <1>1, <1>2, <1>3, <1>4, <1>7, <1>9, FailingStep
<1>10. CASE k.packet = "ke" /\ Continue("ini", m)
  <2>1. "phase2" \in Working
    BY DEF Working
  <2>2. /\ m \in SkeType /\ Kept(c, m) /\ Resends("ini", m, par) /\ m.next = "phase2"
        /\ m.verdict = c.verdict /\ m.packet = "none"
        /\ m.ok <=> c.ok
    BY <1>1, <1>3, <1>4, <1>7, <2>1, ToFields
  <2> HIDE DEF m
  <2>3. Kept(k, m)
    BY <1>7, <2>2, KeptTwice
  <2>4. Moves("ini", k, m, par, TRUE, "none") /\ Judged("ini", k, m, par)
    BY <1>1, <1>4, <1>5, <1>10, <2>2 DEF Moves, Judged
  <2> QED
    BY <1>1, <1>2, <1>10, <2>2, <2>3, <2>4, GoStep
<1> QED
  BY <1>6, <1>8, <1>9, <1>10

(* silc_ske_st_initiator_phase2.                                           *)
LEMMA InitiatorPhase2Step ==
  ASSUME SkeInv, InitiatorPhase2
  PROVE  SkeInv'
<1> DEFINE k == ske["ini"]
           c == To(k, "phase3")
<1>1. running = "ini" /\ k.next = "phase2" /\ "ini" \in Side /\ "phase2" \in Working
  BY DEF InitiatorPhase2, In, Side, Working
<1>2. /\ k \in SkeType /\ Local("ini", k, TRUE, par) /\ Resends("ini", k, par) /\ Active(k)
  BY <1>1, RunningFacts
<1>3. k.packet = "none"
  BY <1>1, <1>2 DEF Local, Woken, Reads
<1>4. Kept(k, k)
  BY DEF Kept, Same
<1>5. CASE Continue("ini", Failing(k))
  BY <1>1, <1>2, <1>3, <1>4, <1>5, FailingStep
<1>6. CASE SendAndWait("ini", [k EXCEPT !.next = "phase3"], "ke1")
  <2>1. "phase3" \in Working /\ "ke1" \in Packets
    BY DEF Working, Packets
  <2>2. /\ c \in SkeType /\ Kept(k, c) /\ Resends("ini", c, par) /\ c.next = "phase3"
        /\ c.verdict = k.verdict /\ c.packet = "none"
        /\ c.ok <=> k.ok
    BY <1>1, <1>2, <1>3, <2>1, ToFields
  <2>3. /\ ske' = [ske EXCEPT !["ini"] = Saved(c, "ke1")] /\ par' = par
        /\ net' = Sent("ini", "ke1") /\ running' = "none"
    BY <1>6 DEF SendAndWait, To
  <2> HIDE DEF c
  <2>4. Moves("ini", k, c, par, FALSE, "ke1")
    BY <1>1, <2>2 DEF Moves
  <2> QED
    BY <1>1, <1>2, <2>1, <2>2, <2>3, <2>4, SendStep
<1> QED
  BY <1>5, <1>6 DEF InitiatorPhase2

(* silc_ske_st_initiator_phase3, for a remote that provides its key.       *)
LEMMA InitiatorPhase3Step ==
  ASSUME SkeInv, InitiatorPhase3, ~YieldError("ini", Cleared(ske["ini"]))
  PROVE  SkeInv'
<1> DEFINE k == ske["ini"]
           c == Cleared(k)
           m == To(c, "phase4")
<1>1. running = "ini" /\ k.next = "phase3" /\ "ini" \in Side /\ "phase3" \in Working
  BY DEF InitiatorPhase3, In, Side, Working
<1>2. /\ k \in SkeType /\ Resends("ini", k, par) /\ Active(k) /\ Reads("ini", k, par)
  BY <1>1, RunningFacts DEF Reads
<1>3. /\ c \in SkeType /\ Kept(k, c) /\ Resends("ini", c, par)
      /\ c.verdict = k.verdict /\ c.packet = "none"
  BY <1>1, <1>2, ClearedFields
<1>4. \/ OldPacket("ini")
      \/ Continue("ini", Failing(c))
      \/ k.packet = "ke2" /\ Verify("ini", m)
  BY DEF InitiatorPhase3, To, Cleared
<1> HIDE DEF c
<1>5. CASE OldPacket("ini")
  BY <1>1, <1>2, <1>5, OldPacketStep
<1>6. CASE Continue("ini", Failing(c))
  BY <1>1, <1>2, <1>3, <1>6, FailingStep
<1>7. CASE k.packet = "ke2" /\ Verify("ini", m)
  <2>1. "phase4" \in Working
    BY DEF Working
  <2>2. /\ m \in SkeType /\ Kept(c, m) /\ Resends("ini", m, par) /\ m.next = "phase4"
        /\ m.verdict = c.verdict /\ m.packet = "none"
    BY <1>1, <1>3, <2>1, ToFields
  <2> HIDE DEF m
  <2>3. Kept(k, m)
    BY <1>3, <2>2, KeptTwice
  <2> QED
    BY <1>1, <1>2, <1>3, <1>7, <2>2, <2>3, VerifyStep
<1> QED
  BY <1>4, <1>5, <1>6, <1>7

(* silc_ske_st_initiator_phase4.                                           *)
LEMMA InitiatorPhase4Step ==
  ASSUME SkeInv, InitiatorPhase4
  PROVE  SkeInv'
<1> DEFINE k == ske["ini"]
           c == To(k, "end")
<1>1. running = "ini" /\ k.next = "phase4" /\ "ini" \in Side /\ "phase4" \in Working
  BY DEF InitiatorPhase4, In, Side, Working
<1>2. /\ k \in SkeType /\ Local("ini", k, TRUE, par) /\ Resends("ini", k, par) /\ Active(k)
  BY <1>1, RunningFacts
<1>3. k.packet = "none"
  BY <1>1, <1>2 DEF Local, Woken, Reads
<1>4. Kept(k, k)
  BY DEF Kept, Same
<1>5. /\ c \in SkeType /\ Kept(k, c) /\ Resends("ini", c, par) /\ c.next = "end"
      /\ c.verdict = k.verdict /\ c.packet = "none"
      /\ c.ok <=> k.ok
  <2>1. "end" \in Working
    BY DEF Working
  <2> QED
    BY <1>1, <1>2, <1>3, <2>1, ToFields
<1>6. \/ k.aborted /\ Continue("ini", [k EXCEPT !.next = "aborted"])
      \/ Continue("ini", Failing(k))
      \/ k.ok /\ par.no_acks /\ Continue("ini", c)
      \/ k.ok /\ ~par.no_acks /\ SendAndWait("ini", c, "success")
  BY DEF InitiatorPhase4, To
<1> HIDE DEF c
<1>7. CASE k.aborted /\ Continue("ini", [k EXCEPT !.next = "aborted"])
  BY <1>1, <1>2, <1>7, AbortedStep
<1>8. CASE Continue("ini", Failing(k))
  BY <1>1, <1>2, <1>3, <1>4, <1>8, FailingStep
<1>9. CASE k.ok /\ par.no_acks /\ Continue("ini", c)
  <2>1. Moves("ini", k, c, par, TRUE, "none") /\ Judged("ini", k, c, par)
    BY <1>1, <1>5, <1>9 DEF Moves, Judged
  <2> QED
    BY <1>1, <1>2, <1>5, <1>9, <2>1, GoStep
<1>10. CASE k.ok /\ ~par.no_acks /\ SendAndWait("ini", c, "success")
  <2>1. /\ ske' = [ske EXCEPT !["ini"] = Saved(c, "success")] /\ par' = par
        /\ net' = Sent("ini", "success") /\ running' = "none" /\ "success" \in Packets
    BY <1>10 DEF SendAndWait, Packets
  <2>2. Moves("ini", k, c, par, FALSE, "success")
    BY <1>1, <1>5, <1>10 DEF Moves
  <2> QED
    BY <1>1, <1>2, <1>5, <2>1, <2>2, SendStep
<1> QED
  BY <1>6, <1>7, <1>8, <1>9, <1>10

(* silc_ske_st_initiator_end.                                              *)
LEMMA InitiatorEndStep ==
  ASSUME SkeInv, InitiatorEnd
  PROVE  SkeInv'
<1> DEFINE k == ske["ini"]
           m == Finished(k)
<1>1. running = "ini" /\ k.next = "end" /\ "ini" \in Side /\ "end" \in Working
  BY DEF InitiatorEnd, In, Side, Working
<1>2. /\ k \in SkeType /\ par \in ParType /\ Local("ini", k, TRUE, par) /\ Active(k)
      /\ k.started /\ ~k.fin /\ k.told = <<>> /\ k.verdict # "asked"
      /\ k.refcnt = (IF k.owned THEN 1 ELSE 0) + 1
  BY <1>1, RunningFacts
<1>3. CASE ~par.no_acks /\ OldPacket("ini")
  <2>1. Reads("ini", k, par)
    BY <1>1, <1>3 DEF Reads
  <2> QED
    BY <1>1, <1>2, <1>3, <2>1, OldPacketStep
<1>4. CASE (par.no_acks \/ k.packet = "success") /\ Wait("ini", m)
  <2>1. "ini" \in par.verify => k.verdict = "yes"
    BY <1>1, <1>2 DEF Local, Verified
  <2>2. m \in SkeType /\ Local("ini", m, FALSE, par) /\ Silent(m) /\ m.packet = "none"
    BY <1>1, <1>2, <2>1, Ends
  <2> HIDE DEF m
  <2>3. Turned("ini", m) /\ (running' = "ini") = FALSE /\ net' = net
    BY <1>1, <1>4 DEF Turned, Wait
  <2> QED
    BY <1>1, <1>2, <1>4, <2>2, <2>3, EndStep
<1> QED
  BY <1>3, <1>4 DEF InitiatorEnd

(* silc_ske_st_responder_start.                                            *)
LEMMA ResponderStartStep ==
  ASSUME SkeInv, ResponderStart
  PROVE  SkeInv'
<1> DEFINE k == ske["res"]
           n == IF par.prop THEN "phase2" ELSE "phase1"
           m == To(k, n)
<1>1. running = "res" /\ k.next = "start" /\ "res" \in Side /\ "start" \in Working
  BY DEF ResponderStart, In, Side, Working
<1>2. /\ k \in SkeType /\ par \in ParType /\ Local("res", k, TRUE, par)
      /\ Resends("res", k, par) /\ Active(k) /\ net \in [Side -> Seq(Packets)]
  BY <1>1, RunningFacts
<1>3. CASE k.aborted /\ Continue("res", [k EXCEPT !.next = "aborted"])
  BY <1>1, <1>2, <1>3, AbortedStep
<1>4. CASE Wait("res", m)
  <2>1. n \in Working
    BY DEF Working
  <2>2. /\ m \in SkeType /\ Kept(k, m) /\ Resends("res", m, par) /\ m.next = n
        /\ m.verdict = k.verdict /\ m.packet = k.packet
    BY <1>1, <1>2, <2>1, ToFields
  <2> HIDE DEF m
  <2>3. Turned("res", m) /\ (running' = "res") = FALSE /\ net' = net
    BY <1>1, <1>4 DEF Turned, Wait
  <2>4. /\ Confirmed(par, ske["ini"], k, net["ini"])
        /\ InStream(par, ske["ini"], k, net["ini"], net["res"])
        /\ (Fresh(k) => k = Idle)
    BY SideFacts DEF SkeInv, Side
  <2>5. Active(m) /\ Early(m, par) /\ Early(k, par) /\ m.told = k.told
    BY <1>1, <1>2, <2>2 DEF Active, Early, Kept, Same, Working
  <2>6. k.packet # "success"
    BY <1>1, <1>2 DEF Local, Woken
  <2>7. Local("res", m, FALSE, par)
    BY <1>1, <1>2, <2>2, <2>6, StartsToWait DEF Kept
  <2>8. Confirmed(par, ske["ini"], m, net'["ini"])
    BY <2>3, <2>4, <2>5, ResponderConfirmed
  <2>9. InStream(par, ske["ini"], m, net'["ini"], net'["res"])
    BY <1>1, <2>2, <2>3, <2>4, <2>5, ResponderStarts
  <2> QED
    BY <1>1, <1>2, <2>2, <2>3, <2>7, <2>8, <2>9, Stepping
<1> QED
  BY <1>3, <1>4 DEF ResponderStart, To

(* silc_ske_st_responder_phase1.                                           *)
LEMMA ResponderPhase1Step ==
  ASSUME SkeInv, ResponderPhase1
  PROVE  SkeInv'
<1> DEFINE k == ske["res"]
           c == Cleared(k)
           m == To(c, "phase2")
<1>1. running = "res" /\ k.next = "phase1" /\ "res" \in Side /\ "phase1" \in Working
  BY DEF ResponderPhase1, In, Side, Working
<1>2. k \in SkeType /\ Resends("res", k, par) /\ Active(k)
  BY <1>1, RunningFacts
<1>3. /\ c \in SkeType /\ Kept(k, c) /\ Resends("res", c, par)
      /\ c.verdict = k.verdict /\ c.packet = "none"
      /\ c.ok <=> k.ok
  BY <1>1, <1>2, ClearedFields
<1>4. \/ Continue("res", Failing(c))
      \/ k.packet = "ke" /\ SendAndWait("res", m, "ke")
  BY DEF ResponderPhase1, To, Cleared
<1> HIDE DEF c
<1>5. CASE Continue("res", Failing(c))
  BY <1>1, <1>2, <1>3, <1>5, FailingStep
<1>6. CASE k.packet = "ke" /\ SendAndWait("res", m, "ke")
  <2>1. "phase2" \in Working /\ "ke" \in Packets
    BY DEF Working, Packets
  <2>2. /\ m \in SkeType /\ Kept(c, m) /\ Resends("res", m, par) /\ m.next = "phase2"
        /\ m.verdict = c.verdict /\ m.packet = "none"
        /\ m.ok <=> c.ok
    BY <1>1, <1>3, <2>1, ToFields
  <2> HIDE DEF m
  <2>3. Kept(k, m)
    BY <1>3, <2>2, KeptTwice
  <2>4. /\ ske' = [ske EXCEPT !["res"] = Saved(m, "ke")] /\ par' = par
        /\ net' = Sent("res", "ke") /\ running' = "none"
    BY <1>6 DEF SendAndWait
  <2>5. Moves("res", k, m, par, FALSE, "ke")
    BY <1>1, <1>6, <2>2 DEF Moves
  <2> QED
    BY <1>1, <1>2, <1>3, <2>1, <2>2, <2>3, <2>4, <2>5, SendStep
<1> QED
  BY <1>4, <1>5, <1>6

(* silc_ske_st_responder_phase2.                                           *)
LEMMA ResponderPhase2Step ==
  ASSUME SkeInv, ResponderPhase2
  PROVE  SkeInv'
<1> DEFINE k == ske["res"]
           c == Cleared(k)
           m == To(c, "phase4")
<1>1. running = "res" /\ k.next = "phase2" /\ "res" \in Side /\ "phase2" \in Working
  BY DEF ResponderPhase2, In, Side, Working
<1>2. /\ k \in SkeType /\ Resends("res", k, par) /\ Active(k) /\ Reads("res", k, par)
  BY <1>1, RunningFacts DEF Reads
<1>3. /\ c \in SkeType /\ Kept(k, c) /\ Resends("res", c, par)
      /\ c.verdict = k.verdict /\ c.packet = "none"
  BY <1>1, <1>2, ClearedFields
<1>4. \/ OldPacket("res")
      \/ Continue("res", Failing(c))
      \/ k.packet = "ke1" /\ Verify("res", m)
  BY DEF ResponderPhase2, To, Cleared
<1> HIDE DEF c
<1>5. CASE OldPacket("res")
  BY <1>1, <1>2, <1>5, OldPacketStep
<1>6. CASE Continue("res", Failing(c))
  BY <1>1, <1>2, <1>3, <1>6, FailingStep
<1>7. CASE k.packet = "ke1" /\ Verify("res", m)
  <2>1. "phase4" \in Working
    BY DEF Working
  <2>2. /\ m \in SkeType /\ Kept(c, m) /\ Resends("res", m, par) /\ m.next = "phase4"
        /\ m.verdict = c.verdict /\ m.packet = "none"
    BY <1>1, <1>3, <2>1, ToFields
  <2> HIDE DEF m
  <2>3. Kept(k, m)
    BY <1>3, <2>2, KeptTwice
  <2> QED
    BY <1>1, <1>2, <1>3, <1>7, <2>2, <2>3, VerifyStep
<1> QED
  BY <1>4, <1>5, <1>6, <1>7

(* silc_ske_st_responder_phase4.                                           *)
LEMMA ResponderPhase4Step ==
  ASSUME SkeInv, ResponderPhase4
  PROVE  SkeInv'
<1> DEFINE k == ske["res"]
           c == To(k, "phase5")
<1>1. running = "res" /\ k.next = "phase4" /\ "res" \in Side /\ "phase4" \in Working
  BY DEF ResponderPhase4, In, Side, Working
<1>2. /\ k \in SkeType /\ Local("res", k, TRUE, par) /\ Resends("res", k, par) /\ Active(k)
  BY <1>1, RunningFacts
<1>3. k.packet = "none"
  BY <1>1, <1>2 DEF Local, Woken, Reads
<1>4. Kept(k, k)
  BY DEF Kept, Same
<1>5. CASE k.aborted /\ Continue("res", [k EXCEPT !.next = "aborted"])
  BY <1>1, <1>2, <1>5, AbortedStep
<1>6. CASE Continue("res", Failing(k))
  BY <1>1, <1>2, <1>3, <1>4, <1>6, FailingStep
<1>7. CASE k.ok /\ Continue("res", c)
  <2>1. "phase5" \in Working
    BY DEF Working
  <2>2. /\ c \in SkeType /\ Kept(k, c) /\ Resends("res", c, par) /\ c.next = "phase5"
        /\ c.verdict = k.verdict /\ c.packet = "none"
        /\ c.ok <=> k.ok
    BY <1>1, <1>2, <1>3, <2>1, ToFields
  <2> HIDE DEF c
  <2>3. Moves("res", k, c, par, TRUE, "none") /\ Judged("res", k, c, par)
    BY <1>1, <1>7, <2>2 DEF Moves, Judged
  <2> QED
    BY <1>1, <1>2, <1>7, <2>2, <2>3, GoStep
<1> QED
  BY <1>5, <1>6, <1>7 DEF ResponderPhase4, To

(* silc_ske_st_responder_phase5.                                           *)
LEMMA ResponderPhase5Step ==
  ASSUME SkeInv, ResponderPhase5
  PROVE  SkeInv'
<1> DEFINE k == ske["res"]
           c == To(k, "end")
<1>1. running = "res" /\ k.next = "phase5" /\ "res" \in Side /\ "phase5" \in Working
  BY DEF ResponderPhase5, In, Side, Working
<1>2. /\ k \in SkeType /\ Local("res", k, TRUE, par) /\ Resends("res", k, par) /\ Active(k)
      /\ par \in ParType
  BY <1>1, RunningFacts
<1>3. k.packet = "none"
  BY <1>1, <1>2 DEF Local, Woken, Reads
<1>4. Kept(k, k)
  BY DEF Kept, Same
<1>5. /\ c \in SkeType /\ Kept(k, c) /\ Resends("res", c, par) /\ c.next = "end"
      /\ c.verdict = k.verdict /\ c.packet = "none"
      /\ c.ok <=> k.ok
  <2>1. "end" \in Working
    BY DEF Working
  <2> QED
    BY <1>1, <1>2, <1>3, <2>1, ToFields
<1>6. \/ Continue("res", Failing(k))
      \/ /\ ske' = [ske EXCEPT !["res"] = Saved(c, "ke2")] /\ net' = Sent("res", "ke2")
         /\ par' = par /\ running' = (IF par.no_acks THEN "res" ELSE "none")
  BY <1>1 DEF ResponderPhase5, SendAndWait, To
<1> HIDE DEF c
<1>7. CASE Continue("res", Failing(k))
  BY <1>1, <1>2, <1>3, <1>4, <1>7, FailingStep
<1>8. CASE /\ ske' = [ske EXCEPT !["res"] = Saved(c, "ke2")] /\ net' = Sent("res", "ke2")
           /\ par' = par /\ running' = (IF par.no_acks THEN "res" ELSE "none")
  <2>1. "ke2" \in Packets /\ par.no_acks \in BOOLEAN
    BY <1>2 DEF Packets, ParType
  <2>2. Moves("res", k, c, par, par.no_acks, "ke2")
    BY <1>1, <1>5 DEF Moves
  <2> QED
    BY <1>1, <1>2, <1>5, <1>8, <2>1, <2>2, SendStep
<1> QED
  BY <1>6, <1>7, <1>8

(* silc_ske_st_responder_end.                                              *)
LEMMA ResponderEndStep ==
  ASSUME SkeInv, ResponderEnd
  PROVE  SkeInv'
<1> DEFINE k == ske["res"]
           c == Cleared(k)
           m == Finished(c)
<1>1. running = "res" /\ k.next = "end" /\ "res" \in Side /\ "end" \in Working
  BY DEF ResponderEnd, In, Side, Working
<1>2. /\ k \in SkeType /\ par \in ParType /\ Local("res", k, TRUE, par) /\ Active(k)
      /\ Resends("res", k, par) /\ net \in [Side -> Seq(Packets)]
      /\ k.started /\ ~k.fin /\ k.told = <<>> /\ k.verdict # "asked"
      /\ k.refcnt = (IF k.owned THEN 1 ELSE 0) + 1
  BY <1>1, RunningFacts
<1>3. /\ c \in SkeType /\ Kept(k, c) /\ Resends("res", c, par)
      /\ c.verdict = k.verdict /\ c.packet = "none" /\ c.retrans = k.retrans
      /\ c.ok <=> k.ok
  BY <1>1, <1>2, ClearedFields
<1>4. \/ ~par.no_acks /\ OldPacket("res")
      \/ Continue("res", Failing(c))
      \/ /\ par.no_acks \/ k.packet = "success"
         /\ ske' = [ske EXCEPT !["res"] = m]
         /\ net' = IF par.no_acks THEN net ELSE Sent("res", "success")
         /\ running' = "none" /\ par' = par
  BY DEF ResponderEnd, Cleared
<1> HIDE DEF c
<1>5. CASE ~par.no_acks /\ OldPacket("res")
  <2>1. Reads("res", k, par)
    BY <1>1, <1>5 DEF Reads
  <2> QED
    BY <1>1, <1>2, <1>5, <2>1, OldPacketStep
<1>6. CASE Continue("res", Failing(c))
  BY <1>1, <1>2, <1>3, <1>6, FailingStep
<1>7. CASE /\ par.no_acks \/ k.packet = "success"
           /\ ske' = [ske EXCEPT !["res"] = m]
           /\ net' = IF par.no_acks THEN net ELSE Sent("res", "success")
           /\ running' = "none" /\ par' = par
  <2>1. k.ok /\ ("res" \in par.verify => k.verdict = "yes")
    BY <1>1, <1>2 DEF Local, Verified
  <2>2. /\ c.started /\ ~c.fin /\ c.told = <<>> /\ c.retrans # "success"
        /\ c.refcnt = (IF c.owned THEN 1 ELSE 0) + 1
        /\ c.aborted <=> k.aborted
    BY <1>2, <1>3 DEF Kept, Same, Resends
  <2>3. /\ m \in SkeType /\ Local("res", m, FALSE, par) /\ Silent(m) /\ m.packet = "none"
        /\ m.told = IF c.aborted THEN <<>> ELSE <<c.ok>>
    BY <1>1, <1>2, <1>3, <2>1, <2>2, Ends
  <2> HIDE DEF m
  <2>4. Turned("res", m) /\ (running' = "res") = FALSE
    BY <1>1, <1>7 DEF Turned
  <2>5. CASE par.no_acks
    BY <1>1, <1>2, <1>7, <2>3, <2>4, <2>5, EndStep
  <2>6. CASE ~par.no_acks
    <3>1. ~k.aborted /\ k.packet = "success"
      BY <1>2, <1>7, <2>6 DEF Local, Woken
    <3>2. m.told = <<TRUE>>
      <4>1. c.ok = TRUE
        BY <1>3, <2>1 DEF SkeType
      <4> QED
        BY <2>2, <2>3, <3>1, <4>1
    <3>3. net' = Sent("res", "success") /\ "success" \in Packets /\ Other("res") = "ini"
      BY <1>7, <2>6 DEF Packets, Other
    <3>4. /\ net' \in [Side -> Seq(Packets)] /\ net'["res"] = net["res"]
          /\ ~par.udp => net'["ini"] = Append(net["ini"], "success")
      BY <1>1, <1>2, <3>3, SentPackets
    <3>5. /\ Confirmed(par, ske["ini"], k, net["ini"])
          /\ InStream(par, ske["ini"], k, net["ini"], net["res"])
      BY DEF SkeInv
    <3>6. Confirmed(par, ske["ini"], m, net'["ini"])
      BY <3>2, <3>5, ResponderConfirmed
    <3>7. InStream(par, ske["ini"], m, net'["ini"], net'["res"])
      <4>1. CASE par.udp
        BY <4>1 DEF InStream
      <4>2. CASE ~par.udp
        BY <1>1, <1>2, <2>3, <2>6, <3>1, <3>4, <3>5, <4>2, ResponderEnds
      <4> QED
        BY <4>1, <4>2
    <3> QED
      BY <1>1, <2>3, <2>4, <3>4, <3>6, <3>7, Stepping
  <2> QED
    BY <2>5, <2>6
<1> QED
  BY <1>4, <1>5, <1>6, <1>7

(* silc_ske_st_initiator_aborted, silc_ske_st_responder_aborted and the    *)
(* states error, which send a FAILURE.                                     *)
LEMMA SendFailureStep ==
  ASSUME SkeInv, NEW s \in Side, SendFailure(s)
  PROVE  SkeInv'
<1> DEFINE k == ske[s]
           m == Finished(k)
<1>1. running = s /\ k.next \in {"aborted", "error"}
  BY DEF SendFailure, In
<1>2. /\ k \in SkeType /\ par \in ParType /\ Local(s, k, TRUE, par)
      /\ k.started /\ ~k.fin /\ k.told = <<>> /\ Resends(s, k, par)
      /\ k.refcnt = (IF k.owned THEN 1 ELSE 0) + 1
  BY <1>1, RunningFacts
<1>3. ~(k.ok /\ ~k.aborted)
  BY <1>1, <1>2 DEF Local, Where, Active, Working
<1>4. /\ m \in SkeType /\ Local(s, m, FALSE, par) /\ Silent(m) /\ m.packet = "none"
      /\ m.told = IF k.aborted THEN <<>> ELSE <<k.ok>>
  BY <1>2, <1>3, Ends DEF Resends
<1>5. ske' = [ske EXCEPT ![s] = m] /\ net' = Sent(s, "failure") /\ running' = "none" /\ par' = par
  BY DEF SendFailure
<1> HIDE DEF m
<1>6. Turned(s, m) /\ (running' = s) = FALSE
  BY <1>1, <1>5 DEF Turned, Side
<1>7. m.told # <<TRUE>>
  <2>1. CASE k.aborted
    BY <1>4, <2>1, <<>> # <<TRUE>>
  <2>2. CASE ~k.aborted
    <3>1. k.ok = FALSE /\ <<FALSE>> # <<TRUE>>
      BY <1>2, <1>3, <2>2 DEF SkeType
    <3> QED
      BY <1>4, <2>2, <3>1
  <2> QED
    BY <2>1, <2>2
<1> QED
  BY <1>1, <1>2, <1>4, <1>5, <1>6, <1>7, EndStep

(* silc_ske_st_initiator_failure and silc_ske_st_responder_failure.        *)
LEMMA FailureStep ==
  ASSUME SkeInv, NEW s \in Side, Failure(s)
  PROVE  SkeInv'
<1> DEFINE k == ske[s]
           c == [k EXCEPT !.ok = FALSE]
           m == Finished(c)
<1>1. running = s /\ k.next = "failure"
  BY DEF Failure, In
<1>2. /\ k \in SkeType /\ par \in ParType /\ Local(s, k, TRUE, par)
      /\ k.started /\ ~k.fin /\ k.told = <<>> /\ Resends(s, k, par)
      /\ k.refcnt = (IF k.owned THEN 1 ELSE 0) + 1
  BY <1>1, RunningFacts
<1>3. c \in SkeType /\ c.refcnt = k.refcnt /\ c.verdict = k.verdict /\ c.retrans = k.retrans
  BY <1>2 DEF SkeType
<1>4. /\ ~c.ok /\ Same(k, c)
      /\ c.aborted <=> k.aborted
      /\ c.owned <=> k.owned
  BY <1>2 DEF SkeType, Same
<1>5. Wait(s, m)
  BY DEF Failure
<1> HIDE DEF c
<1>6. /\ c.started /\ ~c.fin /\ c.told = <<>> /\ (s = "res" => c.retrans # "success")
      /\ c.refcnt = (IF c.owned THEN 1 ELSE 0) + 1
  BY <1>2, <1>3, <1>4 DEF Same, Resends
<1>7. /\ m \in SkeType /\ Local(s, m, FALSE, par) /\ Silent(m) /\ m.packet = "none"
      /\ m.told = IF c.aborted THEN <<>> ELSE <<c.ok>>
  BY <1>2, <1>3, <1>4, <1>6, Ends
<1> HIDE DEF m
<1>8. Turned(s, m) /\ (running' = s) = FALSE /\ net' = net
  BY <1>1, <1>5 DEF Turned, Side, Wait
<1>9. m.told # <<TRUE>>
  <2>1. CASE c.aborted
    BY <1>7, <2>1, <<>> # <<TRUE>>
  <2>2. CASE ~c.aborted
    <3>1. c.ok = FALSE /\ <<FALSE>> # <<TRUE>>
      BY <1>3, <1>4 DEF SkeType
    <3> QED
      BY <1>7, <2>2, <3>1
  <2> QED
    BY <2>1, <2>2
<1> QED
  BY <1>2, <1>7, <1>8, <1>9, EndStep

-----------------------------------------------------------------------------
(* The specification.                                                      *)

(* Both SKEs begin idle, with nothing on its way.                          *)
LEMMA InitInv ==
  ASSUME Init
  PROVE  SkeInv
<1>1. Idle \in SkeType
  BY ParamsAssumption, EmptySeq DEF SkeType, Idle, States
<1>2. /\ Idle.next = "null" /\ Idle.run = 0 /\ Idle.packet = "none" /\ Idle.timers = {}
      /\ Idle.retrans = "none" /\ Idle.refcnt = 1 /\ Idle.verdict = "none" /\ Idle.told = <<>>
  BY DEF Idle
<1>3. ~Idle.started /\ ~Idle.fin /\ ~Idle.notified /\ ~Idle.aborted /\ ~Idle.linked /\ Idle.owned
  BY DEF Idle
<1>4. Fresh(Idle) /\ ~Active(Idle) /\ <<>> # <<TRUE>>
  BY <1>2, <1>3 DEF Fresh, Active
<1>5. \A s \in Side : ske[s] = Idle /\ net[s] = <<>> /\ (running = s) = FALSE
  BY DEF Init, Side
<1>6. FullType
  <2>1. net \in [Side -> Seq(Packets)]
    BY DEF Init
  <2>2. ske \in [Side -> SkeType]
    BY <1>1 DEF Init
  <2>3. par \in Params /\ par \in ParType /\ ~(par.udp /\ par.guarded)
    BY ParamsAssumption DEF Init, ParType
  <2> QED
    BY <2>1, <2>2, <2>3 DEF FullType, Init
<1>7. ASSUME NEW s \in Side
      PROVE  Local(s, ske[s], running = s, par)
  <2>1. Lives(Idle, FALSE) /\ Where(s, Idle, FALSE, par) /\ Woken(s, Idle, FALSE, par)
    BY <1>2, <1>3, <1>4 DEF Lives, Where, Woken
  <2>2. Verified(s, Idle, FALSE, par) /\ Resends(s, Idle, par)
    BY <1>2, <1>3, <1>4 DEF Verified, Resends
  <2> QED
    BY <1>5, <2>1, <2>2 DEF Local
<1>8. Confirmed(par, Idle, Idle, <<>>)
  BY <1>2, <1>4 DEF Confirmed
<1>9. InStream(par, Idle, Idle, <<>>, <<>>)
  <2>1. Turns(par, Idle, Idle, <<>>, <<>>)
    BY <1>2, <1>4 DEF Turns, Early
  <2>2. Inbox("ini", Idle, par, <<>>) /\ Inbox("res", Idle, par, <<>>)
    BY DEF Inbox
  <2>3. Last(Idle, Idle, <<>>) /\ NotAhead(par, Idle, Idle, <<>>, <<>>)
    BY <1>2, <1>3, Contents DEF Last, NotAhead
  <2> QED
    BY <2>1, <2>2, <2>3 DEF InStream
<1>10. "ini" \in Side /\ "res" \in Side
  BY DEF Side
<1> QED
  BY <1>5, <1>6, <1>7, <1>8, <1>9, <1>10 DEF SkeInv

-----------------------------------------------------------------------------
(* What holds whatever comes during the verification, up to the point where *)
(* the program breaks.                                                     *)

Leaving == {"failure", "error", "aborted"}

Base(s, k, r, p) ==
  /\ Lives(k, r) /\ Resends(s, k, p)
  /\ k.started /\ k.notified => k.next \in Leaving

LooseType ==
  /\ par \in Params /\ par \in ParType
  /\ running \in Side \cup {"none", "undefined"}
  /\ net \in [Side -> Seq(Packets)]
  /\ disturbed \in [Side -> Causes \cup {"none"}]
  /\ ske \in [Side -> SkeType]

BaseInv ==
  /\ LooseType
  /\ \A s \in Side : Base(s, ske[s], running = s, par)
  /\ \A s \in Side : AnsweredLate(s) => running = "undefined"

(* How a step of side s leaves its verification, and the other side: the   *)
(* key is not being verified, or the SKE takes part in the exchange as     *)
(* before, or the history says what has come, or the SKE was woken or has  *)
(* finished.                                                               *)
Moved(s) ==
  /\ par' = par /\ running' # "undefined"
  /\ \A o \in Side : o # s => ske'[o] = ske[o] /\ disturbed'[o] = disturbed[o]
  /\ disturbed'[s] = "none" => disturbed[s] = "none"
  /\ \/ ske'[s].verdict # "asked" \/ Active(ske'[s])
     \/ /\ ske'[s].verdict = ske[s].verdict
        /\ \/ ske[s].verdict = "asked" /\ ~par.guarded => disturbed'[s] # "none"
           \/ Active(ske[s]) => Active(ske'[s])
           \/ running = s \/ ske[s].run > 0 \/ ske[s].fin

(* What the invariant says of a side.                                      *)
LEMMA BaseFacts ==
  ASSUME BaseInv, NEW s \in Side
  PROVE  /\ ske[s] \in SkeType /\ par \in ParType /\ net \in [Side -> Seq(Packets)]
         /\ Base(s, ske[s], running = s, par) /\ Resends(s, ske[s], par)
         /\ (running = s \/ running = "none") /\ ske[s].next \in Working /\ ske[s].started
              => ske[s].verdict # "late" /\ ~ske[s].notified /\ ske[s].owned
BY DEF BaseInv, LooseType, Base, Leaving, Working, Lives, AnsweredLate, Side

(* A started SKE that goes on, or is told to end.                          *)
LEMMA Lasts ==
  ASSUME NEW s \in Side, NEW k \in SkeType, NEW m \in SkeType, NEW p \in ParType,
         NEW r \in BOOLEAN, NEW q \in BOOLEAN, Base(s, k, q, p), k.started, Same(k, m),
         m.refcnt = (IF m.owned THEN 1 ELSE 0) + 1, Resends(s, m, p),
         m.notified => m.next \in Leaving,
         m.owned \/ (r /\ m.notified)
  PROVE  Base(s, m, r, p)
<1>1. k.told = <<>> /\ ~k.fin /\ k.linked
  BY DEF Base, Lives
<1>2. ~Fresh(m)
  BY DEF Fresh, Same
<1>3. Lives(m, r)
  BY <1>1, <1>2 DEF Lives, Same, SkeType
<1> QED
  BY <1>3 DEF Base

(* An SKE that is not started and whose references change.                 *)
LEMMA Settles ==
  ASSUME NEW s \in Side, NEW k \in SkeType, NEW m \in SkeType, NEW p \in ParType,
         Base(s, k, FALSE, p), ~k.started, ~Fresh(k), ~m.started, ~m.linked, m.told = k.told,
         m.aborted <=> k.aborted, m.fin => k.fin, m.timers = k.timers, m.run = k.run,
         m.retrans = k.retrans,
         m.refcnt = (IF m.owned THEN 1 ELSE 0) + (IF m.fin THEN 1 ELSE 0)
  PROVE  Base(s, m, FALSE, p)
<1>1. ~Fresh(m)
  BY DEF Fresh
<1>2. Lives(m, FALSE)
  BY <1>1 DEF Base, Lives, SkeType
<1> QED
  BY <1>2 DEF Base, Resends

(* What has to be shown of a step of side s.                               *)
LEMMA BaseStep ==
  ASSUME BaseInv, NEW s \in Side, NEW m \in SkeType, ske' = [ske EXCEPT ![s] = m], par' = par,
         running \in {"none", s}, running' \in {"none", s, "undefined"},
         net' \in [Side -> Seq(Packets)], disturbed' \in [Side -> Causes \cup {"none"}],
         Base(s, m, running' = s, par), m.verdict = "late" => running' = "undefined"
  PROVE  /\ BaseInv' /\ ske'[s] = m
         /\ \A o \in Side : o # s => ske'[o] = ske[o]
<1>1. ske'[s] = m /\ \A o \in Side : o # s => ske'[o] = ske[o]
  BY DEF BaseInv, LooseType
<1>2. LooseType'
  BY DEF BaseInv, LooseType
<1>3. ASSUME NEW o \in Side
      PROVE  Base(o, ske'[o], running' = o, par')
  <2>1. CASE o = s
    BY <1>1, <2>1
  <2>2. CASE o # s
    <3>1. running # o /\ running' # o
      BY <2>2 DEF Side
    <3>2. (running' = o) = FALSE /\ (running = o) = FALSE
      BY <3>1
    <3>3. Base(o, ske[o], running = o, par)
      BY DEF BaseInv
    <3> QED
      BY <1>1, <2>2, <3>2, <3>3
  <2> QED
    BY <2>1, <2>2
<1>4. ASSUME NEW o \in Side, ske'[o].verdict = "late"
      PROVE  running' = "undefined"
  <2>1. o = s
    BY <1>1, <1>4 DEF BaseInv, AnsweredLate, Side
  <2> QED
    BY <1>1, <1>4, <2>1
<1> QED
  BY <1>1, <1>2, <1>3, <1>4 DEF BaseInv, AnsweredLate

(* What comes to a side while its key is verified leaves its trace.        *)
LEMMA Disturbs ==
  ASSUME BaseInv, NEW s \in Side, NEW what \in Causes, Disturb(s, what)
  PROVE  /\ disturbed' \in [Side -> Causes \cup {"none"}]
         /\ \A o \in Side : o # s => disturbed'[o] = disturbed[o]
         /\ disturbed'[s] = "none" => disturbed[s] = "none"
         /\ ske[s].verdict = "asked" /\ ~par.guarded => disturbed'[s] # "none"
BY DEF Disturb, BaseInv, LooseType, Causes

(* A step with which something comes to side s.                            *)
LEMMA EventStep ==
  ASSUME BaseInv, NEW s \in Side, NEW what \in Causes, Disturb(s, what), NEW m \in SkeType,
         ske' = [ske EXCEPT ![s] = m], par' = par, net' \in [Side -> Seq(Packets)],
         running = "none", running' \in {"none", s}, Base(s, m, running' = s, par),
         m.verdict = ske[s].verdict
  PROVE  BaseInv' /\ Moved(s)
<1>1. ske[s].verdict # "late"
  BY DEF BaseInv, AnsweredLate
<1>2. BaseInv' /\ ske'[s] = m /\ \A o \in Side : o # s => ske'[o] = ske[o]
  BY <1>1, BaseStep, Disturbs
<1> QED
  BY <1>2, Disturbs DEF Moved, Side

(* A step that leaves the history alone.                                   *)
LEMMA PlainStep ==
  ASSUME BaseInv, NEW s \in Side, NEW m \in SkeType, ske' = [ske EXCEPT ![s] = m], par' = par,
         net' \in [Side -> Seq(Packets)], disturbed' = disturbed, running \in {"none", s},
         running' \in {"none", s}, Base(s, m, running' = s, par),
         \/ m.verdict \notin {"asked", "late"} \/ (m.verdict # "late" /\ Active(m))
         \/ /\ m.verdict = ske[s].verdict
            /\ \/ Active(ske[s]) => Active(m)
               \/ running = s \/ ske[s].run > 0 \/ ske[s].fin
  PROVE  BaseInv' /\ Moved(s)
<1>1. ske[s].verdict # "late"
  BY DEF BaseInv, AnsweredLate, Side
<1>2. m.verdict # "late" /\ disturbed' \in [Side -> Causes \cup {"none"}]
  BY <1>1 DEF BaseInv, LooseType
<1>3. BaseInv' /\ ske'[s] = m /\ \A o \in Side : o # s => ske'[o] = ske[o]
  BY <1>2, BaseStep
<1> QED
  BY <1>3 DEF Moved, Side

(* An SKE that finishes.                                                   *)
LEMMA FinishesBase ==
  ASSUME NEW s \in Side, NEW k \in SkeType, NEW p \in ParType, NEW r \in BOOLEAN,
         k.started, k.told = <<>>, k.refcnt = (IF k.owned THEN 1 ELSE 0) + 1,
         s = "res" => k.retrans # "success"
  PROVE  Base(s, Finished(k), FALSE, p) /\ Finished(k) \in SkeType
<1> DEFINE m == Finished(k)
<1>1. /\ m \in SkeType /\ m.timers = {} /\ m.run = 0 /\ m.refcnt = k.refcnt
      /\ m.retrans = k.retrans /\ ~m.linked /\ ~m.started /\ m.fin
      /\ m.owned <=> k.owned
      /\ m.aborted <=> k.aborted
      /\ m.told = IF k.aborted THEN <<>> ELSE <<k.ok>>
      /\ m.told \in {<<>>, <<TRUE>>, <<FALSE>>}
      /\ m.told = <<>> => k.aborted
  BY FinishedFields
<1> HIDE DEF m
<1>2. ~Fresh(m)
  BY <1>1 DEF Fresh
<1>3. Lives(m, FALSE)
  BY <1>1, <1>2 DEF Lives, SkeType
<1> QED
  BY <1>1, <1>3 DEF Base, Resends, m

-----------------------------------------------------------------------------
(* The steps again, with what holds of them in any case.                   *)

(* silc_ske_initiator, silc_ske_responder.                                 *)
LEMMA StartBase ==
  ASSUME BaseInv, NEW s \in Side, Start(s)
  PROVE  BaseInv' /\ Moved(s)
<1> DEFINE k == ske[s]
           m == [k EXCEPT !.next = IF s = "ini" /\ par.prop THEN "phase2" ELSE "start",
                          !.started = TRUE, !.run = 1, !.linked = TRUE,
                          !.refcnt = @ + 1, !.timers = StartTimers(s)]
<1>1. /\ k = Idle /\ k \in SkeType /\ par \in ParType /\ net' = net /\ par' = par
      /\ net \in [Side -> Seq(Packets)] /\ running' = running /\ running = "none"
      /\ disturbed' = disturbed
  BY BaseFacts DEF Start
<1>2. ske' = [ske EXCEPT ![s] = m]
  BY DEF Start, BaseInv, LooseType
<1>3. StartTimers(s) \in SUBSET {"timeout", "probe", "retry"} /\ "retry" \notin StartTimers(s)
  BY DEF StartTimers
<1>4. m \in SkeType
  <2>1. (IF s = "ini" /\ par.prop THEN "phase2" ELSE "start") \in States
    BY DEF States
  <2>2. [k EXCEPT !.next = IF s = "ini" /\ par.prop THEN "phase2" ELSE "start",
                  !.started = TRUE, !.linked = TRUE] \in SkeType
    BY <1>1, <2>1 DEF SkeType
  <2>3. 1 \in 0..2 /\ k.refcnt + 1 \in 0..2
    BY <1>1 DEF Idle
  <2> QED
    BY <1>1, <1>3, <2>2, <2>3 DEF SkeType
<1>5. /\ m.run = 1 /\ m.refcnt = 2 /\ m.told = <<>> /\ m.verdict = "none"
      /\ m.retrans = "none" /\ m.timers = StartTimers(s)
  BY <1>1 DEF Idle
<1>6. m.started /\ m.linked /\ ~m.fin /\ ~m.notified /\ ~m.aborted /\ m.owned
  BY <1>1 DEF Idle
<1> HIDE DEF m
<1>7. Lives(m, FALSE)
  BY <1>4, <1>5, <1>6 DEF Lives, Fresh
<1>8. Base(s, m, FALSE, par) /\ (running' = s) = FALSE
  BY <1>1, <1>3, <1>5, <1>6, <1>7 DEF Base, Resends, Side
<1> QED
  BY <1>1, <1>2, <1>4, <1>5, <1>8, PlainStep

(* silc_ske_abort.                                                         *)
LEMMA AbortBase ==
  ASSUME BaseInv, NEW s \in Side, Abort(s)
  PROVE  BaseInv' /\ Moved(s)
<1> DEFINE k == ske[s]
           m == [k EXCEPT !.aborted = TRUE]
<1>1. /\ k \in SkeType /\ par \in ParType /\ net' = net /\ running' = running /\ running = "none"
      /\ k.told = <<>> /\ ~k.aborted /\ k.next # "null" /\ (running = s) = FALSE /\ par' = par
      /\ net \in [Side -> Seq(Packets)] /\ Base(s, k, FALSE, par) /\ Disturb(s, "abort")
  BY BaseFacts DEF Abort, Side
<1>2. ske' = [ske EXCEPT ![s] = m]
  BY DEF Abort, BaseInv, LooseType
<1>3. m \in SkeType
  BY <1>1 DEF SkeType
<1>4. k.started
  BY <1>1 DEF Base, Lives, Fresh, Idle
<1>5. /\ m.next = k.next /\ m.refcnt = k.refcnt /\ m.verdict = k.verdict /\ m.told = k.told
      /\ m.timers = k.timers /\ m.retrans = k.retrans
  BY <1>1 DEF SkeType
<1>6. /\ Same(k, m) /\ m.aborted
      /\ m.owned <=> k.owned
      /\ m.notified <=> k.notified
  BY <1>1 DEF SkeType, Same
<1> HIDE DEF m
<1>7. Base(s, m, FALSE, par)
  BY <1>1, <1>3, <1>4, <1>5, <1>6, Lasts DEF Base, Resends, Lives
<1> QED
  BY <1>1, <1>2, <1>3, <1>5, <1>7, EventStep DEF Causes, Side

(* The timer of a retransmission that another SKE deletes.                 *)
LEMMA RetryDeletedBase ==
  ASSUME BaseInv, NEW s \in Side, RetryDeletedByOther(s)
  PROVE  BaseInv' /\ Moved(s)
<1> DEFINE k == ske[s]
           m == [k EXCEPT !.timers = @ \ {"retry"}]
<1>1. /\ k \in SkeType /\ par \in ParType /\ net' = net /\ running' = running /\ running = "none"
      /\ "retry" \in k.timers /\ (running = s) = FALSE /\ Base(s, k, FALSE, par) /\ par' = par
      /\ net \in [Side -> Seq(Packets)] /\ disturbed' = disturbed
  BY BaseFacts DEF RetryDeletedByOther, Side
<1>2. ske' = [ske EXCEPT ![s] = m]
  BY DEF RetryDeletedByOther, BaseInv, LooseType
<1>3. m \in SkeType
  BY <1>1 DEF SkeType
<1>4. k.started
  BY <1>1 DEF Base, Lives
<1>5. /\ m.next = k.next /\ m.refcnt = k.refcnt /\ m.verdict = k.verdict
      /\ "retry" \notin m.timers /\ m.retrans = k.retrans
  BY <1>1 DEF SkeType
<1>6. /\ Same(k, m)
      /\ m.owned <=> k.owned
      /\ m.notified <=> k.notified
      /\ m.aborted <=> k.aborted
  BY <1>1 DEF SkeType, Same
<1> HIDE DEF m
<1>7. Base(s, m, FALSE, par)
  BY <1>1, <1>3, <1>4, <1>5, <1>6, Lasts DEF Base, Resends, Lives
<1>8. Active(k) => Active(m)
  BY <1>5, <1>6 DEF Active, Same
<1> QED
  BY <1>1, <1>2, <1>3, <1>5, <1>7, <1>8, PlainStep

(* silc_fsm_run.                                                           *)
LEMMA RunTaskBase ==
  ASSUME BaseInv, NEW s \in Side, RunTask(s)
  PROVE  BaseInv' /\ Moved(s)
<1> DEFINE k == ske[s]
           m == [k EXCEPT !.run = @ - 1]
<1>1. /\ k \in SkeType /\ par \in ParType /\ net' = net /\ running' = s /\ running = "none"
      /\ k.run > 0 /\ (running = s) = FALSE /\ Base(s, k, FALSE, par) /\ par' = par
      /\ net \in [Side -> Seq(Packets)] /\ disturbed' = disturbed /\ (running' = s) = TRUE
  BY BaseFacts DEF RunTask, Side
<1>2. ske' = [ske EXCEPT ![s] = m]
  BY DEF RunTask, BaseInv, LooseType
<1>3. k.run - 1 \in Nat
  BY <1>1 DEF SkeType
<1>4. m \in SkeType
  BY <1>1, <1>3 DEF SkeType
<1>5. k.started
  BY <1>1 DEF Base, Lives
<1>6. /\ m.next = k.next /\ m.refcnt = k.refcnt /\ m.verdict = k.verdict
      /\ m.timers = k.timers /\ m.retrans = k.retrans
  BY <1>1 DEF SkeType
<1>7. /\ Same(k, m)
      /\ m.owned <=> k.owned
      /\ m.notified <=> k.notified
      /\ m.aborted <=> k.aborted
  BY <1>1 DEF SkeType, Same
<1> HIDE DEF m
<1>8. Base(s, m, TRUE, par)
  <2>1. k.owned /\ k.refcnt = (IF k.owned THEN 1 ELSE 0) + 1 /\ Resends(s, k, par)
        /\ (k.notified => k.next \in Leaving)
    BY <1>1, <1>5 DEF Base, Lives
  <2>2. Resends(s, m, par)
    BY <1>6, <2>1 DEF Resends
  <2> QED
    BY <1>1, <1>4, <1>5, <1>6, <1>7, <2>1, <2>2, Lasts
<1> QED
  BY <1>1, <1>2, <1>4, <1>6, <1>8, PlainStep

(* silc_fsm_finish_fsm and its destructor.                                 *)
LEMMA FinishTaskBase ==
  ASSUME BaseInv, NEW s \in Side, FinishTask(s)
  PROVE  BaseInv' /\ Moved(s)
<1> DEFINE k == ske[s]
           c == [k EXCEPT !.fin = FALSE, !.next = "null"]
           m == Released(c)
<1>1. /\ k \in SkeType /\ par \in ParType /\ net' = net /\ running' = running /\ running = "none"
      /\ k.fin /\ (running = s) = FALSE /\ Base(s, k, FALSE, par) /\ par' = par
      /\ net \in [Side -> Seq(Packets)] /\ disturbed' = disturbed
  BY BaseFacts DEF FinishTask, Side
<1>2. ske' = [ske EXCEPT ![s] = m]
  BY DEF FinishTask, BaseInv, LooseType
<1>3. c \in SkeType
  BY <1>1 DEF SkeType, States
<1>4. /\ c.run = k.run /\ c.refcnt = k.refcnt /\ c.told = k.told
      /\ c.verdict = k.verdict /\ c.timers = k.timers /\ c.retrans = k.retrans
  BY <1>1 DEF SkeType
<1>5. /\ ~c.fin
      /\ c.started <=> k.started
      /\ c.linked <=> k.linked
      /\ c.aborted <=> k.aborted
      /\ c.owned <=> k.owned
  BY <1>1 DEF SkeType
<1>6. ~k.started /\ ~k.linked /\ ~Fresh(k) /\ k.refcnt = (IF k.owned THEN 1 ELSE 0) + 1
  <2>1. ~k.started /\ ~k.linked /\ k.refcnt = (IF k.owned THEN 1 ELSE 0) + 1
    BY <1>1 DEF Base, Lives
  <2>2. ~Fresh(k)
    BY <1>1 DEF Base, Lives, Idle
  <2> QED
    BY <2>1, <2>2
<1> HIDE DEF c
<1>7. /\ m \in SkeType /\ Same(c, m) /\ m.refcnt = c.refcnt - 1 /\ m.run = c.run
      /\ m.verdict = c.verdict /\ m.timers = c.timers /\ m.retrans = c.retrans
      /\ m.aborted <=> c.aborted
      /\ m.owned <=> c.owned
  BY <1>3, <1>4, <1>6, ReleasedFields
<1> HIDE DEF m
<1>8. ~m.started /\ ~m.fin /\ ~m.linked /\ m.told = k.told
  BY <1>4, <1>5, <1>6, <1>7 DEF Same
<1>9. m.refcnt = (IF m.owned THEN 1 ELSE 0) + (IF m.fin THEN 1 ELSE 0)
  BY <1>4, <1>5, <1>6, <1>7, <1>8
<1>10. Base(s, m, FALSE, par)
  <2>1. m.run = k.run /\ m.timers = k.timers /\ m.retrans = k.retrans /\ (m.aborted <=> k.aborted)
    BY <1>4, <1>5, <1>7
  <2> QED
    BY <1>1, <1>6, <1>7, <1>8, <1>9, <2>1, Settles
<1> QED
  BY <1>1, <1>2, <1>4, <1>7, <1>10, PlainStep

(* silc_ske_free by the owner.                                             *)
LEMMA FreeBase ==
  ASSUME BaseInv, NEW s \in Side, Free(s)
  PROVE  BaseInv' /\ Moved(s)
<1> DEFINE k == ske[s]
           c == Released(k)
           m == [c EXCEPT !.owned = FALSE]
<1>1. /\ k \in SkeType /\ par \in ParType /\ net' = net /\ running = "none" /\ par' = par
      /\ k.owned /\ (k.told # <<>> \/ k.aborted) /\ (running = s) = FALSE
      /\ net \in [Side -> Seq(Packets)] /\ Disturb(s, "abort")
      /\ Base(s, k, FALSE, par)
      /\ running' = IF k.aborted /\ k.started THEN s ELSE "none"
  BY BaseFacts DEF Free, Side
<1>2. ske' = [ske EXCEPT ![s] = m]
  BY DEF Free, BaseInv, LooseType
<1>3. k.refcnt = 1 + (IF k.started \/ k.fin THEN 1 ELSE 0)
  BY <1>1 DEF Base, Lives
<1>4. /\ c \in SkeType /\ Same(k, c) /\ c.refcnt = k.refcnt - 1 /\ c.run = k.run
      /\ c.verdict = k.verdict /\ c.timers = k.timers /\ c.retrans = k.retrans
      /\ k.notified => c.notified /\ c.next = k.next
      /\ k.aborted => c.notified
      /\ k.aborted /\ ~k.notified => c.next = "failure"
      /\ c.aborted <=> k.aborted
  BY <1>1, <1>3, ReleasedFields
<1> HIDE DEF c
<1>5. m \in SkeType
  BY <1>4 DEF SkeType
<1>6. /\ m.next = c.next /\ m.run = c.run /\ m.refcnt = c.refcnt
      /\ m.verdict = c.verdict /\ m.timers = c.timers /\ m.retrans = c.retrans
      /\ m.told = k.told
  BY <1>4 DEF SkeType, Same
<1>7. /\ Same(k, m) /\ ~m.owned
      /\ m.aborted <=> k.aborted
      /\ m.notified <=> c.notified
  BY <1>4 DEF SkeType, Same
<1> HIDE DEF m
<1>8. CASE k.started
  <2>1. k.told = <<>> /\ k.aborted /\ running' = s /\ (running' = s) = TRUE
    BY <1>1, <1>8 DEF Base, Lives
  <2>2. m.next \in Leaving /\ m.notified
    BY <1>1, <1>4, <1>6, <1>7, <1>8, <2>1 DEF Base, Leaving
  <2>3. Resends(s, m, par)
    BY <1>1, <1>4, <1>6 DEF Base, Resends
  <2>4. m.refcnt = (IF m.owned THEN 1 ELSE 0) + 1
    BY <1>3, <1>4, <1>6, <1>7, <1>8
  <2>5. Base(s, m, TRUE, par)
    BY <1>1, <1>5, <1>7, <1>8, <2>2, <2>3, <2>4, Lasts
  <2> QED
    BY <1>1, <1>2, <1>4, <1>5, <1>6, <2>1, <2>5, EventStep DEF Causes
<1>9. CASE ~k.started
  <2>1. ~k.linked /\ ~Fresh(k)
    BY <1>1, <1>9 DEF Base, Lives, Fresh
  <2>2. ~m.started /\ ~m.linked /\ (m.fin <=> k.fin) /\ m.told = k.told
    BY <1>7, <1>9, <2>1 DEF Same
  <2>3. m.refcnt = (IF m.owned THEN 1 ELSE 0) + (IF m.fin THEN 1 ELSE 0)
    BY <1>3, <1>4, <1>6, <1>7, <1>9, <2>2
  <2>4. Base(s, m, FALSE, par)
    BY <1>1, <1>4, <1>5, <1>6, <1>7, <1>9, <2>1, <2>2, <2>3, Settles
  <2>5. running' = "none" /\ (running' = s) = FALSE
    BY <1>1, <1>9 DEF Side
  <2> QED
    BY <1>1, <1>2, <1>4, <1>5, <1>6, <2>4, <2>5, EventStep DEF Causes
<1> QED
  BY <1>8, <1>9

(* An SKE that is told to give up, whatever else it was doing.             *)
LEMMA NotifiedBase ==
  ASSUME NEW s \in Side, NEW k \in SkeType, NEW c \in SkeType, NEW p \in ParType,
         NEW r \in BOOLEAN, Base(s, k, FALSE, p), k.started, Same(k, c),
         c.next = k.next, c.refcnt = k.refcnt,
         c.owned <=> k.owned,
         c.notified <=> k.notified,
         Resends(s, c, p)
  PROVE  Base(s, Notified(c), r, p)
<1> DEFINE m == Notified(c)
<1>1. /\ m \in SkeType /\ Same(c, m) /\ m.notified
      /\ m.next = IF c.notified THEN c.next ELSE "failure"
      /\ m.refcnt = c.refcnt /\ m.timers = c.timers /\ m.retrans = c.retrans
      /\ m.owned <=> c.owned
  BY NotifiedFields
<1> HIDE DEF m
<1>2. Same(k, m) /\ Resends(s, m, p)
  BY <1>1 DEF Same, Resends
<1>3. k.owned /\ k.refcnt = (IF k.owned THEN 1 ELSE 0) + 1 /\ (k.notified => k.next \in Leaving)
  BY DEF Base, Lives
<1>4. m.next \in Leaving
  BY <1>1, <1>3 DEF Leaving
<1>5. Base(s, m, r, p)
  BY <1>1, <1>2, <1>3, <1>4, Lasts
<1> QED
  BY <1>5 DEF m

(* silc_ske_timeout and silc_ske_probe_timeout.                            *)
LEMMA TimeoutBase ==
  ASSUME BaseInv, NEW s \in Side, NEW which \in {"timeout", "probe"}, Timeout(s, which)
  PROVE  BaseInv' /\ Moved(s)
<1> DEFINE k == ske[s]
           c == [k EXCEPT !.timers = @ \ {which}, !.packet = "none", !.ok = FALSE]
<1>1. /\ k \in SkeType /\ par \in ParType /\ net' = net /\ running = "none" /\ running' = s
      /\ which \in k.timers /\ (running = s) = FALSE /\ (running' = s) = TRUE /\ par' = par
      /\ net \in [Side -> Seq(Packets)] /\ Base(s, k, FALSE, par) /\ Disturb(s, "timeout")
  BY BaseFacts DEF Timeout, Side
<1>2. ske' = [ske EXCEPT ![s] = Notified(c)]
  BY Zenon DEF Timeout
<1>3. k.started
  BY <1>1 DEF Base, Lives
<1>4. c \in SkeType
  BY <1>1 DEF SkeType
<1>5. /\ c.next = k.next /\ c.refcnt = k.refcnt
      /\ c.verdict = k.verdict /\ c.timers = k.timers \ {which} /\ c.retrans = k.retrans
  BY <1>1 DEF SkeType
<1>6. /\ Same(k, c)
      /\ c.owned <=> k.owned
      /\ c.notified <=> k.notified
  BY <1>1 DEF SkeType, Same
<1> HIDE DEF c
<1>7. Resends(s, c, par)
  BY <1>1, <1>5 DEF Base, Resends
<1>8. Notified(c) \in SkeType /\ Notified(c).verdict = k.verdict
  BY <1>4, <1>5, NotifiedFields
<1>9. Base(s, Notified(c), TRUE, par)
  BY <1>1, <1>3, <1>4, <1>5, <1>6, <1>7, NotifiedBase
<1> QED
  BY <1>1, <1>2, <1>8, <1>9, EventStep DEF Causes

(* silc_ske_packet_send_retry.                                             *)
LEMMA RetryBase ==
  ASSUME BaseInv, NEW s \in Side, Retry(s)
  PROVE  BaseInv' /\ Moved(s)
<1> DEFINE k == ske[s]
           c == [k EXCEPT !.timers = @ \ {"retry"}]
<1>1. /\ k \in SkeType /\ par \in ParType /\ running = "none" /\ par' = par
      /\ "retry" \in k.timers /\ (running = s) = FALSE
      /\ net \in [Side -> Seq(Packets)] /\ Base(s, k, FALSE, par) /\ Disturb(s, "timeout")
  BY BaseFacts DEF Retry, Side
<1>2. k.started
  BY <1>1 DEF Base, Lives
<1>3. k.retrans \in Packets /\ (s = "res" => k.retrans # "success")
  BY <1>1 DEF Base, Resends, SkeType
<1>4. c \in SkeType
  BY <1>1 DEF SkeType
<1>5. Alike(k, c) /\ c.retrans = k.retrans /\ "retry" \notin c.timers /\ c.retry = k.retry
  BY <1>1 DEF SkeType, Alike, Same
<1>6. CASE /\ ske' = [ske EXCEPT ![s] = Notified([c EXCEPT !.retry = 0, !.retrans = "none",
                                                           !.ok = FALSE])]
           /\ running' = s
           /\ UNCHANGED net
  <2> DEFINE d == [c EXCEPT !.retry = 0, !.retrans = "none", !.ok = FALSE]
  <2>1. 0 \in 0..RetryCount
    BY ParamsAssumption
  <2> HIDE DEF c
  <2>2. d \in SkeType
    BY <1>4, <2>1 DEF SkeType
  <2>3. /\ d.next = c.next /\ d.refcnt = c.refcnt
        /\ d.verdict = c.verdict /\ d.timers = c.timers /\ d.retrans = "none"
    BY <1>4 DEF SkeType
  <2>4. /\ Same(c, d)
        /\ d.owned <=> c.owned
        /\ d.notified <=> c.notified
    BY <1>4 DEF SkeType, Same
  <2>5. ske' = [ske EXCEPT ![s] = Notified(d)] /\ (running' = s) = TRUE
    BY <1>6
  <2> HIDE DEF d
  <2>6. Same(k, d) /\ Resends(s, d, par) /\ d.next = k.next /\ d.refcnt = k.refcnt
        /\ (d.owned <=> k.owned) /\ (d.notified <=> k.notified) /\ d.verdict = k.verdict
    BY <1>5, <2>3, <2>4 DEF Alike, Same, Resends
  <2>7. Notified(d) \in SkeType /\ Notified(d).verdict = k.verdict
    BY <2>2, <2>6, NotifiedFields
  <2>8. Base(s, Notified(d), TRUE, par)
    BY <1>1, <1>2, <2>2, <2>6, NotifiedBase
  <2> QED
    BY <1>1, <1>6, <2>5, <2>7, <2>8, EventStep DEF Causes
<1>7. CASE /\ ~Exhausted(c)
           /\ ske' = [ske EXCEPT ![s] = Armed([c EXCEPT !.retry = @ + 1])]
           /\ net' = Sent(s, c.retrans)
           /\ UNCHANGED running
  <2> DEFINE d == [c EXCEPT !.retry = @ + 1]
             m == Armed(d)
  <2>1. c.retry + 1 \in 0..RetryCount
    BY <1>4, <1>7, ParamsAssumption DEF Exhausted, SkeType
  <2> HIDE DEF c
  <2>2. d \in SkeType
    BY <1>4, <2>1 DEF SkeType
  <2>3. Alike(c, d) /\ d.retrans = c.retrans /\ d.timers = c.timers
    BY <1>4 DEF SkeType, Alike, Same
  <2>4. ske' = [ske EXCEPT ![s] = m]
    BY <1>7
  <2> HIDE DEF d
  <2>5. Resends(s, d, par)
    BY <1>3, <1>5, <2>3 DEF Resends
  <2>6. m \in SkeType /\ Alike(d, m) /\ Resends(s, m, par)
    BY <2>2, <2>5, ArmedAlike
  <2>7. Sent(s, c.retrans) \in [Side -> Seq(Packets)]
    BY <1>1, <1>3, <1>5, SentPackets
  <2> HIDE DEF m
  <2>8. Alike(k, m)
    BY <1>5, <2>3, <2>6 DEF Alike, Same
  <2>9. Base(s, m, FALSE, par)
    BY <1>1, <1>2, <2>6, <2>8, Lasts DEF Alike, Base, Lives
  <2> QED
    BY <1>1, <1>7, <2>4, <2>6, <2>7, <2>8, <2>9, EventStep DEF Causes, Alike, Side
<1> QED
  BY <1>6, <1>7 DEF Retry

(* silc_ske_packet_receive.                                                *)
LEMMA DeliverBase ==
  ASSUME BaseInv, NEW s \in Side, Deliver(s)
  PROVE  BaseInv' /\ Moved(s)
<1> DEFINE k == ske[s]
<1>1. PICK i \in 1..Len(net[s]) :
        /\ net[s][i] \in Wants(s)
        /\ PacketReceive(s, net[s][i])
        /\ net' = IF par.udp THEN net ELSE [net EXCEPT ![s] = Tail(net[s])]
  BY DEF Deliver
<1> DEFINE t == net[s][i]
           c == Received(k, t)
           f == IF t = "failure" THEN Notified(c) ELSE c
<1>2. /\ k \in SkeType /\ par \in ParType /\ net \in [Side -> Seq(Packets)] /\ running = "none"
      /\ Base(s, k, FALSE, par) /\ Resends(s, k, par) /\ par' = par /\ k.linked
      /\ Disturb(s, "packet") /\ (running = s) = FALSE
  <2>1. running = "none" /\ (running = s) = FALSE
    BY DEF Deliver, Side
  <2> QED
    BY <2>1, BaseFacts DEF Deliver
<1>3. net[s] \in Seq(Packets) /\ net[s] # <<>>
  BY <1>1, <1>2
<1>4. t \in Packets /\ Tail(net[s]) \in Seq(Packets)
  BY <1>1, <1>3
<1>5. net' \in [Side -> Seq(Packets)]
  BY <1>1, <1>2, <1>4
<1>6. \/ /\ ske' = [ske EXCEPT ![s] = [c EXCEPT !.packet = "none", !.next = "aborted"]]
         /\ running' = s
      \/ ske' = [ske EXCEPT ![s] = f] /\ running' = s
      \/ ske' = [ske EXCEPT ![s] = [f EXCEPT !.run = @ + 1]] /\ running' = "none"
  BY <1>1, <1>2 DEF PacketReceive, Received
<1> HIDE DEF t
<1>7. k.started /\ k.owned /\ k.refcnt = (IF k.owned THEN 1 ELSE 0) + 1
      /\ (k.notified => k.next \in Leaving)
  BY <1>2 DEF Base, Lives
<1>8. /\ c \in SkeType /\ Same(k, c) /\ Resends(s, c, par) /\ c.next = k.next
      /\ c.refcnt = k.refcnt /\ c.verdict = k.verdict
      /\ c.notified <=> k.notified
      /\ c.owned <=> k.owned
  <2>1. k \in SkeType /\ t \in Packets /\ Resends(s, k, par)
    BY <1>2, <1>4
  <2> HIDE DEF k
  <2> QED
    BY <2>1, ReceivedFields, Zenon
<1> HIDE DEF c
<1>9. /\ f \in SkeType /\ Same(k, f) /\ Resends(s, f, par) /\ f.verdict = k.verdict
      /\ f.refcnt = k.refcnt /\ f.owned
      /\ f.notified => f.next \in Leaving
  <2>1. CASE t = "failure"
    <3>1. f = Notified(c)
      BY <2>1
    <3>2. /\ f \in SkeType /\ Same(c, f) /\ f.notified
          /\ f.next = IF c.notified THEN c.next ELSE "failure"
          /\ f.refcnt = c.refcnt /\ f.verdict = c.verdict
          /\ f.timers = c.timers /\ f.retrans = c.retrans
          /\ f.owned <=> c.owned
      BY <1>8, <3>1, NotifiedFields
    <3> HIDE DEF f
    <3> QED
      BY <1>7, <1>8, <3>2 DEF Same, Resends, Leaving
  <2>2. CASE t # "failure"
    BY <1>7, <1>8, <2>2
  <2> QED
    BY <2>1, <2>2
<1> HIDE DEF f
<1>10. CASE /\ ske' = [ske EXCEPT ![s] = [c EXCEPT !.packet = "none", !.next = "aborted"]]
            /\ running' = s
  <2> DEFINE m == [c EXCEPT !.packet = "none", !.next = "aborted"]
  <2>1. m \in SkeType
    BY <1>8 DEF SkeType, States
  <2>2. /\ m.next = "aborted" /\ m.refcnt = c.refcnt /\ m.verdict = c.verdict
        /\ m.timers = c.timers /\ m.retrans = c.retrans
    BY <1>8 DEF SkeType
  <2>3. Same(c, m) /\ (m.owned <=> c.owned)
    BY <1>8 DEF SkeType, Same
  <2> HIDE DEF m
  <2>4. Same(k, m) /\ Resends(s, m, par) /\ m.next \in Leaving /\ m.owned
    BY <1>7, <1>8, <2>2, <2>3 DEF Same, Resends, Leaving
  <2>5. Base(s, m, TRUE, par) /\ (running' = s) = TRUE
    BY <1>2, <1>7, <1>8, <1>10, <2>1, <2>2, <2>3, <2>4, Lasts
  <2> QED
    BY <1>2, <1>5, <1>8, <1>10, <2>1, <2>2, <2>5, EventStep DEF Causes, m
<1>11. CASE ske' = [ske EXCEPT ![s] = f] /\ running' = s
  <2>1. Base(s, f, TRUE, par) /\ (running' = s) = TRUE
    BY <1>2, <1>7, <1>9, <1>11, Lasts
  <2> QED
    BY <1>2, <1>5, <1>9, <1>11, <2>1, EventStep DEF Causes
<1>12. CASE ske' = [ske EXCEPT ![s] = [f EXCEPT !.run = @ + 1]] /\ running' = "none"
  <2> DEFINE m == [f EXCEPT !.run = @ + 1]
  <2>1. f.run + 1 \in Nat
    BY <1>9 DEF SkeType
  <2>2. m \in SkeType
    BY <1>9, <2>1 DEF SkeType
  <2>3. /\ m.next = f.next /\ m.refcnt = f.refcnt /\ m.verdict = f.verdict
        /\ m.timers = f.timers /\ m.retrans = f.retrans
    BY <1>9 DEF SkeType
  <2>4. Same(f, m) /\ (m.owned <=> f.owned) /\ (m.notified <=> f.notified)
    BY <1>9 DEF SkeType, Same
  <2> HIDE DEF m
  <2>5. Same(k, m) /\ Resends(s, m, par) /\ m.owned
    BY <1>9, <2>3, <2>4 DEF Same, Resends
  <2>6. Base(s, m, FALSE, par) /\ (running' = s) = FALSE
    BY <1>2, <1>7, <1>9, <1>12, <2>2, <2>3, <2>4, <2>5, Lasts DEF Side
  <2> QED
    BY <1>2, <1>5, <1>9, <1>12, <2>2, <2>3, <2>6, EventStep DEF Causes, m
<1> QED
  BY <1>6, <1>10, <1>11, <1>12

(* silc_ske_pk_verified.                                                   *)
LEMMA AnswerBase ==
  ASSUME BaseInv, NEW s \in Side, NEW trusted \in BOOLEAN, Answer(s, trusted)
  PROVE  BaseInv' /\ Moved(s)
<1> DEFINE k == ske[s]
<1>1. /\ k \in SkeType /\ par \in ParType /\ net' = net /\ running' = running /\ running = "none"
      /\ k.verdict = "asked" /\ (running = s) = FALSE /\ Base(s, k, FALSE, par) /\ par' = par
      /\ net \in [Side -> Seq(Packets)] /\ disturbed' = disturbed
      /\ par.guarded /\ k.owned => k.told = <<>> /\ ~k.aborted
      /\ ~par.guarded => k.started
  BY BaseFacts DEF Answer, Side
<1>2. ~Fresh(k)
  BY <1>1 DEF Base, Lives, Idle
<1>3. CASE par.guarded /\ ~k.owned
  <2> DEFINE m == [k EXCEPT !.verdict = "none"]
  <2>1. ske' = [ske EXCEPT ![s] = m]
    BY <1>3 DEF Answer, BaseInv, LooseType
  <2>2. m \in SkeType
    BY <1>1 DEF SkeType
  <2>3. ~k.started /\ ~k.linked
    BY <1>1, <1>3 DEF Base, Lives
  <2>4. /\ m.refcnt = k.refcnt /\ m.verdict = "none" /\ m.told = k.told
        /\ m.run = k.run /\ m.timers = k.timers /\ m.retrans = k.retrans
    BY <1>1 DEF SkeType
  <2>5. /\ Same(k, m)
        /\ m.aborted <=> k.aborted
        /\ m.owned <=> k.owned
    BY <1>1 DEF SkeType, Same
  <2> HIDE DEF m
  <2>6. m.refcnt = (IF m.owned THEN 1 ELSE 0) + (IF m.fin THEN 1 ELSE 0)
    BY <1>1, <2>3, <2>4, <2>5 DEF Base, Lives, Same
  <2>7. Base(s, m, FALSE, par)
    BY <1>1, <1>2, <2>2, <2>3, <2>4, <2>5, <2>6, Settles DEF Same
  <2> QED
    BY <1>1, <2>1, <2>2, <2>4, <2>7, PlainStep
<1>4. CASE ~(par.guarded /\ ~k.owned)
  <2> DEFINE m == [k EXCEPT !.verdict = IF trusted THEN "yes" ELSE "no",
                            !.ok = trusted, !.run = @ + 1]
  <2>1. ske' = [ske EXCEPT ![s] = m]
    BY <1>4 DEF Answer, BaseInv, LooseType
  <2>2. k.started
    BY <1>1, <1>2, <1>4 DEF Fresh, ParType
  <2>3. k.run + 1 \in Nat /\ (IF trusted THEN "yes" ELSE "no") \in {"none", "asked", "yes", "no"}
    BY <1>1 DEF SkeType
  <2>4. m \in SkeType
    BY <1>1, <2>3 DEF SkeType
  <2>5. /\ m.next = k.next /\ m.refcnt = k.refcnt /\ m.timers = k.timers
        /\ m.retrans = k.retrans /\ m.verdict \in {"yes", "no"}
    BY <1>1 DEF SkeType
  <2>6. /\ Same(k, m)
        /\ m.owned <=> k.owned
        /\ m.notified <=> k.notified
    BY <1>1 DEF SkeType, Same
  <2> HIDE DEF m
  <2>7. Resends(s, m, par) /\ k.owned /\ k.refcnt = (IF k.owned THEN 1 ELSE 0) + 1
        /\ (k.notified => k.next \in Leaving)
    BY <1>1, <2>2, <2>5 DEF Base, Lives, Resends
  <2>8. Base(s, m, FALSE, par)
    BY <1>1, <2>2, <2>4, <2>5, <2>6, <2>7, Lasts
  <2> QED
    BY <1>1, <2>1, <2>4, <2>5, <2>8, PlainStep
<1> QED
  BY <1>3, <1>4

(* The answer that comes too late ends the behaviour.                      *)
LEMMA LateAnswerBase ==
  ASSUME BaseInv, NEW s \in Side, LateAnswer(s)
  PROVE  BaseInv'
<1> DEFINE k == ske[s]
           m == [k EXCEPT !.verdict = "late"]
<1>1. /\ k \in SkeType /\ par \in ParType /\ net' = net /\ running = "none" /\ ~k.started
      /\ running' = "undefined" /\ k.verdict = "asked" /\ (running = s) = FALSE
      /\ (running' = s) = FALSE /\ Base(s, k, FALSE, par) /\ par' = par
      /\ net \in [Side -> Seq(Packets)] /\ disturbed' = disturbed
      /\ disturbed \in [Side -> Causes \cup {"none"}]
  BY BaseFacts DEF LateAnswer, Side, BaseInv, LooseType
<1>2. ~Fresh(k) /\ ~k.linked
  BY <1>1 DEF Base, Lives, Idle
<1>3. ske' = [ske EXCEPT ![s] = m]
  BY DEF LateAnswer, BaseInv, LooseType
<1>4. m \in SkeType
  BY <1>1 DEF SkeType
<1>5. /\ m.refcnt = k.refcnt /\ m.told = k.told
      /\ m.run = k.run /\ m.timers = k.timers /\ m.retrans = k.retrans
  BY <1>1 DEF SkeType
<1>6. /\ Same(k, m)
      /\ m.aborted <=> k.aborted
      /\ m.owned <=> k.owned
  BY <1>1 DEF SkeType, Same
<1> HIDE DEF m
<1>7. m.refcnt = (IF m.owned THEN 1 ELSE 0) + (IF m.fin THEN 1 ELSE 0)
  BY <1>1, <1>5, <1>6 DEF Base, Lives, Same
<1>8. Base(s, m, FALSE, par)
  BY <1>1, <1>2, <1>4, <1>5, <1>6, <1>7, Settles DEF Same
<1> QED
  BY <1>1, <1>3, <1>4, <1>8, BaseStep

(* A packet that is dropped.                                               *)
LEMMA IgnoreBase ==
  ASSUME BaseInv, NEW s \in Side, Ignore(s)
  PROVE  BaseInv' /\ Moved(s)
<1>1. net[s] \in Seq(Packets) /\ net[s] # <<>> /\ net \in [Side -> Seq(Packets)]
  BY DEF Ignore, BaseInv, LooseType
<1>2. Tail(net[s]) \in Seq(Packets)
  BY <1>1
<1>3. net' \in [Side -> Seq(Packets)] /\ UNCHANGED <<par, ske, running, disturbed>>
  BY <1>1, <1>2 DEF Ignore
<1> QED
  BY <1>3 DEF BaseInv, LooseType, Moved, AnsweredLate, Ignore

(* A state function of the exchange that goes on, asks, or leaves.         *)
LEMMA WorkBase ==
  ASSUME BaseInv, NEW s \in Side, running = s, ske[s].next \in Working, NEW m \in SkeType,
         ske' = [ske EXCEPT ![s] = m], par' = par, net' \in [Side -> Seq(Packets)],
         disturbed' = disturbed, running' \in {"none", s}, Kept(ske[s], m), Resends(s, m, par),
         \/ m.verdict \in {"yes", "no", ske[s].verdict}
         \/ m.verdict = "asked" /\ m.next \in Working
  PROVE  BaseInv' /\ Moved(s)
<1> DEFINE k == ske[s]
<1>1. (running = s) = TRUE /\ (running' = s) \in BOOLEAN
  OBVIOUS
<1>2. k \in SkeType /\ par \in ParType /\ Base(s, k, TRUE, par)
  BY <1>1, BaseFacts
<1>3. k.started
  BY <1>2 DEF Base, Lives
<1>4. ~k.notified /\ k.owned /\ k.verdict # "late"
  BY <1>3, BaseFacts
<1>5. m.refcnt = (IF m.owned THEN 1 ELSE 0) + 1 /\ m.owned /\ ~m.notified /\ m.started
  BY <1>2, <1>3, <1>4 DEF Base, Lives, Kept, Same
<1>6. Base(s, m, running' = s, par)
  BY <1>1, <1>2, <1>3, <1>5, Lasts DEF Kept
<1>7. m.verdict = "asked" /\ m.next \in Working => Active(m)
  BY <1>5 DEF Active
<1> QED
  BY <1>4, <1>6, <1>7, PlainStep

(* A state function that unlinks, tells the owner and finishes.            *)
LEMMA DoneBase ==
  ASSUME BaseInv, NEW s \in Side, running = s, NEW c \in SkeType, Kept(ske[s], c),
         Resends(s, c, par), c.verdict = ske[s].verdict,
         ske' = [ske EXCEPT ![s] = Finished(c)], par' = par, net' \in [Side -> Seq(Packets)],
         disturbed' = disturbed, running' = "none"
  PROVE  BaseInv' /\ Moved(s)
<1> DEFINE k == ske[s]
<1>1. (running = s) = TRUE /\ (running' = s) = FALSE
  BY DEF Side
<1>2. k \in SkeType /\ par \in ParType /\ Base(s, k, TRUE, par)
  BY <1>1, BaseFacts
<1>3. c.started /\ c.told = <<>> /\ c.refcnt = (IF c.owned THEN 1 ELSE 0) + 1
  BY <1>2 DEF Base, Lives, Kept, Same
<1>4. Base(s, Finished(c), FALSE, par) /\ Finished(c) \in SkeType
  BY <1>2, <1>3, FinishesBase DEF Resends
<1>5. Finished(c).verdict = k.verdict
  BY <1>3, FinishedFields
<1> QED
  BY <1>1, <1>4, <1>5, PlainStep

(* What an SKE that goes over to the state error or aborted keeps.         *)
LEMMA LeavesFields ==
  ASSUME NEW s \in Side, NEW k \in SkeType, Resends(s, k, par)
  PROVE  /\ Failing(k) \in SkeType /\ Kept(k, Failing(k)) /\ Resends(s, Failing(k), par)
         /\ Failing(k).verdict = k.verdict
         /\ To(k, "aborted") \in SkeType /\ Kept(k, To(k, "aborted"))
         /\ Resends(s, To(k, "aborted"), par) /\ To(k, "aborted").verdict = k.verdict
<1>1. Failing(k) \in SkeType
  BY DEF Failing, SkeType, States
<1>2. /\ Failing(k).run = k.run /\ Failing(k).refcnt = k.refcnt /\ Failing(k).verdict = k.verdict
      /\ Failing(k).timers = k.timers /\ Failing(k).retrans = k.retrans
  BY DEF Failing, SkeType
<1>3. Kept(k, Failing(k))
  BY DEF Failing, SkeType, Kept, Same
<1>4. To(k, "aborted") \in SkeType
  BY DEF To, SkeType, States
<1>5. /\ To(k, "aborted").run = k.run /\ To(k, "aborted").refcnt = k.refcnt
      /\ To(k, "aborted").verdict = k.verdict /\ To(k, "aborted").timers = k.timers
      /\ To(k, "aborted").retrans = k.retrans
  BY DEF To, SkeType
<1>6. Kept(k, To(k, "aborted"))
  BY DEF To, SkeType, Kept, Same
<1> QED
  BY <1>1, <1>2, <1>3, <1>4, <1>5, <1>6 DEF Resends

(* What a running state function of the exchange finds.                    *)
LEMMA WorkFacts ==
  ASSUME BaseInv, NEW s \in Side, running = s
  PROVE  /\ ske[s] \in SkeType /\ Resends(s, ske[s], par) /\ net \in [Side -> Seq(Packets)]
         /\ Cleared(ske[s]) \in SkeType /\ Kept(ske[s], Cleared(ske[s])) /\ Kept(ske[s], ske[s])
         /\ Resends(s, Cleared(ske[s]), par) /\ Cleared(ske[s]).verdict = ske[s].verdict
BY BaseFacts, ClearedFields DEF Kept, Same

(* The ends of the state functions of the exchange: with the state error,  *)
(* with another state, and with a packet.                                  *)
LEMMA FailingBase ==
  ASSUME BaseInv, NEW s \in Side, running = s, ske[s].next \in Working, NEW c \in SkeType,
         Kept(ske[s], c), Resends(s, c, par), c.verdict = ske[s].verdict,
         Continue(s, Failing(c))
  PROVE  BaseInv' /\ Moved(s)
<1>1. net' \in [Side -> Seq(Packets)]
  BY WorkFacts DEF Continue
<1>2. /\ Failing(c) \in SkeType /\ Kept(ske[s], Failing(c)) /\ Resends(s, Failing(c), par)
      /\ Failing(c).verdict = ske[s].verdict
  BY LeavesFields, KeptTwice
<1> QED
  BY <1>1, <1>2, WorkBase DEF Continue

(* An owner that has aborted.                                              *)
LEMMA AbortedBase ==
  ASSUME BaseInv, NEW s \in Side, running = s, ske[s].next \in Working,
         Continue(s, To(ske[s], "aborted"))
  PROVE  BaseInv' /\ Moved(s)
<1>1. net' \in [Side -> Seq(Packets)]
  BY WorkFacts DEF Continue
<1>2. /\ To(ske[s], "aborted") \in SkeType /\ Kept(ske[s], To(ske[s], "aborted"))
      /\ Resends(s, To(ske[s], "aborted"), par)
      /\ To(ske[s], "aborted").verdict = ske[s].verdict
  BY WorkFacts, LeavesFields
<1> QED
  BY <1>1, <1>2, WorkBase DEF Continue

(* The next state, at once or after a wakeup.                              *)
LEMMA GoBase ==
  ASSUME BaseInv, NEW s \in Side, running = s, ske[s].next \in Working, NEW c \in SkeType,
         Kept(ske[s], c), Resends(s, c, par), c.verdict = ske[s].verdict, NEW n \in Working,
         Continue(s, To(c, n)) \/ Wait(s, To(c, n))
  PROVE  BaseInv' /\ Moved(s)
<1>1. net' \in [Side -> Seq(Packets)]
  BY WorkFacts DEF Continue, Wait
<1>2. /\ To(c, n) \in SkeType /\ Kept(ske[s], To(c, n)) /\ Resends(s, To(c, n), par)
      /\ To(c, n).verdict = ske[s].verdict
  BY ToFields, KeptTwice
<1> QED
  BY <1>1, <1>2, WorkBase DEF Continue, Wait

(* The next state, with a packet that is sent and saved.                   *)
LEMMA SendBase ==
  ASSUME BaseInv, NEW s \in Side, running = s, ske[s].next \in Working, NEW c \in SkeType,
         Kept(ske[s], c), Resends(s, c, par), c.verdict = ske[s].verdict, NEW n \in Working,
         NEW t \in Packets, s = "res" => t # "success",
         ske' = [ske EXCEPT ![s] = Saved(To(c, n), t)], net' = Sent(s, t), par' = par,
         disturbed' = disturbed, running' \in {"none", s}
  PROVE  BaseInv' /\ Moved(s)
<1> DEFINE d == To(c, n)
           m == Saved(d, t)
<1>1. net' \in [Side -> Seq(Packets)]
  BY WorkFacts, SentPackets
<1>2. /\ d \in SkeType /\ Kept(ske[s], d) /\ Resends(s, d, par)
      /\ d.verdict = ske[s].verdict
  BY ToFields, KeptTwice
<1> HIDE DEF d
<1>3. m \in SkeType /\ Alike(d, m) /\ Resends(s, m, par)
  BY <1>2, SavedAlike
<1>4. ske' = [ske EXCEPT ![s] = m]
  BY DEF d
<1> HIDE DEF m
<1>5. Kept(ske[s], m) /\ m.verdict = ske[s].verdict
  BY <1>2, <1>3 DEF Alike, Kept, Same
<1> QED
  BY <1>1, <1>3, <1>4, <1>5, WorkBase

(* A packet that is not the expected one.                                  *)
LEMMA OldPacketBase ==
  ASSUME BaseInv, NEW s \in Side, running = s, ske[s].next \in Working, OldPacket(s)
  PROVE  BaseInv' /\ Moved(s)
<1> DEFINE c == Cleared(ske[s])
           m == Armed(c)
<1>1. Wait(s, m) \/ Continue(s, Failing(c))
  BY DEF OldPacket, Cleared
<1>2. c \in SkeType /\ Kept(ske[s], c) /\ Resends(s, c, par) /\ c.verdict = ske[s].verdict
  BY WorkFacts
<1> HIDE DEF c
<1>3. CASE Wait(s, m)
  <2>1. m \in SkeType /\ Alike(c, m) /\ Resends(s, m, par)
    BY <1>2, ArmedAlike
  <2> HIDE DEF m
  <2>2. Kept(ske[s], m) /\ m.verdict = ske[s].verdict /\ net' \in [Side -> Seq(Packets)]
    BY <1>2, <1>3, <2>1, WorkFacts DEF Alike, Kept, Same, Wait
  <2> QED
    BY <1>3, <2>1, <2>2, WorkBase DEF Wait
<1>4. CASE Continue(s, Failing(c))
  BY <1>2, <1>4, FailingBase
<1> QED
  BY <1>1, <1>3, <1>4

(* The verification of the remote's key.                                   *)
LEMMA VerifyBase ==
  ASSUME BaseInv, NEW s \in Side, running = s, ske[s].next \in Working, NEW c \in SkeType,
         Kept(ske[s], c), Resends(s, c, par), c.verdict = ske[s].verdict,
         Verify(s, To(c, "phase4"))
  PROVE  BaseInv' /\ Moved(s)
<1> DEFINE d == To(c, "phase4")
<1>1. d \in SkeType /\ Kept(ske[s], d) /\ Resends(s, d, par) /\ d.verdict = ske[s].verdict
      /\ d.next = "phase4"
  BY ToFields, KeptTwice DEF Working
<1>2. Verify(s, d)
  OBVIOUS
<1> HIDE DEF d
<1>3. PICK v \in {d.verdict, "asked", "yes", "no"}, b \in BOOLEAN :
        LET m == [d EXCEPT !.verdict = v, !.ok = b] IN Continue(s, m) \/ Wait(s, m)
  <2>1. d = [d EXCEPT !.verdict = d.verdict, !.ok = d.ok] /\ d.ok \in BOOLEAN
        /\ [d EXCEPT !.verdict = "asked"] = [d EXCEPT !.verdict = "asked", !.ok = d.ok]
    BY <1>1 DEF SkeType
  <2> QED
    BY <1>2, <2>1 DEF Verify
<1> DEFINE m == [d EXCEPT !.verdict = v, !.ok = b]
<1>4. m \in SkeType
  BY <1>1 DEF SkeType
<1>5. m.verdict = v /\ m.next = "phase4" /\ m.timers = d.timers /\ m.retrans = d.retrans
  BY <1>1 DEF SkeType
<1>6. Kept(d, m)
  BY <1>1 DEF SkeType, Kept, Same
<1>7. Continue(s, m) \/ Wait(s, m)
  BY <1>3
<1> HIDE DEF m
<1>8. Kept(ske[s], m) /\ Resends(s, m, par) /\ m.next \in Working
      /\ net' \in [Side -> Seq(Packets)]
      /\ m.verdict \in {"yes", "no", ske[s].verdict, "asked"}
  BY <1>1, <1>5, <1>6, <1>7, KeptTwice, WorkFacts DEF Resends, Working, Continue, Wait
<1> QED
  BY <1>4, <1>7, <1>8, WorkBase DEF Continue, Wait

(* The error return that makes the state run again.                        *)
LEMMA YieldErrorBase ==
  ASSUME BaseInv, NEW s \in Side, running = s, ske[s].next \in Working, NEW c \in SkeType,
         Kept(ske[s], c), Resends(s, c, par), c.verdict = ske[s].verdict, YieldError(s, c)
  PROVE  BaseInv' /\ Moved(s)
<1> DEFINE k == ske[s]
           m == [c EXCEPT !.ok = FALSE, !.run = @ + 1]
<1>1. (running = s) = TRUE /\ running' = "none" /\ (running' = s) = FALSE
  BY DEF YieldError, Side
<1>2. k \in SkeType /\ par \in ParType /\ Base(s, k, TRUE, par) /\ net \in [Side -> Seq(Packets)]
  BY <1>1, BaseFacts
<1>3. k.started
  BY <1>2 DEF Base, Lives
<1>4. ~k.notified /\ k.owned /\ k.verdict # "late"
  BY <1>3, BaseFacts
<1>5. c.run + 1 \in Nat
  BY DEF SkeType
<1>6. m \in SkeType
  BY <1>5 DEF SkeType
<1>7. m.verdict = c.verdict /\ m.refcnt = c.refcnt /\ m.timers = c.timers /\ m.retrans = c.retrans
  BY DEF SkeType
<1>8. /\ Same(c, m)
      /\ m.owned <=> c.owned
      /\ m.notified <=> c.notified
  BY DEF SkeType, Same
<1>9. ske' = [ske EXCEPT ![s] = m] /\ par' = par /\ net' = net
  BY DEF YieldError
<1> HIDE DEF m
<1>10. /\ Same(k, m) /\ m.refcnt = (IF m.owned THEN 1 ELSE 0) + 1 /\ m.owned /\ ~m.notified
       /\ Resends(s, m, par) /\ m.verdict = k.verdict
  BY <1>2, <1>3, <1>4, <1>7, <1>8 DEF Base, Lives, Kept, Same, Resends
<1>11. Base(s, m, FALSE, par)
  BY <1>2, <1>3, <1>6, <1>10, Lasts
<1>12. /\ disturbed' \in [Side -> Causes \cup {"none"}]
       /\ \A o \in Side : o # s => disturbed'[o] = disturbed[o]
       /\ disturbed'[s] \in {"packet", "nokey"}
  BY DEF YieldError, BaseInv, LooseType, Causes
<1>13. BaseInv' /\ ske'[s] = m /\ \A o \in Side : o # s => ske'[o] = ske[o]
  BY <1>1, <1>2, <1>4, <1>6, <1>9, <1>10, <1>11, <1>12, BaseStep
<1> QED
  BY <1>1, <1>9, <1>10, <1>12, <1>13 DEF Moved

(* The state functions of the initiator.                                   *)
LEMMA InitiatorBase ==
  ASSUME BaseInv,
         \/ InitiatorStart \/ InitiatorPhase1 \/ InitiatorPhase2 \/ InitiatorPhase3
         \/ InitiatorPhase4 \/ InitiatorEnd
  PROVE  BaseInv' /\ Moved("ini")
<1> DEFINE k == ske["ini"]
           c == Cleared(k)
           d == [k EXCEPT !.packet = "none", !.timers = @ \ {"probe"}]
<1>1. "ini" \in Side /\ running = "ini" /\ k.next \in Working
  BY DEF Side, Working, In, InitiatorStart, InitiatorPhase1, InitiatorPhase2, InitiatorPhase3,
         InitiatorPhase4, InitiatorEnd
<1>2. /\ k \in SkeType /\ Resends("ini", k, par) /\ net \in [Side -> Seq(Packets)] /\ Kept(k, k)
      /\ c \in SkeType /\ Kept(k, c) /\ Resends("ini", c, par) /\ c.verdict = k.verdict
  BY <1>1, WorkFacts
<1>3. CASE InitiatorStart
  <2>1. \/ Continue("ini", To(k, "aborted")) \/ Continue("ini", Failing(k))
        \/ SendAndWait("ini", To(k, "phase1"), "ke")
    BY <1>3 DEF InitiatorStart, To
  <2> QED
    BY <1>1, <1>2, <2>1, AbortedBase, FailingBase, SendBase DEF SendAndWait, Packets, Working
<1>4. CASE InitiatorPhase1
  <2>1. d \in SkeType
    BY <1>2 DEF SkeType
  <2>2. d.verdict = k.verdict /\ d.timers = k.timers \ {"probe"} /\ d.retrans = k.retrans
    BY <1>2 DEF SkeType
  <2>3. Kept(k, d)
    BY <1>2 DEF SkeType, Kept, Same
  <2>4. \/ OldPacket("ini") \/ Continue("ini", Failing(d)) \/ Continue("ini", To(d, "phase2"))
    BY <1>4 DEF InitiatorPhase1, To
  <2> HIDE DEF d
  <2>5. Resends("ini", d, par)
    BY <1>2, <2>2 DEF Resends
  <2> QED
    BY <1>1, <1>2, <2>1, <2>2, <2>3, <2>4, <2>5, OldPacketBase, FailingBase, GoBase DEF Working
<1>5. CASE InitiatorPhase2
  <2>1. Continue("ini", Failing(k)) \/ SendAndWait("ini", To(k, "phase3"), "ke1")
    BY <1>5 DEF InitiatorPhase2, To
  <2> QED
    BY <1>1, <1>2, <2>1, FailingBase, SendBase DEF SendAndWait, Packets, Working
<1>6. CASE InitiatorPhase3
  <2>1. \/ OldPacket("ini") \/ Continue("ini", Failing(c)) \/ YieldError("ini", c)
        \/ Verify("ini", To(c, "phase4"))
    BY <1>6 DEF InitiatorPhase3, To, Cleared
  <2> QED
    BY <1>1, <1>2, <2>1, OldPacketBase, FailingBase, YieldErrorBase, VerifyBase
<1>7. CASE InitiatorPhase4
  <2>1. \/ Continue("ini", To(k, "aborted")) \/ Continue("ini", Failing(k))
        \/ Continue("ini", To(k, "end")) \/ SendAndWait("ini", To(k, "end"), "success")
    BY <1>7 DEF InitiatorPhase4, To
  <2> QED
    BY <1>1, <1>2, <2>1, AbortedBase, FailingBase, GoBase, SendBase
    DEF SendAndWait, Packets, Working
<1>8. CASE InitiatorEnd
  <2>1. OldPacket("ini") \/ Wait("ini", Finished(k))
    BY <1>8 DEF InitiatorEnd
  <2> QED
    BY <1>1, <1>2, <2>1, OldPacketBase, DoneBase DEF Wait
<1> QED
  BY <1>3, <1>4, <1>5, <1>6, <1>7, <1>8

(* The state functions of the responder.                                   *)
LEMMA ResponderBase ==
  ASSUME BaseInv,
         \/ ResponderStart \/ ResponderPhase1 \/ ResponderPhase2 \/ ResponderPhase4
         \/ ResponderPhase5 \/ ResponderEnd
  PROVE  BaseInv' /\ Moved("res")
<1> DEFINE k == ske["res"]
           c == Cleared(k)
<1>1. "res" \in Side /\ running = "res" /\ k.next \in Working
  BY DEF Side, Working, In, ResponderStart, ResponderPhase1, ResponderPhase2, ResponderPhase4,
         ResponderPhase5, ResponderEnd
<1>2. /\ k \in SkeType /\ Resends("res", k, par) /\ net \in [Side -> Seq(Packets)] /\ Kept(k, k)
      /\ c \in SkeType /\ Kept(k, c) /\ Resends("res", c, par) /\ c.verdict = k.verdict
  BY <1>1, WorkFacts
<1>3. CASE ResponderStart
  <2>1. \/ Continue("res", To(k, "aborted")) \/ Wait("res", To(k, "phase1"))
        \/ Wait("res", To(k, "phase2"))
    BY <1>3 DEF ResponderStart, To
  <2> QED
    BY <1>1, <1>2, <2>1, AbortedBase, GoBase DEF Working
<1>4. CASE ResponderPhase1
  <2>1. Continue("res", Failing(c)) \/ SendAndWait("res", To(c, "phase2"), "ke")
    BY <1>4 DEF ResponderPhase1, To, Cleared
  <2> QED
    BY <1>1, <1>2, <2>1, FailingBase, SendBase DEF SendAndWait, Packets, Working
<1>5. CASE ResponderPhase2
  <2>1. \/ OldPacket("res") \/ Continue("res", Failing(c)) \/ Verify("res", To(c, "phase4"))
    BY <1>5 DEF ResponderPhase2, To, Cleared
  <2> QED
    BY <1>1, <1>2, <2>1, OldPacketBase, FailingBase, VerifyBase
<1>6. CASE ResponderPhase4
  <2>1. \/ Continue("res", To(k, "aborted")) \/ Continue("res", Failing(k))
        \/ Continue("res", To(k, "phase5"))
    BY <1>6 DEF ResponderPhase4, To
  <2> QED
    BY <1>1, <1>2, <2>1, AbortedBase, FailingBase, GoBase DEF Working
<1>7. CASE ResponderPhase5
  <2>1. \/ Continue("res", Failing(k)) \/ SendAndWait("res", To(k, "end"), "ke2")
        \/ /\ ske' = [ske EXCEPT !["res"] = Saved(To(k, "end"), "ke2")]
           /\ net' = Sent("res", "ke2")
           /\ UNCHANGED <<par, running, disturbed>>
    BY <1>7 DEF ResponderPhase5, To
  <2> QED
    BY <1>1, <1>2, <2>1, FailingBase, SendBase DEF SendAndWait, Packets, Working
<1>8. CASE ResponderEnd
  <2>1. \/ OldPacket("res") \/ Continue("res", Failing(c))
        \/ /\ ske' = [ske EXCEPT !["res"] = Finished(c)]
           /\ net' = net \/ net' = Sent("res", "success")
           /\ running' = "none" /\ UNCHANGED <<par, disturbed>>
    BY <1>8 DEF ResponderEnd, Cleared
  <2>2. Sent("res", "success") \in [Side -> Seq(Packets)]
    BY <1>1, <1>2, SentPackets DEF Packets
  <2> QED
    BY <1>1, <1>2, <2>1, <2>2, OldPacketBase, FailingBase, DoneBase
<1> QED
  BY <1>3, <1>4, <1>5, <1>6, <1>7, <1>8

(* The states aborted and error.                                           *)
LEMMA SendFailureBase ==
  ASSUME BaseInv, NEW s \in Side, SendFailure(s)
  PROVE  BaseInv' /\ Moved(s)
<1>1. running = s /\ running' = "none" /\ par' = par /\ disturbed' = disturbed
      /\ ske' = [ske EXCEPT ![s] = Finished(ske[s])] /\ net' = Sent(s, "failure")
  BY DEF SendFailure, In
<1>2. Sent(s, "failure") \in [Side -> Seq(Packets)]
  BY <1>1, WorkFacts, SentPackets DEF Packets
<1> QED
  BY <1>1, <1>2, WorkFacts, DoneBase

(* The state failure.                                                      *)
LEMMA FailureBase ==
  ASSUME BaseInv, NEW s \in Side, Failure(s)
  PROVE  BaseInv' /\ Moved(s)
<1> DEFINE k == ske[s]
           c == [k EXCEPT !.ok = FALSE]
<1>1. running = s /\ Wait(s, Finished(c))
  BY DEF Failure, In
<1>2. k \in SkeType /\ Resends(s, k, par) /\ net \in [Side -> Seq(Packets)]
  BY <1>1, WorkFacts
<1>3. c \in SkeType
  BY <1>2 DEF SkeType
<1>4. c.verdict = k.verdict /\ c.timers = k.timers /\ c.retrans = k.retrans
  BY <1>2 DEF SkeType
<1>5. Kept(k, c)
  BY <1>2 DEF SkeType, Kept, Same
<1> HIDE DEF c
<1>6. Resends(s, c, par)
  BY <1>2, <1>4 DEF Resends
<1> QED
  BY <1>1, <1>2, <1>3, <1>4, <1>5, <1>6, DoneBase DEF Wait

(* Every step, whatever comes during the verification: it is the late      *)
(* answer, or a step of one side.                                          *)
LEMMA NextBase ==
  ASSUME BaseInv, Next
  PROVE  BaseInv' /\ \E s \in Side : LateAnswer(s) \/ Moved(s)
<1>1. CASE StateFunction
  BY <1>1, InitiatorBase, ResponderBase, SendFailureBase, FailureBase DEF StateFunction, Side
<1>2. ASSUME NEW s \in Side,
             \/ Start(s) \/ Deliver(s) \/ Ignore(s) \/ Retry(s) \/ RetryDeletedByOther(s)
             \/ Abort(s) \/ Free(s) \/ RunTask(s) \/ FinishTask(s)
             \/ Timeout(s, "timeout") \/ Timeout(s, "probe")
             \/ LateAnswer(s)
             \/ \E trusted \in BOOLEAN : Answer(s, trusted)
      PROVE  BaseInv' /\ (LateAnswer(s) \/ Moved(s))
  BY <1>2, StartBase, DeliverBase, IgnoreBase, RetryBase, RetryDeletedBase, AbortBase, FreeBase,
     RunTaskBase, FinishTaskBase, TimeoutBase, LateAnswerBase, AnswerBase
<1> QED
  BY <1>1, <1>2 DEF Next

-----------------------------------------------------------------------------
(* An exchange that is led by its states: no datagram has come between a   *)
(* side and its verification, and the error return of phase 3 was not      *)
(* taken.                                                                  *)
Led == \A s \in Side : ~Overtaken(s) /\ disturbed[s] # "nokey"

(* Who verifies a key undisturbed takes part in the exchange.              *)
Calm ==
  \A s \in Side :
    ske[s].verdict = "asked" /\ ~par.guarded /\ disturbed[s] = "none" => Active(ske[s])

(* What follows the late answer.                                           *)
LedInv ==
  Led => IF running = "undefined" THEN KeyConfirmed /\ WokenForItsReason
                                  ELSE SkeInv /\ Calm

(* The history keeps what leads an exchange astray.                        *)
LEMMA LedBefore ==
  ASSUME BaseInv, Next, Led'
  PROVE  Led
<1>1. par' = par /\ disturbed \in [Side -> Causes \cup {"none"}]
  BY DEF BaseInv, LooseType, Next, StateFunction, InitiatorStart, InitiatorPhase1,
         InitiatorPhase2, InitiatorPhase3, InitiatorPhase4, InitiatorEnd, ResponderStart,
         ResponderPhase1, ResponderPhase2, ResponderPhase4, ResponderPhase5, ResponderEnd,
         SendFailure, Failure, Start, Deliver, Ignore, Retry, RetryDeletedByOther, Abort, Free,
         RunTask, FinishTask, Timeout, LateAnswer, Answer, Continue, Wait, SendAndWait,
         OldPacket, Verify, YieldError
<1>2. \/ disturbed' = disturbed
      \/ \E s \in Side, what \in Causes : Disturb(s, what)
      \/ \E s \in Side : disturbed' = [disturbed EXCEPT ![s] = "nokey"]
  <2>1. CASE StateFunction
    BY <2>1 DEF StateFunction, InitiatorStart, InitiatorPhase1,
         InitiatorPhase2, InitiatorPhase3, InitiatorPhase4, InitiatorEnd, ResponderStart,
         ResponderPhase1, ResponderPhase2, ResponderPhase4, ResponderPhase5, ResponderEnd,
         SendFailure, Failure, Continue, Wait, SendAndWait,
         OldPacket, Verify, YieldError, Side
  <2>2. ASSUME NEW s \in Side,
               \/ Start(s) \/ Deliver(s) \/ Ignore(s) \/ Retry(s) \/ RetryDeletedByOther(s)
               \/ Abort(s) \/ Free(s) \/ RunTask(s) \/ FinishTask(s)
               \/ Timeout(s, "timeout") \/ Timeout(s, "probe")
               \/ LateAnswer(s)
               \/ \E trusted \in BOOLEAN : Answer(s, trusted)
        PROVE  disturbed' = disturbed \/ \E what \in Causes : Disturb(s, what)
    BY <2>2 DEF Start, Deliver, Ignore, Retry, RetryDeletedByOther, Abort, Free,
         RunTask, FinishTask, Timeout, LateAnswer, Answer, Causes
  <2> QED
    BY <2>1, <2>2 DEF Next
<1>3. ASSUME NEW o \in Side, disturbed[o] \in {"packet", "nokey"}
      PROVE  disturbed'[o] = disturbed[o] \/ disturbed'[o] = "nokey"
  BY <1>1, <1>2, <1>3 DEF Disturb
<1> QED
  BY <1>1, <1>3 DEF Led, Overtaken

(* A datagram that comes while the key is verified leads astray.           *)
LEMMA LedDeliver ==
  ASSUME BaseInv, FullType, NEW s \in Side, Deliver(s), Led, Led', ske[s].verdict = "asked"
  PROVE  ~par.udp
<1>1. Disturb(s, "packet") /\ par' = par /\ disturbed \in [Side -> Causes \cup {"none"}]
  BY DEF Deliver, BaseInv, LooseType
<1>2. par.udp => disturbed'[s] = "packet"
  BY <1>1 DEF Disturb, FullType, Led, Overtaken
<1> QED
  BY <1>1, <1>2 DEF Led, Overtaken

(* Every step of an exchange that is led keeps the invariant.              *)
LEMMA NextInv ==
  ASSUME BaseInv, SkeInv, Led, Led', Next, running' # "undefined"
  PROVE  SkeInv'
<1>1. CASE StateFunction
  <2>1. ~YieldError("ini", Cleared(ske["ini"]))
    <3> SUFFICES ASSUME YieldError("ini", Cleared(ske["ini"]))
                 PROVE  FALSE
      OBVIOUS
    <3>1. "ini" \in Side /\ disturbed'["ini"] = "nokey"
      BY DEF YieldError, BaseInv, LooseType, Side
    <3> QED
      BY <3>1 DEF Led
  <2> QED
    BY <1>1, <2>1, InitiatorStartStep, InitiatorPhase1Step, InitiatorPhase2Step,
       InitiatorPhase3Step, InitiatorPhase4Step, InitiatorEndStep, ResponderStartStep,
       ResponderPhase1Step, ResponderPhase2Step, ResponderPhase4Step, ResponderPhase5Step,
       ResponderEndStep, SendFailureStep, FailureStep
    DEF StateFunction
<1>2. ASSUME NEW s \in Side, Deliver(s)
      PROVE  SkeInv'
  BY <1>2, LedDeliver, DeliverStep DEF SkeInv
<1>3. ASSUME NEW s \in Side,
             \/ Start(s) \/ Ignore(s) \/ Retry(s) \/ RetryDeletedByOther(s)
             \/ Abort(s) \/ Free(s) \/ RunTask(s) \/ FinishTask(s)
             \/ Timeout(s, "timeout") \/ Timeout(s, "probe")
             \/ LateAnswer(s)
             \/ \E trusted \in BOOLEAN : Answer(s, trusted)
      PROVE  SkeInv'
  BY <1>3, StartStep, IgnoreStep, RetryStep, RetryDeletedStep, AbortStep, FreeStep,
     RunTaskStep, FinishTaskStep, TimeoutStep, AnswerStep DEF LateAnswer
<1> QED
  BY <1>1, <1>2, <1>3 DEF Next

(* A verification that nothing has disturbed goes on.                      *)
LEMMA CalmStep ==
  ASSUME SkeInv, Calm, NEW s \in Side, Moved(s)
  PROVE  Calm'
<1> SUFFICES ASSUME NEW o \in Side, ske'[o].verdict = "asked", ~par.guarded,
                    disturbed'[o] = "none"
             PROVE  Active(ske'[o])
  BY DEF Calm, Moved
<1>1. CASE o # s
  BY <1>1 DEF Moved, Calm
<1>2. CASE o = s
  <2> SUFFICES ASSUME ~Active(ske'[s])
               PROVE  FALSE
    BY <1>2
  <2>1. ske[s].verdict = "asked" /\ disturbed[s] = "none"
    BY <1>2 DEF Moved
  <2>2. Active(ske[s]) /\ Local(s, ske[s], running = s, par)
    BY <2>1 DEF Calm, SkeInv
  <2>3. running # s /\ ske[s].run = 0 /\ ~ske[s].fin
    BY <2>1, <2>2 DEF Local, Lives, Verified, Woken, Active
  <2>4. ~(ske[s].run > 0)
    BY <2>3
  <2> QED
    BY <1>2, <2>1, <2>2, <2>3, <2>4 DEF Moved
<1> QED
  BY <1>1, <1>2

(* What holds of every exchange.                                           *)
LEMMA BaseConsequences ==
  ASSUME BaseInv
  PROVE  TypeOK /\ CompletesOnce
<1>1. \A s \in Side : Base(s, ske[s], running = s, par) /\ ske[s] \in SkeType
  BY DEF BaseInv, LooseType
<1>2. TypeOK
  <2>1. ASSUME NEW k \in SkeType
        PROVE  DOMAIN k = DOMAIN Idle
    BY DEF SkeType, Idle
  <2> QED
    BY <1>1, <2>1 DEF TypeOK, BaseInv, LooseType, SkeType
<1>3. CompletesOnce
  <2>1. Len(<<>>) <= 1 /\ Len(<<TRUE>>) <= 1 /\ Len(<<FALSE>>) <= 1
    OBVIOUS
  <2>2. ASSUME NEW s \in Side
        PROVE  /\ Len(ske[s].told) <= 1
               /\ ske[s].aborted => ske[s].told = <<>>
               /\ ske[s].refcnt = (IF ske[s].owned THEN 1 ELSE 0)
                                  + (IF ske[s].started \/ ske[s].fin THEN 1 ELSE 0)
               /\ ~ske[s].started => ~ske[s].linked /\ ske[s].timers = {} /\ ske[s].run = 0
    BY <1>1, <2>1 DEF Base, Lives
  <2> QED
    BY <2>2 DEF CompletesOnce
<1> QED
  BY <1>2, <1>3

(* What holds of an exchange that is led.                                  *)
LEMMA LedConsequences ==
  ASSUME SkeInv, BaseInv, running # "undefined"
  PROVE  KeyConfirmed /\ WokenForItsReason
<1>1. \A s \in Side : Local(s, ske[s], running = s, par) /\ ske[s] \in SkeType
  BY DEF SkeInv, FullType
<1>2. KeyConfirmed
  BY DEF SkeInv, Confirmed, KeyConfirmed
<1>3. WokenForItsReason
  <2> SUFFICES ASSUME NEW s \in Side
               PROVE
    /\ ske[s].told = <<TRUE>> /\ s \in par.verify => ske[s].verdict = "yes"
    /\ ~MissesPacket(s) /\ ~AnsweredLate(s)
    /\ ske[s].verdict = "asked" /\ ske[s].owned /\ ske[s].told = <<>> /\ ~ske[s].aborted
         => ske[s].started /\ (ske[s].notified \/ ske[s].next = "phase4")
    BY DEF WokenForItsReason
  <2>1. ~MissesPacket(s)
    <3> SUFFICES ASSUME running = s, Reads(s, ske[s], par)
                 PROVE  ske[s].packet # "none"
      BY DEF MissesPacket, ReadsPacket, Reads
    <3>1. Active(ske[s]) /\ Local(s, ske[s], TRUE, par)
      BY RunningFacts DEF Reads, Working
    <3> QED
      BY <3>1 DEF Local, Woken
  <2>2. ~AnsweredLate(s)
    BY DEF BaseInv
  <2> QED
    BY <1>1, <2>1, <2>2 DEF Local, Verified
<1> QED
  BY <1>2, <1>3

(* The late answer changes nothing that was told, and has its cause.       *)
LEMMA LateAnswerLed ==
  ASSUME SkeInv, BaseInv, Calm, Led, NEW s \in Side, LateAnswer(s)
  PROVE  (KeyConfirmed /\ WokenForItsReason)'
<1> DEFINE k == ske[s]
           m == [k EXCEPT !.verdict = "late"]
<1>1. /\ running = "none" /\ running' = "undefined" /\ k.verdict = "asked" /\ ~par.guarded
      /\ ~k.started /\ UNCHANGED <<par, net, disturbed>> /\ k \in SkeType
      /\ disturbed \in [Side -> Causes \cup {"none"}]
  BY DEF LateAnswer, BaseInv, LooseType
<1>2. KeyConfirmed /\ WokenForItsReason
  BY <1>1, LedConsequences
<1>3. ske'[s] = m /\ \A o \in Side : o # s => ske'[o] = ske[o]
  BY DEF LateAnswer, BaseInv, LooseType
<1>4. m.verdict = "late" /\ m.told = k.told
  BY <1>1 DEF SkeType
<1>5. disturbed[s] \in {"packet", "timeout", "abort"}
  BY <1>1 DEF Calm, Active, Led, Causes
<1> HIDE DEF m
<1>6. \A o \in Side : ske'[o].told = ske[o].told
  BY <1>3, <1>4
<1>7. KeyConfirmed'
  BY <1>1, <1>2, <1>6 DEF KeyConfirmed, Overtaken, Side
<1>8. ASSUME NEW o \in Side
      PROVE  /\ ske'[o].told = <<TRUE>> /\ o \in par.verify => ske'[o].verdict = "yes"
             /\ ske'[o].verdict = "late" => disturbed[o] \in {"packet", "timeout", "abort"}
             /\ ske'[o].verdict = "asked" /\ ske'[o].owned /\ ske'[o].told = <<>>
                /\ ~ske'[o].aborted
                  => ske'[o].started /\ (ske'[o].notified \/ ske'[o].next = "phase4")
  <2>1. Local(o, ske[o], running = o, par) /\ ~AnsweredLate(o)
    BY <1>1 DEF SkeInv, BaseInv
  <2>2. CASE o = s
    BY <1>1, <1>3, <1>4, <1>5, <2>1, <2>2 DEF Local, Verified
  <2>3. CASE o # s
    BY <1>3, <2>1, <2>3 DEF Local, Verified, AnsweredLate
  <2> QED
    BY <2>2, <2>3
<1>9. \A o \in Side : running' # o
  BY <1>1 DEF Side
<1>10. WokenForItsReason'
  BY <1>1, <1>8, <1>9 DEF WokenForItsReason, MissesPacket, AnsweredLate
<1> QED
  BY <1>7, <1>10

(* Every step of an exchange that is led.                                  *)
LEMMA NextLed ==
  ASSUME BaseInv, LedInv, [Next]_vars
  PROVE  BaseInv' /\ LedInv'
<1>1. CASE UNCHANGED vars
  <2>1. BaseInv' /\ (Led' <=> Led) /\ (SkeInv' <=> SkeInv) /\ (Calm' <=> Calm)
    BY <1>1 DEF vars, BaseInv, LooseType, AnsweredLate, Led, Overtaken, SkeInv, FullType, Calm
  <2>2. (KeyConfirmed' <=> KeyConfirmed) /\ (WokenForItsReason' <=> WokenForItsReason)
    BY <1>1 DEF vars, KeyConfirmed, WokenForItsReason, MissesPacket, ReadsPacket, AnsweredLate,
                Overtaken
  <2> QED
    BY <1>1, <2>1, <2>2 DEF LedInv, vars
<1>2. CASE Next
  <2>1. BaseInv'
    BY <1>2, NextBase
  <2> SUFFICES ASSUME Led'
               PROVE  IF running' = "undefined" THEN KeyConfirmed' /\ WokenForItsReason'
                                                ELSE SkeInv' /\ Calm'
    BY <2>1 DEF LedInv
  <2>2. Led
    BY <1>2, LedBefore
  <2>3. running # "undefined"
    BY <1>2 DEF Next, StateFunction, InitiatorStart, InitiatorPhase1,
         InitiatorPhase2, InitiatorPhase3, InitiatorPhase4, InitiatorEnd, ResponderStart,
         ResponderPhase1, ResponderPhase2, ResponderPhase4, ResponderPhase5, ResponderEnd,
         SendFailure, Failure, Start, Deliver, Ignore, Retry, RetryDeletedByOther, Abort, Free,
         RunTask, FinishTask, Timeout, LateAnswer, Answer, In, Side
  <2>4. SkeInv /\ Calm
    BY <2>2, <2>3 DEF LedInv
  <2>5. PICK s \in Side : LateAnswer(s) \/ Moved(s)
    BY <1>2, NextBase
  <2>6. CASE LateAnswer(s)
    BY <2>2, <2>4, <2>6, LateAnswerLed DEF LateAnswer
  <2>7. CASE Moved(s)
    <3>1. SkeInv'
      BY <1>2, <2>2, <2>4, <2>7, NextInv DEF Moved
    <3> QED
      BY <2>4, <2>7, <3>1, CalmStep DEF Moved
  <2> QED
    BY <2>5, <2>6, <2>7
<1> QED
  BY <1>1, <1>2

(* Both invariants hold.                                                   *)
LEMMA BothInvariants == Spec => [](BaseInv /\ LedInv)
<1>1. Init => BaseInv /\ LedInv
  <2> SUFFICES ASSUME Init
               PROVE  BaseInv /\ LedInv
    OBVIOUS
  <2>1. SkeInv
    BY InitInv
  <2>2. \A s \in Side : ske[s] = Idle /\ (running = s) = FALSE
    BY DEF Init, Side
  <2>3. /\ Idle.verdict = "none" /\ ~Idle.started
    BY DEF Idle
  <2>4. LooseType
    BY <2>1 DEF SkeInv, FullType, LooseType, Init
  <2>5. \A s \in Side : Base(s, ske[s], running = s, par)
    BY <2>1, <2>2, <2>3 DEF SkeInv, Local, Base
  <2>6. BaseInv
    BY <2>2, <2>3, <2>4, <2>5 DEF BaseInv, AnsweredLate
  <2>7. Calm
    BY <2>2, <2>3 DEF Calm
  <2> QED
    BY <2>1, <2>6, <2>7 DEF LedInv, Init
<1>2. BaseInv /\ LedInv /\ [Next]_vars => (BaseInv /\ LedInv)'
  BY NextLed
<1> QED
  BY <1>1, <1>2, PTL DEF Spec

(* Every variable keeps its type.                                          *)
THEOREM SkeTypeCorrect == Spec => []TypeOK
<1>1. BaseInv => TypeOK
  BY BaseConsequences
<1> QED
  BY <1>1, BothInvariants, PTL

(* The completion callback is called at most once and never after an       *)
(* abort, the references of the SKE are right, and nothing wakes it when   *)
(* it has finished: whatever comes while the key is verified.              *)
THEOREM SkeCompletesOnce == Spec => []CompletesOnce
<1>1. BaseInv => CompletesOnce
  BY BaseConsequences
<1> QED
  BY <1>1, BothInvariants, PTL

(* The states, the wakeups, the verification and the packets of both sides *)
(* are as described until the program breaks: an answer is late, a         *)
(* datagram has overtaken a verification, or phase 3 has left by its error *)
(* return.  Timeouts, aborts and packets of a stream during a verification *)
(* are included, with and without a guard.                                 *)
THEOREM SkeInvariant == Spec => [](Led /\ running # "undefined" => SkeInv)
<1>1. LedInv => (Led /\ running # "undefined" => SkeInv)
  BY DEF LedInv
<1> QED
  BY <1>1, BothInvariants, PTL

(* An initiator that reports success has a responder that has reported     *)
(* success: the SUCCESS of the responder is sent when it completes.        *)
THEOREM SkeKeyConfirmed == Spec => [](Led => KeyConfirmed)
<1>1. BaseInv /\ LedInv => (Led => KeyConfirmed)
  BY LedConsequences DEF LedInv
<1> QED
  BY <1>1, BothInvariants, PTL

(* Until a datagram or the error return of phase 3 leads astray, every     *)
(* success has its accepted key and no state function misses its packet,   *)
(* and an answer is late only to an owner without a guard, after a packet, *)
(* a timeout or an abort during the verification.                          *)
THEOREM SkeWokenForItsReason == Spec => [](Led => WokenForItsReason)
<1>1. BaseInv /\ LedInv => (Led => WokenForItsReason)
  BY LedConsequences DEF LedInv
<1> QED
  BY <1>1, BothInvariants, PTL
=============================================================================
