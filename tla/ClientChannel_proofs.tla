------------------------ MODULE ClientChannel_proofs ------------------------
(***************************************************************************)
(* Proofs about ClientChannel, for every set of scenarios and every bound. *)
(*                                                                         *)
(* The references of the entry are counted: ChannelInv says who holds one, *)
(* that a WHOIS is on its way once, and that the keys on their way to the  *)
(* client never go back behind the one it has.  ReadInv, in the second     *)
(* half, is about the keys that were replaced.                             *)
(***************************************************************************)
EXTENDS ClientChannel, FiniteSetTheorems, SequenceTheorems, TLAPS

-----------------------------------------------------------------------------
(* The invariant.                                                          *)

Entries == [refs : Nat, cached : BOOLEAN, users : SUBSET User, key : Nat,
            old : Seq(Nat), timers : Seq(Nat), resolving : Nat]
UpItems == [kind : {"join", "leave"}] \union Whois
DownItems == Packets \union Whois

IsWhois(x) == x.kind = "whois"

(* No two WHOIS commands of q, or of q and p, are the same.                *)
Once(q) ==
  \A i, j \in DOMAIN q : IsWhois(q[i]) /\ IsWhois(q[j]) /\ q[i].id = q[j].id => i = j
Apart(p, q) ==
  \A i \in DOMAIN p, j \in DOMAIN q : IsWhois(p[i]) /\ IsWhois(q[j]) => p[i].id # q[j].id

(* What a WHOIS is for: never a key.  w: the number of WHOIS commands.     *)
ForOK(q, w) ==
  \A i \in DOMAIN q : IsWhois(q[i]) => q[i].for.kind # "key" /\ q[i].id \in 1..w

(* The key packets of q are in order and not older than the key k, nor     *)
(* than a reply to JOIN that is before them.                               *)
KeyAfter(q, k) == \A j \in DOMAIN q : q[j].kind = "key" => k <= q[j].key
Sorted(q) ==
  \A i, j \in DOMAIN q :
    i < j /\ q[i].kind \in {"join", "key"} /\ q[j].kind = "key" => q[i].key <= q[j].key
NotNewer(q, k) == \A i \in DOMAIN q : q[i].kind \in {"join", "key"} => q[i].key <= k

(* A reply to JOIN that waits for a WHOIS of q is older than those of d.   *)
JoinOlder(q, d, k) ==
  \A i \in DOMAIN q : IsWhois(q[i]) /\ q[i].for.kind = "join" =>
    KeyAfter(d, q[i].for.key) /\ q[i].for.key <= k

(* The two directions: p to the server and q to the client, after w WHOIS  *)
(* commands, with k the server's key and e the client's.                   *)
Wires(p, q, w, k, e) ==
  /\ p \in Seq(UpItems) /\ q \in Seq(DownItems) /\ w \in Nat /\ k \in Nat /\ e \in Nat
  /\ Once(p) /\ Once(q) /\ Apart(p, q) /\ ForOK(p, w) /\ ForOK(q, w)
  /\ Sorted(q) /\ KeyAfter(q, e) /\ NotNewer(q, k) /\ e <= k
  /\ JoinOlder(p, q, k) /\ JoinOlder(q, q, k)

(* Only notifies are attached to a WHOIS.                                  *)
WaitOK(ws) ==
  /\ ws \in Seq(Seq(Packets))
  /\ \A w \in DOMAIN ws : \A i \in DOMAIN ws[w] :
       ws[w][i].kind \in {"joined", "left", "kicked"}

(* The WHOIS commands that hold a reference.                               *)
IsHeld(x) == x.kind = "whois" /\ x.for.kind # "message"
Held(p, q) == {x \in Range(p) \union Range(q) : IsHeld(x)}

(* A WHOIS that the entry is resolved with, or to which notifies are       *)
(* attached, is on its way.                                                *)
Awaited(S, c, ws) ==
  /\ c.resolving # 0 => \E x \in S : x.id = c.resolving
  /\ \A w \in DOMAIN ws : ws[w] # <<>> => \E x \in S : x.id = w

(* The cache and the users hold references; n more are held.               *)
Holders(c) == (IF c.cached THEN 1 ELSE 0) + Cardinality(c.users)
Good(c, n) ==
  /\ c \in Entries /\ n \in Nat
  /\ c.refs >= Holders(c) + n /\ (c.refs > 0 \/ c = NoEntry)

(* The entry c, both directions, the notifies attached to a WHOIS and the  *)
(* server's key k.                                                         *)
Parts(c, p, q, ws, k) ==
  /\ Good(c, Cardinality(Held(p, q))) /\ IsFiniteSet(Held(p, q))
  /\ Awaited(Held(p, q), c, ws) /\ WaitOK(ws)
  /\ Wires(p, q, Len(ws), k, c.key)

ChannelInv ==
  /\ Parts(entry, up, down, waiting, server.key)
  /\ acts \in Scenarios /\ joining \in BOOLEAN /\ leaving \in BOOLEAN
  /\ server \in [key : Nat, since : Nat, users : SUBSET User]

(* No step replaces a key by an older one.                                 *)
KeyStep == entry.key # NoKey /\ entry'.key # NoKey => entry'.key >= entry.key

-----------------------------------------------------------------------------
(* The references of an entry.                                             *)

(* The key and the WHOIS of an entry c are kept or reset in d.             *)
Follows(c, d) == d.key \in {NoKey, c.key} /\ d.resolving \in {0, c.resolving}

(* Sets of users are finite. *)
LEMMA UserSets ==
  ASSUME NEW S \in SUBSET User, NEW T \in SUBSET User
  PROVE  /\ IsFiniteSet(S) /\ Cardinality(S) \in Nat
         /\ Cardinality(S \union T) = Cardinality(S) + Cardinality(T \ S)
         /\ Cardinality(T \ S) \in Nat
         /\ Cardinality({}) = 0
         /\ \A u \in S : Cardinality(S \ {u}) = Cardinality(S) - 1
<1>1. IsFiniteSet(User)
  <2>1. User = {"self"} \union {"peer"}
    BY DEF User
  <2> QED BY <2>1, FS_Singleton, FS_Union
<1>2. IsFiniteSet(S) /\ IsFiniteSet(T \ S) /\ S \in SUBSET User /\ T \ S \in SUBSET User
  BY <1>1, FS_Subset
<1>3. Cardinality(S) \in Nat /\ Cardinality(T \ S) \in Nat
  BY <1>2, FS_CardinalityType
<1>4. S \union T = S \union (T \ S) /\ S \intersect (T \ S) = {}
  OBVIOUS
<1>5. Cardinality({}) = 0
  BY FS_EmptySet
<1>6. Cardinality(S \union (T \ S)) = Cardinality(S) + Cardinality(T \ S) - 0
  BY <1>2, <1>4, <1>5, FS_Union
<1>7. \A u \in S : Cardinality(S \ {u}) = Cardinality(S) - 1
  BY <1>2, FS_RemoveElement
<1>8. Cardinality(S \union T) = Cardinality(S) + Cardinality(T \ S)
  <2>1. Cardinality(S \union T) = Cardinality(S \union (T \ S))
    BY <1>4, Zenon
  <2> QED BY <1>3, <1>6, <2>1
<1> QED BY <1>2, <1>3, <1>5, <1>7, <1>8, Zenon

(* The holders of an entry are counted by a natural number. *)
LEMMA HoldersNat ==
  ASSUME NEW c \in Entries
  PROVE  Holders(c) \in Nat /\ Cardinality(c.users) \in Nat /\ c.users \in SUBSET User
<1>1. c.users \in SUBSET User
  BY DEF Entries
<1>2. Cardinality(c.users) \in Nat
  BY <1>1, UserSets
<1> QED BY <1>1, <1>2 DEF Holders

(* There is nobody to hold what is not there. *)
LEMMA NoEntryGood == Good(NoEntry, 0) /\ NoEntry \in Entries /\ Holders(NoEntry) = 0
<1>1. NoEntry \in Entries
  BY DEF NoEntry, Entries, NoKey
<1>2. Cardinality({}) = 0
  BY FS_EmptySet
<1> QED BY <1>1, <1>2 DEF Good, Holders, NoEntry

(* Changing the number of references changes nothing else. *)
LEMMA WithRefs ==
  ASSUME NEW c \in Entries, NEW n \in Nat
  PROVE  LET d == [c EXCEPT !.refs = n] IN
         /\ d \in Entries /\ d.refs = n /\ Holders(d) = Holders(c)
         /\ d.users = c.users /\ d.key = c.key /\ d.resolving = c.resolving
<1> DEFINE d == [c EXCEPT !.refs = n]
<1>1. d \in Entries
  BY DEF Entries
<1>2. d.cached <=> c.cached
  BY DEF Entries
<1>3. d.refs = n /\ d.users = c.users
  BY DEF Entries
<1>4. d.key = c.key /\ d.resolving = c.resolving
  BY DEF Entries
<1>5. Holders(d) = Holders(c)
  <2> HIDE DEF d
  <2> QED BY <1>2, <1>3 DEF Holders
<1> QED BY <1>1, <1>3, <1>4, <1>5

(* silc_client_ref_channel. *)
LEMMA RefGood ==
  ASSUME NEW c, NEW n, Good(c, n)
  PROVE  /\ Good(Ref(c), n + 1) /\ Follows(c, Ref(c)) /\ Ref(c).users = c.users
         /\ Exists(Ref(c)) /\ Ref(c).key = c.key
<1>1. Holders(c) \in Nat
  BY HoldersNat DEF Good
<1>2. c \in Entries /\ c.refs \in Nat /\ n \in Nat /\ c.refs >= Holders(c) + n
  BY DEF Good, Entries
<1>3. /\ Ref(c) \in Entries /\ Ref(c).refs = c.refs + 1 /\ Holders(Ref(c)) = Holders(c)
      /\ Ref(c).users = c.users /\ Ref(c).key = c.key /\ Ref(c).resolving = c.resolving
  BY <1>2, WithRefs DEF Ref
<1> QED BY <1>1, <1>2, <1>3 DEF Good, Follows, Exists

(* silc_client_unref_channel, by somebody who holds a reference. *)
LEMMA UnrefGood ==
  ASSUME NEW c, NEW n \in Nat, Good(c, n + 1)
  PROVE  Good(Unref(c), n) /\ Follows(c, Unref(c))
<1>1. Holders(c) \in Nat /\ Cardinality(c.users) \in Nat
  BY HoldersNat DEF Good
<1>2. c.refs \in Nat /\ c.refs >= Holders(c) + (n + 1) /\ c \in Entries
  BY DEF Good, Entries
<1>3. CASE c.refs = 1
  <2>1. n = 0
    BY <1>1, <1>2, <1>3
  <2>2. Unref(c) = NoEntry
    BY <1>3 DEF Unref
  <2> QED BY <2>1, <2>2, NoEntryGood DEF Follows, NoEntry
<1>4. CASE c.refs # 1
  <2>1. c.refs - 1 \in Nat /\ Unref(c) = [c EXCEPT !.refs = c.refs - 1]
    BY <1>1, <1>2, <1>4 DEF Unref
  <2>2. /\ Unref(c) \in Entries /\ Unref(c).refs = c.refs - 1
        /\ Holders(Unref(c)) = Holders(c)
        /\ Unref(c).key = c.key /\ Unref(c).resolving = c.resolving
    BY <1>2, <2>1, WithRefs
  <2> QED BY <1>1, <1>2, <1>4, <2>2 DEF Good, Follows
<1> QED BY <1>3, <1>4

(* The number of references and the users of an entry are what counts. *)
LEMMA SameHolders ==
  ASSUME NEW c, NEW n, Good(c, n), c.refs > 0, NEW d \in Entries,
         d.refs = c.refs, d.users = c.users, d.cached <=> c.cached
  PROVE  Good(d, n)
<1>1. Holders(d) = Holders(c)
  BY DEF Holders
<1> QED BY <1>1 DEF Good

(* A reference more than is held does no harm. *)
LEMMA HeldLess ==
  ASSUME NEW c, NEW n \in Nat, Good(c, n + 1)
  PROVE  Good(c, n)
<1>1. Holders(c) \in Nat
  BY HoldersNat DEF Good
<1>2. c.refs \in Nat /\ c.refs >= Holders(c) + (n + 1) /\ c \in Entries
  BY DEF Good, Entries
<1>3. c.refs >= Holders(c) + n /\ c.refs > 0
  BY <1>1, <1>2
<1> QED BY <1>2, <1>3 DEF Good

(* silc_client_del_channel. *)
LEMMA DelGood ==
  ASSUME NEW c, NEW n, Good(c, n)
  PROVE  Good(Del(c), n) /\ Follows(c, Del(c))
<1>t. c \in Entries /\ n \in Nat /\ c.refs \in Nat
  BY DEF Good, Entries
<1>1. CASE c.cached
  <2> DEFINE d == [c EXCEPT !.cached = FALSE]
  <2>1. d \in Entries /\ ~d.cached
    BY <1>t DEF Entries
  <2>2. d.refs = c.refs /\ d.users = c.users
    BY <1>t DEF Entries
  <2>3. d.key = c.key /\ d.resolving = c.resolving
    BY <1>t DEF Entries
  <2>4. Del(c) = Unref(d)
    BY <1>1 DEF Del
  <2> HIDE DEF d
  <2>5. Cardinality(c.users) \in Nat
    BY <1>t, HoldersNat
  <2>6. Good(d, n + 1)
    BY <1>1, <1>t, <2>1, <2>2, <2>5 DEF Good, Holders
  <2>7. Good(Unref(d), n) /\ Follows(d, Unref(d))
    BY <1>t, <2>6, UnrefGood
  <2> QED BY <2>3, <2>4, <2>7 DEF Follows
<1>2. CASE ~c.cached
  BY <1>2 DEF Del, Follows
<1> QED BY <1>1, <1>2

(* silc_client_add_to_channel. *)
LEMMA AddUsersGood ==
  ASSUME NEW c, NEW n, Good(c, n), c.refs > 0, NEW us \in SUBSET User
  PROVE  /\ Good(AddUsers(c, us), n) /\ Follows(c, AddUsers(c, us))
         /\ Exists(AddUsers(c, us)) /\ AddUsers(c, us).key = c.key
<1>t. c \in Entries /\ n \in Nat /\ c.refs \in Nat /\ c.users \in SUBSET User
  BY DEF Good, Entries
<1> DEFINE m == Cardinality(us \ c.users)
<1>1. /\ m \in Nat /\ Cardinality(c.users) \in Nat
      /\ Cardinality(c.users \union us) = Cardinality(c.users) + m
  BY <1>t, UserSets
<1> HIDE DEF m
<1> DEFINE d == [c EXCEPT !.users = c.users \union us, !.refs = c.refs + m]
<1>2. AddUsers(c, us) = d
  BY DEF AddUsers, m
<1>3. d \in Entries
  <2>1. c.refs + m \in Nat
    BY <1>1, <1>t
  <2>2. c.users \union us \in SUBSET User
    BY <1>t
  <2>3. [c EXCEPT !.users = c.users \union us] \in Entries
    BY <1>t, <2>2 DEF Entries
  <2> QED BY <2>1, <2>3 DEF Entries
<1>4. d.cached <=> c.cached
  BY <1>t DEF Entries
<1>5. d.refs = c.refs + m /\ d.users = c.users \union us
  BY <1>t DEF Entries
<1>6. d.key = c.key /\ d.resolving = c.resolving
  BY <1>t DEF Entries
<1> HIDE DEF d
<1>7. Holders(d) = Holders(c) + m /\ Holders(c) \in Nat
  BY <1>1, <1>4, <1>5 DEF Holders
<1> QED BY <1>1, <1>2, <1>3, <1>5, <1>6, <1>7, <1>t DEF Good, Follows, Exists

(* silc_client_remove_from_channel. *)
LEMMA RemoveUserGood ==
  ASSUME NEW c, NEW n, Good(c, n), NEW u
  PROVE  Good(RemoveUser(c, u), n) /\ Follows(c, RemoveUser(c, u))
<1>t. c \in Entries /\ n \in Nat /\ c.refs \in Nat /\ c.users \in SUBSET User
  BY DEF Good, Entries
<1>1. CASE u \notin c.users
  BY <1>1 DEF RemoveUser, Follows
<1>2. CASE u \in c.users
  <2> DEFINE d == [c EXCEPT !.users = c.users \ {u}]
  <2>1. d \in Entries
    BY <1>t DEF Entries
  <2>2. d.cached <=> c.cached
    BY <1>t DEF Entries
  <2>3. d.refs = c.refs /\ d.users = c.users \ {u}
    BY <1>t DEF Entries
  <2>4. d.key = c.key /\ d.resolving = c.resolving
    BY <1>t DEF Entries
  <2>5. RemoveUser(c, u) = Unref(IF d.users = {} THEN Del(d) ELSE d)
    BY <1>2 DEF RemoveUser
  <2> HIDE DEF d
  <2>6. Cardinality(c.users \ {u}) = Cardinality(c.users) - 1
        /\ Cardinality(c.users) \in Nat /\ Cardinality(c.users \ {u}) \in Nat
    BY <1>2, <1>t, UserSets
  <2>7. Holders(d) = Holders(c) - 1 /\ Holders(c) \in Nat /\ Holders(d) \in Nat
    BY <2>2, <2>3, <2>6 DEF Holders
  <2>8. Good(d, n + 1)
    BY <1>t, <2>1, <2>3, <2>7 DEF Good
  <2>9. Good(Unref(d), n) /\ Follows(d, Unref(d))
    BY <1>t, <2>8, UnrefGood
  <2>10. Good(Del(d), n + 1) /\ Follows(d, Del(d))
    BY <1>t, <2>8, DelGood
  <2>11. Good(Unref(Del(d)), n) /\ Follows(Del(d), Unref(Del(d)))
    BY <1>t, <2>10, UnrefGood
  <2> QED BY <2>4, <2>5, <2>9, <2>10, <2>11 DEF Follows
<1> QED BY <1>1, <1>2

(* silc_client_empty_channel, whose caller holds a reference. *)
LEMMA EmptyGood ==
  ASSUME NEW c, NEW n, Good(c, n), n > 0
  PROVE  Good(Empty(c), n) /\ Follows(c, Empty(c))
<1>t. c \in Entries /\ n \in Nat /\ c.refs \in Nat /\ c.users \in SUBSET User
  BY DEF Good, Entries
<1> DEFINE m == Cardinality(c.users)
<1>1. m \in Nat /\ Cardinality({}) = 0
  BY <1>t, UserSets
<1>2. c.refs >= (IF c.cached THEN 1 ELSE 0) + m + n
  BY <1>1, <1>t DEF Good, Holders
<1> HIDE DEF m
<1> DEFINE d == [c EXCEPT !.users = {}, !.refs = c.refs - m]
<1>3. Empty(c) = d
  BY DEF Empty, m
<1>4. d \in Entries
  <2>1. c.refs - m \in Nat
    BY <1>1, <1>2, <1>t
  <2>2. [c EXCEPT !.users = {}] \in Entries
    BY <1>t DEF Entries
  <2> QED BY <2>1, <2>2 DEF Entries
<1>5. d.cached <=> c.cached
  BY <1>t DEF Entries
<1>6. d.refs = c.refs - m /\ d.users = {}
  BY <1>t DEF Entries
<1>7. d.key = c.key /\ d.resolving = c.resolving
  BY <1>t DEF Entries
<1> HIDE DEF d
<1>8. d.refs >= Holders(d) + n /\ d.refs > 0
  BY <1>1, <1>2, <1>5, <1>6, <1>t DEF Holders
<1> QED BY <1>3, <1>4, <1>7, <1>8, <1>t DEF Good, Follows

(* silc_client_save_channel_key. *)
LEMMA SaveKeyGood ==
  ASSUME NEW c, NEW n, Good(c, n), c.refs > 0, NEW k \in Nat
  PROVE  /\ Good(SaveKey(c, k), n) /\ SaveKey(c, k).key = k
         /\ SaveKey(c, k).resolving = c.resolving
<1>t. c \in Entries /\ n \in Nat
  BY DEF Good
<1>0. Append(c.old, c.key) \in Seq(Nat) /\ Append(c.timers, c.key) \in Seq(Nat)
  BY <1>t DEF Entries
<1> DEFINE a == Append(c.old, c.key)
<1> DEFINE b == Append(c.timers, c.key)
<1> DEFINE d == [c EXCEPT !.old = a, !.timers = b, !.key = k]
<1>1. SaveKey(c, k) = d
  BY DEF SaveKey
<1>2. a \in Seq(Nat) /\ b \in Seq(Nat)
  BY <1>0
<1> HIDE DEF a, b
<1>3. d \in Entries
  <2>1. [c EXCEPT !.old = a] \in Entries
    BY <1>2, <1>t DEF Entries
  <2>2. [c EXCEPT !.old = a, !.timers = b] \in Entries
    BY <1>2, <2>1 DEF Entries
  <2> QED BY <2>2 DEF Entries
<1>4. d.cached <=> c.cached
  BY <1>t DEF Entries
<1>5. d.refs = c.refs /\ d.users = c.users
  BY <1>t DEF Entries
<1>6. d.key = k /\ d.resolving = c.resolving
  BY <1>t DEF Entries
<1> HIDE DEF d
<1>7. Good(d, n)
  BY <1>3, <1>4, <1>5, SameHolders
<1> QED BY <1>1, <1>6, <1>7

(* The entry a handler works on: the cache's reference and its own. *)
LEMMA GetOrAddGood ==
  ASSUME NEW c, NEW n \in Nat, Good(c, n)
  PROVE  /\ Good(GetOrAdd(c), n + 1) /\ GetOrAdd(c).refs > 0
         /\ GetOrAdd(c).key = c.key /\ GetOrAdd(c).resolving = c.resolving
<1>t. c \in Entries /\ c.refs \in Nat
  BY DEF Good, Entries
<1>1. CASE Exists(c)
  BY <1>1, <1>t, RefGood DEF GetOrAdd, Follows, Exists, Ref, Entries
<1>2. CASE ~Exists(c)
  <2>1. c = NoEntry /\ n = 0
    <3>1. c.refs = 0
      BY <1>2, <1>t DEF Exists
    <3>2. Holders(c) \in Nat
      BY <1>t, HoldersNat
    <3> QED BY <3>1, <3>2 DEF Good
  <2> DEFINE d == [NoEntry EXCEPT !.refs = 2, !.cached = TRUE]
  <2>2. GetOrAdd(c) = d
    BY <1>2, <2>1 DEF GetOrAdd
  <2>3. d \in Entries /\ d.refs = 2 /\ d.users = {}
    BY NoEntryGood DEF Entries, NoEntry
  <2>4. d.cached
    BY NoEntryGood DEF Entries
  <2>5. d.key = NoEntry.key /\ d.resolving = NoEntry.resolving
    BY NoEntryGood DEF Entries
  <2> HIDE DEF d
  <2>6. Holders(d) = 1
    BY <2>3, <2>4, FS_EmptySet DEF Holders
  <2>7. Good(d, 1)
    BY <2>3, <2>6 DEF Good
  <2> QED BY <2>1, <2>2, <2>3, <2>5, <2>7
<1> QED BY <1>1, <1>2

(* The command a handler is suspended with, or none. *)
LEMMA SetResolving ==
  ASSUME NEW c, NEW n, Good(c, n), c.refs > 0, NEW w \in Nat
  PROVE  LET d == [c EXCEPT !.resolving = w] IN
         Good(d, n) /\ d.resolving = w /\ d.key = c.key
<1> DEFINE d == [c EXCEPT !.resolving = w]
<1>t. c \in Entries
  BY DEF Good
<1>1. d \in Entries
  BY <1>t DEF Entries
<1>2. d.cached <=> c.cached
  BY <1>t DEF Entries
<1>3. d.refs = c.refs /\ d.users = c.users
  BY <1>t DEF Entries
<1>4. d.resolving = w /\ d.key = c.key
  BY <1>t DEF Entries
<1> HIDE DEF d
<1>5. Good(d, n)
  BY <1>1, <1>2, <1>3, SameHolders
<1> QED BY <1>4, <1>5 DEF d

(* The reply to JOIN: its key is taken only if there is none. *)
LEMMA JoinedGood ==
  ASSUME NEW c, NEW n \in Nat, Good(c, n + 1), c.refs > 0, NEW p \in Packets
  PROVE  /\ Good(JoinedChannel(c, p), n)
         /\ JoinedChannel(c, p).resolving \in {0, c.resolving}
         /\ c.key = NoKey => JoinedChannel(c, p).key \in {NoKey, p.key}
         /\ c.key # NoKey => JoinedChannel(c, p).key \in {NoKey, c.key}
<1>p. p.users \in SUBSET User /\ p.key \in Nat
  BY DEF Packets
<1> DEFINE a == AddUsers(c, p.users)
<1>1. Good(a, n + 1) /\ Follows(c, a) /\ a.refs > 0 /\ a.key = c.key
  BY <1>p, AddUsersGood DEF Exists
<1>2. JoinedChannel(c, p) = Unref(IF a.key = NoKey THEN SaveKey(a, p.key) ELSE a)
  BY DEF JoinedChannel
<1> HIDE DEF a
<1>3. CASE a.key = NoKey
  <2>1. /\ Good(SaveKey(a, p.key), n + 1) /\ SaveKey(a, p.key).key = p.key
        /\ SaveKey(a, p.key).resolving = a.resolving
    BY <1>1, <1>p, SaveKeyGood
  <2>2. /\ Good(Unref(SaveKey(a, p.key)), n)
        /\ Follows(SaveKey(a, p.key), Unref(SaveKey(a, p.key)))
    BY <2>1, UnrefGood
  <2> QED BY <1>1, <1>2, <1>3, <2>1, <2>2 DEF Follows
<1>4. CASE a.key # NoKey
  <2>1. Good(Unref(a), n) /\ Follows(a, Unref(a))
    BY <1>1, UnrefGood
  <2> QED BY <1>1, <1>2, <1>4, <2>1 DEF Follows
<1> QED BY <1>3, <1>4

(* The reply to LEAVE keeps the reference it has taken. *)
LEMMA LeftGood ==
  ASSUME NEW c, NEW n \in Nat, Good(c, n)
  PROVE  Good(LeftChannel(c), n) /\ Follows(c, LeftChannel(c))
<1> DEFINE a == RemoveUser(Ref(c), "self")
<1>1. Good(a, n + 1) /\ Follows(c, a)
  BY RefGood, RemoveUserGood DEF Follows
<1> DEFINE b == [a EXCEPT !.key = NoKey, !.old = <<>>]
<1>2. LeftChannel(c) = Del(Empty(b))
  BY DEF LeftChannel
<1> HIDE DEF a
<1>t. a \in Entries /\ a.refs \in Nat /\ Holders(a) \in Nat
  BY <1>1, HoldersNat DEF Good, Entries
<1>r. a.refs > 0
  BY <1>1, <1>t DEF Good
<1>3. b \in Entries
  <2>1. NoKey \in Nat /\ <<>> \in Seq(Nat)
    BY DEF NoKey
  <2>2. [a EXCEPT !.key = NoKey] \in Entries
    BY <1>t, <2>1 DEF Entries
  <2> QED BY <2>1, <2>2 DEF Entries
<1>4. b.cached <=> a.cached
  BY <1>t DEF Entries
<1>5. b.refs = a.refs /\ b.users = a.users
  BY <1>t DEF Entries
<1>6. b.resolving = a.resolving /\ b.key = NoKey
  BY <1>t DEF Entries
<1> HIDE DEF b
<1>7. Good(b, n + 1)
  BY <1>1, <1>3, <1>4, <1>5, <1>r, SameHolders
<1>8. Good(Empty(b), n + 1) /\ Follows(b, Empty(b))
  BY <1>7, EmptyGood
<1>9. Good(Del(Empty(b)), n + 1) /\ Follows(Empty(b), Del(Empty(b)))
  BY <1>8, DelGood
<1>10. Good(Del(Empty(b)), n)
  BY <1>9, HeldLess
<1> QED BY <1>1, <1>2, <1>6, <1>8, <1>9, <1>10 DEF Follows

(* The notifies, which hold a reference while they work. *)
LEMMA NotifiedGood ==
  ASSUME NEW c, NEW n \in Nat, Good(c, n), NEW k \in {"joined", "left", "kicked"}
  PROVE  Good(Notified(c, k), n) /\ Follows(c, Notified(c, k))
<1>1. Good(Ref(c), n + 1) /\ Follows(c, Ref(c)) /\ Ref(c).refs > 0
  BY RefGood DEF Exists
<1> DEFINE a == Ref(c)
<1> HIDE DEF a
<1>2. Good(a, n + 1) /\ Follows(c, a) /\ a.refs > 0
  BY <1>1 DEF a
<1>3. CASE k = "joined"
  <2>1. {"peer"} \in SUBSET User
    BY DEF User
  <2>2. Good(AddUsers(a, {"peer"}), n + 1) /\ Follows(a, AddUsers(a, {"peer"}))
    BY <1>2, <2>1, AddUsersGood
  <2>3. /\ Good(Unref(AddUsers(a, {"peer"})), n)
        /\ Follows(AddUsers(a, {"peer"}), Unref(AddUsers(a, {"peer"})))
    BY <2>2, UnrefGood
  <2>4. Notified(c, k) = Unref(AddUsers(a, {"peer"}))
    BY <1>3 DEF Notified, a
  <2> QED BY <1>2, <2>2, <2>3, <2>4 DEF Follows
<1>4. CASE k = "left"
  <2>2. Good(RemoveUser(a, "peer"), n + 1) /\ Follows(a, RemoveUser(a, "peer"))
    BY <1>2, RemoveUserGood
  <2>3. /\ Good(Unref(RemoveUser(a, "peer")), n)
        /\ Follows(RemoveUser(a, "peer"), Unref(RemoveUser(a, "peer")))
    BY <2>2, UnrefGood
  <2>4. Notified(c, k) = Unref(RemoveUser(a, "peer"))
    BY <1>4 DEF Notified, a
  <2> QED BY <1>2, <2>2, <2>3, <2>4 DEF Follows
<1>5. CASE k = "kicked"
  <2>1. Good(Empty(a), n + 1) /\ Follows(a, Empty(a))
    BY <1>2, EmptyGood
  <2>2. Good(Del(Empty(a)), n + 1) /\ Follows(Empty(a), Del(Empty(a)))
    BY <2>1, DelGood
  <2>3. Good(Unref(Del(Empty(a))), n) /\ Follows(Del(Empty(a)), Unref(Del(Empty(a))))
    BY <2>2, UnrefGood
  <2>4. Notified(c, k) = Unref(Del(Empty(a)))
    BY <1>5 DEF Notified, a
  <2> QED BY <1>2, <2>1, <2>2, <2>3, <2>4 DEF Follows
<1> QED BY <1>3, <1>4, <1>5

-----------------------------------------------------------------------------
(* The packets on their way.                                               *)

(* A packet is no WHOIS, and a WHOIS carries a packet. *)
LEMMA Items ==
  /\ \A x \in UpItems : IsWhois(x) => x \in Whois
  /\ \A x \in DownItems : (IsWhois(x) => x \in Whois) /\ (~IsWhois(x) => x \in Packets)
  /\ \A x \in Packets : ~IsWhois(x) /\ x.key \in Nat
  /\ \A x \in Whois : IsWhois(x) /\ x.id \in Nat /\ x.for \in Packets /\ x.for.key \in Nat
BY DEF UpItems, DownItems, Whois, Packets, IsWhois

(* The elements of the tail of a sequence. *)
LEMMA TailItems ==
  ASSUME NEW S, NEW q \in Seq(S), q # <<>>
  PROVE  /\ Tail(q) \in Seq(S) /\ Head(q) = q[1] /\ 1 \in DOMAIN q /\ Head(q) \in S
         /\ \A i \in DOMAIN Tail(q) : i + 1 \in DOMAIN q /\ Tail(q)[i] = q[i + 1] /\ i \in Nat
         /\ \A i \in DOMAIN q : i = 1 \/ (i - 1 \in DOMAIN Tail(q) /\ q[i] = Tail(q)[i - 1])
OBVIOUS

(* The elements of a sequence with one more at its end. *)
LEMMA AppendItems ==
  ASSUME NEW S, NEW q \in Seq(S), NEW x \in S
  PROVE  /\ Append(q, x) \in Seq(S)
         /\ \A i \in DOMAIN Append(q, x) :
              \/ i \in DOMAIN q /\ Append(q, x)[i] = q[i]
              \/ i = Len(q) + 1 /\ Append(q, x)[i] = x
         /\ \A i \in DOMAIN q : i \in DOMAIN Append(q, x) /\ Append(q, x)[i] = q[i]
         /\ Len(q) + 1 \in DOMAIN Append(q, x) /\ Append(q, x)[Len(q) + 1] = x
         /\ \A i \in DOMAIN q : i \in Nat /\ i < Len(q) + 1
OBVIOUS

(* A packet that is neither a key nor a reply to JOIN, at the end. *)
LEMMA WiresQuiet ==
  ASSUME NEW p, NEW q, NEW w, NEW k, NEW e, Wires(p, q, w, k, e),
         NEW x \in Packets, x.kind \notin {"join", "key"}
  PROVE  Wires(p, Append(q, x), w, k, e)
<1> DEFINE d == Append(q, x)
<1>1. x \in DownItems /\ ~IsWhois(x) /\ q \in Seq(DownItems)
  BY Items DEF DownItems, Wires
<1>2. /\ d \in Seq(DownItems)
      /\ \A i \in DOMAIN d : (i \in DOMAIN q /\ d[i] = q[i]) \/ d[i] = x
  BY <1>1, AppendItems
<1> HIDE DEF d
<1>3. Once(d) /\ Apart(p, d) /\ ForOK(d, w)
  BY <1>1, <1>2 DEF Wires, Once, Apart, ForOK
<1>4. Sorted(d) /\ KeyAfter(d, e) /\ NotNewer(d, k)
  BY <1>1, <1>2 DEF Wires, Sorted, KeyAfter, NotNewer
<1>5. JoinOlder(p, d, k) /\ JoinOlder(d, d, k)
  BY <1>1, <1>2 DEF Wires, JoinOlder, KeyAfter
<1> QED BY <1>2, <1>3, <1>4, <1>5 DEF Wires, d

(* The server makes a new key. *)
LEMMA WiresNewer ==
  ASSUME NEW p, NEW q, NEW w, NEW k, NEW e, Wires(p, q, w, k, e), NEW m \in Nat, k <= m
  PROVE  Wires(p, q, w, m, e)
<1>1. p \in Seq(UpItems) /\ q \in Seq(DownItems) /\ k \in Nat /\ e \in Nat
  BY DEF Wires
<1>2. \A i \in DOMAIN q : q[i].kind \in {"join", "key"} => q[i].key \in Nat
  <2> SUFFICES ASSUME NEW i \in DOMAIN q, q[i].kind \in {"join", "key"}
               PROVE  q[i].key \in Nat
    OBVIOUS
  <2>1. q[i] \in DownItems
    BY <1>1
  <2> QED BY <2>1, Items DEF IsWhois
<1>3. \A i \in DOMAIN q : IsWhois(q[i]) => q[i].for.key \in Nat
  <2> SUFFICES ASSUME NEW i \in DOMAIN q, IsWhois(q[i])
               PROVE  q[i].for.key \in Nat
    OBVIOUS
  <2>1. q[i] \in DownItems
    BY <1>1
  <2> QED BY <2>1, Items
<1>4. \A i \in DOMAIN p : IsWhois(p[i]) => p[i].for.key \in Nat
  <2> SUFFICES ASSUME NEW i \in DOMAIN p, IsWhois(p[i])
               PROVE  p[i].for.key \in Nat
    OBVIOUS
  <2>1. p[i] \in UpItems
    BY <1>1
  <2> QED BY <2>1, Items
<1>5. NotNewer(q, m) /\ e <= m
  BY <1>1, <1>2 DEF Wires, NotNewer
<1>6. JoinOlder(p, q, m) /\ JoinOlder(q, q, m)
  BY <1>1, <1>3, <1>4 DEF Wires, JoinOlder
<1> QED BY <1>5, <1>6 DEF Wires

(* The newest key, or a reply to JOIN with it, at the end. *)
LEMMA WiresKey ==
  ASSUME NEW p, NEW q, NEW w, NEW k, NEW e, Wires(p, q, w, k, e),
         NEW x \in Packets, x.kind \in {"join", "key"}, x.key = k
  PROVE  Wires(p, Append(q, x), w, k, e)
<1> DEFINE d == Append(q, x)
<1>1. x \in DownItems /\ ~IsWhois(x) /\ q \in Seq(DownItems) /\ k \in Nat
  BY Items DEF DownItems, Wires
<1>2. /\ d \in Seq(DownItems)
      /\ \A i \in DOMAIN d :
           (i \in DOMAIN q /\ d[i] = q[i] /\ i < Len(q) + 1) \/ (d[i] = x /\ i = Len(q) + 1)
      /\ \A i \in DOMAIN q : i \in Nat
      /\ Len(q) \in Nat
  BY <1>1, AppendItems
<1> HIDE DEF d
<1>w. /\ Once(q) /\ Apart(p, q) /\ ForOK(q, w) /\ Sorted(q) /\ KeyAfter(q, e) /\ NotNewer(q, k)
      /\ e <= k /\ JoinOlder(p, q, k) /\ JoinOlder(q, q, k)
  BY DEF Wires
<1>3. Once(d) /\ Apart(p, d) /\ ForOK(d, w)
  BY <1>1, <1>2, <1>w DEF Once, Apart, ForOK
<1>4. Sorted(d)
  <2> SUFFICES ASSUME NEW i \in DOMAIN d, NEW j \in DOMAIN d, i < j,
                      d[i].kind \in {"join", "key"}, d[j].kind = "key"
               PROVE  d[i].key <= d[j].key
    BY DEF Sorted
  <2>1. i \in DOMAIN q /\ d[i] = q[i]
    BY <1>2
  <2>2. CASE j \in DOMAIN q /\ d[j] = q[j]
    BY <1>w, <2>1, <2>2 DEF Sorted
  <2>3. CASE d[j] = x
    BY <1>w, <2>1, <2>3 DEF NotNewer
  <2> QED BY <1>2, <2>2, <2>3
<1>5. NotNewer(d, k)
  BY <1>1, <1>2, <1>w DEF NotNewer
<1>6. \A n : KeyAfter(q, n) /\ n <= k => KeyAfter(d, n)
  BY <1>2 DEF KeyAfter
<1>7. KeyAfter(d, e)
  BY <1>6, <1>w
<1>8. JoinOlder(p, d, k)
  BY <1>6, <1>w DEF JoinOlder
<1>9. JoinOlder(d, d, k)
  BY <1>1, <1>2, <1>6, <1>w DEF JoinOlder
<1> QED BY <1>2, <1>3, <1>4, <1>5, <1>7, <1>8, <1>9 DEF Wires, d

(* The first packet is taken. *)
LEMMA WiresTaken ==
  ASSUME NEW p, NEW q, NEW w, NEW k, NEW e, Wires(p, q, w, k, e), q # <<>>
  PROVE  /\ Wires(p, Tail(q), w, k, e)
         /\ Head(q).kind \in {"join", "key"} => Wires(p, Tail(q), w, k, Head(q).key)
<1> DEFINE d == Tail(q)
<1>0. q \in Seq(DownItems)
  BY DEF Wires
<1>1. /\ d \in Seq(DownItems) /\ Head(q) = q[1] /\ 1 \in DOMAIN q /\ Head(q) \in DownItems
      /\ \A i \in DOMAIN d : i + 1 \in DOMAIN q /\ d[i] = q[i + 1] /\ i \in Nat
      /\ \A i \in DOMAIN d : 1 < i + 1
  <2>1. \A i \in DOMAIN Tail(q) : i \in 1..Len(Tail(q))
    BY <1>0
  <2> QED BY <1>0, <2>1, TailItems
<1> HIDE DEF d
<1>2. Once(d)
  <2> SUFFICES ASSUME NEW i \in DOMAIN d, NEW j \in DOMAIN d,
                      IsWhois(d[i]), IsWhois(d[j]), d[i].id = d[j].id
               PROVE  i = j
    BY DEF Once
  <2>1. i \in Nat /\ j \in Nat /\ i + 1 \in DOMAIN q /\ j + 1 \in DOMAIN q
    BY <1>1
  <2>2. d[i] = q[i + 1] /\ d[j] = q[j + 1]
    BY <1>1
  <2>3. i + 1 = j + 1
    BY <2>1, <2>2, Zenon DEF Wires, Once
  <2> QED BY <2>1, <2>3
<1>3. Apart(p, d) /\ ForOK(d, w)
  BY <1>1 DEF Wires, Apart, ForOK
<1>4. Sorted(d)
  <2> SUFFICES ASSUME NEW i \in DOMAIN d, NEW j \in DOMAIN d, i < j,
                      d[i].kind \in {"join", "key"}, d[j].kind = "key"
               PROVE  d[i].key <= d[j].key
    BY DEF Sorted
  <2>1. i + 1 \in DOMAIN q /\ j + 1 \in DOMAIN q /\ i + 1 < j + 1
    BY <1>1
  <2>2. d[i] = q[i + 1] /\ d[j] = q[j + 1]
    BY <1>1
  <2> QED BY <2>1, <2>2, Zenon DEF Wires, Sorted
<1>5. KeyAfter(d, e) /\ NotNewer(d, k)
  BY <1>1 DEF Wires, KeyAfter, NotNewer
<1>6. JoinOlder(p, d, k) /\ JoinOlder(d, d, k)
  BY <1>1 DEF Wires, JoinOlder, KeyAfter
<1>7. Wires(p, d, w, k, e)
  BY <1>1, <1>2, <1>3, <1>4, <1>5, <1>6 DEF Wires
<1>8. ASSUME Head(q).kind \in {"join", "key"}
      PROVE  Wires(p, d, w, k, Head(q).key)
  <2>1. Head(q).key \in Nat
    BY <1>1, <1>8, Items DEF IsWhois
  <2>2. KeyAfter(d, Head(q).key)
    BY <1>1, <1>8 DEF Wires, KeyAfter, Sorted
  <2>3. Head(q).key <= k
    BY <1>1, <1>8 DEF Wires, NotNewer
  <2> QED BY <1>7, <2>1, <2>2, <2>3 DEF Wires
<1> QED BY <1>7, <1>8 DEF d

(* The client forgets its key. *)
LEMMA WiresForget ==
  ASSUME NEW p, NEW q, NEW w, NEW k, NEW e, Wires(p, q, w, k, e)
  PROVE  Wires(p, q, w, k, NoKey)
<1>1. q \in Seq(DownItems) /\ k \in Nat
  BY DEF Wires
<1>2. KeyAfter(q, 0)
  <2> SUFFICES ASSUME NEW j \in DOMAIN q, q[j].kind = "key"
               PROVE  0 <= q[j].key
    BY DEF KeyAfter
  <2>1. q[j] \in DownItems
    BY <1>1
  <2>2. q[j].key \in Nat
    BY <2>1, Items DEF IsWhois
  <2> QED BY <2>2
<1> QED BY <1>1, <1>2 DEF Wires, NoKey

(* A command other than WHOIS, at the end. *)
LEMMA WiresCall ==
  ASSUME NEW p, NEW q, NEW w, NEW k, NEW e, Wires(p, q, w, k, e),
         NEW x \in [kind : {"join", "leave"}]
  PROVE  Wires(Append(p, x), q, w, k, e)
<1> DEFINE d == Append(p, x)
<1>1. x \in UpItems /\ ~IsWhois(x) /\ p \in Seq(UpItems)
  BY DEF UpItems, IsWhois, Wires
<1>2. /\ d \in Seq(UpItems)
      /\ \A i \in DOMAIN d : (i \in DOMAIN p /\ d[i] = p[i]) \/ d[i] = x
  BY <1>1, AppendItems
<1> HIDE DEF d
<1>3. Once(d) /\ Apart(d, q) /\ ForOK(d, w)
  BY <1>1, <1>2 DEF Wires, Once, Apart, ForOK
<1>4. JoinOlder(d, q, k)
  BY <1>1, <1>2 DEF Wires, JoinOlder
<1> QED BY <1>2, <1>3, <1>4 DEF Wires, d

(* The server takes the first command. *)
LEMMA WiresServed ==
  ASSUME NEW p, NEW q, NEW w, NEW k, NEW e, Wires(p, q, w, k, e), p # <<>>
  PROVE  Wires(Tail(p), q, w, k, e)
<1> DEFINE d == Tail(p)
<1>0. p \in Seq(UpItems)
  BY DEF Wires
<1>1. /\ d \in Seq(UpItems)
      /\ \A i \in DOMAIN d : i + 1 \in DOMAIN p /\ d[i] = p[i + 1] /\ i \in Nat
  BY <1>0, TailItems
<1> HIDE DEF d
<1>2. Once(d)
  <2> SUFFICES ASSUME NEW i \in DOMAIN d, NEW j \in DOMAIN d,
                      IsWhois(d[i]), IsWhois(d[j]), d[i].id = d[j].id
               PROVE  i = j
    BY DEF Once
  <2>1. i \in Nat /\ j \in Nat /\ i + 1 \in DOMAIN p /\ j + 1 \in DOMAIN p
    BY <1>1
  <2>2. d[i] = p[i + 1] /\ d[j] = p[j + 1]
    BY <1>1
  <2>3. i + 1 = j + 1
    BY <2>1, <2>2, Zenon DEF Wires, Once
  <2> QED BY <2>1, <2>3
<1>3. Apart(d, q) /\ ForOK(d, w)
  BY <1>1 DEF Wires, Apart, ForOK
<1>4. JoinOlder(d, q, k)
  BY <1>1 DEF Wires, JoinOlder
<1> QED BY <1>1, <1>2, <1>3, <1>4 DEF Wires, d

(* A new WHOIS: no other has its number, and a reply to JOIN that waits    *)
(* for it is older than the keys behind it.                                *)
LEMMA WiresAsked ==
  ASSUME NEW p, NEW q, NEW w, NEW k, NEW e, Wires(p, q, w, k, e),
         NEW x \in Whois, x.id = w + 1, x.for.kind # "key",
         x.for.kind = "join" => KeyAfter(q, x.for.key) /\ x.for.key <= k
  PROVE  Wires(Append(p, x), q, w + 1, k, e)
<1> DEFINE d == Append(p, x)
<1>1. x \in UpItems /\ IsWhois(x) /\ p \in Seq(UpItems) /\ w \in Nat
  BY Items DEF UpItems, Wires
<1>2. /\ d \in Seq(UpItems)
      /\ \A i \in DOMAIN d : (i \in DOMAIN p /\ d[i] = p[i]) \/ (d[i] = x /\ i = Len(p) + 1)
  BY <1>1, AppendItems
<1> HIDE DEF d
<1>3. /\ \A i \in DOMAIN p : IsWhois(p[i]) => p[i].id # w + 1 /\ p[i].id \in 1..(w + 1)
      /\ \A i \in DOMAIN q : IsWhois(q[i]) => q[i].id # w + 1 /\ q[i].id \in 1..(w + 1)
  BY <1>1 DEF Wires, ForOK
<1>4. Once(d)
  BY <1>1, <1>2, <1>3 DEF Wires, Once
<1>5. Apart(d, q)
  BY <1>1, <1>2, <1>3 DEF Wires, Apart
<1>6. ForOK(d, w + 1) /\ ForOK(q, w + 1)
  BY <1>1, <1>2, <1>3 DEF Wires, ForOK
<1>7. JoinOlder(d, q, k)
  BY <1>1, <1>2 DEF Wires, JoinOlder
<1> QED BY <1>1, <1>2, <1>4, <1>5, <1>6, <1>7 DEF Wires, d

(* The reply to a WHOIS. *)
LEMMA WiresAnswered ==
  ASSUME NEW p, NEW q, NEW w, NEW k, NEW e, Wires(p, q, w, k, e), p # <<>>,
         NEW x \in Whois, IsWhois(Head(p)), x.id = Head(p).id, x.for = Head(p).for
  PROVE  Wires(Tail(p), Append(q, x), w, k, e)
<1> DEFINE c == Tail(p)
<1> DEFINE d == Append(q, x)
<1>0. p \in Seq(UpItems) /\ q \in Seq(DownItems) /\ x \in DownItems /\ IsWhois(x)
  BY Items DEF Wires, DownItems
<1>1. /\ p[1] = Head(p) /\ 1 \in DOMAIN p
      /\ \A i \in DOMAIN c : i + 1 \in DOMAIN p /\ c[i] = p[i + 1] /\ i + 1 # 1
  <2>1. \A i \in DOMAIN Tail(p) : i \in 1..Len(Tail(p))
    BY <1>0
  <2> QED BY <1>0, <2>1, TailItems
<1>2. /\ d \in Seq(DownItems)
      /\ \A i \in DOMAIN d : (i \in DOMAIN q /\ d[i] = q[i]) \/ (d[i] = x /\ i = Len(q) + 1)
  BY <1>0, AppendItems
<1>3. Wires(c, q, w, k, e)
  BY WiresServed
<1> HIDE DEF c, d
<1>4. /\ \A i \in DOMAIN c : IsWhois(c[i]) => c[i].id # x.id
      /\ \A i \in DOMAIN q : IsWhois(q[i]) => q[i].id # x.id
      /\ x.id \in 1..w /\ x.for.kind # "key"
  <2>1. \A i \in DOMAIN c : IsWhois(c[i]) => c[i].id # x.id
    BY <1>1, Zenon DEF Wires, Once
  <2>2. \A i \in DOMAIN q : IsWhois(q[i]) => q[i].id # x.id
    BY <1>1, Zenon DEF Wires, Apart
  <2>3. x.id \in 1..w /\ x.for.kind # "key"
    BY <1>1, Zenon DEF Wires, ForOK
  <2> QED BY <2>1, <2>2, <2>3, Zenon
<1>5. x.for.kind = "join" => KeyAfter(q, x.for.key) /\ x.for.key <= k
  BY <1>1, Zenon DEF Wires, JoinOlder
<1>6. Once(d)
  BY <1>2, <1>3, <1>4 DEF Wires, Once
<1>7. Apart(c, d)
  BY <1>2, <1>3, <1>4 DEF Wires, Apart
<1>8. ForOK(d, w)
  BY <1>2, <1>3, <1>4 DEF Wires, ForOK
<1>9. x.kind = "whois"
  BY <1>0 DEF IsWhois
<1>10. Sorted(d) /\ KeyAfter(d, e) /\ NotNewer(d, k)
  BY <1>2, <1>3, <1>9 DEF Wires, Sorted, KeyAfter, NotNewer
<1>11. \A n : KeyAfter(q, n) => KeyAfter(d, n)
  BY <1>2, <1>9 DEF KeyAfter
<1>12. JoinOlder(c, d, k) /\ JoinOlder(d, d, k)
  BY <1>2, <1>3, <1>5, <1>11 DEF Wires, JoinOlder
<1> QED BY <1>2, <1>3, <1>6, <1>7, <1>8, <1>10, <1>12 DEF Wires, c, d

(* The packets d are those of q, in their order (f says which), with       *)
(* others between them that are no keys, and replies to JOIN only if they  *)
(* are older than every key.                                               *)
Between(q, d, f, k) ==
  /\ d \in Seq(DownItems)
  /\ \A i \in DOMAIN d :
       \/ f[i] \in DOMAIN q /\ d[i] = q[f[i]]
       \/ /\ f[i] = 0 /\ d[i] \in Packets /\ d[i].kind # "key"
          /\ d[i].kind = "join" => KeyAfter(q, d[i].key) /\ d[i].key <= k
  /\ \A i, j \in DOMAIN d : i < j /\ f[i] # 0 /\ f[j] # 0 => f[i] < f[j]
  /\ \A j \in DOMAIN q : \E i \in DOMAIN d : d[i] = q[j]

(* What starts again is put between the packets on their way. *)
LEMMA WiresBetween ==
  ASSUME NEW p, NEW q, NEW w, NEW k, NEW e, Wires(p, q, w, k, e),
         NEW d, NEW f, Between(q, d, f, k)
  PROVE  Wires(p, d, w, k, e)
<1>1. /\ d \in Seq(DownItems)
      /\ \A i, j \in DOMAIN d : i < j /\ f[i] # 0 /\ f[j] # 0 => f[i] < f[j]
      /\ \A i \in DOMAIN d : i \in Nat
      /\ \A i \in DOMAIN q : i \in Nat /\ i # 0
  BY DEF Between, Wires
<1>2. \A i \in DOMAIN d :
        \/ f[i] \in DOMAIN q /\ d[i] = q[f[i]]
        \/ /\ f[i] = 0 /\ ~IsWhois(d[i]) /\ d[i].kind # "key"
           /\ d[i].kind = "join" => KeyAfter(q, d[i].key) /\ d[i].key <= k
  BY Items DEF Between
<1>3. \A n : KeyAfter(q, n) => KeyAfter(d, n)
  BY <1>2 DEF KeyAfter
<1>4. \A i \in DOMAIN d : IsWhois(d[i]) => f[i] \in DOMAIN q /\ d[i] = q[f[i]]
  BY <1>2
<1>5. Once(d)
  <2> SUFFICES ASSUME NEW i \in DOMAIN d, NEW j \in DOMAIN d,
                      IsWhois(d[i]), IsWhois(d[j]), d[i].id = d[j].id
               PROVE  i = j
    BY DEF Once
  <2>1. f[i] \in DOMAIN q /\ f[j] \in DOMAIN q /\ d[i] = q[f[i]] /\ d[j] = q[f[j]]
    BY <1>4
  <2>2. f[i] = f[j]
    BY <2>1, Zenon DEF Wires, Once
  <2>3. ~(i < j) /\ ~(j < i) /\ i \in Nat /\ j \in Nat
    BY <1>1, <2>1, <2>2
  <2> QED BY <2>3
<1>6. Apart(p, d) /\ ForOK(d, w)
  BY <1>4 DEF Wires, Apart, ForOK
<1>7. Sorted(d)
  <2> SUFFICES ASSUME NEW i \in DOMAIN d, NEW j \in DOMAIN d, i < j,
                      d[i].kind \in {"join", "key"}, d[j].kind = "key"
               PROVE  d[i].key <= d[j].key
    BY DEF Sorted
  <2>1. f[j] \in DOMAIN q /\ d[j] = q[f[j]]
    BY <1>2
  <2>2. CASE f[i] = 0
    <3>1. KeyAfter(q, d[i].key)
      BY <1>1, <1>2, <2>2
    <3> QED BY <2>1, <3>1 DEF KeyAfter
  <2>3. CASE f[i] # 0
    <3>1. f[i] \in DOMAIN q /\ d[i] = q[f[i]] /\ f[i] < f[j]
      BY <1>1, <1>2, <2>1, <2>3
    <3> QED BY <2>1, <3>1, Zenon DEF Wires, Sorted
  <2> QED BY <2>2, <2>3
<1>8. KeyAfter(d, e)
  BY <1>3 DEF Wires
<1>9. NotNewer(d, k)
  BY <1>2 DEF Wires, NotNewer
<1>10. JoinOlder(p, d, k) /\ JoinOlder(d, d, k)
  BY <1>3, <1>4 DEF Wires, JoinOlder
<1> QED BY <1>1, <1>5, <1>6, <1>7, <1>8, <1>9, <1>10 DEF Wires

-----------------------------------------------------------------------------
(* The WHOIS commands that hold a reference.                               *)

(* The elements of a longer and of a shorter sequence. *)
LEMMA Ranges ==
  ASSUME NEW S, NEW q \in Seq(S)
  PROVE  /\ \A x \in S : Range(Append(q, x)) = Range(q) \union {x}
         /\ q # <<>> => Range(q) = Range(Tail(q)) \union {Head(q)}
<1>1. ASSUME NEW x \in S
      PROVE  Range(Append(q, x)) = Range(q) \union {x}
  <2>1. ASSUME NEW y \in Range(Append(q, x)) PROVE y \in Range(q) \union {x}
    BY <2>1, <1>1, AppendItems DEF Range
  <2>2. ASSUME NEW y \in Range(q) PROVE y \in Range(Append(q, x))
    BY <2>2, <1>1, AppendItems DEF Range
  <2>3. x \in Range(Append(q, x))
    BY <1>1, AppendItems DEF Range
  <2> QED BY <2>1, <2>2, <2>3
<1>2. ASSUME q # <<>>
      PROVE  Range(q) = Range(Tail(q)) \union {Head(q)}
  <2>1. ASSUME NEW y \in Range(Tail(q)) PROVE y \in Range(q)
    BY <2>1, <1>2, TailItems DEF Range
  <2>2. ASSUME NEW y \in Range(q) PROVE y \in Range(Tail(q)) \union {Head(q)}
    <3>1. PICK i \in DOMAIN q : y = q[i]
      BY <2>2 DEF Range
    <3>2. i = 1 \/ (i - 1 \in DOMAIN Tail(q) /\ q[i] = Tail(q)[i - 1])
      BY <1>2, TailItems
    <3>3. Head(q) = q[1]
      BY <1>2, TailItems
    <3> QED BY <3>1, <3>2, <3>3 DEF Range
  <2>3. Head(q) \in Range(q)
    BY <1>2, TailItems DEF Range
  <2> QED BY <2>1, <2>2, <2>3
<1> QED BY <1>1, <1>2

(* What holds no reference comes and goes. *)
LEMMA HeldSame ==
  ASSUME NEW p \in Seq(UpItems), NEW q \in Seq(DownItems)
  PROVE  /\ \A x \in UpItems : ~IsHeld(x) => Held(Append(p, x), q) = Held(p, q)
         /\ \A x \in DownItems : ~IsHeld(x) => Held(p, Append(q, x)) = Held(p, q)
         /\ p # <<>> /\ ~IsHeld(Head(p)) => Held(Tail(p), q) = Held(p, q)
         /\ q # <<>> /\ ~IsHeld(Head(q)) => Held(p, Tail(q)) = Held(p, q)
<1>1. /\ \A x \in UpItems : Range(Append(p, x)) = Range(p) \union {x}
      /\ p # <<>> => Range(p) = Range(Tail(p)) \union {Head(p)}
  BY Ranges
<1>2. /\ \A x \in DownItems : Range(Append(q, x)) = Range(q) \union {x}
      /\ q # <<>> => Range(q) = Range(Tail(q)) \union {Head(q)}
  BY Ranges
<1>3. \A x \in UpItems : ~IsHeld(x) => Held(Append(p, x), q) = Held(p, q)
  BY <1>1 DEF Held
<1>4. \A x \in DownItems : ~IsHeld(x) => Held(p, Append(q, x)) = Held(p, q)
  BY <1>2 DEF Held
<1>5. p # <<>> /\ ~IsHeld(Head(p)) => Held(Tail(p), q) = Held(p, q)
  BY <1>1 DEF Held
<1>6. q # <<>> /\ ~IsHeld(Head(q)) => Held(p, Tail(q)) = Held(p, q)
  BY <1>2 DEF Held
<1> QED BY <1>3, <1>4, <1>5, <1>6

(* The same WHOIS number is not found twice. *)
LEMMA HeldIds ==
  ASSUME NEW p, NEW q, NEW w, NEW k, NEW e, Wires(p, q, w, k, e)
  PROVE  /\ \A x \in Held(p, q) : x.id \in 1..w /\ IsWhois(x)
         /\ \A x, y \in Held(p, q) : x.id = y.id => x = y
<1>1. \A x \in Held(p, q) : x.id \in 1..w /\ IsWhois(x)
  BY DEF Wires, ForOK, Held, Range, IsHeld, IsWhois
<1>2. ASSUME NEW x \in Held(p, q), NEW y \in Held(p, q), x.id = y.id
      PROVE  x = y
  <2>1. IsWhois(x) /\ IsWhois(y)
    BY <1>1
  <2>2. (\E i \in DOMAIN p : p[i] = x) \/ (\E i \in DOMAIN q : q[i] = x)
    BY DEF Held, Range
  <2>3. (\E i \in DOMAIN p : p[i] = y) \/ (\E i \in DOMAIN q : q[i] = y)
    BY DEF Held, Range
  <2>4. ASSUME NEW i \in DOMAIN p, NEW j \in DOMAIN p, p[i] = x, p[j] = y PROVE x = y
    <3>1. i = j
      BY <1>2, <2>1, <2>4 DEF Wires, Once
    <3> QED BY <2>4, <3>1
  <2>5. ASSUME NEW i \in DOMAIN q, NEW j \in DOMAIN q, q[i] = x, q[j] = y PROVE x = y
    <3>1. i = j
      BY <1>2, <2>1, <2>5 DEF Wires, Once
    <3> QED BY <2>5, <3>1
  <2>6. ASSUME NEW i \in DOMAIN p, NEW j \in DOMAIN q, p[i] = x, q[j] = y PROVE FALSE
    BY <1>2, <2>1, <2>6 DEF Wires, Apart
  <2>7. ASSUME NEW i \in DOMAIN q, NEW j \in DOMAIN p, q[i] = x, p[j] = y PROVE FALSE
    BY <1>2, <2>1, <2>7 DEF Wires, Apart
  <2> QED BY <2>2, <2>3, <2>4, <2>5, <2>6, <2>7
<1> QED BY <1>1, <1>2

(* A handler is suspended. *)
LEMMA HeldMore ==
  ASSUME NEW p, NEW q, NEW w, NEW k, NEW e, Wires(p, q, w, k, e),
         IsFiniteSet(Held(p, q)), NEW x \in Whois, x.id = w + 1, IsHeld(x)
  PROVE  /\ Held(Append(p, x), q) = Held(p, q) \union {x}
         /\ IsFiniteSet(Held(Append(p, x), q))
         /\ Cardinality(Held(Append(p, x), q)) = Cardinality(Held(p, q)) + 1
<1>1. x \in UpItems /\ p \in Seq(UpItems) /\ w \in Nat
  BY DEF UpItems, Wires
<1>2. Held(Append(p, x), q) = Held(p, q) \union {x}
  <2>1. Range(Append(p, x)) = Range(p) \union {x}
    BY <1>1, Ranges
  <2> QED BY <2>1 DEF Held
<1>3. x \notin Held(p, q)
  <2>1. x \in Held(p, q) => w + 1 \in 1..w
    BY HeldIds
  <2> QED BY <1>1, <2>1
<1> QED BY <1>2, <1>3, FS_AddElement

(* The reply to a WHOIS holds what the command held. *)
LEMMA HeldMoved ==
  ASSUME NEW p, NEW q, NEW w, NEW k, NEW e, Wires(p, q, w, k, e),
         IsFiniteSet(Held(p, q)), p # <<>>, NEW x \in Whois, IsHeld(x), IsHeld(Head(p)),
         x.id = Head(p).id
  PROVE  /\ IsFiniteSet(Held(Tail(p), Append(q, x)))
         /\ Cardinality(Held(Tail(p), Append(q, x))) = Cardinality(Held(p, q))
         /\ \A y \in Held(p, q) : \E z \in Held(Tail(p), Append(q, x)) : z.id = y.id
<1> DEFINE h == Head(p)
<1> DEFINE S == Held(p, q)
<1> DEFINE T == S \ {h}
<1>0. p \in Seq(UpItems) /\ q \in Seq(DownItems) /\ x \in DownItems
  BY DEF Wires, DownItems
<1>1. Range(Append(q, x)) = Range(q) \union {x} /\ Range(p) = Range(Tail(p)) \union {h}
  BY <1>0, Ranges
<1>2. h \in S
  BY <1>1 DEF Held
<1>3. h \notin Range(Tail(p)) /\ h \notin Range(q)
  <2>1. h = p[1] /\ 1 \in DOMAIN p /\ IsWhois(h)
    BY <1>0, TailItems DEF IsHeld, IsWhois
  <2>2. h \notin Range(q)
    BY <2>1, Zenon DEF Range, Wires, Apart
  <2>3. ASSUME NEW i \in DOMAIN Tail(p) PROVE Tail(p)[i] # h
    <3>1. i + 1 \in DOMAIN p /\ Tail(p)[i] = p[i + 1]
      BY <1>0, <2>3, TailItems
    <3>2. i + 1 # 1
      BY <1>0, <2>3
    <3> QED BY <2>1, <3>1, <3>2, Zenon DEF Wires, Once
  <2>4. h \notin Range(Tail(p))
    BY <2>3 DEF Range
  <2> QED BY <2>2, <2>4
<1>4. Held(Tail(p), Append(q, x)) = T \union {x}
  BY <1>1, <1>3 DEF Held
<1>5. x \notin T
  BY <1>2, HeldIds
<1> HIDE DEF S
<1>6. IsFiniteSet(T) /\ Cardinality(T) = Cardinality(S) - 1 /\ Cardinality(S) \in Nat
  BY <1>2, FS_RemoveElement, FS_CardinalityType DEF S
<1>7. IsFiniteSet(T \union {x}) /\ Cardinality(T \union {x}) = Cardinality(T) + 1
  BY <1>5, <1>6, FS_AddElement
<1>8. Cardinality(T \union {x}) = Cardinality(S)
  BY <1>6, <1>7
<1>9. \A y \in S : \E z \in T \union {x} : z.id = y.id
  OBVIOUS
<1> QED BY <1>4, <1>7, <1>8, <1>9 DEF S

(* A suspended handler goes on: its WHOIS is no longer on its way. *)
LEMMA HeldGone ==
  ASSUME NEW p, NEW q, NEW w, NEW k, NEW e, Wires(p, q, w, k, e),
         IsFiniteSet(Held(p, q)), q # <<>>, IsHeld(Head(q)),
         NEW d, NEW f, Between(Tail(q), d, f, k)
  PROVE  /\ Held(p, d) = Held(p, q) \ {Head(q)} /\ Head(q) \in Held(p, q)
         /\ IsFiniteSet(Held(p, d))
         /\ Cardinality(Held(p, q)) = Cardinality(Held(p, d)) + 1
         /\ Cardinality(Held(p, d)) \in Nat
<1> DEFINE h == Head(q)
<1>0. p \in Seq(UpItems) /\ q \in Seq(DownItems)
  BY DEF Wires
<1>1. Range(q) = Range(Tail(q)) \union {h}
  BY <1>0, Ranges
<1>2. \A x \in Range(d) : IsHeld(x) => x \in Range(Tail(q))
  <2> SUFFICES ASSUME NEW i \in DOMAIN d, IsHeld(d[i])
               PROVE  d[i] \in Range(Tail(q))
    BY DEF Range
  <2>1. d[i] \notin Packets
    BY Items DEF IsHeld, IsWhois
  <2>2. f[i] \in DOMAIN Tail(q) /\ d[i] = Tail(q)[f[i]]
    BY <2>1 DEF Between
  <2> QED BY <2>2 DEF Range
<1>3. \A x \in Range(Tail(q)) : x \in Range(d)
  BY DEF Between, Range
<1>4. h \notin Range(Tail(q)) /\ h \notin Range(p)
  <2>1. h = q[1] /\ 1 \in DOMAIN q /\ IsWhois(h)
    BY <1>0, TailItems DEF IsHeld, IsWhois
  <2>2. h \notin Range(p)
    BY <2>1, Zenon DEF Range, Wires, Apart
  <2>3. ASSUME NEW i \in DOMAIN Tail(q) PROVE Tail(q)[i] # h
    <3>1. i + 1 \in DOMAIN q /\ Tail(q)[i] = q[i + 1]
      BY <1>0, <2>3, TailItems
    <3>2. i + 1 # 1
      BY <1>0, <2>3
    <3> QED BY <2>1, <3>1, <3>2, Zenon DEF Wires, Once
  <2>4. h \notin Range(Tail(q))
    BY <2>3 DEF Range
  <2> QED BY <2>2, <2>4
<1>5. Held(p, d) = Held(p, q) \ {h} /\ h \in Held(p, q)
  BY <1>1, <1>2, <1>3, <1>4 DEF Held
<1>6. /\ IsFiniteSet(Held(p, d)) /\ Cardinality(Held(p, d)) = Cardinality(Held(p, q)) - 1
      /\ Cardinality(Held(p, q)) \in Nat /\ Cardinality(Held(p, d)) \in Nat
  <2>1. Cardinality(Held(p, q)) \in Nat /\ IsFiniteSet(Held(p, q) \ {h})
    BY FS_CardinalityType, FS_RemoveElement
  <2>2. Cardinality(Held(p, q) \ {h}) = Cardinality(Held(p, q)) - 1
    BY <1>5, FS_RemoveElement
  <2>3. Cardinality(Held(p, q) \ {h}) \in Nat
    BY <2>1, FS_CardinalityType
  <2> QED BY <1>5, <2>1, <2>2, <2>3
<1> QED BY <1>5, <1>6

(* A message goes on: it held nothing. *)
LEMMA HeldBetween ==
  ASSUME NEW p \in Seq(UpItems), NEW q \in Seq(DownItems), q # <<>>, ~IsHeld(Head(q)),
         NEW d, NEW f, NEW k, Between(Tail(q), d, f, k)
  PROVE  Held(p, d) = Held(p, q)
<1>1. Range(q) = Range(Tail(q)) \union {Head(q)}
  BY Ranges
<1>2. \A x \in Range(d) : IsHeld(x) => x \in Range(Tail(q))
  <2> SUFFICES ASSUME NEW i \in DOMAIN d, IsHeld(d[i])
               PROVE  d[i] \in Range(Tail(q))
    BY DEF Range
  <2>1. d[i] \notin Packets
    BY Items DEF IsHeld, IsWhois
  <2>2. f[i] \in DOMAIN Tail(q) /\ d[i] = Tail(q)[f[i]]
    BY <2>1 DEF Between
  <2> QED BY <2>2 DEF Range
<1>3. \A x \in Range(Tail(q)) : x \in Range(d)
  BY DEF Between, Range
<1> QED BY <1>1, <1>2, <1>3 DEF Held

-----------------------------------------------------------------------------
(* What starts again, put between the packets.                             *)

(* What starts again after a WHOIS is its packet, with fewer users perhaps,  *)
(* or nothing, which never happens to the reply to JOIN. *)
Restarted(g, a, p) ==
  /\ g \in Packets /\ g.kind = p.kind /\ g.key = p.key
  /\ a = <<g>> \/ a = <<>>
  /\ p.kind = "join" => a = <<g>>

(* The packet of a WHOIS, once more. *)
LEMMA AgainItems ==
  ASSUME NEW p \in Packets
  PROVE  /\ Again(p) \in Packets /\ Again(p).kind = p.kind /\ Again(p).key = p.key
         /\ \A us \in SUBSET User :
              LET g == [Again(p) EXCEPT !.users = us] IN
              g \in Packets /\ g.kind = p.kind /\ g.key = p.key
BY DEF Again, Packets

(* Whatever starts again after a WHOIS is its packet. *)
LEMMA ResolvedItems ==
  ASSUME NEW r \in Whois, NEW a \in Resolved(r)
  PROVE  \E g : Restarted(g, a, r.for)
<1> DEFINE p == r.for
<1>1. p \in Packets
  BY DEF Whois
<1>2. p.users \in SUBSET User /\ p.users \ {"peer"} \in SUBSET User
  BY <1>1 DEF Packets
<1> HIDE DEF p
<1> DEFINE h(us) == [Again(p) EXCEPT !.users = us]
<1>3. Restarted(Again(p), <<Again(p)>>, p)
  BY <1>1, AgainItems, Zenon DEF Restarted
<1>4. \A us \in SUBSET User : Restarted(h(us), <<h(us)>>, p)
  BY <1>1, AgainItems, Zenon DEF Restarted
<1>5. p.kind # "join" => Restarted(p, <<>>, p) /\ Restarted(p, <<p>>, p)
  BY <1>1, Zenon DEF Restarted
<1>6. \/ a = <<Again(p)>>
      \/ \E us \in {p.users, p.users \ {"peer"}} : a = <<h(us)>>
      \/ p.kind # "join" /\ (a = <<>> \/ a = <<p>>)
  <2>1. CASE r.ok
    BY <2>1, Zenon DEF Resolved, p
  <2>2. CASE ~r.ok
    <3>1. a \in Unresolved(r)
      BY <2>2, Zenon DEF Resolved
    <3>2. CASE p.kind = "join"
      <4>1. Unresolved(r) = {<<h(us)>> : us \in {p.users, p.users \ {"peer"}}}
        BY <3>2, Zenon DEF Unresolved, p
      <4> HIDE DEF h
      <4> QED BY <3>1, <4>1, Zenon
    <3>3. CASE p.kind # "join"
      <4>1. Unresolved(r) = {<<>>, <<p>>} \/ Unresolved(r) = {<<>>}
        BY <3>3 DEF Unresolved, p
      <4> QED BY <3>1, <3>3, <4>1, Zenon
    <3> QED BY <3>2, <3>3
  <2> QED BY <2>1, <2>2
<1> HIDE DEF h
<1> QED BY <1>2, <1>3, <1>4, <1>5, <1>6, Zenon DEF p

(* The length of two sequences together. *)
LEMMA Concat ==
  ASSUME NEW S, NEW s \in Seq(S), NEW t \in Seq(S)
  PROVE  s \o t \in Seq(S) /\ Len(s \o t) = Len(s) + Len(t) /\ DOMAIN (s \o t) = 1..Len(s \o t)
OBVIOUS

(* In front of all: a suspended handler and the notifies behind it. *)
LEMMA BetweenFront ==
  ASSUME NEW q \in Seq(DownItems), NEW k, NEW a \in Seq(Packets), NEW b \in Seq(Packets),
         \A i \in DOMAIN a : /\ a[i].kind # "key"
                             /\ a[i].kind = "join" => KeyAfter(q, a[i].key) /\ a[i].key <= k,
         \A i \in DOMAIN b : b[i].kind \notin {"join", "key"}
  PROVE  \E f : Between(q, a \o b \o q, f, k)
<1> DEFINE d == a \o b \o q
<1> DEFINE m == Len(a) + Len(b)
<1> DEFINE f == [i \in 1..Len(d) |-> IF i <= m THEN 0 ELSE i - m]
<1>0. a \in Seq(DownItems) /\ b \in Seq(DownItems) /\ a \o b \in Seq(Packets)
  BY DEF DownItems
<1>1. d \in Seq(DownItems) /\ Len(d) = m + Len(q) /\ m \in Nat /\ Len(q) \in Nat
  BY <1>0
<1>2. \A i \in 1..Len(d) : i <= Len(a) => i \in DOMAIN a /\ d[i] = a[i]
  BY <1>0
<1>3. \A i \in 1..Len(d) : i > Len(a) /\ i <= m => i - Len(a) \in DOMAIN b /\ d[i] = b[i - Len(a)]
  BY <1>0
<1>4. \A i \in 1..Len(d) : i > m => i - m \in DOMAIN q /\ d[i] = q[i - m]
  BY <1>0
<1>5. \A j \in DOMAIN q : j + m \in 1..Len(d) /\ d[j + m] = q[j]
  BY <1>0
<1>6. DOMAIN d = 1..Len(d)
  BY <1>1
<1>7. \A i \in DOMAIN a : a[i] \in Packets
  OBVIOUS
<1>8. \A i \in DOMAIN b : b[i] \in Packets
  OBVIOUS
<1>9. Len(a) \in Nat /\ Len(b) \in Nat /\ m = Len(a) + Len(b)
  OBVIOUS
<1> HIDE DEF d, m
<1>10. \A i \in DOMAIN d : f[i] = IF i <= m THEN 0 ELSE i - m
  BY <1>6
<1> HIDE DEF f
<1>11. ASSUME NEW i \in DOMAIN d
       PROVE  \/ f[i] \in DOMAIN q /\ d[i] = q[f[i]]
              \/ /\ f[i] = 0 /\ d[i] \in Packets /\ d[i].kind # "key"
                 /\ d[i].kind = "join" => KeyAfter(q, d[i].key) /\ d[i].key <= k
  <2>0. i \in 1..Len(d) /\ i \in Nat
    BY <1>1, <1>6
  <2>1. CASE i <= Len(a)
    <3>1. f[i] = 0
      BY <1>9, <1>10, <2>0, <2>1
    <3>2. i \in DOMAIN a /\ d[i] = a[i]
      BY <1>2, <2>0, <2>1
    <3> QED BY <1>7, <3>1, <3>2
  <2>2. CASE i > Len(a) /\ i <= m
    <3>1. f[i] = 0
      BY <1>10, <2>2
    <3>2. i - Len(a) \in DOMAIN b /\ d[i] = b[i - Len(a)]
      BY <1>3, <2>0, <2>2
    <3> QED BY <1>8, <3>1, <3>2
  <2>3. CASE i > m
    <3>1. f[i] = i - m
      BY <1>1, <1>10, <2>0, <2>3
    <3> QED BY <1>4, <2>0, <2>3, <3>1
  <2> QED BY <1>1, <1>9, <2>0, <2>1, <2>2, <2>3
<1>12. \A i, j \in DOMAIN d : i < j /\ f[i] # 0 /\ f[j] # 0 => f[i] < f[j]
  BY <1>1, <1>6, <1>10
<1>13. \A j \in DOMAIN q : \E i \in DOMAIN d : d[i] = q[j]
  BY <1>5, <1>6
<1>14. Between(q, d, f, k)
  BY <1>1, <1>11, <1>12, <1>13 DEF Between
<1> QED BY <1>14 DEF d

(* Somewhere: a message, which is a task of its own. *)
LEMMA BetweenSomewhere ==
  ASSUME NEW q \in Seq(DownItems), NEW k, NEW a \in Seq(Packets), NEW n \in 0..Len(q),
         \A i \in DOMAIN a : a[i].kind \notin {"join", "key"}
  PROVE  \E f : Between(q, SubSeq(q, 1, n) \o a \o SubSeq(q, n + 1, Len(q)), f, k)
<1> DEFINE b == SubSeq(q, 1, n)
<1> DEFINE c == SubSeq(q, n + 1, Len(q))
<1> DEFINE d == b \o a \o c
<1> DEFINE m == Len(a)
<1> DEFINE f == [i \in 1..Len(d) |-> IF i <= n THEN i ELSE IF i <= n + m THEN 0 ELSE i - m]
<1>0. /\ a \in Seq(DownItems) /\ b \in Seq(DownItems) /\ c \in Seq(DownItems)
      /\ Len(b) = n /\ Len(c) = Len(q) - n
      /\ n \in Nat /\ m \in Nat /\ n <= Len(q) /\ Len(q) \in Nat
      /\ \A i \in 1..n : b[i] = q[i]
      /\ \A i \in 1..(Len(q) - n) : c[i] = q[n + i]
  <2>1. a \in Seq(DownItems)
    BY DEF DownItems
  <2>2. b \in Seq(DownItems) /\ Len(b) = n
    OBVIOUS
  <2>3. c \in Seq(DownItems) /\ Len(c) = Len(q) - n
    OBVIOUS
  <2>4. \A i \in 1..n : b[i] = q[i]
    OBVIOUS
  <2>5. \A i \in 1..(Len(q) - n) : c[i] = q[n + i]
    OBVIOUS
  <2> QED BY <2>1, <2>2, <2>3, <2>4, <2>5
<1> HIDE DEF b, c
<1>s. b \o a \in Seq(DownItems) /\ Len(b \o a) = n + m
  <2>1. a \in Seq(DownItems) /\ b \in Seq(DownItems) /\ Len(b) = n
    BY <1>0
  <2> QED BY ONLY <2>1, Concat
<1>1. d \in Seq(DownItems) /\ Len(d) = m + Len(q) /\ DOMAIN d = 1..Len(d)
  <2>1. d \in Seq(DownItems) /\ Len(d) = Len(b \o a) + Len(c) /\ DOMAIN d = 1..Len(d)
    <3>1. b \o a \in Seq(DownItems) /\ c \in Seq(DownItems)
      BY <1>0, <1>s
    <3> QED BY ONLY <3>1, Concat
  <2> QED BY <1>0, <1>s, <2>1
<1>2. \A i \in 1..Len(d) : i <= n => i \in DOMAIN q /\ d[i] = q[i]
  BY <1>0
<1>3. \A i \in 1..Len(d) : i > n /\ i <= n + m => i - n \in DOMAIN a /\ d[i] = a[i - n]
  BY <1>0
<1>4. \A i \in 1..Len(d) : i > n + m => i - m \in DOMAIN q /\ d[i] = q[i - m]
  <2> SUFFICES ASSUME NEW i \in 1..Len(d), i > n + m
               PROVE  i - m \in DOMAIN q /\ d[i] = q[i - m]
    OBVIOUS
  <2>1. i - (n + m) \in 1..(Len(q) - n) /\ i - m = n + (i - (n + m)) /\ i - m \in 1..Len(q)
    BY <1>0, <1>1
  <2>2. d[i] = c[i - (n + m)]
    <3> DEFINE g == b \o a
    <3>1. g \in Seq(DownItems) /\ c \in Seq(DownItems) /\ Len(g) = n + m
      BY <1>0, <1>s
    <3>2. i \in 1..Len(g) + Len(c) /\ i > Len(g)
      BY <1>0, <1>1, <3>1
    <3> HIDE DEF g
    <3>3. (g \o c)[i] = c[i - Len(g)]
      BY ONLY <3>1, <3>2, ConcatProperties
    <3> QED BY <3>1, <3>3 DEF g
  <2>3. c[i - (n + m)] = q[n + (i - (n + m))]
    BY <1>0, <2>1
  <2>4. DOMAIN q = 1..Len(q)
    OBVIOUS
  <2> QED BY <2>1, <2>2, <2>3, <2>4
<1> HIDE DEF d, m
<1>5. \A j \in DOMAIN q : \E i \in 1..Len(d) : d[i] = q[j]
  <2>0. DOMAIN q = 1..Len(q)
    OBVIOUS
  <2> SUFFICES ASSUME NEW j \in 1..Len(q)
               PROVE  \E i \in 1..Len(d) : d[i] = q[j]
    BY <2>0
  <2>1. CASE j <= n
    BY <1>0, <1>1, <1>2, <2>1
  <2>2. CASE j > n
    <3>1. j + m \in 1..Len(d) /\ j + m > n + m /\ (j + m) - m = j
      BY <1>0, <1>1, <2>2
    <3> QED BY <1>4, <3>1
  <2> QED BY <1>0, <2>1, <2>2
<1>6. \A i \in DOMAIN a : a[i] \in Packets
  OBVIOUS
<1>10. \A i \in DOMAIN d : f[i] = IF i <= n THEN i ELSE IF i <= n + m THEN 0 ELSE i - m
  BY <1>1
<1> HIDE DEF f
<1>11. ASSUME NEW i \in DOMAIN d
       PROVE  \/ f[i] \in DOMAIN q /\ d[i] = q[f[i]]
              \/ /\ f[i] = 0 /\ d[i] \in Packets /\ d[i].kind # "key"
                 /\ d[i].kind = "join" => KeyAfter(q, d[i].key) /\ d[i].key <= k
  <2>0. i \in 1..Len(d) /\ i \in Nat
    BY <1>1
  <2>1. CASE i <= n
    BY <1>2, <1>10, <2>0, <2>1
  <2>2. CASE i > n /\ i <= n + m
    <3>1. f[i] = 0
      BY <1>0, <1>10, <2>0, <2>2
    <3>2. i - n \in DOMAIN a /\ d[i] = a[i - n]
      BY <1>3, <2>0, <2>2
    <3> QED BY <1>6, <3>1, <3>2
  <2>3. CASE i > n + m
    <3>1. f[i] = i - m
      BY <1>0, <1>10, <2>0, <2>3
    <3> QED BY <1>4, <2>0, <2>3, <3>1
  <2> QED BY <1>0, <2>0, <2>1, <2>2, <2>3
<1>12. \A i, j \in DOMAIN d : i < j /\ f[i] # 0 /\ f[j] # 0 => f[i] < f[j]
  BY <1>0, <1>1, <1>10
<1>13. Between(q, d, f, k)
  BY <1>1, <1>5, <1>11, <1>12 DEF Between
<1> QED BY <1>13 DEF d, b, c

-----------------------------------------------------------------------------
(* The parts of the invariant together.                                    *)

(* A command other than WHOIS is sent, and taken by the server. *)
LEMMA PartsCall ==
  ASSUME NEW c, NEW p, NEW q, NEW ws, NEW k, Parts(c, p, q, ws, k)
  PROVE  /\ \A x \in [kind : {"join", "leave"}] : Parts(c, Append(p, x), q, ws, k)
         /\ p # <<>> /\ ~IsHeld(Head(p)) => Parts(c, Tail(p), q, ws, k)
<1>1. p \in Seq(UpItems) /\ q \in Seq(DownItems)
  BY DEF Parts, Wires
<1>2. ASSUME NEW x \in [kind : {"join", "leave"}]
      PROVE  Parts(c, Append(p, x), q, ws, k)
  <2>1. x \in UpItems /\ ~IsHeld(x)
    BY <1>2 DEF UpItems, IsHeld
  <2>2. Held(Append(p, x), q) = Held(p, q)
    BY <1>1, <2>1, HeldSame
  <2>3. Wires(Append(p, x), q, Len(ws), k, c.key)
    BY <1>2, WiresCall DEF Parts
  <2> QED BY <2>2, <2>3 DEF Parts
<1>3. ASSUME p # <<>>, ~IsHeld(Head(p))
      PROVE  Parts(c, Tail(p), q, ws, k)
  <2>1. Held(Tail(p), q) = Held(p, q)
    BY <1>1, <1>3, HeldSame
  <2>2. Wires(Tail(p), q, Len(ws), k, c.key)
    BY <1>3, WiresServed DEF Parts
  <2> QED BY <2>1, <2>2 DEF Parts
<1> QED BY <1>2, <1>3

(* The server makes a key, and sends a packet. *)
LEMMA PartsSent ==
  ASSUME NEW c, NEW p, NEW q, NEW ws, NEW k, Parts(c, p, q, ws, k)
  PROVE  /\ \A m \in Nat : k <= m => Parts(c, p, q, ws, m)
         /\ \A x \in Packets : x.kind \in {"join", "key"} /\ x.key = k
                               => Parts(c, p, Append(q, x), ws, k)
         /\ \A x \in Packets : x.kind \notin {"join", "key"}
                               => Parts(c, p, Append(q, x), ws, k)
<1>1. p \in Seq(UpItems) /\ q \in Seq(DownItems)
  BY DEF Parts, Wires
<1>2. ASSUME NEW m \in Nat, k <= m PROVE Parts(c, p, q, ws, m)
  BY <1>2, WiresNewer DEF Parts
<1>3. ASSUME NEW x \in Packets
      PROVE  Held(p, Append(q, x)) = Held(p, q)
  <2>1. x \in DownItems /\ ~IsHeld(x)
    BY <1>3, Items DEF DownItems, IsHeld, IsWhois
  <2> QED BY <1>1, <2>1, HeldSame
<1>4. ASSUME NEW x \in Packets, x.kind \in {"join", "key"}, x.key = k
      PROVE  Parts(c, p, Append(q, x), ws, k)
  <2>1. Wires(p, Append(q, x), Len(ws), k, c.key)
    BY <1>4, WiresKey DEF Parts
  <2> QED BY <1>3, <2>1 DEF Parts
<1>5. ASSUME NEW x \in Packets, x.kind \notin {"join", "key"}
      PROVE  Parts(c, p, Append(q, x), ws, k)
  <2>1. Wires(p, Append(q, x), Len(ws), k, c.key)
    BY <1>5, WiresQuiet DEF Parts
  <2> QED BY <1>3, <2>1 DEF Parts
<1> QED BY <1>2, <1>4, <1>5

(* The client takes a packet. *)
LEMMA PartsTaken ==
  ASSUME NEW c, NEW p, NEW q, NEW ws, NEW k, Parts(c, p, q, ws, k), q # <<>>, ~IsWhois(Head(q))
  PROVE  /\ Parts(c, p, Tail(q), ws, k) /\ Head(q) \in Packets
         /\ Held(p, Tail(q)) = Held(p, q)
<1>1. p \in Seq(UpItems) /\ q \in Seq(DownItems)
  BY DEF Parts, Wires
<1>2. Head(q) \in Packets /\ ~IsHeld(Head(q))
  BY <1>1, Items DEF IsHeld, IsWhois
<1>3. Held(p, Tail(q)) = Held(p, q)
  BY <1>1, <1>2, HeldSame
<1>4. Wires(p, Tail(q), Len(ws), k, c.key)
  BY WiresTaken DEF Parts
<1> QED BY <1>2, <1>3, <1>4 DEF Parts

(* The entry changes and keeps its key and its WHOIS, or forgets them. *)
LEMMA PartsEntry ==
  ASSUME NEW c, NEW p, NEW q, NEW ws, NEW k, Parts(c, p, q, ws, k),
         NEW d, Good(d, Cardinality(Held(p, q))), Follows(c, d)
  PROVE  Parts(d, p, q, ws, k)
<1>1. Wires(p, q, Len(ws), k, d.key)
  BY WiresForget DEF Parts, Follows
<1>2. Awaited(Held(p, q), d, ws)
  BY DEF Parts, Follows, Awaited
<1> QED BY <1>1, <1>2 DEF Parts

(* A handler is suspended: the entry is d, with one more reference if it   *)
(* is not a message that waits.                                            *)
LEMMA PartsAsked ==
  ASSUME NEW c, NEW p, NEW q, NEW ws, NEW k, Parts(c, p, q, ws, k),
         NEW x \in Whois, x.id = Len(ws) + 1, x.for.kind # "key",
         x.for.kind = "join" => KeyAfter(q, x.for.key) /\ x.for.key <= k,
         NEW d, Good(d, Cardinality(Held(p, q)) + (IF IsHeld(x) THEN 1 ELSE 0)),
         d.key = c.key, d.resolving = IF IsHeld(x) THEN x.id ELSE c.resolving
  PROVE  Parts(d, Append(p, x), q, Append(ws, <<>>), k)
<1> DEFINE vs == Append(ws, <<>>)
<1>1. ws \in Seq(Seq(Packets)) /\ p \in Seq(UpItems) /\ q \in Seq(DownItems)
  BY DEF Parts, WaitOK, Wires
<1>2. <<>> \in Seq(Packets)
  OBVIOUS
<1>3. /\ vs \in Seq(Seq(Packets)) /\ Len(vs) = Len(ws) + 1
      /\ \A i \in DOMAIN vs : (i \in DOMAIN ws /\ vs[i] = ws[i]) \/ vs[i] = <<>>
  BY <1>1, <1>2, AppendItems
<1> HIDE DEF vs
<1>4. WaitOK(vs)
  BY <1>3 DEF Parts, WaitOK
<1>5. Wires(Append(p, x), q, Len(vs), k, d.key)
  BY <1>3, WiresAsked DEF Parts
<1>6. CASE IsHeld(x)
  <2>1. /\ Held(Append(p, x), q) = Held(p, q) \union {x}
        /\ IsFiniteSet(Held(Append(p, x), q))
        /\ Cardinality(Held(Append(p, x), q)) = Cardinality(Held(p, q)) + 1
    BY <1>6, HeldMore DEF Parts
  <2>2. Awaited(Held(Append(p, x), q), d, vs)
    BY <1>3, <1>6, <2>1 DEF Parts, Awaited
  <2> QED BY <1>4, <1>5, <1>6, <2>1, <2>2 DEF Parts, vs
<1>7. CASE ~IsHeld(x)
  <2>1. x \in UpItems
    BY DEF UpItems
  <2>2. Held(Append(p, x), q) = Held(p, q)
    BY <1>1, <1>7, <2>1, HeldSame
  <2>3. Awaited(Held(p, q), d, vs)
    BY <1>3, <1>7 DEF Parts, Awaited
  <2>4. Good(d, Cardinality(Held(p, q)))
    BY <1>7 DEF Parts, Good
  <2> QED BY <1>4, <1>5, <2>2, <2>3, <2>4 DEF Parts, vs
<1> QED BY <1>6, <1>7

(* The server answers a WHOIS. *)
LEMMA PartsAnswered ==
  ASSUME NEW c, NEW p, NEW q, NEW ws, NEW k, Parts(c, p, q, ws, k), p # <<>>,
         NEW x \in Whois, IsWhois(Head(p)), x.id = Head(p).id, x.for = Head(p).for
  PROVE  Parts(c, Tail(p), Append(q, x), ws, k)
<1>1. p \in Seq(UpItems) /\ q \in Seq(DownItems) /\ x \in DownItems /\ IsWhois(x)
  BY Items DEF Parts, Wires, DownItems
<1>2. Wires(Tail(p), Append(q, x), Len(ws), k, c.key)
  BY WiresAnswered DEF Parts
<1>3. CASE IsHeld(x)
  <2>1. IsHeld(Head(p))
    BY <1>3 DEF IsHeld, IsWhois
  <2>2. /\ IsFiniteSet(Held(Tail(p), Append(q, x)))
        /\ Cardinality(Held(Tail(p), Append(q, x))) = Cardinality(Held(p, q))
        /\ \A y \in Held(p, q) : \E z \in Held(Tail(p), Append(q, x)) : z.id = y.id
    BY <1>3, <2>1, HeldMoved DEF Parts
  <2>3. Awaited(Held(Tail(p), Append(q, x)), c, ws)
    BY <2>2 DEF Parts, Awaited
  <2> QED BY <1>2, <2>2, <2>3 DEF Parts
<1>4. CASE ~IsHeld(x)
  <2>1. ~IsHeld(Head(p))
    BY <1>1, <1>4 DEF IsHeld, IsWhois
  <2>2. Tail(p) \in Seq(UpItems)
    BY <1>1, TailItems
  <2>3. Held(Tail(p), q) = Held(p, q)
    BY <1>1, <2>1, HeldSame
  <2>4. Held(Tail(p), Append(q, x)) = Held(Tail(p), q)
    BY <1>1, <1>4, <2>2, HeldSame
  <2> QED BY <1>2, <2>3, <2>4 DEF Parts
<1> QED BY <1>3, <1>4

(* One element of a sequence is replaced. *)
LEMMA ExceptItems ==
  ASSUME NEW S, NEW s \in Seq(S), NEW x \in S, NEW n \in DOMAIN s
  PROVE  /\ [s EXCEPT ![n] = x] \in Seq(S) /\ Len([s EXCEPT ![n] = x]) = Len(s)
         /\ DOMAIN [s EXCEPT ![n] = x] = DOMAIN s
<1>1. n \in 1..Len(s)
  OBVIOUS
<1> QED BY <1>1, ExceptSeq

(* The notifies attached to a WHOIS go on. *)
LEMMA WaitTaken ==
  ASSUME NEW ws, WaitOK(ws), NEW n \in DOMAIN ws
  PROVE  LET vs == [ws EXCEPT ![n] = <<>>] IN
         /\ WaitOK(vs) /\ Len(vs) = Len(ws) /\ DOMAIN vs = DOMAIN ws
         /\ \A w \in DOMAIN ws : vs[w] = IF w = n THEN <<>> ELSE ws[w]
<1> DEFINE vs == [ws EXCEPT ![n] = <<>>]
<1>1. ws \in Seq(Seq(Packets)) /\ <<>> \in Seq(Packets)
  BY DEF WaitOK
<1>2. vs \in Seq(Seq(Packets)) /\ Len(vs) = Len(ws) /\ DOMAIN vs = DOMAIN ws
  BY <1>1
<1>3. \A w \in DOMAIN ws : vs[w] = IF w = n THEN <<>> ELSE ws[w]
  BY <1>1
<1> HIDE DEF vs
<1>4. ASSUME NEW w \in DOMAIN vs, NEW i \in DOMAIN vs[w]
      PROVE  vs[w][i].kind \in {"joined", "left", "kicked"}
  <2>1. w # n
    BY <1>2, <1>3, <1>4
  <2>2. vs[w] = ws[w] /\ w \in DOMAIN ws
    BY <1>2, <1>3, <1>4, <2>1
  <2> QED BY <1>4, <2>2 DEF WaitOK
<1>5. WaitOK(vs)
  BY <1>2, <1>4 DEF WaitOK
<1> QED BY <1>2, <1>3, <1>5 DEF vs

(* The reply to a WHOIS that holds the entry: the reference is given back, *)
(* and the handler and the notifies attached to the WHOIS start again.     *)
LEMMA PartsResolved ==
  ASSUME NEW c, NEW p, NEW q, NEW ws, NEW k, Parts(c, p, q, ws, k), q # <<>>,
         IsHeld(Head(q)), NEW a \in Seq(Packets),
         \A i \in DOMAIN a : a[i].kind = Head(q).for.kind /\ a[i].key = Head(q).for.key
  PROVE  LET d == Unref([c EXCEPT !.resolving = 0]) IN
         /\ Parts(d, p, a \o ws[Head(q).id] \o Tail(q),
                  [ws EXCEPT ![Head(q).id] = <<>>], k)
         /\ Follows(c, d)
<1> DEFINE r == Head(q)
<1> DEFINE d == Unref([c EXCEPT !.resolving = 0])
<1> DEFINE b == ws[r.id]
<1> DEFINE t == a \o b \o Tail(q)
<1> DEFINE vs == [ws EXCEPT ![r.id] = <<>>]
<1>1. q \in Seq(DownItems) /\ ws \in Seq(Seq(Packets)) /\ WaitOK(ws)
  BY DEF Parts, Wires, WaitOK
<1>2. r = q[1] /\ 1 \in DOMAIN q /\ IsWhois(r)
  BY <1>1, TailItems DEF IsHeld, IsWhois
<1>3. r.id \in 1..Len(ws) /\ r.for.kind # "key"
  BY <1>2, Zenon DEF Parts, Wires, ForOK
<1>4. r.id \in DOMAIN ws /\ b \in Seq(Packets)
  BY <1>1, <1>3
<1>5. /\ Wires(p, Tail(q), Len(ws), k, c.key) /\ Tail(q) \in Seq(DownItems)
  BY WiresTaken DEF Parts, Wires
<1>6. r.for.kind = "join" => KeyAfter(Tail(q), r.for.key) /\ r.for.key <= k
  <2>1. r.for.kind = "join" => KeyAfter(q, r.for.key) /\ r.for.key <= k
    BY <1>2, Zenon DEF Parts, Wires, JoinOlder
  <2>2. \A i \in DOMAIN Tail(q) : i + 1 \in DOMAIN q /\ Tail(q)[i] = q[i + 1]
    BY <1>1, TailItems
  <2> QED BY <2>1, <2>2 DEF KeyAfter
<1>7. \A i \in DOMAIN b : b[i].kind \notin {"join", "key"}
  BY <1>1, <1>4 DEF WaitOK
<1>8. \A i \in DOMAIN a : /\ a[i].kind # "key"
                          /\ a[i].kind = "join" => KeyAfter(Tail(q), a[i].key) /\ a[i].key <= k
  BY <1>3, <1>6
<1> HIDE DEF b
<1>9. PICK f : Between(Tail(q), t, f, k)
  BY <1>4, <1>5, <1>7, <1>8, BetweenFront
<1>10. /\ WaitOK(vs) /\ Len(vs) = Len(ws) /\ DOMAIN vs = DOMAIN ws
       /\ \A w \in DOMAIN ws : vs[w] = IF w = r.id THEN <<>> ELSE ws[w]
  BY <1>1, <1>4, WaitTaken
<1> HIDE DEF t, vs
<1>11. /\ Held(p, t) = Held(p, q) \ {r} /\ r \in Held(p, q)
       /\ IsFiniteSet(Held(p, t))
       /\ Cardinality(Held(p, q)) = Cardinality(Held(p, t)) + 1
       /\ Cardinality(Held(p, t)) \in Nat
  BY <1>9, HeldGone DEF Parts
<1>12. Wires(p, t, Len(ws), k, c.key)
  BY <1>5, <1>9, WiresBetween
<1> DEFINE n == Cardinality(Held(p, t))
<1>13. Good(d, n) /\ Follows(c, d) /\ d.resolving = 0
  <2>1. Good(c, n + 1) /\ n \in Nat
    BY <1>11 DEF Parts
  <2>2. c.refs > 0
    <3>1. Holders(c) \in Nat /\ c.refs \in Nat
      BY <2>1, HoldersNat DEF Good, Entries
    <3> QED BY <2>1, <3>1 DEF Good
  <2> DEFINE e == [c EXCEPT !.resolving = 0]
  <2>3. Good(e, n + 1) /\ e.resolving = 0 /\ e.key = c.key
    BY <2>1, <2>2, SetResolving
  <2> HIDE DEF e, n
  <2>4. Good(Unref(e), n) /\ Follows(e, Unref(e))
    BY <2>1, <2>3, UnrefGood
  <2> QED BY <2>3, <2>4 DEF Follows, e
<1> HIDE DEF d, n
<1>14. Wires(p, t, Len(vs), k, d.key)
  BY <1>10, <1>12, <1>13, WiresForget DEF Follows
<1>15. Awaited(Held(p, t), d, vs)
  <2>1. ASSUME NEW w \in DOMAIN vs, vs[w] # <<>>
        PROVE  \E x \in Held(p, t) : x.id = w
    <3>1. w \in DOMAIN ws /\ w # r.id /\ ws[w] # <<>>
      BY <1>10, <2>1
    <3>2. PICK x \in Held(p, q) : x.id = w
      BY <3>1 DEF Parts, Awaited
    <3> QED BY <1>11, <3>1, <3>2
  <2> QED BY <1>13, <2>1 DEF Awaited
<1>16. Parts(d, p, t, vs, k)
  BY <1>10, <1>11, <1>13, <1>14, <1>15 DEF Parts, n
<1> QED BY <1>13, <1>16 DEF d, t, vs, b

(* The reply to the WHOIS of a message. *)
LEMMA PartsMessage ==
  ASSUME NEW c, NEW p, NEW q, NEW ws, NEW k, Parts(c, p, q, ws, k), q # <<>>,
         IsWhois(Head(q)), Head(q).for.kind = "message", NEW a \in Seq(Packets),
         \A i \in DOMAIN a : a[i].kind = "message", NEW n \in 0..Len(Tail(q))
  PROVE  Parts(c, p, SubSeq(Tail(q), 1, n) \o a \o SubSeq(Tail(q), n + 1, Len(Tail(q))),
               [ws EXCEPT ![Head(q).id] = <<>>], k)
<1> DEFINE r == Head(q)
<1> DEFINE t == SubSeq(Tail(q), 1, n) \o a \o SubSeq(Tail(q), n + 1, Len(Tail(q)))
<1> DEFINE vs == [ws EXCEPT ![r.id] = <<>>]
<1>1. q \in Seq(DownItems) /\ p \in Seq(UpItems) /\ WaitOK(ws) /\ ws \in Seq(Seq(Packets))
  BY DEF Parts, Wires, WaitOK
<1>2. r = q[1] /\ 1 \in DOMAIN q /\ ~IsHeld(r)
  BY <1>1, TailItems DEF IsHeld
<1>3. r.id \in 1..Len(ws)
  BY <1>2, Zenon DEF Parts, Wires, ForOK
<1>4. r.id \in DOMAIN ws
  BY <1>1, <1>3
<1>5. Wires(p, Tail(q), Len(ws), k, c.key) /\ Tail(q) \in Seq(DownItems)
  BY WiresTaken DEF Parts, Wires
<1>6. \A i \in DOMAIN a : a[i].kind \notin {"join", "key"}
  OBVIOUS
<1>7. PICK f : Between(Tail(q), t, f, k)
  BY <1>5, <1>6, BetweenSomewhere
<1>8. /\ WaitOK(vs) /\ Len(vs) = Len(ws) /\ DOMAIN vs = DOMAIN ws
      /\ \A w \in DOMAIN ws : vs[w] = IF w = r.id THEN <<>> ELSE ws[w]
  BY <1>1, <1>4, WaitTaken
<1> HIDE DEF t, vs
<1>9. Held(p, t) = Held(p, q)
  BY <1>1, <1>2, <1>7, HeldBetween
<1>10. Wires(p, t, Len(vs), k, c.key)
  BY <1>5, <1>7, <1>8, WiresBetween
<1>11. Awaited(Held(p, t), c, vs)
  BY <1>8, <1>9 DEF Parts, Awaited
<1>12. Parts(c, p, t, vs, k)
  BY <1>8, <1>9, <1>10, <1>11 DEF Parts
<1> QED BY <1>12 DEF t, vs

(* A notify is attached to the WHOIS the entry is resolved with. *)
LEMMA PartsAttached ==
  ASSUME NEW c, NEW p, NEW q, NEW ws, NEW k, Parts(c, p, q, ws, k), c.resolving # 0,
         NEW x \in Packets, x.kind \in {"joined", "left", "kicked"}
  PROVE  /\ c.resolving \in DOMAIN ws
         /\ Parts(c, p, q, [ws EXCEPT ![c.resolving] = Append(ws[c.resolving], x)], k)
<1> DEFINE n == c.resolving
<1> DEFINE l == Append(ws[n], x)
<1> DEFINE vs == [ws EXCEPT ![n] = l]
<1>1. ws \in Seq(Seq(Packets)) /\ WaitOK(ws)
  BY DEF Parts, WaitOK
<1>2. PICK y \in Held(p, q) : y.id = n
  BY DEF Parts, Awaited
<1>3. n \in 1..Len(ws)
  BY <1>2, HeldIds DEF Parts
<1>4. n \in DOMAIN ws
  BY <1>1, <1>3
<1>5. ws[n] \in Seq(Packets)
  BY <1>1, <1>4
<1>6. /\ l \in Seq(Packets)
      /\ \A i \in DOMAIN l : (i \in DOMAIN ws[n] /\ l[i] = ws[n][i]) \/ l[i] = x
  BY <1>5, AppendItems
<1> HIDE DEF l
<1>7. vs \in Seq(Seq(Packets)) /\ Len(vs) = Len(ws) /\ DOMAIN vs = DOMAIN ws
  BY <1>1, <1>4, <1>6, ExceptItems
<1>8. \A w \in DOMAIN ws : vs[w] = IF w = n THEN l ELSE ws[w]
  BY <1>1
<1> HIDE DEF vs
<1>9. \A i \in DOMAIN l : l[i].kind \in {"joined", "left", "kicked"}
  BY <1>1, <1>4, <1>6 DEF WaitOK
<1>10. WaitOK(vs)
  BY <1>1, <1>7, <1>8, <1>9 DEF WaitOK
<1>11. Awaited(Held(p, q), c, vs)
  BY <1>2, <1>7, <1>8 DEF Parts, Awaited
<1>12. Parts(c, p, q, vs, k)
  BY <1>7, <1>10, <1>11 DEF Parts
<1> QED BY <1>4, <1>12 DEF vs, l

-----------------------------------------------------------------------------
(* The steps.                                                              *)

(* The initial states: nothing is held and nothing is on its way. *)
LEMMA ChannelInit == Init => ChannelInv
<1> SUFFICES ASSUME Init PROVE ChannelInv
  OBVIOUS
<1>1. server \in [key : Nat, since : Nat, users : SUBSET User] /\ server.key = 1
  BY DEF Init, User
<1>2. Held(<<>>, <<>>) = {}
  BY DEF Held, Range
<1>3. IsFiniteSet({}) /\ Cardinality({}) = 0
  BY FS_EmptySet
<1>4. Good(NoEntry, 0)
  BY NoEntryGood
<1>5. <<>> \in Seq(UpItems) /\ <<>> \in Seq(DownItems) /\ <<>> \in Seq(Seq(Packets))
  OBVIOUS
<1>6. WaitOK(<<>>) /\ Awaited({}, NoEntry, <<>>)
  BY <1>5 DEF WaitOK, Awaited, NoEntry
<1>7. Wires(<<>>, <<>>, 0, 1, 0)
  BY <1>5 DEF Wires, Once, Apart, ForOK, Sorted, KeyAfter, NotNewer, JoinOlder
<1>8. Parts(NoEntry, <<>>, <<>>, <<>>, 1)
  BY <1>2, <1>3, <1>4, <1>6, <1>7 DEF Parts, NoEntry, NoKey
<1> QED BY <1>1, <1>8 DEF ChannelInv, Init

(* JOIN and LEAVE are called. *)
LEMMA CallStep ==
  ASSUME ChannelInv, CallJoin \/ CallLeave
  PROVE  ChannelInv' /\ KeyStep
<1>1. PICK x \in [kind : {"join", "leave"}] : up' = Append(up, x)
  BY DEF CallJoin, CallLeave
<1>2. /\ entry' = entry /\ down' = down /\ waiting' = waiting /\ server' = server
      /\ acts' = acts /\ joining' \in BOOLEAN /\ leaving' \in BOOLEAN
  BY DEF CallJoin, CallLeave, ChannelInv
<1>3. Parts(entry, up', down, waiting, server.key)
  BY <1>1, PartsCall DEF ChannelInv
<1>4. entry.key \in Nat
  BY DEF ChannelInv, Parts, Wires
<1> QED BY <1>2, <1>3, <1>4 DEF ChannelInv, KeyStep

(* A timer of an old key. *)
LEMMA ExpireStep ==
  ASSUME ChannelInv, Expire
  PROVE  ChannelInv' /\ KeyStep
<1> DEFINE n == Cardinality(Held(up, down))
<1>1. Good(entry, n) /\ entry \in Entries
  BY DEF ChannelInv, Parts, Good
<1>2. entry # NoEntry
  BY DEF Expire, NoEntry
<1>3. entry.refs > 0
  BY <1>1, <1>2 DEF Good
<1> DEFINE a == Tail(entry.timers)
<1> DEFINE b == IF entry.old # <<>> /\ Head(entry.old) # NoKey
                THEN Tail(entry.old) ELSE entry.old
<1> DEFINE d == [entry EXCEPT !.timers = a, !.old = b]
<1>4. entry' = d
  BY DEF Expire, Expired
<1>5. a \in Seq(Nat) /\ b \in Seq(Nat)
  <2>1. entry.timers \in Seq(Nat) /\ entry.old \in Seq(Nat) /\ entry.timers # <<>>
    BY <1>1 DEF Entries, Expire
  <2> QED BY <2>1
<1> HIDE DEF a, b, n
<1>6. d \in Entries
  <2>1. [entry EXCEPT !.timers = a] \in Entries
    BY <1>1, <1>5 DEF Entries
  <2> QED BY <1>5, <2>1 DEF Entries
<1>7. d.cached <=> entry.cached
  BY <1>1 DEF Entries
<1>8. d.refs = entry.refs /\ d.users = entry.users
  BY <1>1 DEF Entries
<1>9. d.key = entry.key /\ d.resolving = entry.resolving
  BY <1>1 DEF Entries
<1> HIDE DEF d
<1>10. Good(d, n) /\ Follows(entry, d)
  BY <1>1, <1>3, <1>6, <1>7, <1>8, <1>9, SameHolders DEF Follows
<1>11. Parts(d, up, down, waiting, server.key)
  BY <1>10, PartsEntry DEF ChannelInv, n
<1>12. entry.key \in Nat
  BY <1>1 DEF Entries
<1> QED BY <1>4, <1>9, <1>11, <1>12 DEF ChannelInv, KeyStep, Expire

(* The server's packets. *)
LEMMA PacketItems ==
  ASSUME NEW kind \in {"join", "refused", "leave", "not_on_channel", "joined",
                       "left", "kicked", "key", "message"},
         NEW key \in Nat, NEW users \in SUBSET User
  PROVE  /\ Packet(kind, key, users) \in Packets /\ Packet(kind, key, users).kind = kind
         /\ Packet(kind, key, users).key = key
BY DEF Packet, Packets

(* A user joins or leaves: the server makes a key. *)
LEMMA NewKey ==
  ASSUME server \in [key : Nat, since : Nat, users : SUBSET User], NEW u \in User,
         Joined(u) \/ Left(u)
  PROVE  /\ server' \in [key : Nat, since : Nat, users : SUBSET User]
         /\ server'.key = server.key + 1 /\ server.key \in Nat /\ server'.key \in Nat
<1>1. CASE Joined(u)
  BY <1>1 DEF Joined
<1>2. CASE Left(u)
  <2>1. server.key + 1 \in Nat /\ server.users \ {u} \in SUBSET User
    OBVIOUS
  <2>2. [server EXCEPT !.key = server.key + 1] \in [key : Nat, since : Nat, users : SUBSET User]
    BY <2>1
  <2>3. server' \in [key : Nat, since : Nat, users : SUBSET User]
    BY <1>2, <2>1, <2>2 DEF Left
  <2>4. server'.key = server.key + 1
    BY <1>2 DEF Left
  <2> QED BY <2>3, <2>4
<1> QED BY <1>1, <1>2

(* The server answers JOIN. *)
LEMMA ServeJoinStep ==
  ASSUME ChannelInv, ServeJoin
  PROVE  ChannelInv' /\ KeyStep
<1>1. up # <<>> /\ ~IsHeld(Head(up)) /\ up' = Tail(up)
  BY DEF ServeJoin, IsHeld
<1>2. Parts(entry, up', down, waiting, server.key)
  BY <1>1, PartsCall DEF ChannelInv
<1>3. entry.key \in Nat /\ server \in [key : Nat, since : Nat, users : SUBSET User]
  BY DEF ChannelInv, Parts, Wires
<1>4. /\ entry' = entry /\ waiting' = waiting /\ acts' = acts
      /\ joining' = joining /\ leaving' = leaving
  BY DEF ServeJoin
<1>5. CASE Joined("self") /\ down' = Append(down, Packet("join", server'.key, server'.users))
  <2>1. /\ server' \in [key : Nat, since : Nat, users : SUBSET User]
        /\ server'.key = server.key + 1 /\ server.key \in Nat /\ server'.key \in Nat
    BY <1>3, <1>5, NewKey DEF User
  <2> DEFINE x == Packet("join", server'.key, server'.users)
  <2>2. x \in Packets /\ x.kind = "join" /\ x.key = server'.key
    <3>1. server'.users \in SUBSET User
      BY <2>1
    <3> QED BY <2>1, <3>1, PacketItems
  <2> HIDE DEF x
  <2>3. Parts(entry, up', down, waiting, server'.key)
    BY <1>2, <2>1, PartsSent
  <2>4. Parts(entry, up', Append(down, x), waiting, server'.key)
    BY <2>2, <2>3, PartsSent
  <2> QED BY <1>3, <1>4, <1>5, <2>1, <2>4 DEF ChannelInv, KeyStep, x
<1>6. CASE down' = Append(down, Packet("refused", NoKey, {})) /\ UNCHANGED server
  <2> DEFINE x == Packet("refused", NoKey, {})
  <2>1. x \in Packets /\ x.kind = "refused"
    BY PacketItems DEF NoKey
  <2> HIDE DEF x
  <2>2. Parts(entry, up', Append(down, x), waiting, server.key)
    BY <1>2, <2>1, PartsSent
  <2> QED BY <1>3, <1>4, <1>6, <2>2 DEF ChannelInv, KeyStep, x
<1> QED BY <1>5, <1>6 DEF ServeJoin

(* The server answers LEAVE. *)
LEMMA ServeLeaveStep ==
  ASSUME ChannelInv, ServeLeave
  PROVE  ChannelInv' /\ KeyStep
<1>1. up # <<>> /\ ~IsHeld(Head(up)) /\ up' = Tail(up)
  BY DEF ServeLeave, IsHeld
<1>2. Parts(entry, up', down, waiting, server.key)
  BY <1>1, PartsCall DEF ChannelInv
<1>3. entry.key \in Nat /\ server \in [key : Nat, since : Nat, users : SUBSET User]
  BY DEF ChannelInv, Parts, Wires
<1>4. /\ entry' = entry /\ waiting' = waiting /\ acts' = acts
      /\ joining' = joining /\ leaving' = leaving
  BY DEF ServeLeave
<1>5. CASE Left("self") /\ down' = Append(down, Packet("leave", NoKey, {}))
  <2>1. /\ server' \in [key : Nat, since : Nat, users : SUBSET User]
        /\ server'.key = server.key + 1 /\ server.key \in Nat /\ server'.key \in Nat
    BY <1>3, <1>5, NewKey DEF User
  <2> DEFINE x == Packet("leave", NoKey, {})
  <2>2. x \in Packets /\ x.kind = "leave"
    BY PacketItems DEF NoKey
  <2> HIDE DEF x
  <2>3. Parts(entry, up', down, waiting, server'.key)
    BY <1>2, <2>1, PartsSent
  <2>4. Parts(entry, up', Append(down, x), waiting, server'.key)
    BY <2>2, <2>3, PartsSent
  <2> QED BY <1>3, <1>4, <1>5, <2>1, <2>4 DEF ChannelInv, KeyStep, x
<1>6. CASE down' = Append(down, Packet("not_on_channel", NoKey, {})) /\ UNCHANGED server
  <2> DEFINE x == Packet("not_on_channel", NoKey, {})
  <2>1. x \in Packets /\ x.kind = "not_on_channel"
    BY PacketItems DEF NoKey
  <2> HIDE DEF x
  <2>2. Parts(entry, up', Append(down, x), waiting, server.key)
    BY <1>2, <2>1, PartsSent
  <2> QED BY <1>3, <1>4, <1>6, <2>2 DEF ChannelInv, KeyStep, x
<1> QED BY <1>5, <1>6 DEF ServeLeave

(* The server answers WHOIS. *)
LEMMA ServeWhoisStep ==
  ASSUME ChannelInv, ServeWhois
  PROVE  ChannelInv' /\ KeyStep
<1>1. up # <<>> /\ IsWhois(Head(up)) /\ up' = Tail(up) /\ up \in Seq(UpItems)
  BY DEF ServeWhois, IsWhois, ChannelInv, Parts, Wires
<1>2. PICK ok \in BOOLEAN : down' = Append(down, [Head(up) EXCEPT !.ok = ok])
  BY DEF ServeWhois
<1>3. Head(up) \in Whois
  <2>1. Head(up) \in UpItems
    BY <1>1, TailItems
  <2> QED BY <1>1, <2>1, Items
<1> DEFINE x == [Head(up) EXCEPT !.ok = ok]
<1>4. x \in Whois /\ x.id = Head(up).id /\ x.for = Head(up).for
  BY <1>3 DEF Whois
<1> HIDE DEF x
<1>5. Parts(entry, Tail(up), Append(down, x), waiting, server.key)
  BY <1>1, <1>4, PartsAnswered DEF ChannelInv
<1>6. entry.key \in Nat
  BY DEF ChannelInv, Parts, Wires
<1>7. /\ entry' = entry /\ waiting' = waiting /\ acts' = acts /\ server' = server
      /\ joining' = joining /\ leaving' = leaving
  BY DEF ServeWhois
<1> QED BY <1>1, <1>2, <1>5, <1>6, <1>7 DEF ChannelInv, KeyStep, x

(* The other user joins or leaves. *)
LEMMA PeerMovesStep ==
  ASSUME ChannelInv, PeerMoves
  PROVE  ChannelInv' /\ KeyStep
<1>1. entry.key \in Nat /\ server \in [key : Nat, since : Nat, users : SUBSET User]
      /\ down \in Seq(DownItems)
  BY DEF ChannelInv, Parts, Wires
<1>2. /\ entry' = entry /\ waiting' = waiting /\ acts' = acts /\ up' = up
      /\ joining' = joining /\ leaving' = leaving
  BY DEF PeerMoves
<1>3. Joined("peer") \/ Left("peer")
  BY DEF PeerMoves
<1>4. /\ server' \in [key : Nat, since : Nat, users : SUBSET User]
      /\ server'.key = server.key + 1 /\ server.key \in Nat /\ server'.key \in Nat
  BY <1>1, <1>3, NewKey DEF User
<1>5. Parts(entry, up, down, waiting, server'.key)
  BY <1>4, PartsSent DEF ChannelInv
<1>6. CASE down' = down
  BY <1>1, <1>2, <1>4, <1>5, <1>6 DEF ChannelInv, KeyStep
<1>7. CASE down' # down
  <2>1. PICK n \in {"left", "joined"} :
          down' = down \o <<Packet(n, NoKey, {"peer"}), Packet("key", server'.key, {})>>
    BY <1>7 DEF PeerMoves
  <2> DEFINE x == Packet(n, NoKey, {"peer"})
  <2> DEFINE y == Packet("key", server'.key, {})
  <2>2. x \in Packets /\ x.kind = n
    <3>1. {"peer"} \in SUBSET User /\ NoKey \in Nat
      BY DEF User, NoKey
    <3> QED BY <3>1, PacketItems
  <2>3. y \in Packets /\ y.kind = "key" /\ y.key = server'.key
    BY <1>4, PacketItems
  <2>4. down' = down \o <<x, y>>
    BY <2>1
  <2> HIDE DEF x, y
  <2>5. x \in DownItems /\ y \in DownItems
    BY <2>2, <2>3 DEF DownItems
  <2>6. down \o <<x, y>> = Append(Append(down, x), y)
    BY <1>1, <2>5
  <2>7. Parts(entry, up, Append(down, x), waiting, server'.key)
    BY <1>5, <2>2, PartsSent
  <2>8. Parts(entry, up, Append(Append(down, x), y), waiting, server'.key)
    BY <2>3, <2>7, PartsSent
  <2>9. down' = Append(Append(down, x), y)
    BY <2>4, <2>6, Zenon
  <2>10. Parts(entry', up', down', waiting', server'.key)
    BY <1>2, <2>8, <2>9, Zenon
  <2>11. KeyStep
    BY <1>1, <1>2 DEF KeyStep
  <2> QED BY <1>2, <1>4, <2>10, <2>11, Zenon DEF ChannelInv
<1> QED BY <1>6, <1>7

(* We are kicked. *)
LEMMA KickStep ==
  ASSUME ChannelInv, Kick
  PROVE  ChannelInv' /\ KeyStep
<1>1. entry.key \in Nat /\ server \in [key : Nat, since : Nat, users : SUBSET User]
  BY DEF ChannelInv, Parts, Wires
<1>2. /\ entry' = entry /\ waiting' = waiting /\ acts' = acts /\ up' = up
      /\ joining' = joining /\ leaving' = leaving
  BY DEF Kick
<1>3. /\ server' \in [key : Nat, since : Nat, users : SUBSET User]
      /\ server'.key = server.key + 1 /\ server.key \in Nat /\ server'.key \in Nat
  BY <1>1, NewKey DEF Kick, User
<1> DEFINE x == Packet("kicked", NoKey, {"self"})
<1>4. x \in Packets /\ x.kind = "kicked"
  <2>1. {"self"} \in SUBSET User /\ NoKey \in Nat
    BY DEF User, NoKey
  <2> QED BY <2>1, PacketItems
<1>5. down' = Append(down, x)
  BY DEF Kick
<1> HIDE DEF x
<1>6. Parts(entry, up, down, waiting, server'.key)
  BY <1>3, PartsSent DEF ChannelInv
<1>7. Parts(entry, up, Append(down, x), waiting, server'.key)
  BY <1>4, <1>6, PartsSent
<1> QED BY <1>1, <1>2, <1>3, <1>5, <1>7 DEF ChannelInv, KeyStep

(* The other user speaks. *)
LEMMA SayStep ==
  ASSUME ChannelInv, Say
  PROVE  ChannelInv' /\ KeyStep
<1>1. entry.key \in Nat /\ server \in [key : Nat, since : Nat, users : SUBSET User]
  BY DEF ChannelInv, Parts, Wires
<1>2. /\ entry' = entry /\ waiting' = waiting /\ acts' = acts /\ up' = up
      /\ joining' = joining /\ leaving' = leaving /\ server' = server
  BY DEF Say
<1>3. PICK k \in {server.key, server.key - 1} :
        k >= server.since /\ down' = Append(down, Packet("message", k, {"peer"}))
  BY DEF Say
<1>4. k \in Nat
  BY <1>1, <1>3
<1> DEFINE x == Packet("message", k, {"peer"})
<1>5. x \in Packets /\ x.kind = "message"
  <2>1. {"peer"} \in SUBSET User
    BY DEF User
  <2> QED BY <1>4, <2>1, PacketItems
<1> HIDE DEF x
<1>6. Parts(entry, up, Append(down, x), waiting, server.key)
  BY <1>5, PartsSent DEF ChannelInv
<1> QED BY <1>1, <1>2, <1>3, <1>6 DEF ChannelInv, KeyStep, x

(* What every handler of a packet begins with. *)
LEMMA TakenParts ==
  ASSUME ChannelInv, down # <<>>, ~IsWhois(Head(down)), Taken
  PROVE  /\ Head(down) \in Packets /\ down' = Tail(down)
         /\ Parts(entry, up, Tail(down), waiting, server.key)
         /\ Held(up, Tail(down)) = Held(up, down)
         /\ Good(entry, Cardinality(Held(up, down))) /\ Cardinality(Held(up, down)) \in Nat
         /\ entry \in Entries /\ entry.key \in Nat /\ entry.refs \in Nat
         /\ waiting \in Seq(Seq(Packets))
<1>1. Parts(entry, up, down, waiting, server.key)
  BY DEF ChannelInv
<1>2. /\ Parts(entry, up, Tail(down), waiting, server.key) /\ Head(down) \in Packets
      /\ Held(up, Tail(down)) = Held(up, down)
  BY <1>1, PartsTaken
<1>3. Good(entry, Cardinality(Held(up, down)))
  BY <1>1 DEF Parts
<1>4. entry \in Entries /\ Cardinality(Held(up, down)) \in Nat
  BY <1>3 DEF Good
<1>5. entry.key \in Nat /\ entry.refs \in Nat
  BY <1>4 DEF Entries
<1>6. waiting \in Seq(Seq(Packets))
  BY <1>1 DEF Parts, WaitOK
<1> QED BY <1>2, <1>3, <1>4, <1>5, <1>6 DEF Taken

(* The WHOIS of a suspended handler. *)
LEMMA SuspendItems ==
  ASSUME NEW p \in Packets, Suspend(p), waiting \in Seq(Seq(Packets))
  PROVE  /\ NewWhois = Len(waiting) + 1 /\ NewWhois \in Nat
         /\ waiting' = Append(waiting, <<>>)
         /\ \E x \in Whois : /\ up' = Append(up, x) /\ x.id = NewWhois /\ x.for = p
                             /\ IsHeld(x) <=> p.kind # "message"
<1>1. NewWhois = Len(waiting) + 1 /\ NewWhois \in Nat
  BY DEF NewWhois
<1> DEFINE x == [kind |-> "whois", id |-> NewWhois, for |-> p, ok |-> FALSE]
<1>2. x \in Whois /\ x.id = NewWhois /\ x.for = p /\ x.kind = "whois"
  BY <1>1 DEF Whois
<1>3. up' = Append(up, x)
  BY DEF Suspend
<1> HIDE DEF x
<1>4. IsHeld(x) <=> p.kind # "message"
  BY <1>2 DEF IsHeld
<1> QED BY <1>1, <1>2, <1>3, <1>4 DEF Suspend

(* The reply to JOIN. *)
LEMMA ReplyJoinStep ==
  ASSUME ChannelInv, ReplyJoin
  PROVE  ChannelInv' /\ KeyStep
<1> DEFINE h == Head(down)
<1> DEFINE n == Cardinality(Held(up, down))
<1> DEFINE g == GetOrAdd(entry)
<1>1. down # <<>> /\ ~IsWhois(h) /\ h.kind = "join" /\ Taken
  BY DEF ReplyJoin, Arrived, IsWhois
<1>2. /\ h \in Packets /\ down' = Tail(down)
      /\ Parts(entry, up, Tail(down), waiting, server.key)
      /\ Held(up, Tail(down)) = Held(up, down)
      /\ Good(entry, n) /\ n \in Nat
      /\ entry \in Entries /\ entry.key \in Nat /\ entry.refs \in Nat
      /\ waiting \in Seq(Seq(Packets))
  BY <1>1, TakenParts
<1>3. Good(g, n + 1) /\ g.refs > 0 /\ g.key = entry.key /\ g.resolving = entry.resolving
  BY <1>2, GetOrAddGood
<1>4. Wires(up, Tail(down), Len(waiting), server.key, h.key)
  BY <1>1, WiresTaken DEF ChannelInv, Parts
<1>5. /\ acts' = acts /\ server' = server /\ leaving' = leaving /\ joining' \in BOOLEAN
  BY DEF ReplyJoin, ChannelInv
<1> HIDE DEF n, g
<1>6. CASE entry' = JoinedChannel(g, h) /\ UNCHANGED <<up, waiting>>
  <2> DEFINE j == JoinedChannel(g, h)
  <2>1. /\ Good(j, n) /\ j.resolving \in {0, g.resolving}
        /\ g.key = NoKey => j.key \in {NoKey, h.key}
        /\ g.key # NoKey => j.key \in {NoKey, g.key}
    BY <1>2, <1>3, JoinedGood
  <2> HIDE DEF j, h
  <2>2. Wires(up, Tail(down), Len(waiting), server.key, entry.key)
    BY <1>2 DEF Parts
  <2>3. Wires(up, Tail(down), Len(waiting), server.key, NoKey)
    BY <2>2, WiresForget
  <2>4. j.key \in {NoKey, h.key, entry.key}
    BY <1>3, <2>1
  <2>5. Wires(up, Tail(down), Len(waiting), server.key, j.key)
    BY <1>4, <2>2, <2>3, <2>4
  <2>6. Awaited(Held(up, Tail(down)), j, waiting)
    BY <1>2, <1>3, <2>1 DEF Parts, Awaited
  <2>7. Good(j, Cardinality(Held(up, Tail(down))))
    BY <1>2, <2>1 DEF n
  <2>8. Parts(j, up, Tail(down), waiting, server.key)
    BY <1>2, <2>5, <2>6, <2>7 DEF Parts
  <2>9. entry' = j
    BY <1>6 DEF j
  <2>10. KeyStep
    BY <1>2, <1>3, <2>1, <2>9 DEF KeyStep
  <2>11. Parts(entry', up', down', waiting', server'.key)
    BY <1>2, <1>5, <1>6, <2>8, <2>9
  <2> QED BY <1>5, <2>10, <2>11 DEF ChannelInv
<1>7. CASE Suspend(h) /\ entry' = [g EXCEPT !.resolving = NewWhois]
  <2>1. NewWhois = Len(waiting) + 1 /\ NewWhois \in Nat /\ waiting' = Append(waiting, <<>>)
    BY <1>2, <1>7, SuspendItems
  <2>2. PICK x \in Whois : /\ up' = Append(up, x) /\ x.id = NewWhois /\ x.for = h
                           /\ IsHeld(x) <=> h.kind # "message"
    BY <1>2, <1>7, SuspendItems
  <2> DEFINE d == [g EXCEPT !.resolving = NewWhois]
  <2>3. Good(d, n + 1) /\ d.resolving = NewWhois /\ d.key = g.key
    BY <1>3, <2>1, SetResolving
  <2> HIDE DEF d
  <2>4. IsHeld(x) /\ x.for.kind # "key" /\ x.id = Len(waiting) + 1
    BY <1>1, <2>1, <2>2
  <2>5. KeyAfter(Tail(down), x.for.key) /\ x.for.key <= server.key
    BY <1>4, <2>2 DEF Wires
  <2>6. Good(d, Cardinality(Held(up, Tail(down))) + (IF IsHeld(x) THEN 1 ELSE 0))
    BY <1>2, <2>3, <2>4 DEF n
  <2>7. d.key = entry.key /\ d.resolving = IF IsHeld(x) THEN x.id ELSE entry.resolving
    BY <1>3, <2>2, <2>3, <2>4
  <2>8. Parts(d, Append(up, x), Tail(down), Append(waiting, <<>>), server.key)
    BY <1>2, <2>4, <2>5, <2>6, <2>7, PartsAsked
  <2>9. entry' = d
    BY <1>7 DEF d
  <2>10. KeyStep
    BY <1>2, <2>7, <2>9 DEF KeyStep
  <2>11. Parts(entry', up', down', waiting', server'.key)
    BY <1>2, <1>5, <2>1, <2>2, <2>8, <2>9
  <2> QED BY <1>5, <2>10, <2>11 DEF ChannelInv
<1>8. \/ entry' = JoinedChannel(g, h) /\ UNCHANGED <<up, waiting>>
      \/ Suspend(h) /\ entry' = [g EXCEPT !.resolving = NewWhois]
  BY DEF ReplyJoin, g
<1> QED BY <1>6, <1>7, <1>8

(* The replies with an error. *)
LEMMA ReplyErrorStep ==
  ASSUME ChannelInv, ReplyError
  PROVE  ChannelInv' /\ KeyStep
<1>1. down # <<>> /\ ~IsWhois(Head(down)) /\ Taken
  BY DEF ReplyError, Arrived, IsWhois
<1>2. Parts(entry, up, Tail(down), waiting, server.key) /\ down' = Tail(down) /\ entry.key \in Nat
  BY <1>1, TakenParts
<1>3. /\ entry' = entry /\ waiting' = waiting /\ up' = up /\ server' = server /\ acts' = acts
      /\ joining' \in BOOLEAN /\ leaving' \in BOOLEAN
  BY DEF ReplyError
<1>4. Parts(entry', up', down', waiting', server'.key)
  BY <1>2, <1>3
<1> QED BY <1>2, <1>3, <1>4 DEF ChannelInv, KeyStep

(* An entry that is kept, but for its users, or freed. *)
LEMMA EntryStep ==
  ASSUME ChannelInv, down # <<>>, ~IsWhois(Head(down)), Taken,
         Good(entry', Cardinality(Held(up, down))), Follows(entry, entry'),
         UNCHANGED <<acts, up, waiting, server>>, joining' \in BOOLEAN, leaving' \in BOOLEAN
  PROVE  ChannelInv' /\ KeyStep
<1>1. /\ Parts(entry, up, Tail(down), waiting, server.key) /\ down' = Tail(down)
      /\ Held(up, Tail(down)) = Held(up, down) /\ entry.key \in Nat
  BY TakenParts
<1>2. PICK d : d = entry'
  OBVIOUS
<1>3. Parts(d, up, Tail(down), waiting, server.key)
  BY <1>1, <1>2, PartsEntry
<1>4. Parts(entry', up', down', waiting', server'.key)
  BY <1>1, <1>2, <1>3
<1>5. KeyStep
  BY <1>1 DEF KeyStep, Follows
<1> QED BY <1>4, <1>5 DEF ChannelInv

(* The reply to LEAVE. *)
LEMMA ReplyLeaveStep ==
  ASSUME ChannelInv, ReplyLeave
  PROVE  ChannelInv' /\ KeyStep
<1> DEFINE n == Cardinality(Held(up, down))
<1>1. down # <<>> /\ ~IsWhois(Head(down)) /\ Taken
  BY DEF ReplyLeave, Arrived, IsWhois
<1>2. Good(entry, n) /\ n \in Nat
  BY <1>1, TakenParts
<1>3. Good(entry', n) /\ Follows(entry, entry')
  <2> HIDE DEF n
  <2>1. Good(LeftChannel(entry), n) /\ Follows(entry, LeftChannel(entry))
    BY <1>2, LeftGood
  <2>2. Follows(entry, entry)
    BY DEF Follows
  <2>3. entry' = LeftChannel(entry) \/ entry' = entry
    BY DEF ReplyLeave
  <2> QED BY <1>2, <2>1, <2>2, <2>3
<1>4. UNCHANGED <<acts, up, waiting, server>> /\ joining' \in BOOLEAN /\ leaving' \in BOOLEAN
  BY DEF ReplyLeave, ChannelInv
<1> QED BY <1>1, <1>3, <1>4, EntryStep

(* The notifies. *)
LEMMA NotifyStep ==
  ASSUME ChannelInv, NEW m \in {"joined", "left", "kicked"}, Notify(m)
  PROVE  ChannelInv' /\ KeyStep
<1> DEFINE h == Head(down)
<1> DEFINE n == Cardinality(Held(up, down))
<1>1. down # <<>> /\ ~IsWhois(h) /\ h.kind = m /\ Taken
  BY DEF Notify, Arrived, IsWhois
<1>2. /\ h \in Packets /\ down' = Tail(down)
      /\ Parts(entry, up, Tail(down), waiting, server.key)
      /\ Held(up, Tail(down)) = Held(up, down)
      /\ Good(entry, n) /\ n \in Nat
      /\ entry \in Entries /\ entry.key \in Nat /\ entry.refs \in Nat
      /\ waiting \in Seq(Seq(Packets))
  BY <1>1, TakenParts
<1>3. /\ acts' = acts /\ server' = server /\ leaving' = leaving /\ joining' = joining
      /\ leaving \in BOOLEAN /\ joining \in BOOLEAN
  BY DEF Notify, ChannelInv
<1> HIDE DEF n
<1>4. CASE UNCHANGED <<entry, waiting, up>>
  <2>1. Follows(entry, entry') /\ Good(entry', Cardinality(Held(up, down)))
    BY <1>2, <1>4 DEF Follows, n
  <2> QED BY <1>1, <1>3, <1>4, <2>1, EntryStep
<1>5. CASE /\ entry.resolving # 0
           /\ waiting' = [waiting EXCEPT ![entry.resolving] = Append(@, h)]
           /\ UNCHANGED <<entry, up>>
  <2> DEFINE vs == [waiting EXCEPT ![entry.resolving] = Append(waiting[entry.resolving], h)]
  <2>1. Parts(entry, up, Tail(down), vs, server.key)
    BY <1>1, <1>2, <1>5, PartsAttached
  <2>2. waiting' = vs
    BY <1>5
  <2> HIDE DEF vs
  <2>3. Parts(entry', up', down', waiting', server'.key)
    BY <1>2, <1>3, <1>5, <2>1, <2>2
  <2> QED BY <1>2, <1>3, <1>5, <2>3 DEF ChannelInv, KeyStep
<1>6. CASE Exists(entry) /\ Suspend(h) /\ entry' = [Ref(entry) EXCEPT !.resolving = NewWhois]
  <2>1. NewWhois = Len(waiting) + 1 /\ NewWhois \in Nat /\ waiting' = Append(waiting, <<>>)
    BY <1>2, <1>6, SuspendItems
  <2>2. PICK x \in Whois : /\ up' = Append(up, x) /\ x.id = NewWhois /\ x.for = h
                           /\ IsHeld(x) <=> h.kind # "message"
    BY <1>2, <1>6, SuspendItems
  <2> DEFINE g == Ref(entry)
  <2>3. Good(g, n + 1) /\ g.refs > 0 /\ g.key = entry.key
    BY <1>2, RefGood DEF Exists
  <2> HIDE DEF g
  <2> DEFINE d == [g EXCEPT !.resolving = NewWhois]
  <2>4. Good(d, n + 1) /\ d.resolving = NewWhois /\ d.key = g.key
    BY <2>1, <2>3, SetResolving
  <2>5. entry' = d
    BY <1>6 DEF g
  <2> HIDE DEF d
  <2>6. IsHeld(x) /\ x.for.kind \notin {"key", "join"} /\ x.id = Len(waiting) + 1
    BY <1>1, <2>1, <2>2
  <2>7. Good(d, Cardinality(Held(up, Tail(down))) + (IF IsHeld(x) THEN 1 ELSE 0))
    BY <1>2, <2>4, <2>6 DEF n
  <2>8. d.key = entry.key /\ d.resolving = IF IsHeld(x) THEN x.id ELSE entry.resolving
    BY <2>2, <2>3, <2>4, <2>6
  <2>9. Parts(d, Append(up, x), Tail(down), Append(waiting, <<>>), server.key)
    BY <1>2, <2>6, <2>7, <2>8, PartsAsked
  <2>10. KeyStep
    BY <1>2, <2>5, <2>8 DEF KeyStep
  <2>11. Parts(entry', up', down', waiting', server'.key)
    BY <1>2, <1>3, <2>1, <2>2, <2>5, <2>9
  <2> QED BY <1>3, <2>10, <2>11 DEF ChannelInv
<1>7. CASE entry' = Notified(entry, m) /\ UNCHANGED <<waiting, up>>
  <2>1. Good(entry', n) /\ Follows(entry, entry')
    BY <1>2, <1>7, NotifiedGood
  <2> QED BY <1>1, <1>3, <1>7, <2>1, EntryStep DEF n
<1>8. \/ UNCHANGED <<entry, waiting, up>>
      \/ /\ entry.resolving # 0
         /\ waiting' = [waiting EXCEPT ![entry.resolving] = Append(@, h)]
         /\ UNCHANGED <<entry, up>>
      \/ Exists(entry) /\ Suspend(h) /\ entry' = [Ref(entry) EXCEPT !.resolving = NewWhois]
      \/ entry' = Notified(entry, m) /\ UNCHANGED <<waiting, up>>
  BY DEF Notify
<1> QED BY <1>4, <1>5, <1>6, <1>7, <1>8

(* A key packet: it is not older than the key in use. *)
LEMMA ChannelKeyStep ==
  ASSUME ChannelInv, ChannelKey
  PROVE  ChannelInv' /\ KeyStep
<1> DEFINE h == Head(down)
<1> DEFINE n == Cardinality(Held(up, down))
<1>1. down # <<>> /\ ~IsWhois(h) /\ h.kind = "key" /\ Taken
  BY DEF ChannelKey, Arrived, IsWhois
<1>2. /\ h \in Packets /\ down' = Tail(down)
      /\ Parts(entry, up, Tail(down), waiting, server.key)
      /\ Held(up, Tail(down)) = Held(up, down)
      /\ Good(entry, n) /\ n \in Nat /\ entry.key \in Nat /\ entry.refs \in Nat
  BY <1>1, TakenParts
<1>3. /\ UNCHANGED <<acts, up, waiting, server>> /\ joining' \in BOOLEAN /\ leaving' \in BOOLEAN
      /\ entry' = IF Exists(entry) THEN SaveKey(entry, h.key) ELSE entry
  BY DEF ChannelKey, ChannelInv
<1>4. h.key \in Nat /\ entry.key <= h.key
  <2>1. h.key \in Nat
    BY <1>2, Items
  <2>2. down \in Seq(DownItems) /\ KeyAfter(down, entry.key)
    BY DEF ChannelInv, Parts, Wires
  <2>3. h = down[1] /\ 1 \in DOMAIN down
    BY <1>1, <2>2, TailItems
  <2> QED BY <1>1, <2>1, <2>2, <2>3 DEF KeyAfter
<1> HIDE DEF n
<1>5. CASE Exists(entry)
  <2> DEFINE d == SaveKey(entry, h.key)
  <2>1. Good(d, n) /\ d.key = h.key /\ d.resolving = entry.resolving
    BY <1>2, <1>4, <1>5, SaveKeyGood DEF Exists
  <2>2. Wires(up, Tail(down), Len(waiting), server.key, h.key)
    BY <1>1, WiresTaken DEF ChannelInv, Parts
  <2> HIDE DEF d
  <2>3. Parts(d, up, Tail(down), waiting, server.key)
    BY <1>2, <2>1, <2>2 DEF Parts, Awaited, n
  <2>4. entry' = d
    BY <1>3, <1>5 DEF d
  <2>5. Parts(entry', up', down', waiting', server'.key)
    BY <1>2, <1>3, <2>3, <2>4
  <2>6. KeyStep
    BY <1>2, <1>4, <2>1, <2>4 DEF KeyStep
  <2> QED BY <1>3, <2>5, <2>6 DEF ChannelInv
<1>6. CASE ~Exists(entry)
  <2>1. Follows(entry, entry') /\ Good(entry', Cardinality(Held(up, down)))
    BY <1>2, <1>3, <1>6 DEF Follows, n
  <2> QED BY <1>1, <1>3, <2>1, EntryStep
<1> QED BY <1>5, <1>6

(* A message: its handler waits for the sender, or is done. *)
LEMMA ChannelMessageStep ==
  ASSUME ChannelInv, ChannelMessage
  PROVE  ChannelInv' /\ KeyStep
<1> DEFINE h == Head(down)
<1> DEFINE n == Cardinality(Held(up, down))
<1>1. down # <<>> /\ ~IsWhois(h) /\ h.kind = "message" /\ Taken
  BY DEF ChannelMessage, Arrived, IsWhois
<1>2. /\ h \in Packets /\ down' = Tail(down)
      /\ Parts(entry, up, Tail(down), waiting, server.key)
      /\ Held(up, Tail(down)) = Held(up, down)
      /\ Good(entry, n) /\ n \in Nat /\ entry.key \in Nat
      /\ waiting \in Seq(Seq(Packets))
  BY <1>1, TakenParts
<1>3. UNCHANGED <<acts, server>> /\ joining' \in BOOLEAN /\ leaving' \in BOOLEAN
  BY DEF ChannelMessage, ChannelInv
<1> HIDE DEF n
<1>4. CASE Suspend(h) /\ UNCHANGED entry
  <2>1. NewWhois = Len(waiting) + 1 /\ NewWhois \in Nat /\ waiting' = Append(waiting, <<>>)
    BY <1>2, <1>4, SuspendItems
  <2>2. PICK x \in Whois : /\ up' = Append(up, x) /\ x.id = NewWhois /\ x.for = h
                           /\ IsHeld(x) <=> h.kind # "message"
    BY <1>2, <1>4, SuspendItems
  <2>3. ~IsHeld(x) /\ x.for.kind \notin {"key", "join"} /\ x.id = Len(waiting) + 1
    BY <1>1, <2>1, <2>2
  <2>4. Good(entry, Cardinality(Held(up, Tail(down))) + (IF IsHeld(x) THEN 1 ELSE 0))
    BY <1>2, <2>3 DEF n
  <2>5. Parts(entry, Append(up, x), Tail(down), Append(waiting, <<>>), server.key)
    BY <1>2, <2>3, <2>4, PartsAsked
  <2>6. Parts(entry', up', down', waiting', server'.key)
    BY <1>2, <1>3, <1>4, <2>1, <2>2, <2>5
  <2> QED BY <1>2, <1>3, <1>4, <2>6 DEF ChannelInv, KeyStep
<1>5. CASE (entry' = Ref(entry) \/ entry' = entry) /\ UNCHANGED <<up, waiting>>
  <2>1. Good(Ref(entry), n) /\ Follows(entry, Ref(entry)) /\ Follows(entry, entry)
    <3>1. Good(Ref(entry), n + 1) /\ Follows(entry, Ref(entry))
      BY <1>2, RefGood
    <3> QED BY <1>2, <3>1, HeldLess DEF Follows
  <2>2. Good(entry', n) /\ Follows(entry, entry')
    BY <1>2, <1>5, <2>1
  <2> QED BY <1>1, <1>3, <1>5, <2>2, EntryStep DEF n
<1>6. \/ Suspend(h) /\ UNCHANGED entry
      \/ (entry' = Ref(entry) \/ entry' = entry) /\ UNCHANGED <<up, waiting>>
  BY DEF ChannelMessage
<1> QED BY <1>4, <1>5, <1>6

(* The reply to a WHOIS. *)
LEMMA WhoisResolvedStep ==
  ASSUME ChannelInv, WhoisResolved
  PROVE  ChannelInv' /\ KeyStep
<1> DEFINE r == Head(down)
<1> DEFINE vs == [waiting EXCEPT ![r.id] = <<>>]
<1>1. /\ down # <<>> /\ IsWhois(r) /\ down \in Seq(DownItems)
      /\ Parts(entry, up, down, waiting, server.key) /\ entry.key \in Nat
  BY Zenon DEF WhoisResolved, Arrived, IsWhois, ChannelInv, Parts, Wires
<1>2. r \in Whois /\ r.for \in Packets
  BY <1>1, Items
<1>5. PICK a \in Resolved(r) :
      \/ /\ r.for.kind # "message" /\ entry' = Unref([entry EXCEPT !.resolving = 0])
         /\ down' = a \o waiting[r.id] \o Tail(down)
      \/ /\ r.for.kind = "message" /\ UNCHANGED entry
         /\ \E i \in 0..Len(Tail(down)) :
              down' = SubSeq(Tail(down), 1, i) \o a \o SubSeq(Tail(down), i + 1, Len(Tail(down)))
  BY Zenon DEF WhoisResolved
<1>3. a \in Seq(Packets) /\ \A i \in DOMAIN a : a[i].kind = r.for.kind /\ a[i].key = r.for.key
  <2>1. PICK g : Restarted(g, a, r.for)
    BY <1>2, ResolvedItems, Zenon
  <2>2. g \in Packets /\ g.kind = r.for.kind /\ g.key = r.for.key /\ (a = <<g>> \/ a = <<>>)
    BY <2>1, Zenon DEF Restarted
  <2> HIDE DEF r
  <2>3. <<g>> \in Seq(Packets) /\ \A i \in DOMAIN <<g>> : <<g>>[i] = g
    BY ONLY <2>2
  <2>4. <<>> \in Seq(Packets) /\ \A i \in DOMAIN <<>> : FALSE
    BY ONLY TRUE
  <2>5. CASE a = <<g>>
    BY <2>2, <2>3, <2>5
  <2>6. CASE a = <<>>
    BY <2>4, <2>6
  <2> QED BY <2>2, <2>5, <2>6
<1>4. /\ UNCHANGED <<acts, joining, leaving, up, server>> /\ waiting' = vs
  BY Zenon DEF WhoisResolved
<1> HIDE DEF vs
<1>6. CASE /\ r.for.kind # "message" /\ entry' = Unref([entry EXCEPT !.resolving = 0])
           /\ down' = a \o waiting[r.id] \o Tail(down)
  <2>1. IsHeld(r)
    BY <1>1, <1>6 DEF IsHeld, IsWhois
  <2> DEFINE d == Unref([entry EXCEPT !.resolving = 0])
  <2>2. /\ Parts(d, up, a \o waiting[r.id] \o Tail(down), vs, server.key)
        /\ Follows(entry, d)
    BY <1>1, <1>3, <2>1, PartsResolved DEF vs
  <2>3. entry' = d
    BY <1>6
  <2> HIDE DEF d
  <2>4. Parts(entry', up', down', waiting', server'.key)
    BY <1>4, <1>6, <2>2, <2>3
  <2>5. KeyStep
    BY <1>1, <2>2, <2>3 DEF KeyStep, Follows
  <2> QED BY <1>4, <2>4, <2>5 DEF ChannelInv
<1>7. CASE /\ r.for.kind = "message" /\ UNCHANGED entry
           /\ \E i \in 0..Len(Tail(down)) :
                down' = SubSeq(Tail(down), 1, i) \o a \o SubSeq(Tail(down), i + 1, Len(Tail(down)))
  <2>1. PICK i \in 0..Len(Tail(down)) :
          down' = SubSeq(Tail(down), 1, i) \o a \o SubSeq(Tail(down), i + 1, Len(Tail(down)))
    BY <1>7
  <2>2. \A j \in DOMAIN a : a[j].kind = "message"
    BY <1>3, <1>7
  <2> DEFINE t == SubSeq(Tail(down), 1, i) \o a \o SubSeq(Tail(down), i + 1, Len(Tail(down)))
  <2>3. Parts(entry, up, t, vs, server.key)
    BY <1>1, <1>3, <1>7, <2>2, PartsMessage DEF vs
  <2>4. down' = t
    BY <2>1
  <2> HIDE DEF t
  <2>5. Parts(entry', up', down', waiting', server'.key)
    BY <1>4, <1>7, <2>3, <2>4
  <2> QED BY <1>1, <1>4, <1>7, <2>5 DEF ChannelInv, KeyStep
<1> QED BY <1>5, <1>6, <1>7, Zenon

(* Every step keeps the invariant and replaces no key by an older one. *)
LEMMA ChannelNext == ChannelInv /\ [Next]_vars => ChannelInv' /\ [KeyStep]_vars
<1> SUFFICES ASSUME ChannelInv, [Next]_vars PROVE ChannelInv' /\ [KeyStep]_vars
  OBVIOUS
<1>1. CASE Next
  <2>1. CASE CallJoin \/ CallLeave
    BY <2>1, CallStep
  <2>2. CASE Expire
    BY <2>2, ExpireStep
  <2>3. CASE ServeJoin
    BY <2>3, ServeJoinStep
  <2>4. CASE ServeLeave
    BY <2>4, ServeLeaveStep
  <2>5. CASE ServeWhois
    BY <2>5, ServeWhoisStep
  <2>6. CASE PeerMoves
    BY <2>6, PeerMovesStep
  <2>7. CASE Kick
    BY <2>7, KickStep
  <2>8. CASE Say
    BY <2>8, SayStep
  <2>9. CASE ReplyJoin
    BY <2>9, ReplyJoinStep
  <2>10. CASE ReplyLeave
    BY <2>10, ReplyLeaveStep
  <2>11. CASE ReplyError
    BY <2>11, ReplyErrorStep
  <2>12. CASE \E n \in {"joined", "left", "kicked"} : Notify(n)
    BY <2>12, NotifyStep
  <2>13. CASE ChannelKey
    BY <2>13, ChannelKeyStep
  <2>14. CASE ChannelMessage
    BY <2>14, ChannelMessageStep
  <2>15. CASE WhoisResolved
    BY <2>15, WhoisResolvedStep
  <2> QED BY <1>1, <2>1, <2>2, <2>3, <2>4, <2>5, <2>6, <2>7, <2>8, <2>9, <2>10, <2>11,
             <2>12, <2>13, <2>14, <2>15 DEF Next
<1>2. CASE UNCHANGED vars
  BY <1>2 DEF vars, ChannelInv
<1> QED BY <1>1, <1>2

(* The invariant says what the runs check. *)
LEMMA ChannelMeans == ChannelInv => TypeOK /\ HeldAlive
<1> SUFFICES ASSUME ChannelInv PROVE TypeOK /\ HeldAlive
  OBVIOUS
<1>1. /\ Good(entry, Cardinality(Held(up, down))) /\ Awaited(Held(up, down), entry, waiting)
      /\ waiting \in Seq(Seq(Packets)) /\ up \in Seq(UpItems) /\ down \in Seq(DownItems)
  BY DEF ChannelInv, Parts, Wires, WaitOK
<1>2. Suspended = Held(up, down)
  BY DEF Suspended, Held, IsHeld
<1>3. TypeOK
  BY <1>1 DEF ChannelInv, TypeOK, Good, Entries, UpItems, DownItems, Exists
<1>4. HeldAlive
  BY <1>1, <1>2 DEF HeldAlive, Good, Holders, Awaited
<1> QED BY <1>3, <1>4

-----------------------------------------------------------------------------
(***************************************************************************)
(* The entry, its lists, the packets and the WHOIS commands have their     *)
(* types, and the references of the entry never run below zero, whatever   *)
(* the application, the server and the other users do, and however often.  *)
(***************************************************************************)
THEOREM ChannelTypeCorrect == Spec => []TypeOK
<1>1. Init => ChannelInv
  BY ChannelInit
<1>2. ChannelInv /\ [Next]_vars => ChannelInv'
  BY ChannelNext
<1>3. ChannelInv => TypeOK
  BY ChannelMeans
<1> QED BY <1>1, <1>2, <1>3, PTL DEF Spec

(***************************************************************************)
(* Nobody who holds the channel entry is left with a freed one: the        *)
(* references silc_client_unref_channel counts down cover the cache, the   *)
(* users and every handler that waits for a WHOIS, and no notify waits for *)
(* a WHOIS that has been answered.                                         *)
(***************************************************************************)
THEOREM ChannelHeldAlive == Spec => []HeldAlive
<1>1. Init => ChannelInv
  BY ChannelInit
<1>2. ChannelInv /\ [Next]_vars => ChannelInv'
  BY ChannelNext
<1>3. ChannelInv => HeldAlive
  BY ChannelMeans
<1> QED BY <1>1, <1>2, <1>3, PTL DEF Spec

(***************************************************************************)
(* No channel key is replaced by one that the server made earlier, neither *)
(* by silc_client_channel_key nor by a reply to JOIN that has waited while *)
(* newer keys overtook it.                                                 *)
(***************************************************************************)
THEOREM ChannelKeyNeverOlder == Spec => KeyNeverOlder
<1>1. Init => ChannelInv
  BY ChannelInit
<1>2. ChannelInv /\ [Next]_vars => ChannelInv' /\ [KeyStep]_vars
  BY ChannelNext
<1>3. [KeyStep]_vars
        => [entry.key # NoKey /\ entry'.key # NoKey => entry'.key >= entry.key]_vars
  BY DEF KeyStep
<1> QED BY <1>1, <1>2, <1>3, PTL DEF Spec, KeyNeverOlder

-----------------------------------------------------------------------------
(***************************************************************************)
(* The old keys.                                                           *)
(*                                                                         *)
(* The first key of an entry is NULL, and silc_client_save_channel_key     *)
(* puts it at the head of the old ones, where                              *)
(* silc_client_save_channel_key_rekey finds the end of the list: no timer  *)
(* removes a key.  LEAVE alone frees the old keys, and leaves their timers *)
(* to run.  ReadInv says that these are older than what the next JOIN      *)
(* brings, for which it keeps the commands and their replies in order.     *)
(***************************************************************************)

(* The application leaves no channel while it joins it.                    *)
Patient == \A s \in Scenarios : "early" \notin s

(* x is before y in q.                                                     *)
Before(q, x, y) == \E i, j \in DOMAIN q : i < j /\ q[i] = x /\ q[j] = y

(* A reply to JOIN that waits for a WHOIS; JOIN in any of its stages, and  *)
(* LEAVE; what a WHOIS is for.                                             *)
ForJoin(x) == IsWhois(x) /\ x.for.kind = "join"
IsJoin(x) == x.kind \in {"join", "refused"} \/ ForJoin(x)
IsLeave(x) == x.kind = "leave"
Asks(x) == IsWhois(x) => x.for.kind \in {"join", "joined", "kicked", "message"}

Joins(q) == \E x \in Range(q) : IsJoin(x)
Leaves(q) == \E x \in Range(q) : IsLeave(x)
Asked(q) == \E x \in Range(q) : ForJoin(x)
Rejoined(q) == \E x \in Range(q) : x.kind = "join"

(* There is one JOIN in q at most, and no LEAVE behind it.                 *)
InOrder(q) ==
  /\ \A x \in Range(q) : Asks(x)
  /\ \A x, y \in Range(q) : Before(q, x, y) /\ IsJoin(x) => ~IsJoin(y) /\ ~IsLeave(y)

(* One JOIN at most is under way, in p or in q and only while the command  *)
(* is (b); LEAVE was called before it, and answered before a WHOIS for it. *)
Course(p, q, b) ==
  /\ InOrder(p) /\ InOrder(q)
  /\ Joins(q) => ~Joins(p) /\ ~Leaves(p)
  /\ Asked(p) \/ Asked(q) => ~Leaves(p) /\ ~Leaves(q)
  /\ Joins(p) \/ Joins(q) => b

(* A reply to LEAVE with one to JOIN behind it: what the client has by     *)
(* then is older than s, the key that the reply to JOIN brings.            *)
LeaveKeys(q, c, s) ==
  \A y \in Range(q) : IsLeave(y) /\ Rejoined(q) =>
    /\ c.key < s /\ \A k \in Range(c.timers) : k < s
    /\ \A x \in Range(q) : Before(q, x, y) /\ x.kind = "key" => x.key < s

(* The first of the old keys is NULL.                                      *)
NullFirst(c) ==
  \/ c.old = <<>> /\ c.key = NoKey
  \/ c.old # <<>> /\ c.old[1] = NoKey

(* The timers without a key are older than s.                              *)
StaleBelow(c, s) == \A k \in Range(c.timers) : k >= s => k \in Range(c.old)

(* A reply to JOIN is on its way.                                          *)
Due(p, q) == Rejoined(q) \/ Asked(p) \/ Asked(q)

(* The entry c, both directions, the key s we were given first and the     *)
(* newest one k.                                                           *)
Reads(c, p, q, s, k, b) ==
  /\ Course(p, q, b) /\ LeaveKeys(q, c, s)
  /\ NullFirst(c) /\ s >= 1
  /\ \A t \in Range(c.timers) : t <= k
  /\ "self" \in c.users \/ Due(p, q) => StaleBelow(c, s)

ReadInv == Reads(entry, up, down, server.since, server.key, joining)

-----------------------------------------------------------------------------
(* The order of a sequence.                                                *)

(* Neither JOIN nor LEAVE; and q with some taken away and others, which    *)
(* are plain, put between them: keys only where no LEAVE is behind them.   *)
Plain(x) == ~IsJoin(x) /\ ~IsLeave(x) /\ Asks(x)
Mix(q, d) ==
  /\ \A y \in Range(d) : y \in Range(q) \/ Plain(y)
  /\ \A x, y \in Range(d) :
       Before(d, x, y) => Before(q, x, y) \/ Plain(y) \/ (Plain(x) /\ x.kind # "key")

(* Both are in the sequence. *)
LEMMA BeforeIn ==
  ASSUME NEW q, NEW x, NEW y, Before(q, x, y)
  PROVE  x \in Range(q) /\ y \in Range(q)
BY DEF Before, Range

(* The order of a sequence with one more at its end. *)
LEMMA AppendBefore ==
  ASSUME NEW S, NEW q \in Seq(S), NEW z \in S
  PROVE  /\ Range(Append(q, z)) = Range(q) \union {z}
         /\ \A x, y : Before(Append(q, z), x, y) => Before(q, x, y) \/ (x \in Range(q) /\ y = z)
<1> DEFINE d == Append(q, z)
<1>1. /\ \A i \in DOMAIN d : \/ i \in DOMAIN q /\ d[i] = q[i] /\ i < Len(q) + 1
                             \/ i = Len(q) + 1 /\ d[i] = z
      /\ \A i \in DOMAIN q : i \in DOMAIN d /\ d[i] = q[i] /\ i \in Nat
      /\ Len(q) + 1 \in DOMAIN d /\ d[Len(q) + 1] = z /\ Len(q) \in Nat
  BY AppendItems
<1> HIDE DEF d
<1>2. Range(d) = Range(q) \union {z}
  BY <1>1 DEF Range
<1>3. ASSUME NEW x, NEW y, Before(d, x, y)
      PROVE  Before(q, x, y) \/ (x \in Range(q) /\ y = z)
  <2>1. PICK i \in DOMAIN d, j \in DOMAIN d : i < j /\ d[i] = x /\ d[j] = y
    BY <1>3 DEF Before
  <2>2. i \in DOMAIN q /\ d[i] = q[i]
    BY <1>1, <2>1
  <2>3. CASE j \in DOMAIN q /\ d[j] = q[j]
    BY <2>1, <2>2, <2>3 DEF Before
  <2>4. CASE d[j] = z
    BY <2>1, <2>2, <2>4 DEF Range
  <2> QED BY <1>1, <2>3, <2>4
<1> QED BY <1>2, <1>3 DEF d

(* The order of the tail; the head is before all of it. *)
LEMMA TailBefore ==
  ASSUME NEW S, NEW q \in Seq(S), q # <<>>
  PROVE  /\ Range(q) = {Head(q)} \union Range(Tail(q))
         /\ \A x, y : Before(Tail(q), x, y) => Before(q, x, y)
         /\ \A y \in Range(Tail(q)) : Before(q, Head(q), y)
<1> DEFINE d == Tail(q)
<1>1. /\ Head(q) = q[1] /\ 1 \in DOMAIN q
      /\ \A i \in DOMAIN d : i + 1 \in DOMAIN q /\ d[i] = q[i + 1] /\ i \in Nat /\ 1 < i + 1
      /\ \A i \in DOMAIN q : i = 1 \/ (i - 1 \in DOMAIN d /\ q[i] = d[i - 1])
  <2>1. \A i \in DOMAIN Tail(q) : i \in 1..Len(Tail(q))
    OBVIOUS
  <2> QED BY <2>1, TailItems
<1> HIDE DEF d
<1>2. Range(q) = {Head(q)} \union Range(d)
  BY <1>1 DEF Range
<1>3. ASSUME NEW x, NEW y, Before(d, x, y)
      PROVE  Before(q, x, y)
  <2>1. PICK i \in DOMAIN d, j \in DOMAIN d : i < j /\ d[i] = x /\ d[j] = y
    BY <1>3 DEF Before
  <2>2. i + 1 \in DOMAIN q /\ j + 1 \in DOMAIN q /\ i + 1 < j + 1 /\ q[i + 1] = x /\ q[j + 1] = y
    BY <1>1, <2>1
  <2> QED BY <2>2 DEF Before
<1>4. ASSUME NEW y \in Range(d)
      PROVE  Before(q, Head(q), y)
  <2>1. PICK j \in DOMAIN d : d[j] = y
    BY <1>4 DEF Range
  <2> QED BY <1>1, <2>1 DEF Before
<1> QED BY <1>2, <1>3, <1>4 DEF d

(* The order of two sequences, one behind the other. *)
LEMMA ConcatBefore ==
  ASSUME NEW S, NEW s \in Seq(S), NEW t \in Seq(S)
  PROVE  /\ Range(s \o t) = Range(s) \union Range(t)
         /\ \A x, y : Before(s \o t, x, y) <=>
              Before(s, x, y) \/ Before(t, x, y) \/ (x \in Range(s) /\ y \in Range(t))
<1> DEFINE d == s \o t
<1> DEFINE m == Len(s)
<1>1. /\ m \in Nat /\ Len(t) \in Nat /\ DOMAIN s = 1..m /\ DOMAIN t = 1..Len(t)
      /\ DOMAIN d = 1..(m + Len(t))
      /\ \A i \in 1..m : d[i] = s[i]
      /\ \A i \in 1..Len(t) : d[i + m] = t[i]
  BY ConcatProperties
<1>2. /\ \A i \in DOMAIN s : i \in DOMAIN d /\ d[i] = s[i]
      /\ \A i \in DOMAIN t : i + m \in DOMAIN d /\ d[i + m] = t[i]
      /\ \A i \in DOMAIN d : \/ i \in DOMAIN s /\ d[i] = s[i] /\ i <= m
                             \/ i - m \in DOMAIN t /\ d[i] = t[i - m] /\ i > m
  <2> HIDE DEF d, m
  <2>1. \A i \in DOMAIN d : i > m => i - m \in 1..Len(t) /\ (i - m) + m = i
    BY <1>1
  <2>2. \A i \in DOMAIN t : i + m \in DOMAIN d
    BY <1>1
  <2> QED BY <1>1, <2>1, <2>2
<1>m. m \in Nat /\ (\A i \in DOMAIN d : i \in Nat) /\ (\A i \in DOMAIN s : i \in Nat /\ i <= m)
      /\ (\A i \in DOMAIN t : i \in Nat /\ i > 0)
  BY <1>1
<1> HIDE DEF d, m
<1>3. Range(d) = Range(s) \union Range(t)
  BY <1>2 DEF Range
<1>4. ASSUME NEW x, NEW y, Before(d, x, y)
      PROVE  Before(s, x, y) \/ Before(t, x, y) \/ (x \in Range(s) /\ y \in Range(t))
  <2>1. PICK i \in DOMAIN d, j \in DOMAIN d : i < j /\ d[i] = x /\ d[j] = y
    BY <1>4 DEF Before
  <2>2. CASE j <= m
    <3>1. i \in DOMAIN s /\ d[i] = s[i] /\ j \in DOMAIN s /\ d[j] = s[j]
      BY <1>2, <1>m, <2>1, <2>2
    <3> QED BY <2>1, <3>1 DEF Before
  <2>3. CASE i > m
    <3>1. i - m \in DOMAIN t /\ d[i] = t[i - m] /\ j - m \in DOMAIN t /\ d[j] = t[j - m]
      BY <1>2, <1>m, <2>1, <2>3
    <3>2. i - m < j - m
      BY <1>m, <2>1
    <3> QED BY <2>1, <3>1, <3>2 DEF Before
  <2>4. CASE i <= m /\ j > m
    <3>1. i \in DOMAIN s /\ d[i] = s[i] /\ j - m \in DOMAIN t /\ d[j] = t[j - m]
      BY <1>2, <1>m, <2>1, <2>4
    <3> QED BY <2>1, <3>1 DEF Range
  <2> QED BY <1>m, <2>2, <2>3, <2>4
<1>5. ASSUME NEW x, NEW y, Before(s, x, y)
      PROVE  Before(d, x, y)
  BY <1>2, <1>5 DEF Before
<1>6. ASSUME NEW x, NEW y, Before(t, x, y)
      PROVE  Before(d, x, y)
  <2>1. PICK i \in DOMAIN t, j \in DOMAIN t : i < j /\ t[i] = x /\ t[j] = y
    BY <1>6 DEF Before
  <2>2. i + m < j + m
    BY <1>m, <2>1
  <2> QED BY <1>2, <2>1, <2>2 DEF Before
<1>7. ASSUME NEW x \in Range(s), NEW y \in Range(t)
      PROVE  Before(d, x, y)
  <2>1. PICK i \in DOMAIN s, j \in DOMAIN t : s[i] = x /\ t[j] = y
    BY <1>7 DEF Range
  <2>2. i < j + m
    BY <1>m, <2>1
  <2> QED BY <1>2, <2>1, <2>2 DEF Before
<1> QED BY <1>3, <1>4, <1>5, <1>6, <1>7 DEF d

(* The first is taken. *)
LEMMA MixTail ==
  ASSUME NEW S, NEW q \in Seq(S), q # <<>>
  PROVE  Mix(q, Tail(q))
<1>1. /\ Range(q) = {Head(q)} \union Range(Tail(q))
      /\ \A x, y : Before(Tail(q), x, y) => Before(q, x, y)
  BY TailBefore
<1> QED BY <1>1 DEF Mix

(* One that is plain is put at the end. *)
LEMMA MixAppend ==
  ASSUME NEW S, NEW q \in Seq(S), NEW z \in S, Plain(z)
  PROVE  Mix(q, Append(q, z))
<1>1. /\ Range(Append(q, z)) = Range(q) \union {z}
      /\ \A x, y : Before(Append(q, z), x, y) => Before(q, x, y) \/ (x \in Range(q) /\ y = z)
  BY AppendBefore
<1> QED BY <1>1 DEF Mix

(* Plain ones, none of them a key, are put in front. *)
LEMMA MixFront ==
  ASSUME NEW S, NEW q \in Seq(S), NEW a \in Seq(S), NEW b \in Seq(S),
         \A x \in Range(a) \union Range(b) : Plain(x) /\ x.kind # "key"
  PROVE  Mix(q, a \o b \o q)
<1>1. a \o b \in Seq(S)
  OBVIOUS
<1>2. \A x \in Range(a \o b) : Plain(x) /\ x.kind # "key"
  BY ConcatBefore
<1> DEFINE g == a \o b
<1> HIDE DEF g
<1>3. g \in Seq(S) /\ \A x \in Range(g) : Plain(x) /\ x.kind # "key"
  BY <1>1, <1>2 DEF g
<1>4. /\ Range(g \o q) = Range(g) \union Range(q)
      /\ \A x, y : Before(g \o q, x, y) <=>
           Before(g, x, y) \/ Before(q, x, y) \/ (x \in Range(g) /\ y \in Range(q))
  BY <1>3, ConcatBefore
<1>5. Mix(q, g \o q)
  BY <1>3, <1>4, BeforeIn DEF Mix
<1> QED BY <1>5 DEF g

(* Plain ones, none of them a key, are put somewhere. *)
LEMMA MixSomewhere ==
  ASSUME NEW S, NEW q \in Seq(S), NEW a \in Seq(S), NEW n \in 0..Len(q),
         \A x \in Range(a) : Plain(x) /\ x.kind # "key"
  PROVE  Mix(q, SubSeq(q, 1, n) \o a \o SubSeq(q, n + 1, Len(q)))
<1> DEFINE b == SubSeq(q, 1, n)
<1> DEFINE c == SubSeq(q, n + 1, Len(q))
<1>1. b \in Seq(S) /\ c \in Seq(S)
  <2>1. b \in Seq(S)
    OBVIOUS
  <2>2. c \in Seq(S)
    OBVIOUS
  <2> QED BY <2>1, <2>2, Zenon
<1>2. b \o c = q
  <2>1. SubSeq(q, 1, n) \o SubSeq(q, n + 1, Len(q)) = SubSeq(q, 1, Len(q))
    <3>1. 1 \in 1..(Len(q) + 1) /\ n \in (1 - 1)..Len(q) /\ Len(q) \in n..Len(q)
      OBVIOUS
    <3> QED BY <3>1, ConcatAdjacentSubSeq
  <2>2. SubSeq(q, 1, Len(q)) = q
    BY SubSeqFull
  <2> QED BY <2>1, <2>2, Zenon
<1> HIDE DEF b, c
<1>3. /\ Range(q) = Range(b) \union Range(c)
      /\ \A x, y : Before(q, x, y) <=>
           Before(b, x, y) \/ Before(c, x, y) \/ (x \in Range(b) /\ y \in Range(c))
  BY <1>1, <1>2, ConcatBefore
<1> DEFINE g == b \o a
<1>4. /\ g \in Seq(S) /\ Range(g) = Range(b) \union Range(a)
      /\ \A x, y : Before(g, x, y) <=>
           Before(b, x, y) \/ Before(a, x, y) \/ (x \in Range(b) /\ y \in Range(a))
  <2>1. g \in Seq(S)
    BY <1>1
  <2> QED BY <1>1, <2>1, ConcatBefore
<1> HIDE DEF g
<1>5. /\ Range(g \o c) = Range(g) \union Range(c)
      /\ \A x, y : Before(g \o c, x, y) <=>
           Before(g, x, y) \/ Before(c, x, y) \/ (x \in Range(g) /\ y \in Range(c))
  BY <1>1, <1>4, ConcatBefore
<1>6. \A y \in Range(g \o c) : y \in Range(q) \/ Plain(y)
  BY <1>3, <1>4, <1>5
<1>7. ASSUME NEW x, NEW y, Before(g \o c, x, y)
      PROVE  Before(q, x, y) \/ Plain(y) \/ (Plain(x) /\ x.kind # "key")
  BY <1>3, <1>4, <1>5, <1>7, BeforeIn
<1>8. Mix(q, g \o c)
  BY <1>6, <1>7 DEF Mix
<1> QED BY <1>8 DEF b, c, g

(* A mix has no JOIN and no LEAVE that was not there. *)
LEMMA MixSees ==
  ASSUME NEW q, NEW d, Mix(q, d)
  PROVE  /\ InOrder(q) => InOrder(d)
         /\ Joins(d) => Joins(q)
         /\ Leaves(d) => Leaves(q)
         /\ Asked(d) => Asked(q)
         /\ Rejoined(d) => Rejoined(q)
<1>1. Joins(d) => Joins(q)
  BY DEF Mix, Joins, Plain
<1>2. Leaves(d) => Leaves(q)
  BY DEF Mix, Leaves, Plain
<1>3. Asked(d) => Asked(q)
  BY DEF Mix, Asked, Plain, IsJoin
<1>4. Rejoined(d) => Rejoined(q)
  BY DEF Mix, Rejoined, Plain, IsJoin
<1>5. ASSUME InOrder(q)
      PROVE  InOrder(d)
  <2>1. \A x \in Range(d) : Asks(x)
    BY <1>5 DEF Mix, InOrder, Plain
  <2>2. ASSUME NEW x \in Range(d), NEW y \in Range(d), Before(d, x, y), IsJoin(x)
        PROVE  ~IsJoin(y) /\ ~IsLeave(y)
    BY <1>5, <2>2, BeforeIn DEF Mix, InOrder, Plain
  <2> QED BY <2>1, <2>2 DEF InOrder
<1> QED BY <1>1, <1>2, <1>3, <1>4, <1>5

(* What is on its way to the client is mixed with plain packets. *)
LEMMA MixDown ==
  ASSUME NEW c, NEW p, NEW q, NEW s, NEW k, NEW b, Reads(c, p, q, s, k, b),
         NEW d, Mix(q, d)
  PROVE  Reads(c, p, d, s, k, b)
<1>1. /\ InOrder(q) => InOrder(d)
      /\ Joins(d) => Joins(q)
      /\ Leaves(d) => Leaves(q)
      /\ Asked(d) => Asked(q)
      /\ Rejoined(d) => Rejoined(q)
  BY MixSees
<1>2. Course(p, d, b)
  BY <1>1 DEF Reads, Course
<1>3. LeaveKeys(d, c, s)
  <2>1. LeaveKeys(q, c, s)
    BY DEF Reads
  <2>2. ASSUME NEW y \in Range(d), IsLeave(y), Rejoined(d)
        PROVE  /\ c.key < s /\ \A t \in Range(c.timers) : t < s
               /\ \A x \in Range(d) : Before(d, x, y) /\ x.kind = "key" => x.key < s
    <3>1. y \in Range(q) /\ ~Plain(y) /\ Rejoined(q)
      BY <1>1, <2>2 DEF Mix, Plain
    <3>2. c.key < s /\ \A t \in Range(c.timers) : t < s
      BY <2>1, <2>2, <3>1 DEF LeaveKeys
    <3>3. ASSUME NEW x \in Range(d), Before(d, x, y), x.kind = "key"
          PROVE  x.key < s
      <4>1. Before(q, x, y)
        BY <3>1, <3>3 DEF Mix
      <4> QED BY <2>1, <2>2, <3>1, <3>3, <4>1, BeforeIn DEF LeaveKeys
    <3> QED BY <3>2, <3>3
  <2> QED BY <2>2 DEF LeaveKeys
<1>4. Due(p, d) => Due(p, q)
  BY <1>1 DEF Due
<1> QED BY <1>2, <1>3, <1>4 DEF Reads

(* The same for what is on its way to the server. *)
LEMMA MixUp ==
  ASSUME NEW c, NEW p, NEW q, NEW s, NEW k, NEW b, Reads(c, p, q, s, k, b),
         NEW d, Mix(p, d)
  PROVE  Reads(c, d, q, s, k, b)
<1>1. /\ InOrder(p) => InOrder(d)
      /\ Joins(d) => Joins(p)
      /\ Leaves(d) => Leaves(p)
      /\ Asked(d) => Asked(p)
  BY MixSees
<1>2. Course(d, q, b)
  BY <1>1 DEF Reads, Course
<1>3. Due(d, q) => Due(p, q)
  BY <1>1 DEF Due
<1> QED BY <1>2, <1>3 DEF Reads

-----------------------------------------------------------------------------
(* The commands and their replies, in their order.                         *)

(* JOIN is called while none is under way. *)
LEMMA ReadsJoinCalled ==
  ASSUME NEW c, NEW p \in Seq(UpItems), NEW q, NEW s, NEW k, NEW b,
         Reads(c, p, q, s, k, b), ~Joins(p), ~Joins(q),
         NEW x \in UpItems, x.kind = "join", NEW m, m = TRUE
  PROVE  Reads(c, Append(p, x), q, s, k, m)
<1> DEFINE d == Append(p, x)
<1>1. /\ Range(d) = Range(p) \union {x}
      /\ \A u, v : Before(d, u, v) => Before(p, u, v) \/ (u \in Range(p) /\ v = x)
  BY AppendBefore
<1> HIDE DEF d
<1>2. IsJoin(x) /\ ~IsLeave(x) /\ ~ForJoin(x) /\ Asks(x)
  BY DEF IsJoin, IsLeave, ForJoin, IsWhois, Asks
<1>3. InOrder(p) /\ InOrder(q)
  BY DEF Reads, Course
<1>4. InOrder(d)
  BY <1>1, <1>2, <1>3, BeforeIn DEF InOrder, Joins
<1>5. (Asked(d) => Asked(p)) /\ (Leaves(d) => Leaves(p))
  BY <1>1, <1>2 DEF Asked, Leaves
<1>6. Course(d, q, m)
  BY <1>3, <1>4, <1>5 DEF Reads, Course
<1>7. Due(d, q) => Due(p, q)
  BY <1>5 DEF Due
<1> QED BY <1>6, <1>7 DEF Reads, d

(* LEAVE is called while no JOIN is under way. *)
LEMMA ReadsLeaveCalled ==
  ASSUME NEW c, NEW p \in Seq(UpItems), NEW q, NEW s, NEW k, NEW b,
         Reads(c, p, q, s, k, b), ~b, NEW x \in UpItems, x.kind = "leave"
  PROVE  Reads(c, Append(p, x), q, s, k, b)
<1> DEFINE d == Append(p, x)
<1>1. /\ Range(d) = Range(p) \union {x}
      /\ \A u, v : Before(d, u, v) => Before(p, u, v) \/ (u \in Range(p) /\ v = x)
  BY AppendBefore
<1> HIDE DEF d
<1>2. ~IsJoin(x) /\ ~ForJoin(x) /\ Asks(x)
  BY DEF IsJoin, ForJoin, IsWhois, Asks
<1>3. ~Joins(p) /\ ~Joins(q) /\ InOrder(p) /\ InOrder(q)
  BY DEF Reads, Course
<1>4. InOrder(d) /\ ~Joins(d)
  BY <1>1, <1>2, <1>3 DEF InOrder, Joins
<1>5. ~Asked(d) /\ ~Asked(q)
  BY <1>3, <1>4 DEF Asked, Joins, IsJoin
<1>6. Course(d, q, b)
  BY <1>3, <1>4, <1>5 DEF Course
<1>7. Due(d, q) => Due(p, q)
  BY <1>5 DEF Due
<1> QED BY <1>6, <1>7 DEF Reads, d

(* Behind a JOIN there is neither a JOIN nor a LEAVE. *)
LEMMA JoinFirst ==
  ASSUME NEW S, NEW q \in Seq(S), q # <<>>, InOrder(q), IsJoin(Head(q))
  PROVE  ~Joins(Tail(q)) /\ ~Leaves(Tail(q)) /\ InOrder(Tail(q)) /\ Joins(q)
<1>1. /\ Range(q) = {Head(q)} \union Range(Tail(q))
      /\ \A y \in Range(Tail(q)) : Before(q, Head(q), y)
  BY TailBefore
<1>2. InOrder(Tail(q))
  BY MixTail, MixSees
<1> QED BY <1>1, <1>2 DEF InOrder, Joins, Leaves

(* Behind no JOIN there may be anything. *)
LEMMA JoinLast ==
  ASSUME NEW S, NEW q \in Seq(S), NEW x \in S, InOrder(q), ~Joins(q), Asks(x)
  PROVE  /\ InOrder(Append(q, x)) /\ Range(Append(q, x)) = Range(q) \union {x}
         /\ Joins(Append(q, x)) => IsJoin(x)
         /\ \A u, v : Before(Append(q, x), u, v) => Before(q, u, v) \/ v = x
<1>1. /\ Range(Append(q, x)) = Range(q) \union {x}
      /\ \A u, v : Before(Append(q, x), u, v) => Before(q, u, v) \/ (u \in Range(q) /\ v = x)
  BY AppendBefore
<1>2. InOrder(Append(q, x))
  BY <1>1, BeforeIn DEF InOrder, Joins
<1> QED BY <1>1, <1>2 DEF Joins

(* The server lets us join: every key so far is older than the new one. *)
LEMMA ReadsJoined ==
  ASSUME NEW c, NEW p \in Seq(UpItems), NEW q \in Seq(DownItems),
         NEW s \in Nat, NEW k \in Nat, NEW b,
         Reads(c, p, q, s, k, b), p # <<>>, Head(p).kind = "join",
         NotNewer(q, k), c.key \in Nat, c.key <= k, c.timers \in Seq(Nat),
         NEW x \in Packets, x.kind = "join"
  PROVE  Reads(c, Tail(p), Append(q, x), k + 1, k + 1, b)
<1> DEFINE d == Tail(p)
<1> DEFINE e == Append(q, x)
<1>0. x \in DownItems /\ IsJoin(x) /\ Asks(x) /\ ~IsLeave(x) /\ ~ForJoin(x) /\ IsJoin(Head(p))
  BY DEF DownItems, IsJoin, Asks, IsWhois, IsLeave, ForJoin
<1>1. InOrder(p) /\ InOrder(q)
  BY DEF Reads, Course
<1>2. ~Joins(d) /\ ~Leaves(d) /\ InOrder(d) /\ Joins(p)
  BY <1>0, <1>1, JoinFirst
<1>3. ~Joins(q) /\ b
  BY <1>2 DEF Reads, Course
<1>4. /\ InOrder(e) /\ Range(e) = Range(q) \union {x}
      /\ \A u, v : Before(e, u, v) => Before(q, u, v) \/ v = x
  BY <1>0, <1>1, <1>3, JoinLast
<1> HIDE DEF d, e
<1>5. ~Asked(d) /\ ~Asked(e)
  BY <1>0, <1>2, <1>3, <1>4 DEF Asked, Joins, IsJoin
<1>6. Course(d, e, b)
  BY <1>2, <1>3, <1>4, <1>5 DEF Course
<1>7. c.key < k + 1 /\ \A t \in Range(c.timers) : t \in Nat /\ t <= k /\ t < k + 1
  <2>1. \A t \in Range(c.timers) : t \in Nat
    BY DEF Range
  <2> QED BY <2>1 DEF Reads
<1>8. ASSUME NEW u \in Range(e), NEW v \in Range(e), Before(e, u, v), u.kind = "key", IsLeave(v)
      PROVE  u.key < k + 1
  <2>1. u \in Range(q)
    BY <1>0, <1>4, <1>8, BeforeIn
  <2>2. PICK i \in DOMAIN q : q[i] = u
    BY <2>1 DEF Range
  <2>3. u.key \in Nat
    <3>1. u \in DownItems
      BY <2>2
    <3> QED BY <1>8, <3>1, Items DEF IsWhois
  <2> QED BY <1>8, <2>2, <2>3 DEF NotNewer
<1>9. LeaveKeys(e, c, k + 1)
  BY <1>7, <1>8 DEF LeaveKeys
<1>10. StaleBelow(c, k + 1)
  BY <1>7 DEF StaleBelow
<1>11. NullFirst(c) /\ k + 1 >= 1 /\ \A t \in Range(c.timers) : t <= k + 1
  BY <1>7 DEF Reads
<1> QED BY <1>6, <1>9, <1>10, <1>11 DEF Reads, d, e

(* The server refuses JOIN. *)
LEMMA ReadsRefused ==
  ASSUME NEW c, NEW p \in Seq(UpItems), NEW q \in Seq(DownItems), NEW s, NEW k, NEW b,
         Reads(c, p, q, s, k, b), p # <<>>, Head(p).kind = "join",
         NEW x \in Packets, x.kind = "refused"
  PROVE  Reads(c, Tail(p), Append(q, x), s, k, b)
<1> DEFINE d == Tail(p)
<1> DEFINE e == Append(q, x)
<1>0. x \in DownItems /\ IsJoin(x) /\ Asks(x) /\ ~IsLeave(x) /\ ~ForJoin(x) /\ IsJoin(Head(p))
  BY DEF DownItems, IsJoin, Asks, IsWhois, IsLeave, ForJoin
<1>1. InOrder(p) /\ InOrder(q)
  BY DEF Reads, Course
<1>2. ~Joins(d) /\ ~Leaves(d) /\ InOrder(d) /\ Joins(p)
  BY <1>0, <1>1, JoinFirst
<1>3. ~Joins(q) /\ b
  BY <1>2 DEF Reads, Course
<1>4. /\ InOrder(e) /\ Range(e) = Range(q) \union {x}
      /\ \A u, v : Before(e, u, v) => Before(q, u, v) \/ v = x
  BY <1>0, <1>1, <1>3, JoinLast
<1> HIDE DEF d, e
<1>5. ~Asked(d) /\ ~Asked(e)
  BY <1>0, <1>2, <1>3, <1>4 DEF Asked, Joins, IsJoin
<1>6. Course(d, e, b)
  BY <1>2, <1>3, <1>4, <1>5 DEF Course
<1>7. ~Rejoined(e)
  BY <1>3, <1>4 DEF Rejoined, Joins, IsJoin
<1> QED BY <1>5, <1>6, <1>7 DEF Reads, LeaveKeys, Due, d, e

(* The server answers LEAVE: no reply to JOIN is before it. *)
LEMMA ReadsLeft ==
  ASSUME NEW c, NEW p \in Seq(UpItems), NEW q \in Seq(DownItems), NEW s, NEW k, NEW b,
         Reads(c, p, q, s, k, b), p # <<>>, Head(p).kind = "leave",
         NEW x \in Packets, x.kind = "leave"
  PROVE  Reads(c, Tail(p), Append(q, x), s, k, b)
<1> DEFINE d == Tail(p)
<1> DEFINE e == Append(q, x)
<1>0. x \in DownItems /\ ~IsJoin(x) /\ Asks(x) /\ ~ForJoin(x) /\ IsLeave(Head(p))
  BY DEF DownItems, IsJoin, Asks, IsWhois, IsLeave, ForJoin
<1>1. InOrder(p) /\ InOrder(q) /\ Course(p, q, b)
  BY DEF Reads, Course
<1>2. Range(p) = {Head(p)} \union Range(d) /\ Mix(p, d)
  BY TailBefore, MixTail
<1>3. Leaves(p)
  BY <1>0, <1>2 DEF Leaves
<1>4. ~Joins(q) /\ ~Asked(p) /\ ~Asked(q)
  BY <1>1, <1>3 DEF Course
<1>5. /\ InOrder(e) /\ Range(e) = Range(q) \union {x} /\ ~Joins(e)
  BY <1>0, <1>1, <1>4, JoinLast
<1>6. InOrder(d) /\ (Joins(d) => Joins(p)) /\ (Asked(d) => Asked(p))
  BY <1>1, <1>2, MixSees
<1> HIDE DEF d, e
<1>7. ~Asked(d) /\ ~Asked(e) /\ ~Rejoined(e)
  BY <1>4, <1>5, <1>6 DEF Asked, Joins, IsJoin, Rejoined
<1>8. Course(d, e, b)
  BY <1>1, <1>5, <1>6, <1>7 DEF Course
<1> QED BY <1>7, <1>8 DEF Reads, LeaveKeys, Due, d, e

(* The server answers WHOIS. *)
LEMMA ReadsAnswered ==
  ASSUME NEW c, NEW p \in Seq(UpItems), NEW q \in Seq(DownItems), NEW s, NEW k, NEW b,
         Reads(c, p, q, s, k, b), p # <<>>, IsWhois(Head(p)),
         NEW x \in Whois, x.for = Head(p).for
  PROVE  Reads(c, Tail(p), Append(q, x), s, k, b)
<1> DEFINE d == Tail(p)
<1> DEFINE e == Append(q, x)
<1> DEFINE h == Head(p)
<1>0. x \in DownItems /\ IsWhois(x) /\ x.kind = "whois" /\ h.kind = "whois"
  BY Items DEF DownItems, IsWhois
<1>1. InOrder(p) /\ InOrder(q) /\ Course(p, q, b)
  BY DEF Reads, Course
<1>2. Range(p) = {h} \union Range(d) /\ Mix(p, d)
  BY TailBefore, MixTail
<1>3. Asks(h) /\ Asks(x) /\ (ForJoin(x) <=> ForJoin(h)) /\ ~IsLeave(x)
  <2>1. Asks(h)
    BY <1>1, <1>2 DEF InOrder
  <2> QED BY <1>0, <2>1 DEF Asks, ForJoin, IsLeave
<1>4. (IsJoin(x) <=> ForJoin(x)) /\ (IsJoin(h) <=> ForJoin(h))
  BY <1>0 DEF IsJoin
<1>5. CASE ForJoin(h)
  <2>1. ~Joins(d) /\ ~Leaves(d) /\ InOrder(d) /\ Joins(p)
    BY <1>1, <1>4, <1>5, JoinFirst
  <2>2. Asked(p)
    BY <1>2, <1>5 DEF Asked
  <2>3. ~Joins(q) /\ b /\ ~Leaves(q)
    BY <1>1, <2>1, <2>2 DEF Course
  <2>4. /\ InOrder(e) /\ Range(e) = Range(q) \union {x}
    BY <1>0, <1>1, <1>3, <2>3, JoinLast
  <2> HIDE DEF d, e
  <2>5. ~Leaves(e) /\ ~Rejoined(e)
    BY <1>0, <1>3, <2>3, <2>4 DEF Leaves, Rejoined, Joins, IsJoin
  <2>6. Course(d, e, b)
    BY <2>1, <2>3, <2>4, <2>5 DEF Course
  <2>7. Due(p, q)
    BY <2>2 DEF Due
  <2> QED BY <2>5, <2>6, <2>7 DEF Reads, LeaveKeys, d, e
<1>6. CASE ~ForJoin(h)
  <2>1. Plain(x)
    BY <1>3, <1>4, <1>6 DEF Plain
  <2>2. Mix(q, e)
    BY <1>0, <2>1, MixAppend
  <2>3. Reads(c, d, q, s, k, b)
    BY <1>2, MixUp
  <2> QED BY <2>2, <2>3, MixDown
<1> QED BY <1>5, <1>6

(* The server makes a new key. *)
LEMMA ReadsNewer ==
  ASSUME NEW c, NEW p, NEW q, NEW s, NEW k \in Nat, NEW b, Reads(c, p, q, s, k, b),
         c.timers \in Seq(Nat), NEW m \in Nat, k <= m
  PROVE  Reads(c, p, q, s, m, b)
<1>1. \A t \in Range(c.timers) : t \in Nat
  BY DEF Range
<1>2. \A t \in Range(c.timers) : t <= m
  BY <1>1 DEF Reads
<1> QED BY <1>2 DEF Reads

(* The first packet is taken, and the entry kept. *)
LEMMA ReadsTaken ==
  ASSUME NEW c, NEW p, NEW q \in Seq(DownItems), NEW s, NEW k, NEW b,
         Reads(c, p, q, s, k, b), q # <<>>
  PROVE  Reads(c, p, Tail(q), s, k, b)
BY MixTail, MixDown

(* The JOIN that is taken was the only one. *)
LEMMA ReadsEnded ==
  ASSUME NEW c, NEW p, NEW q \in Seq(DownItems), NEW s, NEW k, NEW b,
         Reads(c, p, q, s, k, b), q # <<>>, IsJoin(Head(q))
  PROVE  /\ Reads(c, p, Tail(q), s, k, FALSE) /\ b
         /\ ~Joins(p) /\ ~Leaves(p) /\ ~Joins(Tail(q)) /\ ~Leaves(Tail(q))
<1>1. Reads(c, p, Tail(q), s, k, b)
  BY ReadsTaken
<1>2. ~Joins(Tail(q)) /\ ~Leaves(Tail(q)) /\ Joins(q)
  BY JoinFirst DEF Reads, Course
<1>3. ~Joins(p) /\ ~Leaves(p) /\ b
  BY <1>2 DEF Reads, Course
<1>4. Reads(c, p, Tail(q), s, k, FALSE)
  BY <1>1, <1>2, <1>3 DEF Reads, Course
<1> QED BY <1>2, <1>3, <1>4

(* The reply to JOIN waits for a WHOIS. *)
LEMMA ReadsAsked ==
  ASSUME NEW c, NEW p \in Seq(UpItems), NEW q \in Seq(DownItems), NEW s, NEW k, NEW b,
         Reads(c, p, q, s, k, b), q # <<>>, Head(q).kind = "join",
         NEW x \in Whois, x.for.kind = "join"
  PROVE  Reads(c, Append(p, x), Tail(q), s, k, b)
<1> DEFINE d == Append(p, x)
<1> DEFINE e == Tail(q)
<1>0. x \in UpItems /\ IsWhois(x) /\ x.kind = "whois" /\ IsJoin(Head(q))
  BY Items DEF UpItems, IsWhois, IsJoin
<1>1. /\ Reads(c, p, e, s, k, FALSE) /\ b
      /\ ~Joins(p) /\ ~Leaves(p) /\ ~Joins(e) /\ ~Leaves(e)
  BY <1>0, ReadsEnded
<1>2. Asks(x) /\ ~IsLeave(x)
  BY <1>0 DEF Asks, IsLeave
<1>3. InOrder(p) /\ InOrder(e)
  BY <1>1 DEF Reads, Course
<1>4. InOrder(d) /\ Range(d) = Range(p) \union {x}
  BY <1>0, <1>1, <1>2, <1>3, JoinLast
<1>5. Rejoined(q)
  BY TailBefore DEF Rejoined
<1> HIDE DEF d, e
<1>6. ~Leaves(d)
  BY <1>1, <1>2, <1>4 DEF Leaves
<1>7. Course(d, e, b)
  BY <1>1, <1>3, <1>4, <1>6 DEF Course
<1>8. LeaveKeys(e, c, s)
  BY <1>1 DEF Reads
<1>9. Due(p, q)
  BY <1>5 DEF Due
<1> QED BY <1>7, <1>8, <1>9 DEF Reads, d, e

(* It starts again, before the notifies that waited for the same WHOIS. *)
LEMMA ReadsAgain ==
  ASSUME NEW c, NEW p, NEW q \in Seq(DownItems), NEW s, NEW k, NEW b,
         Reads(c, p, q, s, k, b), q # <<>>, ForJoin(Head(q)),
         NEW x \in Packets, x.kind = "join", NEW w \in Seq(Packets),
         \A y \in Range(w) : Plain(y) /\ y.kind # "key"
  PROVE  Reads(c, p, <<x>> \o w \o Tail(q), s, k, b)
<1> DEFINE e == Tail(q)
<1>0. IsJoin(Head(q)) /\ IsJoin(x) /\ ~IsLeave(x) /\ Asks(x)
  BY DEF IsJoin, IsLeave, Asks, IsWhois
<1>1. /\ Reads(c, p, e, s, k, FALSE) /\ b
      /\ ~Joins(p) /\ ~Leaves(p) /\ ~Joins(e) /\ ~Leaves(e)
  BY <1>0, ReadsEnded
<1>2. /\ e \in Seq(DownItems) /\ w \in Seq(DownItems) /\ <<x>> \in Seq(DownItems)
      /\ w \o e \in Seq(DownItems)
  BY DEF DownItems
<1> DEFINE g == w \o e
<1>3. <<x>> \o w \o e = <<x>> \o g
  BY <1>2
<1>4. /\ Range(g) = Range(w) \union Range(e)
      /\ \A u, v : Before(g, u, v) <=>
           Before(w, u, v) \/ Before(e, u, v) \/ (u \in Range(w) /\ v \in Range(e))
  BY <1>2, ConcatBefore
<1>5. Mix(e, g)
  BY <1>4, BeforeIn DEF Mix
<1>6. Reads(c, p, g, s, k, FALSE)
  BY <1>1, <1>5, MixDown
<1> DEFINE d == <<x>> \o g
<1>7. /\ Range(d) = {x} \union Range(g)
      /\ \A u, v : Before(d, u, v) => Before(g, u, v) \/ (u = x /\ v \in Range(g))
  <2>1. Range(<<x>>) = {x} /\ \A u, v : ~Before(<<x>>, u, v)
    BY DEF Range, Before
  <2>2. g \in Seq(DownItems)
    BY <1>2
  <2> HIDE DEF g
  <2> QED BY <1>2, <2>1, <2>2, ConcatBefore
<1> HIDE DEF e, g, d
<1>8. ~Joins(g) /\ InOrder(g) /\ ~Leaves(g) /\ ~Asked(p) /\ ~Asked(g)
  <2>1. ~Joins(g) /\ InOrder(g)
    BY <1>6 DEF Reads, Course
  <2>2. ~Leaves(g)
    BY <1>1, <1>5, MixSees
  <2> QED BY <1>1, <2>1, <2>2 DEF Asked, Joins, IsJoin
<1>9. InOrder(d)
  <2>1. \A y \in Range(d) : Asks(y)
    BY <1>0, <1>7, <1>8 DEF InOrder
  <2>2. ASSUME NEW u \in Range(d), NEW v \in Range(d), Before(d, u, v), IsJoin(u)
        PROVE  ~IsJoin(v) /\ ~IsLeave(v)
    BY <1>7, <1>8, <2>2, BeforeIn DEF Joins, Leaves
  <2> QED BY <2>1, <2>2 DEF InOrder
<1>10. ~Leaves(d) /\ ~Asked(d)
  BY <1>0, <1>7, <1>8 DEF Leaves, Asked, ForJoin, IsWhois
<1>11. Course(p, d, b)
  BY <1>1, <1>6, <1>8, <1>9, <1>10 DEF Reads, Course
<1>12. LeaveKeys(d, c, s)
  BY <1>10 DEF LeaveKeys, Leaves
<1>13. Due(p, q)
  BY TailBefore DEF Due, Asked
<1>14. Reads(c, p, d, s, k, b)
  BY <1>11, <1>12, <1>13 DEF Reads
<1> QED BY <1>3, <1>14 DEF d, e, g

-----------------------------------------------------------------------------
(* The keys of an entry.                                                   *)

(* The fields of an entry, whatever they hold.                             *)
Fields == {"refs", "cached", "users", "key", "old", "timers", "resolving"}
Shape(c) == DOMAIN c = Fields /\ c = [f \in Fields |-> c[f]]

(* The keys and their timers are kept, or all of them freed, and we are    *)
(* not added to the users.                                                 *)
KeepsKeys(c, d) ==
  /\ Shape(d)
  /\ \/ d.key = c.key /\ d.old = c.old /\ d.timers = c.timers
     \/ d.key = NoKey /\ d.old = <<>> /\ d.timers = <<>>
  /\ "self" \in d.users => "self" \in c.users

(* An entry has its fields; the one that is not there has no keys. *)
LEMMA EntryShape ==
  /\ \A c \in Entries : Shape(c)
  /\ Shape(NoEntry) /\ NoEntry.key = NoKey /\ NoEntry.old = <<>> /\ NoEntry.timers = <<>>
  /\ NoEntry.users = {}
<1>1. \A c \in Entries : Shape(c)
  BY DEF Entries, Shape, Fields
<1>2. NoEntry.key = NoKey /\ NoEntry.old = <<>> /\ NoEntry.timers = <<>> /\ NoEntry.users = {}
  BY DEF NoEntry
<1> QED BY <1>1, <1>2, NoEntryGood

(* A field other than those of the keys is set. *)
LEMMA ShapeSet ==
  ASSUME NEW c, Shape(c), NEW v
  PROVE  /\ KeepsKeys(c, [c EXCEPT !.refs = v])
         /\ KeepsKeys(c, [c EXCEPT !.cached = v])
         /\ KeepsKeys(c, [c EXCEPT !.resolving = v])
         /\ [c EXCEPT !.refs = v].users = c.users
         /\ [c EXCEPT !.cached = v].users = c.users
         /\ "self" \notin v => KeepsKeys(c, [c EXCEPT !.users = v])
         /\ Shape([c EXCEPT !.users = v])
BY DEF KeepsKeys, Shape, Fields

(* One after the other. *)
LEMMA KeepsTwice ==
  ASSUME NEW c, NEW d, NEW e, KeepsKeys(c, d), KeepsKeys(d, e)
  PROVE  KeepsKeys(c, e)
BY DEF KeepsKeys

(* References are taken and given back, and the entry is deleted. *)
LEMMA KeepsRefs ==
  ASSUME NEW c, Shape(c)
  PROVE  /\ KeepsKeys(c, c) /\ KeepsKeys(c, Ref(c)) /\ KeepsKeys(c, Unref(c))
         /\ KeepsKeys(c, Del(c))
         /\ c.users = {} => Unref(c).users = {} /\ Del(c).users = {}
<1>1. KeepsKeys(c, c) /\ KeepsKeys(c, NoEntry)
  BY EntryShape DEF KeepsKeys
<1>2. KeepsKeys(c, Ref(c))
  BY ShapeSet DEF Ref
<1>3. ASSUME NEW d, Shape(d)
      PROVE  KeepsKeys(d, Unref(d)) /\ (d.users = {} => Unref(d).users = {})
  <2>1. CASE d.refs = 1
    <3>1. Unref(d) = NoEntry
      BY <2>1 DEF Unref
    <3> QED BY <1>3, <3>1, EntryShape DEF KeepsKeys
  <2>2. CASE d.refs # 1
    <3> DEFINE v == d.refs - 1
    <3>1. Unref(d) = [d EXCEPT !.refs = v]
      BY <2>2 DEF Unref
    <3> HIDE DEF v
    <3>2. KeepsKeys(d, [d EXCEPT !.refs = v]) /\ [d EXCEPT !.refs = v].users = d.users
      BY <1>3, ShapeSet
    <3> QED BY <3>1, <3>2, Zenon
  <2> QED BY <2>1, <2>2
<1>4. KeepsKeys(c, Del(c)) /\ (c.users = {} => Del(c).users = {})
  <2> DEFINE d == [c EXCEPT !.cached = FALSE]
  <2>1. KeepsKeys(c, d) /\ d.users = c.users
    BY ShapeSet
  <2>2. Del(c) = IF c.cached THEN Unref(d) ELSE c
    BY DEF Del
  <2> HIDE DEF d
  <2>3. KeepsKeys(d, Unref(d)) /\ (d.users = {} => Unref(d).users = {})
    BY <1>3, <2>1 DEF KeepsKeys
  <2> QED BY <1>1, <2>1, <2>2, <2>3, KeepsTwice
<1> QED BY <1>1, <1>2, <1>3, <1>4

(* Others are added, and users are removed. *)
LEMMA KeepsUsers ==
  ASSUME NEW c, Shape(c)
  PROVE  /\ \A u : KeepsKeys(c, RemoveUser(c, u))
         /\ KeepsKeys(c, Empty(c)) /\ Empty(c).users = {}
         /\ KeepsKeys(c, AddUsers(c, {"peer"}))
<1>1. ASSUME NEW u
      PROVE  KeepsKeys(c, RemoveUser(c, u))
  <2> DEFINE d == [c EXCEPT !.users = c.users \ {u}]
  <2>1. KeepsKeys(c, d)
    BY DEF KeepsKeys, Shape, Fields
  <2>2. RemoveUser(c, u) = IF u \notin c.users THEN c
                           ELSE Unref(IF d.users = {} THEN Del(d) ELSE d)
    BY DEF RemoveUser
  <2> HIDE DEF d
  <2>3. KeepsKeys(d, Del(d)) /\ KeepsKeys(d, Unref(d)) /\ KeepsKeys(c, c)
    BY <2>1, KeepsRefs DEF KeepsKeys
  <2>4. KeepsKeys(Del(d), Unref(Del(d)))
    BY <2>3, KeepsRefs DEF KeepsKeys
  <2> QED BY <2>1, <2>2, <2>3, <2>4, KeepsTwice
<1>2. KeepsKeys(c, Empty(c)) /\ Empty(c).users = {}
  BY DEF Empty, KeepsKeys, Shape, Fields
<1>3. KeepsKeys(c, AddUsers(c, {"peer"}))
  BY DEF AddUsers, KeepsKeys, Shape, Fields
<1> QED BY <1>1, <1>2, <1>3

(* The notifies. *)
LEMMA KeepsNotified ==
  ASSUME NEW c, Shape(c), NEW n \in {"joined", "left", "kicked"}
  PROVE  KeepsKeys(c, Notified(c, n))
<1> DEFINE a == Ref(c)
<1>1. KeepsKeys(c, a)
  BY KeepsRefs
<1> HIDE DEF a
<1>2. Shape(a)
  BY <1>1 DEF KeepsKeys
<1>3. ASSUME NEW d, KeepsKeys(a, d)
      PROVE  KeepsKeys(c, Unref(d))
  BY <1>1, <1>3, KeepsRefs, KeepsTwice DEF KeepsKeys
<1>4. CASE n = "joined"
  <2>1. Notified(c, n) = Unref(AddUsers(a, {"peer"}))
    BY <1>4 DEF Notified, a
  <2> QED BY <1>2, <1>3, <2>1, KeepsUsers
<1>5. CASE n = "left"
  <2>1. Notified(c, n) = Unref(RemoveUser(a, "peer"))
    BY <1>5 DEF Notified, a
  <2> QED BY <1>2, <1>3, <2>1, KeepsUsers
<1>6. CASE n = "kicked"
  <2>1. Notified(c, n) = Unref(Del(Empty(a)))
    BY <1>6 DEF Notified, a
  <2>2. KeepsKeys(a, Empty(a))
    BY <1>2, KeepsUsers
  <2>3. KeepsKeys(Empty(a), Del(Empty(a)))
    BY <2>2, KeepsRefs DEF KeepsKeys
  <2>4. KeepsKeys(a, Del(Empty(a)))
    BY <2>2, <2>3, KeepsTwice
  <2> QED BY <1>3, <2>1, <2>4
<1> QED BY <1>4, <1>5, <1>6

(* The entry a handler works on. *)
LEMMA KeepsGetOrAdd ==
  ASSUME NEW c, Shape(c), Exists(c) \/ c = NoEntry
  PROVE  KeepsKeys(c, GetOrAdd(c)) /\ Shape(GetOrAdd(c))
<1>1. CASE Exists(c)
  BY <1>1, KeepsRefs DEF GetOrAdd, KeepsKeys
<1>2. CASE ~Exists(c)
  <2> DEFINE d == [NoEntry EXCEPT !.refs = 2, !.cached = TRUE]
  <2>1. GetOrAdd(c) = d /\ c = NoEntry
    BY <1>2 DEF GetOrAdd
  <2>2. KeepsKeys(NoEntry, d)
    BY EntryShape DEF KeepsKeys, Shape, Fields
  <2> QED BY <2>1, <2>2 DEF KeepsKeys
<1> QED BY <1>1, <1>2

(* The keys of the entry are kept, or freed with their timers. *)
LEMMA ReadsKept ==
  ASSUME NEW c, NEW p, NEW q, NEW s \in Nat, NEW k, NEW b, Reads(c, p, q, s, k, b),
         NEW d, KeepsKeys(c, d)
  PROVE  Reads(d, p, q, s, k, b)
<1>1. CASE d.key = c.key /\ d.old = c.old /\ d.timers = c.timers
  BY <1>1 DEF Reads, KeepsKeys, LeaveKeys, NullFirst, StaleBelow
<1>2. CASE d.key = NoKey /\ d.old = <<>> /\ d.timers = <<>>
  <2>1. Range(d.timers) = {}
    BY <1>2 DEF Range
  <2>2. NullFirst(d) /\ StaleBelow(d, s)
    BY <1>2, <2>1 DEF NullFirst, StaleBelow
  <2>3. NoKey < s
    BY DEF Reads, NoKey
  <2>4. LeaveKeys(q, d, s)
    BY <1>2, <2>1, <2>3 DEF Reads, LeaveKeys
  <2> QED BY <2>1, <2>2, <2>4 DEF Reads
<1> QED BY <1>1, <1>2 DEF KeepsKeys

(* A saved key: the one before is among the old ones and has a timer. *)
LEMMA SaveKeyItems ==
  ASSUME NEW c, Shape(c), c.old \in Seq(Nat), c.timers \in Seq(Nat), c.key \in Nat, NEW k,
         NullFirst(c)
  PROVE  LET d == SaveKey(c, k) IN
         /\ Shape(d) /\ d.users = c.users /\ d.key = k
         /\ Range(d.old) = Range(c.old) \union {c.key}
         /\ Range(d.timers) = Range(c.timers) \union {c.key}
         /\ NullFirst(d)
<1> DEFINE d == SaveKey(c, k)
<1>1. /\ Shape(d) /\ d.users = c.users /\ d.key = k
      /\ d.old = Append(c.old, c.key) /\ d.timers = Append(c.timers, c.key)
  BY DEF SaveKey, Shape, Fields
<1> HIDE DEF d
<1>2. Range(d.old) = Range(c.old) \union {c.key} /\ Range(d.timers) = Range(c.timers) \union {c.key}
  <2>1. Range(Append(c.old, c.key)) = Range(c.old) \union {c.key}
    BY ONLY c.old \in Seq(Nat), c.key \in Nat, AppendBefore
  <2>2. Range(Append(c.timers, c.key)) = Range(c.timers) \union {c.key}
    BY ONLY c.timers \in Seq(Nat), c.key \in Nat, AppendBefore
  <2> QED BY <1>1, <2>1, <2>2, Zenon
<1>3. NullFirst(d)
  <2>0. Range(<<>>) = {}
    BY DEF Range
  <2>1. d.old # <<>>
    BY <1>2, <2>0
  <2>2. CASE c.old = <<>> /\ c.key = NoKey
    BY <1>1, <2>1, <2>2 DEF NullFirst
  <2>3. CASE c.old # <<>> /\ c.old[1] = NoKey
    <3>1. d.old[1] = c.old[1]
      BY <1>1, <2>3
    <3> QED BY <2>1, <2>3, <3>1 DEF NullFirst
  <2> QED BY <2>2, <2>3 DEF NullFirst
<1> QED BY <1>1, <1>2, <1>3 DEF d

(* A key packet. *)
LEMMA ReadsSaved ==
  ASSUME NEW c \in Entries, NEW p, NEW q \in Seq(DownItems),
         NEW s \in Nat, NEW k \in Nat, NEW b,
         Reads(c, p, q, s, k, b), c.key <= k, q # <<>>, Head(q).kind = "key"
  PROVE  Reads(SaveKey(c, Head(q).key), p, Tail(q), s, k, b)
<1> DEFINE h == Head(q)
<1> DEFINE d == SaveKey(c, h.key)
<1> DEFINE e == Tail(q)
<1>0. Shape(c) /\ c.old \in Seq(Nat) /\ c.timers \in Seq(Nat) /\ c.key \in Nat
  BY EntryShape DEF Entries
<1>1. Reads(c, p, e, s, k, b) /\ NullFirst(c)
  BY ReadsTaken DEF Reads
<1>2. /\ d.users = c.users /\ d.key = h.key
      /\ Range(d.old) = Range(c.old) \union {c.key}
      /\ Range(d.timers) = Range(c.timers) \union {c.key}
      /\ NullFirst(d)
  BY <1>0, <1>1, SaveKeyItems
<1>3. /\ Range(q) = {h} \union Range(e)
      /\ \A y \in Range(e) : Before(q, h, y)
  BY TailBefore
<1>4. Rejoined(e) => Rejoined(q)
  BY <1>3 DEF Rejoined
<1> HIDE DEF d, e
<1>5. LeaveKeys(e, d, s)
  <2>1. LeaveKeys(e, c, s) /\ LeaveKeys(q, c, s)
    BY <1>1 DEF Reads
  <2>2. ASSUME NEW y \in Range(e), IsLeave(y), Rejoined(e)
        PROVE  d.key < s /\ \A t \in Range(d.timers) : t < s
    <3>1. h.key < s
      BY <1>3, <1>4, <2>1, <2>2 DEF LeaveKeys
    <3>2. c.key < s /\ \A t \in Range(c.timers) : t < s
      BY <2>1, <2>2 DEF LeaveKeys
    <3> QED BY <1>2, <3>1, <3>2
  <2> QED BY <2>1, <2>2 DEF LeaveKeys
<1>6. StaleBelow(c, s) => StaleBelow(d, s)
  BY <1>2 DEF StaleBelow
<1>7. \A t \in Range(d.timers) : t <= k
  BY <1>1, <1>2 DEF Reads
<1> QED BY <1>1, <1>2, <1>5, <1>6, <1>7 DEF Reads, d, e

(* The reply to JOIN, which was due. *)
LEMMA ReadsReplied ==
  ASSUME NEW c \in Entries, NEW p, NEW q \in Seq(DownItems),
         NEW s \in Nat, NEW k \in Nat, NEW b,
         Reads(c, p, q, s, k, b), c.key <= k, q # <<>>, Head(q).kind = "join", NEW x, NEW m
  PROVE  Reads(JoinedChannel(c, x), p, Tail(q), s, k, m)
<1> DEFINE e == Tail(q)
<1> DEFINE a == AddUsers(c, x.users)
<1> DEFINE g == IF a.key = NoKey THEN SaveKey(a, x.key) ELSE a
<1>0. Shape(c) /\ c.old \in Seq(Nat) /\ c.timers \in Seq(Nat) /\ c.key \in Nat
  BY EntryShape DEF Entries
<1>1. /\ Reads(c, p, e, s, k, FALSE) /\ ~Leaves(e) /\ ~Joins(p) /\ ~Joins(e)
  BY ReadsEnded DEF IsJoin
<1>2. Shape(a) /\ a.key = c.key /\ a.old = c.old /\ a.timers = c.timers
  BY <1>0 DEF AddUsers, Shape, Fields
<1>3. JoinedChannel(c, x) = Unref(g)
  BY DEF JoinedChannel
<1>4. Due(p, q)
  BY TailBefore DEF Due, Rejoined
<1>5. StaleBelow(c, s) /\ NullFirst(c) /\ s >= 1 /\ \A t \in Range(c.timers) : t <= k
  BY <1>4 DEF Reads
<1> HIDE DEF a, e
<1>6. StaleBelow(a, s) /\ NullFirst(a) /\ \A t \in Range(a.timers) : t <= k
  BY <1>2, <1>5 DEF StaleBelow, NullFirst
<1>7. Shape(g) /\ StaleBelow(g, s) /\ NullFirst(g) /\ \A t \in Range(g.timers) : t <= k
  <2>1. CASE a.key = NoKey
    <3> DEFINE d == SaveKey(a, x.key)
    <3>1. /\ Shape(d)
          /\ Range(d.old) = Range(a.old) \union {a.key}
          /\ Range(d.timers) = Range(a.timers) \union {a.key}
          /\ NullFirst(d)
      BY <1>0, <1>2, <1>6, SaveKeyItems
    <3>2. g = d
      BY <2>1
    <3> HIDE DEF d, g
    <3>3. StaleBelow(d, s) /\ \A t \in Range(d.timers) : t <= k
      BY <1>2, <1>6, <3>1 DEF StaleBelow
    <3> QED BY <3>1, <3>2, <3>3
  <2>2. CASE a.key # NoKey
    BY <1>2, <1>6, <2>2
  <2> QED BY <2>1, <2>2
<1> HIDE DEF g
<1>8. Course(p, e, m)
  BY <1>1 DEF Reads, Course
<1>9. LeaveKeys(e, g, s)
  BY <1>1 DEF LeaveKeys, Leaves
<1>10. Reads(g, p, e, s, k, m)
  BY <1>5, <1>7, <1>8, <1>9 DEF Reads
<1>11. KeepsKeys(g, Unref(g))
  BY <1>7, KeepsRefs
<1>12. Reads(Unref(g), p, e, s, k, m)
  BY <1>10, <1>11, ReadsKept
<1> QED BY <1>3, <1>12 DEF e

(* The reply to LEAVE frees the keys; the timers go on. *)
LEMMA LeftKeys ==
  ASSUME NEW c, Shape(c)
  PROVE  LET d == LeftChannel(c) IN
         d.key = NoKey /\ d.old = <<>> /\ d.timers \in {c.timers, <<>>} /\ d.users = {}
<1> DEFINE a == RemoveUser(Ref(c), "self")
<1> DEFINE g == [a EXCEPT !.key = NoKey, !.old = <<>>]
<1>1. LeftChannel(c) = Del(Empty(g))
  BY DEF LeftChannel
<1>2. Shape(a) /\ a.timers \in {c.timers, <<>>}
  <2>1. KeepsKeys(c, Ref(c))
    BY KeepsRefs
  <2>2. KeepsKeys(Ref(c), a)
    BY <2>1, KeepsUsers DEF KeepsKeys
  <2> QED BY <2>1, <2>2 DEF KeepsKeys
<1> HIDE DEF a
<1>3. Shape(g) /\ g.key = NoKey /\ g.old = <<>> /\ g.timers = a.timers
  BY <1>2 DEF Shape, Fields
<1> HIDE DEF g
<1>4. KeepsKeys(g, Empty(g)) /\ Empty(g).users = {}
  BY <1>3, KeepsUsers
<1>5. KeepsKeys(Empty(g), Del(Empty(g))) /\ Del(Empty(g)).users = {}
  BY <1>4, KeepsRefs DEF KeepsKeys
<1> QED BY <1>1, <1>2, <1>3, <1>4, <1>5 DEF KeepsKeys

(* The timers that go on are older than the reply to JOIN behind LEAVE. *)
LEMMA ReadsForgotten ==
  ASSUME NEW c \in Entries, NEW p, NEW q \in Seq(DownItems),
         NEW s \in Nat, NEW k \in Nat, NEW b,
         Reads(c, p, q, s, k, b), q # <<>>, Head(q).kind = "leave"
  PROVE  Reads(LeftChannel(c), p, Tail(q), s, k, b)
<1> DEFINE d == LeftChannel(c)
<1> DEFINE e == Tail(q)
<1>0. Shape(c) /\ c.timers \in Seq(Nat)
  BY EntryShape DEF Entries
<1>1. Reads(c, p, e, s, k, b)
  BY ReadsTaken
<1>2. d.key = NoKey /\ d.old = <<>> /\ d.timers \in {c.timers, <<>>} /\ d.users = {}
  BY <1>0, LeftKeys
<1>3. Range(q) = {Head(q)} \union Range(e) /\ IsLeave(Head(q))
  BY TailBefore DEF IsLeave
<1> HIDE DEF d, e
<1>4. Leaves(q) /\ Head(q) \in Range(q)
  BY <1>3 DEF Leaves
<1>5. ~Asked(p) /\ ~Asked(q)
  BY <1>4 DEF Reads, Course
<1>6. ~Asked(e) /\ (Rejoined(e) => Rejoined(q))
  BY <1>3, <1>5 DEF Asked, Rejoined
<1>7. Rejoined(e) => \A t \in Range(c.timers) : t < s
  BY <1>3, <1>4, <1>6 DEF Reads, LeaveKeys
<1>8. Range(d.timers) = {} \/ d.timers = c.timers
  BY <1>2 DEF Range
<1>9. NullFirst(d) /\ (\A t \in Range(d.timers) : t <= k) /\ s >= 1
  BY <1>2, <1>8 DEF Reads, NullFirst
<1>10. LeaveKeys(e, d, s)
  <2>1. LeaveKeys(e, c, s)
    BY <1>1 DEF Reads
  <2>2. d.key < s
    BY <1>2, <1>9 DEF NoKey
  <2> QED BY <1>8, <2>1, <2>2 DEF LeaveKeys
<1>11. Due(p, e) => StaleBelow(d, s)
  <2> SUFFICES ASSUME Due(p, e) PROVE StaleBelow(d, s)
    OBVIOUS
  <2>1. \A t \in Range(c.timers) : t < s /\ t \in Nat
    BY <1>0, <1>5, <1>6, <1>7 DEF Due, Range
  <2> QED BY <1>8, <2>1 DEF StaleBelow
<1> QED BY <1>1, <1>2, <1>9, <1>10, <1>11 DEF Reads, d, e

(* A timer: the first of the old keys is NULL, so that none is removed. *)
LEMMA ReadsExpired ==
  ASSUME NEW c \in Entries, NEW p, NEW q, NEW s \in Nat, NEW k, NEW b,
         Reads(c, p, q, s, k, b), c.timers # <<>>
  PROVE  Reads(Expired(c), p, q, s, k, b)
<1> DEFINE d == Expired(c)
<1>0. Shape(c) /\ c.timers \in Seq(Nat) /\ c.old \in Seq(Nat)
  BY EntryShape DEF Entries
<1>1. c.old # <<>> => Head(c.old) = NoKey
  <2>1. NullFirst(c)
    BY DEF Reads
  <2> QED BY <1>0, <2>1 DEF NullFirst
<1>2. d = [c EXCEPT !.timers = Tail(c.timers), !.old = c.old]
  BY <1>1 DEF Expired
<1>3. d.key = c.key /\ d.old = c.old /\ d.timers = Tail(c.timers) /\ d.users = c.users
  BY <1>0, <1>2 DEF Shape, Fields
<1>4. Range(Tail(c.timers)) \subseteq Range(c.timers)
  BY <1>0, TailBefore
<1> HIDE DEF d
<1> QED BY <1>3, <1>4 DEF Reads, LeaveKeys, NullFirst, StaleBelow, d

-----------------------------------------------------------------------------
(* The steps.                                                              *)

(* What ChannelInv says of the types. *)
LEMMA ReadTypes ==
  ASSUME ChannelInv
  PROVE  /\ entry \in Entries /\ (Exists(entry) \/ entry = NoEntry)
         /\ Shape(entry) /\ entry.timers \in Seq(Nat) /\ entry.key \in Nat
         /\ up \in Seq(UpItems) /\ down \in Seq(DownItems)
         /\ server.since \in Nat /\ server.key \in Nat
         /\ NotNewer(down, server.key) /\ entry.key <= server.key
         /\ \A w \in DOMAIN waiting : /\ waiting[w] \in Seq(Packets)
                                      /\ \A y \in Range(waiting[w]) : Plain(y) /\ y.kind # "key"
<1>1. /\ Good(entry, Cardinality(Held(up, down))) /\ WaitOK(waiting)
      /\ Wires(up, down, Len(waiting), server.key, entry.key)
      /\ server \in [key : Nat, since : Nat, users : SUBSET User]
  BY DEF ChannelInv, Parts
<1>2. entry \in Entries /\ (Exists(entry) \/ entry = NoEntry)
  BY <1>1 DEF Good, Exists
<1>3. Shape(entry) /\ entry.timers \in Seq(Nat) /\ entry.key \in Nat
  BY <1>2, EntryShape DEF Entries
<1>4. /\ up \in Seq(UpItems) /\ down \in Seq(DownItems)
      /\ NotNewer(down, server.key) /\ entry.key <= server.key
  BY <1>1 DEF Wires
<1>5. ASSUME NEW w \in DOMAIN waiting
      PROVE  /\ waiting[w] \in Seq(Packets)
             /\ \A y \in Range(waiting[w]) : Plain(y) /\ y.kind # "key"
  <2>1. waiting[w] \in Seq(Packets)
    BY <1>1 DEF WaitOK
  <2>2. \A y \in Range(waiting[w]) : y.kind \in {"joined", "left", "kicked"}
    BY <1>1 DEF WaitOK, Range
  <2> QED BY <2>1, <2>2 DEF Plain, IsJoin, ForJoin, IsLeave, Asks, IsWhois
<1>6. server.since \in Nat /\ server.key \in Nat
  BY <1>1
<1> QED BY <1>2, <1>3, <1>4, <1>5, <1>6

(* The initial states. *)
LEMMA ReadInit == Init => ReadInv
<1> SUFFICES ASSUME Init PROVE ReadInv
  OBVIOUS
<1>1. server.since = 1 /\ server.key = 1 /\ entry = NoEntry /\ up = <<>> /\ down = <<>>
  BY DEF Init
<1>2. Range(<<>>) = {}
  BY DEF Range
<1>3. Course(<<>>, <<>>, joining)
  BY <1>2 DEF Course, InOrder, Joins, Leaves, Asked
<1>4. LeaveKeys(<<>>, NoEntry, 1) /\ ~Due(<<>>, <<>>)
  BY <1>2 DEF LeaveKeys, Due, Rejoined, Asked
<1>5. NullFirst(NoEntry) /\ Range(NoEntry.timers) = {} /\ NoEntry.users = {}
  BY <1>2, EntryShape DEF NullFirst
<1>6. Reads(NoEntry, <<>>, <<>>, 1, 1, joining)
  BY <1>3, <1>4, <1>5 DEF Reads
<1> QED BY <1>1, <1>6 DEF ReadInv

(* JOIN and LEAVE are called. *)
LEMMA ReadCall ==
  ASSUME ChannelInv, ReadInv, Patient, CallJoin \/ CallLeave
  PROVE  ReadInv'
<1>1. up \in Seq(UpItems)
  BY ReadTypes
<1>2. entry' = entry /\ down' = down /\ server' = server
  BY DEF CallJoin, CallLeave
<1>3. CASE CallJoin
  <2> DEFINE x == [kind |-> "join"]
  <2>1. x \in UpItems /\ x.kind = "join"
    BY DEF UpItems
  <2>2. up' = Append(up, x) /\ joining' = TRUE /\ ~joining
    BY <1>3 DEF CallJoin
  <2> HIDE DEF x
  <2>3. ~Joins(up) /\ ~Joins(down)
    BY <2>2 DEF ReadInv, Reads, Course
  <2>4. Reads(entry, Append(up, x), down, server.since, server.key, joining')
    BY <1>1, <2>1, <2>2, <2>3, ReadsJoinCalled DEF ReadInv
  <2> QED BY <1>2, <2>2, <2>4 DEF ReadInv
<1>4. CASE CallLeave
  <2> DEFINE x == [kind |-> "leave"]
  <2>1. x \in UpItems /\ x.kind = "leave"
    BY DEF UpItems
  <2>2. "early" \notin acts
    BY DEF ChannelInv, Patient
  <2>3. up' = Append(up, x) /\ joining' = joining /\ ~joining
    BY <1>4, <2>2 DEF CallLeave
  <2> HIDE DEF x
  <2>4. Reads(entry, Append(up, x), down, server.since, server.key, joining)
    BY <1>1, <2>1, <2>3, ReadsLeaveCalled DEF ReadInv
  <2> QED BY <1>2, <2>3, <2>4 DEF ReadInv
<1> QED BY <1>3, <1>4

(* A timer of an old key. *)
LEMMA ReadExpire ==
  ASSUME ChannelInv, ReadInv, Expire
  PROVE  ReadInv'
<1>1. entry \in Entries /\ server.since \in Nat
  BY ReadTypes
<1>2. Reads(Expired(entry), up, down, server.since, server.key, joining)
  BY <1>1, ReadsExpired DEF ReadInv, Expire
<1> QED BY <1>2 DEF ReadInv, Expire

(* Our own JOIN alone changes the key we were given first. *)
LEMMA ServerSince ==
  ASSUME server \in [key : Nat, since : Nat, users : SUBSET User], NEW u \in User,
         Joined(u) \/ Left(u)
  PROVE  /\ server'.key = server.key + 1 /\ server.key \in Nat /\ server'.key \in Nat
         /\ server'.since = server.since
              \/ (Joined(u) /\ u = "self" /\ server'.since = server.key + 1)
<1>1. server'.key = server.key + 1 /\ server.key \in Nat /\ server'.key \in Nat
  BY NewKey
<1>2. CASE Joined(u)
  BY <1>2 DEF Joined
<1>3. CASE Left(u)
  BY <1>3 DEF Left
<1> QED BY <1>1, <1>2, <1>3

(* The server answers JOIN. *)
LEMMA ReadServeJoin ==
  ASSUME ChannelInv, ReadInv, ServeJoin
  PROVE  ReadInv'
<1>1. /\ entry \in Entries /\ entry.timers \in Seq(Nat) /\ entry.key \in Nat
      /\ up \in Seq(UpItems) /\ down \in Seq(DownItems)
      /\ server.since \in Nat /\ server.key \in Nat
      /\ NotNewer(down, server.key) /\ entry.key <= server.key
  BY ReadTypes
<1>2. /\ up # <<>> /\ Head(up).kind = "join" /\ up' = Tail(up) /\ entry' = entry
      /\ joining' = joining
  BY DEF ServeJoin
<1>3. Reads(entry, up, down, server.since, server.key, joining)
  BY DEF ReadInv
<1>4. CASE Joined("self") /\ down' = Append(down, Packet("join", server'.key, server'.users))
  <2>0. server \in [key : Nat, since : Nat, users : SUBSET User]
    BY DEF ChannelInv
  <2>1. /\ server'.key = server.key + 1 /\ server'.since = server.key + 1
        /\ server'.users \in SUBSET User
    BY <1>4, <2>0 DEF Joined, User
  <2> DEFINE x == Packet("join", server'.key, server'.users)
  <2>2. x \in Packets /\ x.kind = "join"
    <3>1. server'.key \in Nat
      BY <1>1, <2>1
    <3> QED BY <2>1, <3>1, PacketItems
  <2> HIDE DEF x
  <2>3. Reads(entry, Tail(up), Append(down, x), server.key + 1, server.key + 1, joining)
    BY <1>1, <1>2, <1>3, <2>2, ReadsJoined
  <2> QED BY <1>2, <1>4, <2>1, <2>3 DEF ReadInv, x
<1>5. CASE down' = Append(down, Packet("refused", NoKey, {})) /\ UNCHANGED server
  <2> DEFINE x == Packet("refused", NoKey, {})
  <2>1. x \in Packets /\ x.kind = "refused"
    BY PacketItems DEF NoKey
  <2> HIDE DEF x
  <2>2. Reads(entry, Tail(up), Append(down, x), server.since, server.key, joining)
    BY <1>1, <1>2, <1>3, <2>1, ReadsRefused
  <2> QED BY <1>2, <1>5, <2>2 DEF ReadInv, x
<1> QED BY <1>4, <1>5 DEF ServeJoin

(* Packets that are neither for JOIN nor for LEAVE. *)
LEMMA PlainPackets ==
  ASSUME NEW x, x.kind \in {"not_on_channel", "joined", "left", "kicked", "key", "message"}
  PROVE  Plain(x)
BY DEF Plain, IsJoin, ForJoin, IsLeave, Asks, IsWhois

(* The server sends one of them. *)
LEMMA ReadsSent ==
  ASSUME NEW c, NEW p, NEW q \in Seq(DownItems), NEW s, NEW k, NEW b, Reads(c, p, q, s, k, b),
         NEW x \in Packets,
         x.kind \in {"not_on_channel", "joined", "left", "kicked", "key", "message"}
  PROVE  Reads(c, p, Append(q, x), s, k, b)
<1>1. Plain(x) /\ x \in DownItems
  BY PlainPackets DEF DownItems
<1>2. Mix(q, Append(q, x))
  BY <1>1, MixAppend
<1> QED BY <1>2, MixDown

(* The server answers LEAVE. *)
LEMMA ReadServeLeave ==
  ASSUME ChannelInv, ReadInv, ServeLeave
  PROVE  ReadInv'
<1>1. /\ entry.timers \in Seq(Nat) /\ up \in Seq(UpItems) /\ down \in Seq(DownItems)
      /\ server.since \in Nat /\ server.key \in Nat
  BY ReadTypes
<1>2. /\ up # <<>> /\ Head(up).kind = "leave" /\ up' = Tail(up) /\ entry' = entry
      /\ joining' = joining
  BY DEF ServeLeave
<1>3. Reads(entry, up, down, server.since, server.key, joining)
  BY DEF ReadInv
<1>4. CASE Left("self") /\ down' = Append(down, Packet("leave", NoKey, {}))
  <2>0. server \in [key : Nat, since : Nat, users : SUBSET User]
    BY DEF ChannelInv
  <2>1. server'.key = server.key + 1 /\ server'.since = server.since /\ server'.key \in Nat
    BY <1>4, <2>0 DEF Left, User
  <2> DEFINE x == Packet("leave", NoKey, {})
  <2>2. x \in Packets /\ x.kind = "leave"
    BY PacketItems DEF NoKey
  <2> HIDE DEF x
  <2>3. Reads(entry, up, down, server.since, server'.key, joining)
    BY <1>1, <1>3, <2>1, ReadsNewer
  <2>4. Reads(entry, Tail(up), Append(down, x), server.since, server'.key, joining)
    BY <1>1, <1>2, <2>2, <2>3, ReadsLeft
  <2> QED BY <1>2, <1>4, <2>1, <2>4 DEF ReadInv, x
<1>5. CASE down' = Append(down, Packet("not_on_channel", NoKey, {})) /\ UNCHANGED server
  <2> DEFINE x == Packet("not_on_channel", NoKey, {})
  <2>1. x \in Packets /\ x.kind = "not_on_channel"
    BY PacketItems DEF NoKey
  <2> HIDE DEF x
  <2>2. Reads(entry, Tail(up), down, server.since, server.key, joining)
    BY <1>1, <1>2, <1>3, MixTail, MixUp
  <2>3. Reads(entry, Tail(up), Append(down, x), server.since, server.key, joining)
    BY <1>1, <2>1, <2>2, ReadsSent
  <2> QED BY <1>2, <1>5, <2>3 DEF ReadInv, x
<1> QED BY <1>4, <1>5 DEF ServeLeave

(* The server answers WHOIS. *)
LEMMA ReadServeWhois ==
  ASSUME ChannelInv, ReadInv, ServeWhois
  PROVE  ReadInv'
<1>1. up \in Seq(UpItems) /\ down \in Seq(DownItems)
  BY ReadTypes
<1>2. /\ up # <<>> /\ IsWhois(Head(up)) /\ up' = Tail(up)
      /\ entry' = entry /\ server' = server /\ joining' = joining
  BY DEF ServeWhois, IsWhois
<1>3. PICK ok \in BOOLEAN : down' = Append(down, [Head(up) EXCEPT !.ok = ok])
  BY DEF ServeWhois
<1>4. Head(up) \in Whois
  <2>1. Head(up) \in UpItems
    BY <1>1, <1>2, TailItems
  <2> QED BY <1>2, <2>1, Items
<1> DEFINE x == [Head(up) EXCEPT !.ok = ok]
<1>5. x \in Whois /\ x.for = Head(up).for
  BY <1>4 DEF Whois
<1> HIDE DEF x
<1>6. Reads(entry, Tail(up), Append(down, x), server.since, server.key, joining)
  BY <1>1, <1>2, <1>5, ReadsAnswered DEF ReadInv
<1> QED BY <1>2, <1>3, <1>6 DEF ReadInv, x

(* The other user joins or leaves. *)
LEMMA ReadPeerMoves ==
  ASSUME ChannelInv, ReadInv, PeerMoves
  PROVE  ReadInv'
<1>1. /\ down \in Seq(DownItems) /\ entry.timers \in Seq(Nat)
      /\ server.since \in Nat /\ server.key \in Nat
      /\ server \in [key : Nat, since : Nat, users : SUBSET User]
  BY ReadTypes DEF ChannelInv
<1>2. entry' = entry /\ up' = up /\ joining' = joining
  BY DEF PeerMoves
<1>3. Joined("peer") \/ Left("peer")
  BY DEF PeerMoves
<1>4. server'.key = server.key + 1 /\ server'.key \in Nat /\ server'.since = server.since
  <2>1. "peer" \in User /\ "peer" # "self"
    BY DEF User
  <2> QED BY <1>1, <1>3, <2>1, ServerSince
<1>5. Reads(entry, up, down, server.since, server'.key, joining)
  BY <1>1, <1>4, ReadsNewer DEF ReadInv
<1>6. CASE down' = down
  BY <1>2, <1>4, <1>5, <1>6 DEF ReadInv
<1>7. CASE down' # down
  <2>1. PICK n \in {"left", "joined"} :
          down' = down \o <<Packet(n, NoKey, {"peer"}), Packet("key", server'.key, {})>>
    BY <1>7 DEF PeerMoves
  <2> DEFINE x == Packet(n, NoKey, {"peer"})
  <2> DEFINE y == Packet("key", server'.key, {})
  <2>2. x \in Packets /\ x.kind = n
    <3>1. {"peer"} \in SUBSET User /\ NoKey \in Nat
      BY DEF User, NoKey
    <3> QED BY <3>1, PacketItems
  <2>3. y \in Packets /\ y.kind = "key"
    BY <1>4, PacketItems
  <2> HIDE DEF x, y
  <2>4. down \o <<x, y>> = Append(Append(down, x), y) /\ Append(down, x) \in Seq(DownItems)
    <3>1. x \in DownItems /\ y \in DownItems
      BY <2>2, <2>3 DEF DownItems
    <3> QED BY <1>1, <3>1
  <2>5. Reads(entry, up, Append(down, x), server.since, server'.key, joining)
    BY <1>1, <1>5, <2>2, ReadsSent
  <2>6. Reads(entry, up, Append(Append(down, x), y), server.since, server'.key, joining)
    BY <2>3, <2>4, <2>5, ReadsSent
  <2>7. down' = Append(Append(down, x), y)
    BY <2>1, <2>4, Zenon DEF x, y
  <2> QED BY <1>2, <1>4, <2>6, <2>7 DEF ReadInv
<1> QED BY <1>6, <1>7

(* We are kicked. *)
LEMMA ReadKick ==
  ASSUME ChannelInv, ReadInv, Kick
  PROVE  ReadInv'
<1>1. /\ down \in Seq(DownItems) /\ entry.timers \in Seq(Nat) /\ server.key \in Nat
      /\ server \in [key : Nat, since : Nat, users : SUBSET User]
  BY ReadTypes DEF ChannelInv
<1>2. entry' = entry /\ up' = up /\ joining' = joining /\ Left("self")
  BY DEF Kick
<1>3. server'.key = server.key + 1 /\ server'.key \in Nat /\ server'.since = server.since
  BY <1>1, <1>2 DEF Left
<1>4. Reads(entry, up, down, server.since, server'.key, joining)
  BY <1>1, <1>3, ReadsNewer DEF ReadInv
<1> DEFINE x == Packet("kicked", NoKey, {"self"})
<1>5. x \in Packets /\ x.kind = "kicked"
  <2>1. {"self"} \in SUBSET User /\ NoKey \in Nat
    BY DEF User, NoKey
  <2> QED BY <2>1, PacketItems
<1>6. down' = Append(down, x)
  BY DEF Kick
<1> HIDE DEF x
<1>7. Reads(entry, up, Append(down, x), server.since, server'.key, joining)
  BY <1>1, <1>4, <1>5, ReadsSent
<1> QED BY <1>2, <1>3, <1>6, <1>7 DEF ReadInv

(* The other user speaks. *)
LEMMA ReadSay ==
  ASSUME ChannelInv, ReadInv, Say
  PROVE  ReadInv'
<1>1. down \in Seq(DownItems) /\ server.since \in Nat /\ server.key \in Nat
  BY ReadTypes
<1>2. entry' = entry /\ up' = up /\ joining' = joining /\ server' = server
  BY DEF Say
<1>3. PICK k \in {server.key, server.key - 1} :
        k >= server.since /\ down' = Append(down, Packet("message", k, {"peer"}))
  BY DEF Say
<1>4. k \in Nat
  BY <1>1, <1>3
<1> DEFINE x == Packet("message", k, {"peer"})
<1>5. x \in Packets /\ x.kind = "message"
  <2>1. {"peer"} \in SUBSET User
    BY DEF User
  <2> QED BY <1>4, <2>1, PacketItems
<1> HIDE DEF x
<1>6. Reads(entry, up, Append(down, x), server.since, server.key, joining)
  BY <1>1, <1>5, ReadsSent DEF ReadInv
<1> QED BY <1>2, <1>3, <1>6 DEF ReadInv, x

(* The reply to JOIN. *)
LEMMA ReadReplyJoin ==
  ASSUME ChannelInv, ReadInv, ReplyJoin
  PROVE  ReadInv'
<1> DEFINE h == Head(down)
<1> DEFINE g == GetOrAdd(entry)
<1>1. /\ entry \in Entries /\ Shape(entry) /\ (Exists(entry) \/ entry = NoEntry)
      /\ up \in Seq(UpItems) /\ down \in Seq(DownItems)
      /\ server.since \in Nat /\ server.key \in Nat /\ entry.key <= server.key
  BY ReadTypes
<1>2. /\ down # <<>> /\ ~IsWhois(h) /\ h.kind = "join" /\ down' = Tail(down) /\ server' = server
  BY DEF ReplyJoin, Arrived, IsWhois, Taken
<1>3. h \in Packets /\ waiting \in Seq(Seq(Packets))
  BY <1>2, TakenParts DEF Taken
<1>4. g \in Entries /\ g.key = entry.key
  BY GetOrAddGood DEF ChannelInv, Parts, Good
<1>5. KeepsKeys(entry, g) /\ Shape(g)
  BY <1>1, KeepsGetOrAdd
<1>6. Reads(g, up, down, server.since, server.key, joining)
  BY <1>1, <1>5, ReadsKept DEF ReadInv
<1> HIDE DEF g
<1>7. CASE entry' = JoinedChannel(g, h) /\ up' = up
  <2>1. Reads(JoinedChannel(g, h), up, Tail(down), server.since, server.key, joining')
    BY <1>1, <1>2, <1>4, <1>6, ReadsReplied
  <2> QED BY <1>2, <1>7, <2>1 DEF ReadInv
<1>8. CASE Suspend(h) /\ entry' = [g EXCEPT !.resolving = NewWhois] /\ joining' = joining
  <2>1. PICK x \in Whois : up' = Append(up, x) /\ x.for = h
    BY <1>3, <1>8, SuspendItems
  <2>2. Reads(g, Append(up, x), Tail(down), server.since, server.key, joining)
    BY <1>1, <1>2, <1>6, <2>1, ReadsAsked
  <2> DEFINE d == [g EXCEPT !.resolving = NewWhois]
  <2>3. KeepsKeys(g, d)
    BY <1>5, ShapeSet
  <2> HIDE DEF d
  <2>4. Reads(d, Append(up, x), Tail(down), server.since, server.key, joining)
    BY <1>1, <2>2, <2>3, ReadsKept
  <2> QED BY <1>2, <1>8, <2>1, <2>4 DEF ReadInv, d
<1>9. \/ entry' = JoinedChannel(g, h) /\ up' = up
      \/ Suspend(h) /\ entry' = [g EXCEPT !.resolving = NewWhois] /\ joining' = joining
  BY DEF ReplyJoin, g
<1> QED BY <1>7, <1>8, <1>9

(* The replies with an error. *)
LEMMA ReadReplyError ==
  ASSUME ChannelInv, ReadInv, ReplyError
  PROVE  ReadInv'
<1>1. down \in Seq(DownItems)
  BY ReadTypes
<1>2. down # <<>> /\ down' = Tail(down) /\ UNCHANGED <<entry, up, server>>
  BY DEF ReplyError, Arrived, Taken
<1>3. CASE Arrived("refused")
  <2>1. IsJoin(Head(down))
    BY <1>3 DEF Arrived, IsJoin
  <2>2. /\ Reads(entry, up, Tail(down), server.since, server.key, FALSE)
        /\ ~Joins(up) /\ ~Joins(Tail(down))
    BY <1>1, <1>2, <2>1, ReadsEnded DEF ReadInv
  <2>3. Reads(entry, up, Tail(down), server.since, server.key, joining')
    BY <2>2 DEF Reads, Course
  <2> QED BY <1>2, <2>3 DEF ReadInv
<1>4. CASE ~Arrived("refused")
  <2>1. joining' <=> joining
    BY <1>4 DEF ReplyError
  <2>2. Reads(entry, up, Tail(down), server.since, server.key, joining)
    BY <1>1, <1>2, ReadsTaken DEF ReadInv
  <2>3. Reads(entry, up, Tail(down), server.since, server.key, joining')
    BY <2>1, <2>2 DEF Reads, Course
  <2> QED BY <1>2, <2>3 DEF ReadInv
<1> QED BY <1>3, <1>4

(* The reply to LEAVE. *)
LEMMA ReadReplyLeave ==
  ASSUME ChannelInv, ReadInv, ReplyLeave
  PROVE  ReadInv'
<1>1. /\ entry \in Entries /\ down \in Seq(DownItems)
      /\ server.since \in Nat /\ server.key \in Nat
  BY ReadTypes
<1>2. /\ down # <<>> /\ Head(down).kind = "leave" /\ down' = Tail(down)
      /\ UNCHANGED <<joining, up, server>>
      /\ entry' = LeftChannel(entry) \/ entry' = entry
  BY DEF ReplyLeave, Arrived, Taken
<1>3. Reads(LeftChannel(entry), up, Tail(down), server.since, server.key, joining)
  BY <1>1, <1>2, ReadsForgotten DEF ReadInv
<1>4. Reads(entry, up, Tail(down), server.since, server.key, joining)
  BY <1>1, <1>2, ReadsTaken DEF ReadInv
<1> QED BY <1>2, <1>3, <1>4 DEF ReadInv

(* A handler other than that of JOIN waits for a WHOIS. *)
LEMMA ReadsWaits ==
  ASSUME NEW c, NEW p \in Seq(UpItems), NEW q, NEW s, NEW k, NEW b, Reads(c, p, q, s, k, b),
         NEW x \in Whois, x.for.kind \in {"joined", "kicked", "message"}
  PROVE  Reads(c, Append(p, x), q, s, k, b)
<1>1. x \in UpItems /\ IsWhois(x) /\ x.kind = "whois"
  BY Items DEF UpItems, IsWhois
<1>2. Plain(x)
  BY <1>1 DEF Plain, IsJoin, ForJoin, IsLeave, Asks
<1>3. Mix(p, Append(p, x))
  BY <1>1, <1>2, MixAppend
<1> QED BY <1>3, MixUp

(* The notifies. *)
LEMMA ReadNotify ==
  ASSUME ChannelInv, ReadInv, NEW m \in {"joined", "left", "kicked"}, Notify(m)
  PROVE  ReadInv'
<1> DEFINE h == Head(down)
<1>1. /\ entry \in Entries /\ Shape(entry) /\ up \in Seq(UpItems) /\ down \in Seq(DownItems)
      /\ server.since \in Nat
  BY ReadTypes
<1>2. /\ down # <<>> /\ ~IsWhois(h) /\ h.kind = m /\ down' = Tail(down)
      /\ UNCHANGED <<joining, server>>
  BY DEF Notify, Arrived, Taken, IsWhois
<1>3. h \in Packets /\ waiting \in Seq(Seq(Packets))
  BY <1>2, TakenParts DEF Taken
<1>4. Reads(entry, up, Tail(down), server.since, server.key, joining)
  BY <1>1, <1>2, ReadsTaken DEF ReadInv
<1>5. CASE UNCHANGED <<entry, up>>
  BY <1>2, <1>4, <1>5 DEF ReadInv
<1>6. CASE m # "left" /\ Suspend(h) /\ entry' = [Ref(entry) EXCEPT !.resolving = NewWhois]
  <2>1. PICK x \in Whois : up' = Append(up, x) /\ x.for = h
    BY <1>3, <1>6, SuspendItems
  <2>2. Reads(entry, Append(up, x), Tail(down), server.since, server.key, joining)
    BY <1>1, <1>2, <1>4, <1>6, <2>1, ReadsWaits
  <2> DEFINE g == Ref(entry)
  <2> DEFINE d == [g EXCEPT !.resolving = NewWhois]
  <2>3. KeepsKeys(entry, g)
    BY <1>1, KeepsRefs
  <2> HIDE DEF g
  <2>4. KeepsKeys(g, d)
    BY <2>3, ShapeSet DEF KeepsKeys
  <2>5. entry' = d
    BY <1>6 DEF g
  <2> HIDE DEF d
  <2>6. KeepsKeys(entry, d)
    BY <2>3, <2>4, KeepsTwice
  <2>7. Reads(d, Append(up, x), Tail(down), server.since, server.key, joining)
    BY <1>1, <2>2, <2>6, ReadsKept
  <2> QED BY <1>2, <2>1, <2>5, <2>7 DEF ReadInv
<1>7. CASE entry' = Notified(entry, m) /\ up' = up
  <2>1. KeepsKeys(entry, Notified(entry, m))
    BY <1>1, KeepsNotified
  <2>2. Reads(Notified(entry, m), up, Tail(down), server.since, server.key, joining)
    BY <1>1, <1>4, <2>1, ReadsKept
  <2> QED BY <1>2, <1>7, <2>2 DEF ReadInv
<1>8. \/ UNCHANGED <<entry, up>>
      \/ m # "left" /\ Suspend(h) /\ entry' = [Ref(entry) EXCEPT !.resolving = NewWhois]
      \/ entry' = Notified(entry, m) /\ up' = up
  BY DEF Notify
<1> QED BY <1>5, <1>6, <1>7, <1>8

(* A key packet. *)
LEMMA ReadChannelKey ==
  ASSUME ChannelInv, ReadInv, ChannelKey
  PROVE  ReadInv'
<1>1. /\ entry \in Entries /\ down \in Seq(DownItems)
      /\ server.since \in Nat /\ server.key \in Nat /\ entry.key <= server.key
  BY ReadTypes
<1>2. /\ down # <<>> /\ Head(down).kind = "key" /\ down' = Tail(down)
      /\ UNCHANGED <<joining, up, server>>
      /\ entry' = SaveKey(entry, Head(down).key) \/ entry' = entry
  BY DEF ChannelKey, Arrived, Taken
<1>3. Reads(SaveKey(entry, Head(down).key), up, Tail(down), server.since, server.key, joining)
  BY <1>1, <1>2, ReadsSaved DEF ReadInv
<1>4. Reads(entry, up, Tail(down), server.since, server.key, joining)
  BY <1>1, <1>2, ReadsTaken DEF ReadInv
<1> QED BY <1>2, <1>3, <1>4 DEF ReadInv

(* A message. *)
LEMMA ReadChannelMessage ==
  ASSUME ChannelInv, ReadInv, ChannelMessage
  PROVE  ReadInv'
<1> DEFINE h == Head(down)
<1>1. /\ entry \in Entries /\ Shape(entry) /\ up \in Seq(UpItems) /\ down \in Seq(DownItems)
      /\ server.since \in Nat
  BY ReadTypes
<1>2. /\ down # <<>> /\ ~IsWhois(h) /\ h.kind = "message" /\ down' = Tail(down)
      /\ UNCHANGED <<joining, server>>
  BY DEF ChannelMessage, Arrived, Taken, IsWhois
<1>3. h \in Packets /\ waiting \in Seq(Seq(Packets))
  BY <1>2, TakenParts DEF Taken
<1>4. Reads(entry, up, Tail(down), server.since, server.key, joining)
  BY <1>1, <1>2, ReadsTaken DEF ReadInv
<1>5. CASE Suspend(h) /\ UNCHANGED entry
  <2>1. PICK x \in Whois : up' = Append(up, x) /\ x.for = h
    BY <1>3, <1>5, SuspendItems
  <2>2. Reads(entry, Append(up, x), Tail(down), server.since, server.key, joining)
    BY <1>1, <1>2, <1>4, <2>1, ReadsWaits
  <2> QED BY <1>2, <1>5, <2>1, <2>2 DEF ReadInv
<1>6. CASE (entry' = Ref(entry) \/ entry' = entry) /\ up' = up
  <2>1. KeepsKeys(entry, Ref(entry))
    BY <1>1, KeepsRefs
  <2>2. Reads(Ref(entry), up, Tail(down), server.since, server.key, joining)
    BY <1>1, <1>4, <2>1, ReadsKept
  <2> QED BY <1>2, <1>4, <1>6, <2>2 DEF ReadInv
<1>7. \/ Suspend(h) /\ UNCHANGED entry
      \/ (entry' = Ref(entry) \/ entry' = entry) /\ up' = up
  BY DEF ChannelMessage
<1> QED BY <1>5, <1>6, <1>7

(* The reply to a WHOIS. *)
LEMMA ReadWhoisResolved ==
  ASSUME ChannelInv, ReadInv, WhoisResolved
  PROVE  ReadInv'
<1> DEFINE r == Head(down)
<1> DEFINE t == Tail(down)
<1>1. /\ entry \in Entries /\ Shape(entry) /\ down \in Seq(DownItems) /\ server.since \in Nat
  BY ReadTypes, Zenon
<1>2. down # <<>> /\ IsWhois(r) /\ r.kind = "whois"
  BY Zenon DEF WhoisResolved, Arrived, IsWhois
<1>3. r \in Whois /\ r.for \in Packets /\ t \in Seq(DownItems) /\ r = down[1] /\ 1 \in DOMAIN down
  <2>1. r \in DownItems /\ t \in Seq(DownItems) /\ r = down[1] /\ 1 \in DOMAIN down
    BY <1>1, <1>2, TailItems
  <2> QED BY <1>2, <2>1, Items
<1>4. /\ waiting[r.id] \in Seq(Packets)
      /\ \A y \in Range(waiting[r.id]) : Plain(y) /\ y.kind # "key"
  <2>1. r.id \in 1..Len(waiting) /\ waiting \in Seq(Seq(Packets))
    BY <1>2, <1>3, Zenon DEF ChannelInv, Parts, Wires, ForOK, WaitOK
  <2>2. r.id \in DOMAIN waiting
    BY <2>1
  <2> QED BY <2>2, ReadTypes
<1>6. UNCHANGED <<joining, up, server>>
  BY Zenon DEF WhoisResolved
<1>7. PICK a \in Resolved(r) :
      \/ /\ r.for.kind # "message" /\ entry' = Unref([entry EXCEPT !.resolving = 0])
         /\ down' = a \o waiting[r.id] \o t
      \/ /\ r.for.kind = "message" /\ UNCHANGED entry
         /\ \E i \in 0..Len(t) : down' = SubSeq(t, 1, i) \o a \o SubSeq(t, i + 1, Len(t))
  BY Zenon DEF WhoisResolved
<1>8. Asks(r)
  <2>1. InOrder(down)
    BY DEF ReadInv, Reads, Course
  <2> QED BY <1>3, <2>1 DEF InOrder, Range
<1>0. PICK g : Restarted(g, a, r.for)
  BY <1>3, ResolvedItems, Zenon
<1>5. g \in Packets /\ g.kind = r.for.kind
  BY <1>0, Zenon DEF Restarted
<1>9. /\ a = <<g>> \/ a = <<>>
      /\ r.for.kind = "join" => a = <<g>>
  BY <1>0, Zenon DEF Restarted
<1>10. Reads(entry, up, t, server.since, server.key, joining)
  BY <1>1, <1>2, ReadsTaken DEF ReadInv
<1> HIDE DEF r, t
<1>11. a \in Seq(DownItems) /\ a \in Seq(Packets) /\ Range(a) \subseteq {g}
  <2>1. /\ <<g>> \in Seq(DownItems) /\ <<>> \in Seq(DownItems)
        /\ <<g>> \in Seq(Packets) /\ <<>> \in Seq(Packets)
    BY <1>5 DEF DownItems
  <2>2. Range(<<g>>) = {g} /\ Range(<<>>) = {}
    BY DEF Range
  <2> QED BY <1>9, <2>1, <2>2
<1>12. r.for.kind # "join" => Plain(g) /\ g.kind # "key"
  BY <1>2, <1>5, <1>8, PlainPackets DEF Asks
<1>13. ASSUME r.for.kind # "message"
       PROVE  Reads(entry, up, a \o waiting[r.id] \o t, server.since, server.key, joining)
  <2>1. CASE r.for.kind = "join"
    <3>1. ForJoin(r)
      BY <1>2, <2>1 DEF ForJoin
    <3>2. Reads(entry, up, <<g>> \o waiting[r.id] \o t, server.since, server.key, joining)
      BY <1>1, <1>2, <1>4, <1>5, <2>1, <3>1, ReadsAgain DEF ReadInv, r, t
    <3> QED BY <1>9, <2>1, <3>2
  <2>2. CASE r.for.kind # "join"
    <3>1. waiting[r.id] \in Seq(DownItems)
      BY <1>4 DEF DownItems
    <3>2. Mix(t, a \o waiting[r.id] \o t)
      BY <1>3, <1>4, <1>11, <1>12, <2>2, <3>1, MixFront
    <3> QED BY <1>10, <3>2, MixDown
  <2> QED BY <2>1, <2>2
<1>14. CASE /\ r.for.kind # "message" /\ entry' = Unref([entry EXCEPT !.resolving = 0])
            /\ down' = a \o waiting[r.id] \o t
  <2> DEFINE e == [entry EXCEPT !.resolving = 0]
  <2>1. KeepsKeys(entry, e)
    BY <1>1, ShapeSet
  <2>2. entry' = Unref(e)
    BY <1>14
  <2> HIDE DEF e
  <2>3. KeepsKeys(e, Unref(e))
    BY <2>1, KeepsRefs DEF KeepsKeys
  <2>4. KeepsKeys(entry, Unref(e))
    BY <2>1, <2>3, KeepsTwice
  <2>5. Reads(Unref(e), up, a \o waiting[r.id] \o t, server.since, server.key, joining)
    BY <1>1, <1>13, <1>14, <2>4, ReadsKept
  <2> QED BY <1>6, <1>14, <2>2, <2>5 DEF ReadInv
<1>15. CASE /\ r.for.kind = "message" /\ UNCHANGED entry
            /\ \E i \in 0..Len(t) : down' = SubSeq(t, 1, i) \o a \o SubSeq(t, i + 1, Len(t))
  <2>1. PICK i \in 0..Len(t) : down' = SubSeq(t, 1, i) \o a \o SubSeq(t, i + 1, Len(t))
    BY <1>15
  <2> DEFINE e == SubSeq(t, 1, i) \o a \o SubSeq(t, i + 1, Len(t))
  <2>2. Mix(t, e)
    BY <1>3, <1>11, <1>12, <1>15, MixSomewhere
  <2>3. down' = e
    BY <2>1
  <2> HIDE DEF e
  <2>4. Reads(entry, up, e, server.since, server.key, joining)
    BY <1>10, <2>2, MixDown
  <2> QED BY <1>6, <1>15, <2>3, <2>4 DEF ReadInv
<1> QED BY <1>7, <1>14, <1>15, Zenon

(* Every step keeps the invariant. *)
LEMMA ReadNext ==
  ASSUME ChannelInv, ReadInv, Patient, [Next]_vars
  PROVE  ReadInv'
<1>1. CASE Next
  <2>1. CASE CallJoin \/ CallLeave
    BY <2>1, ReadCall
  <2>2. CASE Expire
    BY <2>2, ReadExpire
  <2>3. CASE ServeJoin
    BY <2>3, ReadServeJoin
  <2>4. CASE ServeLeave
    BY <2>4, ReadServeLeave
  <2>5. CASE ServeWhois
    BY <2>5, ReadServeWhois
  <2>6. CASE PeerMoves
    BY <2>6, ReadPeerMoves
  <2>7. CASE Kick
    BY <2>7, ReadKick
  <2>8. CASE Say
    BY <2>8, ReadSay
  <2>9. CASE ReplyJoin
    BY <2>9, ReadReplyJoin
  <2>10. CASE ReplyLeave
    BY <2>10, ReadReplyLeave
  <2>11. CASE ReplyError
    BY <2>11, ReadReplyError
  <2>12. CASE \E n \in {"joined", "left", "kicked"} : Notify(n)
    BY <2>12, ReadNotify
  <2>13. CASE ChannelKey
    BY <2>13, ReadChannelKey
  <2>14. CASE ChannelMessage
    BY <2>14, ReadChannelMessage
  <2>15. CASE WhoisResolved
    BY <2>15, ReadWhoisResolved
  <2> QED BY <1>1, <2>1, <2>2, <2>3, <2>4, <2>5, <2>6, <2>7, <2>8, <2>9, <2>10, <2>11,
             <2>12, <2>13, <2>14, <2>15 DEF Next
<1>2. CASE UNCHANGED vars
  BY <1>2 DEF vars, ReadInv
<1> QED BY <1>1, <1>2

-----------------------------------------------------------------------------
(***************************************************************************)
(* An application that leaves no channel while it joins it can read every  *)
(* message for fifteen seconds after its key was replaced: no timer that   *)
(* silc_client_save_channel_key left behind before LEAVE removes a key it  *)
(* was given since it joined again, whatever notifies, keys and WHOIS      *)
(* replies overtake the reply to JOIN.                                     *)
(***************************************************************************)
THEOREM ChannelOldKeysReadable ==
  ASSUME Patient
  PROVE  Spec => []OldKeysReadable
<1>1. Init => ChannelInv /\ ReadInv
  BY ChannelInit, ReadInit
<1>2. ChannelInv /\ ReadInv /\ [Next]_vars => (ChannelInv /\ ReadInv)'
  BY ChannelNext, ReadNext
<1>3. ChannelInv /\ ReadInv => OldKeysReadable
  BY DEF ReadInv, Reads, StaleBelow, OldKeysReadable
<1> QED BY <1>1, <1>2, <1>3, PTL DEF Spec
=============================================================================
