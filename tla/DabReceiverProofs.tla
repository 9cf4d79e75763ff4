------------------------- MODULE DabReceiverProofs --------------------------
(***************************************************************************)
(* What the DAB receiver guarantees for every number of strikes, every     *)
(* expiry, every lock window and every depth of the de-interleaver; what   *)
(* its sub-channels are made of, for every programme the multiplexer may   *)
(* send and however often it changes; and that the modulation lab and the  *)
(* label of a programme do not mix two signals or two messages either.     *)
(***************************************************************************)
EXTENDS DabReceiver, Radio, Integers, Sequences, SequenceTheorems, FiniteSetTheorems,
        WellFoundedInduction, TLAPS

\* A set of naturals has a least element.
LEMMA NatMin ==
    ASSUME NEW S \in SUBSET Nat, S # {}
    PROVE  \E x \in S : \A y \in S : x <= y
<1>1. IsWellFoundedOn(OpToRel(<, Nat), Nat)
  BY NatLessThanWellFounded
<1>2. PICK x \in S : \A y \in S : ~ (<<y, x>> \in OpToRel(<, Nat))
  BY <1>1, WFMin, Zenon
<1>3. \A y \in S : ~ (y < x)
  BY <1>2 DEF OpToRel
<1> QED BY <1>3

\* Induction, over a set.
LEMMA SetInduction ==
    ASSUME NEW S, 0 \in S, \A n \in Nat : n \in S => n + 1 \in S
    PROVE  Nat \subseteq S
<1> SUFFICES ASSUME Nat \ S # {} PROVE FALSE
  OBVIOUS
<1>1. PICK x \in Nat \ S : \A y \in Nat \ S : x <= y
  BY NatMin
<1>2. x # 0 /\ x - 1 \in Nat
  BY <1>1
<1>3. x - 1 \in S
  BY <1>1, <1>2
<1> QED BY <1>1, <1>2, <1>3

\* A division, between its multiples.
LEMMA Remains ==
    ASSUME NEW a \in Nat, NEW d \in Nat \ {0}
    PROVE  /\ a \div d \in Nat /\ a % d \in 0..(d - 1)
           /\ a = d * (a \div d) + (a % d)
  OBVIOUS

\* A number has one remainder.
LEMMA RemainderIs ==
    ASSUME NEW d \in Nat \ {0}, NEW q \in Int, NEW p \in Int, NEW r \in 0..(d - 1), NEW s \in 0..(d - 1),
           d * q + r = d * p + s
    PROVE  r = s
<1>1. d * (q - p) = s - r
  OBVIOUS
<1>2. q - p < 1
  BY <1>1
<1>3. q - p > -1
  BY <1>1
<1>4. q - p = 0
  BY <1>2, <1>3
<1> QED BY <1>1, <1>4

\* Numbers less than d apart have different places.
LEMMA SlotsDiffer ==
    ASSUME NEW d \in Nat \ {0}, NEW n \in Nat, NEW j \in 1..(d - 1), j <= n
    PROVE  (n - j) % d # n % d
<1> DEFINE q == n \div d
           p == (n - j) \div d
           r == n % d
           s == (n - j) % d
<1>1. n = d * q + r /\ q \in Nat /\ r \in Nat
  BY Remains
<1>2. n - j \in Nat
  OBVIOUS
<1>3. n - j = d * p + s /\ p \in Nat /\ s \in Nat
  BY <1>2, Remains
<1> HIDE DEF q, p, r, s
<1> SUFFICES ASSUME s = r PROVE FALSE
  BY DEF r, s
<1>4. d * (q - p) = j
  BY <1>1, <1>3
<1>5. q - p \in Int /\ 0 < d * (q - p) /\ d * (q - p) < d
  BY <1>1, <1>3, <1>4
<1>6. q - p > 0
  BY <1>5
<1>7. q - p < 1
  BY <1>5
<1> QED BY <1>5, <1>6, <1>7

\* A place d later is the same place.
LEMMA SlotAgain ==
    ASSUME NEW d \in Nat \ {0}, NEW n \in Nat
    PROVE  (n + d) % d = n % d
<1> DEFINE q == n \div d
           p == (n + d) \div d
           r == n % d
           s == (n + d) % d
<1>1. /\ n = d * q + r /\ n + d = d * p + s /\ q \in Nat /\ p \in Nat
      /\ r \in 0..(d - 1) /\ s \in 0..(d - 1)
  <2>1. n = d * q + r /\ q \in Nat /\ r \in 0..(d - 1)
    BY Remains
  <2>2. n + d \in Nat
    OBVIOUS
  <2>3. n + d = d * p + s /\ p \in Nat /\ s \in 0..(d - 1)
    BY <2>2, Remains
  <2> QED BY <2>1, <2>3
<1> HIDE DEF q, p, r, s
<1>2. d * (q + 1) + r = d * p + s
  BY <1>1
<1>3. q + 1 \in Int /\ p \in Int
  BY <1>1
<1>4. r = s
  BY <1>1, <1>2, <1>3, RemainderIs
<1> QED BY <1>4 DEF r, s

-----------------------------------------------------------------------------
(* The multiplex: what the rings hold, and what comes out of them.         *)

Slots == 0..(MuxDepth - 1)
MuxSizes ==
    /\ MuxDepth \in Nat \ {0} /\ CifsPerFrame \in Nat \ {0}
    /\ \A i \in Slots : Delay[i] \in Slots
    /\ CuPerCif \in Nat
    /\ \A p \in Programmes : \A id \in DOMAIN p.subs : p.subs[id].start \in Nat /\ p.subs[id].size \in Nat

\* What the assumption of the multiplex says of its sizes.
LEMMA SizesAre == Mux!MuxAssumption => MuxSizes
  BY DEF Mux!MuxAssumption, MuxSizes, Slots

Fits(plan) == ~(plan.start + plan.size > CuPerCif)

\* A handler before CIF r: its ring holds what it was pushed in the CIFs just
\* before r, each bit of its own plan or nothing.
HandlerOk(h, r) ==
    /\ h \in [plan : {h.plan}, received : {h.received}, ring : {h.ring}]
    /\ h.received \in Nat /\ h.ring = [slot \in Slots |-> h.ring[slot]]
    /\ ~Fits(h.plan) => h.received = 0
    /\ \A k \in 1..MuxDepth : k <= h.received => \A i \in Slots :
          h.ring[(h.received - k) % MuxDepth][i] \in {None, [plan |-> h.plan, n |-> (r - k) - Delay[i]]}

\* What comes out at CIF r - 1 is of one logical frame.
OutOk(o, plan, r) == o \subseteq {None, [plan |-> plan, n |-> (r - 1) - MuxDepth]}

\* The bits of CIF r of a plan on the air since s.
Aired(plan, s, r, i) == IF r >= s + Delay[i] THEN [plan |-> plan, n |-> r - Delay[i]] ELSE None

\* The last f CIFs are in the ring as they were sent.
Exact(h, r, f, s) ==
    Fits(h.plan) =>
        /\ h.received >= f
        /\ \A k \in 1..MuxDepth : k <= f => \A i \in Slots :
              h.ring[(h.received - k) % MuxDepth][i] = Aired(h.plan, s, r - k, i)

Stored(h, frag) == [h EXCEPT !.ring[h.received % MuxDepth] = frag, !.received = @ + 1]

\* A fragment stored is the last one, and the others move back by one.
LEMMA StoredIs ==
    ASSUME MuxSizes, NEW h, NEW r \in Int, NEW frag, HandlerOk(h, r)
    PROVE  /\ Stored(h, frag) \in [plan : {h.plan}, received : {h.received + 1},
                                    ring : {Stored(h, frag).ring}]
           /\ Stored(h, frag).ring = [slot \in Slots |-> Stored(h, frag).ring[slot]]
           /\ Stored(h, frag).ring[((h.received + 1) - 1) % MuxDepth] = frag
           /\ \A k \in 2..MuxDepth : k <= h.received + 1 =>
                 Stored(h, frag).ring[((h.received + 1) - k) % MuxDepth]
                    = h.ring[(h.received - (k - 1)) % MuxDepth]
<1> DEFINE n == h.received
           ring == h.ring
           new == [ring EXCEPT ![n % MuxDepth] = frag]
<1>1. n \in Nat /\ h \in [plan : {h.plan}, received : {n}, ring : {ring}] /\ ring = [slot \in Slots |-> ring[slot]]
  BY DEF HandlerOk
<1>2. Stored(h, frag) \in [plan : {h.plan}, received : {n + 1}, ring : {new}]
  <2> DEFINE pl == h.plan
             slot == n % MuxDepth
  <2> HIDE DEF n, ring, pl, slot
  <2>1. h \in [plan : {pl}, received : {n}, ring : {ring}]
    BY <1>1 DEF pl
  <2>2. [h EXCEPT !.ring[slot] = frag, !.received = @ + 1]
           \in [plan : {pl}, received : {n + 1}, ring : {[ring EXCEPT ![slot] = frag]}]
    BY <2>1
  <2> QED BY <2>2 DEF Stored, n, ring, pl, slot
<1>3. n % MuxDepth \in Slots
  <2> HIDE DEF n
  <2> QED BY <1>1, Remains DEF MuxSizes, Slots
<1>4. new = [slot \in Slots |-> new[slot]] /\ new[n % MuxDepth] = frag
      /\ \A slot \in Slots : slot # n % MuxDepth => new[slot] = ring[slot]
  <2> HIDE DEF n, ring
  <2> QED BY <1>1, <1>3
<1> HIDE DEF new
<1>5. (n + 1) - 1 = n
  BY <1>1
<1>6. ASSUME NEW k \in 2..MuxDepth, k <= n + 1
      PROVE  new[((n + 1) - k) % MuxDepth] = ring[(n - (k - 1)) % MuxDepth]
  <2> HIDE DEF n, ring
  <2> DEFINE j == k - 1
  <2>1. j \in 1..(MuxDepth - 1) /\ j <= n /\ (n + 1) - k = n - j
    BY <1>1, <1>6 DEF MuxSizes
  <2> HIDE DEF j
  <2>2. (n - j) % MuxDepth # n % MuxDepth
    BY <1>1, <2>1, SlotsDiffer DEF MuxSizes
  <2>3. n - j \in Nat
    BY <1>1, <2>1
  <2>4. (n - j) % MuxDepth \in Slots
    BY <2>3, Remains DEF MuxSizes, Slots
  <2>5. new[(n - j) % MuxDepth] = ring[(n - j) % MuxDepth]
    BY <1>4, <2>2, <2>4
  <2> QED BY <2>1, <2>5 DEF j
<1> QED BY <1>2, <1>4, <1>5, <1>6

\* Storing what was sent at CIF r keeps the handler.
LEMMA StoredOk ==
    ASSUME MuxSizes, NEW h, NEW r \in Int, NEW frag, HandlerOk(h, r), Fits(h.plan),
           \A i \in Slots : frag[i] \in {None, [plan |-> h.plan, n |-> r - Delay[i]]}
    PROVE  HandlerOk(Stored(h, frag), r + 1)
<1> DEFINE g == Stored(h, frag)
           n == h.received
<1>1. n \in Nat
  BY DEF HandlerOk
<1>2. /\ g \in [plan : {h.plan}, received : {n + 1}, ring : {g.ring}]
      /\ g.ring = [slot \in Slots |-> g.ring[slot]]
      /\ g.ring[((n + 1) - 1) % MuxDepth] = frag
      /\ \A k \in 2..MuxDepth : k <= n + 1 =>
            g.ring[((n + 1) - k) % MuxDepth] = h.ring[(n - (k - 1)) % MuxDepth]
  BY StoredIs
<1> HIDE DEF g
<1>3. g.plan = h.plan /\ g.received = n + 1
  BY <1>2
<1>4. ASSUME NEW k \in 1..MuxDepth, k <= n + 1, NEW i \in Slots
      PROVE  g.ring[((n + 1) - k) % MuxDepth][i] \in {None, [plan |-> h.plan, n |-> ((r + 1) - k) - Delay[i]]}
  <2>1. CASE k = 1
    <3>1. (r + 1) - k = r
      BY <2>1
    <3> QED BY <1>2, <2>1, <3>1
  <2>2. CASE k # 1
    <3> DEFINE j == k - 1
    <3>1. k \in 2..MuxDepth /\ j \in 1..MuxDepth /\ j <= n /\ r - j = (r + 1) - k
      BY <1>1, <1>4, <2>2 DEF MuxSizes
    <3>2. g.ring[((n + 1) - k) % MuxDepth] = h.ring[(n - j) % MuxDepth]
      BY <1>2, <1>4, <3>1
    <3> HIDE DEF j
    <3>3. h.ring[(n - j) % MuxDepth][i] \in {None, [plan |-> h.plan, n |-> (r - j) - Delay[i]]}
      BY <3>1 DEF HandlerOk
    <3> QED BY <3>1, <3>2, <3>3
  <2> QED BY <2>1, <2>2
<1>5. n + 1 \in Nat
  BY <1>1
<1>6. HandlerOk(g, r + 1)
  <2> HIDE DEF n
  <2> QED BY <1>2, <1>3, <1>4, <1>5 DEF HandlerOk
<1> QED BY <1>6 DEF g

\* Storing what was sent keeps the ring exact, one CIF more of it.
LEMMA StoredExact ==
    ASSUME MuxSizes, NEW h, NEW r \in Int, NEW frag, NEW f \in Nat, NEW s, HandlerOk(h, r),
           Fits(h.plan), Exact(h, r, f, s), \A i \in Slots : frag[i] = Aired(h.plan, s, r, i)
    PROVE  Exact(Stored(h, frag), r + 1, f + 1, s)
<1> DEFINE g == Stored(h, frag)
           n == h.received
<1>1. n \in Nat /\ n >= f
  BY DEF HandlerOk, Exact
<1>2. /\ g \in [plan : {h.plan}, received : {n + 1}, ring : {g.ring}]
      /\ g.ring = [slot \in Slots |-> g.ring[slot]]
      /\ g.ring[((n + 1) - 1) % MuxDepth] = frag
      /\ \A k \in 2..MuxDepth : k <= n + 1 =>
            g.ring[((n + 1) - k) % MuxDepth] = h.ring[(n - (k - 1)) % MuxDepth]
  BY StoredIs
<1> HIDE DEF g
<1>3. g.plan = h.plan /\ g.received = n + 1
  BY <1>2
<1>4. ASSUME NEW k \in 1..MuxDepth, k <= f + 1, NEW i \in Slots
      PROVE  g.ring[((n + 1) - k) % MuxDepth][i] = Aired(h.plan, s, (r + 1) - k, i)
  <2>1. CASE k = 1
    <3>1. (r + 1) - k = r
      BY <2>1
    <3> QED BY <1>2, <2>1, <3>1
  <2>2. CASE k # 1
    <3> DEFINE j == k - 1
    <3>1. k \in 2..MuxDepth /\ j \in 1..MuxDepth /\ j <= f /\ k <= n + 1 /\ r - j = (r + 1) - k
      BY <1>1, <1>4, <2>2 DEF MuxSizes
    <3>2. g.ring[((n + 1) - k) % MuxDepth] = h.ring[(n - j) % MuxDepth]
      BY <1>2, <3>1
    <3> HIDE DEF j
    <3>3. h.ring[(n - j) % MuxDepth][i] = Aired(h.plan, s, r - j, i)
      BY <3>1 DEF Exact
    <3> QED BY <3>1, <3>2, <3>3
  <2> QED BY <2>1, <2>2
<1>5. Exact(g, r + 1, f + 1, s)
  <2> HIDE DEF n
  <2> QED BY <1>1, <1>3, <1>4 DEF Exact
<1> QED BY <1>5 DEF g

\* What is read of a full ring was pushed Depth CIFs before, but for the delay.
LEMMA ReadIs ==
    ASSUME MuxSizes, NEW h, NEW r \in Int, HandlerOk(h, r), h.received >= MuxDepth, NEW i \in Slots
    PROVE  /\ MuxDepth - Delay[i] \in 1..MuxDepth /\ MuxDepth - Delay[i] <= h.received
           /\ Mux!Read(h, i) = h.ring[(h.received - (MuxDepth - Delay[i])) % MuxDepth][i]
<1> DEFINE n == h.received
           d == Delay[i]
<1>1. n \in Nat /\ d \in Slots /\ MuxDepth \in Nat \ {0}
  BY DEF HandlerOk, MuxSizes
<1>2. (n + d) % MuxDepth = (n - (MuxDepth - d)) % MuxDepth
  <2> HIDE DEF n, d
  <2> DEFINE b == n - (MuxDepth - d)
  <2>1. b \in Nat /\ b + MuxDepth = n + d
    <3> USE DEF n
    <3> HIDE DEF n
    <3>1. n >= MuxDepth
      BY DEF n
    <3> QED BY <1>1, <3>1 DEF Slots
  <2> HIDE DEF b
  <2>2. (b + MuxDepth) % MuxDepth = b % MuxDepth
    BY <1>1, <2>1, SlotAgain
  <2> QED BY <2>1, <2>2 DEF b
<1>3. MuxDepth - d \in 1..MuxDepth /\ MuxDepth - d <= n
  BY <1>1 DEF Slots
<1> QED BY <1>2, <1>3 DEF Mux!Read

\* So all of it is of one logical frame, or nothing.
LEMMA DeinterleavedOk ==
    ASSUME MuxSizes, NEW h, NEW r \in Int, HandlerOk(h, r)
    PROVE  OutOk(Mux!Deinterleaved(h), h.plan, r + 1)
<1> SUFFICES ASSUME h.received >= MuxDepth, NEW i \in Slots
             PROVE  Mux!Read(h, i) \in {None, [plan |-> h.plan, n |-> ((r + 1) - 1) - MuxDepth]}
  <2>1. h.received \in Nat /\ MuxDepth \in Nat
    BY DEF HandlerOk, MuxSizes
  <2> QED BY <2>1 DEF OutOk, Mux!Deinterleaved, Slots
<1> DEFINE k == MuxDepth - Delay[i]
<1>1. k \in 1..MuxDepth /\ k <= h.received /\ Mux!Read(h, i) = h.ring[(h.received - k) % MuxDepth][i]
  BY ReadIs
<1>2. (r - k) - Delay[i] = ((r + 1) - 1) - MuxDepth
  <2>1. Delay[i] \in Int /\ MuxDepth \in Int
    BY DEF MuxSizes, Slots
  <2> QED BY <2>1
<1> HIDE DEF k
<1>3. h.ring[(h.received - k) % MuxDepth][i] \in {None, [plan |-> h.plan, n |-> (r - k) - Delay[i]]}
  BY <1>1 DEF HandlerOk
<1> QED BY <1>1, <1>2, <1>3

\* And when the ring is exact, it is the frame sent Depth CIFs before.
LEMMA DeinterleavedExact ==
    ASSUME MuxSizes, NEW h, NEW r \in Int, NEW f \in Nat, NEW s \in Int, HandlerOk(h, r),
           Fits(h.plan), Exact(h, r, f, s), f >= MuxDepth, s + MuxDepth <= r
    PROVE  Mux!Deinterleaved(h) = {[plan |-> h.plan, n |-> ((r + 1) - 1) - MuxDepth]}
<1>1. h.received \in Nat /\ MuxDepth \in Nat \ {0} /\ h.received >= MuxDepth
  BY DEF HandlerOk, MuxSizes, Exact
<1>2. ASSUME NEW i \in Slots
      PROVE  Mux!Read(h, i) = [plan |-> h.plan, n |-> ((r + 1) - 1) - MuxDepth]
  <2> DEFINE k == MuxDepth - Delay[i]
  <2>1. k \in 1..MuxDepth /\ k <= h.received /\ Mux!Read(h, i) = h.ring[(h.received - k) % MuxDepth][i]
    BY <1>1, ReadIs
  <2>2. Delay[i] \in Int
    BY DEF MuxSizes, Slots
  <2>3. (r - k) - Delay[i] = ((r + 1) - 1) - MuxDepth /\ r - k >= s + Delay[i]
    BY <1>1, <2>2
  <2> HIDE DEF k
  <2>4. k <= f
    BY <1>1, <2>1
  <2>5. h.ring[(h.received - k) % MuxDepth][i] = Aired(h.plan, s, r - k, i)
    BY <2>1, <2>4 DEF Exact
  <2> QED BY <2>1, <2>3, <2>5 DEF Aired
<1>3. 0 \in Slots
  BY <1>1 DEF Slots
<1>4. ~(h.received < MuxDepth)
  BY <1>1
<1> QED BY <1>2, <1>3, <1>4 DEF Mux!Deinterleaved, Slots

-----------------------------------------------------------------------------
(* A frame's CIFs.                                                         *)

\* What a plan cuts out of a CIF is of it or nothing, and all that was sent
\* when it is the plan on the air.
LEMMA FragmentIs ==
    ASSUME MuxSizes, NEW id, NEW plan, NEW r \in Int, NEW i \in Slots
    PROVE  /\ Mux!Fragment(id, plan, r)[i] \in {None, [plan |-> plan, n |-> r - Delay[i]]}
           /\ id \in DOMAIN muxAir'.subs /\ muxAir'.subs[id] = plan =>
                 Mux!Fragment(id, plan, r)[i] = Aired(plan, muxSince'[id], r, i)
  BY DEF Mux!Fragment, Mux!Sent, Mux!SubIds, Aired, Slots

\* A handler that takes a CIF.
LEMMA PushedOk ==
    ASSUME MuxSizes, NEW id, NEW h, NEW r \in Int, HandlerOk(h, r)
    PROVE  HandlerOk(Mux!Pushed(id, h, r), r + 1) /\ Mux!Pushed(id, h, r).plan = h.plan
<1>1. CASE Fits(h.plan)
  <2> DEFINE frag == Mux!Fragment(id, h.plan, r)
  <2>1. Mux!Pushed(id, h, r) = Stored(h, frag)
    BY <1>1 DEF Fits, Mux!Pushed, Stored
  <2>2. \A i \in Slots : frag[i] \in {None, [plan |-> h.plan, n |-> r - Delay[i]]}
    BY FragmentIs
  <2> HIDE DEF frag
  <2>3. HandlerOk(Stored(h, frag), r + 1)
    BY <1>1, <2>2, StoredOk
  <2>4. Stored(h, frag) \in [plan : {h.plan}, received : {h.received + 1}, ring : {Stored(h, frag).ring}]
    BY StoredIs
  <2>5. Stored(h, frag).plan = h.plan
    <3> DEFINE g == Stored(h, frag)
    <3>1. g \in [plan : {h.plan}, received : {h.received + 1}, ring : {g.ring}]
      BY <2>4
    <3> HIDE DEF g
    <3>2. g.plan = h.plan
      BY <3>1
    <3> QED BY <3>2 DEF g
  <2> QED BY <2>1, <2>3, <2>5
<1>2. CASE ~Fits(h.plan)
  <2>1. Mux!Pushed(id, h, r) = h
    BY <1>2 DEF Fits, Mux!Pushed
  <2>2. h.received = 0
    BY <1>2 DEF HandlerOk
  <2>3. HandlerOk(h, r + 1)
    BY <2>2 DEF HandlerOk
  <2> QED BY <2>1, <2>3
<1> QED BY <1>1, <1>2

\* A handler of the plan on the air takes it as it was sent.
LEMMA PushedExact ==
    ASSUME MuxSizes, NEW id, NEW h, NEW r \in Int, NEW f \in Nat, HandlerOk(h, r),
           id \in DOMAIN muxAir'.subs, muxAir'.subs[id] = h.plan, Exact(h, r, f, muxSince'[id])
    PROVE  Exact(Mux!Pushed(id, h, r), r + 1, f + 1, muxSince'[id])
<1>1. CASE Fits(h.plan)
  <2> DEFINE frag == Mux!Fragment(id, h.plan, r)
             s == muxSince'[id]
  <2>1. Mux!Pushed(id, h, r) = Stored(h, frag)
    BY <1>1 DEF Fits, Mux!Pushed, Stored
  <2>2. \A i \in Slots : frag[i] = Aired(h.plan, s, r, i)
    BY FragmentIs
  <2> HIDE DEF frag, s
  <2>3. Exact(h, r, f, s)
    BY DEF s
  <2>4. Exact(Stored(h, frag), r + 1, f + 1, s)
    BY <1>1, <2>2, <2>3, StoredExact
  <2> QED BY <2>1, <2>4 DEF s
<1>2. CASE ~Fits(h.plan)
  <2>1. Mux!Pushed(id, h, r) = h
    BY <1>2 DEF Fits, Mux!Pushed
  <2> QED BY <1>2, <2>1 DEF Exact
<1> QED BY <1>1, <1>2

\* Where a frame is after each of its CIFs.
CifByCif(f, synced) ==
    f = [k \in 0..CifsPerFrame |->
            IF k = 0 THEN [h |-> synced, out |-> [id \in DOMAIN synced |-> {}]]
            ELSE Mux!PushCif(f[k - 1].h, muxCif + k - 1)]

\* The recursion over the CIFs of a frame is well defined.
LEMMA CifsExist ==
    ASSUME MuxSizes, NEW synced
    PROVE  \E f : /\ CifByCif(f, synced)
                  /\ Mux!PushFrame(synced) => muxHandlers' = f[CifsPerFrame].h /\ muxOut' = f[CifsPerFrame].out
<1> DEFINE start == [h |-> synced, out |-> [id \in DOMAIN synced |-> {}]]
           Body(m, f) == [k \in 0..m |-> IF k = 0 THEN start ELSE Mux!PushCif(f[k - 1].h, muxCif + k - 1)]
           Done == {m \in Nat : \E f : f = Body(m, f)}
<1>1. 0 \in Done
  <2>1. [k \in 0..0 |-> start] = Body(0, [k \in 0..0 |-> start])
    OBVIOUS
  <2> QED BY <2>1
<1>2. ASSUME NEW m \in Nat, m \in Done PROVE m + 1 \in Done
  <2>1. PICK f : f = Body(m, f)
    BY <1>2
  <2> DEFINE last == Mux!PushCif(f[m].h, muxCif + (m + 1) - 1)
             g == [k \in 0..(m + 1) |-> IF k = m + 1 THEN last ELSE f[k]]
  <2>2. (\A k \in 0..m : g[k] = f[k]) /\ g[m + 1] = last
    <3> HIDE DEF last
    <3> QED OBVIOUS
  <2>3. \A k \in 0..m : f[k] = IF k = 0 THEN start ELSE Mux!PushCif(f[k - 1].h, muxCif + k - 1)
    BY <2>1
  <2>4. g = [k \in 0..(m + 1) |-> g[k]]
    <3> HIDE DEF last
    <3> QED OBVIOUS
  <2> HIDE DEF g, start
  <2>5. ASSUME NEW k \in 0..(m + 1)
        PROVE  g[k] = IF k = 0 THEN start ELSE Mux!PushCif(g[k - 1].h, muxCif + k - 1)
    <3>1. CASE k = m + 1
      <4>1. g[k - 1] = f[m] /\ k # 0
        BY <2>2, <3>1
      <4> QED BY <2>2, <3>1, <4>1
    <3>2. CASE k \in 0..m
      <4>1. g[k] = f[k] /\ (k # 0 => g[k - 1] = f[k - 1])
        BY <2>2, <3>2
      <4> QED BY <2>3, <3>2, <4>1
    <3> QED BY <3>1, <3>2
  <2>6. g = Body(m + 1, g)
    BY <2>4, <2>5
  <2> HIDE DEF Body
  <2> QED BY <2>6
<1> HIDE DEF Done
<1>3. CifsPerFrame \in Done
  BY <1>1, <1>2, SetInduction DEF MuxSizes
<1> DEFINE F == CHOOSE f : f = Body(CifsPerFrame, f)
<1>4. F = Body(CifsPerFrame, F)
  <2> HIDE DEF Body
  <2> QED BY <1>3 DEF Done
<1>5. Mux!PushFrame(synced) => muxHandlers' = F[CifsPerFrame].h /\ muxOut' = F[CifsPerFrame].out
  BY DEF Mux!PushFrame
<1> HIDE DEF F
<1>6. CifByCif(F, synced)
  BY <1>4 DEF CifByCif
<1> QED BY <1>5, <1>6

\* One of them.
LEMMA CifIs ==
    ASSUME MuxSizes, NEW f, NEW synced, CifByCif(f, synced)
    PROVE  /\ f[0].h = synced
           /\ \A k \in 1..CifsPerFrame : f[k] = Mux!PushCif(f[k - 1].h, muxCif + k - 1)
<1>1. \A k \in 0..CifsPerFrame :
         f[k] = IF k = 0 THEN [h |-> synced, out |-> [id \in DOMAIN synced |-> {}]]
                ELSE Mux!PushCif(f[k - 1].h, muxCif + k - 1)
  BY DEF CifByCif
<1>2. f[0] = [h |-> synced, out |-> [id \in DOMAIN synced |-> {}]]
  <2>1. 0 \in 0..CifsPerFrame
    BY DEF MuxSizes
  <2> QED BY <1>1, <2>1
<1>3. ASSUME NEW k \in 1..CifsPerFrame PROVE f[k] = Mux!PushCif(f[k - 1].h, muxCif + k - 1)
  BY <1>1 DEF MuxSizes
<1> QED BY <1>2, <1>3

\* A frame keeps the handlers, and what its last CIF gives is of one frame.
LEMMA FrameOk ==
    ASSUME MuxSizes, muxCif \in Nat, NEW f, NEW synced, CifByCif(f, synced),
           \A id \in DOMAIN synced : HandlerOk(synced[id], muxCif)
    PROVE  /\ \A k \in 0..CifsPerFrame :
                 /\ DOMAIN f[k].h = DOMAIN synced
                 /\ \A id \in DOMAIN synced : /\ HandlerOk(f[k].h[id], muxCif + k)
                                              /\ f[k].h[id].plan = synced[id].plan
           /\ DOMAIN f[CifsPerFrame].out = DOMAIN synced
           /\ \A id \in DOMAIN synced :
                 OutOk(f[CifsPerFrame].out[id], synced[id].plan, muxCif + CifsPerFrame)
<1> DEFINE Reached(k) == /\ DOMAIN f[k].h = DOMAIN synced
                         /\ \A id \in DOMAIN synced : /\ HandlerOk(f[k].h[id], muxCif + k)
                                                      /\ f[k].h[id].plan = synced[id].plan
           T == {k \in Nat : k \in 0..CifsPerFrame => Reached(k)}
<1>1. CifsPerFrame \in Nat \ {0}
  BY DEF MuxSizes
<1>2. 0 \in T
  <2>1. f[0].h = synced /\ muxCif + 0 = muxCif
    BY CifIs
  <2> QED BY <2>1
<1>3. ASSUME NEW k \in Nat, k \in T, k + 1 \in 0..CifsPerFrame PROVE Reached(k + 1)
  <2>1. Reached(k) /\ k + 1 \in 1..CifsPerFrame
    BY <1>1, <1>3
  <2>2. (k + 1) - 1 = k /\ muxCif + (k + 1) - 1 = muxCif + k /\ muxCif + (k + 1) = (muxCif + k) + 1 /\ muxCif + k \in Int
    BY <1>1
  <2>3. f[k + 1] = Mux!PushCif(f[k].h, muxCif + k)
    BY <2>1, <2>2, CifIs
  <2>4. DOMAIN f[k + 1].h = DOMAIN synced
        /\ \A id \in DOMAIN synced : f[k + 1].h[id] = Mux!Pushed(id, f[k].h[id], muxCif + k)
    BY <2>1, <2>3 DEF Mux!PushCif
  <2>5. ASSUME NEW id \in DOMAIN synced
        PROVE  HandlerOk(f[k + 1].h[id], muxCif + (k + 1)) /\ f[k + 1].h[id].plan = synced[id].plan
    <3>1. HandlerOk(f[k].h[id], muxCif + k) /\ f[k].h[id].plan = synced[id].plan
      BY <2>1
    <3>2. /\ HandlerOk(Mux!Pushed(id, f[k].h[id], muxCif + k), (muxCif + k) + 1)
          /\ Mux!Pushed(id, f[k].h[id], muxCif + k).plan = f[k].h[id].plan
      BY <2>2, <3>1, PushedOk
    <3> QED BY <2>2, <2>4, <3>1, <3>2
  <2> QED BY <2>4, <2>5
<1>4. \A k \in 0..CifsPerFrame : Reached(k)
  <2> HIDE DEF Reached
  <2>1. \A k \in Nat : k \in T => k + 1 \in T
    BY <1>3
  <2> HIDE DEF T
  <2>2. \A k \in Nat : k \in T
    BY <1>2, <2>1, SetInduction
  <2> QED BY <2>2 DEF T
<1>5. DOMAIN f[CifsPerFrame].out = DOMAIN synced
      /\ \A id \in DOMAIN synced : OutOk(f[CifsPerFrame].out[id], synced[id].plan, muxCif + CifsPerFrame)
  <2> DEFINE k == CifsPerFrame - 1
  <2>1. k \in 0..CifsPerFrame /\ muxCif + CifsPerFrame - 1 = muxCif + k /\ muxCif + k \in Int
        /\ muxCif + CifsPerFrame = (muxCif + k) + 1 /\ CifsPerFrame \in 1..CifsPerFrame
    BY <1>1
  <2>2. f[CifsPerFrame] = Mux!PushCif(f[k].h, muxCif + k)
    BY <2>1, CifIs
  <2> HIDE DEF k
  <2>3. Reached(k)
    BY <1>4, <2>1
  <2>4. DOMAIN f[CifsPerFrame].out = DOMAIN synced
        /\ \A id \in DOMAIN synced :
              f[CifsPerFrame].out[id] = IF Fits(f[k].h[id].plan) THEN Mux!Deinterleaved(f[k].h[id]) ELSE {}
    BY <2>2, <2>3 DEF Mux!PushCif, Fits
  <2>5. ASSUME NEW id \in DOMAIN synced
        PROVE  OutOk(f[CifsPerFrame].out[id], synced[id].plan, muxCif + CifsPerFrame)
    <3>1. HandlerOk(f[k].h[id], muxCif + k) /\ f[k].h[id].plan = synced[id].plan
      BY <2>3
    <3>2. OutOk(Mux!Deinterleaved(f[k].h[id]), f[k].h[id].plan, (muxCif + k) + 1)
      BY <2>1, <3>1, DeinterleavedOk
    <3>3. OutOk({}, synced[id].plan, muxCif + CifsPerFrame)
      BY DEF OutOk
    <3> QED BY <2>1, <2>4, <3>1, <3>2, <3>3
  <2> QED BY <2>4, <2>5
<1> QED BY <1>4, <1>5

\* And a handler of the plan on the air has all of it, and gives it.
LEMMA FrameExact ==
    ASSUME MuxSizes, muxCif \in Nat, NEW f, NEW synced, CifByCif(f, synced),
           \A id \in DOMAIN synced : HandlerOk(synced[id], muxCif),
           NEW id \in DOMAIN synced, id \in DOMAIN muxAir'.subs, muxAir'.subs[id] = synced[id].plan,
           NEW n \in Nat, muxSince'[id] \in Nat, muxSince'[id] + n <= muxCif,
           Exact(synced[id], muxCif, n, muxSince'[id])
    PROVE  /\ Exact(f[CifsPerFrame].h[id], muxCif + CifsPerFrame, n + CifsPerFrame, muxSince'[id])
           /\ Fits(synced[id].plan) /\ n + CifsPerFrame > MuxDepth =>
                 f[CifsPerFrame].out[id] =
                    {[plan |-> synced[id].plan, n |-> ((muxCif + CifsPerFrame) - 1) - MuxDepth]}
<1> DEFINE s == muxSince'[id]
           T == {k \in Nat : k \in 0..CifsPerFrame => Exact(f[k].h[id], muxCif + k, n + k, s)}
<1>1. CifsPerFrame \in Nat \ {0} /\ MuxDepth \in Nat \ {0}
  BY DEF MuxSizes
<1>2. \A k \in 0..CifsPerFrame :
         /\ DOMAIN f[k].h = DOMAIN synced
         /\ HandlerOk(f[k].h[id], muxCif + k) /\ f[k].h[id].plan = synced[id].plan
  BY FrameOk
<1>3. 0 \in T
  <2>1. f[0].h = synced /\ muxCif + 0 = muxCif /\ n + 0 = n
    BY CifIs
  <2> QED BY <2>1
<1>4. ASSUME NEW k \in Nat, k \in T, k + 1 \in 0..CifsPerFrame
      PROVE  Exact(f[k + 1].h[id], muxCif + (k + 1), n + (k + 1), s)
  <2>1. k \in 0..CifsPerFrame /\ k + 1 \in 1..CifsPerFrame /\ n + k \in Nat
    BY <1>1, <1>4
  <2>2. (k + 1) - 1 = k /\ muxCif + (k + 1) - 1 = muxCif + k /\ muxCif + (k + 1) = (muxCif + k) + 1
        /\ muxCif + k \in Int /\ n + (k + 1) = (n + k) + 1
    BY <1>1
  <2>3. f[k + 1] = Mux!PushCif(f[k].h, muxCif + k)
    BY <2>1, <2>2, CifIs
  <2>4. f[k + 1].h[id] = Mux!Pushed(id, f[k].h[id], muxCif + k)
    BY <1>2, <2>1, <2>3 DEF Mux!PushCif
  <2>5. Exact(f[k].h[id], muxCif + k, n + k, s)
    BY <1>4, <2>1
  <2>6. Exact(Mux!Pushed(id, f[k].h[id], muxCif + k), (muxCif + k) + 1, (n + k) + 1, s)
    BY <1>2, <2>1, <2>2, <2>5, PushedExact
  <2> QED BY <2>2, <2>4, <2>6
<1>5. \A k \in 0..CifsPerFrame : Exact(f[k].h[id], muxCif + k, n + k, s)
  <2>1. \A k \in Nat : k \in T => k + 1 \in T
    BY <1>4
  <2> HIDE DEF T
  <2>2. \A k \in Nat : k \in T
    BY <1>3, <2>1, SetInduction
  <2> QED BY <2>2 DEF T
<1>6. ASSUME Fits(synced[id].plan), n + CifsPerFrame > MuxDepth
      PROVE  f[CifsPerFrame].out[id] =
                {[plan |-> synced[id].plan, n |-> ((muxCif + CifsPerFrame) - 1) - MuxDepth]}
  <2> DEFINE k == CifsPerFrame - 1
  <2>1. k \in 0..CifsPerFrame /\ muxCif + CifsPerFrame - 1 = muxCif + k /\ muxCif + k \in Int
        /\ muxCif + CifsPerFrame = (muxCif + k) + 1 /\ CifsPerFrame \in 1..CifsPerFrame
        /\ n + k \in Nat /\ n + k >= MuxDepth /\ s + MuxDepth <= muxCif + k
    BY <1>1, <1>6
  <2>2. f[CifsPerFrame] = Mux!PushCif(f[k].h, muxCif + k)
    BY <2>1, CifIs
  <2> HIDE DEF k
  <2>3. HandlerOk(f[k].h[id], muxCif + k) /\ f[k].h[id].plan = synced[id].plan
        /\ Exact(f[k].h[id], muxCif + k, n + k, s) /\ id \in DOMAIN f[k].h
    BY <1>2, <1>5, <2>1
  <2>4. f[CifsPerFrame].out[id] = Mux!Deinterleaved(f[k].h[id])
    BY <1>6, <2>2, <2>3 DEF Mux!PushCif, Fits
  <2>5. Mux!Deinterleaved(f[k].h[id])
           = {[plan |-> f[k].h[id].plan, n |-> (((muxCif + k) + 1) - 1) - MuxDepth]}
    BY <1>6, <2>1, <2>3, DeinterleavedExact
  <2> QED BY <2>1, <2>3, <2>4, <2>5
<1>7. Exact(f[CifsPerFrame].h[id], muxCif + CifsPerFrame, n + CifsPerFrame, s)
  BY <1>1, <1>5
<1> QED BY <1>6, <1>7

-----------------------------------------------------------------------------
(* The invariant.                                                          *)

\* What the histories and the handlers say of each other.
AirOk ==
    /\ muxCif \in Nat
    /\ DOMAIN muxSince = DOMAIN muxAir.subs /\ DOMAIN muxFresh = DOMAIN muxAir.subs
    /\ \A id \in DOMAIN muxAir.subs :
          muxSince[id] \in Nat /\ muxFresh[id] \in Nat /\ muxSince[id] + muxFresh[id] <= muxCif

HandlersOk ==
    /\ \A id \in DOMAIN muxHandlers : HandlerOk(muxHandlers[id], muxCif)
    /\ DOMAIN muxOut = DOMAIN muxHandlers
    /\ \A id \in DOMAIN muxHandlers : OutOk(muxOut[id], muxHandlers[id].plan, muxCif)

\* A sub-channel received in one piece has its handler, and the handler its bits.
FreshOk ==
    \A id \in DOMAIN muxAir.subs :
        muxFresh[id] > 0 /\ Mux!Resolved(muxAir.subs[id]) # Mux!NoProfile =>
            /\ id \in DOMAIN muxHandlers /\ muxHandlers[id].plan = muxAir.subs[id]
            /\ Exact(muxHandlers[id], muxCif, muxFresh[id], muxSince[id])

MuxInv == AirOk /\ HandlersOk /\ FreshOk /\ Mux!GivesWhatWasSent

\* What is on the air next: a sub-channel came on it now or stays.
LEMMA OnAirIs ==
    ASSUME AirOk, NEW p, Mux!OnAir(p)
    PROVE  /\ muxAir' = p /\ DOMAIN muxSince' = DOMAIN p.subs
           /\ \A id \in DOMAIN p.subs :
                 /\ muxSince'[id] \in Nat /\ muxSince'[id] <= muxCif
                 /\ muxSince'[id] = muxCif \/ ( /\ id \in DOMAIN muxAir.subs /\ muxAir.subs[id] = p.subs[id]
                                            /\ muxSince'[id] = muxSince[id])
<1>1. /\ muxAir' = p
      /\ muxSince' = [id \in DOMAIN p.subs |->
                        IF id \in DOMAIN muxAir.subs /\ muxAir.subs[id] = p.subs[id] THEN muxSince[id] ELSE muxCif]
  BY DEF Mux!OnAir, Mux!SubIds
<1>2. muxCif \in Nat /\ \A id \in DOMAIN muxAir.subs : muxSince[id] \in Nat /\ muxSince[id] <= muxCif
  BY DEF AirOk
<1> QED BY <1>1, <1>2

\* The handlers a frame is pushed to.
LEMMA SyncedOk ==
    ASSUME MuxSizes, HandlersOk, muxCif \in Nat, NEW told
    PROVE  \A id \in DOMAIN Mux!Synced(told) :
              HandlerOk(Mux!Synced(told)[id], muxCif) /\ Mux!Synced(told)[id].plan = told.subs[id]
<1> DEFINE synced == Mux!Synced(told)
<1>1. ASSUME NEW id \in DOMAIN synced
      PROVE  synced[id] = IF id \in DOMAIN muxHandlers /\ muxHandlers[id].plan = told.subs[id]
                          THEN muxHandlers[id] ELSE Mux!NewHandler(told.subs[id])
  BY DEF Mux!Synced
<1>2. ASSUME NEW plan PROVE HandlerOk(Mux!NewHandler(plan), muxCif) /\ Mux!NewHandler(plan).plan = plan
  <2> DEFINE ring == [slot \in 0..(MuxDepth - 1) |-> <<>>]
             h == [plan |-> plan, received |-> 0, ring |-> ring]
  <2>1. ring = [slot \in Slots |-> ring[slot]]
    BY DEF Slots
  <2> HIDE DEF ring
  <2>2. h.plan = plan /\ h.received = 0 /\ h.ring = ring /\ h \in [plan : {plan}, received : {0}, ring : {ring}]
    OBVIOUS
  <2> HIDE DEF h
  <2>3. HandlerOk(h, muxCif)
    BY <2>1, <2>2 DEF HandlerOk
  <2> QED BY <2>2, <2>3 DEF Mux!NewHandler, h, ring
<1> HIDE DEF synced
<1>3. ASSUME NEW id \in DOMAIN synced PROVE HandlerOk(synced[id], muxCif) /\ synced[id].plan = told.subs[id]
  BY <1>1, <1>2 DEF HandlersOk
<1> QED BY <1>3 DEF synced

\* A handler with nothing in its ring, at any CIF.
LEMMA DiscardedOk ==
    ASSUME MuxSizes, HandlersOk, NEW r \in Nat
    PROVE  /\ DOMAIN Mux!Discarded = DOMAIN muxHandlers
           /\ \A id \in DOMAIN muxHandlers : HandlerOk(Mux!Discarded[id], r)
<1>1. ASSUME NEW id \in DOMAIN muxHandlers PROVE HandlerOk([muxHandlers[id] EXCEPT !.received = 0], r)
  <2> DEFINE h == muxHandlers[id]
             plan == h.plan
             n == h.received
             ring == h.ring
             g == [h EXCEPT !.received = 0]
  <2>1. h \in [plan : {plan}, received : {n}, ring : {ring}] /\ ring = [slot \in Slots |-> ring[slot]]
    BY DEF HandlersOk, HandlerOk
  <2> HIDE DEF h, plan, n, ring
  <2>2. g \in [plan : {plan}, received : {0}, ring : {ring}]
    BY <2>1
  <2> HIDE DEF g
  <2>3. g.plan = plan /\ g.received = 0 /\ g.ring = ring
    BY <2>2
  <2>4. HandlerOk(g, r)
    BY <2>1, <2>2, <2>3 DEF HandlerOk
  <2> QED BY <2>4 DEF g, h
<1> QED BY <1>1 DEF Mux!Discarded

\* The multiplex holds it at the start.
LEMMA MuxInit == ASSUME MuxSizes, Mux!Init PROVE MuxInv
<1>1. AirOk
  BY DEF Mux!Init, AirOk, Mux!SubIds
<1>2. HandlersOk
  BY DEF Mux!Init, HandlersOk
<1>3. \A id \in DOMAIN muxAir.subs : muxFresh[id] = 0
  BY DEF Mux!Init, Mux!SubIds
<1>4. FreshOk
  BY <1>3 DEF FreshOk
<1>5. Mux!GivesWhatWasSent
  BY <1>3 DEF Mux!GivesWhatWasSent, Mux!SubIds, MuxSizes
<1> QED BY <1>1, <1>2, <1>4, <1>5 DEF MuxInv

\* A frame taken keeps it.
LEMMA FrameKeeps == ASSUME MuxSizes, MuxInv, Mux!Frame PROVE MuxInv'
<1>1. PICK p \in Programmes, clean \in Damages : Mux!OnAir(p) /\ Mux!Accept(clean)
  BY DEF Mux!Frame
<1> DEFINE synced == Mux!Synced(muxEns')
           Told(id) == id \in DOMAIN muxEns'.subs /\ muxEns'.subs[id] = p.subs[id]
           Kept(id) == IF id \in DOMAIN muxFresh /\ muxSince'[id] # muxCif THEN muxFresh[id] ELSE 0
<1>2. AirOk /\ HandlersOk /\ FreshOk /\ muxCif \in Nat /\ CifsPerFrame \in Nat \ {0} /\ MuxDepth \in Nat \ {0}
  BY DEF MuxInv, AirOk, MuxSizes
<1>3. muxCif' = muxCif + CifsPerFrame
  BY DEF Mux!Frame, Mux!Goes
<1>4. /\ muxAir' = p /\ DOMAIN muxSince' = DOMAIN p.subs
      /\ \A id \in DOMAIN p.subs :
            /\ muxSince'[id] \in Nat /\ muxSince'[id] <= muxCif
            /\ muxSince'[id] = muxCif \/ ( /\ id \in DOMAIN muxAir.subs /\ muxAir.subs[id] = p.subs[id]
                                       /\ muxSince'[id] = muxSince[id])
  BY <1>1, <1>2, OnAirIs
<1>5. Mux!PushFrame(synced)
      /\ muxFresh' = [id \in DOMAIN p.subs |-> IF Told(id) THEN CifsPerFrame + Kept(id) ELSE 0]
  BY <1>1, <1>4 DEF Mux!Accept, Mux!SubIds
<1>6. \A id \in DOMAIN synced : HandlerOk(synced[id], muxCif) /\ synced[id].plan = muxEns'.subs[id]
  BY <1>2, SyncedOk
<1>7. ASSUME NEW id \in DOMAIN p.subs PROVE Kept(id) \in Nat /\ muxSince'[id] + Kept(id) <= muxCif
  BY <1>2, <1>4 DEF AirOk
<1>8. ASSUME NEW id \in DOMAIN p.subs, Told(id), Mux!Resolved(p.subs[id]) # Mux!NoProfile
      PROVE  id \in DOMAIN synced /\ synced[id].plan = p.subs[id] /\ Exact(synced[id], muxCif, Kept(id), muxSince'[id])
  <2>1. id \in DOMAIN synced
    BY <1>8 DEF Mux!Synced
  <2>2. synced[id].plan = p.subs[id]
    BY <1>6, <1>8, <2>1
  <2>3. CASE Kept(id) = 0
    <3> DEFINE h == synced[id]
    <3>1. h.received \in Nat
      BY <1>6, <2>1 DEF HandlerOk
    <3> HIDE DEF h
    <3>2. Exact(h, muxCif, 0, muxSince'[id])
      BY <3>1 DEF Exact
    <3> QED BY <2>1, <2>2, <2>3, <3>2 DEF h
  <2>4. CASE Kept(id) # 0
    <3>1. /\ id \in DOMAIN muxAir.subs /\ muxAir.subs[id] = p.subs[id] /\ muxSince'[id] = muxSince[id]
          /\ Kept(id) = muxFresh[id] /\ muxFresh[id] > 0
      BY <1>2, <1>4, <2>4 DEF AirOk
    <3>2. id \in DOMAIN muxHandlers /\ muxHandlers[id].plan = p.subs[id]
          /\ Exact(muxHandlers[id], muxCif, Kept(id), muxSince'[id])
      BY <1>2, <1>8, <3>1 DEF FreshOk
    <3>3. synced[id] = muxHandlers[id]
      BY <1>8, <2>1, <3>2 DEF Mux!Synced
    <3> QED BY <2>1, <2>2, <3>2, <3>3
  <2> QED BY <2>3, <2>4
<1> HIDE DEF synced
<1>9. PICK f : CifByCif(f, synced) /\ muxHandlers' = f[CifsPerFrame].h /\ muxOut' = f[CifsPerFrame].out
  BY <1>5, CifsExist
<1>10. AirOk'
  <2>1. ASSUME NEW id \in DOMAIN p.subs
        PROVE  muxFresh'[id] \in Nat /\ muxSince'[id] + muxFresh'[id] <= muxCif + CifsPerFrame
    <3> HIDE DEF Told, Kept
    <3>1. muxSince'[id] \in Nat /\ Kept(id) \in Nat /\ muxSince'[id] + Kept(id) <= muxCif
      BY <1>4, <1>7
    <3>2. muxFresh'[id] = CifsPerFrame + Kept(id) \/ muxFresh'[id] = 0
      BY <1>5
    <3> QED BY <1>2, <3>1, <3>2
  <2>2. DOMAIN muxFresh' = DOMAIN p.subs
    BY <1>5
  <2> QED BY <1>2, <1>3, <1>4, <2>1, <2>2 DEF AirOk
<1>11. HandlersOk'
  <2>1. /\ DOMAIN muxHandlers' = DOMAIN synced /\ DOMAIN muxOut' = DOMAIN synced
        /\ \A id \in DOMAIN synced :
              /\ HandlerOk(muxHandlers'[id], muxCif') /\ muxHandlers'[id].plan = synced[id].plan
              /\ OutOk(muxOut'[id], synced[id].plan, muxCif')
    <3>1. CifsPerFrame \in 0..CifsPerFrame
      BY <1>2
    <3> QED BY <1>2, <1>3, <1>6, <1>9, <3>1, FrameOk
  <2> QED BY <2>1 DEF HandlersOk
<1>12. ASSUME NEW id \in DOMAIN p.subs, Told(id), Mux!Resolved(p.subs[id]) # Mux!NoProfile
       PROVE  /\ id \in DOMAIN muxHandlers' /\ id \in DOMAIN muxOut' /\ muxHandlers'[id].plan = p.subs[id]
              /\ Exact(muxHandlers'[id], muxCif', muxFresh'[id], muxSince'[id])
              /\ Fits(p.subs[id]) /\ muxFresh'[id] > MuxDepth =>
                    muxOut'[id] = {[plan |-> p.subs[id], n |-> (muxCif' - 1) - MuxDepth]}
  <2>1. id \in DOMAIN synced /\ synced[id].plan = p.subs[id] /\ Exact(synced[id], muxCif, Kept(id), muxSince'[id])
    BY <1>8, <1>12
  <2>2. muxFresh'[id] = Kept(id) + CifsPerFrame
    <3>1. muxFresh'[id] = CifsPerFrame + Kept(id)
      BY <1>5, <1>12
    <3> QED BY <1>2, <1>7, <3>1
  <2> DEFINE n == Kept(id)
  <2>3. n \in Nat /\ muxSince'[id] \in Nat /\ muxSince'[id] + n <= muxCif
    BY <1>4, <1>7
  <2> HIDE DEF n
  <2>4. Exact(synced[id], muxCif, n, muxSince'[id])
    BY <2>1 DEF n
  <2>5. \A i \in DOMAIN synced : HandlerOk(synced[i], muxCif)
    BY <1>6
  <2>6. id \in DOMAIN muxAir'.subs /\ muxAir'.subs[id] = synced[id].plan
    BY <1>4, <2>1
  <2>7. /\ Exact(f[CifsPerFrame].h[id], muxCif + CifsPerFrame, n + CifsPerFrame, muxSince'[id])
        /\ Fits(synced[id].plan) /\ n + CifsPerFrame > MuxDepth =>
              f[CifsPerFrame].out[id] =
                 {[plan |-> synced[id].plan, n |-> ((muxCif + CifsPerFrame) - 1) - MuxDepth]}
    BY <1>2, <1>9, <2>1, <2>3, <2>4, <2>5, <2>6, FrameExact
  <2>8. CifsPerFrame \in 0..CifsPerFrame
    BY <1>2
  <2>9. DOMAIN muxHandlers' = DOMAIN synced /\ DOMAIN muxOut' = DOMAIN synced /\ muxHandlers'[id].plan = synced[id].plan
    BY <1>2, <1>9, <2>1, <2>5, <2>8, FrameOk
  <2> QED BY <1>3, <1>9, <2>1, <2>2, <2>7, <2>9 DEF n
<1>13. \A id \in DOMAIN p.subs : muxFresh'[id] > 0 => Told(id)
  BY <1>2, <1>5
<1> HIDE DEF Told, Kept
<1>14. FreshOk'
  BY <1>4, <1>12, <1>13 DEF FreshOk
<1>15. Mux!GivesWhatWasSent'
  <2> SUFFICES ASSUME NEW id \in DOMAIN p.subs, muxFresh'[id] > MuxDepth,
                      Mux!Resolved(p.subs[id]) # Mux!NoProfile, p.subs[id].start + p.subs[id].size <= CuPerCif
               PROVE  id \in DOMAIN muxOut' /\ muxOut'[id] = {[plan |-> p.subs[id], n |-> muxCif' - 1 - MuxDepth]}
    BY <1>4 DEF Mux!GivesWhatWasSent, Mux!SubIds
  <2>1. muxFresh'[id] \in Nat /\ muxFresh'[id] > 0
    BY <1>2, <1>4, <1>10 DEF AirOk
  <2>2. Fits(p.subs[id])
    <3>1. p.subs[id].start \in Nat /\ p.subs[id].size \in Nat /\ CuPerCif \in Nat
      BY DEF MuxSizes
    <3>2. ~(p.subs[id].start + p.subs[id].size > CuPerCif)
      BY <3>1
    <3> QED BY <3>2 DEF Fits
  <2> QED BY <1>12, <1>13, <2>1, <2>2
<1> QED BY <1>10, <1>11, <1>14, <1>15 DEF MuxInv

\* What empties the rings keeps it, at the same CIF or a later one.
LEMMA EmptiedKeeps ==
    ASSUME MuxSizes, MuxInv, muxAir' = muxAir, DOMAIN muxSince' = DOMAIN muxAir.subs,
           \A id \in DOMAIN muxAir.subs : muxSince'[id] \in Nat /\ muxSince'[id] <= muxCif,
           muxCif' \in Nat, muxCif <= muxCif', muxHandlers' = Mux!Discarded, muxOut' = [id \in DOMAIN muxHandlers |-> {}],
           muxFresh' = [id \in DOMAIN muxFresh |-> 0]
    PROVE  MuxInv'
<1>1. AirOk /\ HandlersOk /\ muxCif \in Nat
  BY DEF MuxInv, AirOk
<1>2. DOMAIN muxFresh' = DOMAIN muxAir.subs /\ \A id \in DOMAIN muxAir.subs : muxFresh'[id] = 0
  BY <1>1 DEF AirOk
<1>3. AirOk'
  BY <1>1, <1>2 DEF AirOk
<1>4. HandlersOk'
  <2>1. DOMAIN muxHandlers' = DOMAIN muxHandlers /\ \A id \in DOMAIN muxHandlers : HandlerOk(muxHandlers'[id], muxCif')
    BY <1>1, DiscardedOk
  <2>2. \A id \in DOMAIN muxHandlers : muxOut'[id] = {} /\ OutOk(muxOut'[id], muxHandlers'[id].plan, muxCif')
    BY DEF OutOk
  <2> QED BY <2>1, <2>2 DEF HandlersOk
<1>5. FreshOk'
  BY <1>2 DEF FreshOk
<1>6. Mux!GivesWhatWasSent'
  BY <1>2 DEF Mux!GivesWhatWasSent, Mux!SubIds, MuxSizes
<1> QED BY <1>3, <1>4, <1>5, <1>6 DEF MuxInv

\* Every step of the multiplex keeps it.
LEMMA MuxStep == ASSUME MuxSizes, MuxInv, [Mux!Next]_(Mux!vars) PROVE MuxInv'
<1>1. AirOk /\ muxCif \in Nat /\ CifsPerFrame \in Nat
  BY DEF MuxInv, AirOk, MuxSizes
<1>2. CASE Mux!Frame
  BY <1>2, FrameKeeps
<1>3. CASE Mux!Hole
  <2>1. Mux!OnAir(muxAir) /\ muxCif' = muxCif + CifsPerFrame
    BY <1>3 DEF Mux!Hole, Mux!Goes
  <2>2. muxAir' = muxAir /\ DOMAIN muxSince' = DOMAIN muxAir.subs
        /\ \A id \in DOMAIN muxAir.subs : muxSince'[id] \in Nat /\ muxSince'[id] <= muxCif
    BY <1>1, <2>1, OnAirIs
  <2>3. muxCif' \in Nat /\ muxCif <= muxCif'
    BY <1>1, <2>1
  <2> QED BY <1>3, <2>2, <2>3, EmptiedKeeps DEF Mux!Hole
<1>4. CASE Mux!Expire
  <2>1. \A id \in DOMAIN muxAir.subs : muxSince[id] \in Nat /\ muxSince[id] <= muxCif
    BY <1>1 DEF AirOk
  <2>2. DOMAIN muxSince = DOMAIN muxAir.subs
    BY <1>1 DEF AirOk
  <2> QED BY <1>1, <1>4, <2>1, <2>2, EmptiedKeeps DEF Mux!Expire
<1>5. CASE UNCHANGED Mux!vars
  <2>1. UNCHANGED <<muxAir, muxSince, muxCif, muxEns, muxHandlers, muxOut, muxFresh, muxHeard>>
    BY <1>5 DEF Mux!vars
  <2> QED BY <2>1 DEF MuxInv, AirOk, HandlersOk, FreshOk, Mux!GivesWhatWasSent, Mux!SubIds
<1> QED BY <1>2, <1>3, <1>4, <1>5 DEF Mux!Next

\* What the rings hold leaves no room for a mixture.
LEMMA InvNothingMixed == MuxInv => Mux!NothingMixed
<1> SUFFICES ASSUME MuxInv, NEW id \in DOMAIN muxOut, NEW f \in muxOut[id] \ {None}
             PROVE  f = [plan |-> muxHandlers[id].plan, n |-> (muxCif - 1) - MuxDepth]
  BY DEF Mux!NothingMixed
<1> QED BY DEF MuxInv, HandlersOk, OutOk

\* A sub-channel of the ensemble gives logical frames whole, its own and in
\* order, and none that is put together of two or of another plan's bits,
\* whatever was lost, expired or reconfigured before (deinterleave.rs and
\* msc.rs, for every depth and every programme).
THEOREM SubChannelsAreWhole ==
    ASSUME Mux!MuxAssumption
    PROVE  Mux!Spec => [](Mux!NothingMixed /\ Mux!GivesWhatWasSent)
<1>1. MuxSizes
  BY SizesAre
<1>2. Mux!Init => MuxInv
  BY <1>1, MuxInit
<1>3. MuxInv /\ [Mux!Next]_(Mux!vars) => MuxInv'
  BY <1>1, MuxStep
<1>4. MuxInv => Mux!NothingMixed /\ Mux!GivesWhatWasSent
  BY InvNothingMixed DEF MuxInv
<1> QED BY <1>2, <1>3, <1>4, PTL DEF Mux!Spec

-----------------------------------------------------------------------------
(* The tracker.                                                            *)

LabTrack == [id : Nat \ {0}, at : Int, first : Int, last : Int, seen : Int]

\* A tracker whose identities were given out.
TrackerOk(t) ==
    /\ t \in [tracks : Seq(LabTrack), next : Nat \ {0}, centre : LabCentres]
    /\ \A i \in DOMAIN t.tracks : t.tracks[i].id < t.next

\* An identity a track may have after one frame at a centre: one that is new,
\* or that of a track of the same centre.
Came(t, centre, id) ==
    id >= t.next \/ (t.centre = centre /\ \E j \in DOMAIN t.tracks : t.tracks[j].id = id)

\* The tracker within a frame.
Going(t, centre, now, s) ==
    /\ s \in [tracks : Seq(LabTrack), next : Nat \ {0}, taken : {s.taken}, now : {now}]
    /\ s.next >= t.next
    /\ \A i \in DOMAIN s.tracks : s.tracks[i].id < s.next /\ Came(t, centre, s.tracks[i].id)

\* One observation more.
LEMMA ObserveGoes ==
    ASSUME NEW t, t.next \in Nat, NEW centre, NEW now \in Int, NEW s, Going(t, centre, now, s),
           NEW place \in Int, labTicks \in Int
    PROVE  Going(t, centre, now, Lab!Observe(s, place))
<1> DEFINE tracks == s.tracks
           next == s.next
           taken == s.taken
           fit == {i \in DOMAIN tracks : i \notin taken /\ Lab!Dist(tracks[i].at, place) <= LabSlack}
           near == {i \in fit : \A j \in fit : Lab!Dist(tracks[i].at, place) <= Lab!Dist(tracks[j].at, place)}
           m == Lab!Min(near)
           new == [id |-> next, at |-> place, first |-> s.now, last |-> s.now, seen |-> labTicks]
           more == [s EXCEPT !.tracks = Append(@, new), !.next = @ + 1, !.taken = @ \cup {Len(s.tracks) + 1}]
           same == [s EXCEPT !.tracks[m] = Lab!Met(@, place, s.now), !.taken = @ \cup {m}]
<1>1. /\ s \in [tracks : {tracks}, next : {next}, taken : {taken}, now : {now}]
      /\ tracks \in Seq(LabTrack) /\ next \in Nat \ {0} /\ s.now = now /\ next >= t.next
      /\ \A i \in DOMAIN tracks : tracks[i].id < next /\ Came(t, centre, tracks[i].id)
  BY DEF Going
<1>2. Lab!Observe(s, place) = IF fit = {} THEN more ELSE same
  BY DEF Lab!Observe
<1> HIDE DEF fit, m
<1>3. Going(t, centre, now, more)
  <2> HIDE DEF tracks, next, taken
  <2>1. new \in LabTrack /\ new.id = next
    BY <1>1 DEF LabTrack
  <2> HIDE DEF new
  <2>2. more \in [tracks : {Append(tracks, new)}, next : {next + 1}, taken : {taken \cup {Len(tracks) + 1}},
                  now : {now}]
    <3>1. s.tracks = tracks
      BY DEF tracks
    <3> QED BY <1>1, <3>1
  <2> DEFINE g == more
             l == Append(tracks, new)
  <2>3. l \in Seq(LabTrack) /\ DOMAIN l = 1..(Len(tracks) + 1) /\ l[Len(tracks) + 1] = new
        /\ \A i \in 1..Len(tracks) : l[i] = tracks[i]
    BY <1>1, <2>1
  <2>4. DOMAIN tracks = 1..Len(tracks) /\ Len(tracks) \in Nat
    BY <1>1
  <2> HIDE DEF g, l
  <2>5. g.tracks = l /\ g.next = next + 1 /\ g.now = now
        /\ g \in [tracks : {l}, next : {next + 1}, taken : {g.taken}, now : {now}]
    BY <2>2 DEF g, l
  <2>6. ASSUME NEW i \in DOMAIN l PROVE l[i].id < next + 1 /\ Came(t, centre, l[i].id)
    <3>1. CASE i = Len(tracks) + 1
      BY <1>1, <2>1, <2>3, <3>1 DEF Came
    <3>2. CASE i \in 1..Len(tracks)
      <4>1. l[i] = tracks[i] /\ tracks[i].id < next /\ Came(t, centre, tracks[i].id) /\ tracks[i] \in LabTrack
        BY <1>1, <2>3, <2>4, <3>2
      <4>2. tracks[i].id \in Nat
        BY <4>1 DEF LabTrack
      <4> QED BY <1>1, <4>1, <4>2
    <3> QED BY <2>3, <2>4, <3>1, <3>2
  <2>7. next + 1 >= t.next
    BY <1>1
  <2>8. Going(t, centre, now, g)
    BY <1>1, <2>3, <2>5, <2>6, <2>7 DEF Going
  <2> QED BY <2>8 DEF g
<1>4. Going(t, centre, now, same)
  <2>1. ASSUME NEW r \in LabTrack PROVE Lab!Met(r, place, s.now) \in LabTrack /\ Lab!Met(r, place, s.now).id = r.id
    <3>1. s.now \in Int
      BY <1>1
    <3> QED BY <2>1, <3>1 DEF LabTrack, Lab!Met
  <2> DEFINE l == [tracks EXCEPT ![m] = Lab!Met(@, place, s.now)]
  <2>2. same \in [tracks : {l}, next : {next}, taken : {taken \cup {m}}, now : {now}]
    <3> DEFINE x == Lab!Met(tracks[m], place, s.now)
    <3>1. same = [s EXCEPT !.tracks[m] = x, !.taken = @ \cup {m}] /\ l = [tracks EXCEPT ![m] = x]
      OBVIOUS
    <3> HIDE DEF x, tracks, next, taken
    <3>2. s.tracks = tracks
      BY DEF tracks
    <3>3. [s EXCEPT !.tracks[m] = x, !.taken = @ \cup {m}]
            \in [tracks : {[tracks EXCEPT ![m] = x]}, next : {next}, taken : {taken \cup {m}}, now : {now}]
      BY <1>1, <3>2
    <3> QED BY <3>1, <3>3
  <2> HIDE DEF tracks, next, taken
  <2>3. \A i \in DOMAIN tracks : tracks[i] \in LabTrack
    BY <1>1
  <2>4. DOMAIN l = DOMAIN tracks /\ \A i \in DOMAIN tracks : l[i] \in LabTrack /\ l[i].id = tracks[i].id
    BY <2>1, <2>3
  <2>5. l \in Seq(LabTrack)
    <3> USE DEF l
    <3>1. l = [i \in DOMAIN tracks |-> l[i]] /\ DOMAIN tracks = 1..Len(tracks) /\ Len(tracks) \in Nat
      BY <1>1
    <3> HIDE DEF l
    <3>2. \A i \in 1..Len(tracks) : l[i] \in LabTrack
      BY <2>4, <3>1
    <3>3. l = [i \in 1..Len(tracks) |-> l[i]]
      BY <3>1
    <3>4. l \in [1..Len(tracks) -> LabTrack]
      BY <3>2, <3>3
    <3> QED BY <3>1, <3>4
  <2> DEFINE g == same
  <2> HIDE DEF l
  <2> HIDE DEF g
  <2>6. g.tracks = l /\ g.next = next /\ g \in [tracks : {l}, next : {next}, taken : {g.taken}, now : {now}]
    BY <2>2 DEF g
  <2>7. Going(t, centre, now, g)
    BY <1>1, <2>4, <2>5, <2>6 DEF Going
  <2> QED BY <2>7 DEF g
<1> QED BY <1>2, <1>3, <1>4

\* The recursion over the observations of a frame is well defined.
LEMMA ObservedExists ==
    ASSUME NEW t, NEW places, Len(places) \in Nat
    PROVE  \E f : /\ f[0] = t
                  /\ \A k \in 1..Len(places) : f[k] = Lab!Observe(f[k - 1], places[k])
                  /\ Lab!Observed(t, places) = f[Len(places)]
<1> DEFINE n == Len(places)
           Body(m, f) == [k \in 0..m |-> IF k = 0 THEN t ELSE Lab!Observe(f[k - 1], places[k])]
           Done == {m \in Nat : \E f : f = Body(m, f)}
<1>1. 0 \in Done
  <2>1. [k \in 0..0 |-> t] = Body(0, [k \in 0..0 |-> t])
    OBVIOUS
  <2> QED BY <2>1
<1>2. ASSUME NEW m \in Nat, m \in Done PROVE m + 1 \in Done
  <2>1. PICK f : f = Body(m, f)
    BY <1>2
  <2> DEFINE last == Lab!Observe(f[m], places[m + 1])
             g == [k \in 0..(m + 1) |-> IF k = m + 1 THEN last ELSE f[k]]
  <2>2. (\A k \in 0..m : g[k] = f[k]) /\ g[m + 1] = last
    <3> HIDE DEF last
    <3> QED OBVIOUS
  <2>3. \A k \in 0..m : f[k] = IF k = 0 THEN t ELSE Lab!Observe(f[k - 1], places[k])
    BY <2>1
  <2>4. g = [k \in 0..(m + 1) |-> g[k]]
    <3> HIDE DEF last
    <3> QED OBVIOUS
  <2> HIDE DEF g
  <2>5. ASSUME NEW k \in 0..(m + 1)
        PROVE  g[k] = IF k = 0 THEN t ELSE Lab!Observe(g[k - 1], places[k])
    <3>1. CASE k = m + 1
      <4>1. g[k - 1] = f[m] /\ k # 0
        BY <2>2, <3>1
      <4> QED BY <2>2, <3>1, <4>1
    <3>2. CASE k \in 0..m
      <4>1. g[k] = f[k] /\ (k # 0 => g[k - 1] = f[k - 1])
        BY <2>2, <3>2
      <4> QED BY <2>3, <3>2, <4>1
    <3> QED BY <3>1, <3>2
  <2>6. g = Body(m + 1, g)
    BY <2>4, <2>5
  <2> HIDE DEF Body
  <2> QED BY <2>6
<1> HIDE DEF Done
<1>3. n \in Done
  BY <1>1, <1>2, SetInduction
<1> DEFINE F == CHOOSE f : f = Body(n, f)
<1>4. F = Body(n, F)
  <2> HIDE DEF Body
  <2> QED BY <1>3 DEF Done
<1>5. Lab!Observed(t, places) = F[n]
  BY DEF Lab!Observed
<1> HIDE DEF F
<1>6. \A k \in 0..n : F[k] = IF k = 0 THEN t ELSE Lab!Observe(F[k - 1], places[k])
  BY <1>4
<1>7. F[0] = t /\ \A k \in 1..n : F[k] = Lab!Observe(F[k - 1], places[k])
  <2>1. 0 \in 0..n
    OBVIOUS
  <2>2. F[0] = t
    BY <1>6, <2>1
  <2>3. ASSUME NEW k \in 1..n PROVE F[k] = Lab!Observe(F[k - 1], places[k])
    <3>1. k \in 0..n /\ k # 0
      OBVIOUS
    <3> QED BY <1>6, <3>1
  <2> QED BY <2>2, <2>3
<1> QED BY <1>5, <1>7

\* The observations of a frame.
LEMMA ObservedGoes ==
    ASSUME NEW t, t.next \in Nat, NEW centre, NEW now \in Int, NEW s, Going(t, centre, now, s),
           NEW places \in Seq(Int), labTicks \in Int
    PROVE  Going(t, centre, now, Lab!Observed(s, places))
<1>1. Len(places) \in Nat /\ \A k \in 1..Len(places) : places[k] \in Int
  OBVIOUS
<1>2. PICK f : /\ f[0] = s
               /\ \A k \in 1..Len(places) : f[k] = Lab!Observe(f[k - 1], places[k])
               /\ Lab!Observed(s, places) = f[Len(places)]
  BY <1>1, ObservedExists
<1> DEFINE T == {k \in Nat : k \in 0..Len(places) => Going(t, centre, now, f[k])}
<1>3. 0 \in T
  BY <1>2
<1>4. ASSUME NEW k \in Nat, k \in T PROVE k + 1 \in T
  <2> SUFFICES ASSUME k + 1 \in 0..Len(places) PROVE Going(t, centre, now, f[k + 1])
    OBVIOUS
  <2>1. k \in 0..Len(places) /\ k + 1 \in 1..Len(places) /\ (k + 1) - 1 = k
    BY <1>1
  <2>2. f[k + 1] = Lab!Observe(f[k], places[k + 1]) /\ places[k + 1] \in Int
    BY <1>1, <1>2, <2>1
  <2>3. Going(t, centre, now, f[k])
    BY <1>4, <2>1
  <2> QED BY <2>2, <2>3, ObserveGoes
<1> HIDE DEF T
<1>5. Len(places) \in T
  BY <1>1, <1>3, <1>4, SetInduction
<1> QED BY <1>1, <1>2, <1>5 DEF T

\* The recursion over the tracks retained is well defined.
LEMMA RetainedExists ==
    ASSUME NEW tracks, NEW now, Len(tracks) \in Nat
    PROVE  \E f : /\ f[0] = <<>>
                  /\ \A k \in 1..Len(tracks) :
                        f[k] = IF now - tracks[k].last <= LabHold THEN Append(f[k - 1], tracks[k]) ELSE f[k - 1]
                  /\ Lab!Retained(tracks, now) = f[Len(tracks)]
<1> DEFINE n == Len(tracks)
           One(before, k) == IF now - tracks[k].last <= LabHold THEN Append(before, tracks[k]) ELSE before
           Body(m, f) == [k \in 0..m |-> IF k = 0 THEN <<>> ELSE One(f[k - 1], k)]
           Done == {m \in Nat : \E f : f = Body(m, f)}
<1>1. 0 \in Done
  <2>1. [k \in 0..0 |-> <<>>] = Body(0, [k \in 0..0 |-> <<>>])
    OBVIOUS
  <2> QED BY <2>1
<1>2. ASSUME NEW m \in Nat, m \in Done PROVE m + 1 \in Done
  <2>1. PICK f : f = Body(m, f)
    BY <1>2
  <2> DEFINE last == One(f[m], m + 1)
             g == [k \in 0..(m + 1) |-> IF k = m + 1 THEN last ELSE f[k]]
  <2>2. (\A k \in 0..m : g[k] = f[k]) /\ g[m + 1] = last
    <3> HIDE DEF last
    <3> QED OBVIOUS
  <2>3. \A k \in 0..m : f[k] = IF k = 0 THEN <<>> ELSE One(f[k - 1], k)
    BY <2>1
  <2>4. g = [k \in 0..(m + 1) |-> g[k]]
    <3> HIDE DEF last
    <3> QED OBVIOUS
  <2> HIDE DEF g, One
  <2>5. ASSUME NEW k \in 0..(m + 1) PROVE g[k] = IF k = 0 THEN <<>> ELSE One(g[k - 1], k)
    <3>1. CASE k = m + 1
      <4>1. g[k - 1] = f[m] /\ k # 0
        BY <2>2, <3>1
      <4> QED BY <2>2, <3>1, <4>1
    <3>2. CASE k \in 0..m
      <4>1. g[k] = f[k] /\ (k # 0 => g[k - 1] = f[k - 1])
        BY <2>2, <3>2
      <4> QED BY <2>3, <3>2, <4>1
    <3> QED BY <3>1, <3>2
  <2>6. g = Body(m + 1, g)
    BY <2>4, <2>5
  <2> HIDE DEF Body
  <2> QED BY <2>6
<1> HIDE DEF Done
<1>3. n \in Done
  BY <1>1, <1>2, SetInduction
<1> DEFINE F == CHOOSE f : f = Body(n, f)
<1>4. F = Body(n, F)
  <2> HIDE DEF Body
  <2> QED BY <1>3 DEF Done
<1>5. Lab!Retained(tracks, now) = F[n]
  BY DEF Lab!Retained
<1> HIDE DEF F
<1>6. \A k \in 0..n : F[k] = IF k = 0 THEN <<>> ELSE One(F[k - 1], k)
  BY <1>4
<1>7. F[0] = <<>> /\ \A k \in 1..n : F[k] = One(F[k - 1], k)
  <2>1. 0 \in 0..n
    OBVIOUS
  <2>2. F[0] = <<>>
    BY <1>6, <2>1
  <2>3. ASSUME NEW k \in 1..n PROVE F[k] = One(F[k - 1], k)
    <3>1. k \in 0..n /\ k # 0
      OBVIOUS
    <3> HIDE DEF One
    <3> QED BY <1>6, <3>1
  <2> QED BY <2>2, <2>3
<1> QED BY <1>5, <1>7

\* What is retained was tracked.
LEMMA RetainedIs ==
    ASSUME NEW tracks \in Seq(LabTrack), NEW now
    PROVE  /\ Lab!Retained(tracks, now) \in Seq(LabTrack)
           /\ \A i \in DOMAIN Lab!Retained(tracks, now) :
                 \E j \in DOMAIN tracks : Lab!Retained(tracks, now)[i] = tracks[j]
<1>1. Len(tracks) \in Nat /\ DOMAIN tracks = 1..Len(tracks) /\ \A k \in 1..Len(tracks) : tracks[k] \in LabTrack
  OBVIOUS
<1>2. PICK f : /\ f[0] = <<>>
               /\ \A k \in 1..Len(tracks) :
                     f[k] = IF now - tracks[k].last <= LabHold THEN Append(f[k - 1], tracks[k]) ELSE f[k - 1]
               /\ Lab!Retained(tracks, now) = f[Len(tracks)]
  BY <1>1, RetainedExists
<1> DEFINE Kept(l) == l \in Seq(LabTrack) /\ \A i \in DOMAIN l : \E j \in DOMAIN tracks : l[i] = tracks[j]
           T == {k \in Nat : k \in 0..Len(tracks) => Kept(f[k])}
<1>3. 0 \in T
  <2>1. <<>> \in Seq(LabTrack) /\ DOMAIN <<>> = {}
    OBVIOUS
  <2>2. Kept(<<>>)
    BY <2>1
  <2> HIDE DEF Kept
  <2> QED BY <1>2, <2>2
<1>4. ASSUME NEW l, Kept(l), NEW j \in DOMAIN tracks PROVE Kept(Append(l, tracks[j]))
  <2>1. tracks[j] \in LabTrack
    BY <1>1
  <2> DEFINE r == tracks[j]
             a == Append(l, r)
  <2> HIDE DEF r
  <2>2. /\ a \in Seq(LabTrack) /\ DOMAIN a = 1..(Len(l) + 1) /\ a[Len(l) + 1] = r /\ Len(l) \in Nat
        /\ DOMAIN l = 1..Len(l) /\ \A i \in 1..Len(l) : a[i] = l[i]
    BY <1>4, <2>1 DEF r
  <2> HIDE DEF a
  <2>3. ASSUME NEW i \in DOMAIN a PROVE \E k \in DOMAIN tracks : a[i] = tracks[k]
    <3>1. CASE i = Len(l) + 1
      BY <2>2, <3>1 DEF r
    <3>2. CASE i \in 1..Len(l)
      BY <1>4, <2>2, <3>2
    <3> QED BY <2>2, <3>1, <3>2
  <2>4. Kept(a)
    BY <2>2, <2>3
  <2> QED BY <2>4 DEF a, r
<1>5. ASSUME NEW k \in Nat, k \in T PROVE k + 1 \in T
  <2> HIDE DEF Kept
  <2> SUFFICES ASSUME k + 1 \in 0..Len(tracks) PROVE Kept(f[k + 1])
    OBVIOUS
  <2>1. k \in 0..Len(tracks) /\ k + 1 \in 1..Len(tracks) /\ (k + 1) - 1 = k
    BY <1>1
  <2>2. f[k + 1] = Append(f[k], tracks[k + 1]) \/ f[k + 1] = f[k]
    BY <1>2, <2>1
  <2>3. Kept(f[k]) /\ k + 1 \in DOMAIN tracks
    BY <1>1, <1>5, <2>1
  <2> QED BY <1>4, <2>2, <2>3
<1> HIDE DEF T
<1>6. Len(tracks) \in T
  BY <1>1, <1>3, <1>5, SetInduction
<1> QED BY <1>1, <1>2, <1>6 DEF T

\* A frame's tracker: its identities were there at the same centre, or are new.
LEMMA TrackedIs ==
    ASSUME NEW t, TrackerOk(t), NEW centre \in LabCentres, NEW places \in Seq(Int), NEW now \in Int,
           labTicks \in Int
    PROVE  LET new == Lab!Tracked(t, centre, places, now)
           IN /\ TrackerOk(new) /\ new.centre = centre /\ new.next >= t.next
              /\ \A i \in DOMAIN new.tracks : Came(t, centre, new.tracks[i].id)
<1> DEFINE start == [tracks |-> Lab!ForCentre(t, centre), next |-> t.next, taken |-> {}, now |-> now]
           seen == Lab!Observed(start, places)
           kept == Lab!Retained(seen.tracks, now)
<1>1. t.tracks \in Seq(LabTrack) /\ t.next \in Nat \ {0}
      /\ \A i \in DOMAIN t.tracks : t.tracks[i] \in LabTrack /\ t.tracks[i].id < t.next
  BY DEF TrackerOk
<1>2. Lab!ForCentre(t, centre) \in Seq(LabTrack)
      /\ \A i \in DOMAIN Lab!ForCentre(t, centre) :
            /\ Lab!ForCentre(t, centre)[i].id < t.next
            /\ Came(t, centre, Lab!ForCentre(t, centre)[i].id)
  <2>1. CASE t.centre = centre
    <3>1. Lab!ForCentre(t, centre) = t.tracks
      BY <2>1 DEF Lab!ForCentre
    <3> QED BY <1>1, <2>1, <3>1 DEF Came
  <2>2. CASE t.centre # centre
    <3>1. Lab!ForCentre(t, centre) = <<>>
      BY <2>2 DEF Lab!ForCentre
    <3> QED BY <3>1
  <2> QED BY <2>1, <2>2
<1>3. Going(t, centre, now, start)
  <2> DEFINE l == Lab!ForCentre(t, centre)
  <2> HIDE DEF l
  <2>1. [tracks |-> l, next |-> t.next, taken |-> {}, now |-> now]
           \in [tracks : Seq(LabTrack), next : Nat \ {0}, taken : {{}}, now : {now}]
    BY <1>1, <1>2 DEF l
  <2>2. start.tracks = l /\ start.next = t.next /\ start.taken = {}
    BY DEF l
  <2>3. start = [tracks |-> l, next |-> t.next, taken |-> {}, now |-> now]
    BY DEF l
  <2> HIDE DEF start
  <2> QED BY <1>1, <1>2, <2>1, <2>2, <2>3 DEF Going, l
<1> HIDE DEF start
<1>4. Going(t, centre, now, seen)
  BY <1>1, <1>3, ObservedGoes
<1> HIDE DEF seen
<1>5. seen.tracks \in Seq(LabTrack) /\ seen.next \in Nat \ {0} /\ seen.next >= t.next
      /\ \A i \in DOMAIN seen.tracks : seen.tracks[i].id < seen.next /\ Came(t, centre, seen.tracks[i].id)
  BY <1>4 DEF Going
<1>6. kept \in Seq(LabTrack) /\ \A i \in DOMAIN kept : \E j \in DOMAIN seen.tracks : kept[i] = seen.tracks[j]
  BY <1>5, RetainedIs
<1>7. Lab!Tracked(t, centre, places, now) = [tracks |-> kept, next |-> seen.next, centre |-> centre]
  BY DEF Lab!Tracked, seen, start
<1> HIDE DEF kept
<1> DEFINE new == [tracks |-> kept, next |-> seen.next, centre |-> centre]
<1>8. new.tracks = kept /\ new.next = seen.next /\ new.centre = centre
      /\ new \in [tracks : Seq(LabTrack), next : Nat \ {0}, centre : LabCentres]
  BY <1>5, <1>6
<1>9. \A i \in DOMAIN kept : kept[i].id < seen.next /\ Came(t, centre, kept[i].id)
  BY <1>5, <1>6
<1> HIDE DEF new
<1>10. TrackerOk(new)
  BY <1>8, <1>9 DEF TrackerOk
<1> QED BY <1>5, <1>7, <1>8, <1>9, <1>10 DEF new

\* The nearest track is one of them.
LEMMA NearestIs ==
    ASSUME NEW t, t.tracks \in Seq(LabTrack), NEW u, Lab!Nearest(t, u) # 0
    PROVE  \E i \in DOMAIN t.tracks : t.tracks[i].id = Lab!Nearest(t, u)
<1> DEFINE near == {i \in Lab!Active(t) : \A j \in Lab!Active(t) :
                       Lab!Dist(t.tracks[i].at, u.tuned) <= Lab!Dist(t.tracks[j].at, u.tuned)}
<1>1. Lab!Nearest(t, u) = IF near = {} THEN 0 ELSE t.tracks[Lab!Min(near)].id
  BY DEF Lab!Nearest
<1>2. near \subseteq DOMAIN t.tracks /\ DOMAIN t.tracks \subseteq Nat
  BY DEF Lab!Active
<1> HIDE DEF near
<1>3. near # {} => Lab!Min(near) \in near
  <2> SUFFICES ASSUME near # {} PROVE Lab!Min(near) \in near
    OBVIOUS
  <2>1. \E x \in near : \A y \in near : x <= y
    BY <1>2, NatMin
  <2> QED BY <2>1 DEF Lab!Min
<1> QED BY <1>1, <1>2, <1>3

-----------------------------------------------------------------------------
(* The lab.                                                                *)

LabRuns == [track : Nat \ {0}, centre : LabCentres, setting : LabSettings]

\* A run is of a track that was given out, and that is alive under its own
\* centre only.
RunOk(r, t) ==
    \/ r = Lab!NoJob
    \/ /\ r \in LabRuns /\ r.track < t.next
       /\ \A i \in DOMAIN t.tracks : t.tracks[i].id = r.track => t.centre = r.centre

LabInv ==
    /\ labUi \in [centre : LabCentres, tuned : {labUi.tuned}, on : BOOLEAN, detect : BOOLEAN, setting : LabSettings]
    /\ labClock \in Nat /\ labTicks \in Nat
    /\ TrackerOk(labTracker)
    /\ ~labUi.detect => labTracker.tracks = <<>>
    /\ RunOk(labJob, labTracker) /\ RunOk(labDone, labTracker) /\ RunOk(labShown, labTracker)
    /\ labShown # Lab!NoJob =>
          labUi.on /\ labShown.setting = labUi.setting /\ labShown.centre = labTracker.centre

\* A run is no NoJob.
LEMMA RunsAreJobs == \A r \in LabRuns : r # Lab!NoJob /\ r.track # 0
<1> SUFFICES ASSUME NEW r \in LabRuns PROVE r # Lab!NoJob /\ r.track # 0
  OBVIOUS
<1>1. r.track # 0
  BY DEF LabRuns
<1>2. Lab!NoJob.track = 0
  BY DEF Lab!NoJob
<1> QED BY <1>1, <1>2

\* A run stays what it was when nothing is left of its track or when the
\* tracker goes on.
LEMMA RunStays ==
    ASSUME NEW r, NEW t, NEW u, RunOk(r, t), TrackerOk(t), TrackerOk(u), u.next >= t.next,
           \A i \in DOMAIN u.tracks : Came(t, u.centre, u.tracks[i].id)
    PROVE  RunOk(r, u)
<1> SUFFICES ASSUME r \in LabRuns, r.track < t.next,
                    \A i \in DOMAIN t.tracks : t.tracks[i].id = r.track => t.centre = r.centre
             PROVE  /\ r.track < u.next
                    /\ \A i \in DOMAIN u.tracks : u.tracks[i].id = r.track => u.centre = r.centre
  BY DEF RunOk
<1>1. r.track \in Nat /\ t.next \in Nat /\ u.next \in Nat
  BY DEF LabRuns, TrackerOk
<1>2. ASSUME NEW i \in DOMAIN u.tracks, u.tracks[i].id = r.track PROVE u.centre = r.centre
  BY <1>1, <1>2 DEF Came
<1> QED BY <1>1, <1>2

\* The lab holds it at the start.
LEMMA LabInit == ASSUME Lab!LabAssumption, Lab!Init PROVE LabInv
<1> DEFINE t == [tracks |-> <<>>, next |-> 1, centre |-> labUi.centre]
<1>1. labUi \in [centre : LabCentres, tuned : {Lab!Min(LabPlaces)}, on : {TRUE}, detect : {TRUE}, setting : LabSettings]
      /\ labTracker = t /\ labClock = 0 /\ labTicks = 0
      /\ labJob = Lab!NoJob /\ labDone = Lab!NoJob /\ labShown = Lab!NoJob
  BY DEF Lab!Init
<1>2. labUi \in [centre : LabCentres, tuned : {labUi.tuned}, on : BOOLEAN, detect : BOOLEAN, setting : LabSettings]
  BY <1>1
<1>3. t.tracks = <<>> /\ t.next = 1 /\ <<>> \in Seq(LabTrack) /\ DOMAIN <<>> = {} /\ labUi.centre \in LabCentres
      /\ t \in [tracks : Seq(LabTrack), next : Nat \ {0}, centre : LabCentres]
  BY <1>2
<1> HIDE DEF t
<1>4. TrackerOk(t)
  BY <1>3 DEF TrackerOk
<1>5. labUi.detect
  BY <1>1
<1> QED BY <1>1, <1>2, <1>4, <1>5 DEF LabInv, RunOk

\* What a frame detects is a sequence of places.
LEMMA DetectionsAre == ASSUME Lab!LabAssumption, NEW places \in Lab!Detections PROVE places \in Seq(Int)
<1>1. PICK m \in Nat : places \in [1..m -> LabPlaces]
  BY DEF Lab!Detections, Lab!BoundedSeq, Lab!SeqOf
<1>2. LabPlaces \subseteq Int
  BY DEF Lab!LabAssumption
<1>3. places \in [1..m -> Int]
  BY <1>1, <1>2
<1> QED BY <1>3

\* A frame keeps it.
LEMMA LabFrameKeeps ==
    ASSUME Lab!LabAssumption, LabInv, NEW places \in Lab!Detections, Lab!Frame(places)
    PROVE  LabInv'
<1> DEFINE t == labTracker
           u == labTracker'
           target == Lab!Nearest(u, labUi)
           adopted == Lab!Adopted
           run == [track |-> target, centre |-> labUi.centre, setting |-> labUi.setting]
<1>1. /\ TrackerOk(t) /\ labClock' \in Int /\ labClock' \in Nat /\ labTicks \in Int /\ labTicks' \in Nat
      /\ labUi' = labUi /\ labUi.centre \in LabCentres /\ labUi.setting \in LabSettings
      /\ labUi.on \in BOOLEAN /\ labUi.detect \in BOOLEAN
  BY DEF LabInv, Lab!Frame
<1>2. places \in Seq(Int)
  BY DetectionsAre
<1>3. u = IF labUi.detect THEN Lab!Tracked(t, labUi.centre, places, labClock') ELSE t
  BY DEF Lab!Frame
<1>4. t.tracks \in Seq(LabTrack) /\ t.next \in Nat
  BY <1>1 DEF TrackerOk
<1> HIDE DEF t, u
<1>5. /\ TrackerOk(u) /\ u.next >= t.next
      /\ \A i \in DOMAIN u.tracks : Came(t, u.centre, u.tracks[i].id)
      /\ labUi.detect => u.centre = labUi.centre
      /\ ~labUi.detect => u = t /\ u.tracks = <<>>
  <2>1. CASE labUi.detect
    <3>1. u = Lab!Tracked(t, labUi.centre, places, labClock')
      BY <1>3, <2>1
    <3> QED BY <1>1, <1>2, <2>1, <3>1, TrackedIs
  <2>2. CASE ~labUi.detect
    <3>1. u = t /\ t.tracks = <<>>
      BY <1>3, <2>2 DEF LabInv, t
    <3>2. DOMAIN <<>> = {}
      OBVIOUS
    <3> QED BY <1>1, <1>4, <2>2, <3>1, <3>2
  <2> QED BY <2>1, <2>2
<1>6. u.tracks \in Seq(LabTrack) /\ \A i \in DOMAIN u.tracks : u.tracks[i] \in LabTrack /\ u.tracks[i].id < u.next
  <2>1. u.tracks \in Seq(LabTrack) /\ \A i \in DOMAIN u.tracks : u.tracks[i].id < u.next
    BY <1>5 DEF TrackerOk
  <2> QED BY <2>1
<1>7. target # 0 => /\ labUi.detect
                    /\ \E i \in DOMAIN u.tracks : u.tracks[i].id = target
  <2>1. target # 0 => \E i \in DOMAIN u.tracks : u.tracks[i].id = target
    BY <1>6, NearestIs
  <2>2. DOMAIN <<>> = {}
    OBVIOUS
  <2> HIDE DEF target
  <2> QED BY <1>5, <2>1, <2>2
<1>8. /\ labDone' = Lab!NoJob
      /\ labShown' = (IF labUi.on /\ target # adopted.track THEN Lab!NoJob ELSE adopted)
      /\ labJob' = run \/ labJob' = labJob
      /\ labJob' # labJob => target # 0
  BY DEF Lab!Frame, u
<1>9. /\ adopted = labDone \/ adopted = labShown
      /\ adopted # Lab!NoJob => labUi.on /\ adopted.setting = labUi.setting
      /\ adopted # Lab!NoJob => adopted.centre = labUi.centre \/ adopted.centre = t.centre
  BY DEF Lab!Adopted, Lab!Adopts, LabInv, t
<1> HIDE DEF target, adopted
<1>10. \A r : RunOk(r, t) => RunOk(r, u)
  BY <1>1, <1>5, RunStays
<1>11. RunOk(labJob, t) /\ RunOk(labDone, t) /\ RunOk(labShown, t)
  BY DEF LabInv, t
<1>12. RunOk(adopted, t) /\ RunOk(adopted, u)
  BY <1>9, <1>10, <1>11
<1>13. RunOk(labJob', u)
  <2>1. CASE labJob' = labJob
    BY <1>10, <1>11, <2>1
  <2>2. CASE labJob' = run /\ target # 0
    <3>1. target \in Nat \ {0} /\ target < u.next /\ u.centre = labUi.centre
      BY <1>5, <1>6, <1>7, <2>2 DEF LabTrack
    <3>2. run \in LabRuns /\ run.track = target /\ run.centre = labUi.centre
      BY <1>1, <3>1 DEF LabRuns
    <3> HIDE DEF run
    <3> QED BY <2>2, <3>1, <3>2 DEF RunOk
  <2> QED BY <1>8, <2>1, <2>2
<1>14. RunOk(labShown', u) /\ RunOk(labDone', u)
  BY <1>8, <1>12 DEF RunOk
<1>15. ASSUME labShown' # Lab!NoJob
       PROVE  labUi.on /\ labShown'.setting = labUi.setting /\ labShown'.centre = u.centre
  <2>1. labShown' = adopted /\ adopted # Lab!NoJob /\ labUi.on /\ target = adopted.track
        /\ adopted.setting = labUi.setting
    BY <1>8, <1>9, <1>15
  <2>2. adopted.track # 0 /\ adopted \in LabRuns
    BY <1>12, <2>1, RunsAreJobs DEF RunOk
  <2>3. PICK i \in DOMAIN u.tracks : u.tracks[i].id = adopted.track
    BY <1>7, <2>1, <2>2
  <2>4. u.centre = adopted.centre
    BY <1>12, <2>1, <2>3 DEF RunOk
  <2> QED BY <2>1, <2>4
<1>16. ~labUi.detect => u.tracks = <<>>
  BY <1>5
<1>17. labUi \in [centre : LabCentres, tuned : {labUi.tuned}, on : BOOLEAN, detect : BOOLEAN, setting : LabSettings]
  BY DEF LabInv
<1> QED BY <1>1, <1>5, <1>13, <1>14, <1>15, <1>16, <1>17 DEF LabInv, u

\* What the operator sets keeps it.
LEMMA LabEditKeeps ==
    ASSUME Lab!LabAssumption, LabInv,
           \/ Lab!Analyse \/ Lab!Detect
           \/ \E c \in LabCentres : Lab!Retune(c)
           \/ \E p \in LabPlaces : Lab!MoveCursor(p)
           \/ \E m \in LabSettings : Lab!Modulation(m)
    PROVE  LabInv'
<1> DEFINE Ui == [centre : LabCentres, tuned : {labUi.tuned}, on : BOOLEAN, detect : BOOLEAN, setting : LabSettings]
<1>1. /\ labUi \in Ui /\ labClock \in Nat /\ labTicks \in Nat /\ TrackerOk(labTracker)
      /\ RunOk(labJob, labTracker) /\ RunOk(labDone, labTracker) /\ RunOk(labShown, labTracker)
      /\ RunOk(Lab!NoJob, labTracker)
  BY DEF LabInv, RunOk
<1>2. labClock' = labClock /\ labTicks' = labTicks /\ labJob' = labJob /\ labDone' = labDone
  BY DEF Lab!Analyse, Lab!Detect, Lab!Retune, Lab!MoveCursor, Lab!Modulation, Lab!Edits
<1>3. CASE Lab!Analyse
  <2>1. labUi' \in Ui /\ labUi'.tuned = labUi.tuned /\ labUi'.on = ~labUi.on /\ labUi'.detect = labUi.detect
        /\ labUi'.setting = labUi.setting
    BY <1>1, <1>3 DEF Lab!Analyse
  <2>2. labShown' = (IF labUi.on THEN Lab!NoJob ELSE labShown) /\ labTracker' = labTracker
    BY <1>3 DEF Lab!Analyse
  <2>3. labShown' = Lab!NoJob
    BY <2>2 DEF LabInv
  <2> QED BY <1>1, <1>2, <2>1, <2>2, <2>3 DEF LabInv
<1>4. CASE Lab!Detect
  <2>1. labUi' \in Ui /\ labUi'.tuned = labUi.tuned /\ labUi'.on = labUi.on /\ labUi'.detect = ~labUi.detect
        /\ labUi'.setting = labUi.setting
    BY <1>1, <1>4 DEF Lab!Detect
  <2>2. labTracker' = (IF labUi.detect THEN [labTracker EXCEPT !.tracks = <<>>] ELSE labTracker)
        /\ labShown' = labShown
    BY <1>4 DEF Lab!Detect
  <2>3. CASE labUi.detect
    <3> DEFINE next == labTracker.next
               centre == labTracker.centre
               u == labTracker'
    <3>1. labTracker \in [tracks : Seq(LabTrack), next : {next}, centre : {centre}] /\ next \in Nat \ {0}
          /\ centre \in LabCentres
      BY <1>1 DEF TrackerOk
    <3>2. u = [labTracker EXCEPT !.tracks = <<>>]
      BY <2>2, <2>3
    <3> HIDE DEF next, centre, u
    <3>3. u \in [tracks : {<<>>}, next : {next}, centre : {centre}]
      BY <3>1, <3>2
    <3>4. u.tracks = <<>> /\ u.next = next /\ u.centre = centre /\ DOMAIN <<>> = {} /\ <<>> \in Seq(LabTrack)
      BY <3>3
    <3>5. TrackerOk(u)
      BY <3>1, <3>3, <3>4 DEF TrackerOk
    <3>6. u.next >= labTracker.next /\ u.centre = labTracker.centre
      BY <3>1, <3>4 DEF next, centre
    <3>7. \A i \in DOMAIN u.tracks : Came(labTracker, u.centre, u.tracks[i].id)
      BY <3>4
    <3>8. \A r : RunOk(r, labTracker) => RunOk(r, u)
      BY <1>1, <3>5, <3>6, <3>7, RunStays
    <3>9. RunOk(labJob', u) /\ RunOk(labDone', u) /\ RunOk(labShown', u)
      BY <1>1, <1>2, <2>2, <3>8
    <3>10. labShown' # Lab!NoJob =>
              labUi'.on /\ labShown'.setting = labUi'.setting /\ labShown'.centre = u.centre
      BY <2>1, <2>2, <3>6 DEF LabInv
    <3> QED BY <1>1, <1>2, <2>1, <3>4, <3>5, <3>9, <3>10 DEF LabInv, u
  <2>4. CASE ~labUi.detect
    <3>1. labTracker' = labTracker /\ labUi'.detect
      BY <2>1, <2>2, <2>4
    <3> QED BY <1>1, <1>2, <2>1, <2>2, <3>1 DEF LabInv
  <2> QED BY <2>3, <2>4
<1>5. CASE \E c \in LabCentres : Lab!Retune(c)
  <2>1. labUi' \in Ui /\ labUi'.tuned = labUi.tuned /\ labUi'.on = labUi.on /\ labUi'.detect = labUi.detect
        /\ labUi'.setting = labUi.setting
    BY <1>1, <1>5 DEF Lab!Retune
  <2>2. labTracker' = labTracker /\ labShown' = labShown
    BY <1>5 DEF Lab!Retune
  <2> QED BY <1>1, <1>2, <2>1, <2>2 DEF LabInv
<1>6. CASE \E p \in LabPlaces : Lab!MoveCursor(p)
  <2>1. labUi' \in [centre : LabCentres, tuned : {labUi'.tuned}, on : BOOLEAN, detect : BOOLEAN, setting : LabSettings]
        /\ labUi'.on = labUi.on /\ labUi'.detect = labUi.detect /\ labUi'.setting = labUi.setting
    BY <1>1, <1>6 DEF Lab!MoveCursor
  <2>2. labTracker' = labTracker /\ labShown' = labShown
    BY <1>6 DEF Lab!MoveCursor
  <2> QED BY <1>1, <1>2, <2>1, <2>2 DEF LabInv
<1>7. CASE \E m \in LabSettings : Lab!Modulation(m)
  <2>1. labUi' \in Ui /\ labUi'.tuned = labUi.tuned /\ labUi'.on = labUi.on /\ labUi'.detect = labUi.detect
    BY <1>1, <1>7 DEF Lab!Modulation
  <2>2. labTracker' = labTracker /\ labShown' = Lab!NoJob
    BY <1>7 DEF Lab!Modulation
  <2> QED BY <1>1, <1>2, <2>1, <2>2 DEF LabInv
<1> QED BY <1>3, <1>4, <1>5, <1>6, <1>7

\* Every step of the lab keeps it.
LEMMA LabStep == ASSUME Lab!LabAssumption, LabInv, [Lab!Next]_(Lab!vars) PROVE LabInv'
<1>1. CASE \E places \in Lab!Detections : Lab!Frame(places)
  BY <1>1, LabFrameKeeps
<1>2. CASE Lab!Finish
  <2>1. labDone' = labJob /\ labJob' = Lab!NoJob
        /\ UNCHANGED <<labUi, labTracker, labClock, labShown, labTicks>>
    BY <1>2 DEF Lab!Finish
  <2> QED BY <2>1 DEF LabInv, RunOk
<1>3. CASE Lab!Reconnect
  <2>1. labClock' = 0 /\ UNCHANGED <<labUi, labTracker, labJob, labDone, labShown, labTicks>>
    BY <1>3 DEF Lab!Reconnect
  <2> QED BY <2>1 DEF LabInv, RunOk
<1>4. CASE UNCHANGED Lab!vars
  <2>1. UNCHANGED <<labUi, labTracker, labClock, labJob, labDone, labShown, labTicks>>
    BY <1>4 DEF Lab!vars
  <2> QED BY <2>1 DEF LabInv, RunOk
<1>5. CASE \/ Lab!Analyse \/ Lab!Detect
           \/ \E c \in LabCentres : Lab!Retune(c)
           \/ \E p \in LabPlaces : Lab!MoveCursor(p)
           \/ \E m \in LabSettings : Lab!Modulation(m)
  BY <1>5, LabEditKeeps
<1> QED BY <1>1, <1>2, <1>3, <1>4, <1>5 DEF Lab!Next

\* What is shown is current, and of one signal.
LEMMA LabServes == ASSUME LabInv PROVE Lab!ShownIsCurrent /\ Lab!IdentityIsUnique
  BY DEF LabInv, RunOk, Lab!ShownIsCurrent, Lab!IdentityIsUnique

\* A measurement shown.
THEOREM LabHolds ==
    ASSUME Lab!LabAssumption PROVE Lab!Spec => [](Lab!ShownIsCurrent /\ Lab!IdentityIsUnique)
<1>1. Lab!Init => LabInv
  BY LabInit
<1>2. LabInv /\ [Lab!Next]_(Lab!vars) => LabInv'
  BY LabStep
<1>3. LabInv => Lab!ShownIsCurrent /\ Lab!IdentityIsUnique
  BY LabServes
<1> QED BY <1>1, <1>2, <1>3, PTL DEF Lab!Spec

-----------------------------------------------------------------------------
(* The parser of the label.                                                *)

\* What the assumption of the label says.
LblSizes ==
    /\ 1 \in DOMAIN LblLengths
    /\ \A m \in DOMAIN LblLengths : /\ m \in Nat \ {0} /\ LblLengths[m] \in Nat \ {0}
                                    /\ None # Lbl!WholeText(m)
                                    /\ \A j \in 1..m : j \in DOMAIN LblLengths
    /\ None \notin {0, 1} /\ None \notin {"start", "cont", "other"}

\* It says so.
LEMMA LblSizesAre == Lbl!LabelAssumption => LblSizes
<1> SUFFICES ASSUME Lbl!LabelAssumption PROVE LblSizes
  OBVIOUS
<1>1. LblLengths \in Seq(1..8) /\ LblLengths # <<>>
  BY DEF Lbl!LabelAssumption
<1>2. Len(LblLengths) \in Nat \ {0} /\ DOMAIN LblLengths = 1..Len(LblLengths)
      /\ \A m \in 1..Len(LblLengths) : LblLengths[m] \in 1..8
  BY <1>1
<1>3. 1 \in DOMAIN LblLengths
  BY <1>2
<1>4. \A m \in DOMAIN LblLengths : m \in Nat \ {0} /\ LblLengths[m] \in Nat \ {0}
                                   /\ \A j \in 1..m : j \in DOMAIN LblLengths
  BY <1>2
<1> QED BY <1>3, <1>4 DEF Lbl!LabelAssumption, LblSizes

LblUnits == [msg : Nat, seg : Nat, part : 0..2]

\* A parser; one that is in a group has its first unit, and it came last.
LblParser(q) ==
    /\ q \in [acc : {q.acc}, active : BOOLEAN, segments : {q.segments}, toggle : {q.toggle},
              dls : {q.dls}, dlsLast : BOOLEAN]
    /\ q.active => q.dlsLast /\ \E u \in LblUnits \ {Lbl!Clearing} : q.acc = <<u>>

\* Nothing of the label was touched.
LblSame(q, r) == r.segments = q.segments /\ r.toggle = q.toggle /\ r.dls = q.dls

\* What was put together so far is forgotten.
LblForgot(q, r) == r.segments = <<>> /\ r.toggle = None /\ r.dls = q.dls

\* The group of a unit was taken.
LblAdded(q, r, u) ==
    /\ r.segments = Lbl!Segments(q, u) /\ r.toggle = u.msg % 2
    /\ r.dls = IF Lbl!Text(Lbl!Segments(q, u)) = None THEN q.dls ELSE Lbl!Text(Lbl!Segments(q, u))

\* What is neither the first unit nor the second of a group.
LEMMA UnitsDiffer ==
    /\ Lbl!Noise \in LblUnits \ {Lbl!Clearing} /\ Lbl!Noise.part = 0
    /\ Lbl!Clearing \in LblUnits
    /\ \A m \in Nat \ {0}, s \in Nat, part \in {1, 2} :
          Lbl!Unit(m, s, part) \in LblUnits \ {Lbl!Clearing}
<1> USE DEF Lbl!Noise, Lbl!Clearing, LblUnits, Lbl!Unit
<1>1. Lbl!Noise \in LblUnits /\ Lbl!Clearing \in LblUnits /\ Lbl!Noise.part = 0
  OBVIOUS
<1>2. Lbl!Noise.seg = 2 /\ Lbl!Clearing.seg = 1 /\ Lbl!Clearing.msg = 0
  OBVIOUS
<1>3. ASSUME NEW m \in Nat \ {0}, NEW s \in Nat, NEW part \in {1, 2}
      PROVE  Lbl!Unit(m, s, part) \in LblUnits /\ Lbl!Unit(m, s, part).msg = m
  OBVIOUS
<1> HIDE DEF Lbl!Noise, Lbl!Clearing, LblUnits, Lbl!Unit
<1> QED BY <1>1, <1>2, <1>3

\* A second unit completes the group of the first, and no other.
LEMMA GroupIs ==
    ASSUME NEW u \in LblUnits, NEW v \in LblUnits
    PROVE  /\ Lbl!IsGroup(<<u, v>>) <=> (u.part = 1 /\ v.part = 2 /\ v.msg = u.msg /\ v.seg = u.seg)
           /\ <<u, v>>[1] = u /\ Len(<<u, v>>) = 2
<1>1. u = [msg |-> u.msg, seg |-> u.seg, part |-> u.part] /\ v = [msg |-> v.msg, seg |-> v.seg, part |-> v.part]
  BY DEF LblUnits
<1>2. (v = [u EXCEPT !.part = 2]) = (v.part = 2 /\ v.msg = u.msg /\ v.seg = u.seg)
  BY DEF LblUnits
<1>3. <<u, v>>[1] = u /\ <<u, v>>[2] = v /\ Len(<<u, v>>) = 2
  OBVIOUS
<1> QED BY <1>2, <1>3 DEF Lbl!IsGroup


\* No unit, and no segment.
LblEmpty == <<>>

\* The records a parser is.
LblRecord(acc, actives, segments, toggle, dls, lasts) ==
    [acc : {acc}, active : actives, segments : {segments}, toggle : {toggle}, dls : {dls}, dlsLast : lasts]

\* A parser has its fields.
LEMMA RecordIs ==
    ASSUME NEW a, NEW b, NEW s, NEW t, NEW d, NEW l, NEW q \in LblRecord(a, b, s, t, d, l)
    PROVE  q.acc = a /\ q.active \in b /\ q.segments = s /\ q.toggle = t /\ q.dls = d /\ q.dlsLast \in l
  BY DEF LblRecord

\* A group's units are gone once it was extracted.
LEMMA DropsGroup ==
    ASSUME NEW a, NEW b, NEW s, NEW t, NEW d, NEW l, NEW q \in LblRecord(a, b, s, t, d, l)
    PROVE  Lbl!DropGroup(q) \in LblRecord(LblEmpty, {FALSE}, s, t, d, l)
BY DEF Lbl!DropGroup, LblRecord, LblEmpty

\* What the parser's own operations make of its fields.
LEMMA FieldsAre ==
    ASSUME NEW a, NEW b, NEW s, NEW t, NEW d, NEW l, NEW q \in LblRecord(a, b, s, t, d, l)
    PROVE  /\ Lbl!Forget(q) \in LblRecord(a, b, LblEmpty, None, d, l)
           /\ [q EXCEPT !.dls = None] \in LblRecord(a, b, s, t, None, l)
           /\ \A units : Lbl!StartGroup(q, units) \in LblRecord(units, {TRUE}, s, t, d, l)
           /\ \A u \in LblUnits : Lbl!AddSegment(q, u) \in
                 LblRecord(a, b, Lbl!Segments(q, u), u.msg % 2,
                           IF Lbl!Text(Lbl!Segments(q, u)) = None THEN d ELSE Lbl!Text(Lbl!Segments(q, u)), l)
<1>2. Lbl!Forget(q) \in LblRecord(a, b, LblEmpty, None, d, l)
  BY DEF Lbl!Forget, LblRecord, LblEmpty
<1>3. [q EXCEPT !.dls = None] \in LblRecord(a, b, s, t, None, l)
  BY DEF LblRecord
<1>5. ASSUME NEW units PROVE Lbl!StartGroup(q, units) \in LblRecord(units, {TRUE}, s, t, d, l)
  BY DEF Lbl!StartGroup, LblRecord
<1>6. ASSUME NEW u \in LblUnits
      PROVE  Lbl!AddSegment(q, u) \in
                LblRecord(a, b, Lbl!Segments(q, u), u.msg % 2,
                          IF Lbl!Text(Lbl!Segments(q, u)) = None THEN d ELSE Lbl!Text(Lbl!Segments(q, u)), l)
  <2> DEFINE new == Lbl!Segments(q, u)
             text == Lbl!Text(new)
             parity == u.msg % 2
  <2>1. Lbl!AddSegment(q, u) = [q EXCEPT !.segments = new, !.toggle = parity,
                                         !.dls = IF text = None THEN @ ELSE text]
    BY DEF Lbl!AddSegment
  <2> HIDE DEF new, text, parity
  <2>2. [q EXCEPT !.segments = new, !.toggle = parity, !.dls = IF text = None THEN @ ELSE text]
           \in LblRecord(a, b, new, parity, IF text = None THEN d ELSE text, l)
    BY DEF LblRecord
  <2>3. Lbl!AddSegment(q, u) \in LblRecord(a, b, new, parity, IF text = None THEN d ELSE text, l)
    BY <2>1, <2>2
  <2> QED BY <2>3 DEF new, text, parity
<1> QED BY <1>2, <1>3, <1>5, <1>6

\* A field that begins with a unit alone.
LEMMA ExtractsOne ==
    ASSUME NEW s, NEW t, NEW d, NEW l, NEW u \in LblUnits, NEW acc, acc = <<u>>,
           NEW q \in LblRecord(acc, {TRUE}, s, t, d, l)
    PROVE  /\ u # Lbl!Clearing => Lbl!Extracted(q) = q
           /\ u = Lbl!Clearing => Lbl!Extracted(q) \in LblRecord(LblEmpty, {FALSE}, LblEmpty, None, None, l)
<1>1. q.active = TRUE /\ q.acc = acc
  BY DEF LblRecord
<1>2. acc[1] = u /\ Len(acc) = 1
  OBVIOUS
<1>3. ASSUME u # Lbl!Clearing PROVE Lbl!Extracted(q) = q
  BY <1>1, <1>2, <1>3 DEF Lbl!Extracted
<1>4. ASSUME u = Lbl!Clearing PROVE Lbl!Extracted(q) \in LblRecord(LblEmpty, {FALSE}, LblEmpty, None, None, l)
  <2>1. Lbl!Forget(q) \in LblRecord(acc, {TRUE}, LblEmpty, None, d, l)
    BY FieldsAre
  <2> DEFINE r == Lbl!Forget(q)
  <2> HIDE DEF r
  <2>2. [r EXCEPT !.dls = None] \in LblRecord(acc, {TRUE}, LblEmpty, None, None, l)
    BY <2>1, FieldsAre DEF r
  <2> DEFINE x == [r EXCEPT !.dls = None]
  <2>3. Lbl!Extracted(q) = Lbl!DropGroup(x)
    BY <1>1, <1>2, <1>4 DEF Lbl!Extracted, r
  <2> HIDE DEF x
  <2>4. x \in LblRecord(acc, {TRUE}, LblEmpty, None, None, l)
    BY <2>2 DEF x
  <2> QED BY <2>3, <2>4, DropsGroup
<1> QED BY <1>3, <1>4

\* A field that ends with two units.
LEMMA ExtractsTwo ==
    ASSUME NEW s, NEW t, NEW d, NEW l, NEW u \in LblUnits, u # Lbl!Clearing, NEW v \in LblUnits,
           NEW acc, acc = <<u, v>>, NEW q \in LblRecord(acc, {TRUE}, s, t, d, l)
    PROVE  /\ l \subseteq BOOLEAN => LblParser(Lbl!Extracted(q))
           /\ ~Lbl!Extracted(q).active /\ Lbl!Extracted(q).dlsLast \in l
           /\ Lbl!IsGroup(acc) => LblAdded(q, Lbl!Extracted(q), u)
           /\ ~Lbl!IsGroup(acc) => LblForgot(q, Lbl!Extracted(q))
<1>1. q.active = TRUE /\ q.acc = acc /\ q.segments = s /\ q.toggle = t /\ q.dls = d
  BY DEF LblRecord
<1>2. acc[1] = u /\ Len(acc) = 2
  BY GroupIs
<1>3. Lbl!Extracted(q) = IF Lbl!IsGroup(acc) THEN Lbl!DropGroup(Lbl!AddSegment(q, u))
                         ELSE Lbl!DropGroup(Lbl!Forget(q))
  BY <1>1, <1>2 DEF Lbl!Extracted
<1>4. ASSUME Lbl!IsGroup(acc)
      PROVE  /\ Lbl!Extracted(q) \in
                   LblRecord(LblEmpty, {FALSE}, Lbl!Segments(q, u), u.msg % 2,
                             IF Lbl!Text(Lbl!Segments(q, u)) = None THEN d ELSE Lbl!Text(Lbl!Segments(q, u)), l)
  <2> DEFINE dls == IF Lbl!Text(Lbl!Segments(q, u)) = None THEN d ELSE Lbl!Text(Lbl!Segments(q, u))
             x == Lbl!AddSegment(q, u)
  <2>1. x \in LblRecord(acc, {TRUE}, Lbl!Segments(q, u), u.msg % 2, dls, l)
    BY FieldsAre
  <2>2. Lbl!Extracted(q) = Lbl!DropGroup(x)
    BY <1>3, <1>4
  <2> HIDE DEF dls, x
  <2>3. Lbl!DropGroup(x) \in LblRecord(LblEmpty, {FALSE}, Lbl!Segments(q, u), u.msg % 2, dls, l)
    BY <2>1, DropsGroup
  <2> QED BY <2>2, <2>3 DEF dls
<1>5. ASSUME ~Lbl!IsGroup(acc)
      PROVE  Lbl!Extracted(q) \in LblRecord(LblEmpty, {FALSE}, LblEmpty, None, d, l)
  <2> DEFINE x == Lbl!Forget(q)
  <2>1. x \in LblRecord(acc, {TRUE}, LblEmpty, None, d, l)
    BY FieldsAre
  <2>2. Lbl!Extracted(q) = Lbl!DropGroup(x)
    BY <1>3, <1>5
  <2> HIDE DEF x
  <2> QED BY <2>1, <2>2, DropsGroup
<1>7. Lbl!Extracted(q).dlsLast \in l /\ ~Lbl!Extracted(q).active
  BY <1>4, <1>5 DEF LblRecord
<1>6. ASSUME l \subseteq BOOLEAN PROVE LblParser(Lbl!Extracted(q))
  BY <1>4, <1>5, <1>6, <1>7 DEF LblRecord, LblParser
<1>8. ASSUME Lbl!IsGroup(acc) PROVE LblAdded(q, Lbl!Extracted(q), u)
  BY <1>1, <1>4, <1>8 DEF LblRecord, LblAdded
<1>9. ASSUME ~Lbl!IsGroup(acc) PROVE LblForgot(q, Lbl!Extracted(q))
  BY <1>1, <1>5, <1>9 DEF LblRecord, LblForgot, LblEmpty
<1> QED BY <1>6, <1>7, <1>8, <1>9

\* A parser is the record of its fields.
LEMMA ParserIs ==
    ASSUME NEW q, LblParser(q)
    PROVE  /\ q \in LblRecord(q.acc, {q.active}, q.segments, q.toggle, q.dls, {q.dlsLast})
           /\ q.active \in BOOLEAN /\ q.dlsLast \in BOOLEAN
BY DEF LblParser, LblRecord

\* A field of the label's came last.
LEMMA MarksLast ==
    ASSUME NEW a, NEW b, NEW s, NEW t, NEW d, NEW l, NEW q \in LblRecord(a, b, s, t, d, l)
    PROVE  [q EXCEPT !.dlsLast = TRUE] \in LblRecord(a, b, s, t, d, {TRUE})
BY DEF LblRecord

\* A group begins.
LEMMA PushedFirst ==
    ASSUME LblSizes, NEW q, LblParser(q), NEW u \in LblUnits \ {Lbl!Clearing},
           NEW r, r = Lbl!PushXpad(q, Lbl!Field("start", <<u>>))
    PROVE  /\ LblParser(r) /\ LblSame(q, r)
           /\ r.active /\ r.dlsLast /\ r.acc = <<u>>
<1> DEFINE acc == <<u>>
           x == Lbl!StartGroup(q, acc)
<1>1. q \in LblRecord(q.acc, {q.active}, q.segments, q.toggle, q.dls, {q.dlsLast})
      /\ q.dlsLast \in BOOLEAN
  BY ParserIs
<1>2. r = [Lbl!Extracted(x) EXCEPT !.dlsLast = TRUE]
  BY DEF Lbl!PushXpad, Lbl!Field, LblSizes
<1>3. acc = <<u>>
  OBVIOUS
<1> HIDE DEF acc, x
<1>4. x \in LblRecord(acc, {TRUE}, q.segments, q.toggle, q.dls, {q.dlsLast})
  BY <1>1, FieldsAre DEF x
<1>5. Lbl!Extracted(x) = x
  BY <1>3, <1>4, ExtractsOne
<1>6. r \in LblRecord(acc, {TRUE}, q.segments, q.toggle, q.dls, {TRUE})
  BY <1>2, <1>4, <1>5, MarksLast
<1>7. r.active = TRUE /\ r.dlsLast = TRUE /\ r.acc = acc /\ LblSame(q, r)
  BY <1>6 DEF LblRecord, LblSame
<1>8. r \in [acc : {r.acc}, active : BOOLEAN, segments : {r.segments}, toggle : {r.toggle},
              dls : {r.dls}, dlsLast : BOOLEAN]
  BY <1>6 DEF LblRecord
<1> QED BY <1>3, <1>7, <1>8 DEF LblParser

\* The display is cleared.
LEMMA PushedClearing ==
    ASSUME LblSizes, NEW q, LblParser(q), Lbl!Clearing \in LblUnits,
           NEW r, r = Lbl!PushXpad(q, Lbl!Field("start", <<Lbl!Clearing>>))
    PROVE  /\ LblParser(r) /\ ~r.active
           /\ r.segments = LblEmpty /\ r.toggle = None /\ r.dls = None
<1> DEFINE u == Lbl!Clearing
           acc == <<u>>
           x == Lbl!StartGroup(q, acc)
<1>1. q \in LblRecord(q.acc, {q.active}, q.segments, q.toggle, q.dls, {q.dlsLast})
      /\ q.dlsLast \in BOOLEAN
  BY ParserIs
<1>2. r = [Lbl!Extracted(x) EXCEPT !.dlsLast = TRUE]
  BY DEF Lbl!PushXpad, Lbl!Field, LblSizes
<1>3. acc = <<u>> /\ u = Lbl!Clearing /\ u \in LblUnits
  OBVIOUS
<1> HIDE DEF acc, x, u
<1>4. x \in LblRecord(acc, {TRUE}, q.segments, q.toggle, q.dls, {q.dlsLast})
  BY <1>1, FieldsAre DEF x
<1> DEFINE e == Lbl!Extracted(x)
<1>5. e \in LblRecord(LblEmpty, {FALSE}, LblEmpty, None, None, {q.dlsLast})
  BY <1>3, <1>4, ExtractsOne
<1> HIDE DEF e
<1>6. r \in LblRecord(LblEmpty, {FALSE}, LblEmpty, None, None, {TRUE})
  BY <1>2, <1>5, MarksLast DEF e
<1>7. r.active = FALSE /\ r.segments = LblEmpty /\ r.toggle = None /\ r.dls = None
  BY <1>6 DEF LblRecord
<1>8. r \in [acc : {r.acc}, active : BOOLEAN, segments : {r.segments}, toggle : {r.toggle},
              dls : {r.dls}, dlsLast : BOOLEAN]
  BY <1>6 DEF LblRecord
<1> QED BY <1>7, <1>8 DEF LblParser

\* What a parser is once two units were extracted of it.
LEMMA TwoAreExtracted ==
    ASSUME NEW q, LblParser(q), NEW u \in LblUnits \ {Lbl!Clearing}, NEW v \in LblUnits,
           NEW acc, acc = <<u, v>>,
           NEW x \in LblRecord(acc, {TRUE}, q.segments, q.toggle, q.dls, {q.dlsLast}),
           NEW r, r = [Lbl!Extracted(x) EXCEPT !.dlsLast = TRUE] \/ (q.dlsLast /\ r = Lbl!Extracted(x))
    PROVE  /\ LblParser(r) /\ ~r.active /\ r.dlsLast
           /\ Lbl!IsGroup(acc) => LblAdded(q, r, u)
           /\ ~Lbl!IsGroup(acc) => LblForgot(q, r)
<1>1. q.dlsLast \in BOOLEAN
  BY ParserIs
<1> DEFINE e == Lbl!Extracted(x)
<1>2. /\ LblParser(e) /\ ~e.active /\ e.dlsLast \in {q.dlsLast}
      /\ Lbl!IsGroup(acc) => LblAdded(x, e, u)
      /\ ~Lbl!IsGroup(acc) => LblForgot(x, e)
  <2> DEFINE s == q.segments
             t == q.toggle
             d == q.dls
             l == {q.dlsLast}
  <2>1. x \in LblRecord(acc, {TRUE}, s, t, d, l) /\ l \subseteq BOOLEAN
    BY <1>1
  <2> HIDE DEF s, t, d, l
  <2>2. /\ LblParser(Lbl!Extracted(x)) /\ ~Lbl!Extracted(x).active /\ Lbl!Extracted(x).dlsLast \in l
        /\ Lbl!IsGroup(acc) => LblAdded(x, Lbl!Extracted(x), u)
        /\ ~Lbl!IsGroup(acc) => LblForgot(x, Lbl!Extracted(x))
    BY <2>1, ExtractsTwo
  <2> QED BY <2>2 DEF l
<1>3. x.segments = q.segments /\ x.toggle = q.toggle /\ x.dls = q.dls
  BY DEF LblRecord
<1>4. r = [e EXCEPT !.dlsLast = TRUE] \/ (q.dlsLast /\ r = e)
  OBVIOUS
<1> HIDE DEF e
<1>5. /\ LblParser(r) /\ ~r.active /\ r.dlsLast
      /\ r.segments = e.segments /\ r.toggle = e.toggle /\ r.dls = e.dls
  BY <1>2, <1>4 DEF LblParser
<1>6. Lbl!Segments(x, u) = Lbl!Segments(q, u)
  BY <1>3 DEF Lbl!Segments
<1> QED BY <1>2, <1>3, <1>5, <1>6 DEF LblAdded, LblForgot

\* A group in one field.
LEMMA PushedWhole ==
    ASSUME LblSizes, NEW q, LblParser(q), NEW u \in LblUnits \ {Lbl!Clearing}, NEW v \in LblUnits,
           NEW r, r = Lbl!PushXpad(q, Lbl!Field("start", <<u, v>>))
    PROVE  /\ LblParser(r) /\ ~r.active /\ r.dlsLast
           /\ Lbl!IsGroup(<<u, v>>) => LblAdded(q, r, u)
           /\ ~Lbl!IsGroup(<<u, v>>) => LblForgot(q, r)
<1> DEFINE acc == <<u, v>>
           x == Lbl!StartGroup(q, acc)
<1>1. q \in LblRecord(q.acc, {q.active}, q.segments, q.toggle, q.dls, {q.dlsLast})
  BY ParserIs
<1>2. r = [Lbl!Extracted(x) EXCEPT !.dlsLast = TRUE]
  BY DEF Lbl!PushXpad, Lbl!Field, LblSizes
<1>3. acc = <<u, v>>
  OBVIOUS
<1> HIDE DEF acc, x
<1>4. x \in LblRecord(acc, {TRUE}, q.segments, q.toggle, q.dls, {q.dlsLast})
  BY <1>1, FieldsAre DEF x
<1>5. /\ LblParser(r) /\ ~r.active /\ r.dlsLast
      /\ Lbl!IsGroup(acc) => LblAdded(q, r, u)
      /\ ~Lbl!IsGroup(acc) => LblForgot(q, r)
  BY <1>2, <1>3, <1>4, TwoAreExtracted
<1> QED BY <1>3, <1>5

\* A unit that continues a group, or finds none to continue.
LEMMA PushedSecond ==
    ASSUME LblSizes, NEW q, LblParser(q), NEW v \in LblUnits,
           NEW app \in {"cont", None}, NEW r, r = Lbl!PushXpad(q, Lbl!Field(app, <<v>>))
    PROVE  /\ LblParser(r) /\ ~r.active
           /\ ~q.active => LblSame(q, r)
           /\ \A u \in LblUnits \ {Lbl!Clearing} : q.active /\ q.acc = <<u>> =>
                  /\ Lbl!IsGroup(<<u, v>>) => LblAdded(q, r, u)
                  /\ ~Lbl!IsGroup(<<u, v>>) => LblForgot(q, r)
<1> DEFINE x == Lbl!ContinueGroup(q, <<v>>)
<1>1. q \in LblRecord(q.acc, {q.active}, q.segments, q.toggle, q.dls, {q.dlsLast})
      /\ q.active \in BOOLEAN /\ q.dlsLast \in BOOLEAN
  BY ParserIs
<1>2. \/ r = [Lbl!Extracted(x) EXCEPT !.dlsLast = TRUE]
      \/ q.dlsLast /\ r = Lbl!Extracted(x)
      \/ ~q.dlsLast /\ r = q
  BY DEF Lbl!PushXpad, Lbl!Field, LblSizes
<1>3. ASSUME ~q.active PROVE LblParser(r) /\ ~r.active /\ LblSame(q, r)
  <2>1. x = q
    BY <1>3 DEF Lbl!ContinueGroup
  <2>2. Lbl!Extracted(q) = q
    BY <1>3 DEF Lbl!Extracted
  <2> HIDE DEF x
  <2>3. r = [q EXCEPT !.dlsLast = TRUE] \/ r = q
    BY <1>2, <2>1, <2>2
  <2> QED BY <1>3, <2>3 DEF LblParser, LblSame
<1>4. ASSUME q.active, NEW u \in LblUnits \ {Lbl!Clearing}, q.acc = <<u>>
      PROVE  /\ LblParser(r) /\ ~r.active
             /\ Lbl!IsGroup(<<u, v>>) => LblAdded(q, r, u)
             /\ ~Lbl!IsGroup(<<u, v>>) => LblForgot(q, r)
  <2>1. q.dlsLast
    BY <1>4 DEF LblParser
  <2> DEFINE acc == q.acc \o <<v>>
  <2>2. acc = <<u, v>>
    <3> DEFINE one == <<u>> \o <<v>>
               two == <<u, v>>
    <3>1. one \in Seq(LblUnits) /\ Len(one) = 2 /\ one[1] = u /\ one[2] = v
      <4>1. <<u>> \in Seq(LblUnits) /\ <<v>> \in Seq(LblUnits) /\ Len(<<u>>) = 1 /\ Len(<<v>>) = 1
            /\ <<u>>[1] = u /\ <<v>>[1] = v
        OBVIOUS
      <4> QED BY <4>1, ConcatProperties
    <3>2. two \in Seq(LblUnits) /\ Len(two) = 2 /\ two[1] = u /\ two[2] = v
      OBVIOUS
    <3> HIDE DEF one, two
    <3>3. \A i \in 1..Len(one) : one[i] = two[i]
      BY <3>1, <3>2
    <3>4. one = two
      BY <3>1, <3>2, <3>3, SeqEqual
    <3> QED BY <1>4, <3>4 DEF one, two
  <2>3. x = [q EXCEPT !.acc = acc]
    BY <1>4 DEF Lbl!ContinueGroup
  <2> HIDE DEF acc, x
  <2>4. x \in LblRecord(acc, {TRUE}, q.segments, q.toggle, q.dls, {q.dlsLast})
    BY <1>1, <1>4, <2>3 DEF LblRecord
  <2>5. r = [Lbl!Extracted(x) EXCEPT !.dlsLast = TRUE] \/ (q.dlsLast /\ r = Lbl!Extracted(x))
    BY <1>2, <2>1
  <2>6. /\ LblParser(r) /\ ~r.active
        /\ Lbl!IsGroup(acc) => LblAdded(q, r, u)
        /\ ~Lbl!IsGroup(acc) => LblForgot(q, r)
    BY <2>2, <2>4, <2>5, TwoAreExtracted
  <2> QED BY <2>2, <2>6
<1>5. q.active => \E u \in LblUnits \ {Lbl!Clearing} : q.acc = <<u>>
  BY DEF LblParser
<1> QED BY <1>1, <1>3, <1>4, <1>5

-----------------------------------------------------------------------------
(* The label put together.                                                 *)

LblNumbers(m) == 0..(LblLengths[m] - 1)

\* Segments of one message, and its parity.
LblOne(q, m) ==
    /\ q.toggle = m % 2 /\ DOMAIN q.segments \subseteq LblNumbers(m)
    /\ q.segments \in [DOMAIN q.segments -> {m}]

LblNone(q) == q.toggle = None /\ q.segments = LblEmpty

\* The segments are of the message that is sent; or of the one before, none
\* of this message's groups having been taken.
LblWhose(q, m, wasTaken) ==
    \/ LblNone(q) \/ LblOne(q, m)
    \/ m - 1 \in DOMAIN LblLengths /\ ~wasTaken /\ LblOne(q, m - 1)

LblShown(q, m) == q.dls = None \/ \E j \in 1..m : q.dls = Lbl!WholeText(j)

\* The segments before seg, so many of them, are there, the last segment of
\* a message being before its first.
LblHas(q, m, seg, g) ==
    \A k \in 1..LblLengths[m] : k <= g =>
        \E s \in DOMAIN q.segments : q.segments[s] = m /\ s + k - seg \in {0, LblLengths[m]}

\* So many units in a row came through, the group of the last one unfinished.
LblCounts(q, m, seg, n, open) ==
    \E g \in Nat :
        /\ 2 * g >= n - 1 - open
        /\ LblHas(q, m, seg, g)
        /\ g >= LblLengths[m] => q.dls = Lbl!WholeText(m)

\* The text of one message's segments: all of it or nothing.
LEMMA TextIs ==
    ASSUME LblSizes, NEW m \in DOMAIN LblLengths, NEW segments,
           DOMAIN segments \subseteq LblNumbers(m), segments \in [DOMAIN segments -> {m}]
    PROVE  /\ Lbl!Text(segments) \in {None, Lbl!WholeText(m)}
           /\ LblNumbers(m) \subseteq DOMAIN segments => Lbl!Text(segments) = Lbl!WholeText(m)
<1> DEFINE n == LblLengths[m] - 1
           lasts == {k \in DOMAIN segments : Lbl!IsLast(segments, k)}
           last == CHOOSE k \in lasts : \A j \in lasts : k <= j
<1>1. n \in Nat
  BY DEF LblSizes
<1>2. \A k \in DOMAIN segments : segments[k] = m
  OBVIOUS
<1>3. lasts = {k \in DOMAIN segments : k = n}
  BY <1>2 DEF Lbl!IsLast
<1>4. ASSUME lasts # {} PROVE last = n /\ n \in DOMAIN segments
  <2>1. n \in DOMAIN segments /\ lasts = {n}
    BY <1>3, <1>4
  <2> HIDE DEF lasts
  <2>2. \E k \in lasts : \A j \in lasts : k <= j
    BY <1>1, <2>1
  <2>3. last \in lasts
    BY <2>2
  <2> QED BY <2>1, <2>3
<1>5. Lbl!Text(segments) = IF lasts = {} THEN None
                           ELSE IF 0..last \subseteq DOMAIN segments THEN [k \in 0..last |-> segments[k]]
                           ELSE None
  BY DEF Lbl!Text
<1>6. ASSUME 0..n \subseteq DOMAIN segments PROVE [k \in 0..n |-> segments[k]] = Lbl!WholeText(m)
  <2>1. \A k \in 0..n : segments[k] = m
    BY <1>2, <1>6
  <2> QED BY <2>1 DEF Lbl!WholeText
<1>7. LblNumbers(m) = 0..n
  BY DEF LblNumbers
<1>8. ASSUME 0..n \subseteq DOMAIN segments PROVE lasts # {}
  <2>1. n \in 0..n
    BY <1>1
  <2> QED BY <1>3, <1>8, <2>1
<1> HIDE DEF n, lasts, last
<1>9. CASE lasts = {}
  BY <1>5, <1>7, <1>8, <1>9
<1>10. CASE lasts # {}
  BY <1>4, <1>5, <1>6, <1>7, <1>10
<1> QED BY <1>9, <1>10

\* Two messages that follow each other differ in parity.
LEMMA ParityIs ==
    ASSUME NEW m \in Nat \ {0}
    PROVE  m % 2 \in {0, 1} /\ (m - 1) % 2 # m % 2
OBVIOUS

\* A group of the message that is sent.
LEMMA AddedIs ==
    ASSUME LblSizes, NEW m \in DOMAIN LblLengths, NEW seg \in LblNumbers(m), NEW wasTaken,
           NEW q, LblWhose(q, m, wasTaken), NEW u \in LblUnits, u.msg = m, u.seg = seg,
           NEW r, LblAdded(q, r, u)
    PROVE  /\ LblOne(r, m) /\ seg \in DOMAIN r.segments
           /\ LblOne(q, m) => DOMAIN q.segments \subseteq DOMAIN r.segments
           /\ r.dls \in {q.dls, Lbl!WholeText(m)}
           /\ LblNumbers(m) \subseteq DOMAIN r.segments => r.dls = Lbl!WholeText(m)
<1> DEFINE kept == IF q.toggle = u.msg % 2 THEN q.segments ELSE LblEmpty
           new == Lbl!Segments(q, u)
<1>1. m \in Nat \ {0} /\ None \notin {0, 1}
  BY DEF LblSizes
<1>2. m % 2 \in {0, 1} /\ (m - 1) % 2 # m % 2
  BY <1>1, ParityIs
<1>3. /\ DOMAIN kept \subseteq LblNumbers(m)
      /\ \A k \in DOMAIN kept : kept[k] = m
      /\ LblOne(q, m) => kept = q.segments
  <2>1. CASE LblNone(q)
    <3>1. q.toggle # m % 2
      BY <1>1, <1>2, <2>1 DEF LblNone
    <3>2. kept = LblEmpty /\ ~LblOne(q, m)
      BY <3>1 DEF LblOne
    <3> QED BY <3>2 DEF LblEmpty
  <2>2. CASE LblOne(q, m)
    BY <2>2 DEF LblOne
  <2>3. CASE m - 1 \in DOMAIN LblLengths /\ ~wasTaken /\ LblOne(q, m - 1)
    <3>1. q.toggle # m % 2
      BY <1>2, <2>3 DEF LblOne
    <3>2. kept = LblEmpty /\ ~LblOne(q, m)
      BY <3>1 DEF LblOne
    <3> QED BY <3>2 DEF LblEmpty
  <2> QED BY <2>1, <2>2, <2>3 DEF LblWhose
<1>4. new = [k \in DOMAIN kept \cup {seg} |-> IF k \in DOMAIN kept THEN kept[k] ELSE m]
  BY DEF Lbl!Segments, Lbl!WithSegment, LblEmpty
<1> HIDE DEF kept
<1>5. /\ DOMAIN new = DOMAIN kept \cup {seg}
      /\ new \in [DOMAIN new -> {m}]
  BY <1>3, <1>4
<1> HIDE DEF new
<1>6. DOMAIN new \subseteq LblNumbers(m)
  BY <1>3, <1>5
<1> DEFINE text == Lbl!Text(new)
<1>7. text \in {None, Lbl!WholeText(m)} /\ (LblNumbers(m) \subseteq DOMAIN new => text = Lbl!WholeText(m))
  BY <1>5, <1>6, TextIs
<1>8. r.segments = new /\ r.toggle = m % 2 /\ r.dls = IF text = None THEN q.dls ELSE text
  BY DEF LblAdded, new
<1> HIDE DEF text
<1>9. None # Lbl!WholeText(m)
  BY DEF LblSizes
<1>10. LblOne(r, m) /\ seg \in DOMAIN r.segments
  BY <1>5, <1>6, <1>8 DEF LblOne
<1>11. LblOne(q, m) => DOMAIN q.segments \subseteq DOMAIN r.segments
  BY <1>3, <1>5, <1>8
<1> QED BY <1>7, <1>8, <1>9, <1>10, <1>11

\* From next backwards, a number at every distance.
Around(n, D, next) == \A k \in 1..n : \E s \in D : s + k - next \in {0, n}

\* The segments that came one after the other, all around.
LEMMA AllAround ==
    ASSUME NEW n \in Nat \ {0}, NEW D \in SUBSET (0..(n - 1)), NEW next \in 0..(n - 1),
           Around(n, D, next)
    PROVE  0..(n - 1) \subseteq D
<1> SUFFICES ASSUME NEW j \in 0..(n - 1) PROVE j \in D
  OBVIOUS
<1>1. CASE j < next
  <2>1. next - j \in 1..n
    BY <1>1
  <2>2. PICK s \in D : s + (next - j) - next \in {0, n}
    BY <2>1 DEF Around
  <2>3. s \in 0..(n - 1)
    OBVIOUS
  <2>4. s = j
    BY <2>2, <2>3
  <2> QED BY <2>4
<1>2. CASE ~ (j < next)
  <2>1. next - j + n \in 1..n
    BY <1>2
  <2>2. PICK s \in D : s + (next - j + n) - next \in {0, n}
    BY <2>1 DEF Around
  <2>3. s \in 0..(n - 1)
    OBVIOUS
  <2>4. s = j
    BY <1>2, <2>2, <2>3
  <2> QED BY <2>4
<1> QED BY <1>1, <1>2

\* A group more in a row.
LEMMA AddedCounts ==
    ASSUME LblSizes, NEW m \in DOMAIN LblLengths, NEW seg \in LblNumbers(m), NEW wasTaken,
           NEW q, LblWhose(q, m, wasTaken), NEW u \in LblUnits, u.msg = m, u.seg = seg,
           NEW r, LblAdded(q, r, u),
           NEW n \in Nat, NEW open \in {0, 1}, LblCounts(q, m, seg, n, open),
           NEW next, next = (seg + 1) % LblLengths[m], NEW now \in Nat, now <= n + 2 - open
    PROVE  LblCounts(r, m, next, now, 0)
<1> DEFINE len == LblLengths[m]
<1>1. len \in Nat \ {0} /\ LblNumbers(m) = 0..(len - 1)
  BY DEF LblSizes, LblNumbers
<1>2. /\ LblOne(r, m) /\ seg \in DOMAIN r.segments
      /\ LblOne(q, m) => DOMAIN q.segments \subseteq DOMAIN r.segments
      /\ LblNumbers(m) \subseteq DOMAIN r.segments => r.dls = Lbl!WholeText(m)
  BY AddedIs
<1>3. PICK g \in Nat : /\ 2 * g >= n - 1 - open
                       /\ LblHas(q, m, seg, g)
                       /\ g >= LblLengths[m] => q.dls = Lbl!WholeText(m)
  <2>1. LblCounts(q, m, seg, n, open)
    OBVIOUS
  <2> QED BY <2>1 DEF LblCounts
<1> HIDE DEF len
<1>4. next \in 0..(len - 1) /\ seg \in 0..(len - 1) /\ seg + 1 - next \in {0, len}
  <2>1. seg \in 0..(len - 1) /\ next = (seg + 1) % len
    BY <1>1 DEF len
  <2>2. CASE seg + 1 < len
    BY <1>1, <2>1, <2>2
  <2>3. CASE seg + 1 = len
    BY <1>1, <2>1, <2>3
  <2> QED BY <1>1, <2>1, <2>2, <2>3
<1>5. DOMAIN r.segments \subseteq 0..(len - 1) /\ \A s \in DOMAIN r.segments : r.segments[s] = m
  BY <1>1, <1>2 DEF LblOne
<1>6. ASSUME NEW k \in 1..len, k <= g + 1
      PROVE  \E s \in DOMAIN r.segments : r.segments[s] = m /\ s + k - next \in {0, len}
  <2>1. CASE k = 1
    BY <1>2, <1>4, <1>5, <2>1
  <2>2. CASE k > 1
    <3>1. k - 1 \in 1..len /\ k - 1 <= g
      BY <1>1, <1>6, <2>2
    <3>2. PICK s \in DOMAIN q.segments : q.segments[s] = m /\ s + (k - 1) - seg \in {0, len}
      BY <1>3, <3>1 DEF LblHas, len
    <3>3. LblOne(q, m)
      <4>1. ~LblNone(q)
        BY <3>2 DEF LblNone, LblEmpty
      <4>2. ~LblOne(q, m - 1)
        <5>1. m \in Nat
          BY DEF LblSizes
        <5> QED BY <3>2, <5>1 DEF LblOne
      <4> QED BY <4>1, <4>2 DEF LblWhose
    <3>4. s \in DOMAIN r.segments /\ s \in 0..(len - 1)
      BY <1>2, <1>5, <3>2, <3>3
    <3>5. s + k - next \in {0, len}
      <4>1. s \in Int /\ k \in Int /\ seg \in Int /\ next \in Int /\ len \in Int
        BY <1>1, <1>4, <3>4
      <4>2. PICK a \in Int : a = s + (k - 1) - seg
        BY <4>1
      <4>3. PICK b \in Int : b = seg + 1 - next
        BY <4>1
      <4>4. s + k - next = a + b
        BY <4>1, <4>2, <4>3
      <4>7. s <= len - 1 /\ k <= len /\ next >= 0
        BY <1>1, <1>4, <3>4
      <4>8. a + b < len + len
        BY <4>1, <4>4, <4>7
      <4>5. (a = 0 \/ a = len) /\ (b = 0 \/ b = len) /\ len > 0
        BY <1>1, <1>4, <3>2, <4>2, <4>3
      <4>6. a + b = 0 \/ a + b = len
        BY <4>1, <4>5, <4>8
      <4> QED BY <4>4, <4>6
    <3> QED BY <1>5, <3>4, <3>5
  <2> QED BY <1>1, <2>1, <2>2
<1>7. LblHas(r, m, next, g + 1)
  BY <1>6 DEF LblHas, len
<1>8. ASSUME g + 1 >= len PROVE r.dls = Lbl!WholeText(m)
  <2> DEFINE D == DOMAIN r.segments
  <2>1. Around(len, D, next)
    <3>1. ASSUME NEW k \in 1..len PROVE \E s \in D : s + k - next \in {0, len}
      <4>1. k <= g + 1
        BY <1>1, <1>3, <1>8
      <4>2. PICK s \in DOMAIN r.segments : r.segments[s] = m /\ s + k - next \in {0, len}
        BY <1>6, <4>1
      <4> QED BY <4>2
    <3> QED BY <3>1 DEF Around
  <2>2. D \in SUBSET (0..(len - 1))
    BY <1>5
  <2> HIDE DEF D
  <2>3. 0..(len - 1) \subseteq D
    BY <1>1, <1>4, <2>1, <2>2, AllAround
  <2> QED BY <1>1, <1>2, <2>3 DEF D
<1>9. 2 * (g + 1) >= now - 1 - 0 /\ g + 1 \in Nat
  BY <1>3
<1> QED BY <1>7, <1>8, <1>9 DEF LblCounts, len

-----------------------------------------------------------------------------
(* The label, field by field.                                              *)

LblOpen(t) == IF t.half THEN 1 ELSE 0
LblFirst(t) == Lbl!Unit(t.msg, t.seg, 1)
LblSecond(t) == Lbl!Unit(t.msg, t.seg, 2)

\* The sender, the parser and what was heard: while a message was not missed,
\* segments and text are of what was sent, and what came through is there.
LblState(t, q, n, wasTaken, missed) ==
    /\ t \in [msg : DOMAIN LblLengths, seg : Nat, half : BOOLEAN] /\ t.seg \in LblNumbers(t.msg)
    /\ LblParser(q) /\ n \in 0..(4 * LblLengths[t.msg])
    /\ wasTaken \in BOOLEAN /\ missed \in BOOLEAN
    /\ n >= 1 => IF t.half THEN q.active /\ q.acc = <<LblFirst(t)>> ELSE ~q.active
    /\ ~missed => /\ LblWhose(q, t.msg, wasTaken) /\ LblShown(q, t.msg)
                  /\ LblCounts(q, t.msg, t.seg, n, LblOpen(t))

LblInv == LblState(lblTx, lblP, lblHeard, lblTaken, lblSkipped)

\* What one field does to the segments and the text.
LblOutcome(q, r, t) == LblSame(q, r) \/ LblForgot(q, r) \/ LblAdded(q, r, LblFirst(t))

\* The units of the group that is sent, and which units complete it.
LEMMA SendersUnits ==
    ASSUME LblSizes, NEW t \in [msg : DOMAIN LblLengths, seg : Nat, half : BOOLEAN]
    PROVE  /\ LblFirst(t) \in LblUnits \ {Lbl!Clearing} /\ LblSecond(t) \in LblUnits \ {Lbl!Clearing}
           /\ LblFirst(t).msg = t.msg /\ LblFirst(t).seg = t.seg
           /\ Lbl!IsGroup(<<LblFirst(t), LblSecond(t)>>)
           /\ \A u \in LblUnits : /\ Lbl!IsGroup(<<u, LblSecond(t)>>) => u = LblFirst(t)
                                  /\ ~Lbl!IsGroup(<<u, Lbl!Noise>>)
<1>1. t.msg \in Nat \ {0} /\ t.seg \in Nat
  BY DEF LblSizes
<1>2. LblFirst(t) \in LblUnits \ {Lbl!Clearing} /\ LblSecond(t) \in LblUnits \ {Lbl!Clearing}
  BY <1>1, UnitsDiffer DEF LblFirst, LblSecond
<1>3. /\ LblFirst(t).msg = t.msg /\ LblFirst(t).seg = t.seg /\ LblFirst(t).part = 1
      /\ LblSecond(t).msg = t.msg /\ LblSecond(t).seg = t.seg /\ LblSecond(t).part = 2
  BY DEF LblFirst, LblSecond, Lbl!Unit
<1>4. Lbl!IsGroup(<<LblFirst(t), LblSecond(t)>>)
  <2> DEFINE u == LblFirst(t)
             v == LblSecond(t)
  <2>1. /\ u \in LblUnits /\ v \in LblUnits
        /\ u.part = 1 /\ v.part = 2 /\ v.msg = u.msg /\ v.seg = u.seg
    BY <1>2, <1>3
  <2> HIDE DEF u, v
  <2>2. Lbl!IsGroup(<<u, v>>)
    BY <2>1, GroupIs
  <2> QED BY <2>2 DEF u, v
<1>5. ASSUME NEW u \in LblUnits, Lbl!IsGroup(<<u, LblSecond(t)>>) PROVE u = LblFirst(t)
  <2>1. u.part = 1 /\ u.msg = t.msg /\ u.seg = t.seg
    BY <1>2, <1>3, <1>5, GroupIs
  <2>2. u = [msg |-> u.msg, seg |-> u.seg, part |-> u.part]
    BY DEF LblUnits
  <2> QED BY <2>1, <2>2 DEF LblFirst, Lbl!Unit
<1>6. ASSUME NEW u \in LblUnits PROVE ~Lbl!IsGroup(<<u, Lbl!Noise>>)
  <2> DEFINE v == Lbl!Noise
  <2>1. v \in LblUnits /\ v.part = 0
    BY UnitsDiffer
  <2> HIDE DEF v
  <2>2. ~Lbl!IsGroup(<<u, v>>)
    BY <2>1, GroupIs
  <2> QED BY <2>2 DEF v
<1> QED BY <1>2, <1>3, <1>4, <1>5, <1>6

\* Nothing in a row, or one unit that may be the end of a group unheard.
LEMMA NothingCounts ==
    ASSUME LblSizes, NEW q, NEW m \in DOMAIN LblLengths, NEW seg, NEW n \in {0, 1},
           NEW open \in {0, 1}
    PROVE  LblCounts(q, m, seg, n, open)
<1>1. LblLengths[m] \in Nat \ {0}
  BY DEF LblSizes
<1>2. LblHas(q, m, seg, 0)
  BY <1>1 DEF LblHas
<1>3. 2 * 0 >= n - 1 - open /\ ~(0 >= LblLengths[m])
  BY <1>1
<1> QED BY <1>2, <1>3 DEF LblCounts

\* A field that changes nothing of the label takes none of it away.
LEMMA SameCounts ==
    ASSUME NEW q, NEW r, LblSame(q, r), NEW m, NEW seg, NEW n \in Nat, NEW open \in {0, 1},
           LblCounts(q, m, seg, n, open), NEW now \in Nat, NEW openNow \in {0, 1},
           now - openNow <= n - open
    PROVE  LblCounts(r, m, seg, now, openNow)
<1>1. LblCounts(q, m, seg, n, open)
  OBVIOUS
<1>2. PICK g \in Nat : /\ 2 * g >= n - 1 - open
                       /\ LblHas(q, m, seg, g)
                       /\ g >= LblLengths[m] => q.dls = Lbl!WholeText(m)
  BY <1>1 DEF LblCounts
<1>3. LblHas(r, m, seg, g) /\ r.dls = q.dls
  BY <1>2 DEF LblHas, LblSame
<1>4. 2 * g >= now - 1 - openNow
  BY <1>2
<1> QED BY <1>2, <1>3, <1>4 DEF LblCounts

\* Whatever a field does, segments and text stay of what was sent.
LEMMA OutcomeIsSent ==
    ASSUME LblSizes, NEW t \in [msg : DOMAIN LblLengths, seg : Nat, half : BOOLEAN],
           t.seg \in LblNumbers(t.msg), NEW wasTaken, NEW q, LblWhose(q, t.msg, wasTaken),
           LblShown(q, t.msg), NEW r, LblOutcome(q, r, t)
    PROVE  LblWhose(r, t.msg, wasTaken) /\ LblShown(r, t.msg)
<1>1. CASE LblSame(q, r)
  BY <1>1 DEF LblSame, LblWhose, LblNone, LblOne, LblShown
<1>2. CASE LblForgot(q, r)
  BY <1>2 DEF LblForgot, LblWhose, LblNone, LblShown, LblEmpty
<1>3. CASE LblAdded(q, r, LblFirst(t))
  <2>1. LblFirst(t) \in LblUnits /\ LblFirst(t).msg = t.msg /\ LblFirst(t).seg = t.seg
    BY SendersUnits
  <2> DEFINE m == t.msg
             seg == t.seg
             u == LblFirst(t)
  <2>2. m \in DOMAIN LblLengths /\ m \in Nat \ {0} /\ seg \in LblNumbers(m)
    BY DEF LblSizes
  <2> HIDE DEF m, seg, u
  <2>3. LblOne(r, m) /\ r.dls \in {q.dls, Lbl!WholeText(m)}
    BY <1>3, <2>1, <2>2, AddedIs DEF m, seg, u
  <2>4. LblShown(r, m)
    BY <2>2, <2>3 DEF LblShown, m
  <2> QED BY <2>3, <2>4 DEF LblWhose, m
<1> QED BY <1>1, <1>2, <1>3 DEF LblOutcome

\* A field of the message, whatever becomes of it.
LEMMA CarryKeeps ==
    ASSUME LblSizes, NEW t, NEW q, NEW n, NEW wasTaken, NEW missed, LblState(t, q, n, wasTaken, missed),
           NEW tt \in [msg : DOMAIN LblLengths, seg : Nat, half : BOOLEAN],
           tt.msg = t.msg, tt.seg \in LblNumbers(t.msg),
           NEW r, LblParser(r), LblOutcome(q, r, t), NEW nn \in 0..(4 * LblLengths[t.msg]),
           nn >= 1 => IF tt.half THEN r.active /\ r.acc = <<LblFirst(tt)>> ELSE ~r.active,
           ~missed => LblCounts(r, t.msg, tt.seg, nn, LblOpen(tt)),
           NEW nowTaken \in BOOLEAN, nowTaken => wasTaken \/ r.toggle = t.msg % 2
    PROVE  LblState(tt, r, nn, nowTaken, missed)
<1>1. t \in [msg : DOMAIN LblLengths, seg : Nat, half : BOOLEAN] /\ t.seg \in LblNumbers(t.msg)
      /\ missed \in BOOLEAN
  BY DEF LblState
<1>2. ASSUME ~missed PROVE LblWhose(r, t.msg, nowTaken) /\ LblShown(r, t.msg)
  <2>1. LblWhose(q, t.msg, wasTaken) /\ LblShown(q, t.msg)
    BY <1>2 DEF LblState
  <2>2. LblWhose(r, t.msg, wasTaken) /\ LblShown(r, t.msg)
    BY <1>1, <2>1, OutcomeIsSent
  <2>3. t.msg \in Nat \ {0}
    BY <1>1 DEF LblSizes
  <2>4. ASSUME LblOne(r, t.msg - 1), ~wasTaken PROVE ~nowTaken
    <3>1. (t.msg - 1) % 2 # t.msg % 2
      BY <2>3, ParityIs
    <3> QED BY <2>4, <3>1 DEF LblOne
  <2> QED BY <2>2, <2>4 DEF LblWhose
<1> QED BY <1>1, <1>2 DEF LblState

\* A field that arrives as noise has as many units.
LEMMA NoisyIs ==
    ASSUME NEW app, NEW u \in LblUnits, NEW v \in LblUnits
    PROVE  /\ Lbl!Noisy(Lbl!Field(app, <<u>>)) = Lbl!Field(app, <<Lbl!Noise>>)
           /\ Lbl!Noisy(Lbl!Field(app, <<u, v>>)) = Lbl!Field(app, <<Lbl!Noise, Lbl!Noise>>)
<1> DEFINE x == Lbl!Noise
           one == [i \in DOMAIN <<u>> |-> x]
           two == [i \in DOMAIN <<u, v>> |-> x]
<1>1. x \in LblUnits
  BY UnitsDiffer
<1> HIDE DEF x
<1>2. one = <<x>>
  <2>1. <<u>> \in Seq(LblUnits) /\ Len(<<u>>) = 1
    OBVIOUS
  <2>2. one = [i \in 1..1 |-> x]
    BY <2>1
  <2>3. one \in Seq(LblUnits) /\ Len(one) = 1 /\ one[1] = x
    BY <1>1, <2>2
  <2>4. <<x>> \in Seq(LblUnits) /\ Len(<<x>>) = 1 /\ <<x>>[1] = x
    BY <1>1
  <2>5. \A i \in 1..Len(one) : one[i] = <<x>>[i]
    BY <2>3, <2>4
  <2> HIDE DEF one
  <2> QED BY <2>3, <2>4, <2>5, SeqEqual
<1>3. two = <<x, x>>
  <2>1. <<u, v>> \in Seq(LblUnits) /\ Len(<<u, v>>) = 2
    OBVIOUS
  <2>2. two = [i \in 1..2 |-> x]
    BY <2>1
  <2>3. two \in Seq(LblUnits) /\ Len(two) = 2 /\ two[1] = x /\ two[2] = x
    BY <1>1, <2>2
  <2> DEFINE pair == <<x, x>>
  <2>4. pair \in Seq(LblUnits) /\ Len(pair) = 2 /\ pair[1] = x /\ pair[2] = x
    BY <1>1
  <2> HIDE DEF two, pair
  <2>5. \A i \in 1..Len(two) : two[i] = pair[i]
    BY <2>3, <2>4
  <2>6. two = pair
    BY <2>3, <2>4, <2>5, SeqEqual
  <2> QED BY <2>6 DEF pair
<1>4. Lbl!Noisy(Lbl!Field(app, <<u>>)) = [app |-> app, units |-> one]
  BY DEF Lbl!Noisy, Lbl!Field, x
<1>5. Lbl!Noisy(Lbl!Field(app, <<u, v>>)) = [app |-> app, units |-> two]
  BY DEF Lbl!Noisy, Lbl!Field, x
<1> HIDE DEF one, two
<1> QED BY <1>2, <1>3, <1>4, <1>5 DEF x, Lbl!Field

LblCarried(f) == Lbl!Carry(f, TRUE) \/ Lbl!Carry(f, FALSE)

\* What becomes of a field, and what is counted of it.
LEMMA CarryIs ==
    ASSUME LblSizes, LblInv, NEW f, Len(f.units) \in Nat, LblCarried(f)
    PROVE  /\ lblTaken' \in BOOLEAN /\ lblSkipped' = lblSkipped
           /\ lblTaken' => lblTaken \/ lblP'.toggle = lblTx.msg % 2
           /\ lblHeard' \in 0..(4 * LblLengths[lblTx.msg])
           /\ \/ lblP' = Lbl!PushXpad(lblP, f) /\ lblHeard' <= lblHeard + Len(f.units)
              \/ lblHeard' = 0 /\ (lblP' = lblP \/ lblP' = Lbl!PushXpad(lblP, Lbl!Noisy(f)))
<1>1. lblTaken \in BOOLEAN /\ lblHeard \in 0..(4 * LblLengths[lblTx.msg])
      /\ lblTx.msg \in DOMAIN LblLengths
  BY DEF LblInv, LblState
<1>2. LblLengths[lblTx.msg] \in Nat \ {0}
  BY <1>1 DEF LblSizes
<1>3. lblSkipped' = lblSkipped
  BY DEF LblCarried, Lbl!Carry
<1>4. lblTaken' \in BOOLEAN /\ (lblTaken' => lblTaken \/ lblP'.toggle = lblTx.msg % 2)
  <2>1. CASE Lbl!Carry(f, TRUE)
    <3>1. lblTaken' = (lblTaken \/ (TRUE /\ lblP'.toggle = lblTx.msg % 2 /\ lblHeard' >= 2))
      BY <2>1 DEF Lbl!Carry
    <3> QED BY <3>1, Zenon
  <2>2. CASE Lbl!Carry(f, FALSE)
    <3>1. lblTaken' = (lblTaken \/ (FALSE /\ lblP'.toggle = lblTx.msg % 2 /\ lblHeard' >= 2))
      BY <2>2 DEF Lbl!Carry
    <3> QED BY <3>1, Zenon
  <2> QED BY <2>1, <2>2 DEF LblCarried
<1>5. \/ lblP' = Lbl!PushXpad(lblP, f) /\ lblHeard' = Lbl!Counted(lblHeard + Len(f.units))
      \/ lblHeard' = 0 /\ (lblP' = lblP \/ lblP' = Lbl!PushXpad(lblP, Lbl!Noisy(f)))
  BY DEF LblCarried, Lbl!Carry
<1> DEFINE n == lblHeard + Len(f.units)
           len == LblLengths[lblTx.msg]
<1>6. Lbl!Counted(n) = IF n > 2 * 2 * len THEN 2 * 2 * len ELSE n
  BY DEF Lbl!Counted, Lbl!Enough
<1>7. n \in Nat /\ n = lblHeard + Len(f.units) /\ len \in Nat
  BY <1>1, <1>2
<1> HIDE DEF n, len
<1>8. Lbl!Counted(n) \in 0..(4 * len) /\ Lbl!Counted(n) <= n
  BY <1>6, <1>7
<1> QED BY <1>3, <1>4, <1>5, <1>7, <1>8 DEF n, len

\* A whole group.
LEMMA WholeKeeps == ASSUME LblSizes, LblInv, Lbl!Whole PROVE LblInv'
<1> DEFINE m == lblTx.msg
           len == LblLengths[m]
           u == LblFirst(lblTx)
           v == LblSecond(lblTx)
           f == Lbl!Field("start", <<u, v>>)
<1>1. /\ lblTx \in [msg : DOMAIN LblLengths, seg : Nat, half : BOOLEAN] /\ lblTx.seg \in LblNumbers(m)
      /\ LblParser(lblP) /\ lblHeard \in Nat /\ lblTaken \in BOOLEAN /\ lblSkipped \in BOOLEAN
      /\ ~lblSkipped => LblWhose(lblP, m, lblTaken) /\ LblCounts(lblP, m, lblTx.seg, lblHeard, LblOpen(lblTx))
  BY DEF LblInv, LblState
<1>2. len \in Nat \ {0} /\ m \in Nat \ {0} /\ LblNumbers(m) = 0..(len - 1)
  BY <1>1 DEF LblSizes, LblNumbers
<1>3. ~lblTx.half /\ lblTx' = [lblTx EXCEPT !.seg = (lblTx.seg + 1) % len, !.half = FALSE]
  BY <1>1 DEF Lbl!Whole, Lbl!NextSegment
<1>4. LblCarried(f)
  BY DEF LblCarried, Lbl!Whole, LblFirst, LblSecond
<1>5. u \in LblUnits \ {Lbl!Clearing} /\ v \in LblUnits \ {Lbl!Clearing} /\ u.msg = m /\ u.seg = lblTx.seg
      /\ Lbl!IsGroup(<<u, v>>)
  BY <1>1, SendersUnits
<1>6. Lbl!Noisy(f) = Lbl!Field("start", <<Lbl!Noise, Lbl!Noise>>)
  BY <1>5, NoisyIs
<1>7. Len(f.units) = 2
  BY DEF Lbl!Field
<1> HIDE DEF f
<1>8. /\ lblTaken' \in BOOLEAN /\ lblSkipped' = lblSkipped
      /\ lblTaken' => lblTaken \/ lblP'.toggle = m % 2
      /\ lblHeard' \in 0..(4 * len)
      /\ \/ lblP' = Lbl!PushXpad(lblP, f) /\ lblHeard' <= lblHeard + 2
         \/ lblHeard' = 0 /\ (lblP' = lblP \/ lblP' = Lbl!PushXpad(lblP, Lbl!Noisy(f)))
  <2>1. Len(f.units) \in Nat
    BY <1>7
  <2>2. /\ lblTaken' \in BOOLEAN /\ lblSkipped' = lblSkipped
        /\ lblTaken' => lblTaken \/ lblP'.toggle = lblTx.msg % 2
        /\ lblHeard' \in 0..(4 * LblLengths[lblTx.msg])
        /\ \/ lblP' = Lbl!PushXpad(lblP, f) /\ lblHeard' <= lblHeard + Len(f.units)
           \/ lblHeard' = 0 /\ (lblP' = lblP \/ lblP' = Lbl!PushXpad(lblP, Lbl!Noisy(f)))
    BY <1>4, <2>1, CarryIs, Zenon
  <2> QED BY <1>7, <2>2
<1> HIDE DEF u, v
<1>9. /\ lblTx' \in [msg : DOMAIN LblLengths, seg : Nat, half : BOOLEAN] /\ lblTx'.msg = m
      /\ lblTx'.seg = (lblTx.seg + 1) % len /\ lblTx'.half = FALSE /\ lblTx'.seg \in LblNumbers(m)
  <2> DEFINE next == (lblTx.seg + 1) % len
  <2>1. next \in 0..(len - 1) /\ next \in Nat
    BY <1>1, <1>2
  <2> HIDE DEF next, len
  <2>2. lblTx' = [lblTx EXCEPT !.seg = next, !.half = FALSE]
    BY <1>3 DEF next
  <2>3. lblTx' \in [msg : {m}, seg : {next}, half : {FALSE}]
    BY <1>1, <2>2
  <2> HIDE DEF m
  <2>4. lblTx'.msg = m /\ lblTx'.seg = next /\ lblTx'.half = FALSE
    BY <2>3
  <2>5. m \in DOMAIN LblLengths
    BY <1>1 DEF m
  <2>6. lblTx' \in [msg : DOMAIN LblLengths, seg : Nat, half : BOOLEAN]
    BY <2>1, <2>3, <2>5
  <2> QED BY <1>2, <2>1, <2>4, <2>6 DEF next
<1>10. LblOpen(lblTx) = 0 /\ LblOpen(lblTx') = 0
  BY <1>3, <1>9 DEF LblOpen
<1>11. /\ LblParser(lblP') /\ LblOutcome(lblP, lblP', lblTx)
       /\ lblHeard' >= 1 => ~lblP'.active
       /\ ~lblSkipped => LblCounts(lblP', m, lblTx'.seg, lblHeard', 0)
  <2>1. CASE lblP' = Lbl!PushXpad(lblP, f) /\ lblHeard' <= lblHeard + 2
    <3>1. LblParser(lblP') /\ ~lblP'.active /\ LblAdded(lblP, lblP', u)
      BY <1>1, <1>5, <2>1, PushedWhole DEF f
    <3>2. ASSUME ~lblSkipped PROVE LblCounts(lblP', m, lblTx'.seg, lblHeard', 0)
      <4> DEFINE q == lblP
                 r == lblP'
                 n == lblHeard
                 now == lblHeard'
                 next == lblTx'.seg
                 seg == lblTx.seg
      <4>1. /\ LblWhose(q, m, lblTaken) /\ LblCounts(q, m, seg, n, 0) /\ n \in Nat /\ now \in Nat
            /\ now <= n + 2 - 0 /\ next = (seg + 1) % LblLengths[m] /\ m \in DOMAIN LblLengths
            /\ seg \in LblNumbers(m) /\ LblAdded(q, r, u) /\ u \in LblUnits /\ u.msg = m /\ u.seg = seg
        BY <1>1, <1>5, <1>8, <1>9, <1>10, <2>1, <3>1, <3>2
      <4> HIDE DEF q, r, n, now, next, seg, m
      <4>2. LblCounts(r, m, next, now, 0)
        BY <4>1, AddedCounts
      <4> QED BY <4>2 DEF r, next, now
    <3> QED BY <3>1, <3>2 DEF LblOutcome, u
  <2>2. CASE lblHeard' = 0 /\ (lblP' = lblP \/ lblP' = Lbl!PushXpad(lblP, Lbl!Noisy(f)))
    <3>1. LblCounts(lblP', m, lblTx'.seg, lblHeard', 0)
      BY <1>1, <2>2, NothingCounts
    <3>2. CASE lblP' = lblP
      BY <1>1, <2>2, <3>1, <3>2 DEF LblOutcome, LblSame
    <3>3. CASE lblP' = Lbl!PushXpad(lblP, Lbl!Noisy(f))
      <4> DEFINE x == Lbl!Noise
      <4>1. x \in LblUnits \ {Lbl!Clearing} /\ ~Lbl!IsGroup(<<x, x>>)
        BY <1>1, UnitsDiffer, SendersUnits
      <4>2. lblP' = Lbl!PushXpad(lblP, Lbl!Field("start", <<x, x>>))
        BY <1>6, <3>3
      <4> HIDE DEF x
      <4>3. LblParser(lblP') /\ LblForgot(lblP, lblP')
        BY <1>1, <4>1, <4>2, PushedWhole
      <4> QED BY <2>2, <3>1, <4>3 DEF LblOutcome
    <3> QED BY <2>2, <3>2, <3>3
  <2> QED BY <1>8, <2>1, <2>2
<1>12. LblState(lblTx', lblP', lblHeard', lblTaken', lblSkipped')
  <2>1. LblState(lblTx, lblP, lblHeard, lblTaken, lblSkipped)
    BY DEF LblInv
  <2> QED BY <1>8, <1>9, <1>10, <1>11, <2>1, CarryKeeps
<1> QED BY <1>12 DEF LblInv

\* The first half of a group.
LEMMA FirstHalfKeeps == ASSUME LblSizes, LblInv, Lbl!FirstHalf PROVE LblInv'
<1> DEFINE m == lblTx.msg
           len == LblLengths[m]
           u == LblFirst(lblTx)
           f == Lbl!Field("start", <<u>>)
<1>1. /\ lblTx \in [msg : DOMAIN LblLengths, seg : Nat, half : BOOLEAN] /\ lblTx.seg \in LblNumbers(m)
      /\ LblParser(lblP) /\ lblHeard \in Nat /\ lblTaken \in BOOLEAN /\ lblSkipped \in BOOLEAN
      /\ ~lblSkipped => LblWhose(lblP, m, lblTaken) /\ LblCounts(lblP, m, lblTx.seg, lblHeard, LblOpen(lblTx))
  BY DEF LblInv, LblState
<1>3. ~lblTx.half /\ lblTx' = [lblTx EXCEPT !.half = TRUE]
  BY DEF Lbl!FirstHalf
<1>4. LblCarried(f)
  BY DEF LblCarried, Lbl!FirstHalf, LblFirst
<1>5. u \in LblUnits \ {Lbl!Clearing}
  BY <1>1, SendersUnits
<1>6. Lbl!Noisy(f) = Lbl!Field("start", <<Lbl!Noise>>)
  BY <1>5, NoisyIs
<1>7. Len(f.units) = 1
  BY DEF Lbl!Field
<1> HIDE DEF f
<1>8. /\ lblTaken' \in BOOLEAN /\ lblSkipped' = lblSkipped
      /\ lblTaken' => lblTaken \/ lblP'.toggle = m % 2
      /\ lblHeard' \in 0..(4 * len)
      /\ \/ lblP' = Lbl!PushXpad(lblP, f) /\ lblHeard' <= lblHeard + 1
         \/ lblHeard' = 0 /\ (lblP' = lblP \/ lblP' = Lbl!PushXpad(lblP, Lbl!Noisy(f)))
  <2>1. Len(f.units) \in Nat
    BY <1>7
  <2>2. /\ lblTaken' \in BOOLEAN /\ lblSkipped' = lblSkipped
        /\ lblTaken' => lblTaken \/ lblP'.toggle = lblTx.msg % 2
        /\ lblHeard' \in 0..(4 * LblLengths[lblTx.msg])
        /\ \/ lblP' = Lbl!PushXpad(lblP, f) /\ lblHeard' <= lblHeard + Len(f.units)
           \/ lblHeard' = 0 /\ (lblP' = lblP \/ lblP' = Lbl!PushXpad(lblP, Lbl!Noisy(f)))
    BY <1>4, <2>1, CarryIs, Zenon
  <2> QED BY <1>7, <2>2
<1>9. /\ lblTx' \in [msg : DOMAIN LblLengths, seg : Nat, half : BOOLEAN] /\ lblTx'.msg = m
      /\ lblTx'.seg = lblTx.seg /\ lblTx'.half = TRUE /\ LblFirst(lblTx') = u
  BY <1>1, <1>3 DEF LblFirst
<1> HIDE DEF u
<1>10. LblOpen(lblTx) = 0 /\ LblOpen(lblTx') = 1
  BY <1>3, <1>9 DEF LblOpen
<1>11. /\ LblParser(lblP') /\ LblSame(lblP, lblP')
       /\ lblHeard' >= 1 => lblP'.active /\ lblP'.acc = <<u>>
       /\ ~lblSkipped => LblCounts(lblP', m, lblTx.seg, lblHeard', 1)
  <2>1. CASE lblP' = Lbl!PushXpad(lblP, f) /\ lblHeard' <= lblHeard + 1
    <3>1. LblParser(lblP') /\ LblSame(lblP, lblP') /\ lblP'.active /\ lblP'.acc = <<u>>
      BY <1>1, <1>5, <2>1, PushedFirst DEF f
    <3>2. ASSUME ~lblSkipped PROVE LblCounts(lblP', m, lblTx.seg, lblHeard', 1)
      <4>1. len \in Nat
        BY <1>1 DEF LblSizes
      <4>2. PICK now : now = lblHeard'
        OBVIOUS
      <4> HIDE DEF len
      <4>3. now \in Nat /\ now <= lblHeard + 1
        BY <1>8, <2>1, <4>1, <4>2
      <4>4. now - 1 <= lblHeard - 0
        BY <1>1, <4>3
      <4>5. LblCounts(lblP, m, lblTx.seg, lblHeard, 0)
        BY <1>1, <1>10, <3>2
      <4> HIDE DEF m
      <4>6. LblCounts(lblP', m, lblTx.seg, now, 1)
        BY <1>1, <3>1, <4>3, <4>4, <4>5, SameCounts
      <4> QED BY <4>2, <4>6
    <3> QED BY <3>1, <3>2
  <2>2. CASE lblHeard' = 0 /\ (lblP' = lblP \/ lblP' = Lbl!PushXpad(lblP, Lbl!Noisy(f)))
    <3>1. LblCounts(lblP', m, lblTx.seg, lblHeard', 1)
      BY <1>1, <2>2, NothingCounts
    <3>2. CASE lblP' = lblP
      BY <1>1, <2>2, <3>1, <3>2 DEF LblSame
    <3>3. CASE lblP' = Lbl!PushXpad(lblP, Lbl!Noisy(f))
      <4> DEFINE x == Lbl!Noise
      <4>1. x \in LblUnits \ {Lbl!Clearing}
        BY UnitsDiffer
      <4>2. lblP' = Lbl!PushXpad(lblP, Lbl!Field("start", <<x>>))
        BY <1>6, <3>3
      <4> HIDE DEF x
      <4>3. LblParser(lblP') /\ LblSame(lblP, lblP')
        BY <1>1, <4>1, <4>2, PushedFirst
      <4> QED BY <2>2, <3>1, <4>3
    <3> QED BY <2>2, <3>2, <3>3
  <2> QED BY <1>8, <2>1, <2>2
<1>12. LblState(lblTx', lblP', lblHeard', lblTaken', lblSkipped')
  <2>1. LblState(lblTx, lblP, lblHeard, lblTaken, lblSkipped)
    BY DEF LblInv
  <2>2. LblOutcome(lblP, lblP', lblTx)
    BY <1>11 DEF LblOutcome
  <2> QED BY <1>1, <1>8, <1>9, <1>10, <1>11, <2>1, <2>2, CarryKeeps
<1> QED BY <1>12 DEF LblInv

\* The second half of a group, of which the first may have been lost.
LEMMA SecondHalfKeeps == ASSUME LblSizes, LblInv, Lbl!SecondHalf PROVE LblInv'
<1> DEFINE m == lblTx.msg
           len == LblLengths[m]
           u == LblFirst(lblTx)
           v == LblSecond(lblTx)
<1>1. /\ lblTx \in [msg : DOMAIN LblLengths, seg : Nat, half : BOOLEAN] /\ lblTx.seg \in LblNumbers(m)
      /\ LblParser(lblP) /\ lblHeard \in Nat /\ lblTaken \in BOOLEAN /\ lblSkipped \in BOOLEAN
      /\ ~lblSkipped => LblWhose(lblP, m, lblTaken) /\ LblCounts(lblP, m, lblTx.seg, lblHeard, LblOpen(lblTx))
      /\ lblHeard >= 1 /\ lblTx.half => lblP.active /\ lblP.acc = <<u>>
  BY DEF LblInv, LblState
<1>2. len \in Nat \ {0} /\ m \in Nat \ {0} /\ LblNumbers(m) = 0..(len - 1)
  BY <1>1 DEF LblSizes, LblNumbers
<1>3. lblTx.half /\ lblTx' = [lblTx EXCEPT !.seg = (lblTx.seg + 1) % len, !.half = FALSE]
  BY <1>1 DEF Lbl!SecondHalf, Lbl!NextSegment
<1>13. PICK app \in {"cont", None} : LblCarried(Lbl!Field(app, <<v>>))
  BY DEF LblCarried, Lbl!SecondHalf, LblSecond
<1> DEFINE f == Lbl!Field(app, <<v>>)
<1>4. LblCarried(f)
  BY <1>13
<1>5. /\ u \in LblUnits \ {Lbl!Clearing} /\ v \in LblUnits /\ u.msg = m /\ u.seg = lblTx.seg
      /\ Lbl!IsGroup(<<u, v>>)
      /\ \A w \in LblUnits : /\ Lbl!IsGroup(<<w, v>>) => w = u
                             /\ ~Lbl!IsGroup(<<w, Lbl!Noise>>)
  BY <1>1, SendersUnits
<1>6. Lbl!Noisy(f) = Lbl!Field(app, <<Lbl!Noise>>)
  BY <1>5, NoisyIs
<1>7. Len(f.units) = 1
  BY DEF Lbl!Field
<1> HIDE DEF f
<1>8. /\ lblTaken' \in BOOLEAN /\ lblSkipped' = lblSkipped
      /\ lblTaken' => lblTaken \/ lblP'.toggle = m % 2
      /\ lblHeard' \in 0..(4 * len)
      /\ \/ lblP' = Lbl!PushXpad(lblP, f) /\ lblHeard' <= lblHeard + 1
         \/ lblHeard' = 0 /\ (lblP' = lblP \/ lblP' = Lbl!PushXpad(lblP, Lbl!Noisy(f)))
  <2>1. Len(f.units) \in Nat
    BY <1>7
  <2>2. /\ lblTaken' \in BOOLEAN /\ lblSkipped' = lblSkipped
        /\ lblTaken' => lblTaken \/ lblP'.toggle = lblTx.msg % 2
        /\ lblHeard' \in 0..(4 * LblLengths[lblTx.msg])
        /\ \/ lblP' = Lbl!PushXpad(lblP, f) /\ lblHeard' <= lblHeard + Len(f.units)
           \/ lblHeard' = 0 /\ (lblP' = lblP \/ lblP' = Lbl!PushXpad(lblP, Lbl!Noisy(f)))
    BY <1>4, <2>1, CarryIs, Zenon
  <2> QED BY <1>7, <2>2
<1> HIDE DEF u, v
<1>9. /\ lblTx' \in [msg : DOMAIN LblLengths, seg : Nat, half : BOOLEAN] /\ lblTx'.msg = m
      /\ lblTx'.seg = (lblTx.seg + 1) % len /\ lblTx'.half = FALSE /\ lblTx'.seg \in LblNumbers(m)
  <2> DEFINE next == (lblTx.seg + 1) % len
  <2>1. next \in 0..(len - 1) /\ next \in Nat
    BY <1>1, <1>2
  <2> HIDE DEF next, len
  <2>2. lblTx' = [lblTx EXCEPT !.seg = next, !.half = FALSE]
    BY <1>3 DEF next
  <2>3. lblTx' \in [msg : {m}, seg : {next}, half : {FALSE}]
    BY <1>1, <2>2
  <2> HIDE DEF m
  <2>4. lblTx'.msg = m /\ lblTx'.seg = next /\ lblTx'.half = FALSE
    BY <2>3
  <2>5. m \in DOMAIN LblLengths
    BY <1>1 DEF m
  <2>6. lblTx' \in [msg : DOMAIN LblLengths, seg : Nat, half : BOOLEAN]
    BY <2>1, <2>3, <2>5
  <2> QED BY <1>2, <2>1, <2>4, <2>6 DEF next
<1>10. LblOpen(lblTx) = 1 /\ LblOpen(lblTx') = 0
  BY <1>3, <1>9 DEF LblOpen
<1>14. \/ ~lblP.active
       \/ lblP.active /\ \E w \in LblUnits \ {Lbl!Clearing} : lblP.acc = <<w>>
  BY <1>1 DEF LblParser
<1>11. /\ LblParser(lblP') /\ LblOutcome(lblP, lblP', lblTx)
       /\ lblHeard' >= 1 => ~lblP'.active
       /\ ~lblSkipped => LblCounts(lblP', m, lblTx'.seg, lblHeard', 0)
  <2>1. CASE lblP' = Lbl!PushXpad(lblP, f) /\ lblHeard' <= lblHeard + 1
    <3>1. /\ LblParser(lblP') /\ ~lblP'.active
          /\ ~lblP.active => LblSame(lblP, lblP')
          /\ \A w \in LblUnits \ {Lbl!Clearing} : lblP.active /\ lblP.acc = <<w>> =>
                /\ Lbl!IsGroup(<<w, v>>) => LblAdded(lblP, lblP', w)
                /\ ~Lbl!IsGroup(<<w, v>>) => LblForgot(lblP, lblP')
      BY <1>1, <1>5, <2>1, PushedSecond DEF f
    <3>2. LblSame(lblP, lblP') \/ LblForgot(lblP, lblP') \/ LblAdded(lblP, lblP', u)
      <4>1. CASE ~lblP.active
        BY <3>1, <4>1
      <4>2. ASSUME lblP.active, NEW w \in LblUnits \ {Lbl!Clearing}, lblP.acc = <<w>>
            PROVE  LblForgot(lblP, lblP') \/ LblAdded(lblP, lblP', u)
        <5>1. CASE Lbl!IsGroup(<<w, v>>)
          <6>1. w = u
            BY <1>5, <5>1
          <6>2. LblAdded(lblP, lblP', w)
            BY <3>1, <4>2, <5>1
          <6> QED BY <6>1, <6>2
        <5>2. CASE ~Lbl!IsGroup(<<w, v>>)
          BY <3>1, <4>2, <5>2
        <5> QED BY <5>1, <5>2
      <4> QED BY <1>14, <4>1, <4>2
    <3>3. ASSUME ~lblSkipped, lblHeard >= 1 PROVE LblCounts(lblP', m, lblTx'.seg, lblHeard', 0)
      <4> DEFINE q == lblP
                 r == lblP'
                 n == lblHeard
                 now == lblHeard'
                 next == lblTx'.seg
                 seg == lblTx.seg
      <4>1. LblAdded(q, r, u)
        BY <1>1, <1>3, <1>5, <3>1, <3>3
      <4>2. /\ LblWhose(q, m, lblTaken) /\ LblCounts(q, m, seg, n, 1) /\ n \in Nat /\ now \in Nat
            /\ now <= n + 2 - 1 /\ next = (seg + 1) % LblLengths[m] /\ m \in DOMAIN LblLengths
            /\ seg \in LblNumbers(m) /\ u \in LblUnits /\ u.msg = m /\ u.seg = seg
        BY <1>1, <1>5, <1>8, <1>9, <1>10, <2>1, <3>3
      <4> HIDE DEF q, r, n, now, next, seg, m
      <4>3. LblCounts(r, m, next, now, 0)
        BY <4>1, <4>2, AddedCounts
      <4> QED BY <4>3 DEF r, next, now
    <3>4. ASSUME ~ (lblHeard >= 1) PROVE LblCounts(lblP', m, lblTx'.seg, lblHeard', 0)
      <4>1. lblHeard' \in {0, 1}
        BY <1>1, <1>8, <2>1, <3>4
      <4> QED BY <1>1, <4>1, NothingCounts
    <3> QED BY <3>1, <3>2, <3>3, <3>4 DEF LblOutcome, u
  <2>2. CASE lblHeard' = 0 /\ (lblP' = lblP \/ lblP' = Lbl!PushXpad(lblP, Lbl!Noisy(f)))
    <3>1. LblCounts(lblP', m, lblTx'.seg, lblHeard', 0)
      BY <1>1, <2>2, NothingCounts
    <3>2. CASE lblP' = lblP
      BY <1>1, <2>2, <3>1, <3>2 DEF LblOutcome, LblSame
    <3>3. CASE lblP' = Lbl!PushXpad(lblP, Lbl!Noisy(f))
      <4> DEFINE x == Lbl!Noise
      <4>1. x \in LblUnits /\ \A w \in LblUnits : ~Lbl!IsGroup(<<w, x>>)
        BY <1>5, UnitsDiffer
      <4>2. lblP' = Lbl!PushXpad(lblP, Lbl!Field(app, <<x>>))
        BY <1>6, <3>3
      <4> HIDE DEF x
      <4>3. /\ LblParser(lblP')
            /\ ~lblP.active => LblSame(lblP, lblP')
            /\ \A w \in LblUnits \ {Lbl!Clearing} : lblP.active /\ lblP.acc = <<w>> =>
                  /\ Lbl!IsGroup(<<w, x>>) => LblAdded(lblP, lblP', w)
                  /\ ~Lbl!IsGroup(<<w, x>>) => LblForgot(lblP, lblP')
        BY <1>1, <4>1, <4>2, PushedSecond
      <4>4. LblSame(lblP, lblP') \/ LblForgot(lblP, lblP')
        BY <1>14, <4>1, <4>3
      <4> QED BY <2>2, <3>1, <4>3, <4>4 DEF LblOutcome
    <3> QED BY <2>2, <3>2, <3>3
  <2> QED BY <1>8, <2>1, <2>2
<1>12. LblState(lblTx', lblP', lblHeard', lblTaken', lblSkipped')
  <2>1. LblState(lblTx, lblP, lblHeard, lblTaken, lblSkipped)
    BY DEF LblInv
  <2> QED BY <1>8, <1>9, <1>10, <1>11, <2>1, CarryKeeps
<1> QED BY <1>12 DEF LblInv

\* The state after a step of the sender or the receiver alone, nothing of the
\* message being counted any more or nothing of the label touched.
LEMMA RestKeeps ==
    ASSUME LblSizes, NEW t, NEW q, NEW n, NEW wasTaken, NEW missed, LblState(t, q, n, wasTaken, missed),
           NEW r, LblParser(r), NEW nn \in {0, n},
           nn = n => (r.active = q.active /\ r.acc = q.acc /\ LblSame(q, r)) \/ n = 0,
           LblSame(q, r) \/ (r.segments = LblEmpty /\ r.toggle = None /\ r.dls \in {q.dls, None})
    PROVE  LblState(t, r, nn, wasTaken, missed)
<1>1. t \in [msg : DOMAIN LblLengths, seg : Nat, half : BOOLEAN] /\ t.seg \in LblNumbers(t.msg)
      /\ n \in 0..(4 * LblLengths[t.msg]) /\ LblOpen(t) \in {0, 1}
  BY DEF LblState, LblOpen
<1>2. LblLengths[t.msg] \in Nat
  BY <1>1 DEF LblSizes
<1>3. nn \in 0..(4 * LblLengths[t.msg]) /\ n \in Nat
  BY <1>1, <1>2
<1>4. ASSUME ~missed PROVE LblWhose(r, t.msg, wasTaken) /\ LblShown(r, t.msg)
  <2>1. LblWhose(q, t.msg, wasTaken) /\ LblShown(q, t.msg)
    BY <1>4 DEF LblState
  <2>2. CASE LblSame(q, r)
    BY <2>1, <2>2 DEF LblSame, LblWhose, LblNone, LblOne, LblShown
  <2>3. CASE r.segments = LblEmpty /\ r.toggle = None /\ r.dls \in {q.dls, None}
    BY <2>1, <2>3 DEF LblWhose, LblNone, LblShown
  <2> QED BY <2>2, <2>3
<1>5. CASE nn = 0
  <2>1. LblCounts(r, t.msg, t.seg, nn, LblOpen(t))
    BY <1>1, <1>5, NothingCounts
  <2> QED BY <1>3, <1>4, <1>5, <2>1 DEF LblState
<1>6. CASE nn = n /\ n # 0
  <2>1. r.active = q.active /\ r.acc = q.acc /\ LblSame(q, r)
    BY <1>6
  <2>2. ASSUME ~missed PROVE LblCounts(r, t.msg, t.seg, nn, LblOpen(t))
    <3>1. LblCounts(q, t.msg, t.seg, n, LblOpen(t))
      BY <2>2 DEF LblState
    <3> DEFINE m == t.msg
               seg == t.seg
               open == LblOpen(t)
    <3>2. open \in {0, 1} /\ n - open <= n - open /\ LblCounts(q, m, seg, n, open)
      BY <1>1, <1>3, <3>1
    <3> HIDE DEF m, seg, open
    <3>3. LblCounts(r, m, seg, n, open)
      BY <1>3, <2>1, <3>2, SameCounts
    <3> QED BY <1>6, <3>3 DEF m, seg, open
  <2> QED BY <1>3, <1>4, <1>6, <2>1, <2>2 DEF LblState
<1> QED BY <1>5, <1>6

\* Every step keeps the state.
LEMMA LblStep == ASSUME LblSizes, LblInv, [Lbl!Next]_(Lbl!vars) PROVE LblInv'
<1>1. LblState(lblTx, lblP, lblHeard, lblTaken, lblSkipped) /\ LblParser(lblP)
  BY DEF LblInv, LblState
<1>2. ASSUME lblTx' = lblTx, lblTaken' = lblTaken, lblSkipped' = lblSkipped,
             LblState(lblTx, lblP', lblHeard', lblTaken, lblSkipped)
      PROVE  LblInv'
  BY <1>2 DEF LblInv
<1>3. CASE Lbl!NewMessage
  <2> DEFINE m == lblTx.msg
  <2>1. /\ lblTx \in [msg : DOMAIN LblLengths, seg : Nat, half : BOOLEAN]
        /\ ~lblTx.half /\ m + 1 \in DOMAIN LblLengths
        /\ lblTx' = [msg |-> m + 1, seg |-> 0, half |-> FALSE]
        /\ lblHeard' = 0 /\ lblTaken' = FALSE /\ lblSkipped' = (lblSkipped \/ ~lblTaken) /\ lblP' = lblP
    BY <1>1, <1>3 DEF Lbl!NewMessage, LblState
  <2>2. m \in Nat \ {0} /\ LblLengths[m + 1] \in Nat \ {0} /\ m \in DOMAIN LblLengths
    BY <2>1 DEF LblSizes
  <2>3. 0 \in LblNumbers(m + 1) /\ 0 \in 0..(4 * LblLengths[m + 1])
    BY <2>2 DEF LblNumbers
  <2>4. lblSkipped' \in BOOLEAN /\ (~lblSkipped' => ~lblSkipped /\ lblTaken)
    BY <2>1, Zenon
  <2>5. ASSUME ~lblSkipped' PROVE LblWhose(lblP, m + 1, lblTaken') /\ LblShown(lblP, m + 1)
    <3>1. LblWhose(lblP, m, lblTaken) /\ LblShown(lblP, m) /\ lblTaken
      BY <1>1, <2>4, <2>5 DEF LblState
    <3>2. (m + 1) - 1 = m
      BY <2>2
    <3>3. LblWhose(lblP, m + 1, lblTaken')
      BY <2>1, <2>2, <3>1, <3>2 DEF LblWhose
    <3>4. 1..m \subseteq 1..(m + 1)
      BY <2>2
    <3>5. LblShown(lblP, m + 1)
      BY <3>1, <3>4 DEF LblShown
    <3> QED BY <3>3, <3>5
  <2> DEFINE tt == [msg |-> m + 1, seg |-> 0, half |-> FALSE]
  <2>6. /\ tt \in [msg : DOMAIN LblLengths, seg : Nat, half : BOOLEAN]
        /\ tt.msg = m + 1 /\ tt.seg = 0 /\ LblOpen(tt) = 0
    BY <2>1 DEF LblOpen
  <2> HIDE DEF tt, m
  <2>7. PICK now \in {0} : now = lblHeard'
    BY <2>1
  <2>8. PICK took \in {FALSE} : took = lblTaken'
    BY <2>1
  <2>9. LblCounts(lblP, tt.msg, tt.seg, now, LblOpen(tt))
    BY <2>1, <2>6, NothingCounts
  <2>10. took \in BOOLEAN /\ ~ (now >= 1) /\ now \in 0..(4 * LblLengths[tt.msg])
         /\ tt.seg \in LblNumbers(tt.msg)
    BY <2>3, <2>6
  <2>11. ~lblSkipped' => LblWhose(lblP, tt.msg, took) /\ LblShown(lblP, tt.msg)
    BY <2>5, <2>6, <2>8
  <2>12. LblState(tt, lblP, now, took, lblSkipped')
    BY <1>1, <2>4, <2>6, <2>9, <2>10, <2>11 DEF LblState
  <2> QED BY <2>1, <2>7, <2>8, <2>12 DEF LblInv, tt
<1>4. CASE Lbl!Clear
  <2>1. /\ lblHeard' = 0 /\ lblTx' = lblTx /\ lblTaken' = lblTaken /\ lblSkipped' = lblSkipped
        /\ lblP' = lblP \/ lblP' = Lbl!PushXpad(lblP, Lbl!Field("start", <<Lbl!Clearing>>))
    BY <1>4 DEF Lbl!Clear
  <2>2. LblParser(lblP') /\ (LblSame(lblP, lblP') \/ (lblP'.segments = LblEmpty /\ lblP'.toggle = None
                                                     /\ lblP'.dls \in {lblP.dls, None}))
    BY <1>1, <2>1, UnitsDiffer, PushedClearing DEF LblSame
  <2>3. lblHeard' = lblHeard => lblHeard = 0
    BY <2>1
  <2>4. LblState(lblTx, lblP', lblHeard', lblTaken, lblSkipped)
    BY <1>1, <2>1, <2>2, <2>3, RestKeeps
  <2> QED BY <1>2, <2>1, <2>4
<1>5. CASE Lbl!Other
  <2>1. lblP' = lblP
    BY <1>5 DEF Lbl!Other, Lbl!PushXpad, Lbl!Field, LblSizes
  <2> QED BY <1>1, <1>2, <1>5, <2>1 DEF Lbl!Other
<1>6. CASE Lbl!OtherContinues
  <2> DEFINE x == Lbl!Noise
  <2>1. /\ lblP' = Lbl!PushXpad(lblP, Lbl!Field(None, <<x>>))
        /\ lblHeard' = IF lblTx.half THEN 0 ELSE lblHeard
        /\ lblTx' = lblTx /\ lblTaken' = lblTaken /\ lblSkipped' = lblSkipped
    BY <1>6 DEF Lbl!OtherContinues
  <2>2. x \in LblUnits /\ \A w \in LblUnits : ~Lbl!IsGroup(<<w, x>>)
    BY <1>1, UnitsDiffer, SendersUnits DEF LblState
  <2> HIDE DEF x
  <2>3. /\ LblParser(lblP') /\ ~lblP'.active
        /\ ~lblP.active => LblSame(lblP, lblP')
        /\ \A w \in LblUnits \ {Lbl!Clearing} : lblP.active /\ lblP.acc = <<w>> =>
              /\ Lbl!IsGroup(<<w, x>>) => LblAdded(lblP, lblP', w)
              /\ ~Lbl!IsGroup(<<w, x>>) => LblForgot(lblP, lblP')
    BY <1>1, <2>1, <2>2, PushedSecond
  <2>4. LblSame(lblP, lblP') \/ LblForgot(lblP, lblP')
    BY <1>1, <2>2, <2>3 DEF LblParser
  <2>5. CASE lblTx.half \/ lblHeard = 0
    <3>1. lblHeard' = 0 /\ (lblHeard' = lblHeard => lblHeard = 0)
      BY <2>1, <2>5
    <3>2. LblSame(lblP, lblP') \/ (lblP'.segments = LblEmpty /\ lblP'.toggle = None /\ lblP'.dls \in {lblP.dls, None})
      BY <2>4 DEF LblForgot, LblEmpty
    <3>3. LblState(lblTx, lblP', lblHeard', lblTaken, lblSkipped)
      BY <1>1, <2>3, <3>1, <3>2, RestKeeps
    <3> QED BY <1>2, <2>1, <3>3
  <2>6. CASE ~lblTx.half /\ lblHeard # 0
    <3>1. ~lblP.active /\ lblHeard' = lblHeard
      BY <1>1, <2>1, <2>6 DEF LblState
    <3>2. lblP' = lblP \/ lblP' = [lblP EXCEPT !.dlsLast = lblP.dlsLast]
      BY <2>1, <3>1 DEF Lbl!PushXpad, Lbl!Field, Lbl!ContinueGroup, Lbl!Extracted, LblSizes
    <3>3. lblP' = lblP
      BY <1>1, <3>2 DEF LblParser
    <3> QED BY <1>1, <1>2, <2>1, <3>1, <3>3
  <2> QED BY <2>5, <2>6
<1>7. CASE Lbl!Reset
  <2>1. /\ lblP' = Lbl!Parser /\ lblHeard' = 0 /\ lblTx' = lblTx /\ lblTaken' = lblTaken
        /\ lblSkipped' = lblSkipped
    BY <1>7 DEF Lbl!Reset
  <2>2. LblParser(lblP') /\ lblP'.segments = LblEmpty /\ lblP'.toggle = None /\ lblP'.dls = None
    BY <2>1 DEF Lbl!Parser, LblParser, LblEmpty
  <2>3. LblState(lblTx, lblP', lblHeard', lblTaken, lblSkipped)
    BY <1>1, <2>1, <2>2, RestKeeps
  <2> QED BY <1>2, <2>1, <2>3
<1>8. CASE UNCHANGED Lbl!vars
  BY <1>8 DEF Lbl!vars, LblInv, LblState
<1> QED BY <1>3, <1>4, <1>5, <1>6, <1>7, <1>8, WholeKeeps, FirstHalfKeeps, SecondHalfKeeps DEF Lbl!Next

\* The label before anything is sent.
LEMMA LblInit == ASSUME LblSizes, Lbl!Init PROVE LblInv
<1> DEFINE t == [msg |-> 1, seg |-> 0, half |-> FALSE]
<1>1. lblTx = t /\ lblP = Lbl!Parser /\ lblHeard = 0 /\ lblTaken = FALSE /\ lblSkipped = FALSE
  BY DEF Lbl!Init
<1>2. 1 \in DOMAIN LblLengths /\ LblLengths[1] \in Nat \ {0}
  BY DEF LblSizes
<1>3. /\ t \in [msg : DOMAIN LblLengths, seg : Nat, half : BOOLEAN] /\ t.msg = 1 /\ t.seg = 0 /\ ~t.half
      /\ LblOpen(t) = 0
  BY <1>2 DEF LblOpen
<1>4. 0 \in LblNumbers(1) /\ 0 \in 0..(4 * LblLengths[1])
  BY <1>2 DEF LblNumbers
<1> DEFINE r == Lbl!Parser
<1>5. LblParser(r) /\ LblNone(r) /\ r.dls = None
  BY DEF Lbl!Parser, LblParser, LblNone, LblEmpty
<1> HIDE DEF t, r
<1>6. LblCounts(r, 1, 0, 0, 0)
  BY <1>2, NothingCounts
<1>7. LblState(t, r, 0, FALSE, FALSE)
  BY <1>3, <1>4, <1>5, <1>6 DEF LblState, LblWhose, LblShown
<1> QED BY <1>1, <1>7 DEF LblInv, r

\* What the label is promised to be.
LEMMA LblServes == ASSUME LblSizes, LblInv PROVE Lbl!ShownWasSent /\ Lbl!HeardIsShown
<1> DEFINE m == lblTx.msg
           len == LblLengths[m]
<1>1. m \in DOMAIN LblLengths /\ lblTx.half \in BOOLEAN
  BY DEF LblInv, LblState
<1>2. len \in Nat \ {0}
  BY <1>1 DEF LblSizes
<1>3. ASSUME ~lblSkipped PROVE LblShown(lblP, m) /\ LblCounts(lblP, m, lblTx.seg, lblHeard, LblOpen(lblTx))
  BY <1>3 DEF LblInv, LblState
<1>4. Lbl!ShownWasSent
  BY <1>3 DEF Lbl!ShownWasSent, LblShown
<1>5. ASSUME lblHeard = 2 * 2 * len, ~lblSkipped PROVE lblP.dls = Lbl!WholeText(m)
  <2>1. PICK g \in Nat :
           /\ 2 * g >= lblHeard - 1 - LblOpen(lblTx)
           /\ LblHas(lblP, m, lblTx.seg, g)
           /\ g >= LblLengths[m] => lblP.dls = Lbl!WholeText(m)
    BY <1>3, <1>5 DEF LblCounts
  <2>2. LblOpen(lblTx) \in {0, 1}
    BY DEF LblOpen
  <2> HIDE DEF len
  <2>3. g >= len
    BY <1>2, <1>5, <2>1, <2>2
  <2> QED BY <2>1, <2>3 DEF len
<1> QED BY <1>4, <1>5 DEF Lbl!HeardIsShown, Lbl!Enough

\* DabLabel: the label shown was sent whole, and what was heard is shown.
THEOREM LblHolds == ASSUME Lbl!LabelAssumption PROVE Lbl!Spec => [](Lbl!ShownWasSent /\ Lbl!HeardIsShown)
<1>1. LblSizes
  BY LblSizesAre
<1>2. Lbl!Init => LblInv
  BY <1>1, LblInit
<1>3. LblInv /\ [Lbl!Next]_(Lbl!vars) => LblInv'
  BY <1>1, LblStep
<1>4. LblInv => Lbl!ShownWasSent /\ Lbl!HeardIsShown
  BY <1>1, LblServes
<1> QED BY <1>2, <1>3, <1>4, PTL DEF Lbl!Spec

-----------------------------------------------------------------------------
(* The three together.                                                     *)

\* What is shown of a signal, what a sub-channel gives and the label that is
\* shown are each of one signal, one plan and one message, whole and current
\* (analyze.rs, detect.rs, msc.rs, dls.rs, in whatever order frames, edits,
\* retunes, losses and reconfigurations come).
THEOREM NothingIsMixedHolds == Lab!Spec /\ Mux!Spec /\ Lbl!Spec => []NothingIsMixed
<1>1. Lab!LabAssumption /\ Mux!MuxAssumption /\ Lbl!LabelAssumption
  BY PartsAssumption
<1>2. Lab!Spec => [](Lab!ShownIsCurrent /\ Lab!IdentityIsUnique)
  BY <1>1, LabHolds
<1>3. Mux!Spec => [](Mux!NothingMixed /\ Mux!GivesWhatWasSent)
  BY <1>1, SubChannelsAreWhole
<1>4. Lbl!Spec => [](Lbl!ShownWasSent /\ Lbl!HeardIsShown)
  BY <1>1, LblHolds
<1> QED BY <1>2, <1>3, <1>4, PTL DEF NothingIsMixed

-----------------------------------------------------------------------------
(* The receiver.                                                           *)

USE ReceiverAssumption DEF ReceiverAssumption

Counters ==
    /\ grid \in BOOLEAN
    /\ since \in Nat /\ deaf \in Nat /\ heard \in Nat
    /\ received \in 0..(Depth + 1) /\ joined \in 0..(Depth + 1)
    /\ table \in Plans \cup {NoTable} /\ handler \in Plans \cup {NoTable}

\* Off the grid the de-interleaver is empty, whatever took the grid away.
EmptyOffGrid == ~grid => received = 0

\* The code's count of rejected attempts is the age of the last accepted one.
AgeIsCounted == since = deaf

\* While a clean signal is heard, its frames are all in the de-interleaver.
HeardIsHeld ==
    heard > 0 => /\ grid /\ handler = table /\ table # NoTable
                 /\ received >= Least(heard, Depth + 1)

\* The lock window ends with the clean frames heard in a row.
WindowOf(w, n) ==
    /\ w \in Seq(BOOLEAN) /\ Len(w) <= LockWindow
    /\ n > Len(w) => Len(w) = LockWindow
    /\ \A k \in 1..Len(w) : k > Len(w) - n => w[k]

HeardInWindow == WindowOf(window, heard)

IInv == /\ Counters /\ EmptyOffGrid /\ AgeIsCounted /\ HistoryIsWhole /\ TableIsHeard /\ HeardIsHeld
        /\ HeardInWindow

\* The smaller of two numbers.
LEMMA LeastIs ==
    ASSUME NEW a \in Nat, NEW b \in Nat
    PROVE  /\ Least(a, b) \in Nat /\ Least(a, b) <= a /\ Least(a, b) <= b
           /\ a <= b => Least(a, b) = a
           /\ b <= a => Least(a, b) = b
  BY DEF Least

\* Enough frames fill the de-interleaver and the lock window.
LEMMA EnoughIsDeep == Enough \in Nat /\ Enough >= Depth + 1 /\ Enough >= LockWindow
  BY DEF Enough

\* A window that slides keeps its type, and ends with one more clean frame
\* when that is what it takes in.
LEMMA SlidWindow ==
    ASSUME NEW n \in Nat, WindowOf(window, n), NEW clean \in BOOLEAN, NEW m \in Nat,
           m > 0 => clean /\ m <= n + 1
    PROVE  WindowOf(Slid(clean), m)
<1> DEFINE grown == Append(window, clean)
<1>1. /\ window \in Seq(BOOLEAN) /\ Len(window) \in Nat /\ Len(window) <= LockWindow
      /\ n > Len(window) => Len(window) = LockWindow
      /\ \A k \in 1..Len(window) : k > Len(window) - n => window[k]
  BY DEF WindowOf
<1>2. /\ grown \in Seq(BOOLEAN) /\ Len(grown) = Len(window) + 1 /\ grown # <<>>
      /\ \A k \in 1..Len(window) : grown[k] = window[k]
      /\ grown[Len(window) + 1] = clean
  BY <1>1
<1> HIDE DEF grown
<1>3. ASSUME NEW k \in 1..Len(grown), k > Len(grown) - m PROVE grown[k]
  <2>1. m > 0
    BY <1>2, <1>3
  <2>2. CASE k = Len(window) + 1
    BY <1>2, <2>1, <2>2
  <2>3. CASE k # Len(window) + 1
    <3>1. k \in 1..Len(window) /\ k > Len(window) - n
      BY <1>1, <1>2, <1>3, <2>1, <2>3
    <3> QED BY <1>1, <1>2, <3>1
  <2> QED BY <2>2, <2>3
<1>4. CASE Len(grown) <= LockWindow
  <2>1. Slid(clean) = grown
    BY <1>1, <1>2, <1>4 DEF Slid, grown
  <2>2. m > Len(grown) => Len(grown) = LockWindow
    BY <1>1, <1>2, <1>4
  <2> QED BY <1>2, <1>3, <1>4, <2>1, <2>2 DEF WindowOf
<1>5. CASE Len(grown) > LockWindow
  <2>1. Slid(clean) = Tail(grown)
    BY <1>5 DEF Slid, grown
  <2>2. /\ Tail(grown) \in Seq(BOOLEAN) /\ Len(Tail(grown)) = LockWindow /\ Len(window) = LockWindow
        /\ \A k \in 1..LockWindow : Tail(grown)[k] = grown[k + 1]
    BY <1>1, <1>2, <1>5
  <2>3. ASSUME NEW k \in 1..LockWindow, k > LockWindow - m PROVE Tail(grown)[k]
    <3>1. k + 1 \in 1..Len(grown) /\ k + 1 > Len(grown) - m
      BY <1>2, <2>2, <2>3
    <3> QED BY <1>3, <2>2, <3>1
  <2> QED BY <2>1, <2>2, <2>3 DEF WindowOf
<1> QED BY <1>1, <1>2, <1>4, <1>5

\* The window and nothing heard: whatever it holds, or when it is cleared.
LEMMA SilentWindow ==
    ASSUME IInv, window' \in {window, <<>>}, heard' = 0
    PROVE  HeardInWindow'
<1>1. <<>> \in Seq(BOOLEAN) /\ Len(<<>>) = 0
  OBVIOUS
<1>2. WindowOf(<<>>, 0) /\ WindowOf(window, 0)
  BY <1>1 DEF IInv, HeardInWindow, WindowOf
<1> QED BY <1>2 DEF HeardInWindow

\* The receiver starts with an empty history, no table and nothing heard.
LEMMA InitHolds == Init => IInv
<1>1. Init => grid \in BOOLEAN
  BY DEF Init
<1>2. Init => HeardInWindow
  BY DEF Init, HeardInWindow, WindowOf
<1> QED
  BY <1>1, <1>2 DEF Init, IInv, Counters, EmptyOffGrid, AgeIsCounted, HistoryIsWhole, TableIsHeard, HeardIsHeld

\* The table an accepted frame leaves: the frame's own when it is clean.
LEMMA AcceptedHolds ==
    ASSUME IInv, NEW clean \in BOOLEAN, NEW plan \in Plans, Accepted(clean, plan)
    PROVE  IInv'
<1>1. /\ grid' = TRUE /\ since' = 0 /\ deaf' = 0
      /\ table' \in Plans \cup {NoTable} /\ handler' = table'
  BY DEF Accepted, SyncAndPush, IInv, Counters
<1>2. /\ received' = IF table' = NoTable THEN 0
                     ELSE Least((IF handler = table' THEN received ELSE 0) + 1, Depth + 1)
      /\ joined' = Least((IF grid /\ handler = table' THEN joined ELSE 0) + 1, Depth + 1)
  BY DEF Accepted, SyncAndPush
<1>3. /\ received' \in 0..(Depth + 1) /\ joined' \in 0..(Depth + 1) /\ received' <= joined'
  BY <1>2 DEF IInv, Counters, EmptyOffGrid, HistoryIsWhole, Least
<1>4. heard' \in Nat
  BY EnoughIsDeep DEF Accepted, IInv, Counters, Least
<1>5. HeardIsHeld'
  <2> SUFFICES ASSUME heard' > 0
               PROVE  table' # NoTable /\ received' >= Least(heard', Depth + 1)
    BY <1>1 DEF HeardIsHeld
  <2>1. clean /\ table' = plan /\ table' # NoTable
    BY DEF Accepted
  <2>2. CASE plan = table /\ heard > 0
    <3>1. handler = plan /\ received >= Least(heard, Depth + 1)
      BY <2>2 DEF IInv, HeardIsHeld
    <3>2. heard' <= heard + 1
      BY <2>1, <2>2, EnoughIsDeep DEF Accepted, IInv, Counters, Least
    <3>3. received' = Least(received + 1, Depth + 1)
      BY <1>2, <2>1, <3>1
    <3> QED
      BY <1>4, <2>1, <3>1, <3>2, <3>3 DEF IInv, Counters, Least
  <2>3. CASE ~(plan = table /\ heard > 0)
    <3>1. heard' = 1
      BY <2>1, <2>3, EnoughIsDeep DEF Accepted, IInv, Counters, Least
    <3>2. received' >= 1
      BY <1>2, <2>1 DEF IInv, Counters, Least
    <3> QED
      BY <2>1, <3>1, <3>2 DEF Least
  <2> QED
    BY <2>2, <2>3
<1>6. HeardInWindow'
  <2>1. window' = Slid(clean) /\ heard \in Nat /\ WindowOf(window, heard)
    BY DEF Accepted, IInv, Counters, HeardInWindow
  <2>2. heard' > 0 => clean /\ heard' <= heard + 1
    BY <2>1, EnoughIsDeep DEF Accepted, Least
  <2> QED BY <1>4, <2>1, <2>2, SlidWindow DEF HeardInWindow
<1> QED
  BY <1>1, <1>3, <1>4, <1>5, <1>6 DEF IInv, Counters, EmptyOffGrid, AgeIsCounted, HistoryIsWhole, TableIsHeard

\* A rejected attempt ages the table; the last of a run takes it.
LEMMA RejectedAges ==
    ASSUME IInv, CountRejected, deaf' = Least(deaf + 1, TableExpiry)
    PROVE  /\ since' \in Nat /\ since' = deaf'
           /\ table' \in {table, NoTable}
           /\ TableIsHeard'
<1>1. since' = Least(since + 1, TableExpiry) /\ since \in Nat /\ since = deaf
  BY DEF CountRejected, IInv, Counters, AgeIsCounted
<1>2. CASE since + 1 = TableExpiry
  BY <1>1, <1>2 DEF CountRejected, Expire, TableIsHeard, Least
<1>3. CASE since + 1 # TableExpiry
  <2>1. table' = table
    BY <1>3 DEF CountRejected
  <2>2. table # NoTable => deaf + 1 < TableExpiry
    BY <1>1, <1>3 DEF IInv, TableIsHeard
  <2> QED
    BY <1>1, <2>1, <2>2 DEF TableIsHeard, Least
<1> QED
  BY <1>2, <1>3

\* A frame faded out keeps the invariant.
LEMMA FadeHolds ==
    ASSUME IInv, Fade
    PROVE  IInv'
<1>1. /\ since' \in Nat /\ since' = deaf' /\ table' \in {table, NoTable} /\ TableIsHeard'
  BY RejectedAges DEF Fade
<1>2. grid' = TRUE /\ grid /\ heard' = 0 /\ handler' = table'
  BY DEF Fade, SyncAndPush
<1>3. /\ received' \in 0..(Depth + 1) /\ joined' \in 0..(Depth + 1) /\ received' <= joined'
  <2>1. CASE misses + 1 >= ClockStrikes
    <3>1. /\ received' = IF table' = NoTable THEN 0 ELSE 1
          /\ joined' = Least((IF handler = table' THEN joined ELSE 0) + 1, Depth + 1)
      BY <2>1 DEF Fade
    <3> QED
      BY <3>1 DEF IInv, Counters, Least
  <2>2. CASE ~(misses + 1 >= ClockStrikes)
    <3>1. SyncAndPush(table')
      BY <2>2 DEF Fade
    <3> QED
      BY <3>1 DEF SyncAndPush, IInv, Counters, EmptyOffGrid, HistoryIsWhole, Least
  <2> QED
    BY <2>1, <2>2
<1>4. HeardInWindow'
  BY <1>2, SilentWindow DEF Fade, CountRejected, Expire
<1> QED
  BY <1>1, <1>2, <1>3, <1>4 DEF IInv, Counters, EmptyOffGrid, AgeIsCounted, HistoryIsWhole, HeardIsHeld

\* A frame lost, on or off the grid, keeps the invariant.
LEMMA LostHolds ==
    ASSUME IInv, NEW score, Lost(score)
    PROVE  IInv'
<1>1. /\ since' \in Nat /\ since' = deaf' /\ table' \in {table, NoTable} /\ TableIsHeard'
  BY RejectedAges DEF Lost
<1>2. grid' \in BOOLEAN
  BY DEF Lost, GiveUpGrid
<1>3. received' = 0 /\ joined' = 0 /\ heard' = 0 /\ handler' = handler
  BY DEF Lost, GiveUpGrid, Discard
<1>4. HeardInWindow'
  BY <1>3, SilentWindow DEF Lost, CountRejected, Expire
<1> QED
  BY <1>1, <1>2, <1>3, <1>4 DEF IInv, Counters, EmptyOffGrid, AgeIsCounted, HistoryIsWhole, HeardIsHeld

\* A hole, a stop and a reset empty the de-interleaver with the grid.
LEMMA CutHolds ==
    ASSUME IInv, DiscardBuffer \/ NoInput \/ Reset
    PROVE  IInv'
<1>0. grid' \in BOOLEAN
  BY DEF DiscardBuffer, NoInput, Reset, GiveUpGrid
<1>1. received' = 0 /\ joined' = 0 /\ heard' = 0
  BY DEF DiscardBuffer, NoInput, Reset, GiveUpGrid, Discard
<1>2. /\ handler' \in {handler, NoTable} /\ table' \in {table, NoTable}
      /\ \/ since' = since /\ deaf' = deaf /\ table' = table
         \/ since' = 0 /\ deaf' = 0
  BY DEF DiscardBuffer, NoInput, Reset, Expire
<1>3. HeardInWindow'
  BY <1>1, SilentWindow DEF DiscardBuffer, NoInput, Reset, Expire, GiveUpGrid
<1> QED
  BY <1>0, <1>1, <1>2, <1>3 DEF IInv, Counters, EmptyOffGrid, AgeIsCounted, HistoryIsWhole, TableIsHeard, HeardIsHeld

\* The invariant is about the variables of the receiver only.
LEMMA StutterHolds ==
    ASSUME IInv, UNCHANGED vars
    PROVE  IInv'
  BY DEF vars, IInv, Counters, EmptyOffGrid, AgeIsCounted, HistoryIsWhole, TableIsHeard, HeardIsHeld,
         HeardInWindow

\* The invariant of every run of the receiver.
LEMMA Invariant == Spec => []IInv
<1>1. IInv /\ [Next]_vars => IInv'
  <2> SUFFICES ASSUME IInv, [Next]_vars
               PROVE  IInv'
    OBVIOUS
  <2>1. CASE \E clean \in BOOLEAN, plan \in Plans : Accepted(clean, plan)
    BY <2>1, AcceptedHolds
  <2>2. CASE Fade
    BY <2>2, FadeHolds
  <2>3. CASE \E score \in {"fade", "noise"} : Lost(score)
    BY <2>3, LostHolds
  <2>4. CASE DiscardBuffer \/ NoInput \/ Reset
    BY <2>4, CutHolds
  <2>5. CASE UNCHANGED vars
    BY <2>5, StutterHolds
  <2> QED
    BY <2>1, <2>2, <2>3, <2>4, <2>5 DEF Next
<1> QED
  BY <1>1, InitHolds, PTL DEF Spec

\* The de-interleaver never holds more frames than arrived in one piece under
\* its plan (MscDecoder::sync and discard, wherever receiver.rs calls them).
THEOREM HistoryStaysWhole == Spec => []HistoryIsWhole
<1>1. IInv => HistoryIsWhole
  BY DEF IInv
<1> QED
  BY <1>1, Invariant, PTL

\* A table never outlives TableExpiry attempts without an accepted frame
\* (frames_since_accept of receiver.rs and FicState::expire).
THEOREM TableStaysHeard == Spec => []TableIsHeard
<1>1. IInv => TableIsHeard
  BY DEF IInv
<1> QED
  BY <1>1, Invariant, PTL

\* A window of clean frames alone counts them all.
LEMMA AllClean ==
    ASSUME Len(window) = LockWindow, \A k \in 1..Len(window) : window[k]
    PROVE  CleanFrames = LockWindow
<1>1. {i \in 1..Len(window) : window[i]} = 1..LockWindow
  OBVIOUS
<1>2. Cardinality(1..LockWindow) = LockWindow
  BY FS_Interval
<1> QED BY <1>1, <1>2 DEF CleanFrames

\* A signal heard cleanly for Enough frames is locked and has its sub-channel
\* past the warm-up, after any history of fades, holes, resets and other
\* ensembles (is_locked of FicState; SyncAndPush on every accepted frame).
THEOREM GoodSignalIsPublishedHolds == Spec => []GoodSignalIsPublished
<1>1. IInv => GoodSignalIsPublished
  <2> SUFFICES ASSUME IInv, heard = Enough
               PROVE  IsLocked /\ received = Depth + 1
    BY DEF GoodSignalIsPublished
  <2>1. table # NoTable /\ received = Depth + 1
    BY EnoughIsDeep DEF IInv, Counters, HeardIsHeld, Least
  <2>2. Len(window) = LockWindow /\ \A k \in 1..Len(window) : window[k]
    BY EnoughIsDeep DEF IInv, HeardInWindow, WindowOf
  <2>3. CleanFrames = LockWindow
    BY <2>2, AllClean
  <2> QED
    BY <2>1, <2>2, <2>3 DEF IsLocked
<1> QED
  BY <1>1, Invariant, PTL
=============================================================================
