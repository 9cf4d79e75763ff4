-------------------------- MODULE AudioInputProofs --------------------------
(***************************************************************************)
(* What the sound card's time stamps are worth, for every chunk, every     *)
(* ring, every callback and every length of a session.                     *)
(***************************************************************************)
EXTENDS AudioInput, SequenceTheorems, TLAPS

Rings == [ring : Seq(Nat), dropped : Nat]
Backends == [pending : Seq(Nat), consumed : Nat, dropped : Nat, cfg : Configs]
Frames == [t : Nat, data : Seq(Nat), want : Nat, triggered : BOOLEAN, before : Nat, after : Nat]

Types ==
    /\ made \in Nat /\ lost \in Nat /\ told \in Nat /\ hole \in Nat
    /\ shared \in Rings /\ backend \in Backends /\ frame \in Frames

\* The ring ends with the last sample recorded, and has no seam.
Ends(r, last) ==
    /\ Len(r) <= last
    /\ \A k \in 1..Len(r) : r[k] = last - Len(r) + k - 1

\* What was thrown away is followed by what made it so.
CutIsFollowed == shared.dropped > 0 => Len(shared.ring) > 0

\* pending is older than the ring, and in order; after the last hole the
\* clock counts it through.
Older(p, limit) == \A k \in 1..Len(p) : p[k] < limit
Counted(p, consumed, after) ==
    \A k \in 1..Len(p) : p[k] >= after => p[k] = consumed + k - 1
Ordered(p) == \A i, j \in 1..Len(p) : i < j => p[i] < p[j]

IInv ==
    /\ Types /\ ClockIsKept /\ LossIsTold /\ Ends(shared.ring, made) /\ CutIsFollowed
    /\ hole <= made - Len(shared.ring)
    /\ Older(backend.pending, made - Len(shared.ring))
    /\ Ordered(backend.pending)
    /\ Counted(backend.pending, backend.consumed, hole)
    /\ StampedAfterHole /\ StampsAdvance
    /\ frame.t + Len(frame.data) <= backend.consumed

\* The backend with the ring in it: every conjunct but the ring's.
Holds(b, h) ==
    /\ b \in Backends
    /\ b.consumed + Len(b.pending) = made
    /\ told + b.dropped = lost
    /\ Older(b.pending, made)
    /\ Ordered(b.pending)
    /\ Counted(b.pending, b.consumed, h)
    /\ frame.t + Len(frame.data) <= b.consumed

-----------------------------------------------------------------------------
(* Sequences of sample numbers.                                            *)

\* What is left of a sequence without its first n.
LEMMA WithoutFacts ==
    ASSUME NEW s \in Seq(Nat), NEW n \in Nat, n <= Len(s)
    PROVE  /\ Without(s, n) \in Seq(Nat) /\ Len(Without(s, n)) = Len(s) - n
           /\ \A k \in 1..Len(s) - n : Without(s, n)[k] = s[n + k]
<1>1. Len(s) \in Nat /\ \A i \in n + 1..Len(s) : s[i] \in Nat
  BY LenProperties, ElementOfSeq
<1> DEFINE len == Len(s)
           first == n + 1
           rest == SubSeq(s, first, len)
<1>2. len \in Int /\ first \in Int /\ \A i \in first..len : s[i] \in Nat
  BY <1>1
<1>3. len \in Nat /\ n <= len /\ first = n + 1
  BY <1>1
<1>4. rest = Without(s, n)
  BY DEF Without
<1> HIDE DEF len, first
<1>5. /\ rest \in Seq(Nat)
      /\ Len(rest) = IF first <= len THEN len - first + 1 ELSE 0
      /\ \A i \in 1..len - first + 1 : rest[i] = s[first + i - 1]
  BY <1>2, SubSeqProperties
<1> HIDE DEF rest
<1>6. Len(rest) = len - n
  BY <1>3, <1>5
<1>7. \A i \in 1..len - n : rest[i] = s[n + i]
  <2> TAKE i \in 1..len - n
  <2>1. i \in 1..len - first + 1 /\ first + i - 1 = n + i
    BY <1>3
  <2> QED BY <2>1, <1>5
<1> QED BY <1>4, <1>5, <1>6, <1>7 DEF len

\* Cutting the oldest keeps order and count.
LEMMA CutKeeps ==
    ASSUME NEW p \in Seq(Nat), NEW n \in Nat, n <= Len(p), NEW limit \in Nat,
           NEW consumed \in Nat, NEW after \in Nat,
           Older(p, limit), Ordered(p), Counted(p, consumed, after)
    PROVE  /\ Older(Without(p, n), limit) /\ Ordered(Without(p, n))
           /\ Counted(Without(p, n), consumed + n, after)
<1> DEFINE q == Without(p, n)
<1>1. /\ Len(q) = Len(p) - n /\ Len(p) \in Nat
      /\ \A k \in 1..Len(q) : n + k \in 1..Len(p) /\ q[k] = p[n + k]
  BY WithoutFacts
<1> HIDE DEF q
<1>2. Older(q, limit)
  <2> SUFFICES ASSUME NEW k \in 1..Len(q) PROVE q[k] < limit
    BY DEF Older
  <2> QED BY <1>1 DEF Older
<1>4. Ordered(q)
  <2> SUFFICES ASSUME NEW i \in 1..Len(q), NEW j \in 1..Len(q), i < j PROVE q[i] < q[j]
    BY DEF Ordered
  <2>1. n + i \in 1..Len(p) /\ n + j \in 1..Len(p) /\ q[i] = p[n + i] /\ q[j] = p[n + j]
    BY <1>1
  <2>2. n + i < n + j
    OBVIOUS
  <2> QED BY <2>1, <2>2 DEF Ordered
<1>3. Counted(q, consumed + n, after)
  <2> SUFFICES ASSUME NEW k \in 1..Len(q), q[k] >= after PROVE q[k] = consumed + n + k - 1
    BY DEF Counted
  <2>1. p[n + k] = consumed + (n + k) - 1
    BY <1>1 DEF Counted
  <2> QED BY <1>1, <2>1
<1> QED BY <1>2, <1>3, <1>4 DEF q

\* The ring's end is the end of a ring cut shorter, and of one grown by n.
LEMMA CutEnds ==
    ASSUME NEW r \in Seq(Nat), NEW last \in Nat, Ends(r, last), NEW n \in Nat, n <= Len(r)
    PROVE  Ends(Without(r, n), last)
<1>1. /\ Len(Without(r, n)) = Len(r) - n /\ Len(r) \in Nat
      /\ \A k \in 1..Len(r) - n : n + k \in 1..Len(r) /\ Without(r, n)[k] = r[n + k]
  BY WithoutFacts
<1> QED BY <1>1 DEF Ends

\* Samples made in order lengthen a run that ends with the last one made.
LEMMA GrownEnds ==
    ASSUME NEW r \in Seq(Nat), NEW last \in Nat, Ends(r, last), NEW n \in Nat
    PROVE  LET new == [k \in 1..n |-> last + k - 1]
           IN /\ r \o new \in Seq(Nat) /\ Len(r \o new) = Len(r) + n /\ Ends(r \o new, last + n)
<1> DEFINE new == [k \in 1..n |-> last + k - 1]
<1>1. new \in Seq(Nat) /\ Len(new) = n /\ \A k \in 1..n : new[k] = last + k - 1
  OBVIOUS
<1> HIDE DEF new
<1>2. /\ r \o new \in Seq(Nat) /\ Len(r \o new) = Len(r) + n
      /\ \A k \in 1..Len(r) + n :
            (r \o new)[k] = IF k <= Len(r) THEN r[k] ELSE new[k - Len(r)]
  BY <1>1, ConcatProperties
<1> DEFINE all == r \o new
<1>3. Len(all) = Len(r) + n /\ \A k \in 1..Len(r) + n :
            all[k] = IF k <= Len(r) THEN r[k] ELSE new[k - Len(r)]
  BY <1>2
<1> HIDE DEF all
<1>4. Len(r) \in Nat /\ Len(r) <= last /\ \A k \in 1..Len(r) : r[k] = last - Len(r) + k - 1
  BY LenProperties DEF Ends
<1>5. ASSUME NEW k \in 1..Len(r) + n PROVE all[k] = last - Len(r) + k - 1
  <2>1. CASE k <= Len(r)
    BY <2>1, <1>3, <1>4
  <2>2. CASE ~(k <= Len(r))
    <3>1. k - Len(r) \in 1..n
      BY <2>2, <1>4
    <3>2. all[k] = last + (k - Len(r)) - 1
      BY <3>1, <2>2, <1>1, <1>3
    <3> QED BY <3>2, <1>4
  <2> QED BY <2>1, <2>2
<1>6. Ends(all, last + n)
  BY <1>3, <1>4, <1>5 DEF Ends
<1> QED BY <1>2, <1>6 DEF new, all

\* pending and the ring behind it, with d thrown away between them.
LEMMA JoinHolds ==
    ASSUME NEW p \in Seq(Nat), NEW r \in Seq(Nat), NEW last \in Nat, Ends(r, last),
           NEW consumed \in Nat, NEW d \in Nat, NEW after \in Nat, NEW hereafter,
           consumed + Len(p) + d + Len(r) = last,
           Older(p, last - Len(r)), Ordered(p), Counted(p, consumed, after),
           hereafter = IF d > 0 THEN last - Len(r) ELSE after
    PROVE  /\ p \o r \in Seq(Nat) /\ Len(p \o r) = Len(p) + Len(r)
           /\ Older(p \o r, last) /\ Ordered(p \o r)
           /\ Counted(p \o r, consumed + d, hereafter)
<1> DEFINE all == p \o r
           n == Len(p)
           m == Len(r)
<1>1. /\ all \in Seq(Nat) /\ Len(all) = n + m /\ n \in Nat /\ m \in Nat
      /\ \A k \in 1..n + m : all[k] = IF k <= n THEN p[k] ELSE r[k - n]
  BY ConcatProperties, LenProperties
<1>2. \A k \in 1..n : p[k] \in Nat /\ p[k] < last - m
  BY ElementOfSeq DEF Older
<1>3. \A k \in 1..m : r[k] = last - m + k - 1
  BY DEF Ends
<1>4. /\ \A i, j \in 1..n : i < j => p[i] < p[j]
      /\ \A k \in 1..n : p[k] >= after => p[k] = consumed + k - 1
      /\ consumed + n + d + m = last /\ hereafter = IF d > 0 THEN last - m ELSE after
  BY DEF Ordered, Counted
<1> HIDE DEF all, n, m
<1> n \in Nat /\ m \in Nat
  BY <1>1
<1>5. \A k \in 1..n : all[k] = p[k]
  BY <1>1
<1>6. \A k \in n + 1..n + m : all[k] = last - m + (k - n) - 1
  <2> TAKE k \in n + 1..n + m
  <2>1. k - n \in 1..m /\ k \in 1..n + m /\ ~(k <= n)
    OBVIOUS
  <2>2. all[k] = r[k - n]
    BY <2>1, <1>1
  <2> QED BY <2>1, <2>2, <1>3
<1> DEFINE top == last - m
<1>7. top = consumed + n + d /\ top \in Nat /\ last = top + m
  BY <1>4
<1>8. \A k \in 1..n + m : k \in 1..n \/ k \in n + 1..n + m
  OBVIOUS
<1>9. \A k \in 1..n : all[k] \in Nat /\ all[k] < top
  BY <1>2, <1>5
<1>10. \A k \in n + 1..n + m : all[k] = consumed + d + k - 1 /\ all[k] >= top
  <2> TAKE k \in n + 1..n + m
  <2>1. all[k] = last - m + (k - n) - 1 /\ k \in Nat /\ k >= n + 1
    BY <1>6
  <2> QED BY <2>1, <1>7
<1>11. ASSUME NEW k \in 1..n + m PROVE all[k] < last
  <2>1. CASE k \in 1..n
    BY <2>1, <1>7, <1>9
  <2>2. CASE k \in n + 1..n + m
    <3>1. all[k] = consumed + d + k - 1 /\ k <= n + m
      BY <2>2, <1>10
    <3> QED BY <3>1, <1>7
  <2> QED BY <2>1, <2>2, <1>8
<1>12. ASSUME NEW i \in 1..n + m, NEW j \in 1..n + m, i < j PROVE all[i] < all[j]
  <2>1. CASE i \in 1..n /\ j \in 1..n
    BY <2>1, <1>4, <1>5, <1>12
  <2>2. CASE i \in 1..n /\ j \in n + 1..n + m
    <3>1. all[i] \in Nat /\ all[i] < top /\ all[j] >= top
      BY <2>2, <1>9, <1>10
    <3>2. all[j] = consumed + d + j - 1
      BY <2>2, <1>10
    <3> QED BY <3>1, <3>2, <1>7
  <2>3. CASE i \in n + 1..n + m
    <3>1. j \in n + 1..n + m
      BY <2>3, <1>12
    <3>2. all[i] = consumed + d + i - 1 /\ all[j] = consumed + d + j - 1
      BY <2>3, <3>1, <1>10
    <3> QED BY <3>2, <1>12
  <2> QED BY <2>1, <2>2, <2>3, <1>8
<1>13. ASSUME NEW k \in 1..n + m, all[k] >= hereafter PROVE all[k] = consumed + d + k - 1
  <2>1. CASE k \in n + 1..n + m
    BY <2>1, <1>10
  <2>2. CASE k \in 1..n /\ d = 0
    <3>1. all[k] = p[k] /\ p[k] >= after
      BY <2>2, <1>4, <1>5, <1>13
    <3> QED BY <3>1, <2>2, <1>4
  <2>3. CASE k \in 1..n /\ d > 0
    <3>1. hereafter = top /\ all[k] < top /\ all[k] \in Nat
      BY <2>3, <1>4, <1>9
    <3> QED BY <3>1, <1>7, <1>13
  <2> QED BY <2>1, <2>2, <2>3, <1>8
<1>14. Len(all) = n + m
  BY <1>1
<1>15. Older(all, last) /\ Ordered(all) /\ Counted(all, consumed + d, hereafter)
  BY <1>11, <1>12, <1>13, <1>14 DEF Older, Ordered, Counted
<1> QED BY <1>1, <1>15 DEF all, n, m

-----------------------------------------------------------------------------
\* The invariant holds before the first callback.
LEMMA InitHolds == ASSUME AudioAssumption PROVE Init => IInv
<1> SUFFICES ASSUME Init PROVE IInv
  OBVIOUS
<1>1. <<>> \in Seq(Nat) /\ Len(<<>>) = 0
  BY EmptySeq
<1>2. PICK cfg \in Configs :
        backend = [pending |-> <<>>, consumed |-> 0, dropped |-> 0, cfg |-> cfg]
  BY DEF Init
<1>3. backend \in Backends /\ backend.pending = <<>> /\ backend.consumed = 0 /\ backend.dropped = 0
  BY <1>1, <1>2 DEF Backends
<1>4. shared \in Rings /\ shared.ring = <<>> /\ shared.dropped = 0 /\ made = 0 /\ hole = 0
  BY <1>1 DEF Init, Rings
<1>5. frame \in Frames /\ frame.data = <<>> /\ frame.t = 0 /\ frame.after = 0
  <2>1. 0 \in Nat /\ FALSE \in BOOLEAN
    OBVIOUS
  <2> QED BY <1>1, <2>1 DEF Init, NoFrame, Frames
<1>6. lost = 0 /\ told = 0
  BY DEF Init
<1> QED
  BY <1>1, <1>3, <1>4, <1>5, <1>6 DEF IInv, Types, ClockIsKept, LossIsTold, Ends,
     CutIsFollowed, Older, Ordered, Counted, StampedAfterHole, StampsAdvance

-----------------------------------------------------------------------------
(* The audio thread.                                                       *)

\* A callback, whether or not it overruns the ring, keeps the invariant.
LEMMA PushHolds ==
    ASSUME AudioAssumption, IInv, NEW n \in Callbacks, Push(n)
    PROVE  IInv'
<1> DEFINE cut == Len(shared.ring) - MaxBuffered \div 2
           s == IF Cuts THEN Overrun(shared) ELSE shared
           r == shared.ring
<1>a. n \in Nat /\ n > 0 /\ MaxBuffered \in Nat
  BY DEF AudioAssumption
<1>b. Types /\ shared \in Rings /\ r \in Seq(Nat) /\ Len(r) \in Nat /\ shared.dropped \in Nat
  BY LenProperties DEF IInv, Types, Rings
<1>c. made \in Nat /\ lost \in Nat /\ Ends(r, made)
  BY DEF IInv, Types
<1>1. /\ s \in Rings /\ Ends(s.ring, made) /\ Len(s.ring) \in Nat /\ Len(s.ring) <= Len(r)
      /\ s.dropped \in Nat /\ s.dropped >= shared.dropped
      /\ s.dropped + Len(s.ring) = shared.dropped + Len(r)
      /\ lost' = lost + (s.dropped - shared.dropped)
  <2>1. CASE ~Cuts
    <3>1. s = shared /\ lost' = lost
      BY <2>1 DEF Push
    <3> HIDE DEF s
    <3> QED BY <3>1, <1>b, <1>c
  <2>2. CASE Cuts
    <3>1. cut \in Nat /\ cut <= Len(r)
      <4> DEFINE len == Len(r)
      <4>1. len \in Nat /\ MaxBuffered \in Nat /\ len > MaxBuffered
        BY <2>2, <1>a, <1>b DEF Cuts
      <4> HIDE DEF len
      <4>2. MaxBuffered \div 2 \in Nat /\ MaxBuffered \div 2 <= MaxBuffered
        BY <4>1
      <4>3. len - MaxBuffered \div 2 \in Nat /\ len - MaxBuffered \div 2 <= len
        BY <4>1, <4>2
      <4> QED BY <4>3 DEF len
    <3>2. s = [ring |-> Without(r, cut), dropped |-> shared.dropped + cut]
      <4>1. s = [shared EXCEPT !.ring = Without(shared.ring, Len(shared.ring) - MaxBuffered \div 2),
                               !.dropped = shared.dropped + Len(shared.ring) - MaxBuffered \div 2]
        BY <2>2 DEF Overrun
      <4>2. shared.dropped + Len(shared.ring) - MaxBuffered \div 2 = shared.dropped + cut
        BY <3>1, <1>a, <1>b
      <4> HIDE DEF s, cut
      <4>3. cut = Len(shared.ring) - MaxBuffered \div 2
        BY DEF cut
      <4> QED BY <4>1, <4>2, <4>3, <1>b DEF Rings
    <3>3. lost' = lost + cut
      <4>1. lost' = lost + Len(shared.ring) - MaxBuffered \div 2
        BY <2>2 DEF Push
      <4>2. lost + Len(shared.ring) - MaxBuffered \div 2 = lost + cut
        BY <3>1, <1>a, <1>b, <1>c
      <4> QED BY <4>1, <4>2
    <3>4. Without(r, cut) \in Seq(Nat) /\ Len(Without(r, cut)) = Len(r) - cut
      BY <3>1, <1>b, WithoutFacts
    <3>5. Ends(Without(r, cut), made)
      BY <3>1, <1>b, <1>c, CutEnds
    <3> HIDE DEF cut, s, r
    <3>6. s.ring = Without(r, cut) /\ s.dropped = shared.dropped + cut
      BY <3>2
    <3>7. s \in Rings
      BY <3>1, <3>2, <3>4, <1>b DEF Rings
    <3> DEFINE a == Len(r)
               b == Len(s.ring)
               d0 == shared.dropped
               d1 == s.dropped
    <3>8. a \in Nat /\ d0 \in Nat /\ b = a - cut /\ d1 = d0 + cut
      BY <3>4, <3>6, <1>b
    <3> HIDE DEF a, b, d0, d1
    <3>9. /\ b \in Nat /\ b <= a /\ d1 \in Nat /\ d1 >= d0 /\ d1 + b = d0 + a
          /\ lost' = lost + (d1 - d0)
      BY <3>1, <3>3, <3>8, <1>c DEF a
    <3>10. Ends(s.ring, made)
      BY <3>5, <3>6
    <3> QED BY <3>7, <3>9, <3>10 DEF a, b, d0, d1
  <2> QED BY <2>1, <2>2
<1> HIDE DEF s
<1> DEFINE grown == s.ring \o [k \in 1..n |-> made + k - 1]
<1>2. shared' = [s EXCEPT !.ring = grown] /\ made' = made + n
      /\ UNCHANGED <<backend, frame, told, hole>>
  BY DEF Push, s
<1>3. s.ring \in Seq(Nat)
  BY <1>1 DEF Rings
<1>4. grown \in Seq(Nat) /\ Len(grown) = Len(s.ring) + n /\ Ends(grown, made + n)
  BY <1>1, <1>3, <1>a, <1>c, GrownEnds
<1> HIDE DEF grown
<1>5. shared'.ring = grown /\ shared'.dropped = s.dropped /\ shared' \in Rings
  BY <1>1, <1>2, <1>4 DEF Rings
<1>6. Types'
  BY <1>1, <1>2, <1>5, <1>a, <1>b, <1>c DEF Types
<1>7. Ends(shared.ring, made)' /\ CutIsFollowed'
  <2>1. Len(grown) > 0
    BY <1>1, <1>4, <1>a
  <2> QED BY <2>1, <1>2, <1>4, <1>5 DEF CutIsFollowed
<1> DEFINE top == made - Len(r)
           lim == made + n - Len(grown)
<1>p. top \in Int /\ lim \in Int /\ top <= lim
  <2> DEFINE a == Len(r)
             b == Len(s.ring)
             g == Len(grown)
  <2>1. a \in Nat /\ b \in Nat /\ b <= a /\ g = b + n
    BY <1>1, <1>4, <1>b
  <2> HIDE DEF a, b, g
  <2>2. made - a \in Int /\ made + n - g \in Int /\ made - a <= made + n - g
    BY <2>1, <1>a, <1>c
  <2> QED BY <2>2 DEF a, g
<1>8. /\ backend.consumed \in Nat /\ backend.dropped \in Nat /\ backend.pending \in Seq(Nat)
      /\ Len(backend.pending) \in Nat /\ told \in Nat /\ hole \in Nat
  BY <1>b, LenProperties DEF Types, Backends
<1>9. ClockIsKept'
  <2>1. backend.consumed + Len(backend.pending) + shared.dropped + Len(r) = made
    BY DEF IInv, ClockIsKept
  <2>2. backend.consumed + Len(backend.pending) + s.dropped + Len(grown) = made + n
    <3> DEFINE co == backend.consumed
               lp == Len(backend.pending)
               d0 == shared.dropped
               d1 == s.dropped
               a == Len(r)
               b == Len(s.ring)
               g == Len(grown)
    <3>1. /\ co \in Nat /\ lp \in Nat /\ d0 \in Nat /\ d1 \in Nat /\ a \in Nat /\ b \in Nat
          /\ co + lp + d0 + a = made /\ d1 + b = d0 + a /\ g = b + n
      BY <2>1, <1>1, <1>4, <1>8, <1>b
    <3> HIDE DEF co, lp, d0, d1, a, b, g
    <3>2. co + lp + d1 + g = made + n
      BY <3>1, <1>a, <1>c
    <3> QED BY <3>2 DEF co, lp, d1, g
  <2> QED BY <2>2, <1>2, <1>5 DEF ClockIsKept
<1>10. LossIsTold'
  <2>1. told + backend.dropped + shared.dropped = lost
    BY DEF IInv, LossIsTold
  <2>2. told + backend.dropped + s.dropped = lost'
    BY <2>1, <1>1, <1>8, <1>b, <1>c
  <2> QED BY <2>2, <1>2, <1>5 DEF LossIsTold
<1>11. (made - Len(shared.ring))' = lim
  <2>1. made' = made + n /\ shared'.ring = grown
    BY <1>2, <1>5
  <2> HIDE DEF r, cut, top
  <2>2. Len(shared'.ring) = Len(grown)
    BY <2>1
  <2>3. made' - Len(shared'.ring) = made' - Len(grown)
    BY <2>2
  <2>4. made' - Len(grown) = made + n - Len(grown)
    <3>1. Len(grown) \in Nat /\ made' = made + n
      BY <2>1, <1>1, <1>4, <1>a
    <3> QED BY <3>1, <1>a, <1>c
  <2> QED BY <2>3, <2>4 DEF lim
<1>12. hole <= top /\ Older(backend.pending, top)
  BY DEF IInv
<1> HIDE DEF top, lim
<1>13. hole' <= lim
  BY <1>2, <1>8, <1>12, <1>p
<1>14. Older(backend.pending, lim)
  <2> SUFFICES ASSUME NEW k \in 1..Len(backend.pending) PROVE backend.pending[k] < lim
    BY DEF Older
  <2>1. backend.pending[k] \in Nat /\ backend.pending[k] < top
    BY <1>8, <1>12, ElementOfSeq DEF Older
  <2> QED BY <2>1, <1>p
<1>15. /\ hole' <= (made - Len(shared.ring))'
       /\ Older(backend.pending, made - Len(shared.ring))'
  BY <1>2, <1>11, <1>13, <1>14
<1> QED
  BY <1>2, <1>6, <1>7, <1>9, <1>10, <1>15
     DEF IInv, Ordered, Counted, StampedAfterHole, StampsAdvance

-----------------------------------------------------------------------------
(* The acquisition thread.                                                 *)

\* What is drained holds the samples the ring held, stamped by the same clock.
LEMMA DrainHolds ==
    ASSUME IInv, DrainRing
    PROVE  Holds(Drained, hole') /\ hole <= hole' /\ hole' \in Nat /\ hole' <= made
<1> DEFINE p == backend.pending
           r == shared.ring
           d == shared.dropped
           c == backend.consumed
<1>1. /\ p \in Seq(Nat) /\ r \in Seq(Nat) /\ d \in Nat /\ c \in Nat /\ backend.dropped \in Nat
      /\ Len(p) \in Nat /\ Len(r) \in Nat /\ made \in Nat /\ hole \in Nat
      /\ backend.cfg \in Configs /\ told \in Nat
  BY LenProperties DEF IInv, Types, Backends, Rings
<1>2. /\ Ends(r, made) /\ Older(p, made - Len(r)) /\ Ordered(p) /\ Counted(p, c, hole)
      /\ c + Len(p) + d + Len(r) = made /\ told + backend.dropped + d = lost
      /\ hole <= made - Len(r) /\ frame.t + Len(frame.data) <= c
      /\ d > 0 => Len(r) > 0
  BY DEF IInv, ClockIsKept, LossIsTold, CutIsFollowed
<1>3. hole' = IF d > 0 THEN made - Len(r) ELSE hole
  <2>1. ASSUME d > 0 PROVE Head(r) = made - Len(r)
    <3>1. Len(r) > 0 /\ Head(r) = r[1]
      BY <2>1, <1>1, <1>2
    <3>2. Ends(r, made) /\ 1 \in 1..Len(r)
      BY <3>1, <1>1, <1>2
    <3>3. r[1] = made - Len(r) + 1 - 1
      BY <3>2 DEF Ends
    <3>4. made - Len(r) + 1 - 1 = made - Len(r)
      BY <1>1
    <3> QED BY <3>1, <3>3, <3>4
  <2> QED BY <2>1 DEF DrainRing
<1>4. hole <= hole' /\ hole' \in Nat /\ hole' <= made
  BY <1>1, <1>2, <1>3 DEF Ends
<1>5. /\ p \o r \in Seq(Nat) /\ Len(p \o r) = Len(p) + Len(r)
      /\ Older(p \o r, made) /\ Ordered(p \o r) /\ Counted(p \o r, c + d, hole')
  <2> HIDE DEF p, r, d, c
  <2> QED BY <1>1, <1>2, <1>3, <1>4, JoinHolds
<1> DEFINE all == p \o r
<1>6. Drained = [pending |-> all, consumed |-> c + d, dropped |-> backend.dropped + d,
                 cfg |-> backend.cfg]
  <2>1. backend \in Backends
    BY DEF IInv, Types
  <2>2. Drained = [[backend EXCEPT !.pending = all] EXCEPT
                    !.consumed = [backend EXCEPT !.pending = all].consumed + d,
                    !.dropped = [backend EXCEPT !.pending = all].dropped + d]
    BY DEF Drained, Lose
  <2> HIDE DEF all, d
  <2>3. [backend EXCEPT !.pending = all]
           = [pending |-> all, consumed |-> backend.consumed, dropped |-> backend.dropped,
              cfg |-> backend.cfg]
    BY <2>1 DEF Backends
  <2> QED BY <2>2, <2>3
<1>7. frame.t + Len(frame.data) <= c + d
  <2>1. frame.t \in Nat /\ Len(frame.data) \in Nat
    BY LenProperties DEF IInv, Types, Frames
  <2>2. frame.t + Len(frame.data) <= c
    BY <1>2
  <2> HIDE DEF c, d
  <2> QED BY <2>1, <2>2, <1>1
<1> HIDE DEF p, r, d, c, all
<1>8. /\ Drained \in Backends /\ Drained.pending = all /\ Drained.consumed = c + d
      /\ Drained.dropped = backend.dropped + d
  BY <1>1, <1>5, <1>6 DEF Backends, all
<1>9. c + d + Len(all) = made /\ told + (backend.dropped + d) = lost
  BY <1>1, <1>2, <1>5 DEF all
<1>10. Older(all, made) /\ Ordered(all) /\ Counted(all, c + d, hole')
  BY <1>5 DEF all
<1> QED BY <1>4, <1>7, <1>8, <1>9, <1>10 DEF Holds

\* What a poll leaves of the backend's facts is all that has to be shown of it.
LEMMA PolledHolds ==
    ASSUME IInv, DrainRing, made' = made, hole' \in Nat, hole' <= made,
           told' \in Nat, lost' \in Nat, frame' \in Frames,
           Holds(backend, hole)', StampedAfterHole', StampsAdvance'
    PROVE  IInv'
<1>1. shared' = [ring |-> <<>>, dropped |-> 0] /\ shared'.ring = <<>> /\ shared'.dropped = 0
  BY DEF DrainRing
<1>2. <<>> \in Seq(Nat) /\ Len(<<>>) = 0 /\ made \in Nat
  BY EmptySeq DEF IInv, Types
<1>3. shared' \in Rings
  BY <1>1, <1>2 DEF Rings
<1>4. Types'
  BY <1>2, <1>3 DEF Types, Holds
<1>5. /\ (backend.consumed + Len(backend.pending))' = made /\ (told + backend.dropped)' = lost'
      /\ backend'.pending \in Seq(Nat) /\ backend'.consumed \in Nat /\ backend'.dropped \in Nat
      /\ Older(backend.pending, made)' /\ Ordered(backend.pending)'
      /\ Counted(backend.pending, backend.consumed, hole)'
      /\ (frame.t + Len(frame.data) <= backend.consumed)'
  BY DEF Holds, Backends
<1>6. ClockIsKept'
  BY <1>1, <1>2, <1>5 DEF ClockIsKept
<1>7. LossIsTold'
  <2>1. (told + backend.dropped + shared.dropped)' = lost' + 0
    BY <1>1, <1>5
  <2> QED BY <2>1 DEF LossIsTold
<1>8. Ends(shared.ring, made)' /\ CutIsFollowed'
  BY <1>1, <1>2 DEF Ends, CutIsFollowed
<1>9. (made - Len(shared.ring))' = made'
  BY <1>1, <1>2
<1>10. (hole <= made - Len(shared.ring))' /\ Older(backend.pending, made - Len(shared.ring))'
  BY <1>5, <1>9
<1> QED
  BY <1>4, <1>5, <1>6, <1>7, <1>8, <1>10 DEF IInv

\* The last frame's stamp stays true while only the hole moves on.
LEMMA FrameStays ==
    ASSUME IInv, frame' = frame, hole' \in Nat, hole <= hole'
    PROVE  StampedAfterHole' /\ StampsAdvance'
<1>1. frame \in Frames /\ hole \in Nat /\ StampedAfterHole /\ StampsAdvance
  BY DEF IInv, Types
<1>2. ASSUME frame.data # <<>> PROVE frame.data[1] \in Nat
  <2>1. frame.data \in Seq(Nat) /\ 1 \in 1..Len(frame.data)
    BY <1>1, <1>2, EmptySeq DEF Frames
  <2> QED BY <2>1, ElementOfSeq
<1>3. frame.data # <<>> /\ frame.data[1] >= hole' => frame.data[1] >= hole
  BY <1>1, <1>2
<1> QED BY <1>1, <1>3 DEF StampedAfterHole, StampsAdvance

\* A frame taken from what is pending is stamped behind the last hole.
LEMMA TakenHolds ==
    ASSUME AudioAssumption, IInv, NEW b, Holds(b, hole'), NEW from \in Nat,
           from + Chunk <= Len(b.pending), Taken(b, from), lost' = lost, made' = made,
           hole' \in Nat
    PROVE  /\ told' \in Nat /\ lost' \in Nat /\ frame' \in Frames
           /\ Holds(backend, hole)' /\ StampedAfterHole' /\ StampsAdvance'
<1> DEFINE p == b.pending
           m == from + Chunk
           data == SubSeq(p, from + 1, m)
           rest == Without(p, m)
           c == b.consumed
<1>1. /\ b \in Backends /\ p \in Seq(Nat) /\ c \in Nat /\ b.dropped \in Nat /\ b.cfg \in Configs
      /\ Len(p) \in Nat /\ Chunk \in Nat /\ Chunk > 0 /\ m \in Nat /\ m <= Len(p)
      /\ told \in Nat /\ lost \in Nat /\ made \in Nat
  BY LenProperties DEF Holds, Backends, AudioAssumption, IInv, Types
<1>2. /\ c + Len(p) = made /\ told + b.dropped = lost
      /\ Older(p, made) /\ Ordered(p) /\ Counted(p, c, hole')
      /\ frame.t + Len(frame.data) <= c
  BY DEF Holds
<1>3. b.cfg.want \in Nat /\ b.cfg.normal \in BOOLEAN
  <2>1. b.cfg \in [normal : BOOLEAN, want : 0..Chunk - 1, source : {0, 1}]
    BY <1>1 DEF AudioAssumption
  <2> QED BY <2>1
<1>4. frame.t \in Nat /\ Len(frame.data) \in Nat
  BY LenProperties DEF IInv, Types, Frames
<1>5. /\ frame' = [t |-> c + from, data |-> data, want |-> b.cfg.want,
                   triggered |-> b.cfg.normal, before |-> b.dropped,
                   after |-> frame.t + Len(frame.data)]
      /\ told' = told + b.dropped
      /\ backend' = [b EXCEPT !.pending = rest, !.consumed = c + from + Chunk, !.dropped = 0]
  BY DEF Taken
<1>6. data \in Seq(Nat) /\ Len(data) = Chunk /\ \A k \in 1..Chunk : data[k] = p[from + k]
  <2> DEFINE first == from + 1
             got == SubSeq(p, first, m)
  <2>1. \A i \in first..m : p[i] \in Nat
    <3> SUFFICES ASSUME NEW i \in first..m PROVE p[i] \in Nat
      OBVIOUS
    <3>1. i \in 1..Len(p)
      BY <1>1
    <3> QED BY <3>1, <1>1, ElementOfSeq
  <2>2. first \in Int /\ m \in Int /\ first <= m /\ m - first + 1 = Chunk
    BY <1>1
  <2>3. \A k \in 1..Chunk : first + k - 1 = from + k
    BY <1>1
  <2> HIDE DEF first, m, p
  <2>4. /\ got \in Seq(Nat)
        /\ Len(got) = IF first <= m THEN m - first + 1 ELSE 0
        /\ \A i \in 1..m - first + 1 : got[i] = p[first + i - 1]
    BY <2>1, <2>2, SubSeqProperties
  <2>5. got = data
    BY DEF first
  <2> HIDE DEF got, data
  <2> QED BY <2>2, <2>3, <2>4, <2>5
<1>7. /\ rest \in Seq(Nat) /\ Len(rest) = Len(p) - m
      /\ Older(rest, made) /\ Ordered(rest) /\ Counted(rest, c + m, hole')
  <2> HIDE DEF p, m, c
  <2> QED BY <1>1, <1>2, WithoutFacts, CutKeeps
<1>8. c + m = c + from + Chunk /\ c + m \in Nat
  BY <1>1
<1> HIDE DEF p, m, data, rest, c
<1>9. /\ backend' \in Backends /\ backend'.pending = rest /\ backend'.consumed = c + m
      /\ backend'.dropped = 0
  BY <1>1, <1>5, <1>7, <1>8 DEF Backends
<1>10. told' \in Nat /\ lost' \in Nat /\ told' = lost' /\ told' + 0 = lost'
  BY <1>1, <1>2, <1>5
<1>11. c + from \in Nat /\ frame.t + Len(frame.data) \in Nat /\ c + m = c + from + Chunk
  BY <1>1, <1>4, <1>8
<1>12. frame' \in Frames
  BY <1>1, <1>3, <1>5, <1>6, <1>11 DEF Frames
<1>13. frame'.t = c + from /\ frame'.data = data /\ frame'.after = frame.t + Len(frame.data)
  BY <1>5
<1>14. c + m + Len(rest) = made
  <2> DEFINE lp == Len(p)
             lq == Len(rest)
  <2>1. lp \in Nat /\ lq = lp - m /\ c + lp = made /\ c \in Nat /\ m \in Nat
    BY <1>1, <1>2, <1>7
  <2> HIDE DEF lp, lq
  <2>2. c + m + lq = made
    BY <2>1
  <2> QED BY <2>2 DEF lq
<1>15. Holds(backend, hole)'
  <2>1. (backend.consumed + Len(backend.pending))' = made'
    BY <1>9, <1>14
  <2>2. (told + backend.dropped)' = lost'
    BY <1>9, <1>10
  <2>3. Older(backend.pending, made)' /\ Ordered(backend.pending)'
        /\ Counted(backend.pending, backend.consumed, hole)'
    BY <1>7, <1>9
  <2>4. (frame.t + Len(frame.data) <= backend.consumed)'
    BY <1>6, <1>9, <1>11, <1>13, <1>1
  <2> QED BY <1>9, <2>1, <2>2, <2>3, <2>4 DEF Holds
<1>16. StampsAdvance'
  BY <1>1, <1>2, <1>4, <1>13 DEF StampsAdvance
<1>17. StampedAfterHole'
  <2> SUFFICES ASSUME data[1] >= hole', NEW k \in 1..Chunk PROVE data[k] = c + from + k - 1
    BY <1>13 DEF StampedAfterHole
  <2>1. /\ 1 \in 1..Chunk /\ from + 1 \in 1..Len(p) /\ from + k \in 1..Len(p)
    BY <1>1 DEF m
  <2>2. data[1] = p[from + 1] /\ data[k] = p[from + k]
    BY <2>1, <1>6
  <2>3. p[from + 1] \in Nat /\ p[from + k] \in Nat
    BY <2>1, <1>1, ElementOfSeq
  <2>4. k = 1 \/ p[from + 1] < p[from + k]
    <3>1. k = 1 \/ from + 1 < from + k
      OBVIOUS
    <3> QED BY <3>1, <2>1, <1>2 DEF Ordered
  <2>5. p[from + k] >= hole'
    BY <2>2, <2>3, <2>4
  <2>6. p[from + k] = c + (from + k) - 1
    BY <2>1, <2>5, <1>2 DEF Counted
  <2>7. c + (from + k) - 1 = c + from + k - 1
    BY <1>1
  <2> QED BY <2>2, <2>6, <2>7
<1> QED BY <1>10, <1>12, <1>15, <1>16, <1>17

\* Changing what is pending changes nothing else of the backend.
LEMMA OtherPending ==
    ASSUME NEW b \in Backends, NEW q
    PROVE  [b EXCEPT !.pending = q] = [pending |-> q, consumed |-> b.consumed,
                                       dropped |-> b.dropped, cfg |-> b.cfg]
BY DEF Backends

\* Dropping what piled up counts it as lost.
LEMMA StarvedHolds ==
    ASSUME AudioAssumption, IInv, NEW b, Holds(b, hole'), Len(b.pending) > 4 * Chunk, Starved(b),
           told' = told, frame' = frame, made' = made, hole' \in Nat
    PROVE  lost' \in Nat /\ Holds(backend, hole)'
<1> DEFINE p == b.pending
           cut == Len(p) - 2 * Chunk
           c == b.consumed
           rest == Without(p, cut)
<1>1. /\ b \in Backends /\ p \in Seq(Nat) /\ c \in Nat /\ b.dropped \in Nat /\ b.cfg \in Configs
      /\ Len(p) \in Nat /\ Chunk \in Nat /\ Len(p) > 4 * Chunk
      /\ told \in Nat /\ lost \in Nat /\ made \in Nat
  BY LenProperties DEF Holds, Backends, AudioAssumption, IInv, Types
<1>2. /\ c + Len(p) = made /\ told + b.dropped = lost
      /\ Older(p, made) /\ Ordered(p) /\ Counted(p, c, hole')
      /\ frame.t + Len(frame.data) <= c
  BY DEF Holds
<1>3. CASE device.channels = 1
  <2>1. backend' = b /\ lost' = lost
    BY <1>3 DEF Starved
  <2> QED BY <2>1, <1>1 DEF Holds
<1>4. CASE device.channels # 1
  <2>1. backend' = Lose([b EXCEPT !.pending = rest], cut) /\ lost' = lost + cut
    BY <1>4 DEF Starved
  <2>2. cut \in Nat /\ cut <= Len(p) /\ Len(p) - cut + cut = Len(p)
    <3> DEFINE lp == Len(p)
    <3>1. lp \in Nat /\ lp > 4 * Chunk
      BY <1>1
    <3> HIDE DEF lp
    <3>2. lp - 2 * Chunk \in Nat /\ lp - 2 * Chunk <= lp /\ lp - (lp - 2 * Chunk) + (lp - 2 * Chunk) = lp
      BY <3>1, <1>1
    <3> QED BY <3>2 DEF lp
  <2>4. [b EXCEPT !.pending = rest] = [pending |-> rest, consumed |-> c, dropped |-> b.dropped,
                                       cfg |-> b.cfg]
    BY <1>1, OtherPending
  <2> HIDE DEF p, cut, c
  <2>3. /\ rest \in Seq(Nat) /\ Len(rest) = Len(p) - cut
        /\ Older(rest, made) /\ Ordered(rest) /\ Counted(rest, c + cut, hole')
    BY <2>2, <1>1, <1>2, WithoutFacts, CutKeeps
  <2> HIDE DEF rest
  <2>5. backend' = [pending |-> rest, consumed |-> c + cut, dropped |-> b.dropped + cut,
                    cfg |-> b.cfg]
    BY <2>1, <2>4 DEF Lose
  <2>6. /\ backend' \in Backends /\ backend'.pending = rest /\ backend'.consumed = c + cut
        /\ backend'.dropped = b.dropped + cut
    <3>1. c + cut \in Nat /\ b.dropped + cut \in Nat
      BY <2>2, <1>1
    <3> QED BY <3>1, <2>3, <2>5, <1>1 DEF Backends
  <2>7. c + cut + Len(rest) = made /\ told + (b.dropped + cut) = lost + cut
    <3> DEFINE lp == Len(p)
               lq == Len(rest)
               bd == b.dropped
    <3>1. /\ lp \in Nat /\ lq = lp - cut /\ c + lp = made /\ told + bd = lost
          /\ bd \in Nat /\ c \in Nat /\ told \in Nat /\ cut \in Nat
      BY <1>1, <1>2, <2>2, <2>3
    <3> HIDE DEF lp, lq, bd
    <3>2. c + cut + lq = made /\ told + (bd + cut) = lost + cut
      BY <3>1
    <3> QED BY <3>2 DEF lq, bd
  <2>8. frame.t + Len(frame.data) <= c + cut
    <3>1. frame.t \in Nat /\ Len(frame.data) \in Nat
      BY LenProperties DEF IInv, Types, Frames
    <3> QED BY <3>1, <2>2, <1>1, <1>2
  <2>9. lost' \in Nat
    BY <2>1, <2>2, <1>1
  <2>10. /\ (backend.consumed + Len(backend.pending))' = made'
         /\ (told + backend.dropped)' = lost'
         /\ Older(backend.pending, made)' /\ Ordered(backend.pending)'
         /\ Counted(backend.pending, backend.consumed, hole)'
         /\ (frame.t + Len(frame.data) <= backend.consumed)'
    BY <2>1, <2>3, <2>6, <2>7, <2>8
  <2> QED BY <2>6, <2>9, <2>10 DEF Holds
<1> QED BY <1>3, <1>4

\* A poll keeps the invariant, whichever way it ends.
LEMMA PollHolds == ASSUME AudioAssumption, IInv, PollFrame PROVE IInv'
<1> DEFINE b == Drained
<1>1. DrainRing /\ Poll(b) /\ made' = made
  BY DEF PollFrame
<1>2. Holds(b, hole') /\ hole <= hole' /\ hole' \in Nat /\ hole' <= made
  BY <1>1, DrainHolds
<1>3. told \in Nat /\ lost \in Nat /\ frame \in Frames
  BY DEF IInv, Types
<1> HIDE DEF b
<1>4. CASE /\ Waiting(b) /\ Len(b.pending) > 4 * Chunk
           /\ Starved(b) /\ UNCHANGED <<frame, told>>
  <2>1. lost' \in Nat /\ Holds(backend, hole)'
    BY <1>1, <1>2, <1>4, StarvedHolds
  <2>2. StampedAfterHole' /\ StampsAdvance'
    BY <1>2, <1>4, FrameStays
  <2> QED BY <2>1, <2>2, <1>1, <1>2, <1>3, <1>4, PolledHolds
<1>5. CASE \E start \in Starts(b) :
              /\ start + Chunk <= Len(b.pending)
              /\ Taken(b, start) /\ UNCHANGED <<lost, panicked>>
  <2>1. PICK start \in Starts(b) :
              /\ start + Chunk <= Len(b.pending)
              /\ Taken(b, start) /\ UNCHANGED <<lost, panicked>>
    BY <1>5
  <2>2. start \in Nat
    <3>1. b.cfg \in [normal : BOOLEAN, want : 0..Chunk - 1, source : {0, 1}]
      BY <1>2 DEF Holds, Backends, AudioAssumption
    <3>2. b.cfg.want \in Nat
      BY <3>1
    <3>3. \A i \in Edges(b) : i \in Nat
      BY DEF Edges
    <3> QED BY <2>1, <3>2, <3>3 DEF Starts
  <2>3. /\ told' \in Nat /\ lost' \in Nat /\ frame' \in Frames
        /\ Holds(backend, hole)' /\ StampedAfterHole' /\ StampsAdvance'
    BY <1>1, <1>2, <2>1, <2>2, TakenHolds
  <2> QED BY <2>3, <1>1, <1>2, PolledHolds
<1>6. CASE /\ Waiting(b) => Len(b.pending) <= 4 * Chunk
           /\ \A start \in Starts(b) : start + Chunk > Len(b.pending)
           /\ backend' = b /\ UNCHANGED <<frame, told, lost, panicked>>
  <2>1. Holds(backend, hole)'
    BY <1>1, <1>2, <1>6 DEF Holds
  <2>2. StampedAfterHole' /\ StampsAdvance'
    BY <1>2, <1>6, FrameStays
  <2> QED BY <2>1, <2>2, <1>1, <1>2, <1>3, <1>6, PolledHolds
<1> QED BY <1>1, <1>4, <1>5, <1>6 DEF Poll

\* Applying a configuration keeps the invariant.
LEMMA ApplyHolds == ASSUME IInv, NEW cfg \in Configs, Apply(cfg) PROVE IInv'
<1>1. /\ backend' = [backend EXCEPT !.cfg = cfg]
      /\ UNCHANGED <<shared, made, frame, lost, told, hole>>
  BY DEF Apply
<1>2. backend \in Backends
  BY DEF IInv, Types
<1>3. /\ backend' \in Backends /\ backend'.pending = backend.pending
      /\ backend'.consumed = backend.consumed /\ backend'.dropped = backend.dropped
  BY <1>1, <1>2 DEF Backends
<1>4. Types'
  BY <1>1, <1>3 DEF IInv, Types
<1> QED
  BY <1>1, <1>3, <1>4 DEF IInv, ClockIsKept, LossIsTold, CutIsFollowed, StampedAfterHole,
     StampsAdvance

-----------------------------------------------------------------------------
\* The clock, the account of what was thrown away and the stamps hold together
\* at every step of both threads.
THEOREM Inductive == ASSUME AudioAssumption PROVE Spec => []IInv
<1>1. Init => IInv
  BY InitHolds
<1>2. IInv /\ [Next]_vars => IInv'
  <2> SUFFICES ASSUME IInv, [Next]_vars PROVE IInv'
    OBVIOUS
  <2>1. CASE UNCHANGED vars
    BY <2>1 DEF vars, IInv, Types, ClockIsKept, LossIsTold, CutIsFollowed, StampedAfterHole,
       StampsAdvance
  <2>2. ASSUME NEW n \in Callbacks, Push(n) PROVE IInv'
    BY <2>2, PushHolds
  <2>3. CASE PollFrame
    BY <2>3, PollHolds
  <2>4. ASSUME NEW cfg \in Configs, Apply(cfg) PROVE IInv'
    BY <2>4, ApplyHolds
  <2> QED BY <2>1, <2>2, <2>3, <2>4 DEF Next
<1> QED BY <1>1, <1>2, PTL DEF Spec

\* The capture clock moves over every hole: the next sample to be recorded will
\* be stamped with its own number.
THEOREM ClockHolds == ASSUME AudioAssumption PROVE Spec => []ClockIsKept
<1>1. IInv => ClockIsKept
  BY DEF IInv
<1> QED BY <1>1, Inductive, PTL

\* What either thread threw away is declared by a frame, once.
THEOREM LossHolds == ASSUME AudioAssumption PROVE Spec => []LossIsTold
<1>1. IInv => LossIsTold
  BY DEF IInv
<1> QED BY <1>1, Inductive, PTL

\* A frame that begins after the last hole is stamped with the number of its
\* first sample, and has no seam.
THEOREM StampHolds == ASSUME AudioAssumption PROVE Spec => []StampedAfterHole
<1>1. IInv => StampedAfterHole
  BY DEF IInv
<1> QED BY <1>1, Inductive, PTL

\* Frames are stamped in order, and never one into the other.
THEOREM AdvanceHolds == ASSUME AudioAssumption PROVE Spec => []StampsAdvance
<1>1. IInv => StampsAdvance
  BY DEF IInv
<1> QED BY <1>1, Inductive, PTL
=============================================================================
