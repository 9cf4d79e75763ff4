------------------------------ MODULE AppProofs ------------------------------
(***************************************************************************)
(* Four parts of the app, for all their constants.  The script runner:     *)
(* whatever the renderer delivers, late, twice, blank or never, each shot  *)
(* is reported once; the invariant says which captures can still report.   *)
(* The reference store: what is shown is told.  The bridge: a call gets    *)
(* the reply to its own line and fails only when an app failed it; the     *)
(* invariant says what may be on a connection, what a failure has noted,   *)
(* and which app can still run a line or put a picture in place.  The      *)
(* recorder: the ring is the tail of what it was offered, record by        *)
(* record.                                                                 *)
(***************************************************************************)
EXTENDS App, FiniteSetTheorems, SequenceTheorems, WellFoundedInduction, TLAPS

\* A capture of ours, its newest entity spawned and not delivered.
Open(fl, sp) == {s \in fl : <<s.shot, s.attempt>> \in sp}
Waiting(fl, sp) == {s.shot : s \in Open(fl, sp)}

Captures(fl) ==
    /\ fl \subseteq [shot : Nat, attempt : Nat, frames : Nat]
    /\ \A s, t \in fl : s.shot = t.shot => s = t

\* The shots not reported are those of open captures and of readbacks, and each
\* is one or the other.
Outstanding(fl, sp, pl, an, n) ==
    /\ Waiting(fl, sp) \cap pl = {}
    /\ Waiting(fl, sp) \cup pl = (1..n) \ an

Counts == /\ shots \in Nat /\ answered \subseteq 1..shots
          /\ \A s \in inflight : s.shot \in 1..shots
          /\ pending = Cardinality((1..shots) \ answered)

ExitsIdle == exited => phase = "run" /\ pending = 0

IInv == /\ Captures(inflight) /\ Outstanding(inflight, spawned, plots, answered, shots)
        /\ Counts /\ ExitsIdle

-----------------------------------------------------------------------------
\* The shots not reported are finitely many.
LEMMA Unreported ==
    ASSUME NEW n \in Nat, NEW an
    PROVE  IsFiniteSet((1..n) \ an) /\ Cardinality((1..n) \ an) \in Nat
<1>1. IsFiniteSet(1..n)
  BY FS_Interval
<1>2. (1..n) \ an \in SUBSET (1..n)
  OBVIOUS
<1>3. IsFiniteSet((1..n) \ an)
  BY <1>1, <1>2, FS_Subset
<1> QED BY <1>3, FS_CardinalityType

\* One shot more to report.
LEMMA OneMore ==
    ASSUME NEW n \in Nat, NEW an, an \subseteq 1..n
    PROVE  /\ (1..(n + 1)) \ an = ((1..n) \ an) \cup {n + 1}
           /\ Cardinality((1..(n + 1)) \ an) = Cardinality((1..n) \ an) + 1
<1>1. IsFiniteSet((1..n) \ an)
  BY Unreported
<1>2. (1..(n + 1)) \ an = ((1..n) \ an) \cup {n + 1} /\ n + 1 \notin (1..n) \ an
  OBVIOUS
<1> QED BY <1>1, <1>2, FS_AddElement

\* One shot reported.
LEMMA OneLess ==
    ASSUME NEW n \in Nat, NEW an, NEW k \in (1..n) \ an
    PROVE  /\ (1..n) \ (an \cup {k}) = ((1..n) \ an) \ {k}
           /\ Cardinality((1..n) \ (an \cup {k})) = Cardinality((1..n) \ an) - 1
<1>1. IsFiniteSet((1..n) \ an)
  BY Unreported
<1>2. (1..n) \ (an \cup {k}) = ((1..n) \ an) \ {k}
  OBVIOUS
<1> QED BY <1>1, <1>2, FS_RemoveElement

\* As many captures given up, as many shots reported for it.
LEMMA AsManyShots ==
    ASSUME NEW n \in Nat, NEW an, NEW G, Captures(G), {s.shot : s \in G} \subseteq (1..n) \ an
    PROVE  Cardinality((1..n) \ (an \cup {s.shot : s \in G}))
             = Cardinality((1..n) \ an) - Cardinality(G)
<1> DEFINE N == {s.shot : s \in G}
<1>1. IsFiniteSet((1..n) \ an) /\ IsFiniteSet(N)
  <2>1. N \in SUBSET ((1..n) \ an)
    OBVIOUS
  <2> HIDE DEF N
  <2> QED BY <2>1, Unreported, FS_Subset
<1>2. Cardinality(G) = Cardinality(N)
  <2> DEFINE f == [k \in N |-> CHOOSE s \in G : s.shot = k]
  <2>1. ASSUME NEW k \in N PROVE f[k] \in G /\ f[k].shot = k
    BY <2>1
  <2>2. f \in Injection(N, G)
    <3>1. f \in [N -> G]
      BY <2>1
    <3>2. \A a, b \in N : f[a] = f[b] => a = b
      BY <2>1
    <3> QED BY <3>1, <3>2 DEF Injection, IsInjective
  <2>3. \A s \in G : \E k \in N : f[k] = s
    <3>1. ASSUME NEW s \in G PROVE f[s.shot] = s
      <4>1. s.shot \in N
        OBVIOUS
      <4>2. f[s.shot] \in G /\ f[s.shot].shot = s.shot
        BY <2>1, <4>1
      <4> HIDE DEF f
      <4> QED BY <4>2 DEF Captures
    <3>2. \A s \in G : s.shot \in N
      OBVIOUS
    <3> HIDE DEF f, N
    <3> QED BY <3>1, <3>2
  <2>4. f \in Bijection(N, G)
    <3>1. f \in [N -> G]
      BY <2>1
    <3> HIDE DEF f
    <3> QED BY <2>2, <2>3, <3>1 DEF Bijection, Surjection
  <2> QED BY <1>1, <2>4, FS_Bijection DEF ExistsBijection
<1>3. (1..n) \ (an \cup N) = ((1..n) \ an) \ N /\ ((1..n) \ an) \cap N = N
  OBVIOUS
<1> HIDE DEF N
<1>4. Cardinality(((1..n) \ an) \ N) = Cardinality((1..n) \ an) - Cardinality(((1..n) \ an) \cap N)
  BY <1>1, FS_Difference
<1> QED BY <1>2, <1>3, <1>4 DEF N

-----------------------------------------------------------------------------
\* Steps that touch no capture, no readback and no report.
LEMMA QuietHolds ==
    ASSUME IInv, UNCHANGED <<pending, inflight, spawned, plots, answered, shots, exited>>,
           exited => phase' = phase
    PROVE  IInv'
  BY DEF IInv, Counts, ExitsIdle

\* A window shot requested keeps the invariant: its capture is open.
LEMMA RunShotHolds ==
    ASSUME IInv, RunShot
    PROVE  IInv'
<1>1. phase = "run" /\ ~exited /\ exited' = exited /\ phase' = phase /\ plots' = plots /\ answered' = answered
  BY DEF RunShot, Takes
<1>2. CASE ~(shots < MaxShots)
  BY <1>1, <1>2, QuietHolds DEF RunShot
<1>3. CASE shots < MaxShots
  <2> DEFINE n == shots + 1
             c == [shot |-> n, attempt |-> 0, frames |-> 0]
  <2>1. /\ shots' = n /\ pending' = pending + 1
        /\ inflight' = inflight \cup {c} /\ spawned' = spawned \cup {<<n, 0>>}
    BY <1>3 DEF RunShot
  <2>2. /\ shots \in Nat /\ answered \subseteq 1..shots /\ \A s \in inflight : s.shot \in 1..shots
        /\ Captures(inflight)
    BY DEF IInv, Counts
  <2>3. Captures(inflight') /\ \A s \in inflight' : s.shot \in 1..n
    <3>1. \A s \in inflight : s.shot # n
      BY <2>2
    <3> QED BY <2>1, <2>2, <3>1 DEF Captures
  <2>4. Waiting(inflight', spawned') = Waiting(inflight, spawned) \cup {n}
    <3>1. \A s \in inflight : <<s.shot, s.attempt>> # <<n, 0>>
      BY <2>2
    <3>2. Open(inflight', spawned') = Open(inflight, spawned) \cup {c}
      BY <2>1, <3>1 DEF Open
    <3>3. c.shot = n
      OBVIOUS
    <3> HIDE DEF c, n
    <3> QED BY <3>2, <3>3 DEF Waiting
  <2>5. (1..n) \ answered = ((1..shots) \ answered) \cup {n}
        /\ Cardinality((1..n) \ answered) = pending'
    BY <2>1, <2>2, OneMore DEF IInv, Counts
  <2>6. n \notin plots
    BY <2>2 DEF IInv, Outstanding
  <2>7. Outstanding(inflight, spawned, plots, answered, shots)'
    <3> HIDE DEF n
    <3> QED BY <1>1, <2>1, <2>4, <2>5, <2>6 DEF IInv, Outstanding
  <2>8. Counts'
    BY <1>1, <2>1, <2>2, <2>3, <2>5 DEF Counts
  <2> QED BY <1>1, <2>3, <2>7, <2>8 DEF IInv, ExitsIdle
<1> QED BY <1>2, <1>3

\* A plot requested keeps the invariant: its readback is under way.
LEMMA RunPlotHolds ==
    ASSUME IInv, RunPlot
    PROVE  IInv'
<1>1. /\ phase = "run" /\ ~exited /\ exited' = exited /\ phase' = phase
      /\ inflight' = inflight /\ spawned' = spawned /\ answered' = answered
  BY DEF RunPlot, Takes
<1>2. CASE ~(shots < MaxShots)
  BY <1>1, <1>2, QuietHolds DEF RunPlot
<1>3. CASE shots < MaxShots
  <2> DEFINE n == shots + 1
  <2>1. shots' = n /\ pending' = pending + 1 /\ plots' = plots \cup {n}
    BY <1>3 DEF RunPlot
  <2>2. /\ shots \in Nat /\ answered \subseteq 1..shots /\ \A s \in inflight : s.shot \in 1..shots
    BY DEF IInv, Counts
  <2>3. n \notin Waiting(inflight, spawned)
    <3>1. n \notin 1..shots
      BY <2>2
    <3>2. \A k \in Waiting(inflight, spawned) : k \in 1..shots
      BY <2>2 DEF Waiting, Open
    <3> QED BY <3>1, <3>2
  <2>4. (1..n) \ answered = ((1..shots) \ answered) \cup {n}
        /\ Cardinality((1..n) \ answered) = pending'
    BY <2>1, <2>2, OneMore DEF IInv, Counts
  <2>5. Outstanding(inflight, spawned, plots, answered, shots)'
    <3> HIDE DEF n
    <3> QED BY <1>1, <2>1, <2>3, <2>4 DEF IInv, Outstanding
  <2>6. Counts'
    BY <1>1, <2>1, <2>2, <2>4 DEF Counts
  <2> QED BY <1>1, <2>5, <2>6 DEF IInv, ExitsIdle
<1> QED BY <1>2, <1>3

\* A quit ends the process only when nothing is outstanding.
LEMMA RunQuitHolds ==
    ASSUME IInv, RunQuit
    PROVE  IInv'
<1>1. /\ phase = "run" /\ ~exited
      /\ UNCHANGED <<pending, inflight, spawned, plots, answered, shots>>
      /\ exited' => ~(pending > 0) /\ phase' = phase
  <2>1. CASE pending > 0
    BY <2>1 DEF RunQuit, Takes
  <2>2. CASE ~(pending > 0)
    BY <2>2 DEF RunQuit, Takes
  <2> QED BY <2>1, <2>2
<1>2. pending \in Nat
  BY Unreported DEF IInv, Counts
<1> QED BY <1>1, <1>2 DEF IInv, Counts, ExitsIdle

\* A shot that was waited for is reported.
LEMMA ReportHolds ==
    ASSUME IInv, NEW k \in (1..shots) \ answered, ~exited, exited' = exited, shots' = shots,
           pending' = pending - 1, answered' = answered \cup {k},
           inflight' \subseteq inflight,
           Waiting(inflight', spawned') \cap plots' = {},
           Waiting(inflight', spawned') \cup plots' = ((1..shots) \ answered) \ {k}
    PROVE  IInv'
<1>1. shots \in Nat /\ answered \subseteq 1..shots
  BY DEF IInv, Counts
<1>2. /\ (1..shots) \ (answered \cup {k}) = ((1..shots) \ answered) \ {k}
      /\ Cardinality((1..shots) \ (answered \cup {k})) = pending'
  BY <1>1, OneLess DEF IInv, Counts
<1>3. Outstanding(inflight, spawned, plots, answered, shots)'
  BY <1>2 DEF Outstanding
<1>4. Counts'
  BY <1>1, <1>2 DEF IInv, Counts
<1>5. Captures(inflight')
  BY DEF IInv, Captures
<1> QED BY <1>3, <1>4, <1>5 DEF IInv, ExitsIdle

\* A readback reports its shot.
LEMMA ReadBackHolds ==
    ASSUME IInv, NEW shot \in plots, ReadBack(shot)
    PROVE  IInv'
<1>1. /\ ~exited /\ exited' = exited /\ shots' = shots /\ plots' = plots \ {shot}
      /\ pending' = pending - 1 /\ answered' = answered \cup {shot}
      /\ inflight' = inflight /\ spawned' = spawned
  BY DEF ReadBack
<1>2. shot \in (1..shots) \ answered /\ shot \notin Waiting(inflight, spawned)
  BY DEF IInv, Outstanding
<1>3. /\ Waiting(inflight, spawned) \cap plots = {}
      /\ Waiting(inflight, spawned) \cup plots = (1..shots) \ answered
  BY DEF IInv, Outstanding
<1>4. /\ Waiting(inflight', spawned') \cap plots' = {}
      /\ Waiting(inflight', spawned') \cup plots' = ((1..shots) \ answered) \ {shot}
  BY <1>1, <1>2, <1>3
<1> QED BY <1>1, <1>2, <1>4, ReportHolds

\* The capture an image belongs to is open, and the only one of its shot.
LEMMA ImageIsOpen ==
    ASSUME IInv, NEW e \in spawned, NEW s \in ShotOf(e)
    PROVE  /\ s \in inflight /\ e = <<s.shot, s.attempt>> /\ ShotOf(e) = {s} /\ e[1] = s.shot
           /\ s.shot \in Waiting(inflight, spawned)
           /\ s.shot \in (1..shots) \ answered
           /\ \A t \in inflight : t # s => t.shot # s.shot
<1>1. s \in inflight /\ e = <<s.shot, s.attempt>> /\ e[1] = s.shot
  BY DEF ShotOf
<1>2. \A t \in inflight : t # s => t.shot # s.shot
  BY <1>1 DEF IInv, Captures
<1>3. ShotOf(e) = {s}
  BY <1>1, <1>2 DEF ShotOf
<1>4. s.shot \in Waiting(inflight, spawned)
  BY <1>1 DEF Waiting, Open
<1>5. s.shot \in (1..shots) \ answered
  BY <1>4 DEF IInv, Outstanding
<1> QED BY <1>1, <1>2, <1>3, <1>4, <1>5

\* An image, good or blank, of the newest entity or of one replaced, keeps the
\* invariant.
LEMMA CapturedHolds ==
    ASSUME IInv, NEW e \in spawned, NEW blank \in BOOLEAN, Captured(e, blank)
    PROVE  IInv'
<1>1. /\ ~exited /\ exited' = exited /\ shots' = shots /\ plots' = plots /\ phase' = phase
  BY DEF Captured
<1> DEFINE gone == spawned \ {e}
<1>2. /\ Waiting(inflight, spawned) \cap plots = {}
      /\ Waiting(inflight, spawned) \cup plots = (1..shots) \ answered
      /\ Captures(inflight)
  BY DEF IInv, Outstanding
<1>3. CASE ShotOf(e) = {}
  <2>1. spawned' = gone /\ UNCHANGED <<pending, inflight, answered>>
    BY <1>3 DEF Captured
  <2>2. Open(inflight', spawned') = Open(inflight, spawned)
    BY <1>3, <2>1 DEF Open, ShotOf
  <2>3. Outstanding(inflight, spawned, plots, answered, shots)'
    BY <1>1, <1>2, <2>1, <2>2 DEF Outstanding, Waiting
  <2> QED BY <1>1, <2>1, <2>3 DEF IInv, Counts, ExitsIdle
<1>4. CASE ShotOf(e) # {}
  <2>1. PICK s \in ShotOf(e) : TRUE
    BY <1>4
  <2>2. /\ s \in inflight /\ e = <<s.shot, s.attempt>> /\ ShotOf(e) = {s} /\ e[1] = s.shot
        /\ s.shot \in Waiting(inflight, spawned)
        /\ s.shot \in (1..shots) \ answered
        /\ \A t \in inflight : t # s => t.shot # s.shot
    BY ImageIsOpen
  <2>3. Waiting(inflight \ {s}, gone) = Waiting(inflight, spawned) \ {s.shot}
    <3>1. Open(inflight \ {s}, gone) = Open(inflight, spawned) \ {s}
      BY <2>2 DEF Open
    <3>2. \A t \in Open(inflight, spawned) : t # s => t.shot # s.shot
      BY <2>2 DEF Open
    <3> QED BY <3>1, <3>2 DEF Waiting
  <2>4. Waiting(inflight, gone) = Waiting(inflight, spawned) \ {s.shot}
    <3>1. Open(inflight, gone) = Open(inflight, spawned) \ {s}
      BY <2>2 DEF Open
    <3>2. \A t \in Open(inflight, spawned) : t # s => t.shot # s.shot
      BY <2>2 DEF Open
    <3> QED BY <3>1, <3>2 DEF Waiting
  <2>5. s.shot \notin plots
    BY <1>2, <2>2
  <2>6. ASSUME spawned' = gone, Reported(e), inflight' = inflight \/ inflight' = inflight \ {s}
        PROVE  IInv'
    <3>1. Waiting(inflight', spawned') = Waiting(inflight, spawned) \ {s.shot}
      BY <2>3, <2>4, <2>6
    <3>2. /\ Waiting(inflight', spawned') \cap plots' = {}
          /\ Waiting(inflight', spawned') \cup plots' = ((1..shots) \ answered) \ {s.shot}
      BY <1>1, <1>2, <2>5, <3>1
    <3>3. pending' = pending - 1 /\ answered' = answered \cup {s.shot} /\ inflight' \subseteq inflight
      BY <2>2, <2>6 DEF Reported
    <3> HIDE DEF gone
    <3> QED BY <1>1, <2>2, <3>2, <3>3, ReportHolds
  <2>7. CASE ~blank
    BY <1>4, <2>6, <2>7 DEF Captured
  <2>8. CASE blank /\ s.attempt >= MaxAttempts
    BY <1>4, <2>2, <2>6, <2>8 DEF Captured
  <2>9. CASE blank /\ ~(s.attempt >= MaxAttempts)
    <3> DEFINE r == Retried(s)
    <3>1. /\ spawned' = gone \cup {<<s.shot, s.attempt + 1>>}
          /\ inflight' = (inflight \ {s}) \cup {r}
          /\ UNCHANGED <<pending, answered>>
      BY <1>4, <2>2, <2>9 DEF Captured
    <3>2. r.shot = s.shot /\ r.attempt = s.attempt + 1
          /\ r \in [shot : Nat, attempt : Nat, frames : Nat]
      BY <1>2, <2>2 DEF Retried, Captures
    <3>3. Captures(inflight')
      <4> HIDE DEF r
      <4> QED BY <1>2, <2>2, <3>1, <3>2 DEF Captures
    <3>4. Waiting(inflight', spawned') = Waiting(inflight, spawned)
      <4>1. Open(inflight', spawned') = (Open(inflight, spawned) \ {s}) \cup {r}
        <5>1. \A t \in inflight \ {s} : <<t.shot, t.attempt>> \in spawned'
                                          <=> <<t.shot, t.attempt>> \in spawned
          BY <2>2, <3>1
        <5>2. <<r.shot, r.attempt>> \in spawned'
          BY <3>1, <3>2
        <5> HIDE DEF r, gone
        <5> QED BY <3>1, <5>1, <5>2 DEF Open
      <4>2. s \in Open(inflight, spawned)
        BY <2>2 DEF Open
      <4> HIDE DEF r
      <4> QED BY <3>2, <4>1, <4>2 DEF Waiting
    <3>5. \A t \in inflight' : t.shot \in 1..shots
      <4> HIDE DEF r
      <4> QED BY <2>2, <3>1, <3>2 DEF IInv, Counts
    <3> QED BY <1>1, <3>1, <3>3, <3>4, <3>5 DEF IInv, Outstanding, Counts, ExitsIdle
  <2> QED BY <2>7, <2>8, <2>9
<1> QED BY <1>3, <1>4

\* The watch over the captures: those not delivered in time are retried with an
\* entity of their own, or given up and reported.
LEMMA TickHolds ==
    ASSUME IInv, Tick
    PROVE  IInv'
<1> DEFINE again == {Retried(s) : s \in Late \ GivenUp}
           given == {<<s.shot, s.attempt>> : s \in GivenUp}
           more  == {<<s.shot, s.attempt>> : s \in again}
           N     == {s.shot : s \in GivenUp}
<1>1. /\ ~exited /\ exited' = exited /\ shots' = shots /\ plots' = plots
      /\ inflight' = (Waited \ Late) \cup again
      /\ spawned' = (spawned \ given) \cup more
      /\ pending' = pending - Cardinality(GivenUp)
      /\ answered' = answered \cup N
  BY DEF Tick, IInv, ExitsIdle
<1>2. /\ Waiting(inflight, spawned) \cap plots = {}
      /\ Waiting(inflight, spawned) \cup plots = (1..shots) \ answered
      /\ Captures(inflight) /\ shots \in Nat /\ answered \subseteq 1..shots
  BY DEF IInv, Outstanding, Counts
<1>3. /\ Captures(Waited)
      /\ \A w \in Waited : /\ <<w.shot, w.attempt>> \in spawned
                           /\ w.shot \in Waiting(inflight, spawned)
      /\ {w.shot : w \in Waited} = Waiting(inflight, spawned)
  <2>1. ASSUME NEW s \in inflight
        PROVE  LET w == [s EXCEPT !.frames = @ + 1]
               IN /\ w \in [shot : Nat, attempt : Nat, frames : Nat]
                  /\ w.shot = s.shot /\ w.attempt = s.attempt
    BY <1>2 DEF Captures
  <2>2. ASSUME NEW w \in Waited
        PROVE  \E s \in Open(inflight, spawned) : w = [s EXCEPT !.frames = @ + 1]
    BY DEF Waited, Open
  <2>3. ASSUME NEW s \in Open(inflight, spawned) PROVE [s EXCEPT !.frames = @ + 1] \in Waited
    BY DEF Waited, Open
  <2>4. Open(inflight, spawned) \subseteq inflight
    BY DEF Open
  <2>5. ASSUME NEW w \in Waited
        PROVE  /\ w \in [shot : Nat, attempt : Nat, frames : Nat]
               /\ <<w.shot, w.attempt>> \in spawned /\ w.shot \in Waiting(inflight, spawned)
    BY <2>1, <2>2, <2>4 DEF Open, Waiting
  <2>6. ASSUME NEW v \in Waited, NEW w \in Waited, v.shot = w.shot PROVE v = w
    <3>1. PICK s \in Open(inflight, spawned) : v = [s EXCEPT !.frames = @ + 1]
      BY <2>2
    <3>2. PICK t \in Open(inflight, spawned) : w = [t EXCEPT !.frames = @ + 1]
      BY <2>2
    <3>3. s.shot = t.shot
      BY <2>1, <2>4, <2>6, <3>1, <3>2
    <3>4. s = t
      BY <1>2, <2>4, <3>3 DEF Captures
    <3> QED BY <3>1, <3>2, <3>4
  <2>7. ASSUME NEW k \in Waiting(inflight, spawned) PROVE \E w \in Waited : w.shot = k
    <3>1. PICK s \in Open(inflight, spawned) : s.shot = k
      BY DEF Waiting
    <3> QED BY <2>1, <2>3, <2>4, <3>1
  <2>8. Captures(Waited)
    BY <2>5, <2>6 DEF Captures
  <2>9. {w.shot : w \in Waited} = Waiting(inflight, spawned)
    BY <2>5, <2>7
  <2> QED BY <2>5, <2>8, <2>9
<1>4. Late \subseteq Waited /\ GivenUp \subseteq Late
  BY DEF Late, GivenUp
<1>5. ASSUME NEW s \in Late \ GivenUp
      PROVE  /\ Retried(s) \in [shot : Nat, attempt : Nat, frames : Nat]
             /\ Retried(s).shot = s.shot
  BY <1>3, <1>4 DEF Retried, Captures
<1>6. Captures(GivenUp) /\ N \subseteq (1..shots) \ answered /\ N \subseteq Waiting(inflight, spawned)
  BY <1>2, <1>3, <1>4 DEF Captures
<1>7. ASSUME NEW t \in inflight'
      PROVE  \E w \in Waited \ GivenUp : w.shot = t.shot /\ (t = w \/ t = Retried(w))
  <2>1. CASE t \in Waited \ Late
    BY <1>4, <2>1
  <2>2. CASE t \in again
    <3>1. PICK s \in Late \ GivenUp : t = Retried(s)
      BY <2>2
    <3> QED BY <1>4, <1>5, <3>1
  <2> HIDE DEF again
  <2> QED BY <1>1, <1>7, <2>1, <2>2
<1>8. Captures(inflight')
  <2>1. inflight' \subseteq [shot : Nat, attempt : Nat, frames : Nat]
    <3>1. ASSUME NEW t \in again PROVE t \in [shot : Nat, attempt : Nat, frames : Nat]
      BY <1>5
    <3> HIDE DEF again
    <3> QED BY <1>1, <1>3, <3>1 DEF Captures
  <2>2. ASSUME NEW t \in inflight', NEW u \in inflight', t.shot = u.shot PROVE t = u
    <3>1. ASSUME NEW v \in inflight'
          PROVE  \E w \in Waited : /\ w.shot = v.shot
                                   /\ w \in Late => v = Retried(w)
                                   /\ w \notin Late => v = w
      <4>1. CASE v \in Waited \ Late
        BY <4>1
      <4>2. CASE v \in again
        <5>1. PICK s \in Late \ GivenUp : v = Retried(s)
          BY <4>2
        <5> QED BY <1>4, <1>5, <5>1
      <4> HIDE DEF again
      <4> QED BY <1>1, <3>1, <4>1, <4>2
    <3>2. PICK w \in Waited : /\ w.shot = t.shot
                              /\ w \in Late => t = Retried(w)
                              /\ w \notin Late => t = w
      BY <3>1
    <3>3. PICK x \in Waited : /\ x.shot = u.shot
                              /\ x \in Late => u = Retried(x)
                              /\ x \notin Late => u = x
      BY <3>1
    <3>4. w = x
      BY <1>3, <2>2, <3>2, <3>3 DEF Captures
    <3> QED BY <3>2, <3>3, <3>4
  <2> QED BY <2>1, <2>2 DEF Captures
<1>9. Open(inflight', spawned') = inflight'
  <2>1. ASSUME NEW t \in again PROVE <<t.shot, t.attempt>> \in more
    OBVIOUS
  <2>2. ASSUME NEW t \in Waited \ Late PROVE <<t.shot, t.attempt>> \in spawned \ given
    <3>1. ASSUME <<t.shot, t.attempt>> \in given PROVE FALSE
      <4>1. PICK s \in GivenUp : <<t.shot, t.attempt>> = <<s.shot, s.attempt>>
        BY <3>1
      <4>2. s = t
        BY <1>3, <1>4, <2>2, <4>1 DEF Captures
      <4> QED BY <1>4, <2>2, <4>2
    <3> HIDE DEF given
    <3> QED BY <1>3, <2>2, <3>1
  <2> HIDE DEF again, more, given
  <2> QED BY <1>1, <2>1, <2>2 DEF Open
<1>10. Waiting(inflight', spawned') = Waiting(inflight, spawned) \ N
  <2>1. ASSUME NEW t \in inflight' PROVE t.shot \in Waiting(inflight, spawned) \ N
    <3>1. PICK w \in Waited \ GivenUp : w.shot = t.shot /\ (t = w \/ t = Retried(w))
      BY <1>7, <2>1
    <3>2. ASSUME NEW g \in GivenUp PROVE g.shot # w.shot
      BY <1>3, <1>4, <3>1, <3>2 DEF Captures
    <3> QED BY <1>3, <3>1, <3>2
  <2>2. ASSUME NEW k \in Waiting(inflight, spawned) \ N PROVE \E t \in inflight' : t.shot = k
    <3>1. PICK w \in Waited : w.shot = k
      BY <1>3
    <3>2. w \notin GivenUp
      BY <2>2, <3>1
    <3>3. CASE w \in Late
      <4>1. Retried(w) \in again /\ Retried(w).shot = k
        BY <1>5, <3>1, <3>2, <3>3
      <4> HIDE DEF again
      <4> QED BY <1>1, <4>1
    <3>4. CASE w \notin Late
      BY <1>1, <3>1, <3>4
    <3> QED BY <3>3, <3>4
  <2> HIDE DEF N
  <2> QED BY <1>9, <2>1, <2>2 DEF Waiting
<1>11. Outstanding(inflight, spawned, plots, answered, shots)'
  <2> HIDE DEF N
  <2> QED BY <1>1, <1>2, <1>6, <1>10 DEF Outstanding
<1>12. Counts'
  <2>1. pending = Cardinality((1..shots) \ answered)
    BY DEF IInv, Counts
  <2>2. Cardinality((1..shots) \ (answered \cup N)) = pending'
    <3>1. Cardinality((1..shots) \ (answered \cup {s.shot : s \in GivenUp}))
            = Cardinality((1..shots) \ answered) - Cardinality(GivenUp)
      <4>1. {s.shot : s \in GivenUp} \subseteq (1..shots) \ answered
        BY <1>6
      <4>2. PICK G, an, n : G = GivenUp /\ an = answered /\ n = shots
        OBVIOUS
      <4>3. n \in Nat /\ Captures(G) /\ {s.shot : s \in G} \subseteq (1..n) \ an
        BY <1>2, <1>6, <4>1, <4>2
      <4>4. Cardinality((1..n) \ (an \cup {s.shot : s \in G}))
              = Cardinality((1..n) \ an) - Cardinality(G)
        BY <4>3, AsManyShots
      <4> QED BY <4>2, <4>4
    <3> QED BY <1>1, <2>1, <3>1
  <2>3. \A t \in inflight' : t.shot \in 1..shots
    <3>1. \A k \in Waiting(inflight, spawned) : k \in 1..shots
      BY <1>2
    <3>2. ASSUME NEW t \in inflight' PROVE t.shot \in 1..shots
      <4>1. PICK w \in Waited \ GivenUp : w.shot = t.shot /\ (t = w \/ t = Retried(w))
        BY <1>7, <3>2
      <4> QED BY <1>3, <3>1, <4>1
    <3> QED BY <3>2
  <2> HIDE DEF N
  <2> QED BY <1>1, <1>2, <1>6, <2>2, <2>3 DEF Counts
<1> QED BY <1>1, <1>8, <1>11, <1>12 DEF IInv, ExitsIdle

-----------------------------------------------------------------------------
\* Through every interleaving of lines, frames, captures and readbacks, what is
\* outstanding is what can still report.
THEOREM RunnerInductive == Spec => []IInv
<1>1. Init => IInv
  <2>1. (1..0) \ {} = {} /\ Cardinality({}) = 0
    BY FS_EmptySet
  <2> QED BY <2>1 DEF Init, IInv, Captures, Outstanding, Waiting, Open, Counts, ExitsIdle
<1>2. IInv /\ [Step]_vars => IInv'
  <2> SUFFICES ASSUME IInv, [Step]_vars PROVE IInv'
    OBVIOUS
  <2>1. CASE \/ \E c \in Conns, good \in BOOLEAN : Auth(c, good)
             \/ \E c \in Conns, line \in Lines : Send(c, line)
             \/ \E c \in Conns : TimesOut(c) \/ Hangup(c)
             \/ Inject
    BY <2>1, QuietHolds DEF Auth, Send, TimesOut, Hangup, Inject
  <2>2. CASE Poll \/ RunEdit \/ RunLoad \/ RunRest
    BY <2>2, QuietHolds DEF Poll, RunEdit, RunLoad, RunRest, Takes
  <2>3. CASE RunShot \/ RunPlot \/ RunQuit \/ Tick
    BY <2>3, RunShotHolds, RunPlotHolds, RunQuitHolds, TickHolds
  <2>4. CASE Readback
    BY <2>4, ReadBackHolds DEF Readback
  <2>5. CASE \E e \in spawned, blank \in BOOLEAN : Captured(e, blank)
    BY <2>5, CapturedHolds
  <2>6. CASE UNCHANGED vars
    BY <2>6, QuietHolds DEF vars
  <2> QED BY <2>1, <2>2, <2>3, <2>4, <2>5, <2>6 DEF Step, Frame
<1> QED BY <1>1, <1>2, PTL DEF Spec

\* The count quit waits for is exactly the shots not yet reported, whatever the
\* renderer did (PENDING_SHOTS and WindowShots of shot.rs), and the process
\* does not end before the last report (the Quit arm of run_script).
THEOREM ShotsAccountedHolds == Spec => []ShotsAccounted
<1>1. IInv => ShotsAccounted
  BY DEF IInv, Counts, ExitsIdle, ShotsAccounted
<1> QED BY <1>1, RunnerInductive, PTL

-----------------------------------------------------------------------------
(* RefStore.                                                               *)

\* A thread's record, whatever rows and handle it holds.
IsThread(t) == t = [at |-> t.at, source |-> t.source, rows |-> t.rows, fd |-> t.fd]

\* A job is pending as long as its thread has one; with none, what a load has
\* read of the snapshots is what is there, as nothing else writes beside it.
RefInv ==
    /\ IsThread(refJob) /\ IsThread(refUi)
    /\ refPending <=> refJob.at # "idle"
    /\ ~refPending /\ refUi.at = "match" => refUi.rows = refSnapshot
    /\ ShownIsStored

\* No claim is made while the frame thread is busy, a job is pending, or one of
\* them failed.
LEMMA NothingClaimed ==
    ASSUME IsThread(refJob)', IsThread(refUi)', (refPending <=> refJob.at # "idle")',
           (refPending \/ refUi.at # "match")', (refPending \/ refUi.at # "idle" \/ refMissed)'
    PROVE  RefInv'
  BY DEF RefInv, ShownIsStored, Ref!ShownIsStored

\* Every step of write_atomic leaves its thread inside it, or at its end.
LEMMA WriteGoesOn ==
    ASSUME NEW t, IsThread(t), NEW u, NEW other, Ref!WriteMeta(t, u, other)
    PROVE  IsThread(u) /\ t.at \in {"create", "write", "rename"}
           /\ u.at \in {"write", "rename", "done", "failed"}
<1>1. CASE Ref!CreateTmp(t, u, other)
  <2>1. PICK fd : u = [t EXCEPT !.at = "write", !.fd = fd]
    BY <1>1 DEF Ref!CreateTmp
  <2> QED BY <1>1, <2>1 DEF Ref!CreateTmp, IsThread
<1>2. CASE Ref!WriteTmp(t, u)
  BY <1>2 DEF Ref!WriteTmp, IsThread
<1>3. CASE Ref!RenameTmp(t, u)
  <2>1. PICK at \in {"failed", "done"} : u = [t EXCEPT !.at = at, !.fd = NoFile]
    BY <1>3 DEF Ref!RenameTmp
  <2> QED BY <1>3, <2>1 DEF Ref!RenameTmp, IsThread
<1> QED BY <1>1, <1>2, <1>3 DEF Ref!WriteMeta

\* The job's thread: one is pending all along.
LEMMA JobKeeps ==
    ASSUME RefInv, Ref!JobFails \/ Ref!JobReads \/ Ref!JobSnapshot \/ Ref!JobMeta
    PROVE  RefInv'
<1>1. IsThread(refJob)' /\ refJob.at # "idle" /\ refJob'.at # "idle"
  <2>1. CASE Ref!JobFails
    BY <2>1 DEF Ref!JobFails, RefInv, IsThread
  <2>2. CASE Ref!JobReads
    <3>1. \/ refJob' = [refJob EXCEPT !.at = "failed"]
          \/ \E rows : refJob' = [refJob EXCEPT !.at = "snapshot", !.rows = rows]
      BY <2>2 DEF Ref!JobReads
    <3> QED BY <2>2, <3>1 DEF Ref!JobReads, RefInv, IsThread
  <2>3. CASE Ref!JobSnapshot
    BY <2>3 DEF Ref!JobSnapshot, RefInv, IsThread
  <2>4. CASE Ref!JobMeta
    BY <2>4, WriteGoesOn DEF Ref!JobMeta, RefInv
  <2> QED BY <2>1, <2>2, <2>3, <2>4
<1>2. UNCHANGED <<refUi, refPending>>
  BY DEF Ref!JobFails, Ref!JobReads, Ref!JobSnapshot, Ref!JobMeta
<1> QED BY <1>1, <1>2, NothingClaimed DEF RefInv

\* The frame thread's clear: it is busy, or has failed.
LEMMA ClearKeeps ==
    ASSUME RefInv, Ref!ClearReads \/ Ref!ClearMeta \/ Ref!ClearEnds
    PROVE  RefInv'
<1>1. /\ IsThread(refUi)' /\ refUi'.at # "match"
      /\ refUi'.at # "idle" \/ refMissed'
  <2>1. CASE Ref!ClearReads
    <3>1. \/ refUi' = Ref!Idle /\ refMissed'
          \/ \E rows : refUi' = [refUi EXCEPT !.at = "create", !.rows = rows]
      BY <2>1 DEF Ref!ClearReads
    <3>2. CASE refUi' = Ref!Idle /\ refMissed'
      BY <3>2 DEF IsThread, Ref!Idle
    <3>3. ASSUME NEW rows, refUi' = [refUi EXCEPT !.at = "create", !.rows = rows]
          PROVE  IsThread(refUi)' /\ refUi'.at = "create"
      BY <3>3 DEF RefInv, IsThread
    <3> QED BY <3>1, <3>2, <3>3
  <2>2. CASE Ref!ClearMeta
    BY <2>2, WriteGoesOn DEF Ref!ClearMeta, RefInv
  <2>3. CASE Ref!ClearEnds
    BY <2>3 DEF Ref!ClearEnds, RefInv, IsThread, Ref!Idle
  <2> QED BY <2>1, <2>2, <2>3
<1>2. UNCHANGED <<refJob, refPending>>
  BY DEF Ref!ClearReads, Ref!ClearMeta, Ref!ClearEnds
<1> QED BY <1>1, <1>2, NothingClaimed DEF RefInv

\* A load, with no job pending: what it has read is what there is.
LEMMA RefLoadKeeps ==
    ASSUME RefInv, Ref!LoadMatches
    PROVE  RefInv'
<1>1. UNCHANGED <<refSnapshot, refMeta, refTmp, refBytes, refJob, refPending>>
  BY DEF Ref!LoadMatches, Ref!files
<1>2. Ref!Loaded(refSnapshot)' = Ref!Loaded(refSnapshot)
  BY <1>1 DEF Ref!Loaded, Ref!Unreadable, Ref!Content, Ref!Matched, Ref!Flagged, Ref!Same
<1>3. ~refPending => refShown' = Ref!Loaded(refSnapshot)
  BY DEF Ref!LoadMatches, RefInv
<1>4. refUi' = Ref!Idle
  BY DEF Ref!LoadMatches
<1>5. IsThread(refUi)' /\ refUi'.at = "idle"
  BY <1>4 DEF IsThread, Ref!Idle
<1>6. ShownIsStored'
  BY <1>1, <1>2, <1>3 DEF ShownIsStored, Ref!ShownIsStored
<1> QED BY <1>1, <1>5, <1>6 DEF RefInv

\* At rest the app shows what is stored: for every set of sources, any number
\* of jobs, clears and kills, and whatever they left in the files (RefMap's
\* tick and reload, Store's replace, clear and load).
THEOREM ShownIsStoredHolds == Ref!Spec => []ShownIsStored
<1>1. Ref!Init => RefInv
  <2> SUFFICES ASSUME Ref!Init PROVE RefInv
    OBVIOUS
  <2>1. refJob = Ref!Idle /\ refUi = Ref!Idle /\ refPending = FALSE
    BY DEF Ref!Init
  <2>2. IsThread(refJob) /\ IsThread(refUi) /\ refJob.at = "idle" /\ refUi.at = "idle"
    BY <2>1 DEF IsThread, Ref!Idle
  <2>3. Ref!Content = {} /\ ~Ref!Unreadable
    BY AppAssumption DEF Ref!RefStoreAssumption, Ref!Init, Ref!Content, Ref!Unreadable
  <2>4. \A s \in RefSources : refSnapshot[s] = NoFile
    BY DEF Ref!Init
  <2>5. Ref!Matched({}, refSnapshot) = {} /\ Ref!Flagged({}, refSnapshot) = {}
    BY <2>4 DEF Ref!Matched, Ref!Flagged
  <2>6. Ref!Loaded(refSnapshot) = Ref!Nothing
    BY <2>3, <2>5 DEF Ref!Init, Ref!Loaded, Ref!Nothing
  <2>7. ShownIsStored
    BY <2>6 DEF Ref!Init, ShownIsStored, Ref!ShownIsStored
  <2> QED BY <2>1, <2>2, <2>7 DEF RefInv
<1>2. RefInv /\ [Ref!Next]_(Ref!vars) => RefInv'
  <2> SUFFICES ASSUME RefInv, [Ref!Next]_(Ref!vars) PROVE RefInv'
    OBVIOUS
  <2>1. ASSUME NEW src \in RefSources, Ref!StartJob(src) PROVE RefInv'
    <3>1. IsThread(refJob)' /\ refJob'.at = "read" /\ refPending' /\ refUi' = refUi
      BY <2>1 DEF Ref!StartJob, Ref!Idle, IsThread
    <3> QED BY <3>1, NothingClaimed DEF RefInv
  <2>2. ASSUME NEW src \in RefSources, Ref!StartClear(src) PROVE RefInv'
    <3>1. IsThread(refUi)' /\ refUi'.at = "read" /\ UNCHANGED <<refJob, refPending>>
      BY <2>2 DEF Ref!StartClear, Ref!Idle, IsThread
    <3> QED BY <3>1, NothingClaimed DEF RefInv
  <2>3. CASE Ref!JobFails \/ Ref!JobReads \/ Ref!JobSnapshot \/ Ref!JobMeta
    BY <2>3, JobKeeps
  <2>4. CASE Ref!ClearReads \/ Ref!ClearMeta \/ Ref!ClearEnds
    BY <2>4, ClearKeeps
  <2>5. CASE Ref!Tick
    <3>1. /\ IsThread(refJob)' /\ refJob'.at = "idle" /\ refPending' = FALSE
          /\ IsThread(refUi)' /\ refUi'.at # "match" /\ (refUi'.at # "idle" \/ refMissed')
      BY <2>5 DEF Ref!Tick, Ref!Idle, IsThread
    <3> QED BY <3>1, NothingClaimed
  <2>6. CASE Ref!LoadSnapshots
    <3>1. /\ IsThread(refUi)' /\ refUi'.at = "match" /\ refUi'.rows = refSnapshot
          /\ UNCHANGED <<refSnapshot, refJob, refPending>>
      BY <2>6 DEF Ref!LoadSnapshots, Ref!files, RefInv, IsThread
    <3> QED BY <3>1 DEF RefInv, ShownIsStored, Ref!ShownIsStored
  <2>7. CASE Ref!LoadMatches
    BY <2>7, RefLoadKeeps
  <2>8. CASE Ref!Kill
    <3>1. /\ IsThread(refJob)' /\ refJob'.at = "idle" /\ refPending' = FALSE
          /\ IsThread(refUi)' /\ refUi'.at = "load"
      BY <2>8 DEF Ref!Kill, Ref!Idle, IsThread
    <3> QED BY <3>1, NothingClaimed
  <2>9. CASE UNCHANGED Ref!vars
    BY <2>9 DEF Ref!vars, RefInv, ShownIsStored, Ref!ShownIsStored, IsThread, Ref!Loaded,
                Ref!Unreadable, Ref!Content, Ref!Matched, Ref!Flagged, Ref!Same
  <2> QED BY <2>1, <2>2, <2>3, <2>4, <2>5, <2>6, <2>7, <2>8, <2>9 DEF Ref!Next
<1>3. RefInv => ShownIsStored
  BY DEF RefInv
<1> QED BY <1>1, <1>2, <1>3, PTL DEF Ref!Spec

-----------------------------------------------------------------------------
(* McpBridge.                                                              *)

McpProcs == [ours : BOOLEAN, state : {"starts", "serves", "deaf", "dead"}, still : BOOLEAN]
McpAsks == [k : {"ask", "token", "query", "shot"}, of : Nat \X Nat, t : Nat]
McpReplies == [k : {"ok", "refused"}, of : Nat \X Nat]
McpSocks == [app : Nat, open : BOOLEAN, trusted : BOOLEAN, cut : BOOLEAN,
             up : Seq(McpAsks), down : Seq(McpReplies)]
McpPlaces == {"ensure", "spawned", "auth", "token", "idle", "request", "reply", "picture",
              "done", "killed"}
McpClients == [pc : McpPlaces, target : {"addr", "spawn"}, call : Nat, try : {1, 2},
               line : {"query", "shot"}, conn : Nat \cup {NoFile}, child : Nat \cup {NoFile},
               hurt : BOOLEAN, cut : BOOLEAN, late : BOOLEAN]
McpAnswers == [kind : {"none", "ok", "refused", "error", "picture", "late"},
               own : BOOLEAN, cut : BOOLEAN, hurt : BOOLEAN]

Conn == mcpClient.conn
Sock == mcpSocks[Conn]
Over == mcpClient.pc \in {"done", "killed"}

McpType ==
    /\ mcpProcs \in Seq(McpProcs) /\ mcpToken \in Nat
    /\ mcpSocks \in Seq(McpSocks) /\ mcpClient \in McpClients
    /\ mcpRan \in Seq([of : Nat \X Nat, app : DOMAIN mcpProcs])
    /\ mcpShots \subseteq (DOMAIN mcpProcs) \X Nat \X Nat
    /\ mcpFile \in Nat \cup {NoFile} /\ mcpAnswer \in McpAnswers /\ mcpFaults \in Nat

\* One app serves, and the token's file is its own.  Every connection was made
\* to an app that served; the client's is open, and there is one from the
\* handshake on.
Connected ==
    /\ \A p \in Calls!Serving : p = mcpToken
    /\ \A i \in DOMAIN mcpSocks : mcpSocks[i].app # 0 =>
          /\ mcpSocks[i].app \in DOMAIN mcpProcs
          /\ mcpProcs[mcpSocks[i].app].state \in {"serves", "dead"}
    /\ Conn # NoFile => Conn \in DOMAIN mcpSocks /\ Sock.open /\ Sock.app # 0
    /\ mcpClient.pc \in {"auth", "token", "request", "reply", "picture"} => Conn # NoFile
    /\ mcpClient.pc = "spawned" \/ Over => Conn = NoFile
    /\ \A s \in mcpShots : Calls!Alive(s[1])

\* What is ours is the client's child, until the client is killed.
ChildInv ==
    /\ mcpClient.pc # "killed" => Calls!Ours \subseteq {mcpClient.child}
    /\ mcpClient.pc = "killed" => \E c \in Nat \cup {NoFile} : Calls!Ours \subseteq {c}
    /\ mcpClient.pc = "done" => Calls!Ours = {}

\* While a call is under way, whatever may fail it is noted.
Busy == mcpClient.call > 0 /\ mcpClient.pc # "idle" /\ ~Over
HurtInv ==
    /\ mcpAnswer.kind = "error" => mcpAnswer.hurt
    /\ Busy /\ mcpClient.target = "addr" /\ Calls!Serving = {} => mcpClient.hurt
    /\ Busy /\ (\E p \in DOMAIN mcpProcs : Calls!Alive(p) /\ ~Calls!Runs(p)) => mcpClient.hurt
    /\ Busy /\ mcpClient.try = 2 /\ Conn # NoFile /\ ~Calls!Alive(Sock.app) => mcpClient.hurt
    /\ mcpClient.call = 0 /\ ~Over => mcpClient.pc \in {"ensure", "spawned", "auth", "token", "idle"}

\* On a connection on which no wait was given up there is what the client
\* waits for and nothing else, and past the handshake it is trusted.
Awaits == mcpClient.pc \in {"auth", "token", "reply"}
Asked == IF mcpClient.pc = "auth" THEN Calls!Ask
        ELSE IF mcpClient.pc = "token" THEN Calls!Token(Sock.app) ELSE Calls!LineOf(mcpClient)
ItsReply == [k |-> "ok", of |-> Asked.of]
FlightInv ==
    Conn # NoFile =>
        /\ Sock.cut => mcpClient.cut
        /\ ~Sock.cut =>
            /\ Sock.down = <<>> \/ (Awaits /\ Sock.down = <<ItsReply>>)
            /\ Calls!Alive(Sock.app) =>
                /\ IF Awaits THEN \/ Sock.up = <<Asked>> /\ Sock.down = <<>>
                                  \/ Sock.up = <<>> /\ Sock.down = <<ItsReply>>
                   ELSE Sock.up = <<>>
                /\ mcpClient.pc # "auth" /\ ~(mcpClient.pc = "token" /\ Sock.up # <<>>) => Sock.trusted
TrustInv ==
    /\ mcpAnswer.kind \in {"ok", "refused"} => mcpAnswer.own \/ mcpAnswer.cut
    /\ mcpAnswer.kind = "refused" => mcpAnswer.cut

\* Lines an app may still run: while no wait was given up there is one at
\* most, on the client's connection, and it comes after what was run.
Unread(i) == mcpSocks[i].app # 0 /\ Calls!Alive(mcpSocks[i].app) /\ mcpSocks[i].up # <<>>
Follows(m, p) ==
    m.k \in {"query", "shot"} =>
        \A n \in DOMAIN mcpRan : /\ mcpRan[n].of[1] <= m.of[1]
                                 /\ mcpRan[n].of[1] = m.of[1] => mcpRan[n].app # p
Lone ==
    /\ \A i \in DOMAIN mcpSocks : Unread(i) =>
          /\ Tail(mcpSocks[i].up) = <<>>
          /\ Follows(Head(mcpSocks[i].up), mcpSocks[i].app)
          /\ mcpClient.pc # "killed" => i = Conn
    /\ \A i, j \in DOMAIN mcpSocks : Unread(i) /\ Unread(j) => i = j
Sorted ==
    \A i, j \in DOMAIN mcpRan : i < j =>
        /\ mcpRan[i].of[1] <= mcpRan[j].of[1]
        /\ mcpRan[i].of[1] = mcpRan[j].of[1] => mcpRan[i].app # mcpRan[j].app
Past ==
    \A n \in DOMAIN mcpRan :
        /\ ~Over => mcpRan[n].of[1] <= mcpClient.call
        /\ /\ mcpRan[n].of[1] = mcpClient.call
           /\ mcpClient.pc \in {"ensure", "spawned", "auth", "token", "request"}
           => ~Calls!Alive(mcpRan[n].app)
        /\ mcpRan[n].of[1] = mcpClient.call /\ mcpClient.pc = "reply" =>
              mcpRan[n].app = Sock.app \/ ~Calls!Alive(mcpRan[n].app)
RanInv == ~mcpClient.cut => Lone /\ Sorted /\ Past

\* While no wait was given up and no picture came late, a capture under way is
\* the call's own, and so is the picture.
Fit == ~mcpClient.cut /\ ~mcpClient.late /\ ~Over
PictureInv ==
    /\ mcpAnswer.kind = "picture" => mcpAnswer.own \/ mcpClient.late \/ mcpClient.cut
    /\ mcpClient.pc = "picture" => mcpClient.line = "shot"
    /\ mcpClient.call = 0 => mcpClient.line = "query"
    /\ Fit =>
        /\ \A s \in mcpShots :
              /\ mcpClient.pc \in {"reply", "picture"} /\ mcpClient.line = "shot"
              /\ s = <<Sock.app, mcpClient.call, mcpClient.try>>
        /\ mcpClient.line = "shot" => mcpFile \in {NoFile, mcpClient.call}
        /\ mcpClient.try = 1 /\ mcpShots # {} => mcpFile = NoFile
        /\ mcpClient.pc = "reply" /\ Unread(Conn) => mcpShots = {}
        /\ /\ mcpClient.try = 1 /\ mcpClient.line = "shot"
           /\ \/ mcpClient.pc \in {"ensure", "spawned", "auth", "token", "request"}
              \/ mcpClient.pc = "reply" /\ Unread(Conn)
           => mcpFile = NoFile

BridgeInv == McpType /\ Connected /\ ChildInv /\ HurtInv /\ FlightInv /\ TrustInv /\ RanInv /\ PictureInv

\* What a line that was run records.
LEMMA RanTyped ==
    ASSUME McpType, NEW n \in DOMAIN mcpRan
    PROVE  /\ mcpRan[n].of \in Nat \X Nat /\ mcpRan[n].of[1] \in Nat
           /\ mcpRan[n].app \in DOMAIN mcpProcs
<1>1. mcpRan[n] \in [of : Nat \X Nat, app : DOMAIN mcpProcs]
  <2> DEFINE R == [of : Nat \X Nat, app : DOMAIN mcpProcs]
  <2>1. mcpRan \in Seq(R)
    BY DEF McpType
  <2> HIDE DEF R
  <2>2. n \in 1..Len(mcpRan)
    BY <2>1
  <2>3. mcpRan[n] \in R
    BY <2>1, <2>2, ElementOfSeq
  <2> QED BY <2>3 DEF R
<1>2. PICK r \in [of : Nat \X Nat, app : DOMAIN mcpProcs] : r = mcpRan[n]
  BY <1>1
<1>3. r.of \in Nat \X Nat /\ r.app \in DOMAIN mcpProcs
  OBVIOUS
<1>4. \A p \in Nat \X Nat : p[1] \in Nat
  OBVIOUS
<1> QED BY <1>2, <1>3, <1>4

\* A call begins: its time has seen what stands still now.
LEMMA CallKeeps ==
    ASSUME BridgeInv, NEW line \in McpLines, Calls!Call(line)
    PROVE  BridgeInv'
<1>1. /\ mcpClient.pc = "idle" /\ mcpClient \in McpClients
      /\ mcpClient' = [mcpClient EXCEPT !.pc = "ensure", !.call = mcpClient.call + 1, !.try = 1,
                                        !.line = line, !.hurt = Calls!Hurting]
      /\ line \in {"query", "shot"} /\ Calls!Hurting \in BOOLEAN
      /\ mcpFile' = (IF line = "shot" THEN NoFile ELSE mcpFile)
      /\ UNCHANGED <<mcpProcs, mcpToken, mcpSocks, mcpRan, mcpShots, mcpAnswer, mcpFaults>>
  BY AppAssumption DEF Calls!Call, Calls!At, BridgeInv, McpType, Calls!BridgeAssumption, Calls!Hurting
<1>2. McpType'
  <2>1. PICK n \in Nat : n = mcpClient.call + 1
    BY <1>1 DEF McpClients
  <2> DEFINE h == Calls!Hurting
  <2>2. h \in BOOLEAN /\ mcpClient' = [mcpClient EXCEPT !.pc = "ensure", !.call = n, !.try = 1,
                                        !.line = line, !.hurt = h]
    BY <1>1, <2>1
  <2> HIDE DEF h
  <2>3. mcpClient' \in McpClients
    BY <1>1, <2>2 DEF McpClients, McpPlaces
  <2> QED BY <1>1, <2>3 DEF BridgeInv, McpType
<1>3. Connected'
  BY <1>1 DEF BridgeInv, Connected, Conn, Sock, Over, Calls!Serving, Calls!Alive, McpClients
<1>4. ChildInv'
  BY <1>1 DEF BridgeInv, ChildInv, Calls!Ours, Calls!Alive, McpClients
<1>5. HurtInv'
  BY <1>1 DEF BridgeInv, HurtInv, Busy, Conn, Sock, Over, Calls!Serving, Calls!Alive, Calls!Runs, McpClients, Calls!Hurting
<1>6. FlightInv'
  BY <1>1 DEF BridgeInv, FlightInv, Awaits, Asked, ItsReply, Conn, Sock, Over, Calls!Alive, McpClients
<1>7. TrustInv'
  BY <1>1 DEF BridgeInv, TrustInv
<1>8. RanInv'
  <2>1. Lone => Lone'
    BY <1>1 DEF Lone, Unread, Follows, Conn, Calls!Alive, McpClients
  <2>2. Sorted => Sorted'
    BY <1>1 DEF Sorted
  <2>3. Past => Past'
    <3>1. mcpClient.call \in Nat /\ mcpClient'.call = mcpClient.call + 1 /\ mcpClient'.pc = "ensure"
      BY <1>1 DEF McpClients
    <3>2. \A n \in DOMAIN mcpRan : mcpRan[n].of[1] \in Nat
      BY RanTyped DEF BridgeInv
    <3>3. Past => \A n \in DOMAIN mcpRan : mcpRan[n].of[1] <= mcpClient.call
      BY <1>1 DEF Past, Over
    <3>4. Past => \A n \in DOMAIN mcpRan : mcpRan[n].of[1] < mcpClient'.call
      BY <3>1, <3>2, <3>3
    <3> QED BY <1>1, <3>1, <3>2, <3>4 DEF Past, Over
  <2> QED BY <1>1, <2>1, <2>2, <2>3 DEF BridgeInv, RanInv, McpClients
<1>9. PictureInv'
  BY <1>1 DEF BridgeInv, PictureInv, Fit, Unread, Conn, Sock, Over, Calls!Alive, McpClients
<1> QED BY <1>2, <1>3, <1>4, <1>5, <1>6, <1>7, <1>8, <1>9 DEF BridgeInv

\* The connection of the last call is kept.
LEMMA KeptKeeps ==
    ASSUME BridgeInv, Calls!Kept
    PROVE  BridgeInv'
<1>1. /\ mcpClient.pc = "ensure" /\ Conn # NoFile /\ mcpClient \in McpClients
      /\ \E pc \in {"idle", "request"} : /\ mcpClient' = [mcpClient EXCEPT !.pc = pc]
                                         /\ pc = "idle" <=> mcpClient.call = 0
      /\ UNCHANGED <<mcpProcs, mcpToken, mcpSocks, mcpRan, mcpShots, mcpFile, mcpAnswer, mcpFaults>>
  BY DEF Calls!Kept, Calls!At, Calls!Goes, Calls!Ready, BridgeInv, McpType, Conn
<1>2. McpType'
  <2>1. mcpClient' \in McpClients
    BY <1>1 DEF McpClients, McpPlaces
  <2> QED BY <1>1, <2>1 DEF BridgeInv, McpType
<1>3. Connected'
  BY <1>1 DEF BridgeInv, Connected, Conn, Sock, Over, Calls!Serving, Calls!Alive, McpClients
<1>4. ChildInv'
  BY <1>1 DEF BridgeInv, ChildInv, Calls!Ours, Calls!Alive, McpClients
<1>5. HurtInv'
  BY <1>1 DEF BridgeInv, HurtInv, Busy, Conn, Sock, Over, Calls!Serving, Calls!Alive, Calls!Runs, McpClients
<1>6. FlightInv'
  BY <1>1 DEF BridgeInv, FlightInv, Awaits, Asked, ItsReply, Conn, Sock, Over, Calls!Alive, McpClients
<1>7. TrustInv'
  BY <1>1 DEF BridgeInv, TrustInv
<1>8. RanInv'
  <2>1. Lone => Lone'
    BY <1>1 DEF Lone, Unread, Follows, Conn, Calls!Alive, McpClients
  <2>2. Sorted => Sorted'
    BY <1>1 DEF Sorted
  <2>3. Past => Past'
    BY <1>1 DEF Past, Sock, Conn, Over, Calls!Alive, McpClients
  <2> QED BY <1>1, <2>1, <2>2, <2>3 DEF BridgeInv, RanInv, McpClients
<1>9. PictureInv'
  BY <1>1 DEF BridgeInv, PictureInv, Fit, Unread, Conn, Sock, Over, Calls!Alive, McpClients
<1> QED BY <1>2, <1>3, <1>4, <1>5, <1>6, <1>7, <1>8, <1>9 DEF BridgeInv

\* The app spawned takes its time.
LEMMA TakesTooLongKeeps ==
    ASSUME BridgeInv, Calls!TakesTooLong
    PROVE  BridgeInv'
<1>1. /\ mcpClient.pc = "spawned" /\ mcpClient \in McpClients
      /\ mcpClient' = [mcpClient EXCEPT !.hurt = TRUE]
      /\ UNCHANGED <<mcpProcs, mcpToken, mcpSocks, mcpRan, mcpShots, mcpFile, mcpAnswer, mcpFaults>>
  BY DEF Calls!TakesTooLong, Calls!At, BridgeInv, McpType
<1>2. McpType'
  <2>1. mcpClient' \in McpClients
    BY <1>1 DEF McpClients, McpPlaces
  <2> QED BY <1>1, <2>1 DEF BridgeInv, McpType
<1>3. Connected'
  BY <1>1 DEF BridgeInv, Connected, Conn, Sock, Over, Calls!Serving, Calls!Alive, McpClients
<1>4. ChildInv'
  BY <1>1 DEF BridgeInv, ChildInv, Calls!Ours, Calls!Alive, McpClients
<1>5. HurtInv'
  BY <1>1 DEF BridgeInv, HurtInv, Busy, Conn, Sock, Over, Calls!Serving, Calls!Alive, Calls!Runs, McpClients
<1>6. FlightInv'
  BY <1>1 DEF BridgeInv, FlightInv, Awaits, Asked, ItsReply, Conn, Sock, Over, Calls!Alive, McpClients
<1>7. TrustInv'
  BY <1>1 DEF BridgeInv, TrustInv
<1>8. RanInv'
  <2>1. Lone => Lone'
    BY <1>1 DEF Lone, Unread, Follows, Conn, Calls!Alive, McpClients
  <2>2. Sorted => Sorted'
    BY <1>1 DEF Sorted
  <2>3. Past => Past'
    BY <1>1 DEF Past, Sock, Conn, Over, Calls!Alive, McpClients
  <2> QED BY <1>1, <2>1, <2>2, <2>3 DEF BridgeInv, RanInv, McpClients
<1>9. PictureInv'
  BY <1>1 DEF BridgeInv, PictureInv, Fit, Unread, Conn, Sock, Over, Calls!Alive, McpClients
<1> QED BY <1>2, <1>3, <1>4, <1>5, <1>6, <1>7, <1>8, <1>9 DEF BridgeInv

\* No picture in time.
LEMMA PictureLateKeeps ==
    ASSUME BridgeInv, Calls!PictureLate
    PROVE  BridgeInv'
<1>1. /\ mcpClient.pc = "picture" /\ mcpClient \in McpClients
      /\ mcpClient' = [mcpClient EXCEPT !.pc = "idle", !.late = TRUE]
      /\ mcpAnswer' \in McpAnswers /\ mcpAnswer'.kind = "late"
      /\ UNCHANGED <<mcpProcs, mcpToken, mcpSocks, mcpRan, mcpShots, mcpFile, mcpFaults>>
  BY DEF Calls!PictureLate, Calls!At, Calls!Answer, Calls!NoAnswer, McpAnswers, McpClients, BridgeInv, McpType
<1>2. McpType'
  <2>1. mcpClient' \in McpClients
    BY <1>1 DEF McpClients, McpPlaces
  <2> QED BY <1>1, <2>1 DEF BridgeInv, McpType
<1>3. Connected'
  BY <1>1 DEF BridgeInv, Connected, Conn, Sock, Over, Calls!Serving, Calls!Alive, McpClients
<1>4. ChildInv'
  BY <1>1 DEF BridgeInv, ChildInv, Calls!Ours, Calls!Alive, McpClients
<1>5. HurtInv'
  BY <1>1 DEF BridgeInv, HurtInv, Busy, Conn, Sock, Over, Calls!Serving, Calls!Alive, Calls!Runs, McpClients
<1>6. FlightInv'
  BY <1>1 DEF BridgeInv, FlightInv, Awaits, Asked, ItsReply, Conn, Sock, Over, Calls!Alive, McpClients
<1>7. TrustInv'
  BY <1>1 DEF BridgeInv, TrustInv
<1>8. RanInv'
  <2>1. Lone => Lone'
    BY <1>1 DEF Lone, Unread, Follows, Conn, Calls!Alive, McpClients
  <2>2. Sorted => Sorted'
    BY <1>1 DEF Sorted
  <2>3. Past => Past'
    BY <1>1 DEF Past, Sock, Conn, Over, Calls!Alive, McpClients
  <2> QED BY <1>1, <2>1, <2>2, <2>3 DEF BridgeInv, RanInv, McpClients
<1>9. PictureInv'
  BY <1>1 DEF BridgeInv, PictureInv, Fit, Unread, Conn, Sock, Over, Calls!Alive, McpClients
<1> QED BY <1>2, <1>3, <1>4, <1>5, <1>6, <1>7, <1>8, <1>9 DEF BridgeInv

\* The picture is there.
LEMMA PictureKeeps ==
    ASSUME BridgeInv, Calls!Picture
    PROVE  BridgeInv'
<1>1. /\ mcpClient.pc = "picture" /\ mcpClient \in McpClients /\ mcpFile # NoFile
      /\ \E late \in BOOLEAN : /\ mcpClient' = [mcpClient EXCEPT !.pc = "idle", !.late = late]
                               /\ late <=> mcpClient.late \/ mcpClient.try = 2
      /\ mcpAnswer' \in McpAnswers /\ mcpAnswer'.kind = "picture" /\ (mcpFile = mcpClient.call => mcpAnswer'.own)
      /\ mcpFile' = NoFile
      /\ UNCHANGED <<mcpProcs, mcpToken, mcpSocks, mcpRan, mcpShots, mcpFaults>>
  BY DEF Calls!Picture, Calls!At, Calls!Answer, Calls!NoAnswer, McpAnswers, McpClients, BridgeInv, McpType
<1>2. McpType'
  <2>1. mcpClient' \in McpClients
    BY <1>1 DEF McpClients, McpPlaces
  <2> QED BY <1>1, <2>1 DEF BridgeInv, McpType
<1>3. Connected'
  BY <1>1 DEF BridgeInv, Connected, Conn, Sock, Over, Calls!Serving, Calls!Alive, McpClients
<1>4. ChildInv'
  BY <1>1 DEF BridgeInv, ChildInv, Calls!Ours, Calls!Alive, McpClients
<1>5. HurtInv'
  BY <1>1 DEF BridgeInv, HurtInv, Busy, Conn, Sock, Over, Calls!Serving, Calls!Alive, Calls!Runs, McpClients
<1>6. FlightInv'
  BY <1>1 DEF BridgeInv, FlightInv, Awaits, Asked, ItsReply, Conn, Sock, Over, Calls!Alive, McpClients
<1>7. TrustInv'
  BY <1>1 DEF BridgeInv, TrustInv
<1>8. RanInv'
  <2>1. Lone => Lone'
    BY <1>1 DEF Lone, Unread, Follows, Conn, Calls!Alive, McpClients
  <2>2. Sorted => Sorted'
    BY <1>1 DEF Sorted
  <2>3. Past => Past'
    BY <1>1 DEF Past, Sock, Conn, Over, Calls!Alive, McpClients
  <2> QED BY <1>1, <2>1, <2>2, <2>3 DEF BridgeInv, RanInv, McpClients
<1>9. PictureInv'
  BY <1>1 DEF BridgeInv, PictureInv, Fit, Unread, Conn, Sock, Over, Calls!Alive, McpClients
<1> QED BY <1>2, <1>3, <1>4, <1>5, <1>6, <1>7, <1>8, <1>9 DEF BridgeInv

\* Steps of the processes by which none dies.
LEMMA ProcsGoOn ==
    ASSUME BridgeInv, mcpProcs' \in Seq(McpProcs), mcpToken' \in Nat,
           DOMAIN mcpProcs \subseteq DOMAIN mcpProcs',
           \A p \in DOMAIN mcpProcs :
              /\ mcpProcs'[p].ours = mcpProcs[p].ours
              /\ mcpProcs'[p].state = "dead" <=> mcpProcs[p].state = "dead"
              /\ mcpProcs[p].state = "serves" => mcpProcs'[p].state = "serves",
           \A p \in DOMAIN mcpProcs' \ DOMAIN mcpProcs : ~mcpProcs'[p].ours /\ ~mcpProcs'[p].still,
           \A p \in DOMAIN mcpProcs' : mcpProcs'[p].state = "serves" => p = mcpToken',
           NEW h \in BOOLEAN, mcpClient' = [mcpClient EXCEPT !.hurt = h],
           mcpClient.hurt => h,
           \/ h \/ mcpClient.pc = "idle"
           \/ \A p \in DOMAIN mcpProcs : mcpProcs'[p].still => mcpProcs[p].still,
           UNCHANGED <<mcpSocks, mcpRan, mcpShots, mcpFile, mcpAnswer>>, mcpFaults' \in Nat
    PROVE  BridgeInv'
<1>1. /\ mcpClient \in McpClients /\ mcpProcs \in Seq(McpProcs) /\ Connected
      /\ \A i \in DOMAIN mcpSocks : mcpSocks[i].app # 0 => mcpSocks[i].app \in DOMAIN mcpProcs
      /\ \A s \in mcpShots : s[1] \in DOMAIN mcpProcs
      /\ \A n \in DOMAIN mcpRan : mcpRan[n].app \in DOMAIN mcpProcs
  <2>1. \A t \in (DOMAIN mcpProcs) \X Nat \X Nat : t[1] \in DOMAIN mcpProcs
    OBVIOUS
  <2> QED BY <2>1, RanTyped DEF BridgeInv, McpType, Connected
<1>2. mcpClient' \in McpClients /\ mcpClient'.hurt = h
      /\ \A f \in {"pc", "target", "call", "try", "line", "conn", "child", "cut", "late"} :
            mcpClient'[f] = mcpClient[f]
  BY <1>1 DEF McpClients
<1>3. \A p \in DOMAIN mcpProcs : Calls!Alive(p)' <=> Calls!Alive(p)
  BY DEF Calls!Alive
<1>4. Calls!Serving \subseteq Calls!Serving' /\ Calls!Ours' = Calls!Ours
      /\ \A p \in Calls!Serving' : p = mcpToken'
  BY <1>3 DEF Calls!Serving, Calls!Ours
<1>5. McpType'
  <2>1. DOMAIN mcpProcs \subseteq DOMAIN mcpProcs' /\ mcpRan \in Seq([of : Nat \X Nat, app : DOMAIN mcpProcs])
    BY DEF BridgeInv, McpType
  <2>2. [of : Nat \X Nat, app : DOMAIN mcpProcs] \subseteq [of : Nat \X Nat, app : DOMAIN mcpProcs']
    BY <2>1
  <2>3. \A S, T : S \subseteq T => Seq(S) \subseteq Seq(T)
    OBVIOUS
  <2>4. mcpRan' \in Seq([of : Nat \X Nat, app : DOMAIN mcpProcs'])
    <3> DEFINE R == [of : Nat \X Nat, app : DOMAIN mcpProcs]
               T == [of : Nat \X Nat, app : DOMAIN mcpProcs']
    <3>1. mcpRan \in Seq(R) /\ R \subseteq T /\ mcpRan' = mcpRan
      BY <2>1, <2>2
    <3> HIDE DEF R, T
    <3>2. mcpRan' \in Seq(T)
      BY <2>3, <3>1
    <3> QED BY <3>2 DEF T
  <2>5. mcpShots' \subseteq (DOMAIN mcpProcs') \X Nat \X Nat
    BY <2>1 DEF BridgeInv, McpType
  <2> QED BY <1>2, <2>4, <2>5 DEF BridgeInv, McpType
<1>6. Connected'
  BY <1>1, <1>2, <1>3, <1>4 DEF Connected, Conn, Sock, Over
<1>7. ChildInv'
  BY <1>2, <1>4 DEF BridgeInv, ChildInv
<1>8. HurtInv'
  <2>1. mcpAnswer.kind = "error" => mcpAnswer.hurt
    BY DEF BridgeInv, HurtInv
  <2>2. Busy' => Busy /\ mcpClient.pc # "idle"
    BY <1>2 DEF Busy, Over
  <2>3. Busy' /\ mcpClient.target = "addr" /\ Calls!Serving' = {} => h
    BY <1>4, <2>2 DEF BridgeInv, HurtInv
  <2>4. Busy' /\ mcpClient.try = 2 /\ Conn # NoFile /\ ~Calls!Alive(Sock.app)' => h
    BY <1>1, <1>2, <1>3, <2>2 DEF BridgeInv, HurtInv, Connected, Conn, Sock
  <2>5. ASSUME Busy', NEW p \in DOMAIN mcpProcs', Calls!Alive(p)', ~Calls!Runs(p)'
        PROVE  h
    BY <1>3, <2>2, <2>5 DEF BridgeInv, HurtInv, Calls!Runs
  <2> QED BY <1>2, <2>1, <2>3, <2>4, <2>5 DEF BridgeInv, HurtInv, Busy, Over, Conn, Sock
<1>9. FlightInv'
  BY <1>1, <1>2, <1>3 DEF BridgeInv, Connected, FlightInv, Awaits, Asked, ItsReply, Conn, Sock,
                          Calls!LineOf
<1>10. TrustInv'
  BY DEF BridgeInv, TrustInv
<1>11. RanInv'
  BY <1>1, <1>2, <1>3 DEF BridgeInv, Connected, RanInv, Lone, Sorted, Past, Unread, Follows, Conn,
                          Sock, Over
<1>12. PictureInv'
  BY <1>1, <1>2, <1>3 DEF BridgeInv, Connected, PictureInv, Fit, Unread, Conn, Sock, Over
<1> QED BY <1>5, <1>6, <1>7, <1>8, <1>9, <1>10, <1>11, <1>12 DEF BridgeInv

\* An app of somebody else starts.
LEMMA LaunchKeeps ==
    ASSUME BridgeInv, Calls!Launch
    PROVE  BridgeInv'
<1>1. mcpClient \in McpClients /\ mcpProcs \in Seq(McpProcs) /\ mcpToken \in Nat /\ mcpFaults \in Nat
  BY DEF BridgeInv, McpType
<1>2. PICK t \in McpProcs : t.ours = FALSE /\ t.state = "starts" /\ t.still = FALSE /\ t = Calls!Process(FALSE)
  BY DEF Calls!Process, McpProcs
<1>3. mcpProcs' = Append(mcpProcs, t) /\ mcpToken' = mcpToken /\ mcpFaults' = mcpFaults
      /\ UNCHANGED <<mcpClient, mcpSocks, mcpRan, mcpShots, mcpFile, mcpAnswer>>
  BY <1>2 DEF Calls!Launch
<1>4. /\ mcpProcs' \in Seq(McpProcs) /\ DOMAIN mcpProcs' = DOMAIN mcpProcs \cup {Len(mcpProcs) + 1}
      /\ mcpProcs'[Len(mcpProcs) + 1] = t
      /\ \A p \in DOMAIN mcpProcs : mcpProcs'[p] = mcpProcs[p]
  BY <1>1, <1>3
<1>5. mcpClient' = [mcpClient EXCEPT !.hurt = mcpClient.hurt] /\ mcpClient.hurt \in BOOLEAN
  BY <1>1, <1>3 DEF McpClients
<1>6. \A p \in DOMAIN mcpProcs' : mcpProcs'[p].state = "serves" => p = mcpToken'
  BY <1>2, <1>3, <1>4 DEF BridgeInv, Connected, Calls!Serving
<1> QED BY <1>1, <1>2, <1>3, <1>4, <1>5, <1>6, ProcsGoOn

\* What a process does to itself: it serves or is deaf, stands still, goes on.
LEMMA ProcGoesOn ==
    ASSUME BridgeInv, NEW p \in DOMAIN mcpProcs,
           Calls!Listen(p) \/ Calls!StandStill(p) \/ Calls!Resume(p)
    PROVE  BridgeInv'
<1>1. /\ mcpClient \in McpClients /\ mcpProcs \in Seq(McpProcs) /\ mcpToken \in Nat /\ mcpFaults \in Nat
      /\ p \in Nat /\ \A q \in Calls!Serving : q = mcpToken
  BY DEF BridgeInv, McpType, Connected
<1>2. PICK s \in McpProcs : s = mcpProcs[p]
  BY <1>1
<1>3. PICK t \in McpProcs :
        /\ mcpProcs' = [mcpProcs EXCEPT ![p] = t] /\ t.ours = s.ours
        /\ t.state = "dead" <=> s.state = "dead"
        /\ s.state = "serves" => t.state = "serves"
        /\ t.state = "serves" => \/ s.state = "serves" /\ mcpToken' = mcpToken
                                 \/ Calls!Serving = {} /\ mcpToken' = p
        /\ mcpToken' \in {mcpToken, p} /\ (Calls!Serving # {} => mcpToken' = mcpToken)
        /\ t.still => s.still \/ Calls!Hurt
        /\ Calls!Hurt \/ mcpClient' = mcpClient
        /\ UNCHANGED <<mcpSocks, mcpRan, mcpShots, mcpFile, mcpAnswer>>
        /\ mcpFaults' \in {mcpFaults, mcpFaults + 1}
  <2>1. CASE Calls!Listen(p) /\ Calls!Serving = {}
    BY <1>1, <1>2, <2>1 DEF Calls!Listen, Calls!Runs, Calls!Alive, McpProcs
  <2>2. CASE Calls!Listen(p) /\ Calls!Serving # {}
    BY <1>1, <1>2, <2>2 DEF Calls!Listen, Calls!Runs, Calls!Alive, McpProcs
  <2>3. CASE Calls!StandStill(p)
    BY <1>1, <1>2, <2>3 DEF Calls!StandStill, Calls!Runs, Calls!Alive, McpProcs, Calls!Serving
  <2>4. CASE Calls!Resume(p)
    BY <1>1, <1>2, <2>4 DEF Calls!Resume, Calls!Runs, Calls!Alive, McpProcs, Calls!Serving
  <2> QED BY <2>1, <2>2, <2>3, <2>4
<1>4. /\ mcpProcs' \in Seq(McpProcs) /\ DOMAIN mcpProcs' = DOMAIN mcpProcs /\ mcpProcs'[p] = t
      /\ \A q \in DOMAIN mcpProcs : q # p => mcpProcs'[q] = mcpProcs[q]
      /\ mcpToken' \in Nat /\ mcpFaults' \in Nat
  BY <1>1, <1>3
<1>5. PICK h \in BOOLEAN :
        /\ mcpClient' = [mcpClient EXCEPT !.hurt = h] /\ (mcpClient.hurt => h)
        /\ h \/ mcpClient.pc = "idle" \/ (t.still => s.still)
  <2>1. CASE Calls!Hurt
    BY <1>1, <2>1 DEF Calls!Hurt, Calls!At, McpClients
  <2>2. CASE ~Calls!Hurt
    <3>1. mcpClient' = [mcpClient EXCEPT !.hurt = mcpClient.hurt] /\ mcpClient.hurt \in BOOLEAN
      BY <1>1, <1>3, <2>2 DEF McpClients
    <3> QED BY <1>3, <2>2, <3>1
  <2> QED BY <2>1, <2>2
<1>6. \A q \in DOMAIN mcpProcs' : mcpProcs'[q].state = "serves" => q = mcpToken'
  BY <1>1, <1>2, <1>3, <1>4 DEF Calls!Serving
<1> QED BY <1>1, <1>2, <1>3, <1>4, <1>5, <1>6, ProcsGoOn

\* A connection is a record of its type.
LEMMA SockTyped ==
    ASSUME McpType, NEW i \in DOMAIN mcpSocks
    PROVE  mcpSocks[i] \in McpSocks
<1> DEFINE R == McpSocks
<1>1. mcpSocks \in Seq(R)
  BY DEF McpType
<1> HIDE DEF R
<1>2. i \in 1..Len(mcpSocks)
  BY <1>1
<1>3. mcpSocks[i] \in R
  BY <1>1, <1>2, ElementOfSeq
<1> QED BY <1>3 DEF R

\* A forgotten connection belongs to no app and holds no line.
LEMMA GoneTyped == Calls!Gone \in McpSocks /\ Calls!Gone.app = 0 /\ Calls!Gone.up = <<>>
<1>1. <<>> \in Seq(McpAsks) /\ <<>> \in Seq(McpReplies)
  OBVIOUS
<1> QED BY <1>1 DEF Calls!Gone, McpSocks

\* The connections after some of them changed, and were forgotten if nobody
\* holds them.
LEMMA SweptTyped ==
    ASSUME NEW n \in Nat, NEW s, DOMAIN s = 1..n, \A i \in 1..n : s[i] \in McpSocks
    PROVE  /\ Calls!Swept(s) \in Seq(McpSocks) /\ DOMAIN Calls!Swept(s) = 1..n
           /\ \A i \in 1..n : \/ Calls!Swept(s)[i] = s[i] /\ (s[i].open \/ s[i].up # <<>>)
                              \/ Calls!Swept(s)[i] = Calls!Gone /\ ~s[i].open /\ s[i].up = <<>>
<1> DEFINE R == McpSocks
           f == Calls!Swept(s)
<1>1. DOMAIN f = 1..n /\ f = [i \in 1..n |-> IF ~s[i].open /\ s[i].up = <<>> THEN Calls!Gone ELSE s[i]]
  BY DEF Calls!Swept
<1>2. \A i \in 1..n : f[i] = IF ~s[i].open /\ s[i].up = <<>> THEN Calls!Gone ELSE s[i]
  BY <1>1
<1>3. \A i \in 1..n : f[i] \in R
  BY <1>2, GoneTyped
<1>4. f \in [1..n -> R]
  <2> HIDE DEF R
  <2>1. f = [i \in 1..n |-> f[i]]
    BY <1>1
  <2> QED BY <1>3, <2>1
<1>5. f \in Seq(R)
  BY <1>4, SeqDef
<1> QED BY <1>1, <1>2, <1>5

\* A process dies: with it go its lines, its captures, and perhaps its answers.
LEMMA DiesKeeps ==
    ASSUME BridgeInv, NEW p \in DOMAIN mcpProcs, NEW kept \in BOOLEAN, Calls!Dies(p, kept),
           mcpFaults' \in Nat
    PROVE  BridgeInv'
<1>1. /\ mcpClient \in McpClients /\ mcpProcs \in Seq(McpProcs) /\ mcpToken \in Nat
      /\ mcpSocks \in Seq(McpSocks) /\ p \in Nat /\ p # 0 /\ Connected
      /\ \A i \in DOMAIN mcpSocks : mcpSocks[i] \in McpSocks
      /\ UNCHANGED <<mcpToken, mcpRan, mcpFile, mcpAnswer>>
      /\ mcpShots' = {s \in mcpShots : s[1] # p}
  <2>1. McpType /\ Connected /\ \A i \in DOMAIN mcpSocks : mcpSocks[i] \in McpSocks
    BY SockTyped DEF BridgeInv
  <2>2. /\ UNCHANGED <<mcpToken, mcpRan, mcpFile, mcpAnswer>>
        /\ mcpShots' = {s \in mcpShots : s[1] # p}
    BY DEF Calls!Dies
  <2>3. p \in Nat /\ p # 0
    BY <2>1 DEF McpType
  <2> QED BY <2>1, <2>2, <2>3 DEF McpType
<1>2. PICK t \in McpProcs : t.state = "dead" /\ t.ours = mcpProcs[p].ours
                            /\ mcpProcs' = [mcpProcs EXCEPT ![p] = t]
  <2>1. mcpProcs[p] \in McpProcs
    BY <1>1
  <2> QED BY <1>1, <2>1 DEF Calls!Dies, McpProcs
<1>3. /\ mcpProcs' \in Seq(McpProcs) /\ DOMAIN mcpProcs' = DOMAIN mcpProcs
      /\ mcpProcs'[p] = t /\ \A q \in DOMAIN mcpProcs : q # p => mcpProcs'[q] = mcpProcs[q]
  BY <1>1, <1>2
<1>4. /\ \A q \in DOMAIN mcpProcs : Calls!Alive(q)' <=> Calls!Alive(q) /\ q # p
      /\ Calls!Serving' = Calls!Serving \ {p} /\ Calls!Ours' = Calls!Ours \ {p}
  BY <1>2, <1>3 DEF Calls!Alive, Calls!Serving, Calls!Ours
<1>5. PICK h \in BOOLEAN : /\ mcpClient' = [mcpClient EXCEPT !.hurt = h] /\ (mcpClient.hurt => h)
                           /\ h \/ mcpClient.pc = "idle"
  BY <1>1 DEF Calls!Dies, Calls!Hurt, Calls!At, McpClients
<1>6. mcpClient' \in McpClients /\ mcpClient'.hurt = h
      /\ \A f \in {"pc", "target", "call", "try", "line", "conn", "child", "cut", "late"} :
            mcpClient'[f] = mcpClient[f]
  BY <1>1, <1>5 DEF McpClients
<1>7. /\ mcpSocks' \in Seq(McpSocks) /\ DOMAIN mcpSocks' = DOMAIN mcpSocks
      /\ \A i \in DOMAIN mcpSocks :
            \/ mcpSocks'[i] = Calls!Gone /\ ~mcpSocks[i].open
            \/ mcpSocks'[i] = mcpSocks[i] /\ mcpSocks[i].app # p
            \/ /\ mcpSocks[i].app = p /\ mcpSocks'[i].up = <<>>
               /\ mcpSocks'[i].down \in {<<>>, mcpSocks[i].down}
               /\ \A f \in {"app", "open", "trusted", "cut"} : mcpSocks'[i][f] = mcpSocks[i][f]
  <2> DEFINE cleared(i) == [mcpSocks[i] EXCEPT !.up = <<>>, !.down = IF kept THEN @ ELSE <<>>]
             f == [i \in DOMAIN mcpSocks |-> IF mcpSocks[i].app = p THEN cleared(i) ELSE mcpSocks[i]]
  <2>1. mcpSocks' = Calls!Swept(f)
    BY DEF Calls!Dies
  <2>2. ASSUME NEW i \in DOMAIN mcpSocks
        PROVE  /\ cleared(i) \in McpSocks /\ cleared(i).up = <<>>
               /\ cleared(i).down \in {<<>>, mcpSocks[i].down}
               /\ \A g \in {"app", "open", "trusted", "cut"} : cleared(i)[g] = mcpSocks[i][g]
    <3>1. mcpSocks[i] \in McpSocks /\ <<>> \in Seq(McpAsks) /\ <<>> \in Seq(McpReplies)
      BY <1>1
    <3> QED BY <3>1 DEF McpSocks
  <2>3. Len(mcpSocks) \in Nat /\ DOMAIN mcpSocks = 1..Len(mcpSocks) /\ DOMAIN f = DOMAIN mcpSocks
    BY <1>1
  <2>4. \A i \in DOMAIN mcpSocks : f[i] = IF mcpSocks[i].app = p THEN cleared(i) ELSE mcpSocks[i]
    OBVIOUS
  <2>5. \A i \in DOMAIN mcpSocks : f[i] \in McpSocks
    BY <1>1, <2>2, <2>4
  <2> HIDE DEF f
  <2>6. /\ Calls!Swept(f) \in Seq(McpSocks) /\ DOMAIN Calls!Swept(f) = DOMAIN mcpSocks
        /\ \A i \in DOMAIN mcpSocks : \/ Calls!Swept(f)[i] = f[i]
                                      \/ Calls!Swept(f)[i] = Calls!Gone /\ ~f[i].open
    BY <2>3, <2>5, SweptTyped
  <2> HIDE DEF cleared
  <2> QED BY <2>1, <2>2, <2>4, <2>6
<1>8. /\ \A i \in DOMAIN mcpSocks : Unread(i)' => Unread(i) /\ mcpSocks'[i] = mcpSocks[i]
      /\ \A i \in DOMAIN mcpSocks : mcpSocks'[i].app \in {0, mcpSocks[i].app}
      /\ Conn # NoFile =>
            /\ Sock' = Sock /\ Sock.app # p
            \/ /\ Sock'.app = Sock.app /\ Sock'.open = Sock.open /\ Sock'.cut = Sock.cut
               /\ Sock.app = p /\ Sock'.down \in {<<>>, Sock.down}
  <2>1. ASSUME NEW i \in DOMAIN mcpSocks, Unread(i)' PROVE Unread(i) /\ mcpSocks'[i] = mcpSocks[i]
    BY <1>1, <1>4, <1>7, <2>1, GoneTyped DEF Unread, Connected
  <2>2. \A i \in DOMAIN mcpSocks : mcpSocks'[i].app \in {0, mcpSocks[i].app}
    BY <1>7, GoneTyped
  <2>3. Conn' = Conn
    BY <1>6 DEF Conn
  <2> QED BY <1>1, <1>7, <2>1, <2>2, <2>3 DEF Connected, Sock
<1>9. McpType'
  <2>1. mcpShots' \subseteq (DOMAIN mcpProcs') \X Nat \X Nat
    BY <1>1, <1>3 DEF BridgeInv, McpType
  <2> QED BY <1>1, <1>3, <1>6, <1>7, <2>1 DEF BridgeInv, McpType
<1>10. Connected'
  <2>1. \A i \in DOMAIN mcpSocks' : mcpSocks'[i].app # 0 =>
           /\ mcpSocks'[i].app \in DOMAIN mcpProcs'
           /\ mcpProcs'[mcpSocks'[i].app].state \in {"serves", "dead"}
    BY <1>1, <1>2, <1>3, <1>7, <1>8 DEF Connected
  <2>2. \A s \in mcpShots' : Calls!Alive(s[1])'
    <3>1. \A s \in (DOMAIN mcpProcs) \X Nat \X Nat : s[1] \in DOMAIN mcpProcs
      OBVIOUS
    <3>2. \A s \in mcpShots : s[1] \in DOMAIN mcpProcs
      BY <3>1 DEF BridgeInv, McpType
    <3> QED BY <1>1, <1>4, <3>2 DEF Connected
  <2> QED BY <1>1, <1>4, <1>6, <1>7, <1>8, <2>1, <2>2 DEF Connected, Conn, Over
<1>11. ChildInv'
  BY <1>4, <1>6 DEF BridgeInv, ChildInv
<1>12. HurtInv'
  BY <1>1, <1>5, <1>6 DEF BridgeInv, HurtInv, Busy, Over, Conn
<1>13. FlightInv'
  <2>1. CASE Conn = NoFile
    BY <1>6, <2>1 DEF FlightInv, Conn
  <2>2. CASE Conn # NoFile
    <3>1. Sock'.app \in DOMAIN mcpProcs /\ Sock'.app = Sock.app
      BY <1>1, <1>8, <2>2 DEF Connected, Sock
    <3> QED BY <1>4, <1>6, <1>8, <2>2, <3>1
            DEF BridgeInv, FlightInv, Awaits, Asked, ItsReply, Conn, Calls!LineOf, Calls!Token
  <2> QED BY <2>1, <2>2
<1>14. TrustInv'
  BY <1>1 DEF BridgeInv, TrustInv
<1>15. RanInv'
  <2>1. Lone => Lone'
    BY <1>1, <1>6, <1>7, <1>8 DEF Lone, Follows, Conn
  <2>2. Sorted => Sorted'
    BY <1>1 DEF Sorted
  <2>3. Past => Past'
    <3>1. \A n \in DOMAIN mcpRan : mcpRan[n].app \in DOMAIN mcpProcs
      BY RanTyped DEF BridgeInv
    <3>2. mcpClient.pc = "reply" => Sock'.app = Sock.app
      BY <1>1, <1>8 DEF Connected
    <3> QED BY <1>1, <1>4, <1>6, <3>1, <3>2 DEF Past, Over
  <2> QED BY <1>6, <2>1, <2>2, <2>3 DEF BridgeInv, RanInv
<1>16. PictureInv'
  <2>1. mcpClient.pc \in {"reply", "picture"} => Sock'.app = Sock.app /\ Conn \in DOMAIN mcpSocks
    BY <1>1, <1>8 DEF Connected
  <2>2. Conn \in DOMAIN mcpSocks /\ Unread(Conn)' => Unread(Conn)
    BY <1>6, <1>8 DEF Conn, Unread
  <2> QED BY <1>1, <1>6, <2>1, <2>2 DEF BridgeInv, PictureInv, Fit, Over
<1> QED BY <1>9, <1>10, <1>11, <1>12, <1>13, <1>14, <1>15, <1>16 DEF BridgeInv

\* An app crashes, or its watchdog ends it.
LEMMA CrashKeeps ==
    ASSUME BridgeInv, NEW p \in DOMAIN mcpProcs, NEW kept \in BOOLEAN,
           Calls!Crash(p, kept) \/ Calls!Orphaned(p)
    PROVE  BridgeInv'
<1>1. mcpFaults \in Nat
  BY DEF BridgeInv, McpType
<1>2. CASE Calls!Crash(p, kept)
  BY <1>1, <1>2, DiesKeeps DEF Calls!Crash
<1>3. CASE Calls!Orphaned(p)
  BY <1>1, <1>3, DiesKeeps DEF Calls!Orphaned
<1> QED BY <1>2, <1>3

\* A picture is written, or given up.
LEMMA ShootKeeps ==
    ASSUME BridgeInv, NEW s \in mcpShots, Calls!Shoot(s)
    PROVE  BridgeInv'
<1>1. /\ UNCHANGED <<mcpProcs, mcpToken, mcpSocks, mcpClient, mcpRan, mcpAnswer, mcpFaults>>
      /\ mcpShots' = mcpShots \ {s} /\ mcpFile' \in {mcpFile, s[2]}
      /\ mcpClient \in McpClients
  BY DEF Calls!Shoot, BridgeInv, McpType
<1>2. s[2] \in Nat
  <2>1. s \in (DOMAIN mcpProcs) \X Nat \X Nat
    BY DEF BridgeInv, McpType
  <2> QED BY <2>1
<1>3. McpType'
  BY <1>1, <1>2 DEF BridgeInv, McpType
<1>4. Connected' /\ ChildInv' /\ HurtInv' /\ FlightInv' /\ TrustInv' /\ RanInv'
  BY <1>1 DEF BridgeInv, Connected, Calls!Serving, Calls!Alive, Conn, Sock, Over, ChildInv, Calls!Ours,
              HurtInv, Busy, Calls!Runs, FlightInv, Awaits, Asked, ItsReply, Calls!LineOf, TrustInv,
              RanInv, Lone, Sorted, Past, Unread, Follows
<1>5. PictureInv'
  <2>1. Fit => s = <<Sock.app, mcpClient.call, mcpClient.try>>
    BY DEF BridgeInv, PictureInv
  <2>2. Fit => s[2] = mcpClient.call /\ mcpShots' = {}
    BY <1>1, <2>1 DEF BridgeInv, PictureInv
  <2>3. Fit /\ mcpClient.pc \in {"ensure", "spawned", "auth", "token", "request"} => FALSE
    BY DEF BridgeInv, PictureInv
  <2>4. Unread(Conn)' <=> Unread(Conn)
    BY <1>1 DEF Unread, Conn, Calls!Alive
  <2>5. Fit /\ mcpClient.pc = "reply" => ~Unread(Conn)
    BY DEF BridgeInv, PictureInv
  <2> QED BY <1>1, <2>2, <2>3, <2>4, <2>5 DEF BridgeInv, PictureInv, Fit, Over
<1> QED BY <1>3, <1>4, <1>5 DEF BridgeInv

\* A step of the client on its connection t: the call, its attempt and the
\* process stay as they are.
LEMMA OnConnection ==
    ASSUME BridgeInv, Conn # NoFile, NEW t \in McpSocks, t.app = Sock.app, t.open,
           mcpSocks' = [mcpSocks EXCEPT ![Conn] = t],
           NEW pc \in {"auth", "token", "request", "reply", "picture", "idle"},
           NEW c \in BOOLEAN, mcpClient.cut => c,
           mcpClient' = [mcpClient EXCEPT !.pc = pc, !.cut = c],
           mcpClient.pc \in {"auth", "token", "request", "reply", "picture"},
           mcpClient.call = 0 => pc \in {"auth", "token", "idle"},
           mcpAnswer' \in McpAnswers, mcpAnswer' = mcpAnswer \/ mcpAnswer'.kind # "error",
           UNCHANGED <<mcpProcs, mcpToken, mcpRan, mcpShots, mcpFile, mcpFaults>>
    PROVE  /\ McpType' /\ Connected' /\ ChildInv' /\ HurtInv'
           /\ mcpClient' \in McpClients /\ mcpClient'.pc = pc /\ mcpClient'.cut = c
           /\ \A f \in {"target", "call", "try", "line", "conn", "child", "hurt", "late"} :
                 mcpClient'[f] = mcpClient[f]
           /\ Conn' = Conn /\ Sock' = t
           /\ \A p : Calls!Alive(p)' <=> Calls!Alive(p)
           /\ /\ RanInv /\ ~c
              /\ Calls!Alive(t.app) => \/ t.up = Sock.up \/ t.up = <<>>
                                       \/ Tail(t.up) = <<>> /\ Follows(Head(t.up), t.app)
              => Lone' /\ Sorted'
<1>1. /\ mcpClient \in McpClients /\ mcpSocks \in Seq(McpSocks) /\ Connected
      /\ Conn \in DOMAIN mcpSocks /\ Sock \in McpSocks
  BY SockTyped DEF BridgeInv, McpType, Connected, Sock
<1>2. /\ mcpClient' \in McpClients /\ mcpClient'.pc = pc /\ mcpClient'.cut = c
      /\ \A f \in {"target", "call", "try", "line", "conn", "child", "hurt", "late"} :
            mcpClient'[f] = mcpClient[f]
  BY <1>1 DEF McpClients, McpPlaces
<1>3. /\ mcpSocks' \in Seq(McpSocks) /\ DOMAIN mcpSocks' = DOMAIN mcpSocks /\ mcpSocks'[Conn] = t
      /\ \A i \in DOMAIN mcpSocks : i # Conn => mcpSocks'[i] = mcpSocks[i]
  BY <1>1
<1>4. Conn' = Conn /\ Sock' = t
  BY <1>2, <1>3 DEF Conn, Sock
<1>5. \A p : Calls!Alive(p)' <=> Calls!Alive(p)
  BY DEF Calls!Alive
<1>6. McpType'
  BY <1>2, <1>3 DEF BridgeInv, McpType
<1>7. Calls!Serving' = Calls!Serving /\ Calls!Ours' = Calls!Ours
  BY DEF Calls!Serving, Calls!Ours, Calls!Alive
<1>8. Connected'
  BY <1>1, <1>2, <1>3, <1>4, <1>5, <1>7 DEF Connected, Sock, Over
<1>9. ChildInv'
  BY <1>2, <1>7 DEF BridgeInv, ChildInv
<1>10. HurtInv'
  BY <1>2, <1>4, <1>5, <1>7 DEF BridgeInv, HurtInv, Busy, Over, Calls!Runs
<1>11. ASSUME Calls!Alive(t.app) => \/ t.up = Sock.up \/ t.up = <<>>
                                    \/ Tail(t.up) = <<>> /\ Follows(Head(t.up), t.app),
              RanInv, ~c
       PROVE  Lone' /\ Sorted'
  <2>1. ~mcpClient.cut /\ Lone /\ Sorted
    BY <1>11 DEF RanInv
  <2>2. ASSUME NEW i \in DOMAIN mcpSocks, Unread(i)'
        PROVE  /\ i # Conn => Unread(i) /\ mcpSocks'[i] = mcpSocks[i]
               /\ i = Conn => t.up # <<>> /\ mcpSocks'[i] = t /\ Calls!Alive(t.app)
               /\ i = Conn /\ t.up = Sock.up => Unread(i)
    BY <1>3, <1>5, <2>2 DEF Unread, Sock
  <2>3. \A i \in DOMAIN mcpSocks : Unread(i) => i = Conn
    BY <1>1, <2>1 DEF Lone
  <2>4. \A m, p : Follows(m, p)' <=> Follows(m, p)
    BY DEF Follows
  <2>5. Lone'
    BY <1>2, <1>3, <1>4, <1>11, <2>1, <2>2, <2>3, <2>4 DEF Lone, Sock
  <2> QED BY <2>1, <2>5 DEF Sorted
<1> QED BY <1>2, <1>4, <1>5, <1>6, <1>8, <1>9, <1>10, <1>11

\* On a connection without a wait given up there is one reply: the one awaited.
LEMMA OneReply ==
    ASSUME BridgeInv, Conn # NoFile, ~Sock.cut, Sock.down # <<>>
    PROVE  /\ Awaits /\ Sock.down = <<ItsReply>> /\ Tail(Sock.down) = <<>> /\ Head(Sock.down) = ItsReply
           /\ Calls!Alive(Sock.app) => Sock.up = <<>>
<1>1. Awaits /\ Sock.down = <<ItsReply>> /\ (Calls!Alive(Sock.app) => Sock.up = <<>>)
  BY DEF BridgeInv, FlightInv
<1>2. \A x : Tail(<<x>>) = <<>> /\ Head(<<x>>) = x
  OBVIOUS
<1> QED BY <1>1, <1>2

\* The app's token is the one in the file while the app lives.
LEMMA TokenIsOurs ==
    ASSUME BridgeInv, Conn # NoFile, Calls!Alive(Sock.app)
    PROVE  Sock.app = mcpToken
BY DEF BridgeInv, Connected, Sock, Calls!Alive, Calls!Serving

\* The challenge came: the token of the file goes out, and it is the app's own.
LEMMA ChallengedKeeps ==
    ASSUME BridgeInv, Calls!Challenged
    PROVE  BridgeInv'
<1>1. /\ Conn # NoFile /\ mcpClient.pc = "auth" /\ mcpClient \in McpClients /\ Sock \in McpSocks
      /\ Sock.open /\ Sock.down # <<>> /\ mcpToken \in Nat
  BY SockTyped DEF BridgeInv, McpType, Connected, Calls!Challenged, Calls!At, Conn, Sock
<1>2. PICK m \in McpAsks : m = Calls!Token(mcpToken) /\ m.k = "token" /\ m.of = <<0, 0>>
  <2>1. PICK z \in Nat \X Nat : z = <<0, 0>>
    OBVIOUS
  <2>a. \A w \in Nat \X Nat : /\ [k |-> "ask", of |-> w, t |-> 0] \in McpAsks
                              /\ [k |-> "ask", of |-> w, t |-> 0].of = w
    BY DEF McpAsks
  <2>b. Calls!Ask = [k |-> "ask", of |-> <<0, 0>>, t |-> 0]
    BY DEF Calls!Ask
  <2>2. PICK a \in McpAsks : a = Calls!Ask /\ a.of = z
    BY <2>1, <2>a, <2>b, Zenon
  <2>3. [a EXCEPT !.k = "token", !.t = mcpToken] \in McpAsks
    BY <1>1 DEF McpAsks
  <2>4. Calls!Token(mcpToken) = [a EXCEPT !.k = "token", !.t = mcpToken]
    BY <2>2 DEF Calls!Token
  <2> QED BY <2>1, <2>2, <2>3, <2>4 DEF McpAsks
<1>3. PICK t \in McpSocks : /\ t.app = Sock.app /\ t.open /\ t.cut = Sock.cut
                            /\ t.up = Sock.up \o <<m>> /\ t.down = Tail(Sock.down)
                            /\ mcpSocks' = [mcpSocks EXCEPT ![Conn] = t]
  <2>1. Sock.up \o <<m>> \in Seq(McpAsks) /\ Tail(Sock.down) \in Seq(McpReplies)
    BY <1>1, <1>2 DEF McpSocks
  <2>2. PICK t : t = [Sock EXCEPT !.down = Tail(Sock.down), !.up = Sock.up \o <<m>>]
    OBVIOUS
  <2>3. t \in McpSocks /\ t.app = Sock.app /\ t.open = Sock.open /\ t.cut = Sock.cut
        /\ t.up = Sock.up \o <<m>> /\ t.down = Tail(Sock.down)
    BY <1>1, <2>1, <2>2 DEF McpSocks
  <2>4. mcpSocks' = [mcpSocks EXCEPT ![Conn] = t]
    BY <1>2, <2>2 DEF Calls!Challenged, Conn, Sock
  <2> QED BY <1>1, <2>3, <2>4
<1>4. /\ UNCHANGED <<mcpProcs, mcpToken, mcpRan, mcpShots, mcpFile, mcpFaults, mcpAnswer>>
      /\ mcpClient.cut \in BOOLEAN /\ mcpAnswer \in McpAnswers
      /\ mcpClient' = [mcpClient EXCEPT !.pc = "token", !.cut = mcpClient.cut]
  BY <1>1 DEF Calls!Challenged, Calls!Goes, McpClients, BridgeInv, McpType
<1>5. /\ McpType' /\ Connected' /\ ChildInv' /\ HurtInv'
      /\ mcpClient'.pc = "token" /\ mcpClient'.cut = mcpClient.cut
      /\ \A f \in {"target", "call", "try", "line", "conn", "child", "hurt", "late"} :
            mcpClient'[f] = mcpClient[f]
      /\ Conn' = Conn /\ Sock' = t /\ \A p : Calls!Alive(p)' <=> Calls!Alive(p)
      /\ /\ RanInv /\ ~mcpClient.cut
         /\ Calls!Alive(t.app) => \/ t.up = Sock.up \/ t.up = <<>>
                                  \/ Tail(t.up) = <<>> /\ Follows(Head(t.up), t.app)
         => Lone' /\ Sorted'
  BY <1>1, <1>3, <1>4, OnConnection
<1>6. ~Sock.cut => t.down = <<>> /\ (Calls!Alive(t.app) => t.up = <<m>>)
  <2>1. <<>> \o <<m>> = <<m>>
    OBVIOUS
  <2> QED BY <1>1, <1>3, <2>1, OneReply
<1>7. FlightInv'
  <2>1. Calls!Alive(t.app) => m = Calls!Token(t.app)
    BY <1>1, <1>2, <1>3, TokenIsOurs
  <2>2. <<m>> # <<>>
    OBVIOUS
  <2> QED BY <1>1, <1>3, <1>5, <1>6, <2>1, <2>2
          DEF BridgeInv, FlightInv, Awaits, Asked, Calls!Token, Calls!Ask
<1>8. RanInv'
  <2>1. Head(<<m>>) = m /\ Tail(<<m>>) = <<>> /\ Follows(m, t.app)
    BY <1>2 DEF Follows
  <2>2. ~mcpClient.cut => ~Sock.cut /\ Past
    BY <1>1 DEF BridgeInv, FlightInv, RanInv
  <2>3. ~mcpClient.cut => Lone' /\ Sorted'
    BY <1>5, <1>6, <2>1, <2>2 DEF BridgeInv
  <2>4. Past => Past'
    BY <1>1, <1>4, <1>5 DEF Past, Over
  <2> QED BY <1>5, <2>2, <2>3, <2>4 DEF RanInv
<1>9. TrustInv' /\ PictureInv'
  BY <1>1, <1>4, <1>5 DEF BridgeInv, TrustInv, PictureInv, Fit, Over
<1> QED BY <1>5, <1>7, <1>8, <1>9 DEF BridgeInv

\* Taking the reply off the client's connection.
LEMMA Heard ==
    ASSUME BridgeInv, Conn # NoFile, Sock.down # <<>>
    PROVE  \E t \in McpSocks : /\ [mcpSocks EXCEPT ![Conn].down = Tail(@)] = [mcpSocks EXCEPT ![Conn] = t]
                               /\ t.down = Tail(Sock.down)
                               /\ \A f \in {"app", "open", "trusted", "cut", "up"} : t[f] = Sock[f]
<1>1. Sock \in McpSocks /\ Conn \in DOMAIN mcpSocks
  BY SockTyped DEF BridgeInv, McpType, Connected, Sock
<1>2. Tail(Sock.down) \in Seq(McpReplies)
  BY <1>1 DEF McpSocks
<1>3. PICK t : t = [Sock EXCEPT !.down = Tail(Sock.down)]
  OBVIOUS
<1>4. t \in McpSocks /\ t.down = Tail(Sock.down)
      /\ \A f \in {"app", "open", "trusted", "cut", "up"} : t[f] = Sock[f]
  BY <1>1, <1>2, <1>3 DEF McpSocks
<1>5. [mcpSocks EXCEPT ![Conn].down = Tail(@)] = [mcpSocks EXCEPT ![Conn] = t]
  BY <1>3 DEF Sock
<1> QED BY <1>4, <1>5

\* The token was taken.
LEMMA TrustedKeeps ==
    ASSUME BridgeInv, Calls!Trusted
    PROVE  BridgeInv'
<1>1. /\ Conn # NoFile /\ mcpClient.pc = "token" /\ mcpClient \in McpClients
      /\ Sock.open /\ Sock.down # <<>>
  BY DEF BridgeInv, McpType, Connected, Calls!Trusted, Calls!At, Conn, Sock
<1>3. PICK t \in McpSocks : /\ mcpSocks' = [mcpSocks EXCEPT ![Conn] = t] /\ t.down = Tail(Sock.down)
                            /\ \A f \in {"app", "open", "trusted", "cut", "up"} : t[f] = Sock[f]
  BY <1>1, Heard DEF Calls!Trusted, Conn
<1>4. /\ UNCHANGED <<mcpProcs, mcpToken, mcpRan, mcpShots, mcpFile, mcpFaults, mcpAnswer>>
      /\ mcpClient.cut \in BOOLEAN /\ mcpAnswer \in McpAnswers
  BY <1>1 DEF Calls!Trusted, McpClients, BridgeInv, McpType
<1>5. PICK pc \in {"idle", "request"} :
        /\ mcpClient' = [mcpClient EXCEPT !.pc = pc, !.cut = mcpClient.cut]
        /\ pc = "idle" <=> mcpClient.call = 0
  BY <1>1 DEF Calls!Trusted, Calls!Goes, Calls!Ready, McpClients
<1>6. /\ McpType' /\ Connected' /\ ChildInv' /\ HurtInv'
      /\ mcpClient'.pc = pc /\ mcpClient'.cut = mcpClient.cut
      /\ \A f \in {"target", "call", "try", "line", "conn", "child", "hurt", "late"} :
            mcpClient'[f] = mcpClient[f]
      /\ Conn' = Conn /\ Sock' = t /\ \A p : Calls!Alive(p)' <=> Calls!Alive(p)
      /\ RanInv /\ ~mcpClient.cut => Lone' /\ Sorted'
  <2>1. t.up = Sock.up /\ t.app = Sock.app /\ t.open
    BY <1>1, <1>3
  <2> QED BY <1>1, <1>3, <1>4, <1>5, <2>1, OnConnection
<1>7. FlightInv'
  BY <1>1, <1>3, <1>6, OneReply DEF BridgeInv, FlightInv, Awaits
<1>8. RanInv'
  <2>1. Past => Past'
    BY <1>1, <1>4, <1>5, <1>6 DEF Past, Over
  <2> QED BY <1>6, <2>1 DEF BridgeInv, RanInv
<1>9. TrustInv' /\ PictureInv'
  BY <1>1, <1>4, <1>6 DEF BridgeInv, TrustInv, PictureInv, Fit, Over
<1> QED BY <1>6, <1>7, <1>8, <1>9 DEF BridgeInv

\* A handshake without an answer.
LEMMA NotAnsweredKeeps ==
    ASSUME BridgeInv, Calls!NotAnswered
    PROVE  BridgeInv'
<1>1. /\ Conn # NoFile /\ mcpClient.pc \in {"auth", "token"} /\ mcpClient \in McpClients
      /\ Sock.open /\ Sock.app # 0 /\ Conn \in DOMAIN mcpSocks /\ Sock \in McpSocks
  BY SockTyped DEF BridgeInv, McpType, Connected, Calls!NotAnswered, Conn, Sock
<1>2. PICK t \in McpSocks : /\ mcpSocks' = [mcpSocks EXCEPT ![Conn] = t]
                            /\ \A f \in {"app", "open", "trusted", "up", "down"} : t[f] = Sock[f]
                            /\ t.cut \/ (t.cut = Sock.cut /\ Calls!Ended(Conn))
  <2>1. CASE UNCHANGED mcpSocks /\ Calls!Ended(Conn)
    <3>1. mcpSocks' = [mcpSocks EXCEPT ![Conn] = Sock]
      BY <1>1, <2>1 DEF Sock, BridgeInv, McpType
    <3> QED BY <1>1, <2>1, <3>1
  <2>2. CASE mcpSocks' = [mcpSocks EXCEPT ![Conn].cut = TRUE]
    <3>1. PICK t : t = [Sock EXCEPT !.cut = TRUE]
      OBVIOUS
    <3>2. t \in McpSocks /\ t.cut /\ \A f \in {"app", "open", "trusted", "up", "down"} : t[f] = Sock[f]
      BY <1>1, <3>1 DEF McpSocks
    <3>3. mcpSocks' = [mcpSocks EXCEPT ![Conn] = t]
      BY <2>2, <3>1 DEF Sock
    <3> QED BY <3>2, <3>3
  <2> QED BY <2>1, <2>2 DEF Calls!NotAnswered, Conn
<1>4. /\ UNCHANGED <<mcpProcs, mcpToken, mcpRan, mcpShots, mcpFile, mcpFaults, mcpAnswer>>
      /\ mcpClient.cut \in BOOLEAN /\ mcpAnswer \in McpAnswers
  BY <1>1 DEF Calls!NotAnswered, McpClients, BridgeInv, McpType
<1>5. PICK pc \in {"idle", "request"}, c \in BOOLEAN :
        /\ mcpClient' = [mcpClient EXCEPT !.pc = pc, !.cut = c]
        /\ pc = "idle" <=> mcpClient.call = 0
        /\ mcpClient.cut => c
        /\ t.cut /\ ~Sock.cut => c
  <2>1. CASE UNCHANGED mcpSocks /\ Calls!Goes(Calls!Ready)
    <3>1. t = Sock
      BY <1>1, <1>2, <2>1 DEF Sock, BridgeInv, McpType
    <3>2. mcpClient' = [mcpClient EXCEPT !.pc = Calls!Ready, !.cut = mcpClient.cut]
      BY <1>1, <2>1 DEF Calls!Goes, McpClients
    <3> QED BY <1>4, <3>1, <3>2 DEF Calls!Ready
  <2>2. CASE mcpClient' = [mcpClient EXCEPT !.pc = Calls!Ready, !.cut = TRUE]
    BY <2>2 DEF Calls!Ready
  <2> QED BY <2>1, <2>2 DEF Calls!NotAnswered
<1>6. /\ McpType' /\ Connected' /\ ChildInv' /\ HurtInv'
      /\ mcpClient'.pc = pc /\ mcpClient'.cut = c
      /\ \A f \in {"target", "call", "try", "line", "conn", "child", "hurt", "late"} :
            mcpClient'[f] = mcpClient[f]
      /\ Conn' = Conn /\ Sock' = t /\ \A p : Calls!Alive(p)' <=> Calls!Alive(p)
      /\ RanInv /\ ~c => Lone' /\ Sorted'
  <2>1. t.up = Sock.up /\ t.app = Sock.app /\ t.open
    BY <1>1, <1>2
  <2>2. pc \in {"auth", "token", "request", "reply", "picture", "idle"}
        /\ mcpClient.pc \in {"auth", "token", "request", "reply", "picture"}
        /\ (mcpClient.call = 0 => pc \in {"auth", "token", "idle"})
    BY <1>1, <1>5
  <2> QED BY <1>1, <1>2, <1>4, <1>5, <2>1, <2>2, OnConnection
<1>7. FlightInv'
  <2>1. ~t.cut => ~Calls!Alive(Sock.app) /\ t.down = <<>>
    BY <1>2 DEF Calls!Ended, Sock
  <2>2. t.cut => c
    BY <1>1, <1>5 DEF BridgeInv, FlightInv
  <2> QED BY <1>1, <1>2, <1>6, <2>1, <2>2 DEF FlightInv
<1>8. RanInv'
  <2>1. Past => Past'
    BY <1>1, <1>4, <1>5, <1>6 DEF Past, Over
  <2> QED BY <1>5, <1>6, <2>1 DEF BridgeInv, RanInv
<1>9. TrustInv' /\ PictureInv'
  BY <1>1, <1>4, <1>5, <1>6 DEF BridgeInv, TrustInv, PictureInv, Fit, Over
<1> QED BY <1>6, <1>7, <1>8, <1>9 DEF BridgeInv

\* The line of the call goes out, to a process or to nobody.
LEMMA WriteKeeps ==
    ASSUME BridgeInv, Calls!Write
    PROVE  BridgeInv'
<1>1. /\ Conn # NoFile /\ mcpClient.pc = "request" /\ mcpClient \in McpClients
      /\ Sock.open /\ Conn \in DOMAIN mcpSocks /\ Sock \in McpSocks
      /\ mcpClient.call # 0
  BY SockTyped DEF BridgeInv, McpType, Connected, HurtInv, Over, Calls!Write, Calls!At, Conn, Sock
<1>2. PICK m \in McpAsks : /\ m = Calls!LineOf(mcpClient) /\ m.k = mcpClient.line
                           /\ m.of = <<mcpClient.call, mcpClient.try>> /\ m.of[1] = mcpClient.call
  <2>1. mcpClient.call \in Nat /\ mcpClient.try \in Nat /\ mcpClient.line \in {"query", "shot"}
    BY <1>1 DEF McpClients
  <2>a. \A a, b \in Nat : <<a, b>> \in Nat \X Nat /\ <<a, b>>[1] = a
    OBVIOUS
  <2>2. PICK o \in Nat \X Nat : o = <<mcpClient.call, mcpClient.try>> /\ o[1] = mcpClient.call
    BY <2>1, <2>a, Zenon
  <2>3. \A l \in {"query", "shot"}, w \in Nat \X Nat :
           /\ [k |-> l, of |-> w, t |-> 0] \in McpAsks
           /\ [k |-> l, of |-> w, t |-> 0].k = l /\ [k |-> l, of |-> w, t |-> 0].of = w
    BY DEF McpAsks
  <2>4. Calls!LineOf(mcpClient) = [k |-> mcpClient.line, of |-> <<mcpClient.call, mcpClient.try>>, t |-> 0]
    BY DEF Calls!LineOf
  <2> QED BY <2>1, <2>2, <2>3, <2>4, Zenon
<1>3. PICK t \in McpSocks : /\ mcpSocks' = [mcpSocks EXCEPT ![Conn] = t]
                            /\ \A f \in {"app", "open", "trusted", "cut", "down"} : t[f] = Sock[f]
                            /\ t.up = (IF Calls!Alive(Sock.app) THEN Append(Sock.up, m) ELSE Sock.up)
  <2>1. CASE Calls!Alive(Sock.app)
    <3>1. Append(Sock.up, m) \in Seq(McpAsks)
      BY <1>1, <1>2 DEF McpSocks
    <3>2. PICK t : t = [Sock EXCEPT !.up = Append(Sock.up, m)]
      OBVIOUS
    <3>3. t \in McpSocks /\ t.up = Append(Sock.up, m)
          /\ \A f \in {"app", "open", "trusted", "cut", "down"} : t[f] = Sock[f]
      BY <1>1, <3>1, <3>2 DEF McpSocks
    <3>4. mcpSocks' = [mcpSocks EXCEPT ![Conn] = t]
      BY <1>2, <2>1, <3>2 DEF Calls!Write, Conn, Sock
    <3> QED BY <2>1, <3>3, <3>4
  <2>2. CASE ~Calls!Alive(Sock.app)
    <3>1. mcpSocks' = mcpSocks
      BY <2>2 DEF Calls!Write, Conn, Sock
    <3>2. mcpSocks' = [mcpSocks EXCEPT ![Conn] = Sock]
      BY <1>1, <3>1 DEF Sock, BridgeInv, McpType
    <3> QED BY <1>1, <2>2, <3>2
  <2> QED BY <2>1, <2>2
<1>4. /\ UNCHANGED <<mcpProcs, mcpToken, mcpRan, mcpShots, mcpFile, mcpFaults, mcpAnswer>>
      /\ mcpClient.cut \in BOOLEAN /\ mcpAnswer \in McpAnswers
      /\ mcpClient' = [mcpClient EXCEPT !.pc = "reply", !.cut = mcpClient.cut]
  BY <1>1 DEF Calls!Write, Calls!Goes, McpClients, BridgeInv, McpType
<1>5. /\ McpType' /\ Connected' /\ ChildInv' /\ HurtInv'
      /\ mcpClient'.pc = "reply" /\ mcpClient'.cut = mcpClient.cut
      /\ \A f \in {"target", "call", "try", "line", "conn", "child", "hurt", "late"} :
            mcpClient'[f] = mcpClient[f]
      /\ Conn' = Conn /\ Sock' = t /\ \A p : Calls!Alive(p)' <=> Calls!Alive(p)
      /\ /\ RanInv /\ ~mcpClient.cut
         /\ Calls!Alive(t.app) => \/ t.up = Sock.up \/ t.up = <<>>
                                  \/ Tail(t.up) = <<>> /\ Follows(Head(t.up), t.app)
         => Lone' /\ Sorted'
  <2>1. t.app = Sock.app /\ t.open
    BY <1>1, <1>3
  <2> QED BY <1>1, <1>3, <1>4, <2>1, OnConnection
<1>6. ~Sock.cut => t.down = <<>> /\ (Calls!Alive(t.app) => t.up = <<m>> /\ t.trusted)
  <2>1. Append(<<>>, m) = <<m>>
    OBVIOUS
  <2> QED BY <1>1, <1>3, <2>1 DEF BridgeInv, FlightInv, Awaits
<1>7. FlightInv'
  <2>1. <<m>> # <<>>
    OBVIOUS
  <2>2. Calls!LineOf(mcpClient)' = m
    BY <1>2, <1>5 DEF Calls!LineOf
  <2>3. t.cut = Sock.cut /\ t.app = Sock.app
    BY <1>3
  <2> QED BY <1>1, <1>5, <1>6, <2>1, <2>2, <2>3 DEF BridgeInv, FlightInv, Awaits, Asked
<1>8. RanInv'
  <2>1. ~mcpClient.cut => ~Sock.cut /\ Past
    BY <1>1 DEF BridgeInv, FlightInv, RanInv
  <2>2. Past /\ Calls!Alive(t.app) => Follows(m, t.app)
    BY <1>1, <1>2 DEF Past, Follows, Over
  <2>3. Head(<<m>>) = m /\ Tail(<<m>>) = <<>>
    OBVIOUS
  <2>4. ~mcpClient.cut => Lone' /\ Sorted'
    BY <1>5, <1>6, <2>1, <2>2, <2>3 DEF BridgeInv
  <2>5. Past => Past'
    BY <1>1, <1>4, <1>5 DEF Past, Over
  <2> QED BY <1>5, <2>1, <2>4, <2>5 DEF RanInv
<1>9. TrustInv' /\ PictureInv'
  <2>1. Unread(Conn) => Unread(Conn)
    OBVIOUS
  <2> QED BY <1>1, <1>4, <1>5 DEF BridgeInv, TrustInv, PictureInv, Fit, Over
<1> QED BY <1>5, <1>7, <1>8, <1>9 DEF BridgeInv

\* The reply came: it is the call's own, unless a wait was given up.
LEMMA ReplyKeeps ==
    ASSUME BridgeInv, Calls!Reply
    PROVE  BridgeInv'
<1>1. /\ Conn # NoFile /\ mcpClient.pc = "reply" /\ mcpClient \in McpClients
      /\ Sock.open /\ Sock.down # <<>> /\ Sock \in McpSocks /\ mcpClient.call # 0
  BY SockTyped DEF BridgeInv, McpType, Connected, HurtInv, Over, Calls!Reply, Calls!At, Conn, Sock
<1>2. PICK r \in McpReplies : r = Head(Sock.down)
  BY <1>1 DEF McpSocks
<1>3. PICK t \in McpSocks : /\ mcpSocks' = [mcpSocks EXCEPT ![Conn] = t] /\ t.down = Tail(Sock.down)
                            /\ \A f \in {"app", "open", "trusted", "cut", "up"} : t[f] = Sock[f]
  BY <1>1, Heard DEF Calls!Reply, Conn
<1>4. /\ UNCHANGED <<mcpProcs, mcpToken, mcpRan, mcpShots, mcpFile, mcpFaults>>
      /\ mcpClient.cut \in BOOLEAN
      /\ mcpAnswer' \in McpAnswers /\ mcpAnswer'.kind = r.k /\ mcpAnswer'.cut = Sock.cut
      /\ r.of = <<mcpClient.call, mcpClient.try>> => mcpAnswer'.own
  <2>1. mcpAnswer' = [kind |-> r.k, own |-> r.of = <<mcpClient.call, mcpClient.try>>,
                      cut |-> Sock.cut, hurt |-> mcpClient.hurt]
    BY <1>2 DEF Calls!Reply, Calls!Answer, Calls!NoAnswer, Conn, Sock
  <2>2. r.k \in {"ok", "refused"} /\ mcpClient.hurt \in BOOLEAN /\ Sock.cut \in BOOLEAN /\ mcpClient.cut \in BOOLEAN
    BY <1>1 DEF McpReplies, McpClients, McpSocks
  <2> DEFINE o == r.of = <<mcpClient.call, mcpClient.try>>
  <2>3. o \in BOOLEAN /\ mcpAnswer' = [kind |-> r.k, own |-> o, cut |-> Sock.cut, hurt |-> mcpClient.hurt]
    BY <2>1
  <2> HIDE DEF o
  <2>4. mcpAnswer' \in McpAnswers /\ mcpAnswer'.kind = r.k /\ mcpAnswer'.cut = Sock.cut
        /\ (o => mcpAnswer'.own)
    BY <2>2, <2>3 DEF McpAnswers
  <2> USE DEF o
  <2> QED BY <2>2, <2>4 DEF Calls!Reply
<1>5. PICK pc \in {"idle", "picture"} :
        /\ mcpClient' = [mcpClient EXCEPT !.pc = pc, !.cut = mcpClient.cut]
        /\ pc = "picture" <=> r.k = "ok" /\ mcpClient.line = "shot"
  BY <1>1, <1>2 DEF Calls!Reply, Calls!Goes, McpClients, Conn, Sock
<1>6. /\ McpType' /\ Connected' /\ ChildInv' /\ HurtInv'
      /\ mcpClient'.pc = pc /\ mcpClient'.cut = mcpClient.cut
      /\ \A f \in {"target", "call", "try", "line", "conn", "child", "hurt", "late"} :
            mcpClient'[f] = mcpClient[f]
      /\ Conn' = Conn /\ Sock' = t /\ \A p : Calls!Alive(p)' <=> Calls!Alive(p)
      /\ RanInv /\ ~mcpClient.cut => Lone' /\ Sorted'
  <2>1. t.up = Sock.up /\ t.app = Sock.app /\ t.open
    BY <1>1, <1>3
  <2>2. mcpAnswer'.kind # "error"
    BY <1>2, <1>4 DEF McpReplies
  <2> QED BY <1>1, <1>3, <1>4, <1>5, <2>1, <2>2, OnConnection
<1>a. ~Sock.cut => r.k = "ok" /\ r.of = <<mcpClient.call, mcpClient.try>>
  BY <1>1, <1>2, OneReply DEF ItsReply, Asked, Calls!LineOf
<1>7. FlightInv'
  BY <1>1, <1>3, <1>5, <1>6, OneReply DEF BridgeInv, FlightInv, Awaits
<1>8. RanInv'
  <2>1. Past => Past'
    BY <1>1, <1>4, <1>5, <1>6 DEF Past, Over
  <2> QED BY <1>6, <2>1 DEF BridgeInv, RanInv
<1>9. TrustInv'
  BY <1>4, <1>a DEF TrustInv
<1>10. PictureInv'
  <2>1. ~mcpClient.cut => ~Sock.cut
    BY <1>1 DEF BridgeInv, FlightInv
  <2>2. mcpAnswer'.kind # "picture"
    BY <1>2, <1>4 DEF McpReplies
  <2> QED BY <1>1, <1>3, <1>4, <1>5, <1>6, <1>a, <2>1, <2>2 DEF BridgeInv, PictureInv, Fit, Over
<1> QED BY <1>6, <1>7, <1>8, <1>9, <1>10 DEF BridgeInv

\* A process that is ended, if there is one.
LEMMA KilledTyped ==
    ASSUME BridgeInv, NEW c
    PROVE  /\ Calls!Killed(c) \in Seq(McpProcs) /\ DOMAIN Calls!Killed(c) = DOMAIN mcpProcs
           /\ \A p \in DOMAIN mcpProcs :
                 /\ Calls!Killed(c)[p].ours = mcpProcs[p].ours
                 /\ p # c => Calls!Killed(c)[p] = mcpProcs[p]
                 /\ p = c => Calls!Killed(c)[p].state = "dead"
                 /\ Calls!Killed(c)[p].still => mcpProcs[p].still /\ p # c
<1> DEFINE R == McpProcs
           k == Calls!Killed(c)
           dead(p) == [mcpProcs[p] EXCEPT !.state = "dead", !.still = FALSE]
<1>1. mcpProcs \in Seq(R) /\ Len(mcpProcs) \in Nat /\ DOMAIN mcpProcs = 1..Len(mcpProcs)
  BY DEF BridgeInv, McpType
<1>2. \A p \in DOMAIN mcpProcs : mcpProcs[p] \in McpProcs
  BY <1>1
<1>3. \A p \in DOMAIN mcpProcs : /\ dead(p) \in McpProcs /\ dead(p).state = "dead"
                                 /\ dead(p).still = FALSE /\ dead(p).ours = mcpProcs[p].ours
  BY <1>2 DEF McpProcs
<1>4. DOMAIN k = DOMAIN mcpProcs
      /\ \A p \in DOMAIN mcpProcs : k[p] = IF p = c THEN dead(p) ELSE mcpProcs[p]
  BY DEF Calls!Killed
<1>5. k \in Seq(R)
  <2>1. \A p \in DOMAIN mcpProcs : k[p] \in R
    BY <1>2, <1>3, <1>4
  <2>2. k = [p \in 1..Len(mcpProcs) |-> k[p]]
    BY <1>1 DEF Calls!Killed
  <2>3. k \in [1..Len(mcpProcs) -> R]
    <3> HIDE DEF k, R
    <3> QED BY <1>1, <2>1, <2>2
  <2> QED BY <1>1, <2>3, SeqDef
<1> HIDE DEF dead
<1> QED BY <1>2, <1>3, <1>4, <1>5

\* Connections after all were closed.
LEMMA ClosedTyped ==
    ASSUME BridgeInv, NEW f, f = [i \in DOMAIN mcpSocks |-> [mcpSocks[i] EXCEPT !.open = FALSE]]
    PROVE  /\ Calls!Swept(f) \in Seq(McpSocks) /\ DOMAIN Calls!Swept(f) = DOMAIN mcpSocks
           /\ \A i \in DOMAIN mcpSocks :
                 \/ Calls!Swept(f)[i] = Calls!Gone
                 \/ \A g \in {"app", "up"} : Calls!Swept(f)[i][g] = mcpSocks[i][g]
<1>1. Len(mcpSocks) \in Nat /\ DOMAIN mcpSocks = 1..Len(mcpSocks) /\ DOMAIN f = DOMAIN mcpSocks
  BY DEF BridgeInv, McpType
<1>2. ASSUME NEW i \in DOMAIN mcpSocks
      PROVE  f[i] \in McpSocks /\ f[i].app = mcpSocks[i].app /\ f[i].up = mcpSocks[i].up
  <2>1. mcpSocks[i] \in McpSocks
    BY SockTyped DEF BridgeInv
  <2> QED BY <2>1 DEF McpSocks
<1>3. /\ Calls!Swept(f) \in Seq(McpSocks) /\ DOMAIN Calls!Swept(f) = 1..Len(mcpSocks)
      /\ \A i \in 1..Len(mcpSocks) : Calls!Swept(f)[i] = f[i] \/ Calls!Swept(f)[i] = Calls!Gone
  BY <1>1, <1>2, SweptTyped
<1> QED BY <1>1, <1>2, <1>3

\* What the client leaves behind, at its end or when it is killed.
LEMMA LeftTyped ==
    ASSUME BridgeInv, NEW pc \in {"done", "killed"}, mcpClient' = Calls!Left(pc)
    PROVE  /\ mcpClient' \in McpClients /\ mcpClient'.pc = pc /\ mcpClient'.cut = mcpClient.cut
           /\ mcpClient'.conn = NoFile /\ mcpClient'.child = NoFile /\ mcpClient'.call = 0
           /\ mcpClient'.line = "query"
<1>1. mcpClient.target \in {"addr", "spawn"} /\ mcpClient.cut \in BOOLEAN
  BY DEF BridgeInv, McpType, McpClients
<1>2. mcpClient' = [pc |-> pc, target |-> mcpClient.target, call |-> 0, try |-> 1, line |-> "query",
                    conn |-> NoFile, child |-> NoFile, hurt |-> FALSE, cut |-> mcpClient.cut,
                    late |-> FALSE]
  BY DEF Calls!Left, Calls!Fresh
<1> QED BY <1>1, <1>2 DEF McpClients, McpPlaces

\* The answer of no call.
LEMMA NoAnswerTyped == Calls!NoAnswer \in McpAnswers /\ Calls!NoAnswer.kind = "none"
BY DEF Calls!NoAnswer, McpAnswers

\* The client ends: its app with it, and no line of its own is left.
LEMMA DroppedKeeps ==
    ASSUME BridgeInv, Calls!Dropped, UNCHANGED <<mcpToken, mcpRan, mcpFile, mcpFaults>>, ~Over,
           mcpClient.pc = "idle" \/ Conn = NoFile
    PROVE  BridgeInv'
<1>1. /\ mcpProcs' = Calls!Killed(mcpClient.child) /\ mcpClient' = Calls!Left("done")
      /\ mcpShots' = {s \in mcpShots : s[1] # mcpClient.child} /\ mcpAnswer' = Calls!NoAnswer
      /\ mcpSocks' = Calls!Swept([i \in DOMAIN mcpSocks |-> [mcpSocks[i] EXCEPT !.open = FALSE]])
      /\ Connected /\ mcpProcs \in Seq(McpProcs)
  BY DEF Calls!Dropped, BridgeInv, McpType
<1>2. /\ mcpClient' \in McpClients /\ mcpClient'.pc = "done" /\ mcpClient'.cut = mcpClient.cut
      /\ mcpClient'.conn = NoFile /\ mcpClient'.call = 0 /\ mcpClient'.line = "query"
  BY <1>1, LeftTyped
<1>3. /\ mcpProcs' \in Seq(McpProcs) /\ DOMAIN mcpProcs' = DOMAIN mcpProcs
      /\ \A p \in DOMAIN mcpProcs :
            /\ mcpProcs'[p].ours = mcpProcs[p].ours
            /\ p # mcpClient.child => mcpProcs'[p] = mcpProcs[p]
            /\ p = mcpClient.child => mcpProcs'[p].state = "dead"
  BY <1>1, KilledTyped
<1>4. /\ mcpSocks' \in Seq(McpSocks) /\ DOMAIN mcpSocks' = DOMAIN mcpSocks
      /\ \A i \in DOMAIN mcpSocks : \/ mcpSocks'[i] = Calls!Gone
                                    \/ \A g \in {"app", "up"} : mcpSocks'[i][g] = mcpSocks[i][g]
  BY <1>1, ClosedTyped
<1>5. /\ \A p \in DOMAIN mcpProcs : Calls!Alive(p)' <=> Calls!Alive(p) /\ p # mcpClient.child
      /\ Calls!Serving' \subseteq Calls!Serving
  BY <1>3 DEF Calls!Alive, Calls!Serving
<1>6. Calls!Ours' = {}
  BY <1>3, <1>5 DEF Calls!Ours, BridgeInv, ChildInv, Over
<1>7. McpType'
  BY <1>1, <1>2, <1>3, <1>4, NoAnswerTyped DEF BridgeInv, McpType
<1>8. Connected'
  <2>1. \A i \in DOMAIN mcpSocks' : mcpSocks'[i].app # 0 =>
           /\ mcpSocks'[i].app \in DOMAIN mcpProcs'
           /\ mcpProcs'[mcpSocks'[i].app].state \in {"serves", "dead"}
    BY <1>1, <1>3, <1>4, GoneTyped DEF Connected
  <2>2. \A s \in mcpShots' : Calls!Alive(s[1])'
    <3>1. \A s \in (DOMAIN mcpProcs) \X Nat \X Nat : s[1] \in DOMAIN mcpProcs
      OBVIOUS
    <3>2. \A s \in mcpShots : s[1] \in DOMAIN mcpProcs
      BY <3>1 DEF BridgeInv, McpType
    <3> QED BY <1>1, <1>5, <3>2 DEF Connected
  <2> QED BY <1>1, <1>2, <1>5, <2>1, <2>2 DEF Connected, Conn
<1>9. ChildInv' /\ HurtInv' /\ FlightInv' /\ TrustInv' /\ PictureInv'
  BY <1>1, <1>2, <1>6, NoAnswerTyped
  DEF ChildInv, HurtInv, FlightInv, TrustInv, PictureInv, Busy, Over, Fit, Conn
<1>10. RanInv'
  <2>1. ASSUME ~mcpClient.cut, NEW i \in DOMAIN mcpSocks, Unread(i)'
        PROVE  FALSE
    <3>1. Unread(i)
      BY <1>1, <1>4, <1>5, <2>1, GoneTyped DEF Unread, Connected
    <3>2. i = Conn
      BY <2>1, <3>1 DEF BridgeInv, RanInv, Lone, Over
    <3>3. Conn # NoFile
      <4>1. i \in Nat
        BY DEF BridgeInv, McpType
      <4> QED BY <3>2, <4>1, AppAssumption DEF Calls!BridgeAssumption
    <3>4. mcpClient.pc = "idle" /\ ~Sock.cut
      BY <2>1, <3>3 DEF BridgeInv, FlightInv
    <3> QED BY <3>1, <3>2, <3>3, <3>4 DEF BridgeInv, FlightInv, Unread, Awaits, Sock
  <2>2. ~mcpClient.cut => Lone'
    BY <1>4, <2>1 DEF Lone
  <2>3. Sorted => Sorted'
    BY DEF Sorted
  <2>4. Past'
    BY <1>2 DEF Past, Over
  <2> QED BY <1>2, <2>2, <2>3, <2>4 DEF BridgeInv, RanInv
<1> QED BY <1>7, <1>8, <1>9, <1>10 DEF BridgeInv

\* The server ends.
LEMMA ExitKeeps ==
    ASSUME BridgeInv, Calls!Exit
    PROVE  BridgeInv'
BY DroppedKeeps DEF Calls!Exit, Calls!At, Over

\* The server is killed: its app runs on, and so may a line.
LEMMA ServerKilledKeeps ==
    ASSUME BridgeInv, Calls!ServerKilled
    PROVE  BridgeInv'
<1>1. /\ mcpClient' = Calls!Left("killed") /\ mcpAnswer' = Calls!NoAnswer /\ ~Over
      /\ mcpSocks' = Calls!Swept([i \in DOMAIN mcpSocks |-> [mcpSocks[i] EXCEPT !.open = FALSE]])
      /\ UNCHANGED <<mcpProcs, mcpToken, mcpRan, mcpShots, mcpFile, mcpFaults>>
      /\ Connected /\ mcpClient.child \in Nat \cup {NoFile}
  BY DEF Calls!ServerKilled, BridgeInv, McpType, McpClients, Over
<1>2. /\ mcpClient' \in McpClients /\ mcpClient'.pc = "killed" /\ mcpClient'.cut = mcpClient.cut
      /\ mcpClient'.conn = NoFile /\ mcpClient'.call = 0 /\ mcpClient'.line = "query"
  BY <1>1, LeftTyped
<1>4. /\ mcpSocks' \in Seq(McpSocks) /\ DOMAIN mcpSocks' = DOMAIN mcpSocks
      /\ \A i \in DOMAIN mcpSocks : \/ mcpSocks'[i] = Calls!Gone
                                    \/ \A g \in {"app", "up"} : mcpSocks'[i][g] = mcpSocks[i][g]
  BY <1>1, ClosedTyped
<1>5. \A p : Calls!Alive(p)' <=> Calls!Alive(p)
  BY <1>1 DEF Calls!Alive
<1>6. Calls!Serving' = Calls!Serving /\ Calls!Ours' = Calls!Ours
  BY <1>1, <1>5 DEF Calls!Serving, Calls!Ours
<1>7. McpType'
  BY <1>1, <1>2, <1>4, NoAnswerTyped DEF BridgeInv, McpType
<1>8. Connected'
  BY <1>1, <1>2, <1>4, <1>5, <1>6, GoneTyped DEF Connected, Conn
<1>9. ChildInv'
  BY <1>1, <1>2, <1>6 DEF BridgeInv, ChildInv, Over
<1>a. HurtInv' /\ FlightInv' /\ TrustInv' /\ PictureInv'
  BY <1>1, <1>2, NoAnswerTyped DEF HurtInv, FlightInv, TrustInv, PictureInv, Busy, Over, Fit, Conn
<1>10. RanInv'
  <2>1. \A i \in DOMAIN mcpSocks : Unread(i)' => Unread(i) /\ mcpSocks'[i].up = mcpSocks[i].up
                                                  /\ mcpSocks'[i].app = mcpSocks[i].app
    BY <1>4, <1>5, GoneTyped DEF Unread
  <2>2. ASSUME Lone PROVE Lone'
    <3>1. \A i, j \in DOMAIN mcpSocks : Unread(i)' /\ Unread(j)' => i = j
      BY <2>1, <2>2 DEF Lone
    <3>2. ASSUME NEW i \in DOMAIN mcpSocks, Unread(i)'
          PROVE  /\ mcpSocks'[i].up = mcpSocks[i].up /\ mcpSocks'[i].app = mcpSocks[i].app
                 /\ Tail(mcpSocks[i].up) = <<>>
                 /\ Follows(Head(mcpSocks[i].up), mcpSocks[i].app)
      BY <2>1, <2>2, <3>2 DEF Lone
    <3>3. ASSUME NEW i \in DOMAIN mcpSocks, Unread(i)'
          PROVE  Tail(mcpSocks[i].up)' = <<>> /\ Follows(Head(mcpSocks[i].up), mcpSocks[i].app)'
      <4>1. /\ mcpSocks'[i].up = mcpSocks[i].up /\ mcpSocks'[i].app = mcpSocks[i].app
            /\ Tail(mcpSocks[i].up) = <<>> /\ Follows(Head(mcpSocks[i].up), mcpSocks[i].app)
        BY <3>2, <3>3
      <4>2. \A m, p : Follows(m, p)' <=> Follows(m, p)
        BY <1>1 DEF Follows
      <4> QED BY <4>1, <4>2
    <3> QED BY <1>2, <1>4, <3>1, <3>3 DEF Lone
  <2>3. Sorted => Sorted'
    BY <1>1 DEF Sorted
  <2>4. Past'
    BY <1>2 DEF Past, Over
  <2> QED BY <1>2, <2>2, <2>3, <2>4 DEF BridgeInv, RanInv
<1> QED BY <1>7, <1>8, <1>9, <1>a, <1>10 DEF BridgeInv

\* The client attaches to the app that serves.
LEMMA ConnectKeeps ==
    ASSUME BridgeInv, Calls!Connect
    PROVE  BridgeInv'
<1> DEFINE new == Len(mcpSocks) + 1
<1>1. /\ mcpClient.pc \in {"ensure", "spawned"} /\ Conn = NoFile /\ mcpClient \in McpClients
      /\ mcpClient' = [mcpClient EXCEPT !.pc = "auth", !.conn = Len(mcpSocks')]
      /\ UNCHANGED <<mcpProcs, mcpToken, mcpRan, mcpShots, mcpFile, mcpAnswer, mcpFaults>>
      /\ Connected /\ mcpSocks \in Seq(McpSocks) /\ mcpProcs \in Seq(McpProcs)
  BY DEF Calls!Connect, BridgeInv, McpType, Conn
<1>2. PICK p \in Calls!Serving :
        mcpSocks' = Append(mcpSocks, [Calls!Gone EXCEPT !.app = p, !.open = TRUE, !.up = <<Calls!Ask>>])
  BY DEF Calls!Connect
<1>3. p \in DOMAIN mcpProcs /\ mcpProcs[p].state = "serves" /\ p \in Nat /\ p # 0
  BY <1>1, <1>2 DEF Calls!Serving
<1>4. PICK m \in McpAsks : m = Calls!Ask /\ m.k = "ask"
  <2>1. PICK z \in Nat \X Nat : z = <<0, 0>>
    OBVIOUS
  <2>2. \A w \in Nat \X Nat : [k |-> "ask", of |-> w, t |-> 0] \in McpAsks
    BY DEF McpAsks
  <2>3. Calls!Ask = [k |-> "ask", of |-> <<0, 0>>, t |-> 0]
    BY DEF Calls!Ask
  <2>4. Calls!Ask \in McpAsks
    BY <2>1, <2>2, <2>3, Zenon
  <2> QED BY <2>4 DEF Calls!Ask
<1>5. PICK t \in McpSocks : /\ mcpSocks' = Append(mcpSocks, t) /\ t.app = p /\ t.open = TRUE
                            /\ t.cut = FALSE /\ t.up = <<m>> /\ t.down = <<>>
  <2>1. PICK t : t = [Calls!Gone EXCEPT !.app = p, !.open = TRUE, !.up = <<m>>]
    OBVIOUS
  <2>2. <<m>> \in Seq(McpAsks) /\ <<>> \in Seq(McpReplies)
    BY <1>4
  <2>3. t \in McpSocks /\ t.app = p /\ t.open = TRUE /\ t.cut = FALSE /\ t.up = <<m>> /\ t.down = <<>>
    BY <1>3, <2>1, <2>2 DEF Calls!Gone, McpSocks
  <2> QED BY <1>2, <1>4, <2>1, <2>3
<1>6. /\ mcpSocks' \in Seq(McpSocks) /\ DOMAIN mcpSocks' = DOMAIN mcpSocks \cup {new}
      /\ new \in Nat /\ new \notin DOMAIN mcpSocks /\ Len(mcpSocks') = new
      /\ mcpSocks'[new] = t /\ \A i \in DOMAIN mcpSocks : mcpSocks'[i] = mcpSocks[i] /\ i \in Nat
  <2> DEFINE R == McpSocks
  <2>1. mcpSocks \in Seq(R) /\ t \in R /\ mcpSocks' = Append(mcpSocks, t)
    BY <1>1, <1>5
  <2> HIDE DEF R
  <2>2. /\ mcpSocks' \in Seq(R) /\ DOMAIN mcpSocks' = DOMAIN mcpSocks \cup {new}
        /\ new \in Nat /\ new \notin DOMAIN mcpSocks /\ Len(mcpSocks') = new
    BY <2>1
  <2>3. mcpSocks'[new] = t /\ \A i \in DOMAIN mcpSocks : mcpSocks'[i] = mcpSocks[i] /\ i \in Nat
    BY <2>1
  <2> QED BY <2>2, <2>3 DEF R
<1> HIDE DEF new
<1>7. /\ mcpClient' \in McpClients /\ mcpClient'.pc = "auth" /\ mcpClient'.conn = new
      /\ \A f \in {"target", "call", "try", "line", "child", "hurt", "cut", "late"} :
            mcpClient'[f] = mcpClient[f]
  BY <1>1, <1>6 DEF McpClients, McpPlaces
<1>8. Conn' = new /\ Sock' = t /\ new # NoFile
  BY <1>6, <1>7, AppAssumption DEF Conn, Sock, Calls!BridgeAssumption
<1>9. /\ \A q : Calls!Alive(q)' <=> Calls!Alive(q)
      /\ \A q : Calls!Runs(q)' <=> Calls!Runs(q)
      /\ Calls!Serving' = Calls!Serving /\ Calls!Ours' = Calls!Ours /\ Calls!Alive(p)
  BY <1>1, <1>3 DEF Calls!Alive, Calls!Runs, Calls!Serving, Calls!Ours
<1>10. McpType'
  BY <1>1, <1>6, <1>7 DEF BridgeInv, McpType
<1>11. Connected'
  <2>1. \A i \in DOMAIN mcpSocks' : mcpSocks'[i].app # 0 =>
           /\ mcpSocks'[i].app \in DOMAIN mcpProcs'
           /\ mcpProcs'[mcpSocks'[i].app].state \in {"serves", "dead"}
    BY <1>1, <1>3, <1>5, <1>6 DEF Connected
  <2> QED BY <1>1, <1>3, <1>5, <1>6, <1>7, <1>8, <1>9, <2>1 DEF Connected, Over
<1>12. ChildInv' /\ TrustInv'
  BY <1>1, <1>7, <1>9 DEF BridgeInv, ChildInv, TrustInv
<1>13. HurtInv'
  <2>1. Busy' => Busy
    BY <1>1, <1>7 DEF Busy, Over
  <2> QED BY <1>1, <1>2, <1>5, <1>7, <1>8, <1>9, <2>1 DEF BridgeInv, HurtInv
<1>14. FlightInv'
  <2>1. Asked' = m /\ Awaits'
    BY <1>4, <1>7 DEF Asked, Awaits
  <2> QED BY <1>5, <1>7, <1>8, <2>1 DEF FlightInv
<1>15. RanInv'
  <2>1. ASSUME Lone PROVE Lone'
    <3>1. ASSUME NEW i \in DOMAIN mcpSocks', Unread(i)' PROVE i = new
      <4>1. CASE i # new
        <5>1. i \in DOMAIN mcpSocks /\ Unread(i)
          BY <1>6, <1>9, <3>1, <4>1 DEF Unread
        <5>2. i = NoFile
          BY <1>1, <2>1, <5>1 DEF Lone
        <5> QED BY <1>6, <5>1, <5>2, AppAssumption DEF Calls!BridgeAssumption
      <4> QED BY <4>1
    <3>2. Head(<<m>>) = m /\ Tail(<<m>>) = <<>>
      OBVIOUS
    <3>3. \A q : Follows(m, q)'
      BY <1>4 DEF Follows
    <3> QED BY <1>5, <1>6, <1>8, <3>1, <3>2, <3>3 DEF Lone
  <2>2. Sorted => Sorted'
    BY <1>1 DEF Sorted
  <2>3. Past => Past'
    BY <1>1, <1>7, <1>9 DEF Past, Over
  <2> QED BY <1>7, <2>1, <2>2, <2>3 DEF BridgeInv, RanInv
<1>16. PictureInv'
  BY <1>1, <1>7 DEF BridgeInv, PictureInv, Fit, Over
<1> QED BY <1>10, <1>11, <1>12, <1>13, <1>14, <1>15, <1>16 DEF BridgeInv

\* What an app makes of a line, by the rules of conn::serve.
LEMMA ServedTyped ==
    ASSUME BridgeInv, NEW i \in DOMAIN mcpSocks, Calls!Serve(i)
    PROVE  /\ Unread(i) /\ mcpSocks[i].app \in DOMAIN mcpProcs
           /\ UNCHANGED <<mcpProcs, mcpToken, mcpClient, mcpFile, mcpAnswer, mcpFaults>>
           /\ \E m \in McpAsks, t \in McpSocks, runs \in BOOLEAN :
                /\ m = Head(mcpSocks[i].up)
                /\ runs => m.k = "query" \/ (m.k = "shot" /\ mcpSocks[i].trusted)
                /\ mcpSocks' = Calls!Swept([mcpSocks EXCEPT ![i] = t])
                /\ \A f \in {"app", "open", "cut"} : t[f] = mcpSocks[i][f]
                /\ mcpSocks[i].trusted => t.trusted
                /\ t.up \in {Tail(mcpSocks[i].up), <<>>}
                /\ mcpSocks[i].open =>
                     /\ \E r \in McpReplies :
                          /\ t.down = Append(mcpSocks[i].down, r) /\ r.of = m.of
                          /\ m.k \in {"ask", "token", "query"} => r = [k |-> "ok", of |-> m.of]
                          /\ m.k = "shot" /\ mcpSocks[i].trusted => r = [k |-> "ok", of |-> m.of]
                     /\ m.k = "token" /\ m.t = mcpSocks[i].app => t.trusted
                /\ mcpRan' = IF runs THEN Append(mcpRan, [of |-> m.of, app |-> mcpSocks[i].app]) ELSE mcpRan
                /\ mcpShots' = IF runs /\ m.k = "shot"
                               THEN mcpShots \cup {<<mcpSocks[i].app, m.of[1], m.of[2]>>} ELSE mcpShots
<1> DEFINE s == mcpSocks[i]
<1>1. s \in McpSocks /\ s.up # <<>> /\ s.app # 0 /\ Calls!Runs(s.app)
      /\ UNCHANGED <<mcpProcs, mcpToken, mcpClient, mcpFile, mcpAnswer, mcpFaults>>
  BY SockTyped DEF BridgeInv, Calls!Serve
<1>2. Unread(i) /\ s.app \in DOMAIN mcpProcs
  BY <1>1 DEF Unread, Calls!Runs, BridgeInv, Connected
<1>3. s.up \in Seq(McpAsks) /\ s.down \in Seq(McpReplies) /\ s.open \in BOOLEAN /\ s.trusted \in BOOLEAN
      /\ s.app \in Nat
  BY <1>1 DEF McpSocks
<1>4. PICK m \in McpAsks : m = Head(s.up)
  BY <1>1, <1>3
<1>5. m.of \in Nat \X Nat /\ m.k \in {"ask", "token", "query", "shot"} /\ m.t \in Nat
  BY <1>4 DEF McpAsks
<1> DEFINE go == m.k = "query" \/ (m.k = "shot" /\ s.trusted)
           r == [k |-> IF go \/ m.k \in {"ask", "token"} THEN "ok" ELSE "refused", of |-> m.of]
           tr == s.trusted \/ (m.k = "token" /\ m.t = s.app)
           dn == IF s.open THEN Append(s.down, r) ELSE s.down
<1>6. /\ go \in BOOLEAN /\ tr \in BOOLEAN
      /\ (s.trusted => tr) /\ (m.k = "token" /\ m.t = s.app => tr)
  BY <1>3
<1>7. r \in McpReplies /\ r.of = m.of
      /\ (go \/ m.k \in {"ask", "token"} => r = [k |-> "ok", of |-> m.of])
  BY <1>5 DEF McpReplies
<1>8. (m.k = "query" => go) /\ (m.k = "shot" /\ s.trusted => go)
      /\ (go => m.k = "query" \/ (m.k = "shot" /\ s.trusted))
  OBVIOUS
<1>9. CASE /\ mcpSocks' = Calls!Swept([mcpSocks EXCEPT ![i] =
                             [s EXCEPT !.up = Tail(@), !.down = IF s.open THEN Append(@, r) ELSE @,
                                       !.trusted = @ \/ (m.k = "token" /\ m.t = s.app)]])
           /\ mcpRan' = IF go THEN Append(mcpRan, [of |-> m.of, app |-> s.app]) ELSE mcpRan
           /\ mcpShots' = IF go /\ m.k = "shot"
                          THEN mcpShots \cup {<<s.app, m.of[1], m.of[2]>>} ELSE mcpShots
  <2>1. PICK t : t = [s EXCEPT !.up = Tail(s.up), !.down = dn, !.trusted = tr]
    OBVIOUS
  <2>2. mcpSocks' = Calls!Swept([mcpSocks EXCEPT ![i] = t])
    <3>1. t = [s EXCEPT !.up = Tail(@), !.down = IF s.open THEN Append(@, r) ELSE @,
                        !.trusted = @ \/ (m.k = "token" /\ m.t = s.app)]
      BY <1>1, <2>1 DEF McpSocks
    <3> QED BY <1>9, <3>1
  <2>3. Tail(s.up) \in Seq(McpAsks) /\ dn \in Seq(McpReplies)
    <3> HIDE DEF r
    <3> QED BY <1>1, <1>3, <1>7
  <2> HIDE DEF go, r, tr
  <2>4. /\ t \in McpSocks /\ t.up = Tail(s.up) /\ t.down = dn /\ t.trusted = tr
        /\ \A f \in {"app", "open", "cut"} : t[f] = s[f]
    <3> HIDE DEF dn
    <3> QED BY <1>1, <1>6, <2>1, <2>3 DEF McpSocks
  <2> QED BY <1>1, <1>2, <1>4, <1>6, <1>7, <1>8, <1>9, <2>2, <2>4
<1>10. CASE ~s.open /\ mcpSocks' = Calls!Swept([mcpSocks EXCEPT ![i].up = <<>>])
            /\ UNCHANGED <<mcpRan, mcpShots>>
  <2>1. PICK t : t = [s EXCEPT !.up = <<>>]
    OBVIOUS
  <2>2. t \in McpSocks /\ t.up = <<>> /\ \A f \in {"app", "open", "cut", "trusted"} : t[f] = s[f]
    <3>1. <<>> \in Seq(McpAsks)
      OBVIOUS
    <3> QED BY <1>1, <2>1, <3>1 DEF McpSocks
  <2>3. mcpSocks' = Calls!Swept([mcpSocks EXCEPT ![i] = t])
    BY <1>10, <2>1
  <2> QED BY <1>1, <1>2, <1>4, <1>10, <2>2, <2>3
<1> QED BY <1>4, <1>9, <1>10 DEF Calls!Serve

\* An app reads a line of a connection, runs it and answers.
LEMMA ServeKeeps ==
    ASSUME BridgeInv, NEW i \in DOMAIN mcpSocks, Calls!Serve(i)
    PROVE  BridgeInv'
<1> DEFINE s == mcpSocks[i]
<1>1. /\ Unread(i) /\ s.app \in DOMAIN mcpProcs /\ s \in McpSocks /\ Connected
      /\ UNCHANGED <<mcpProcs, mcpToken, mcpClient, mcpFile, mcpAnswer, mcpFaults>>
      /\ mcpSocks \in Seq(McpSocks) /\ mcpClient \in McpClients /\ i \in Nat /\ i # NoFile
  <2>1. mcpSocks \in Seq(McpSocks)
    BY DEF BridgeInv, McpType
  <2>2. i \in Nat /\ i # NoFile
    BY <2>1, AppAssumption DEF Calls!BridgeAssumption
  <2> QED BY <2>1, <2>2, ServedTyped, SockTyped DEF BridgeInv, McpType
<1>2. PICK m \in McpAsks, t \in McpSocks, runs \in BOOLEAN :
        /\ m = Head(s.up)
        /\ runs => m.k = "query" \/ (m.k = "shot" /\ s.trusted)
        /\ mcpSocks' = Calls!Swept([mcpSocks EXCEPT ![i] = t])
        /\ \A f \in {"app", "open", "cut"} : t[f] = s[f]
        /\ s.trusted => t.trusted
        /\ t.up \in {Tail(s.up), <<>>}
        /\ s.open =>
             /\ \E r \in McpReplies :
                  /\ t.down = Append(s.down, r) /\ r.of = m.of
                  /\ m.k \in {"ask", "token", "query"} => r = [k |-> "ok", of |-> m.of]
                  /\ m.k = "shot" /\ s.trusted => r = [k |-> "ok", of |-> m.of]
             /\ m.k = "token" /\ m.t = s.app => t.trusted
        /\ mcpRan' = IF runs THEN Append(mcpRan, [of |-> m.of, app |-> s.app]) ELSE mcpRan
        /\ mcpShots' = IF runs /\ m.k = "shot"
                       THEN mcpShots \cup {<<s.app, m.of[1], m.of[2]>>} ELSE mcpShots
  BY ServedTyped
<1>3. PICK a, b \in Nat : m.of = <<a, b>> /\ m.of[1] = a /\ m.of[2] = b
  <2>1. m.of \in Nat \X Nat
    BY DEF McpAsks
  <2>2. \A o \in Nat \X Nat : \E x, y \in Nat : o = <<x, y>> /\ o[1] = x /\ o[2] = y
    OBVIOUS
  <2> QED BY <2>1, <2>2
<1>4. /\ mcpSocks' \in Seq(McpSocks) /\ DOMAIN mcpSocks' = DOMAIN mcpSocks
      /\ \A j \in DOMAIN mcpSocks \ {i} : \/ mcpSocks'[j] = mcpSocks[j]
                                          \/ mcpSocks'[j] = Calls!Gone /\ ~mcpSocks[j].open
      /\ mcpSocks'[i] = t \/ (mcpSocks'[i] = Calls!Gone /\ ~s.open)
  <2> DEFINE f == [mcpSocks EXCEPT ![i] = t]
  <2>1. Len(mcpSocks) \in Nat /\ DOMAIN mcpSocks = 1..Len(mcpSocks) /\ DOMAIN f = 1..Len(mcpSocks)
    BY <1>1
  <2>2. \A j \in DOMAIN mcpSocks : mcpSocks[j] \in McpSocks
    BY SockTyped DEF BridgeInv
  <2>3. f[i] = t /\ \A j \in DOMAIN mcpSocks \ {i} : f[j] = mcpSocks[j]
    BY <1>1
  <2>4. mcpSocks' = Calls!Swept(f)
    BY <1>2
  <2> HIDE DEF f
  <2>5. \A j \in 1..Len(mcpSocks) : f[j] \in McpSocks
    BY <2>1, <2>2, <2>3
  <2>6. /\ Calls!Swept(f) \in Seq(McpSocks) /\ DOMAIN Calls!Swept(f) = 1..Len(mcpSocks)
        /\ \A j \in 1..Len(mcpSocks) : \/ Calls!Swept(f)[j] = f[j]
                                       \/ Calls!Swept(f)[j] = Calls!Gone /\ ~f[j].open
    BY <2>1, <2>5, SweptTyped
  <2> QED BY <1>2, <2>1, <2>3, <2>4, <2>6
<1>5. /\ \A q : Calls!Alive(q)' <=> Calls!Alive(q)
      /\ \A q : Calls!Runs(q)' <=> Calls!Runs(q)
      /\ Calls!Serving' = Calls!Serving /\ Calls!Ours' = Calls!Ours /\ Calls!Alive(s.app) /\ Conn' = Conn
  BY <1>1 DEF Calls!Alive, Calls!Runs, Calls!Serving, Calls!Ours, Unread, Conn
<1>6. Conn # NoFile => /\ Sock'.app = Sock.app /\ Sock'.open /\ Sock'.cut = Sock.cut
                       /\ Conn # i => Sock' = Sock
                       /\ Conn = i => Sock' = t /\ Sock = s
  <2>1. Conn # NoFile => Conn \in DOMAIN mcpSocks /\ Sock.open
    BY <1>1 DEF Connected
  <2> QED BY <1>2, <1>4, <1>5, <2>1 DEF Sock
<1>7. McpType'
  <2>1. mcpShots' \subseteq (DOMAIN mcpProcs') \X Nat \X Nat
    <3>1. \A p \in DOMAIN mcpProcs : <<p, a, b>> \in (DOMAIN mcpProcs) \X Nat \X Nat
      OBVIOUS
    <3>2. <<s.app, m.of[1], m.of[2]>> \in (DOMAIN mcpProcs) \X Nat \X Nat
      BY <1>1, <1>3, <3>1, Zenon
    <3>3. mcpShots \subseteq (DOMAIN mcpProcs) \X Nat \X Nat /\ mcpProcs' = mcpProcs
      BY <1>1 DEF BridgeInv, McpType
    <3>4. mcpShots' \subseteq mcpShots \cup {<<s.app, m.of[1], m.of[2]>>}
      BY <1>2
    <3> QED BY <3>2, <3>3, <3>4
  <2>2. mcpRan' \in Seq([of : Nat \X Nat, app : DOMAIN mcpProcs'])
    <3> DEFINE R == [of : Nat \X Nat, app : DOMAIN mcpProcs]
               r == [of |-> m.of, app |-> s.app]
    <3>1. r \in R /\ mcpRan \in Seq(R) /\ mcpProcs' = mcpProcs
      BY <1>1 DEF BridgeInv, McpType, McpAsks
    <3>2. mcpRan' = mcpRan \/ mcpRan' = Append(mcpRan, r)
      BY <1>2
    <3> HIDE DEF R, r
    <3>3. mcpRan' \in Seq(R)
      BY <3>1, <3>2
    <3> QED BY <3>1, <3>3 DEF R
  <2> QED BY <1>1, <1>4, <2>1, <2>2 DEF BridgeInv, McpType
<1>8. Connected'
  <2>1. \A j \in DOMAIN mcpSocks : mcpSocks'[j].app \in {0, mcpSocks[j].app}
    BY <1>2, <1>4, GoneTyped
  <2>2. \A p : <<p, m.of[1], m.of[2]>>[1] = p
    OBVIOUS
  <2>3. \A x \in mcpShots' : Calls!Alive(x[1])
    BY <1>1, <1>2, <1>5, <2>2 DEF Connected
  <2> QED BY <1>1, <1>4, <1>5, <1>6, <2>1, <2>3 DEF Connected, Over
<1>9. ChildInv' /\ TrustInv'
  BY <1>1, <1>5 DEF BridgeInv, ChildInv, TrustInv
<1>10. HurtInv'
  BY <1>1, <1>5, <1>6 DEF BridgeInv, HurtInv, Busy, Over
\* What an uncut client waits for.
<1>11. ASSUME Conn = i, ~Sock.cut
       PROVE  /\ Awaits /\ m = Asked /\ s.down = <<>> /\ Tail(s.up) = <<>> /\ t.up = <<>>
              /\ mcpClient.pc = "reply" => s.trusted
  <2>1. Conn # NoFile /\ Sock = s /\ s.up # <<>> /\ Calls!Alive(Sock.app) /\ s.app = Sock.app
    BY <1>1, <1>5, <1>6, <1>11 DEF Unread
  <2>2. Awaits /\ s.up = <<Asked>> /\ s.down = <<>> /\ (mcpClient.pc = "reply" => s.trusted)
    BY <1>11, <2>1 DEF BridgeInv, FlightInv
  <2>3. \A x : Head(<<x>>) = x /\ Tail(<<x>>) = <<>>
    OBVIOUS
  <2> QED BY <1>2, <2>2, <2>3
<1>12. FlightInv'
  <2>1. CASE Conn = NoFile
    BY <1>5, <2>1 DEF FlightInv
  <2>2. CASE Conn # NoFile /\ Conn # i
    BY <1>1, <1>5, <1>6, <2>2 DEF BridgeInv, FlightInv, Awaits, Asked, ItsReply, Sock
  <2>3. CASE Conn = i
    <3>1. Conn # NoFile /\ Sock' = t /\ Sock = s /\ s.open /\ t.cut = s.cut /\ t.app = s.app
      BY <1>1, <1>2, <1>6, <2>3 DEF Connected
    <3>2. Awaits' = Awaits /\ Asked' = Asked /\ ItsReply' = ItsReply
      BY <1>1, <3>1 DEF Awaits, Asked, ItsReply
    <3>3. Sock.cut => mcpClient.cut
      BY <3>1 DEF BridgeInv, FlightInv
    <3>4. ASSUME ~Sock.cut
          PROVE  Awaits /\ t.up = <<>> /\ t.down = <<ItsReply>> /\ (mcpClient.pc # "auth" => t.trusted)
      <4>1. /\ Awaits /\ m = Asked /\ s.down = <<>> /\ t.up = <<>>
            /\ mcpClient.pc = "reply" => s.trusted
        BY <1>11, <2>3, <3>4
      <4>2. m.k = IF mcpClient.pc = "auth" THEN "ask" ELSE IF mcpClient.pc = "token" THEN "token"
                  ELSE mcpClient.line
        BY <4>1 DEF Asked, Calls!Ask, Calls!Token, Calls!LineOf
      <4>3. mcpClient.pc = "token" => m.t = s.app
        BY <3>1, <4>1 DEF Asked, Calls!Ask, Calls!Token
      <4>4. mcpClient.pc \in {"auth", "token", "reply"} /\ mcpClient.line \in {"query", "shot"}
        BY <1>1, <4>1 DEF Awaits, McpClients
      <4>5. PICK r \in McpReplies : /\ t.down = Append(s.down, r)
                                    /\ m.k \in {"ask", "token", "query"} => r = [k |-> "ok", of |-> m.of]
                                    /\ m.k = "shot" /\ s.trusted => r = [k |-> "ok", of |-> m.of]
        BY <1>2, <3>1
      <4>6. r = ItsReply
        BY <4>1, <4>2, <4>4, <4>5 DEF ItsReply
      <4>7. Append(<<>>, r) = <<r>>
        OBVIOUS
      <4>8. t.down = <<ItsReply>>
        BY <4>1, <4>5, <4>6, <4>7
      <4>9. mcpClient.pc # "auth" => t.trusted
        BY <1>2, <3>1, <4>1, <4>2, <4>3, <4>4
      <4> QED BY <4>1, <4>8, <4>9
    <3> QED BY <1>1, <1>5, <3>1, <3>2, <3>3, <3>4 DEF FlightInv
  <2> QED BY <2>1, <2>2, <2>3
\* While no wait was given up, this was the only line.
<1>13. ASSUME ~mcpClient.cut
       PROVE  /\ \A j \in DOMAIN mcpSocks : ~Unread(j)'
              /\ Follows(m, s.app) /\ (mcpClient.pc # "killed" => i = Conn) /\ Sorted /\ Past
              /\ ~Over => ~Sock.cut
  <2>1. Lone /\ Sorted /\ Past
    BY <1>13 DEF BridgeInv, RanInv
  <2>2. Tail(s.up) = <<>> /\ Follows(m, s.app) /\ (mcpClient.pc # "killed" => i = Conn)
    BY <1>1, <1>2, <2>1 DEF Lone
  <2>3. t.up = <<>>
    BY <1>2, <2>2
  <2>4. ASSUME NEW j \in DOMAIN mcpSocks, Unread(j)' PROVE FALSE
    <3>1. j # i
      BY <1>4, <2>3, <2>4, GoneTyped DEF Unread
    <3>2. Unread(j)
      BY <1>4, <1>5, <2>4, <3>1, GoneTyped DEF Unread
    <3> QED BY <1>1, <2>1, <3>1, <3>2 DEF Lone
  <2>5. ~Over => ~Sock.cut
    BY <1>1, <1>13, <2>2 DEF Over, BridgeInv, FlightInv
  <2> QED BY <2>1, <2>2, <2>4, <2>5
\* A line that is run is the call's.
<1>14. ASSUME ~mcpClient.cut, ~Over, runs
       PROVE  /\ Conn = i /\ mcpClient.pc = "reply" /\ m.k = mcpClient.line
              /\ a = mcpClient.call /\ b = mcpClient.try
  <2>1. Conn = i /\ Awaits /\ m = Asked
    BY <1>11, <1>13, <1>14 DEF Over
  <2>2. mcpClient.pc = "reply" /\ m = Calls!LineOf(mcpClient)
    <3>1. /\ mcpClient.pc = "auth" => m.k = "ask"
          /\ mcpClient.pc = "token" => m.k = "token"
      BY <2>1 DEF Asked, Calls!Ask, Calls!Token
    <3>2. mcpClient.pc = "reply"
      BY <1>2, <1>14, <2>1, <3>1 DEF Awaits
    <3> QED BY <2>1, <3>2 DEF Asked
  <2>3. m.k = mcpClient.line /\ <<a, b>> = <<mcpClient.call, mcpClient.try>>
    BY <1>3, <2>2 DEF Calls!LineOf
  <2>4. \A x, y, u, v : <<x, y>> = <<u, v>> => x = u /\ y = v
    OBVIOUS
  <2> QED BY <2>1, <2>2, <2>3, <2>4
<1>15. RanInv'
  <2>1. CASE ~runs
    <3>1. mcpRan' = mcpRan
      BY <1>2, <2>1
    <3>2. ~mcpClient.cut => Lone'
      BY <1>4, <1>13 DEF Lone
    <3>3. Sorted => Sorted'
      BY <3>1 DEF Sorted
    <3>4. Past => Past'
      BY <1>1, <1>5, <1>6, <3>1 DEF Past, Over, BridgeInv, Connected
    <3> QED BY <1>1, <1>13, <3>2, <3>3, <3>4 DEF RanInv
  <2>2. CASE runs
    <3> DEFINE n == Len(mcpRan) + 1
    <3>1. PICK r : r.of = m.of /\ r.app = s.app /\ mcpRan' = Append(mcpRan, r)
                   /\ r \in [of : Nat \X Nat, app : DOMAIN mcpProcs]
      <4>1. PICK r : r = [of |-> m.of, app |-> s.app]
        OBVIOUS
      <4>2. r.of = m.of /\ r.app = s.app /\ r \in [of : Nat \X Nat, app : DOMAIN mcpProcs]
        BY <1>1, <4>1 DEF McpAsks
      <4> QED BY <1>2, <2>2, <4>1, <4>2
    <3>2. /\ DOMAIN mcpRan' = DOMAIN mcpRan \cup {n} /\ mcpRan'[n] = r
          /\ \A j \in DOMAIN mcpRan : mcpRan'[j] = mcpRan[j] /\ j \in Nat /\ j < n
          /\ n \in Nat
      <4> DEFINE R == [of : Nat \X Nat, app : DOMAIN mcpProcs]
      <4>1. mcpRan \in Seq(R) /\ r \in R /\ mcpRan' = Append(mcpRan, r)
        BY <3>1 DEF BridgeInv, McpType
      <4> HIDE DEF R
      <4> QED BY <4>1
    <3> HIDE DEF n
    <3>3. \A j \in DOMAIN mcpRan' : j \in DOMAIN mcpRan \/ j = n
      BY <3>2
    <3>4. ~mcpClient.cut => Lone'
      BY <1>4, <1>13 DEF Lone
    <3>5. ASSUME ~mcpClient.cut PROVE Sorted'
      <4>1. \A j \in DOMAIN mcpRan : /\ mcpRan[j].of[1] <= r.of[1]
                                     /\ mcpRan[j].of[1] = r.of[1] => mcpRan[j].app # r.app
        <5>1. m.k \in {"query", "shot"}
          BY <1>2, <2>2
        <5> QED BY <1>13, <3>1, <3>5, <5>1 DEF Follows
      <4>2. ASSUME NEW j \in DOMAIN mcpRan', NEW k \in DOMAIN mcpRan', j < k
            PROVE  /\ mcpRan'[j].of[1] <= mcpRan'[k].of[1]
                   /\ mcpRan'[j].of[1] = mcpRan'[k].of[1] => mcpRan'[j].app # mcpRan'[k].app
        <5>1. j \in DOMAIN mcpRan
          BY <3>2, <3>3, <4>2
        <5>2. CASE k = n
          BY <3>2, <4>1, <5>1, <5>2
        <5>3. CASE k \in DOMAIN mcpRan
          <6>1. mcpRan'[j] = mcpRan[j] /\ mcpRan'[k] = mcpRan[k]
            BY <3>2, <5>1, <5>3
          <6> QED BY <1>13, <3>5, <4>2, <5>1, <5>3, <6>1 DEF Sorted
        <5> QED BY <3>3, <5>2, <5>3
      <4> QED BY <4>2 DEF Sorted
    <3>6. ASSUME ~mcpClient.cut PROVE Past'
      <4>1. /\ ~Over => r.of[1] = mcpClient.call /\ mcpClient.pc = "reply" /\ r.app = Sock'.app
        <5>1. ~Over => Conn = i /\ mcpClient.pc = "reply" /\ a = mcpClient.call
          BY <1>14, <2>2, <3>6
        <5>2. Conn = i => Sock'.app = s.app
          BY <1>1, <1>6
        <5> QED BY <1>3, <3>1, <5>1, <5>2
      <4>2. Past /\ mcpClient.call \in Nat
        BY <1>1, <1>13, <3>6 DEF McpClients
      <4>3. mcpClient.pc = "reply" => Sock'.app = Sock.app
        BY <1>1, <1>6 DEF Connected
      <4>4. Over => mcpClient.pc \notin {"ensure", "spawned", "auth", "token", "request", "reply"}
        BY DEF Over
      <4>5. ASSUME NEW j \in DOMAIN mcpRan'
            PROVE  /\ ~Over => mcpRan'[j].of[1] <= mcpClient.call
                   /\ /\ mcpRan'[j].of[1] = mcpClient.call
                      /\ mcpClient.pc \in {"ensure", "spawned", "auth", "token", "request"}
                      => ~Calls!Alive(mcpRan'[j].app)
                   /\ mcpRan'[j].of[1] = mcpClient.call /\ mcpClient.pc = "reply" =>
                         mcpRan'[j].app = Sock'.app \/ ~Calls!Alive(mcpRan'[j].app)
        <5>1. CASE j = n
          BY <3>2, <4>1, <4>2, <4>4, <5>1
        <5>2. CASE j \in DOMAIN mcpRan
          BY <3>2, <4>2, <4>3, <5>2 DEF Past
        <5> QED BY <3>3, <5>1, <5>2
      <4> QED BY <1>1, <1>5, <4>5 DEF Past, Over
    <3> QED BY <1>1, <3>4, <3>5, <3>6 DEF RanInv
  <2> QED BY <2>1, <2>2
<1>16. PictureInv'
  <2>1. Fit' => Fit /\ ~mcpClient.cut /\ ~Over
    BY <1>1 DEF Fit, Over
  <2>2. mcpClient.pc \in {"reply", "picture"} => Sock'.app = Sock.app
    BY <1>1, <1>6 DEF Connected
  <2>3. Fit => \A j \in DOMAIN mcpSocks : ~Unread(j)'
    BY <1>13 DEF Fit
  <2>4. Fit /\ mcpClient.pc = "reply" => Conn \in DOMAIN mcpSocks /\ ~Unread(Conn)'
    <3>1. PICK c : c = Conn
      OBVIOUS
    <3>2. Fit /\ mcpClient.pc = "reply" => c \in DOMAIN mcpSocks /\ ~Unread(c)'
      BY <1>1, <2>3, <3>1 DEF Connected
    <3>3. Conn' = c
      BY <1>5, <3>1
    <3> QED BY <3>1, <3>2, <3>3
  <2>5. CASE ~(runs /\ m.k = "shot")
    BY <1>1, <1>2, <1>5, <2>1, <2>2, <2>4, <2>5 DEF BridgeInv, PictureInv
  <2>6. CASE runs /\ m.k = "shot"
    <3>1. Fit => /\ mcpClient.pc = "reply" /\ mcpClient.line = "shot" /\ Unread(Conn)
                 /\ mcpShots' = mcpShots \cup {<<Sock'.app, mcpClient.call, mcpClient.try>>}
      BY <1>1, <1>2, <1>3, <1>6, <1>14, <2>6 DEF Fit
    <3>2. Fit => mcpShots = {} /\ (mcpClient.try = 1 => mcpFile = NoFile)
      BY <3>1 DEF BridgeInv, PictureInv
    <3> QED BY <1>1, <1>5, <2>1, <2>2, <2>4, <3>1, <3>2 DEF BridgeInv, PictureInv
  <2> QED BY <2>5, <2>6
<1> QED BY <1>7, <1>8, <1>9, <1>10, <1>12, <1>15, <1>16 DEF BridgeInv

\* A second app for a call, in place of the first.
LEMMA RespawnKeeps ==
    ASSUME BridgeInv, Calls!Respawn
    PROVE  BridgeInv'
<1> DEFINE k == Calls!Killed(mcpClient.child)
           new == Len(mcpProcs) + 1
<1>1. /\ mcpClient.pc = "ensure" /\ Conn = NoFile /\ Calls!Serving = {} /\ mcpClient.target = "spawn"
      /\ mcpShots' = {s \in mcpShots : s[1] # mcpClient.child} /\ mcpClient \in McpClients
      /\ mcpProcs' = Append(k, Calls!Process(TRUE))
      /\ mcpClient' = [mcpClient EXCEPT !.pc = "spawned", !.child = Len(mcpProcs')]
      /\ UNCHANGED <<mcpToken, mcpSocks, mcpRan, mcpFile, mcpAnswer, mcpFaults>>
      /\ Connected /\ mcpProcs \in Seq(McpProcs)
  BY DEF Calls!Respawn, Calls!At, BridgeInv, McpType, Conn
<1>2. PICK t \in McpProcs : /\ t.ours = TRUE /\ t.state = "starts" /\ t.still = FALSE
                            /\ t = Calls!Process(TRUE)
  BY DEF Calls!Process, McpProcs
<1>3. /\ k \in Seq(McpProcs) /\ DOMAIN k = DOMAIN mcpProcs
      /\ \A p \in DOMAIN mcpProcs :
            /\ k[p].ours = mcpProcs[p].ours
            /\ p # mcpClient.child => k[p] = mcpProcs[p]
            /\ p = mcpClient.child => k[p].state = "dead"
            /\ k[p].still => mcpProcs[p].still /\ p # mcpClient.child
  BY KilledTyped
<1>4. /\ mcpProcs' \in Seq(McpProcs) /\ DOMAIN mcpProcs' = DOMAIN mcpProcs \cup {new}
      /\ new \in Nat /\ new \notin DOMAIN mcpProcs /\ Len(mcpProcs') = new
      /\ mcpProcs'[new] = t /\ \A p \in DOMAIN mcpProcs : mcpProcs'[p] = k[p]
  <2> DEFINE R == McpProcs
  <2>1. k \in Seq(R) /\ mcpProcs \in Seq(R) /\ t \in R /\ mcpProcs' = Append(k, t)
        /\ DOMAIN k = DOMAIN mcpProcs
    BY <1>1, <1>2, <1>3
  <2> HIDE DEF k, R
  <2>2. Len(k) = Len(mcpProcs) /\ new \in Nat /\ new \notin DOMAIN mcpProcs
    BY <2>1
  <2>3. Append(k, t) \in Seq(R) /\ Len(Append(k, t)) = new
        /\ DOMAIN Append(k, t) = DOMAIN mcpProcs \cup {new}
    BY <2>1, <2>2
  <2>4. Append(k, t)[new] = t /\ \A p \in DOMAIN mcpProcs : Append(k, t)[p] = k[p]
    BY <2>1, <2>2
  <2> QED BY <2>1, <2>2, <2>3, <2>4 DEF R
<1> HIDE DEF k, new
<1>5. /\ mcpClient' \in McpClients /\ mcpClient'.pc = "spawned" /\ mcpClient'.child = new
      /\ \A f \in {"target", "call", "try", "line", "conn", "hurt", "cut", "late"} :
            mcpClient'[f] = mcpClient[f]
  BY <1>1, <1>4 DEF McpClients, McpPlaces
<1>6. /\ \A p \in DOMAIN mcpProcs : Calls!Alive(p)' <=> Calls!Alive(p) /\ p # mcpClient.child
      /\ Calls!Serving' = {} /\ Calls!Ours' \subseteq {new}
  <2>1. \A p \in DOMAIN mcpProcs : Calls!Alive(p)' <=> Calls!Alive(p) /\ p # mcpClient.child
    BY <1>3, <1>4 DEF Calls!Alive
  <2>2. Calls!Serving' = {}
    <3>1. ASSUME NEW p \in DOMAIN mcpProcs' PROVE mcpProcs'[p].state # "serves"
      <4>1. CASE p = new
        BY <1>2, <1>4, <4>1
      <4>2. CASE p = mcpClient.child /\ p # new
        BY <1>3, <1>4, <4>2
      <4>3. CASE p # mcpClient.child /\ p # new
        <5>1. p \in DOMAIN mcpProcs /\ mcpProcs'[p] = mcpProcs[p]
          BY <1>3, <1>4, <4>3
        <5> QED BY <1>1, <5>1 DEF Calls!Serving
      <4> QED BY <4>1, <4>2, <4>3
    <3> QED BY <3>1 DEF Calls!Serving
  <2>3. Calls!Ours \subseteq {mcpClient.child}
    BY <1>1 DEF BridgeInv, ChildInv
  <2> QED BY <1>3, <1>4, <2>1, <2>2, <2>3 DEF Calls!Ours
<1>7. /\ \A i \in DOMAIN mcpSocks : mcpSocks[i].app # 0 => mcpSocks[i].app \in DOMAIN mcpProcs
      /\ \A s \in mcpShots : s[1] \in DOMAIN mcpProcs
      /\ \A n \in DOMAIN mcpRan : mcpRan[n].app \in DOMAIN mcpProcs
  <2>1. \A s \in (DOMAIN mcpProcs) \X Nat \X Nat : s[1] \in DOMAIN mcpProcs
    OBVIOUS
  <2> QED BY <2>1, RanTyped DEF BridgeInv, McpType, Connected
<1>8. McpType'
  <2>1. mcpShots' \subseteq (DOMAIN mcpProcs') \X Nat \X Nat
    BY <1>1, <1>4 DEF BridgeInv, McpType
  <2>2. mcpRan' \in Seq([of : Nat \X Nat, app : DOMAIN mcpProcs'])
    <3> DEFINE R == [of : Nat \X Nat, app : DOMAIN mcpProcs]
               T == [of : Nat \X Nat, app : DOMAIN mcpProcs']
    <3>1. mcpRan \in Seq(R) /\ R \subseteq T /\ mcpRan' = mcpRan
      BY <1>1, <1>4 DEF BridgeInv, McpType
    <3>2. \A S, V : S \subseteq V => Seq(S) \subseteq Seq(V)
      OBVIOUS
    <3> HIDE DEF R, T
    <3>3. mcpRan' \in Seq(T)
      BY <3>1, <3>2
    <3> QED BY <3>3 DEF T
  <2> QED BY <1>1, <1>4, <1>5, <2>1, <2>2 DEF BridgeInv, McpType
<1>9. Connected'
  <2>1. \A i \in DOMAIN mcpSocks : mcpSocks[i].app # 0 =>
           mcpProcs'[mcpSocks[i].app].state \in {"serves", "dead"}
    <3>1. ASSUME NEW p \in DOMAIN mcpProcs, mcpProcs[p].state \in {"serves", "dead"}
          PROVE  mcpProcs'[p].state \in {"serves", "dead"}
      <4>1. CASE p = mcpClient.child
        BY <1>3, <1>4, <4>1
      <4>2. CASE p # mcpClient.child
        BY <1>3, <1>4, <3>1, <4>2
      <4> QED BY <4>1, <4>2
    <3> QED BY <1>1, <1>7, <3>1 DEF Connected
  <2> QED BY <1>1, <1>4, <1>5, <1>6, <1>7, <2>1 DEF Connected, Conn, Over
<1>10. ChildInv' /\ TrustInv'
  BY <1>1, <1>5, <1>6 DEF BridgeInv, ChildInv, TrustInv
<1>11. HurtInv'
  <2>1. mcpAnswer.kind = "error" => mcpAnswer.hurt
    BY DEF BridgeInv, HurtInv
  <2>2. Busy' <=> Busy
    BY <1>1, <1>5 DEF Busy, Over
  <2>3. ASSUME Busy', NEW p \in DOMAIN mcpProcs', Calls!Alive(p)', ~Calls!Runs(p)'
        PROVE  mcpClient.hurt
    <3>0. mcpProcs'[p].still
      BY <2>3 DEF Calls!Runs
    <3>a. p # new
      BY <1>2, <1>4, <3>0
    <3>b. p \in DOMAIN mcpProcs /\ mcpProcs'[p] = k[p]
      BY <1>4, <3>a
    <3>1. p \in DOMAIN mcpProcs /\ Calls!Alive(p) /\ mcpProcs[p].still
      BY <1>3, <1>6, <2>3, <3>0, <3>b
    <3> QED BY <2>2, <2>3, <3>1 DEF BridgeInv, HurtInv, Calls!Runs
  <2> QED BY <1>1, <1>5, <2>1, <2>2, <2>3 DEF BridgeInv, HurtInv, Over, Conn
<1>12. FlightInv'
  BY <1>1, <1>5 DEF FlightInv, Conn
<1>13. RanInv'
  <2>1. \A i \in DOMAIN mcpSocks : Unread(i)' => Unread(i)
    BY <1>1, <1>6, <1>7 DEF Unread
  <2>2. Lone => Lone'
    BY <1>1, <1>5, <2>1 DEF Lone, Follows, Conn
  <2>3. Sorted => Sorted'
    BY <1>1 DEF Sorted
  <2>4. Past => Past'
    BY <1>1, <1>5, <1>6, <1>7 DEF Past, Over
  <2> QED BY <1>5, <2>2, <2>3, <2>4 DEF BridgeInv, RanInv
<1>14. PictureInv'
  <2>1. Fit' => Fit /\ mcpShots = {}
    BY <1>1, <1>5 DEF BridgeInv, PictureInv, Fit, Over
  <2>2. mcpShots' \subseteq mcpShots
    BY <1>1
  <2> QED BY <1>1, <1>5, <2>1, <2>2 DEF BridgeInv, PictureInv
<1> QED BY <1>8, <1>9, <1>10, <1>11, <1>12, <1>13, <1>14 DEF BridgeInv

\* An attempt that failed: no line is left of it, and if it was the second,
\* its time saw a fault.
LEMMA FailsKeeps ==
    ASSUME BridgeInv, NEW cut \in BOOLEAN, Calls!Fails(cut),
           mcpClient.pc \in {"ensure", "spawned", "request", "reply"},
           mcpClient.pc \in {"ensure", "spawned"} => Conn = NoFile,
           Conn = NoFile \/ cut \/ (~Calls!Alive(Sock.app) /\ (~Sock.cut => Sock.down = <<>>)),
           cut => Conn # NoFile,
           mcpClient.call # 0 /\ mcpClient.try = 2 => mcpClient.hurt
    PROVE  BridgeInv'
<1>1. /\ mcpClient \in McpClients /\ Connected /\ mcpSocks \in Seq(McpSocks)
      /\ UNCHANGED <<mcpToken, mcpRan, mcpFile, mcpFaults>> /\ mcpAnswer \in McpAnswers
  BY DEF BridgeInv, McpType, Calls!Fails
<1>2. CASE mcpClient.call = 0
  <2>1. Conn = NoFile /\ ~Over
    BY <1>2 DEF BridgeInv, HurtInv, Over
  <2> QED BY <1>1, <1>2, <2>1, DroppedKeeps DEF Calls!Fails
<1>3. ~mcpClient.cut /\ ~cut => \A i \in DOMAIN mcpSocks : ~Unread(i)
  <2>1. ASSUME ~mcpClient.cut, ~cut, NEW i \in DOMAIN mcpSocks, Unread(i) PROVE FALSE
    <3>1. i = Conn
      BY <2>1 DEF BridgeInv, RanInv, Lone
    <3>2. Conn # NoFile
      <4>1. i \in Nat
        BY <1>1
      <4> QED BY <3>1, <4>1, AppAssumption DEF Calls!BridgeAssumption
    <3> QED BY <2>1, <3>1, <3>2 DEF Unread, Sock
  <2> QED BY <2>1
<1>4. ~mcpClient.cut /\ ~cut =>
        \A n \in DOMAIN mcpRan : mcpRan[n].of[1] = mcpClient.call => ~Calls!Alive(mcpRan[n].app)
  <2>1. mcpClient.pc = "reply" => Conn # NoFile
    BY <1>1 DEF Connected
  <2> QED BY <2>1 DEF BridgeInv, RanInv, Past
<1>5. Fit /\ ~cut => mcpShots = {}
  <2>1. ASSUME Fit, ~cut, NEW s \in mcpShots PROVE FALSE
    <3>1. mcpClient.pc = "reply" /\ s[1] = Sock.app
      BY <2>1 DEF BridgeInv, PictureInv
    <3>2. Calls!Alive(s[1]) /\ Conn # NoFile
      BY <1>1, <2>1, <3>1 DEF Connected
    <3> QED BY <2>1, <3>1, <3>2
  <2> QED BY <2>1
<1>6. ASSUME mcpClient.call # 0, mcpClient.try = 1
      PROVE  BridgeInv'
  <2>1. /\ UNCHANGED <<mcpProcs, mcpShots, mcpAnswer>>
        /\ mcpClient' = [Calls!Retried(mcpClient) EXCEPT !.cut = @ \/ cut]
        /\ mcpSocks' = IF mcpClient'.conn = NoFile THEN Calls!Closed(mcpSocks, Conn) ELSE mcpSocks
    BY <1>6 DEF Calls!Fails, Conn
  <2>2. PICK c \in BOOLEAN : c <=> mcpClient.cut \/ cut
    OBVIOUS
  <2>3. mcpClient' = [mcpClient EXCEPT !.pc = "ensure", !.try = 2, !.conn = NoFile, !.cut = c]
    BY <1>1, <2>1, <2>2 DEF Calls!Retried, McpClients
  <2>4. /\ mcpClient' \in McpClients /\ mcpClient'.pc = "ensure" /\ mcpClient'.try = 2
        /\ mcpClient'.conn = NoFile /\ mcpClient'.cut = c
        /\ \A f \in {"target", "call", "line", "child", "hurt", "late"} : mcpClient'[f] = mcpClient[f]
    BY <1>1, <2>3 DEF McpClients, McpPlaces
  <2>5. /\ mcpSocks' \in Seq(McpSocks) /\ DOMAIN mcpSocks' = DOMAIN mcpSocks
        /\ \A i \in DOMAIN mcpSocks :
              \/ mcpSocks'[i] = Calls!Gone
              \/ \A g \in {"app", "up"} : mcpSocks'[i][g] = mcpSocks[i][g]
    <3>1. CASE Conn = NoFile
      BY <1>1, <2>1, <3>1 DEF Calls!Closed
    <3>2. CASE Conn # NoFile
      <4> DEFINE f == [mcpSocks EXCEPT ![Conn].open = FALSE]
      <4>1. mcpSocks' = Calls!Swept(f)
        BY <2>1, <2>4, <3>2 DEF Calls!Closed
      <4>2. Len(mcpSocks) \in Nat /\ DOMAIN mcpSocks = 1..Len(mcpSocks) /\ DOMAIN f = DOMAIN mcpSocks
        BY <1>1
      <4>3. ASSUME NEW i \in DOMAIN mcpSocks
            PROVE  f[i] \in McpSocks /\ f[i].app = mcpSocks[i].app /\ f[i].up = mcpSocks[i].up
        <5>1. mcpSocks[i] \in McpSocks
          BY SockTyped DEF BridgeInv
        <5>2. PICK t : t = [mcpSocks[i] EXCEPT !.open = FALSE]
          OBVIOUS
        <5>3. t \in McpSocks /\ t.app = mcpSocks[i].app /\ t.up = mcpSocks[i].up
          BY <5>1, <5>2 DEF McpSocks
        <5>4. f[i] = t \/ f[i] = mcpSocks[i]
          BY <5>2
        <5> HIDE DEF f
        <5> QED BY <5>1, <5>3, <5>4
      <4> HIDE DEF f
      <4>4. /\ Calls!Swept(f) \in Seq(McpSocks) /\ DOMAIN Calls!Swept(f) = 1..Len(mcpSocks)
            /\ \A i \in 1..Len(mcpSocks) : Calls!Swept(f)[i] = f[i] \/ Calls!Swept(f)[i] = Calls!Gone
        BY <4>2, <4>3, SweptTyped
      <4> QED BY <4>1, <4>2, <4>3, <4>4
    <3> QED BY <3>1, <3>2
  <2>6. \A p : Calls!Alive(p)' <=> Calls!Alive(p)
    BY <2>1 DEF Calls!Alive
  <2>7. Calls!Serving' = Calls!Serving /\ Calls!Ours' = Calls!Ours
    BY <2>1, <2>6 DEF Calls!Serving, Calls!Ours
  <2>8. McpType'
    BY <1>1, <2>1, <2>4, <2>5 DEF BridgeInv, McpType
  <2>9. Connected'
    BY <1>1, <2>1, <2>4, <2>5, <2>6, <2>7, GoneTyped DEF Connected, Conn, Over
  <2>10. ChildInv' /\ TrustInv' /\ FlightInv'
    BY <2>1, <2>4, <2>7 DEF BridgeInv, ChildInv, TrustInv, FlightInv, Conn
  <2>11. HurtInv'
    BY <1>6, <2>1, <2>4, <2>6, <2>7 DEF BridgeInv, HurtInv, Busy, Over, Conn, Calls!Runs
  <2>12. RanInv'
    <3>1. ~c => \A i \in DOMAIN mcpSocks : ~Unread(i)'
      BY <1>3, <2>2, <2>5, <2>6, GoneTyped DEF Unread
    <3>2. ~c => Lone'
      BY <2>5, <3>1 DEF Lone
    <3>3. ~c => Sorted' /\ Past'
      BY <1>1, <1>4, <2>2, <2>4, <2>6 DEF BridgeInv, RanInv, Sorted, Past, Over
    <3> QED BY <2>4, <3>2, <3>3 DEF RanInv
  <2>13. PictureInv'
    <3>1. Fit' => Fit /\ ~cut
      BY <2>2, <2>4 DEF Fit, Over
    <3> QED BY <1>1, <1>5, <1>6, <2>1, <2>2, <2>4, <3>1 DEF BridgeInv, PictureInv, Fit
  <2> QED BY <2>8, <2>9, <2>10, <2>11, <2>12, <2>13 DEF BridgeInv
<1>7. ASSUME mcpClient.call # 0, mcpClient.try = 2
      PROVE  BridgeInv'
  <2>1. /\ UNCHANGED <<mcpProcs, mcpShots>>
        /\ mcpClient' = [mcpClient EXCEPT !.pc = "idle", !.cut = @ \/ cut]
        /\ mcpSocks' = IF cut THEN [mcpSocks EXCEPT ![Conn].cut = TRUE] ELSE mcpSocks
        /\ mcpAnswer' = Calls!Answer("error")
    BY <1>7 DEF Calls!Fails, Conn
  <2>2. PICK c \in BOOLEAN : c <=> mcpClient.cut \/ cut
    OBVIOUS
  <2>3. mcpClient' = [mcpClient EXCEPT !.pc = "idle", !.cut = c]
    BY <1>1, <2>1, <2>2 DEF McpClients
  <2>4. /\ mcpClient' \in McpClients /\ mcpClient'.pc = "idle" /\ mcpClient'.cut = c
        /\ \A f \in {"target", "call", "try", "line", "conn", "child", "hurt", "late"} :
              mcpClient'[f] = mcpClient[f]
    BY <1>1, <2>3 DEF McpClients, McpPlaces
  <2>5. /\ mcpSocks' \in Seq(McpSocks) /\ DOMAIN mcpSocks' = DOMAIN mcpSocks
        /\ \A i \in DOMAIN mcpSocks :
              \A g \in {"app", "up", "open", "down", "trusted"} : mcpSocks'[i][g] = mcpSocks[i][g]
        /\ cut => Sock'.cut
        /\ ~cut => Sock' = Sock
    <3>1. CASE ~cut
      BY <1>1, <2>1, <2>4, <3>1 DEF Sock, Conn
    <3>2. CASE cut
      <4>1. Conn \in DOMAIN mcpSocks /\ Sock \in McpSocks
        BY <1>1, <3>2, SockTyped DEF BridgeInv, Connected, Sock
      <4>2. PICK t : t = [Sock EXCEPT !.cut = TRUE]
        OBVIOUS
      <4>3. t \in McpSocks /\ t.cut /\ \A f \in {"app", "open", "trusted", "up", "down"} : t[f] = Sock[f]
        BY <4>1, <4>2 DEF McpSocks
      <4>4. mcpSocks' = [mcpSocks EXCEPT ![Conn] = t]
        BY <2>1, <3>2, <4>2 DEF Sock
      <4>5. Conn' = Conn
        BY <2>4 DEF Conn
      <4> QED BY <1>1, <3>2, <4>1, <4>3, <4>4, <4>5 DEF Sock
    <3> QED BY <3>1, <3>2
  <2>6. \A p : Calls!Alive(p)' <=> Calls!Alive(p)
    BY <2>1 DEF Calls!Alive
  <2>7. Calls!Serving' = Calls!Serving /\ Calls!Ours' = Calls!Ours /\ Conn' = Conn
    BY <2>1, <2>4, <2>6 DEF Calls!Serving, Calls!Ours, Conn
  <2>8. mcpAnswer' \in McpAnswers /\ mcpAnswer'.kind = "error" /\ mcpAnswer'.hurt
    <3>1. mcpClient.hurt \in BOOLEAN /\ mcpClient.hurt
      BY <1>1, <1>7 DEF McpClients
    <3> QED BY <2>1, <3>1 DEF Calls!Answer, Calls!NoAnswer, McpAnswers
  <2>9. McpType'
    BY <1>1, <2>1, <2>4, <2>5, <2>8 DEF BridgeInv, McpType
  <2>10. Connected'
    BY <1>1, <2>1, <2>4, <2>5, <2>6, <2>7 DEF Connected, Over, Sock
  <2>11. ChildInv' /\ TrustInv'
    BY <2>1, <2>4, <2>7, <2>8 DEF BridgeInv, ChildInv, TrustInv
  <2>12. HurtInv'
    BY <1>7, <2>4, <2>8 DEF HurtInv, Busy, Over
  <2>13. FlightInv'
    BY <1>1, <2>2, <2>4, <2>5, <2>6, <2>7 DEF BridgeInv, FlightInv, Awaits
  <2>14. RanInv'
    <3>1. ~c => \A i \in DOMAIN mcpSocks : ~Unread(i)'
      BY <1>3, <2>2, <2>5, <2>6 DEF Unread
    <3>2. ~c => Lone'
      BY <2>5, <3>1 DEF Lone
    <3>3. ~c => Sorted' /\ Past'
      BY <1>1, <2>2, <2>4 DEF BridgeInv, RanInv, Sorted, Past, Over
    <3> QED BY <2>4, <3>2, <3>3 DEF RanInv
  <2>15. PictureInv'
    <3>1. Fit' => Fit /\ ~cut
      BY <2>2, <2>4 DEF Fit, Over
    <3> QED BY <1>1, <1>5, <1>7, <2>1, <2>2, <2>4, <2>8, <3>1 DEF BridgeInv, PictureInv, Fit
  <2> QED BY <2>9, <2>10, <2>11, <2>12, <2>13, <2>14, <2>15 DEF BridgeInv
<1> QED BY <1>1, <1>2, <1>6, <1>7 DEF McpClients

\* The ways an attempt fails: nobody serves, the app is gone before the line
\* or before the reply, or it stands still for ten seconds.
LEMMA FailuresKeep ==
    ASSUME BridgeInv, Calls!Unreachable \/ Calls!WriteFails \/ Calls!NoReply
    PROVE  BridgeInv'
<1>1. mcpClient.call \in Nat /\ Connected /\ HurtInv /\ FlightInv
  BY DEF BridgeInv, McpType, McpClients
<1>2. CASE Calls!Unreachable
  <2>1. /\ Conn = NoFile /\ Calls!Fails(FALSE) /\ Calls!Serving = {}
        /\ \/ mcpClient.pc = "spawned" /\ mcpClient.hurt
           \/ mcpClient.pc = "ensure" /\ mcpClient.target = "addr"
    BY <1>2 DEF Calls!Unreachable, Calls!At, Conn
  <2>2. mcpClient.call # 0 => mcpClient.hurt
    BY <1>1, <2>1 DEF HurtInv, Busy, Over
  <2> QED BY <2>1, <2>2, FailsKeeps
<1>3. CASE Calls!WriteFails
  <2>1. /\ mcpClient.pc = "request" /\ ~Calls!Alive(Sock.app) /\ Calls!Fails(FALSE)
        /\ Conn # NoFile
    BY <1>1, <1>3 DEF Calls!WriteFails, Calls!At, Conn, Sock, Connected
  <2>2. ~Sock.cut => Sock.down = <<>>
    BY <1>1, <2>1 DEF FlightInv, Awaits
  <2>3. mcpClient.call # 0 /\ mcpClient.try = 2 => mcpClient.hurt
    BY <1>1, <2>1 DEF HurtInv, Busy, Over
  <2> QED BY <2>1, <2>2, <2>3, FailsKeeps
<1>4. CASE Calls!NoReply
  <2>1. mcpClient.pc = "reply" /\ Conn # NoFile
    BY <1>1, <1>4 DEF Calls!NoReply, Calls!At, Connected
  <2>2. CASE Calls!Ended(Conn) /\ Calls!Fails(FALSE)
    <3>1. ~Calls!Alive(Sock.app) /\ Sock.down = <<>>
      BY <2>2 DEF Calls!Ended, Sock
    <3>2. mcpClient.call # 0 /\ mcpClient.try = 2 => mcpClient.hurt
      BY <1>1, <2>1, <3>1 DEF HurtInv, Busy, Over
    <3> QED BY <2>1, <2>2, <3>1, <3>2, FailsKeeps
  <2>3. CASE Calls!Silent(Conn) /\ Calls!Fails(TRUE)
    <3>1. Calls!Alive(Sock.app) /\ ~Calls!Runs(Sock.app) /\ Sock.app \in DOMAIN mcpProcs
      BY <1>1, <2>1, <2>3 DEF Calls!Silent, Sock, Connected
    <3>2. mcpClient.call # 0 => mcpClient.hurt
      BY <1>1, <2>1, <3>1 DEF HurtInv, Busy, Over
    <3> QED BY <2>1, <2>3, <3>2, FailsKeeps
  <2> QED BY <1>4, <2>2, <2>3 DEF Calls!NoReply, Conn
<1> QED BY <1>2, <1>3, <1>4

\* The invariant holds at the start.
LEMMA BridgeInitially == Calls!Init => BridgeInv
<1> SUFFICES ASSUME Calls!Init PROVE BridgeInv
  OBVIOUS
<1>1. /\ mcpProcs = <<>> /\ mcpToken = 0 /\ mcpSocks = <<>> /\ mcpRan = <<>> /\ mcpShots = {}
      /\ mcpFile = NoFile /\ mcpAnswer = Calls!NoAnswer /\ mcpFaults = 0
      /\ \E target \in McpTargets : mcpClient = Calls!Fresh(target)
  BY DEF Calls!Init
<1>2. /\ mcpClient \in McpClients /\ mcpClient.pc = "ensure" /\ mcpClient.call = 0
      /\ mcpClient.conn = NoFile /\ mcpClient.line = "query"
  <2>1. PICK target \in {"addr", "spawn"} : mcpClient = Calls!Fresh(target)
    BY <1>1, AppAssumption DEF Calls!BridgeAssumption
  <2> QED BY <2>1 DEF Calls!Fresh, McpClients, McpPlaces
<1>3. DOMAIN mcpProcs = {} /\ DOMAIN mcpSocks = {} /\ DOMAIN mcpRan = {}
  BY <1>1
<1>4. McpType
  <2>1. mcpRan \in Seq([of : Nat \X Nat, app : DOMAIN mcpProcs])
    BY <1>1
  <2> QED BY <1>1, <1>2, <2>1, NoAnswerTyped DEF McpType
<1>5. Connected /\ ChildInv
  BY <1>1, <1>2, <1>3 DEF Connected, ChildInv, Calls!Serving, Calls!Ours, Conn, Over
<1>6. HurtInv /\ FlightInv /\ TrustInv /\ PictureInv
  BY <1>1, <1>2, NoAnswerTyped DEF HurtInv, Busy, Over, FlightInv, TrustInv, PictureInv, Fit, Conn
<1>7. RanInv
  BY <1>3 DEF RanInv, Lone, Sorted, Past
<1> QED BY <1>4, <1>5, <1>6, <1>7 DEF BridgeInv

\* Every step keeps it.
LEMMA BridgeGoesOn == BridgeInv /\ [Calls!Next]_mcpVars => BridgeInv'
<1> SUFFICES ASSUME BridgeInv, [Calls!Next]_mcpVars PROVE BridgeInv'
  OBVIOUS
<1>1. CASE \E line \in McpLines : Calls!Call(line)
  BY <1>1, CallKeeps
<1>2. CASE \/ Calls!Kept \/ Calls!Connect \/ Calls!TakesTooLong \/ Calls!Respawn
           \/ Calls!Challenged \/ Calls!Trusted \/ Calls!NotAnswered \/ Calls!Write \/ Calls!Reply
  BY <1>2, KeptKeeps, ConnectKeeps, TakesTooLongKeeps, RespawnKeeps, ChallengedKeeps, TrustedKeeps,
     NotAnsweredKeeps, WriteKeeps, ReplyKeeps
<1>3. CASE Calls!Unreachable \/ Calls!WriteFails \/ Calls!NoReply
  BY <1>3, FailuresKeep
<1>4. CASE Calls!Picture \/ Calls!PictureLate \/ Calls!Exit \/ Calls!ServerKilled \/ Calls!Launch
  BY <1>4, PictureKeeps, PictureLateKeeps, ExitKeeps, ServerKilledKeeps, LaunchKeeps
<1>5. CASE Calls!Watchdog
  BY <1>5, CrashKeeps DEF Calls!Watchdog
<1>6. CASE \E i \in DOMAIN mcpSocks : Calls!Serve(i)
  BY <1>6, ServeKeeps
<1>7. CASE \E s \in mcpShots : Calls!Shoot(s)
  BY <1>7, ShootKeeps
<1>8. CASE \E p \in DOMAIN mcpProcs : \/ Calls!Listen(p) \/ Calls!StandStill(p) \/ Calls!Resume(p)
                                      \/ \E kept \in BOOLEAN : Calls!Crash(p, kept)
  BY <1>8, ProcGoesOn, CrashKeeps
<1>9. CASE UNCHANGED mcpVars
  <2>1. /\ UNCHANGED <<mcpProcs, mcpToken, mcpSocks, mcpClient, mcpRan, mcpShots, mcpFile, mcpAnswer,
                       mcpFaults>>
    BY <1>9 DEF mcpVars
  <2>2. /\ Conn' = Conn /\ Sock' = Sock /\ Over' = Over /\ Busy' = Busy /\ Fit' = Fit
        /\ Calls!Serving' = Calls!Serving /\ Calls!Ours' = Calls!Ours
        /\ \A p : Calls!Alive(p)' = Calls!Alive(p) /\ Calls!Runs(p)' = Calls!Runs(p)
    BY <2>1 DEF Conn, Sock, Over, Busy, Fit, Calls!Serving, Calls!Ours, Calls!Alive, Calls!Runs
  <2>3. McpType' /\ Connected' /\ ChildInv'
    BY <2>1, <2>2 DEF BridgeInv, McpType, Connected, ChildInv
  <2>4. HurtInv' /\ TrustInv'
    BY <2>1, <2>2 DEF BridgeInv, HurtInv, TrustInv
  <2>5. FlightInv'
    BY <2>1, <2>2 DEF BridgeInv, FlightInv, Awaits, Asked, ItsReply, Calls!LineOf
  <2>6. RanInv'
    BY <2>1, <2>2 DEF BridgeInv, RanInv, Lone, Sorted, Past, Unread, Follows
  <2>7. PictureInv'
    BY <2>1, <2>2 DEF BridgeInv, PictureInv, Unread
  <2> QED BY <2>3, <2>4, <2>5, <2>6, <2>7 DEF BridgeInv
<1> QED BY <1>1, <1>2, <1>3, <1>4, <1>5, <1>6, <1>7, <1>8, <1>9 DEF Calls!Next

\* One call, one app, one picture: the invariant says it.
LEMMA BridgeServes == BridgeInv => CallsAreServed
<1> SUFFICES ASSUME BridgeInv PROVE CallsAreServed
  OBVIOUS
<1>1. Calls!AnswersTheCall /\ Calls!NotStranded /\ Calls!TrustFollows
  BY DEF BridgeInv, TrustInv, PictureInv, HurtInv, Calls!AnswersTheCall, Calls!NotStranded,
         Calls!TrustFollows
<1>2. Calls!LinesInOrder
  <2>1. DOMAIN mcpRan = 1..Len(mcpRan)
    BY DEF BridgeInv, McpType
  <2> QED BY <2>1 DEF BridgeInv, RanInv, Sorted, Calls!LinesInOrder
<1>3. Calls!OneChild
  <2>1. \E c : Calls!Ours \subseteq {c}
    BY DEF BridgeInv, ChildInv
  <2>2. Calls!Ours = {} \/ \E c : Calls!Ours = {c}
    BY <2>1
  <2>3. Calls!Cardinality(Calls!Ours) <= 1
    <3>1. Cardinality(Calls!Ours) <= 1
      <4>1. CASE Calls!Ours = {}
        BY <4>1, FS_EmptySet
      <4>2. CASE \E c : Calls!Ours = {c}
        <5>1. PICK c : Calls!Ours = {c}
          BY <4>2
        <5>2. Cardinality({c}) = 1
          BY FS_Singleton
        <5> QED BY <5>1, <5>2
      <4> QED BY <2>2, <4>1, <4>2
    <3>2. Calls!Cardinality(Calls!Ours) = Cardinality(Calls!Ours)
      BY DEF Cardinality, Calls!Cardinality
    <3> QED BY <3>1, <3>2
  <2> QED BY <2>3 DEF Calls!OneChild, Calls!At, BridgeInv, ChildInv
<1> QED BY <1>1, <1>2, <1>3 DEF CallsAreServed

\* A call of the bridge is answered by the reply to its own line, fails only
\* when its app failed, and what it ran and spawned is accounted for, however
\* many calls, processes and faults there are.
THEOREM CallsAreServedHolds == Calls!Spec => []CallsAreServed
<1>1. Calls!Init => BridgeInv
  BY BridgeInitially
<1>2. BridgeInv /\ [Calls!Next]_(Calls!vars) => BridgeInv'
  <2>1. mcpVars = Calls!vars /\ mcpVars' = Calls!vars'
    BY DEF mcpVars, Calls!vars
  <2> QED BY <2>1, BridgeGoesOn
<1>3. BridgeInv => CallsAreServed
  BY BridgeServes
<1> QED BY <1>1, <1>2, <1>3, PTL DEF Calls!Spec
-----------------------------------------------------------------------------
(* Recorder: the ring is the tail of what was offered.                     *)

\* A set of naturals has a least element.
LEMMA NatMin ==
    ASSUME NEW S \in SUBSET Nat, S # {}
    PROVE  \E x \in S : \A y \in S : x <= y
<1>1. IsWellFoundedOn(OpToRel(<, Nat), Nat)
  BY NatLessThanWellFounded
<1>2. PICK x \in S : \A y \in S : ~ (<<y, x>> \in OpToRel(<, Nat))
  BY <1>1, WFMin, Zenon
<1>3. \A y \in S : ~ (y < x)
  BY <1>2 DEF OpToRel
<1> QED BY <1>3

\* Induction, over a set.
LEMMA SetInduction ==
    ASSUME NEW S, 0 \in S, \A n \in Nat : n \in S => n + 1 \in S
    PROVE  Nat \subseteq S
<1> SUFFICES ASSUME Nat \ S # {} PROVE FALSE
  OBVIOUS
<1>1. PICK x \in Nat \ S : \A y \in Nat \ S : x <= y
  BY NatMin
<1>2. x # 0 /\ x - 1 \in Nat
  BY <1>1
<1>3. x - 1 \in S
  BY <1>1, <1>2
<1> QED BY <1>1, <1>2, <1>3

StepsFrom(f, base, step, n) == f[0] = base /\ \A i \in 1..n : f[i] = step[<<f[i - 1], i>>]

\* A function can be defined by what each step makes of the one before.
LEMMA StepsExist ==
    ASSUME NEW n \in Nat, NEW S, NEW base \in S, NEW step \in [S \X Nat -> S]
    PROVE  \E f \in [0..n -> S] : StepsFrom(f, base, step, n)
<1> DEFINE IsFor(m, f) == f[0] = base /\ \A i \in 1..m : f[i] = step[<<f[i - 1], i>>]
           Done == {m \in Nat : \E f \in [0..m -> S] : IsFor(m, f)}
<1>1. 0 \in Done
  <2> DEFINE g == [i \in 0..0 |-> base]
  <2>1. g \in [0..0 -> S] /\ IsFor(0, g)
    OBVIOUS
  <2> QED BY <2>1
<1>2. ASSUME NEW m \in Nat, m \in Done PROVE m + 1 \in Done
  <2>1. PICK f \in [0..m -> S] : IsFor(m, f)
    BY <1>2
  <2> DEFINE g == [i \in 0..(m + 1) |-> IF i = m + 1 THEN step[<<f[m], m + 1>>] ELSE f[i]]
  <2>2. f[m] \in S /\ <<f[m], m + 1>> \in S \X Nat
    OBVIOUS
  <2>3. step[<<f[m], m + 1>>] \in S
    BY <2>2
  <2>4. g \in [0..(m + 1) -> S]
    BY <2>3
  <2>5. \A i \in 0..m : g[i] = f[i]
    OBVIOUS
  <2>6. g[m + 1] = step[<<f[m], m + 1>>]
    OBVIOUS
  <2> HIDE DEF g
  <2>7. g[0] = base
    BY <2>1, <2>5
  <2>8. ASSUME NEW i \in 1..(m + 1) PROVE g[i] = step[<<g[i - 1], i>>]
    <3>1. CASE i = m + 1
      <4>1. g[i - 1] = f[m]
        BY <3>1, <2>5
      <4> QED BY <3>1, <4>1, <2>6
    <3>2. CASE i \in 1..m
      <4>1. g[i] = f[i] /\ g[i - 1] = f[i - 1]
        BY <3>2, <2>5
      <4> QED BY <3>2, <4>1, <2>1
    <3> QED BY <3>1, <3>2
  <2> QED BY <2>4, <2>7, <2>8
<1> HIDE DEF Done
<1>3. n \in Done
  BY <1>1, <1>2, SetInduction
<1> QED BY <1>3 DEF Done, StepsFrom

RecRecord == [session : Nat, seq : Nat \ {0}]
Rings == Seq(RecRecord)
Recs == [on : BOOLEAN, ring : Rings, last : Nat]

\* Where record_frames is after each of the records that arrived.
Along(f, r, arrived) ==
    f[0] = r /\ \A i \in 1..Len(arrived) : f[i] = Rec!Recorded(f[i - 1], arrived[i])

\* A push keeps a ring a ring.
LEMMA PushTyped ==
    ASSUME NEW ring \in Rings, NEW r \in RecRecord
    PROVE  Rec!Push(ring, r) \in Rings
<1>1. Append(ring, r) \in Rings
  BY DEF Rings
<1>2. Len(Append(ring, r)) \div RecChunk \in Nat
  BY AppAssumption DEF Rec!RecorderAssumption, Rings
<1>3. Rec!Overflow(Append(ring, r)) \in Rings
  <2> DEFINE g == Append(ring, r)
             drop == IF Len(g) \div RecChunk > 1 THEN Len(g) \div RecChunk ELSE 1
  <2>1. drop + 1 \in Nat /\ drop + 1 >= 1
    BY <1>2
  <2>2. SubSeq(g, drop + 1, Len(g)) \in Seq(RecRecord)
    BY <1>1, <2>1, SubSeqProperties DEF Rings
  <2> QED BY <2>2 DEF Rec!Overflow, Rings
<1> QED BY <1>1, <1>3 DEF Rec!Push

\* What record_frames does with one record stays a recorder.
LEMMA RecordedTyped ==
    ASSUME NEW r \in Recs, NEW f \in RecRecord
    PROVE  Rec!Recorded(r, f) \in Recs
<1>1. r.ring \in Rings /\ f.seq \in Nat
  BY DEF Recs, RecRecord
<1>2. Rec!Push(r.ring, f) \in Rings
  BY <1>1, PushTyped
<1> QED BY <1>1, <1>2 DEF Rec!Recorded, Recs

\* record_frames takes the records one after the other.
LEMMA RecordIs ==
    ASSUME NEW r \in Recs, NEW arrived \in Rings
    PROVE  \E f \in [0..Len(arrived) -> Recs] : Along(f, r, arrived) /\ Rec!Record(r, arrived) = f[Len(arrived)]
<1> DEFINE n == Len(arrived)
           step == [p \in Recs \X Nat |->
                       IF p[2] \in 1..n THEN Rec!Recorded(p[1], arrived[p[2]]) ELSE p[1]]
<1>1. n \in Nat /\ \A i \in 1..n : arrived[i] \in RecRecord
  BY DEF Rings
<1>2. step \in [Recs \X Nat -> Recs]
  <2> SUFFICES ASSUME NEW p \in Recs \X Nat
               PROVE  (IF p[2] \in 1..n THEN Rec!Recorded(p[1], arrived[p[2]]) ELSE p[1]) \in Recs
    OBVIOUS
  <2> QED BY <1>1, RecordedTyped
<1> HIDE DEF step
<1>3. PICK f \in [0..n -> Recs] : StepsFrom(f, r, step, n)
  <2> HIDE DEF n
  <2> QED BY <1>1, <1>2, StepsExist
<1>4. ASSUME NEW i \in 1..n PROVE f[i] = Rec!Recorded(f[i - 1], arrived[i])
  <2>1. f[i - 1] \in Recs /\ <<f[i - 1], i>> \in Recs \X Nat
    BY <1>1
  <2> QED BY <1>3, <2>1 DEF step, StepsFrom
<1> DEFINE Body(g) == [i \in 0..n |-> IF i = 0 THEN r ELSE Rec!Recorded(g[i - 1], arrived[i])]
           F == CHOOSE g : g = Body(g)
<1>5. f = Body(f)
  <2>1. \A i \in 0..n : f[i] = IF i = 0 THEN r ELSE Rec!Recorded(f[i - 1], arrived[i])
    BY <1>3, <1>4, <1>1 DEF StepsFrom
  <2> QED BY <2>1
<1>6. F = Body(F)
  <2> HIDE DEF Body
  <2> QED BY <1>5
<1>7. Rec!Record(r, arrived) = F[n]
  BY DEF Rec!Record
<1> HIDE DEF F
<1>8. F[0] = r /\ \A i \in 1..n : F[i] = Rec!Recorded(F[i - 1], arrived[i])
  <2>1. \A i \in 0..n : F[i] = IF i = 0 THEN r ELSE Rec!Recorded(F[i - 1], arrived[i])
    BY <1>6
  <2> QED BY <2>1, <1>1
<1>9. F \in [0..n -> Recs]
  <2> DEFINE T == {k \in Nat : k \in 0..n => F[k] \in Recs}
  <2>1. 0 \in T
    BY <1>8
  <2>2. ASSUME NEW k \in Nat, k \in T PROVE k + 1 \in T
    <3> SUFFICES ASSUME k + 1 \in 0..n PROVE F[k + 1] \in Recs
      OBVIOUS
    <3>1. F[k] \in Recs /\ k + 1 \in 1..n /\ F[k + 1] = Rec!Recorded(F[k], arrived[k + 1])
      BY <2>2, <1>8, <1>1
    <3> QED BY <3>1, <1>1, RecordedTyped
  <2> HIDE DEF T
  <2>3. \A k \in 0..n : k \in T
    BY <2>1, <2>2, SetInduction, <1>1
  <2>4. \A k \in 0..n : F[k] \in Recs
    BY <2>3, <1>1 DEF T
  <2> QED BY <1>6, <2>4
<1> QED BY <1>7, <1>8, <1>9 DEF Along

\* The ring after a file's records were pushed.
LEMMA PushedIs ==
    ASSUME NEW file \in Rings
    PROVE  \E f \in [0..Len(file) -> Rings] :
              /\ f[0] = <<>> /\ \A i \in 1..Len(file) : f[i] = Rec!Push(f[i - 1], file[i])
              /\ Rec!Pushed(file) = f[Len(file)]
<1> DEFINE n == Len(file)
           step == [p \in Rings \X Nat |->
                       IF p[2] \in 1..n THEN Rec!Push(p[1], file[p[2]]) ELSE p[1]]
<1>1. n \in Nat /\ \A i \in 1..n : file[i] \in RecRecord
  BY DEF Rings
<1>2. step \in [Rings \X Nat -> Rings]
  <2> SUFFICES ASSUME NEW p \in Rings \X Nat
               PROVE  (IF p[2] \in 1..n THEN Rec!Push(p[1], file[p[2]]) ELSE p[1]) \in Rings
    OBVIOUS
  <2> QED BY <1>1, PushTyped
<1> HIDE DEF step
<1>3. PICK f \in [0..n -> Rings] : StepsFrom(f, <<>>, step, n)
  <2>1. <<>> \in Rings
    BY DEF Rings
  <2> HIDE DEF n
  <2> QED BY <1>1, <1>2, <2>1, StepsExist
<1>4. ASSUME NEW i \in 1..n PROVE f[i] = Rec!Push(f[i - 1], file[i])
  <2>1. f[i - 1] \in Rings /\ <<f[i - 1], i>> \in Rings \X Nat
    BY <1>1
  <2> QED BY <1>3, <2>1 DEF step, StepsFrom
<1> DEFINE Body(g) == [i \in 0..n |-> IF i = 0 THEN <<>> ELSE Rec!Push(g[i - 1], file[i])]
           F == CHOOSE g : g = Body(g)
<1>5. f = Body(f)
  <2>1. \A i \in 0..n : f[i] = IF i = 0 THEN <<>> ELSE Rec!Push(f[i - 1], file[i])
    BY <1>3, <1>4, <1>1 DEF StepsFrom
  <2> QED BY <2>1
<1>6. F = Body(F)
  <2> HIDE DEF Body
  <2> QED BY <1>5
<1>7. Rec!Pushed(file) = F[n]
  BY DEF Rec!Pushed
<1> HIDE DEF F
<1>8. F[0] = <<>> /\ \A i \in 1..n : F[i] = Rec!Push(F[i - 1], file[i])
  <2>1. \A i \in 0..n : F[i] = IF i = 0 THEN <<>> ELSE Rec!Push(F[i - 1], file[i])
    BY <1>6
  <2> QED BY <2>1, <1>1
<1>9. F \in [0..n -> Rings]
  <2> DEFINE T == {k \in Nat : k \in 0..n => F[k] \in Rings}
  <2>1. 0 \in T
    <3>1. <<>> \in Rings
      BY DEF Rings
    <3> QED BY <1>8, <3>1
  <2>2. ASSUME NEW k \in Nat, k \in T PROVE k + 1 \in T
    <3> SUFFICES ASSUME k + 1 \in 0..n PROVE F[k + 1] \in Rings
      OBVIOUS
    <3>1. F[k] \in Rings /\ k + 1 \in 1..n /\ F[k + 1] = Rec!Push(F[k], file[k + 1])
      BY <2>2, <1>8, <1>1
    <3> QED BY <3>1, <1>1, PushTyped
  <2> HIDE DEF T
  <2>3. \A k \in 0..n : k \in T
    BY <2>1, <2>2, SetInduction, <1>1
  <2>4. \A k \in 0..n : F[k] \in Rings
    BY <2>3, <1>1 DEF T
  <2> QED BY <1>6, <2>4
<1> QED BY <1>7, <1>8, <1>9

\* Whether the nth record is numbered like the one before.
Again(s, n) == n > 1 /\ s[n].seq = s[n - 1].seq
Upto(f, s) ==
    /\ f[0] = <<>>
    /\ \A i \in 1..Len(s) : f[i] = IF Again(s, i) THEN f[i - 1] ELSE Append(f[i - 1], s[i])

\* The distinct records of a sequence, prefix by prefix.
LEMMA DistinctIs ==
    ASSUME NEW s \in Rings
    PROVE  \E f \in [0..Len(s) -> Rings] : Upto(f, s) /\ Rec!Distinct(s) = f[Len(s)]
<1> DEFINE n == Len(s)
           step == [p \in Rings \X Nat |->
                       IF p[2] \in 1..n /\ ~Again(s, p[2]) THEN Append(p[1], s[p[2]]) ELSE p[1]]
<1>1. n \in Nat /\ \A i \in 1..n : s[i] \in RecRecord
  BY DEF Rings
<1>2. step \in [Rings \X Nat -> Rings]
  <2> SUFFICES ASSUME NEW p \in Rings \X Nat
               PROVE  (IF p[2] \in 1..n /\ ~Again(s, p[2]) THEN Append(p[1], s[p[2]]) ELSE p[1]) \in Rings
    OBVIOUS
  <2>1. \A r \in Rings, e \in RecRecord : Append(r, e) \in Rings
    BY DEF Rings
  <2> QED BY <1>1, <2>1
<1> HIDE DEF step
<1>3. PICK f \in [0..n -> Rings] : StepsFrom(f, <<>>, step, n)
  <2>1. <<>> \in Rings
    BY DEF Rings
  <2> HIDE DEF n
  <2> QED BY <1>1, <1>2, <2>1, StepsExist
<1>4. ASSUME NEW i \in 1..n PROVE f[i] = IF Again(s, i) THEN f[i - 1] ELSE Append(f[i - 1], s[i])
  <2>1. f[i - 1] \in Rings /\ <<f[i - 1], i>> \in Rings \X Nat
    BY <1>1
  <2> QED BY <1>3, <2>1 DEF step, StepsFrom
<1> DEFINE Body(g) == [i \in 0..n |-> IF i = 0 THEN <<>>
                                      ELSE IF i > 1 /\ s[i].seq = s[i - 1].seq THEN g[i - 1]
                                      ELSE Append(g[i - 1], s[i])]
           F == CHOOSE g : g = Body(g)
<1>5. f = Body(f)
  <2>1. \A i \in 0..n : f[i] = IF i = 0 THEN <<>>
                               ELSE IF i > 1 /\ s[i].seq = s[i - 1].seq THEN f[i - 1]
                               ELSE Append(f[i - 1], s[i])
    <3> TAKE i \in 0..n
    <3>1. CASE i = 0
      BY <1>3, <3>1 DEF StepsFrom
    <3>2. CASE i # 0
      <4>1. i \in 1..n
        BY <1>1, <3>2
      <4> QED BY <4>1, <3>2, <1>4 DEF Again
    <3> QED BY <3>1, <3>2
  <2> QED BY <2>1
<1>6. F = Body(F)
  <2> HIDE DEF Body
  <2> QED BY <1>5
<1>7. Rec!Distinct(s) = F[n]
  BY DEF Rec!Distinct
<1> HIDE DEF F
<1>8. F[0] = <<>> /\ \A i \in 1..n : F[i] = IF Again(s, i) THEN F[i - 1] ELSE Append(F[i - 1], s[i])
  <2>1. \A i \in 0..n : F[i] = IF i = 0 THEN <<>>
                               ELSE IF i > 1 /\ s[i].seq = s[i - 1].seq THEN F[i - 1]
                               ELSE Append(F[i - 1], s[i])
    BY <1>6
  <2> QED BY <2>1, <1>1 DEF Again
<1>9. F \in [0..n -> Rings]
  <2> DEFINE T == {k \in Nat : k \in 0..n => F[k] \in Rings}
  <2>1. 0 \in T
    <3>1. <<>> \in Rings
      BY DEF Rings
    <3> QED BY <1>8, <3>1
  <2>2. ASSUME NEW k \in Nat, k \in T PROVE k + 1 \in T
    <3> SUFFICES ASSUME k + 1 \in 0..n PROVE F[k + 1] \in Rings
      OBVIOUS
    <3>1. F[k] \in Rings /\ k + 1 \in 1..n
          /\ F[k + 1] = IF Again(s, k + 1) THEN F[k] ELSE Append(F[k], s[k + 1])
      BY <2>2, <1>8, <1>1
    <3>2. s[k + 1] \in RecRecord
      BY <1>1, <3>1
    <3>3. Append(F[k], s[k + 1]) \in Rings
      BY <3>1, <3>2 DEF Rings
    <3> QED BY <3>1, <3>3
  <2> HIDE DEF T
  <2>3. \A k \in 0..n : k \in T
    BY <2>1, <2>2, SetInduction, <1>1
  <2>4. \A k \in 0..n : F[k] \in Rings
    BY <2>3, <1>1 DEF T
  <2> QED BY <1>6, <2>4
<1> QED BY <1>7, <1>8, <1>9 DEF Upto

\* One more record is distinct from the others unless numbered like the last.
LEMMA OneMoreDistinct ==
    ASSUME NEW s \in Rings, NEW r \in RecRecord
    PROVE  /\ Rec!Distinct(s) \in Rings
           /\ Rec!Distinct(Append(s, r)) =
                 IF s # <<>> /\ s[Len(s)].seq = r.seq THEN Rec!Distinct(s)
                 ELSE Append(Rec!Distinct(s), r)
<1> DEFINE t == Append(s, r)
           n == Len(s)
<1>1. t \in Rings /\ Len(t) = n + 1 /\ n \in Nat /\ t[n + 1] = r /\ \A i \in 1..n : t[i] = s[i]
  BY DEF Rings
<1>2. PICK f \in [0..n -> Rings] : Upto(f, s) /\ Rec!Distinct(s) = f[n]
  BY DistinctIs
<1>3. PICK g \in [0..(n + 1) -> Rings] : Upto(g, t) /\ Rec!Distinct(t) = g[n + 1]
  <2> HIDE DEF t, n
  <2> QED BY <1>1, DistinctIs
<1> DEFINE T == {k \in Nat : k \in 0..n => f[k] = g[k]}
<1>4. 0 \in T
  BY <1>2, <1>3 DEF Upto
<1>5. ASSUME NEW k \in Nat, k \in T PROVE k + 1 \in T
  <2> SUFFICES ASSUME k + 1 \in 0..n PROVE f[k + 1] = g[k + 1]
    OBVIOUS
  <2>1. f[k] = g[k] /\ k + 1 \in 1..n /\ k + 1 \in 1..(n + 1)
    BY <1>5, <1>1
  <2>2. Again(s, k + 1) <=> Again(t, k + 1)
    <3>1. k + 1 > 1 => k \in 1..n /\ (k + 1) - 1 = k
      BY <2>1
    <3>2. t[k + 1] = s[k + 1] /\ (k + 1 > 1 => t[k] = s[k])
      BY <1>1, <2>1, <3>1
    <3> HIDE DEF t
    <3> QED BY <3>1, <3>2 DEF Again
  <2>3. f[k + 1] = IF Again(s, k + 1) THEN f[k] ELSE Append(f[k], s[k + 1])
    BY <1>2, <2>1 DEF Upto
  <2>4. g[k + 1] = IF Again(t, k + 1) THEN g[k] ELSE Append(g[k], t[k + 1])
    <3> HIDE DEF t
    <3> QED BY <1>1, <1>3, <2>1 DEF Upto
  <2>5. t[k + 1] = s[k + 1]
    BY <1>1, <2>1
  <2> HIDE DEF t
  <2> QED BY <2>1, <2>2, <2>3, <2>4, <2>5
<1>6. f[n] = g[n]
  <2> HIDE DEF T
  <2>1. n \in T
    BY <1>1, <1>4, <1>5, SetInduction
  <2> QED BY <2>1, <1>1 DEF T
<1>7. g[n + 1] = IF Again(t, n + 1) THEN g[n] ELSE Append(g[n], r)
  <2> HIDE DEF t
  <2>1. n + 1 \in 1..Len(t) /\ (n + 1) - 1 = n
    BY <1>1
  <2> QED BY <1>1, <1>3, <2>1 DEF Upto
<1>8. Again(t, n + 1) <=> s # <<>> /\ s[n].seq = r.seq
  <2>1. (n + 1) - 1 = n /\ (n + 1 > 1 <=> s # <<>>) /\ (n + 1 > 1 => n \in 1..n)
    BY DEF Rings
  <2>2. n + 1 > 1 => t[n] = s[n]
    BY <1>1, <2>1
  <2> HIDE DEF t
  <2> QED BY <1>1, <2>1, <2>2 DEF Again
<1>9. f[n] \in Rings
  BY <1>1
<1> QED BY <1>2, <1>3, <1>6, <1>7, <1>8, <1>9

\* Of no records none are distinct.
LEMMA NoneDistinct == Rec!Distinct(<<>>) = <<>>
<1>1. <<>> \in Rings /\ Len(<<>>) = 0
  BY DEF Rings
<1>2. PICK f \in [0..0 -> Rings] : Upto(f, <<>>) /\ Rec!Distinct(<<>>) = f[0]
  BY <1>1, DistinctIs
<1> QED BY <1>2 DEF Upto

\* The ring is the end of d, as long as it may be and no longer.
Most == IF RecBudget > RecMinKept THEN RecBudget ELSE RecMinKept
Tailed(ring, d) ==
    /\ Len(ring) <= Len(d) /\ Len(ring) <= Most
    /\ \A i \in 1..Len(ring) : ring[i] = d[Len(d) - Len(ring) + i]
    /\ Len(ring) < Len(d) =>
          Len(ring) >= RecMinKept /\ Len(ring) >= RecBudget - RecBudget \div RecChunk

\* A division, between its multiples.
LEMMA Divided ==
    ASSUME NEW a \in Nat, NEW c \in Nat \ {0}
    PROVE  a \div c \in Nat /\ c * (a \div c) <= a /\ a < c * (a \div c) + c
  OBVIOUS

\* An overflow of one record gives up few enough.
LEMMA OverflowLeaves ==
    ASSUME NEW drop, drop = IF (Most + 1) \div RecChunk > 1 THEN (Most + 1) \div RecChunk ELSE 1
    PROVE  /\ drop \in 1..(Most + 1)
           /\ Most + 1 - drop >= RecMinKept
           /\ Most + 1 - drop >= RecBudget - RecBudget \div RecChunk
<1> DEFINE L == Most + 1
           q == L \div RecChunk
           p == RecBudget \div RecChunk
<1>1. /\ RecBudget \in Nat \ {0} /\ RecMinKept \in Nat \ {0} /\ RecChunk \in Nat \ {0}
      /\ RecMinKept + 1 < 2 * RecChunk
  BY AppAssumption DEF Rec!RecorderAssumption
<1>2. Most \in Nat \ {0} /\ Most >= RecMinKept /\ Most >= RecBudget /\ (Most = RecBudget \/ Most = RecMinKept)
  BY <1>1 DEF Most
<1>3. q \in Nat /\ RecChunk * q <= L /\ L < RecChunk * q + RecChunk
  BY <1>1, <1>2, Divided
<1>4. p \in Nat /\ RecChunk * p <= RecBudget /\ RecBudget < RecChunk * p + RecChunk
  BY <1>1, Divided
<1>5. q <= L
  BY <1>1, <1>2, <1>3
<1> HIDE DEF p, q
<1>6. CASE q > 1
  <2>1. L - q >= RecMinKept
    BY <1>1, <1>2, <1>3, <1>6
  <2>2. L - q >= RecBudget - p
    BY <1>1, <1>2, <1>3, <1>4, <1>6
  <2> QED BY <1>2, <1>3, <1>5, <1>6, <2>1, <2>2 DEF p, q
<1>7. CASE ~(q > 1)
  BY <1>1, <1>2, <1>3, <1>4, <1>7 DEF p, q
<1> QED BY <1>6, <1>7

\* A push keeps the ring the tail.
LEMMA PushTailed ==
    ASSUME NEW ring \in Rings, NEW d \in Rings, NEW r \in RecRecord, Tailed(ring, d)
    PROVE  Tailed(Rec!Push(ring, r), Append(d, r))
<1> DEFINE g == Append(ring, r)
           e == Append(d, r)
           L == Len(g)
<1>1. /\ g \in Rings /\ L = Len(ring) + 1 /\ Len(ring) \in Nat /\ g[L] = r
      /\ \A i \in 1..Len(ring) : g[i] = ring[i]
  BY DEF Rings
<1>2. /\ e \in Rings /\ Len(e) = Len(d) + 1 /\ Len(d) \in Nat /\ e[Len(d) + 1] = r
      /\ \A i \in 1..Len(d) : e[i] = d[i]
  BY DEF Rings
<1>3. /\ RecBudget \in Nat \ {0} /\ RecMinKept \in Nat \ {0} /\ RecChunk \in Nat \ {0}
  BY AppAssumption DEF Rec!RecorderAssumption
<1>4. Most \in Nat /\ Most >= RecMinKept /\ Most >= RecBudget /\ (Most = RecBudget \/ Most = RecMinKept)
  BY <1>3 DEF Most
<1>5. Len(ring) <= Len(d) /\ Len(ring) <= Most
  BY DEF Tailed
<1>6. ASSUME NEW i \in 1..L PROVE g[i] = e[Len(e) - L + i]
  <2>1. Len(e) - L = Len(d) - Len(ring)
    BY <1>1, <1>2
  <2>2. CASE i = L
    BY <1>1, <1>2, <2>1, <2>2
  <2>3. CASE i \in 1..Len(ring)
    <3>1. g[i] = ring[i] /\ ring[i] = d[Len(d) - Len(ring) + i]
      BY <1>1, <2>3 DEF Tailed
    <3>2. Len(d) - Len(ring) + i \in 1..Len(d)
      BY <1>1, <1>2, <1>5, <2>3
    <3> HIDE DEF g, e, L
    <3> QED BY <1>2, <2>1, <3>1, <3>2
  <2>4. i = L \/ i \in 1..Len(ring)
    <3> HIDE DEF L
    <3> QED BY <1>1
  <2> QED BY <2>2, <2>3, <2>4
<1>7. RecBudget \div RecChunk \in Nat
  BY <1>3, Divided
<1>8. CASE L > RecBudget /\ L > RecMinKept
  <2>1. L = Most + 1 /\ Len(ring) = Most
    BY <1>1, <1>3, <1>4, <1>5, <1>8
  <2> DEFINE drop == IF L \div RecChunk > 1 THEN L \div RecChunk ELSE 1
             k == SubSeq(g, drop + 1, L)
  <2>2. /\ drop \in 1..L
        /\ L - drop >= RecMinKept /\ L - drop >= RecBudget - RecBudget \div RecChunk
    BY <2>1, OverflowLeaves
  <2>3. Rec!Push(ring, r) = k
    BY <1>8 DEF Rec!Push, Rec!Overflow
  <2> HIDE DEF drop
  <2>4. Len(k) = L - drop /\ \A i \in 1..(L - drop) : k[i] = g[drop + i]
    BY <1>1, <2>2 DEF Rings
  <2> HIDE DEF k, g, e, L
  <2>5. ASSUME NEW i \in 1..Len(k) PROVE k[i] = e[Len(e) - Len(k) + i]
    <3>1. k[i] = g[drop + i] /\ drop + i \in 1..L
      BY <2>2, <2>4, <1>1
    <3>2. g[drop + i] = e[Len(e) - L + (drop + i)]
      BY <3>1, <1>6
    <3>3. Len(e) - L + (drop + i) = Len(e) - Len(k) + i
      BY <2>2, <2>4, <1>1, <1>2
    <3> QED BY <3>1, <3>2, <3>3
  <2>6. Len(k) <= Len(e) /\ Len(k) <= Most
    BY <2>1, <2>2, <2>4, <1>2, <1>4, <1>5
  <2>7. Len(k) >= RecMinKept /\ Len(k) >= RecBudget - RecBudget \div RecChunk
    BY <2>2, <2>4
  <2>8. Tailed(k, e)
    BY <2>5, <2>6, <2>7 DEF Tailed
  <2> QED BY <2>3, <2>8 DEF e
<1>9. CASE ~(L > RecBudget /\ L > RecMinKept)
  <2>1. Rec!Push(ring, r) = g
    BY <1>9 DEF Rec!Push
  <2> HIDE DEF g, e
  <2>2. L <= Most /\ L <= Len(e)
    BY <1>1, <1>2, <1>3, <1>4, <1>5, <1>9
  <2>3. L < Len(e) => L >= RecMinKept /\ L >= RecBudget - RecBudget \div RecChunk
    <3> SUFFICES ASSUME L < Len(e) PROVE L >= RecMinKept /\ L >= RecBudget - RecBudget \div RecChunk
      OBVIOUS
    <3>1. Len(ring) < Len(d)
      BY <1>1, <1>2
    <3>2. Len(ring) >= RecMinKept /\ Len(ring) >= RecBudget - RecBudget \div RecChunk
      BY <3>1 DEF Tailed
    <3> QED BY <3>2, <1>1, <1>3, <1>7
  <2>4. Tailed(g, e)
    BY <1>6, <2>2, <2>3 DEF Tailed
  <2> QED BY <2>1, <2>4 DEF e
<1> QED BY <1>8, <1>9

\* A sequence that is not empty has distinct records.
LEMMA DistinctNotEmpty ==
    ASSUME NEW s \in Rings, Len(s) > 0
    PROVE  Rec!Distinct(s) # <<>>
<1> DEFINE n == Len(s)
<1>1. PICK f \in [0..n -> Rings] : Upto(f, s) /\ Rec!Distinct(s) = f[n]
  BY DistinctIs
<1>2. n \in Nat /\ n > 0 /\ \A i \in 1..n : s[i] \in RecRecord
  BY DEF Rings
<1> DEFINE T == {k \in Nat : k + 1 \in 1..n => f[k + 1] # <<>>}
<1>3. \A r \in Rings, e \in RecRecord : Append(r, e) # <<>>
  BY DEF Rings
<1>4. 0 \in T
  <2>1. f[1] = Append(f[0], s[1]) /\ f[0] \in Rings /\ s[1] \in RecRecord
    <3>1. 1 \in 1..n /\ 0 \in 0..n /\ 1 - 1 = 0 /\ ~Again(s, 1)
      BY <1>2 DEF Again
    <3>2. f[1] = IF Again(s, 1) THEN f[1 - 1] ELSE Append(f[1 - 1], s[1])
      BY <1>1, <3>1 DEF Upto
    <3> QED BY <1>2, <3>1, <3>2
  <2> QED BY <2>1, <1>3
<1>5. ASSUME NEW k \in Nat, k \in T PROVE k + 1 \in T
  <2> SUFFICES ASSUME (k + 1) + 1 \in 1..n PROVE f[(k + 1) + 1] # <<>>
    OBVIOUS
  <2>1. k + 1 \in 1..n /\ f[k + 1] # <<>> /\ f[k + 1] \in Rings /\ s[(k + 1) + 1] \in RecRecord
    BY <1>2, <1>5
  <2>2. f[(k + 1) + 1] \in {f[k + 1], Append(f[k + 1], s[(k + 1) + 1])}
    <3>1. ((k + 1) + 1) - 1 = k + 1
      OBVIOUS
    <3> QED BY <1>1, <3>1 DEF Upto
  <2> QED BY <1>3, <2>1, <2>2
<1>6. n - 1 \in T
  <2> HIDE DEF T
  <2> QED BY <1>2, <1>4, <1>5, SetInduction
<1> QED BY <1>1, <1>2, <1>6

\* What record_frames keeps: the number of the last record it was offered, and
\* the tail of all of them.
LastSeq(s) == IF s = <<>> THEN 0 ELSE s[Len(s)].seq
KeepsTail(r, s) == r.last = LastSeq(s) /\ Tailed(r.ring, Rec!Distinct(s))

\* One more record offered is recorded.
LEMMA RecordedKeeps ==
    ASSUME NEW r \in Recs, NEW s \in Rings, NEW f \in RecRecord, KeepsTail(r, s)
    PROVE  KeepsTail(Rec!Recorded(r, f), Append(s, f))
<1>1. /\ Append(s, f) # <<>> /\ Len(Append(s, f)) = Len(s) + 1 /\ Append(s, f)[Len(s) + 1] = f
      /\ Len(s) \in Nat
  BY DEF Rings
<1>2. LastSeq(Append(s, f)) = f.seq
  BY <1>1 DEF LastSeq
<1>3. f.seq = r.last <=> s # <<>> /\ s[Len(s)].seq = f.seq
  BY DEF KeepsTail, LastSeq, RecRecord
<1>4. r.ring \in Rings /\ Rec!Distinct(s) \in Rings
  BY OneMoreDistinct DEF Recs
<1>5. CASE f.seq = r.last
  <2>1. Rec!Distinct(Append(s, f)) = Rec!Distinct(s)
    BY <1>3, <1>5, OneMoreDistinct
  <2>2. Rec!Recorded(r, f) = r
    BY <1>5 DEF Rec!Recorded
  <2> QED BY <1>2, <1>5, <2>1, <2>2 DEF KeepsTail
<1>6. CASE f.seq # r.last
  <2>1. Rec!Distinct(Append(s, f)) = Append(Rec!Distinct(s), f)
    BY <1>3, <1>6, OneMoreDistinct
  <2>2. Rec!Recorded(r, f).last = f.seq /\ Rec!Recorded(r, f).ring = Rec!Push(r.ring, f)
    BY <1>6 DEF Rec!Recorded, Recs
  <2>3. Tailed(Rec!Push(r.ring, f), Append(Rec!Distinct(s), f))
    BY <1>4, PushTailed DEF KeepsTail
  <2> QED BY <1>2, <2>1, <2>2, <2>3 DEF KeepsTail
<1> QED BY <1>5, <1>6

\* The first of what arrived, behind what had been offered.
LEMMA OfferedGrows ==
    ASSUME NEW s \in Rings, NEW a \in Rings, NEW n \in Nat, n + 1 \in 0..Len(a)
    PROVE  /\ s \o SubSeq(a, 1, n) \in Rings /\ a[n + 1] \in RecRecord
           /\ s \o SubSeq(a, 1, n + 1) = Append(s \o SubSeq(a, 1, n), a[n + 1])
<1>1. n \in 0..Len(a) /\ n + 1 \in 1..Len(a) /\ Len(a) \in Nat
  BY DEF Rings
<1>2. a[n + 1] \in RecRecord
  BY <1>1 DEF Rings
<1>3. SubSeq(a, 1, n) \in Rings
  BY <1>1, SubSeqProperties DEF Rings
<1>4. SubSeq(a, 1, n + 1) = Append(SubSeq(a, 1, n), a[n + 1])
  BY <1>1 DEF Rings
<1>5. s \o Append(SubSeq(a, 1, n), a[n + 1]) = Append(s \o SubSeq(a, 1, n), a[n + 1])
  <2> DEFINE b == SubSeq(a, 1, n)
             x == a[n + 1]
  <2>1. b \in Seq(RecRecord) /\ x \in RecRecord /\ s \in Seq(RecRecord)
    BY <1>2, <1>3 DEF Rings
  <2> HIDE DEF b, x
  <2>2. s \o Append(b, x) = Append(s \o b, x)
    BY <2>1
  <2> QED BY <2>2 DEF b, x
<1>6. s \o SubSeq(a, 1, n) \in Rings
  BY <1>3 DEF Rings
<1> QED BY <1>2, <1>4, <1>5, <1>6

\* record_frames keeps the tail, whatever arrived.
LEMMA RecordKeeps ==
    ASSUME NEW r \in Recs, NEW s \in Rings, NEW arrived \in Rings, KeepsTail(r, s)
    PROVE  /\ Rec!Record(r, arrived) \in Recs /\ s \o arrived \in Rings
           /\ Rec!Record(r, arrived).on = r.on
           /\ KeepsTail(Rec!Record(r, arrived), s \o arrived)
<1> DEFINE n == Len(arrived)
<1>1. PICK f \in [0..n -> Recs] : Along(f, r, arrived) /\ Rec!Record(r, arrived) = f[n]
  BY RecordIs
<1> DEFINE T == {k \in Nat : k \in 0..n => /\ f[k].on = r.on
                                           /\ KeepsTail(f[k], s \o SubSeq(arrived, 1, k))}
<1>2. n \in Nat /\ f[n] \in Recs
  BY DEF Rings
<1>3. 0 \in T
  <2>1. s \o SubSeq(arrived, 1, 0) = s
    BY DEF Rings
  <2> QED BY <1>1, <2>1 DEF Along
<1>4. ASSUME NEW k \in Nat, k \in T PROVE k + 1 \in T
  <2> SUFFICES ASSUME k + 1 \in 0..n
               PROVE  /\ f[k + 1].on = r.on
                      /\ KeepsTail(f[k + 1], s \o SubSeq(arrived, 1, k + 1))
    OBVIOUS
  <2>1. k \in 0..n /\ k + 1 \in 1..n /\ f[k] \in Recs
    BY <1>2
  <2>2. f[k].on = r.on /\ KeepsTail(f[k], s \o SubSeq(arrived, 1, k))
    BY <1>4, <2>1
  <2>3. f[k + 1] = Rec!Recorded(f[k], arrived[k + 1])
    BY <1>1, <2>1 DEF Along
  <2>4. /\ s \o SubSeq(arrived, 1, k) \in Rings /\ arrived[k + 1] \in RecRecord
        /\ s \o SubSeq(arrived, 1, k + 1) = Append(s \o SubSeq(arrived, 1, k), arrived[k + 1])
    BY OfferedGrows
  <2>5. KeepsTail(f[k + 1], s \o SubSeq(arrived, 1, k + 1))
    BY <2>1, <2>2, <2>3, <2>4, RecordedKeeps
  <2>6. f[k + 1].on = f[k].on
    BY <2>1, <2>3 DEF Rec!Recorded, Recs
  <2> QED BY <2>2, <2>5, <2>6
<1>5. n \in T
  <2> HIDE DEF T
  <2> QED BY <1>2, <1>3, <1>4, SetInduction
<1>6. SubSeq(arrived, 1, n) = arrived
  BY DEF Rings
<1>7. KeepsTail(f[n], s \o arrived) /\ f[n].on = r.on
  BY <1>2, <1>5, <1>6
<1>8. s \o arrived \in Rings
  BY DEF Rings
<1> QED BY <1>1, <1>2, <1>7, <1>8

\* A file's records are pushed without a look at their numbers, which differ.
LEMMA LoadKeeps ==
    ASSUME RecFileLength > 0
    PROVE  /\ Rec!Pushed(Rec!FileRecords) \in Rings /\ Rec!FileRecords \in Rings
           /\ LastSeq(Rec!FileRecords) = RecFileLength
           /\ Tailed(Rec!Pushed(Rec!FileRecords), Rec!Distinct(Rec!FileRecords))
<1> DEFINE file == Rec!FileRecords
           n == Len(file)
<1>1. RecFileLength \in Nat /\ RecBudget \in Nat /\ RecMinKept \in Nat
  BY AppAssumption DEF Rec!RecorderAssumption
<1>2. file \in Rings /\ n = RecFileLength /\ \A i \in 1..n : file[i].seq = i
  BY <1>1 DEF Rec!FileRecords, Rings, RecRecord
<1> HIDE DEF file
<1>3. PICK f \in [0..n -> Rings] : /\ f[0] = <<>>
                                   /\ \A i \in 1..n : f[i] = Rec!Push(f[i - 1], file[i])
                                   /\ Rec!Pushed(file) = f[n]
  BY <1>2, PushedIs
<1> DEFINE T == {k \in Nat : k \in 0..n => Tailed(f[k], Rec!Distinct(SubSeq(file, 1, k)))}
<1>4. 0 \in T
  <2>1. SubSeq(file, 1, 0) = <<>>
    BY <1>2 DEF Rings
  <2>2. Tailed(<<>>, <<>>)
    BY <1>1 DEF Tailed, Most
  <2> QED BY <1>3, <2>1, <2>2, NoneDistinct
<1>5. ASSUME NEW k \in Nat, k \in T PROVE k + 1 \in T
  <2> SUFFICES ASSUME k + 1 \in 0..n PROVE Tailed(f[k + 1], Rec!Distinct(SubSeq(file, 1, k + 1)))
    OBVIOUS
  <2> DEFINE s == SubSeq(file, 1, k)
             r == file[k + 1]
  <2>1. k \in 0..n /\ k + 1 \in 1..n /\ f[k] \in Rings /\ n \in Nat
    BY <1>2 DEF Rings
  <2>2. /\ s \in Rings /\ r \in RecRecord /\ SubSeq(file, 1, k + 1) = Append(s, r)
        /\ Len(s) = k /\ \A i \in 1..k : s[i] = file[i]
    BY <1>2, <2>1 DEF Rings
  <2>3. ~(s # <<>> /\ s[Len(s)].seq = r.seq)
    <3> SUFFICES ASSUME s # <<>> PROVE s[Len(s)].seq # r.seq
      OBVIOUS
    <3>1. k # 0
      <4> HIDE DEF s
      <4> QED BY <2>2 DEF Rings
    <3>2. s[Len(s)] = file[k] /\ k \in 1..n
      <4> HIDE DEF s
      <4> QED BY <2>1, <2>2, <3>1
    <3>3. file[k].seq = k /\ r.seq = k + 1
      BY <1>2, <2>1, <3>2
    <3> HIDE DEF s, r
    <3> QED BY <3>2, <3>3
  <2> HIDE DEF s, r
  <2>4. Rec!Distinct(Append(s, r)) = Append(Rec!Distinct(s), r) /\ Rec!Distinct(s) \in Rings
    BY <2>2, <2>3, OneMoreDistinct
  <2>5. f[k + 1] = Rec!Push(f[k], r)
    BY <1>3, <2>1 DEF r
  <2>6. Tailed(f[k], Rec!Distinct(s))
    BY <1>5, <2>1 DEF s
  <2>7. Tailed(Rec!Push(f[k], r), Append(Rec!Distinct(s), r))
    BY <2>1, <2>2, <2>4, <2>6, PushTailed
  <2> QED BY <2>2, <2>4, <2>5, <2>7
<1>6. n \in T
  <2> HIDE DEF T
  <2>1. n \in Nat
    BY <1>2 DEF Rings
  <2> QED BY <2>1, <1>4, <1>5, SetInduction
<1>7. SubSeq(file, 1, n) = file /\ n \in Nat
  BY <1>2 DEF Rings
<1>8. Tailed(f[n], Rec!Distinct(file)) /\ f[n] \in Rings
  <2>1. n \in 0..n
    BY <1>7
  <2>2. Tailed(f[n], Rec!Distinct(SubSeq(file, 1, n)))
    BY <1>6, <2>1
  <2>3. f[n] \in Rings
    BY <2>1
  <2> QED BY <1>7, <2>2, <2>3
<1>9. LastSeq(file) = RecFileLength
  <2>1. file # <<>> /\ n \in 1..n
    BY <1>2, <1>7
  <2> QED BY <1>2, <2>1 DEF LastSeq
<1> QED BY <1>2, <1>3, <1>8, <1>9 DEF file

RecTypes ==
    /\ recInst \in [session : Nat, made : Nat, running : BOOLEAN \cup {NoFile}]
    /\ recPending \in BOOLEAN \cup {NoFile}
    /\ recEvents \in Rings /\ recRec \in Recs /\ recOffered \in Rings
    /\ recLink \in [running : BOOLEAN, dirty : BOOLEAN, latest : RecRecord \cup {NoFile}]
RingInv == RecTypes /\ KeepsTail(recRec, recOffered)

\* The recorder starts with an empty ring.
LEMMA RingInitially == Rec!Init => RingInv
<1> SUFFICES ASSUME Rec!Init PROVE RingInv
  OBVIOUS
<1>1. RecTypes
  BY DEF Rec!Init, RecTypes, Rings, Recs
<1>2. KeepsTail(recRec, recOffered)
  <2>1. Tailed(<<>>, <<>>)
    BY AppAssumption DEF Rec!RecorderAssumption, Tailed, Most
  <2> QED BY <2>1, NoneDistinct DEF Rec!Init, KeepsTail, LastSeq
<1> QED BY <1>1, <1>2 DEF RingInv

\* Every step of the app and of the instrument keeps it.
LEMMA RingGoesOn == RingInv /\ [Rec!Next]_recVars => RingInv'
<1> SUFFICES ASSUME RingInv, [Rec!Next]_recVars PROVE RingInv'
  OBVIOUS
<1>1. RecTypes /\ KeepsTail(recRec, recOffered)
  BY DEF RingInv
<1>2. ASSUME UNCHANGED <<recRec, recOffered>> PROVE KeepsTail(recRec, recOffered)'
  BY <1>1, <1>2 DEF KeepsTail
<1>3. CASE Rec!Ingest
  <2>1. RecTypes'
    <3>1. recEvents' = <<>> /\ recEvents' \in Rings
      BY <1>3 DEF Rec!Ingest, Rings
    <3>2. recLink' \in [running : BOOLEAN, dirty : BOOLEAN, latest : RecRecord \cup {NoFile}]
      <4>1. recEvents # <<>> => Rec!Last(recEvents) \in RecRecord
        BY <1>1 DEF RecTypes, Rings, Rec!Last
      <4> QED BY <1>1, <1>3, <4>1 DEF Rec!Ingest, RecTypes
    <3>3. recRec' \in Recs /\ recOffered' \in Rings
      BY <1>1, <1>3, RecordKeeps DEF Rec!Ingest, RecTypes
    <3> QED BY <1>1, <1>3, <3>1, <3>2, <3>3 DEF Rec!Ingest, RecTypes
  <2>2. CASE Rec!Recording
    <3>1. recRec' = Rec!Record(recRec, recEvents) /\ recOffered' = recOffered \o recEvents
      BY <1>3, <2>2 DEF Rec!Ingest
    <3>2. KeepsTail(Rec!Record(recRec, recEvents), recOffered \o recEvents)
      BY <1>1, RecordKeeps DEF RecTypes
    <3>3. KeepsTail(recRec, recOffered)' <=> KeepsTail(recRec', recOffered')
      BY DEF KeepsTail
    <3> QED BY <2>1, <3>1, <3>2, <3>3 DEF RingInv
  <2>3. CASE ~Rec!Recording
    <3>1. UNCHANGED <<recRec, recOffered>>
      BY <1>3, <2>3 DEF Rec!Ingest
    <3> QED BY <1>2, <2>1, <3>1 DEF RingInv
  <2> QED BY <2>2, <2>3
<1>4. ASSUME NEW k \in 1..RecBudget, Rec!Show(k) PROVE RingInv'
  <2>1. recRec.ring[k] \in RecRecord
    BY <1>1, <1>4 DEF Rec!Show, RecTypes, Recs, Rings
  <2>2. RecTypes'
    BY <1>1, <1>4, <2>1 DEF Rec!Show, RecTypes, Rec!Run
  <2> QED BY <1>2, <1>4, <2>2 DEF Rec!Show, RingInv
<1>5. CASE Rec!Live
  <2>1. RecTypes'
    BY <1>1, <1>5 DEF Rec!Live, RecTypes, Rec!Run
  <2> QED BY <1>2, <1>5, <2>1 DEF Rec!Live, RingInv
<1>6. CASE Rec!SetRecording
  <2>1. RecTypes'
    BY <1>1, <1>6 DEF Rec!SetRecording, RecTypes, Recs
  <2>2. recRec'.last = recRec.last /\ recRec'.ring = recRec.ring /\ recOffered' = recOffered
    BY <1>1, <1>6 DEF Rec!SetRecording, RecTypes, Recs
  <2> QED BY <1>1, <2>1, <2>2 DEF RingInv, KeepsTail
<1>7. ASSUME NEW button \in BOOLEAN, Rec!Clear(button) PROVE RingInv'
  <2>1. <<>> \in Rings /\ Tailed(<<>>, <<>>)
    BY AppAssumption DEF Rec!RecorderAssumption, Tailed, Most, Rings
  <2>2. recRec' = [recRec EXCEPT !.ring = <<>>, !.last = 0] /\ recOffered' = <<>>
    BY <1>7 DEF Rec!Clear
  <2>3. recRec' \in Recs /\ recRec'.last = 0 /\ recRec'.ring = <<>>
    BY <1>1, <2>1, <2>2 DEF RecTypes, Recs
  <2>4. RecTypes'
    BY <1>1, <1>7, <2>1, <2>2, <2>3 DEF Rec!Clear, RecTypes, Rec!Run
  <2>5. KeepsTail(recRec, recOffered)'
    BY <2>1, <2>2, <2>3, NoneDistinct DEF KeepsTail, LastSeq
  <2> QED BY <2>4, <2>5 DEF RingInv
<1>8. CASE Rec!Load
  <2> DEFINE kept == Rec!Pushed(Rec!FileRecords)
  <2>1. RecFileLength > 0 /\ RecFileLength \in Nat
    BY <1>8, AppAssumption DEF Rec!Load, Rec!RecorderAssumption
  <2>2. /\ kept \in Rings /\ Rec!FileRecords \in Rings /\ LastSeq(Rec!FileRecords) = RecFileLength
        /\ Tailed(kept, Rec!Distinct(Rec!FileRecords))
    BY <2>1, LoadKeeps
  <2>3. kept # <<>>
    <3>1. Len(Rec!FileRecords) = RecFileLength
      BY <2>1 DEF Rec!FileRecords
    <3>2. Rec!Distinct(Rec!FileRecords) # <<>>
      BY <2>1, <2>2, <3>1, DistinctNotEmpty
    <3> QED BY <2>2, <3>2, AppAssumption, OneMoreDistinct DEF Tailed, Rec!RecorderAssumption, Rings
  <2> HIDE DEF kept
  <2>4. kept[1] \in RecRecord
    BY <2>2, <2>3 DEF Rings
  <2>5. /\ recRec' = [on |-> FALSE, ring |-> kept, last |-> RecFileLength]
        /\ recOffered' = Rec!FileRecords
        /\ recLink' = Rec!Run([recLink EXCEPT !.latest = kept[1]], FALSE)
        /\ UNCHANGED <<recInst, recPending, recEvents>>
    BY <1>8 DEF Rec!Load, kept
  <2>6. RecTypes'
    BY <1>1, <2>1, <2>2, <2>4, <2>5 DEF RecTypes, Recs, Rec!Run
  <2>7. KeepsTail(recRec, recOffered)'
    BY <2>2, <2>5 DEF KeepsTail
  <2> QED BY <2>6, <2>7 DEF RingInv
<1>9. CASE Rec!Flush
  <2>1. RecTypes'
    BY <1>1, <1>9 DEF Rec!Flush, RecTypes
  <2> QED BY <1>2, <1>9, <2>1 DEF Rec!Flush, RingInv
<1>10. CASE Rec!Acquire
  <2>1. [session |-> recInst.session, seq |-> recInst.made + 1] \in RecRecord
    BY <1>1 DEF RecTypes, RecRecord
  <2>2. recEvents' \in Rings
    BY <1>1, <1>10, <2>1 DEF Rec!Acquire, RecTypes, Rings
  <2>3. RecTypes'
    BY <1>1, <1>10, <2>2 DEF Rec!Acquire, RecTypes
  <2> QED BY <1>2, <1>10, <2>3 DEF Rec!Acquire, RingInv
<1>11. CASE Rec!Apply
  <2>1. RecTypes'
    BY <1>1, <1>11 DEF Rec!Apply, RecTypes
  <2> QED BY <1>2, <1>11, <2>1 DEF Rec!Apply, RingInv
<1>12. CASE Rec!Replug
  <2>1. RecTypes'
    <3>1. recInst' \in [session : Nat, made : Nat, running : BOOLEAN \cup {NoFile}]
      <4>1. recInst.session + 1 \in Nat /\ 0 \in Nat
        BY <1>1 DEF RecTypes
      <4>2. recInst' = [recInst EXCEPT !.session = recInst.session + 1, !.made = 0]
        BY <1>12 DEF Rec!Replug
      <4> QED BY <1>1, <4>1, <4>2 DEF RecTypes
    <3>2. UNCHANGED <<recPending, recEvents, recRec, recOffered, recLink>>
      BY <1>12 DEF Rec!Replug
    <3> QED BY <1>1, <3>1, <3>2 DEF RecTypes
  <2> QED BY <1>2, <1>12, <2>1 DEF Rec!Replug, RingInv
<1>13. CASE UNCHANGED recVars
  <2>1. RecTypes'
    BY <1>1, <1>13 DEF recVars, RecTypes
  <2> QED BY <1>2, <1>13, <2>1 DEF recVars, RingInv
<1> QED BY <1>3, <1>4, <1>5, <1>6, <1>7, <1>8, <1>9, <1>10, <1>11, <1>12, <1>13 DEF Rec!Next

\* The smaller and the larger of two numbers.
LEMMA OfTwo ==
    ASSUME NEW a \in Int, NEW b \in Int
    PROVE  /\ Rec!Max({a, b}) = IF a >= b THEN a ELSE b
           /\ Rec!Min({a, b}) = IF a <= b THEN a ELSE b
<1>1. CASE a >= b
  BY <1>1 DEF Rec!Max, Rec!Min
<1>2. CASE ~(a >= b)
  BY <1>2 DEF Rec!Max, Rec!Min
<1> QED BY <1>1, <1>2

\* A suffix, place by place.
LEMMA SuffixIs ==
    ASSUME NEW s \in Rings, NEW t \in Rings, Len(s) <= Len(t),
           \A i \in 1..Len(s) : s[i] = t[Len(t) - Len(s) + i]
    PROVE  Rec!IsSuffix(s, t)
<1> DEFINE a == Rec!Reverse(s)
           b == Rec!Reverse(t)
<1>1. Len(s) \in Nat /\ Len(t) \in Nat
  BY DEF Rings
<1>2. a \in Rings /\ Len(a) = Len(s) /\ \A i \in 1..Len(s) : a[i] = s[Len(s) - i + 1]
  BY DEF Rec!Reverse, Rings
<1>3. b \in Rings /\ Len(b) = Len(t) /\ \A i \in 1..Len(t) : b[i] = t[Len(t) - i + 1]
  BY DEF Rec!Reverse, Rings
<1>4. ASSUME NEW i \in 1..Len(s) PROVE a[i] = b[i]
  <2>1. Len(s) - i + 1 \in 1..Len(s) /\ i \in 1..Len(t)
    BY <1>1
  <2>2. s[Len(s) - i + 1] = t[Len(t) - Len(s) + (Len(s) - i + 1)]
    BY <2>1
  <2>3. Len(t) - Len(s) + (Len(s) - i + 1) = Len(t) - i + 1
    BY <1>1
  <2> HIDE DEF a, b
  <2> QED BY <1>2, <1>3, <2>1, <2>2, <2>3
<1> HIDE DEF a, b
<1>5. SubSeq(a, 1, Len(a)) = SubSeq(b, 1, Len(a))
  BY <1>1, <1>2, <1>3, <1>4 DEF Rings
<1> QED BY <1>1, <1>2, <1>3, <1>5 DEF Rec!IsSuffix, Rec!IsPrefix, a, b

\* The tail of what was offered, and as long as it may be.
LEMMA RingServes == RingInv => RingIsTail
<1> SUFFICES ASSUME RingInv PROVE RingIsTail
  OBVIOUS
<1> DEFINE ring == recRec.ring
           d == Rec!Distinct(recOffered)
           least == RecBudget - RecBudget \div RecChunk
<1>1. recRec \in Recs /\ recOffered \in Rings /\ KeepsTail(recRec, recOffered)
  BY DEF RingInv, RecTypes
<1>2. ring \in Rings /\ d \in Rings /\ Tailed(ring, d)
  <2>1. [session |-> 0, seq |-> 1] \in RecRecord
    BY DEF RecRecord
  <2>2. d \in Rings
    BY <1>1, <2>1, OneMoreDistinct
  <2> QED BY <1>1, <2>2 DEF Recs, KeepsTail
<1>3. /\ RecBudget \in Nat /\ RecMinKept \in Nat /\ RecChunk \in Nat \ {0}
      /\ RecBudget \div RecChunk \in Nat
  BY AppAssumption, Divided DEF Rec!RecorderAssumption
<1>4. Len(ring) \in Nat /\ Len(d) \in Nat /\ least \in Int
  BY <1>2, <1>3 DEF Rings
<1> HIDE DEF ring, d
<1>5. Rec!IsSuffix(ring, d)
  BY <1>2, SuffixIs DEF Tailed
<1>6. Len(ring) <= Rec!Max({RecBudget, RecMinKept})
  BY <1>2, <1>3, OfTwo DEF Tailed, Most
<1>7. Len(ring) >= Rec!Min({Len(d), Rec!Max({RecMinKept, least})})
  <2> DEFINE m == Rec!Max({RecMinKept, least})
  <2>1. m \in Int /\ (m = RecMinKept \/ m = least)
    BY <1>3, <1>4, OfTwo
  <2>2. Len(ring) < Len(d) => Len(ring) >= m
    BY <1>2, <2>1 DEF Tailed
  <2> HIDE DEF m
  <2>3. Rec!Min({Len(d), m}) = IF Len(d) <= m THEN Len(d) ELSE m
    <3> DEFINE l == Len(d)
    <3>1. l \in Int /\ m \in Int
      BY <1>4, <2>1
    <3> HIDE DEF l
    <3>2. Rec!Min({l, m}) = IF l <= m THEN l ELSE m
      BY <3>1, OfTwo
    <3> QED BY <3>2 DEF l
  <2>4. Len(ring) >= Rec!Min({Len(d), m})
    BY <1>4, <2>1, <2>2, <2>3
  <2> QED BY <2>4 DEF m
<1> QED BY <1>5, <1>6, <1>7 DEF RingIsTail, Rec!RingIsTail, ring, d

\* The scrollback is the tail of the records it was offered, as long as the
\* budget allows, however large the ring, its chunks and the file are.
THEOREM RingIsTailHolds == Rec!Spec => []RingIsTail
<1>1. RingInv /\ [Rec!Next]_(Rec!vars) => RingInv'
  <2>1. recVars = Rec!vars /\ recVars' = Rec!vars'
    BY DEF recVars, Rec!vars
  <2> QED BY <2>1, RingGoesOn
<1> QED BY <1>1, RingInitially, RingServes, PTL DEF Rec!Spec
==============================================================================
