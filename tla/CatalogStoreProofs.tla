------------------------- MODULE CatalogStoreProofs -------------------------
(***************************************************************************)
(* The catalog store keeps what it acknowledged, for every number of ops,  *)
(* batches, segments and faults, and implements the durable log.           *)
(*                                                                         *)
(* The invariant says that there is one log, D, that everything on disk is *)
(* part of: the records say what D holds at their sequence number, in the  *)
(* order of the segments and with none left out after the older manifest's *)
(* watermark; the snapshots are prefixes of D; a manifest names only what  *)
(* no crash takes away; and what is not fsynced yet is the end of D, above *)
(* what was acknowledged and above every snapshot.  Each step keeps D,     *)
(* makes it longer by an append, or, when the power goes, shorter.         *)
(***************************************************************************)
EXTENDS CatalogStore, WellFoundedInduction, TLAPS

\* What a manifest stands for: none is the one the first open makes.
Eff(m) == IF m = NoManifest THEN FirstManifest ELSE m

Live == dir.segs \cup flushed.segs
Kept == dir.segs \cap flushed.segs

\* The frames of a segment that are whole.
Wholes(n) == {i \in DOMAIN files[n].frames : files[n].frames[i] # Torn}
Rec(n, i) == files[n].frames[i]

-----------------------------------------------------------------------------
(* The types.                                                              *)
Snaps == UNION {[S -> Seq(Ops)] : S \in SUBSET (0..MaxOps)}

Dirs == [manifest : [last : 0..MaxOps, wal : 0..MaxSeg], segs : SUBSET SegNos, snaps : Snaps]

Types ==
    /\ dir \in Dirs /\ flushed \in Dirs
    /\ files \in [SegNos -> [header : BOOLEAN, frames : Seq(Record \cup {Torn}), synced : Nat]]
    /\ \A n \in SegNos : files[n].synced <= Len(files[n].frames)
    /\ mem \in [state : Seq(Ops), seq : Nat, wal : 0..MaxSeg, since : Nat, poisoned : BOOLEAN]
    /\ pc \in {"down", "attach", "attachSync", "publish", "publishSync", "idle", "append",
               "snap", "snapSync", "seg", "segSync", "swap", "swapSync", "sweep"}
    /\ logged \in Seq(Ops) /\ issued \in 0..MaxOps /\ faults \in FaultSets

\* Every record on the disk is of one log, D.
RecordsOf(D) ==
    \A n \in Live : \A i \in Wholes(n) :
        Rec(n, i).seq \in 1..Len(D) /\ Rec(n, i).op = D[Rec(n, i).seq]

SnapshotsOf(D) ==
    \A d \in {dir, flushed} : \A k \in DOMAIN d.snaps :
        k \in 0..Len(D) /\ d.snaps[k] = SubSeq(D, 1, k)

\* The records are in order, in a segment and from one to the next.
Ordered ==
    \A n, m \in Live : \A i \in Wholes(n), j \in Wholes(m) :
        n < m \/ (n = m /\ i < j) => Rec(n, i).seq < Rec(m, j).seq

\* What the older snapshot does not hold is in segments no crash takes away.
Covered(D) ==
    \A q \in (Eff(flushed.manifest).last + 1)..Len(D) :
        \E n \in Kept : \E i \in Wholes(n) : Rec(n, i).seq = q

TornLast == \A n \in SegNos : \A i \in DOMAIN files[n].frames :
                i < Len(files[n].frames) => files[n].frames[i] # Torn

Headless == \A n \in SegNos : ~files[n].header => files[n].frames = <<>>

\* Nothing was written beyond the segment a manifest names.
Ahead == \A n \in Live : n > Eff(flushed.manifest).wal => files[n].frames = <<>>

Complete(m) ==
    m # NoManifest =>
        /\ m.wal \in Kept /\ files[m.wal].header
        /\ m.last # 0 => m.last \in DOMAIN dir.snaps \cap DOMAIN flushed.snaps

Manifests(D) ==
    /\ Complete(dir.manifest) /\ Complete(flushed.manifest)
    /\ Eff(flushed.manifest).last <= Eff(dir.manifest).last
    /\ Eff(flushed.manifest).wal <= Eff(dir.manifest).wal
    /\ Eff(dir.manifest).last <= Len(D)
    /\ dir.manifest = NoManifest => flushed.manifest = NoManifest
    /\ flushed.manifest = NoManifest => D = <<>>

Disk(D) ==
    /\ RecordsOf(D) /\ SnapshotsOf(D) /\ Ordered /\ Covered(D)
    /\ TornLast /\ Headless /\ Ahead /\ Manifests(D)

-----------------------------------------------------------------------------
(* The process, at each of its steps.                                      *)
Memory(D) ==
    /\ Len(D) <= issued /\ Len(mem.state) <= issued
    /\ pc = "down" => mem = NoProcess
    /\ pc # "down" /\ ~mem.poisoned => mem.state = D
    /\ pc # "down" /\ ~mem.poisoned /\ pc # "append" => mem.seq = Len(D)
    /\ mem.poisoned => pc = "idle" /\ IsPrefix(D, mem.state) /\ mem.seq <= Len(D)
    /\ pc = "append" =>
          /\ mem.seq <= Len(D)
          /\ files[mem.wal].frames # <<>>
          /\ Last(files[mem.wal].frames) # Torn /\ Last(files[mem.wal].frames).seq = Len(D)

Writing ==
    /\ pc = "attach" => mem.wal = Eff(dir.manifest).wal
    /\ pc \notin {"down", "attach"} =>
          /\ mem.wal \in Kept /\ files[mem.wal].header
          /\ mem.wal <= Eff(flushed.manifest).wal
          /\ \A n \in Live : n > mem.wal => files[n].frames = <<>>
          /\ ~mem.poisoned => Wholes(mem.wal) = DOMAIN files[mem.wal].frames

Naming ==
    /\ pc \in {"attachSync", "publish"} => dir.manifest = NoManifest /\ mem.wal = 1
    /\ pc = "publishSync" => dir.manifest = FirstManifest
    /\ pc \notin {"down", "attach", "attachSync", "publish", "publishSync"} =>
          dir.manifest # NoManifest /\ flushed.manifest # NoManifest

Checkpointing ==
    /\ pc = "snapSync" => mem.seq \in DOMAIN dir.snaps
    /\ pc \in {"seg", "swap", "sweep"} => flushed = dir
    /\ pc \in {"seg", "segSync", "swap", "swapSync", "sweep"} =>
          mem.seq \in DOMAIN dir.snaps \cap DOMAIN flushed.snaps
    /\ pc = "segSync" => flushed = dir
    /\ pc \in {"segSync", "swap", "swapSync", "sweep"} =>
          /\ NewSegment \in Kept /\ NewSegment > mem.wal
          /\ files[NewSegment].header /\ files[NewSegment].frames = <<>>
    /\ pc \in {"segSync", "swap"} => \A n \in Live : n <= NewSegment
    /\ pc \in {"swapSync", "sweep"} =>
          dir.manifest = [last |-> mem.seq, wal |-> NewSegment]

Acknowledged(D) == IsPrefix(logged, D)

\* Frames that are still in a cache.
Caching ==
    "power" \in faults =>
        /\ \A n \in SegNos :
              ~(n = Eff(flushed.manifest).wal /\ n = Eff(dir.manifest).wal) =>
                  files[n].synced = Len(files[n].frames)
        /\ \A n \in Live : \A i \in Wholes(n) : i > files[n].synced =>
              /\ Rec(n, i).seq > Len(logged)
              /\ \A k \in DOMAIN dir.snaps \cup DOMAIN flushed.snaps : k < Rec(n, i).seq
        /\ pc \notin {"down", "attach", "append"} /\ ~mem.poisoned =>
              files[mem.wal].synced = Len(files[mem.wal].frames)
        /\ pc \notin {"down", "attach", "swapSync", "sweep"} =>
              mem.wal = Eff(dir.manifest).wal /\ mem.wal = Eff(flushed.manifest).wal

Inv(D) ==
    /\ Types /\ D \in Seq(Ops)
    /\ Disk(D) /\ Memory(D) /\ Writing /\ Naming /\ Checkpointing /\ Acknowledged(D) /\ Caching

IInv == \E D \in Seq(Ops) : Inv(D)

-----------------------------------------------------------------------------
(* Numbers, and what recursion over them gives.                            *)

\* A set of naturals has a least element.
LEMMA NatMin ==
    ASSUME NEW S \in SUBSET Nat, S # {}
    PROVE  \E x \in S : \A y \in S : x <= y
<1>1. IsWellFoundedOn(OpToRel(<, Nat), Nat)
  BY NatLessThanWellFounded
<1>2. PICK x \in S : \A y \in S : ~ (<<y, x>> \in OpToRel(<, Nat))
  BY <1>1, WFMin, Zenon
<1>3. \A y \in S : ~ (y < x)
  BY <1>2 DEF OpToRel
<1> QED BY <1>3

\* Induction, over a set.
LEMMA SetInduction ==
    ASSUME NEW S, 0 \in S, \A n \in Nat : n \in S => n + 1 \in S
    PROVE  Nat \subseteq S
<1> SUFFICES ASSUME Nat \ S # {} PROVE FALSE
  OBVIOUS
<1>1. PICK x \in Nat \ S : \A y \in Nat \ S : x <= y
  BY NatMin
<1>2. x # 0 /\ x - 1 \in Nat
  BY <1>1
<1>3. x - 1 \in S
  BY <1>1, <1>2
<1> QED BY <1>1, <1>2, <1>3

\* A set of segments has a last one.
LEMMA MaxIsLast ==
    ASSUME NEW B \in Nat, NEW S \in SUBSET (1..B), S # {}
    PROVE  Max(S) \in S /\ \A y \in S : Max(S) >= y
<1>1. PICK x \in {b \in Nat : \A y \in S : y <= b} : \A z \in {b \in Nat : \A y \in S : y <= b} : x <= z
  <2>1. B \in {b \in Nat : \A y \in S : y <= b}
    OBVIOUS
  <2> QED BY <2>1, NatMin
<1>2. x \in S
  <2> SUFFICES ASSUME x \notin S PROVE FALSE
    OBVIOUS
  <2>1. x # 0
    <3>1. PICK y \in S : y \in 1..B
      OBVIOUS
    <3> QED BY <1>1, <3>1
  <2>2. \A y \in S : y <= x - 1
    BY <1>1
  <2>3. x - 1 \in {b \in Nat : \A y \in S : y <= b}
    BY <1>1, <2>1, <2>2
  <2> QED BY <1>1, <2>3
<1>3. \A y \in S : x >= y
  BY <1>1
<1> QED BY <1>2, <1>3 DEF Max

\* A set of naturals has its least element for a minimum.
LEMMA MinIsFirst ==
    ASSUME NEW S \in SUBSET Nat, S # {}
    PROVE  Min(S) \in S /\ \A y \in S : Min(S) =< y
<1>1. \E x \in S : \A y \in S : x =< y
  BY NatMin
<1> QED BY <1>1 DEF Min

-----------------------------------------------------------------------------
(* Reading.                                                                *)

\* The first n of a sequence.
LEMMA FirstOf ==
    ASSUME NEW S, NEW s \in Seq(S), NEW n \in 0..Len(s)
    PROVE  /\ SubSeq(s, 1, n) \in Seq(S) /\ Len(SubSeq(s, 1, n)) = n
           /\ \A i \in 1..n : SubSeq(s, 1, n)[i] = s[i]
OBVIOUS

Frame == Record \cup {Torn}

\* No record is a torn one.
LEMMA RecordIsWhole == \A r \in Record : r # Torn /\ r.seq \in Nat \ {0} /\ r.op \in Ops
  BY StoreAssumption DEF Record, Torn, Ops

\* The frames before the damaged one, when that is the last.
LEMMA WholeIs ==
    ASSUME NEW fs \in Seq(Frame),
           \A i \in DOMAIN fs : i < Len(fs) => fs[i] # Torn
    PROVE  /\ Whole(fs) \in Seq(Record)
           /\ DOMAIN Whole(fs) = {i \in DOMAIN fs : fs[i] # Torn}
           /\ \A i \in DOMAIN Whole(fs) : Whole(fs)[i] = fs[i]
<1> DEFINE damaged == {i \in DOMAIN fs : fs[i] = Torn}
<1>1. CASE damaged = {}
  <2>1. Whole(fs) = fs
    BY <1>1 DEF Whole
  <2>2. fs \in Seq(Record)
    BY <1>1 DEF Frame
  <2> QED BY <1>1, <2>1, <2>2
<1>2. CASE damaged # {}
  <2>1. damaged = {Len(fs)} /\ Len(fs) > 0
    BY <1>2
  <2>2. Min(damaged) = Len(fs)
    <3>1. Min(damaged) \in damaged
      BY <1>2, MinIsFirst
    <3> QED BY <3>1, <2>1
  <2>3. Whole(fs) = SubSeq(fs, 1, Len(fs) - 1)
    BY <1>2, <2>2 DEF Whole
  <2>4. \A i \in 1..(Len(fs) - 1) : fs[i] \in Record
    BY <1>2 DEF Frame
  <2>5. /\ Len(SubSeq(fs, 1, Len(fs) - 1)) = Len(fs) - 1
        /\ \A i \in 1..(Len(fs) - 1) : SubSeq(fs, 1, Len(fs) - 1)[i] = fs[i]
    BY <2>1, Len(fs) - 1 \in 0..Len(fs), FirstOf
  <2>6. SubSeq(fs, 1, Len(fs) - 1) \in Seq(Record)
    BY <2>1, <2>4, <2>5
  <2> QED BY <2>1, <2>3, <2>5, <2>6
<1> QED BY <1>1, <1>2

Counted(D, c) == [state |-> SubSeq(D, 1, c), seq |-> c]

\* One more record of the log, when none is left out before it.
LEMMA OverIs ==
    ASSUME NEW D \in Seq(Ops), NEW c \in 0..Len(D), NEW r \in Record,
           r.seq \in 1..Len(D), r.op = D[r.seq], r.seq <= c + 1
    PROVE  \E e \in c..Len(D) : Over(Counted(D, c), r) = Counted(D, e) /\ r.seq <= e
<1>1. CASE r.seq <= c
  <2>1. ~IsNew(Counted(D, c), r)
    BY <1>1 DEF IsNew, Counted
  <2> QED BY <1>1, <2>1 DEF Over
<1>2. CASE r.seq = c + 1
  <2>1. IsNew(Counted(D, c), r)
    BY <1>2 DEF IsNew, Counted
  <2>2. Append(SubSeq(D, 1, c), D[c + 1]) = SubSeq(D, 1, c + 1)
    BY <1>2
  <2>3. Over(Counted(D, c), r) = Counted(D, c + 1)
    BY <1>2, <2>1, <2>2 DEF Over, Counted
  <2> QED BY <1>2, <2>3
<1> QED BY <1>1, <1>2

\* f holds the states along the records rs, from s on.
Along(f, s, rs) == f = [i \in 0..Len(rs) |-> IF i = 0 THEN s ELSE Over(f[i - 1], rs[i])]

\* The recursion over the records of a segment is well defined.
LEMMA OverSegmentRec ==
    ASSUME NEW s, NEW n, NEW rs, rs = Whole(files[n].frames), Len(rs) \in Nat
    PROVE  \E f : Along(f, s, rs) /\ OverSegment(s, n) = f[Len(rs)]
<1> DEFINE IsFor(m, f) == f = [i \in 0..m |-> IF i = 0 THEN s ELSE Over(f[i - 1], rs[i])]
           Good == {m \in Nat : \E f : IsFor(m, f)}
<1>1. 0 \in Good
  <2>1. IsFor(0, [i \in 0..0 |-> s])
    OBVIOUS
  <2> QED BY <2>1
<1>2. ASSUME NEW m \in Nat, m \in Good PROVE m + 1 \in Good
  <2>1. PICK f : IsFor(m, f)
    BY <1>2
  <2> DEFINE g == [i \in 0..(m + 1) |-> IF i = m + 1 THEN Over(f[m], rs[m + 1]) ELSE f[i]]
  <2>2. \A i \in 0..m : g[i] = f[i]
    OBVIOUS
  <2>3. g[m + 1] = Over(f[m], rs[m + 1])
    OBVIOUS
  <2>4. \A i \in 0..m : f[i] = IF i = 0 THEN s ELSE Over(f[i - 1], rs[i])
    BY <2>1
  <2>5. ASSUME NEW i \in 0..(m + 1)
        PROVE  g[i] = IF i = 0 THEN s ELSE Over(g[i - 1], rs[i])
    <3>1. CASE i = m + 1
      BY <2>2, <2>3, <3>1
    <3>2. CASE i \in 0..m
      BY <2>2, <2>4, <3>2
    <3> QED BY <3>1, <3>2
  <2>6. IsFor(m + 1, g)
    <3>1. g = [i \in 0..(m + 1) |-> g[i]]
      OBVIOUS
    <3> HIDE DEF g
    <3> QED BY <2>5, <3>1
  <2> HIDE DEF IsFor, g
  <2> QED BY <2>6
<1> HIDE DEF Good
<1>3. Len(rs) \in Good
  BY <1>1, <1>2, SetInduction
<1> USE DEF Good
<1> DEFINE F == CHOOSE f : f = [i \in 0..Len(rs) |-> IF i = 0 THEN s ELSE Over(f[i - 1], rs[i])]
<1>4. F = [i \in 0..Len(rs) |-> IF i = 0 THEN s ELSE Over(F[i - 1], rs[i])]
  BY <1>3
<1>5. OverSegment(s, n) = F[Len(rs)]
  BY DEF OverSegment
<1> HIDE DEF F
<1> QED BY <1>4, <1>5 DEF Along

\* Replaying a segment takes the state to the last of its records, when no
\* record comes before the one it follows.
LEMMA OverSegmentIs ==
    ASSUME NEW D \in Seq(Ops), NEW c \in 0..Len(D), NEW n,
           Whole(files[n].frames) \in Seq(Record),
           \A i \in DOMAIN Whole(files[n].frames) :
               LET r == Whole(files[n].frames)[i] IN
               /\ r.seq \in 1..Len(D) /\ r.op = D[r.seq]
               /\ \/ r.seq <= c + 1
                  \/ \E j \in 1..(i - 1) : Whole(files[n].frames)[j].seq = r.seq - 1
    PROVE  \E e \in c..Len(D) :
               /\ OverSegment(Counted(D, c), n) = Counted(D, e)
               /\ \A i \in DOMAIN Whole(files[n].frames) : Whole(files[n].frames)[i].seq <= e
<1> DEFINE rs == Whole(files[n].frames)
<1>2. \A i \in DOMAIN rs : /\ rs[i] \in Record /\ rs[i].seq \in 1..Len(D) /\ rs[i].op = D[rs[i].seq]
                           /\ rs[i].seq <= c + 1 \/ \E j \in 1..(i - 1) : rs[j].seq = rs[i].seq - 1
  OBVIOUS
<1>a. rs \in Seq(Record) /\ DOMAIN rs = 1..Len(rs) /\ Len(rs) \in Nat
  OBVIOUS
<1>b. rs = Whole(files[n].frames)
  OBVIOUS
<1> HIDE DEF rs
<1>d. PICK f : Along(f, Counted(D, c), rs) /\ OverSegment(Counted(D, c), n) = f[Len(rs)]
  BY <1>a, <1>b, OverSegmentRec
<1>1. /\ f = [i \in 0..Len(rs) |-> IF i = 0 THEN Counted(D, c) ELSE Over(f[i - 1], rs[i])]
      /\ OverSegment(Counted(D, c), n) = f[Len(rs)]
  BY <1>d DEF Along
<1> DEFINE Good == {m \in Nat : m <= Len(rs) => \E e \in c..Len(D) :
                        f[m] = Counted(D, e) /\ \A i \in 1..m : rs[i].seq <= e}
<1>3. 0 \in Good
  <2>1. f[0] = Counted(D, c)
    BY <1>1, <1>a
  <2> QED BY <2>1
<1>4. ASSUME NEW m \in Nat, m \in Good PROVE m + 1 \in Good
  <2> SUFFICES ASSUME m + 1 <= Len(rs)
               PROVE  \E e \in c..Len(D) : f[m + 1] = Counted(D, e) /\ \A i \in 1..(m + 1) : rs[i].seq <= e
    OBVIOUS
  <2>1. PICK e \in c..Len(D) : f[m] = Counted(D, e) /\ \A i \in 1..m : rs[i].seq <= e
    BY <1>4, <1>a
  <2>2. f[m + 1] = Over(Counted(D, e), rs[m + 1])
    <3>1. m + 1 \in 0..Len(rs) /\ m + 1 # 0 /\ (m + 1) - 1 = m
      BY <1>a
    <3>2. f[m + 1] = Over(f[(m + 1) - 1], rs[m + 1])
      BY <1>1, <3>1
    <3> QED BY <2>1, <3>1, <3>2
  <2>3. /\ rs[m + 1] \in Record /\ rs[m + 1].seq \in 1..Len(D) /\ rs[m + 1].op = D[rs[m + 1].seq]
        /\ rs[m + 1].seq <= e + 1
    BY <1>2, <1>a, <2>1
  <2>4. PICK d \in e..Len(D) : Over(Counted(D, e), rs[m + 1]) = Counted(D, d) /\ rs[m + 1].seq <= d
    BY <2>3, OverIs
  <2>5. \A i \in 1..(m + 1) : rs[i].seq <= d
    BY <1>2, <1>a, <2>1, <2>3, <2>4
  <2> QED BY <2>2, <2>4, <2>5
<1> HIDE DEF Good
<1>5. Len(rs) \in Good
  BY <1>3, <1>4, <1>a, SetInduction
<1>6. \E e \in c..Len(D) : f[Len(rs)] = Counted(D, e) /\ \A i \in 1..Len(rs) : rs[i].seq <= e
  BY <1>5, <1>a DEF Good
<1> QED BY <1>1, <1>6, <1>a DEF rs

\* The recursion over the segments is well defined.
LEMMA ReplayRec ==
    \E f : /\ f = [n \in 0..MaxSeg |->
                     IF n = 0 THEN Snapshotted
                     ELSE IF n \in ReplayedSegs THEN OverSegment(f[n - 1], n) ELSE f[n - 1]]
          /\ Replay = f[MaxSeg]
<1> DEFINE Step(s, n) == IF n \in ReplayedSegs THEN OverSegment(s, n) ELSE s
           IsFor(m, f) == f = [n \in 0..m |-> IF n = 0 THEN Snapshotted ELSE Step(f[n - 1], n)]
           Good == {m \in Nat : \E f : IsFor(m, f)}
<1>1. 0 \in Good
  <2>1. IsFor(0, [n \in 0..0 |-> Snapshotted])
    OBVIOUS
  <2> QED BY <2>1
<1>2. ASSUME NEW m \in Nat, m \in Good PROVE m + 1 \in Good
  <2>1. PICK f : IsFor(m, f)
    BY <1>2
  <2> HIDE DEF Step
  <2> DEFINE g == [n \in 0..(m + 1) |-> IF n = m + 1 THEN Step(f[m], m + 1) ELSE f[n]]
  <2>2. \A n \in 0..m : g[n] = f[n]
    OBVIOUS
  <2>3. g[m + 1] = Step(f[m], m + 1)
    OBVIOUS
  <2>4. \A n \in 0..m : f[n] = IF n = 0 THEN Snapshotted ELSE Step(f[n - 1], n)
    BY <2>1
  <2>5. ASSUME NEW n \in 0..(m + 1)
        PROVE  g[n] = IF n = 0 THEN Snapshotted ELSE Step(g[n - 1], n)
    <3>1. CASE n = m + 1
      BY <2>2, <2>3, <3>1
    <3>2. CASE n \in 0..m
      BY <2>2, <2>4, <3>2
    <3> QED BY <3>1, <3>2
  <2>6. IsFor(m + 1, g)
    <3>1. g = [n \in 0..(m + 1) |-> g[n]]
      OBVIOUS
    <3> HIDE DEF g
    <3> QED BY <2>5, <3>1
  <2> HIDE DEF IsFor, g
  <2> QED BY <2>6
<1> HIDE DEF Good
<1>3. MaxSeg \in Good
  BY <1>1, <1>2, SetInduction, StoreAssumption DEF StoreAssumption
<1> USE DEF Good
<1> DEFINE F == CHOOSE f : f = [n \in 0..MaxSeg |->
                                IF n = 0 THEN Snapshotted
                                ELSE IF n \in ReplayedSegs THEN OverSegment(f[n - 1], n) ELSE f[n - 1]]
<1>4. F = [n \in 0..MaxSeg |-> IF n = 0 THEN Snapshotted
                             ELSE IF n \in ReplayedSegs THEN OverSegment(F[n - 1], n) ELSE F[n - 1]]
  BY <1>3
<1>5. Replay = F[MaxSeg]
  BY DEF Replay
<1> HIDE DEF F
<1> QED BY <1>4, <1>5

\* The frames of a segment that are whole, as replay reads them.
LEMMA WholesAre ==
    ASSUME Types, TornLast, NEW n \in SegNos
    PROVE  /\ Whole(files[n].frames) \in Seq(Record)
           /\ DOMAIN Whole(files[n].frames) = Wholes(n)
           /\ \A i \in Wholes(n) : Whole(files[n].frames)[i] = Rec(n, i)
<1>1. files[n].frames \in Seq(Frame)
  BY DEF Types, Frame
<1>2. \A i \in DOMAIN files[n].frames : i < Len(files[n].frames) => files[n].frames[i] # Torn
  BY DEF TornLast
<1> QED BY <1>1, <1>2, WholeIs DEF Wholes, Rec

\* The manifest that is read is the one in the directory, or the first.
LEMMA ManifestIs == Manifest = Eff(dir.manifest)
  BY DEF Manifest, Eff

\* What the two manifests name, and the segments there are.
LEMMA ManifestTypes ==
    ASSUME Types
    PROVE  /\ Eff(dir.manifest).last \in Nat /\ Eff(flushed.manifest).last \in Nat
           /\ Eff(dir.manifest).wal \in Nat /\ Eff(flushed.manifest).wal \in Nat
           /\ Eff(dir.manifest).last \in 0..MaxOps /\ Eff(flushed.manifest).last \in 0..MaxOps
           /\ Live \subseteq SegNos /\ Kept \subseteq Live
           /\ dir.segs \subseteq Live /\ flushed.segs \subseteq Live
  BY StoreAssumption DEF StoreAssumption, Types, Dirs, Eff, FirstManifest, NoManifest, Live, Kept

\* A manifest is of numbers.
LEMMA EffTypes == \A d \in Dirs : Eff(d.manifest).wal \in Nat /\ Eff(d.manifest).last \in Nat
  BY StoreAssumption DEF StoreAssumption, Dirs, Eff, FirstManifest, NoManifest

\* The snapshot is the log up to the manifest's watermark.
LEMMA SnapshottedIs ==
    ASSUME Types, NEW D \in Seq(Ops), Disk(D)
    PROVE  Snapshotted = Counted(D, Eff(dir.manifest).last)
<1>1. CASE Eff(dir.manifest).last = 0
  <2>1. SubSeq(D, 1, 0) = <<>>
    OBVIOUS
  <2> QED BY <1>1, <2>1, ManifestIs DEF Snapshotted, Counted
<1>2. CASE Eff(dir.manifest).last # 0
  <2>1. dir.manifest # NoManifest /\ Eff(dir.manifest) = dir.manifest
    BY <1>2 DEF Eff, FirstManifest, NoManifest
  <2>2. dir.manifest.last \in DOMAIN dir.snaps
    BY <1>2, <2>1 DEF Disk, Manifests, Complete
  <2>3. dir.snaps[dir.manifest.last] = SubSeq(D, 1, dir.manifest.last)
    BY <2>2 DEF Disk, SnapshotsOf
  <2> QED BY <1>2, <2>1, <2>3, ManifestIs DEF Snapshotted, Counted
<1> QED BY <1>1, <1>2

\* What an open reads is the log.
LEMMA ReplayIs ==
    ASSUME Types, NEW D \in Seq(Ops), Disk(D)
    PROVE  Replay = [state |-> D, seq |-> Len(D)]
<1> DEFINE last == Eff(dir.manifest).last
<1>1. PICK f : /\ f = [n \in 0..MaxSeg |->
                          IF n = 0 THEN Snapshotted
                          ELSE IF n \in ReplayedSegs THEN OverSegment(f[n - 1], n) ELSE f[n - 1]]
               /\ Replay = f[MaxSeg]
  BY ReplayRec
<1>2. /\ last \in 0..Len(D) /\ Eff(flushed.manifest).last <= last
      /\ Eff(flushed.manifest).last \in Nat /\ Len(D) \in Nat /\ MaxSeg \in Nat
  BY ManifestTypes, StoreAssumption DEF Disk, Manifests, StoreAssumption
<1> HIDE DEF last
<1> DEFINE Good == {n \in Nat : n <= MaxSeg => \E e \in last..Len(D) :
              /\ f[n] = Counted(D, e)
              /\ \A m \in dir.segs : \A i \in Wholes(m) : m <= n => Rec(m, i).seq <= e}
<1>3. 0 \in Good
  <2>1. f[0] = Counted(D, last)
    BY <1>1, <1>2, SnapshottedIs DEF last
  <2>2. \A m \in dir.segs : ~(m <= 0)
    BY ManifestTypes DEF SegNos
  <2> QED BY <1>2, <2>1, <2>2
<1>4. ASSUME NEW n \in Nat, n \in Good, n + 1 <= MaxSeg
      PROVE  \E e \in last..Len(D) :
                /\ f[n + 1] = Counted(D, e)
                /\ \A m \in dir.segs : \A i \in Wholes(m) : m <= n + 1 => Rec(m, i).seq <= e
  <2>1. PICK e \in last..Len(D) :
              /\ f[n] = Counted(D, e)
              /\ \A m \in dir.segs : \A i \in Wholes(m) : m <= n => Rec(m, i).seq <= e
    BY <1>2, <1>4
  <2> HIDE DEF Good
  <2>2. f[n + 1] = IF n + 1 \in ReplayedSegs THEN OverSegment(f[n], n + 1) ELSE f[n]
    <3>1. n + 1 \in 0..MaxSeg /\ n + 1 # 0 /\ (n + 1) - 1 = n
      BY <1>4, <1>2
    <3>2. f[n + 1] = IF n + 1 \in ReplayedSegs THEN OverSegment(f[(n + 1) - 1], n + 1) ELSE f[(n + 1) - 1]
      BY <1>1, <3>1
    <3> QED BY <3>1, <3>2
  <2>3. CASE n + 1 \notin dir.segs
    <3>1. \A m \in dir.segs : m <= n + 1 => m <= n
      BY <2>3, ManifestTypes DEF SegNos
    <3> QED BY <2>1, <2>2, <2>3, <3>1 DEF ReplayedSegs
  <2>4. CASE n + 1 \in dir.segs
    <3> DEFINE N == n + 1
    <3>0. N \in SegNos /\ N \in Live
      BY <2>4, ManifestTypes
    <3>1. /\ Whole(files[N].frames) \in Seq(Record)
          /\ DOMAIN Whole(files[N].frames) = Wholes(N)
          /\ \A i \in Wholes(N) : Whole(files[N].frames)[i] = Rec(N, i)
      BY <3>0, WholesAre DEF Disk
    <3>2. ASSUME NEW i \in Wholes(N)
          PROVE  /\ Rec(N, i).seq \in 1..Len(D) /\ Rec(N, i).op = D[Rec(N, i).seq]
                 /\ \/ Rec(N, i).seq <= e + 1
                    \/ \E j \in 1..(i - 1) : Whole(files[N].frames)[j].seq = Rec(N, i).seq - 1
      <4>1. Rec(N, i).seq \in 1..Len(D) /\ Rec(N, i).op = D[Rec(N, i).seq]
        BY <3>0 DEF Disk, RecordsOf
      <4>2. CASE Rec(N, i).seq > e + 1
        <5> DEFINE q == Rec(N, i).seq - 1
        <5>1. q \in (Eff(flushed.manifest).last + 1)..Len(D) /\ q > e
          BY <1>2, <4>1, <4>2
        <5>2. PICK m \in Kept : \E j \in Wholes(m) : Rec(m, j).seq = q
          BY <5>1 DEF Disk, Covered
        <5>3. PICK j \in Wholes(m) : Rec(m, j).seq = q
          BY <5>2
        <5>4. m \in dir.segs /\ m \in Live /\ m \in Nat
          BY <5>2, ManifestTypes DEF Kept, SegNos
        <5>5. ~(m <= n)
          BY <2>1, <5>1, <5>3, <5>4
        <5>6. ~(N < m) /\ ~(N = m /\ i < j)
          BY <3>0, <4>1, <5>3, <5>4 DEF Disk, Ordered
        <5>7. m = N /\ j \in Wholes(N) /\ i \in Nat /\ j \in Nat /\ j > 0
          <6>1. m = N
            BY <5>4, <5>5, <5>6
          <6>2. \A k \in Wholes(N) : k \in Nat /\ k > 0
            BY <3>1
          <6> QED BY <6>1, <6>2, <5>3
        <5>8. j # i
          BY <4>1, <5>3, <5>7
        <5>9. j \in 1..(i - 1)
          BY <5>6, <5>7, <5>8
        <5> QED BY <3>1, <4>1, <5>3, <5>7, <5>9
      <4>3. CASE ~(Rec(N, i).seq > e + 1)
        BY <1>2, <4>1, <4>3
      <4> QED BY <4>1, <4>2, <4>3
    <3>3. e \in 0..Len(D)
      BY <1>2
    <3>4. PICK d \in e..Len(D) :
               /\ OverSegment(Counted(D, e), N) = Counted(D, d)
               /\ \A i \in DOMAIN Whole(files[N].frames) : Whole(files[N].frames)[i].seq <= d
      <4> HIDE DEF N
      <4>1. \A i \in DOMAIN Whole(files[N].frames) :
               LET r == Whole(files[N].frames)[i] IN
               /\ r.seq \in 1..Len(D) /\ r.op = D[r.seq]
               /\ \/ r.seq <= e + 1
                  \/ \E j \in 1..(i - 1) : Whole(files[N].frames)[j].seq = r.seq - 1
        BY <3>1, <3>2, Zenon
      <4> QED BY <3>1, <3>3, <4>1, OverSegmentIs
    <3>5. \A m \in dir.segs : \A i \in Wholes(m) : m <= N => Rec(m, i).seq <= d
      <4> SUFFICES ASSUME NEW m \in dir.segs, NEW i \in Wholes(m), m <= N
                   PROVE  Rec(m, i).seq <= d
        OBVIOUS
      <4>1. Rec(m, i).seq \in 1..Len(D)
        BY ManifestTypes DEF Disk, RecordsOf
      <4>2. CASE m = N
        BY <3>1, <3>4, <4>2
      <4>3. CASE m # N
        <5>1. m <= n
          BY <4>3, ManifestTypes DEF SegNos
        <5>2. Rec(m, i).seq <= e
          BY <2>1, <5>1
        <5> QED BY <1>2, <3>4, <4>1, <5>2
      <4> QED BY <4>2, <4>3
    <3>6. f[N] = Counted(D, d)
      BY <2>1, <2>2, <2>4, <3>4 DEF ReplayedSegs
    <3>7. d \in last..Len(D)
      BY <1>2, <3>3, <3>4
    <3> QED BY <3>5, <3>6, <3>7
  <2> QED BY <2>3, <2>4
<1>5. \A n \in Nat : n \in Good => n + 1 \in Good
  BY <1>4
<1>6. PICK e \in last..Len(D) :
          /\ f[MaxSeg] = Counted(D, e)
          /\ \A m \in dir.segs : \A i \in Wholes(m) : m <= MaxSeg => Rec(m, i).seq <= e
  <2> HIDE DEF Good
  <2>1. MaxSeg \in Good
    BY <1>2, <1>3, <1>5, SetInduction
  <2> QED BY <1>2, <2>1 DEF Good
<1>7. e = Len(D)
  <2>1. CASE Len(D) = last
    BY <1>2, <1>6, <2>1
  <2>2. CASE Len(D) # last
    <3>1. Len(D) \in (Eff(flushed.manifest).last + 1)..Len(D)
      BY <1>2, <2>2
    <3>2. PICK m \in Kept : \E j \in Wholes(m) : Rec(m, j).seq = Len(D)
      BY <3>1 DEF Disk, Covered
    <3>3. m \in dir.segs /\ m <= MaxSeg
      BY <3>2, ManifestTypes DEF Kept, SegNos
    <3> QED BY <1>2, <1>6, <3>2, <3>3
  <2> QED BY <2>1, <2>2
<1>8. SubSeq(D, 1, Len(D)) = D
  OBVIOUS
<1> QED BY <1>1, <1>6, <1>7, <1>8 DEF Counted

-----------------------------------------------------------------------------
\* The file system makes directory changes durable in order, and a behaviour in
\* which the power fails is none in which a directory fsync does.  With both the
\* promise is broken: after a Swap whose fsync failed the appends go on to the old
\* segment, a reopen goes on in the new one, and the power takes the tail of the
\* old.
Journaled == OrderedMetadata = TRUE /\ \A F \in FaultSets : ~({"power", "dirsync"} \subseteq F)

\* Snapshots are kept under watermarks.
LEMMA SnapsAre == \A S \in SUBSET (0..MaxOps) : \A f \in [S -> Seq(Ops)] : f \in Snaps
  BY DEF Snaps

\* The empty disk holds the empty log.
LEMMA InitHolds == Init => Inv(<<>>)
<1> SUFFICES ASSUME Init PROVE Inv(<<>>)
  OBVIOUS
<1>0. <<>> \in Seq(Ops) /\ Len(<<>>) = 0
  OBVIOUS
<1>1. Types
  <2>1. <<>> \in [{} -> Seq(Ops)]
    OBVIOUS
  <2>2. <<>> \in Snaps
    BY <2>1, SnapsAre
  <2>3. dir \in Dirs
    BY <2>2, StoreAssumption DEF Init, Dirs, NoManifest, StoreAssumption
  <2> QED BY <2>3, StoreAssumption DEF Init, Types, NoFile, NoProcess, StoreAssumption
<1>2. Disk(<<>>)
  BY DEF Init, Disk, RecordsOf, SnapshotsOf, Ordered, Covered, TornLast, Headless, Ahead,
         Manifests, Complete, Eff, FirstManifest, NoManifest, NoFile, Live, Kept
<1>3. Memory(<<>>) /\ Writing /\ Naming /\ Checkpointing /\ Acknowledged(<<>>)
  BY DEF Init, Memory, Writing, Naming, Checkpointing, Acknowledged, NoProcess, IsPrefix
<1>4. Caching
  BY DEF Init, Caching, NoFile, Live, Wholes
<1> QED BY <1>0, <1>1, <1>2, <1>3, <1>4 DEF Inv

\* Files that stay hold what they held.
LEMMA FilesSame ==
    ASSUME UNCHANGED files
    PROVE  \A n : Wholes(n)' = Wholes(n) /\ \A i : Rec(n, i)' = Rec(n, i)
  BY DEF Wholes, Rec

\* What the files say of the log does not depend on the directory, as long as
\* no file appears in it.
LEMMA FilesStay ==
    ASSUME NEW D \in Seq(Ops), Types, Disk(D), UNCHANGED files, Live' \subseteq Live
    PROVE  RecordsOf(D)' /\ Ordered' /\ TornLast' /\ Headless'
<1>1. RecordsOf(D)'
  BY FilesSame DEF Disk, RecordsOf
<1>2. Ordered'
  BY FilesSame DEF Disk, Ordered
<1>3. TornLast' /\ Headless'
  BY DEF Disk, TornLast, Headless
<1> QED BY <1>1, <1>2, <1>3

\* A manifest that is not older than the last keeps the two that depend on it.
LEMMA ManifestMoves ==
    ASSUME NEW D \in Seq(Ops), Types, Types', Disk(D), UNCHANGED files, Live' \subseteq Live,
           Eff(flushed.manifest).wal <= Eff(flushed'.manifest).wal,
           Eff(flushed.manifest).last <= Eff(flushed'.manifest).last,
           Kept \subseteq Kept' \/ Len(D) <= Eff(flushed'.manifest).last
    PROVE  Ahead' /\ Covered(D)'
<1>1. /\ Eff(flushed.manifest).wal \in Nat /\ Eff(flushed.manifest).last \in Nat
      /\ Eff(flushed'.manifest).wal \in Nat /\ Eff(flushed'.manifest).last \in Nat
      /\ Live \subseteq Nat /\ Len(D) \in Nat
  <2>1. dir \in Dirs /\ flushed \in Dirs /\ flushed' \in Dirs
    BY DEF Types
  <2> QED BY <2>1, EffTypes, ManifestTypes DEF SegNos
<1>2. Ahead'
  <2> SUFFICES ASSUME NEW n \in Live', n > Eff(flushed'.manifest).wal
               PROVE  files[n].frames = <<>>
    BY DEF Ahead
  <2>1. n \in Live /\ n > Eff(flushed.manifest).wal
    BY <1>1
  <2> QED BY <2>1 DEF Disk, Ahead
<1>3. Covered(D)'
  <2> SUFFICES ASSUME NEW q \in (Eff(flushed'.manifest).last + 1)..Len(D)
               PROVE  \E n \in Kept' : \E i \in Wholes(n)' : Rec(n, i)' = Rec(n, i) /\ Rec(n, i).seq = q
    BY DEF Covered
  <2>1. q \in (Eff(flushed.manifest).last + 1)..Len(D) /\ Kept \subseteq Kept'
    BY <1>1
  <2> QED BY <2>1, FilesSame DEF Disk, Covered
<1> QED BY <1>2, <1>3

\* Only the process moves.
LEMMA DiskStays ==
    ASSUME NEW D \in Seq(Ops), Types, Types', Disk(D), UNCHANGED <<dir, flushed, files>>
    PROVE  Disk(D)'
<1>0. Live' = Live /\ Kept' = Kept
  BY DEF Live, Kept
<1>1. RecordsOf(D)' /\ Ordered' /\ TornLast' /\ Headless'
  BY <1>0, FilesStay
<1>2. Ahead' /\ Covered(D)'
  BY <1>0, ManifestMoves, ManifestTypes
<1>3. SnapshotsOf(D)'
  BY DEF Disk, SnapshotsOf
<1>4. Manifests(D)'
  BY <1>0 DEF Disk, Manifests, Complete, Eff
<1> QED BY <1>1, <1>2, <1>3, <1>4 DEF Disk

\* Where the power may fail and nothing is being written, nothing is unsynced.
LEMMA AllSynced ==
    ASSUME Types, Caching, "power" \in faults, ~mem.poisoned,
           pc \notin {"down", "attach", "append", "swapSync", "sweep"}
    PROVE  \A n \in SegNos : /\ files[n].synced = Len(files[n].frames)
                             /\ \A i \in Wholes(n) : ~(i > files[n].synced)
<1>1. \A n \in SegNos : files[n].synced = Len(files[n].frames)
  BY DEF Caching
<1>2. \A n \in SegNos : \A i \in Wholes(n) :
         i \in Nat /\ Len(files[n].frames) \in Nat /\ i <= Len(files[n].frames)
  BY DEF Types, Wholes
<1> QED BY <1>1, <1>2

\* A checkpoint begins: only the process moves.
LEMMA CheckpointKeeps ==
    ASSUME Journaled, NEW D \in Seq(Ops), Inv(D), Checkpoint
    PROVE  Inv(D)'
<1>1. Types'
  BY DEF Inv, Types, Checkpoint
<1>2. Disk(D)'
  BY <1>1, DiskStays DEF Inv, Checkpoint
<1>3. Memory(D)'
  BY DEF Inv, Memory, Checkpoint, Accepts
<1>4. Writing'
  BY DEF Inv, Writing, Checkpoint, Accepts, Kept, Live, Wholes
<1>5. Naming' /\ Checkpointing' /\ Acknowledged(D)'
  BY DEF Inv, Naming, Checkpointing, Acknowledged, Checkpoint, Accepts
<1>6. Caching'
  BY DEF Inv, Caching, Checkpoint, Accepts, Live, Wholes, Rec, Eff
<1> QED BY <1>1, <1>2, <1>3, <1>4, <1>5, <1>6 DEF Inv

\* The snapshot of the whole log is written under its length.
LEMMA SnapshotKeeps ==
    ASSUME Journaled, NEW D \in Seq(Ops), Inv(D), Snapshot
    PROVE  Inv(D)'
<1>0. /\ flushed' = dir /\ dir'.manifest = dir.manifest /\ dir'.segs = dir.segs
      /\ DOMAIN dir'.snaps = DOMAIN dir.snaps \cup {Len(D)}
      /\ \A k \in DOMAIN dir'.snaps : dir'.snaps[k] = IF k = Len(D) THEN D ELSE dir.snaps[k]
      /\ UNCHANGED <<files, mem, logged, issued, faults>>
      /\ pc = "snap" /\ pc' = "snapSync" /\ ~mem.poisoned
      /\ mem.state = D /\ mem.seq = Len(D)
  BY DEF Snapshot, FileSynced, Journaled, Inv, Memory, Types, Dirs
<1>a. /\ Live' = dir.segs /\ Kept' = dir.segs /\ Kept \subseteq Kept' /\ Live' \subseteq Live
      /\ Eff(dir'.manifest) = Eff(dir.manifest) /\ Eff(flushed'.manifest) = Eff(dir.manifest)
  BY <1>0 DEF Live, Kept, Eff
<1>1. Types'
  <2>1. dir' \in Dirs
    <3>1. dir'.snaps \in [DOMAIN dir.snaps \cup {Len(D)} -> Seq(Ops)]
      <4>1. \A k \in DOMAIN dir.snaps : dir.snaps[k] \in Seq(Ops)
        BY FirstOf DEF Inv, Disk, SnapshotsOf
      <4>2. dir'.snaps = [k \in DOMAIN dir.snaps \cup {Len(D)} |-> IF k = Len(D) THEN D ELSE dir.snaps[k]]
        BY <1>0 DEF Inv, Types, Dirs, Snapshot
      <4> QED BY <4>1, <4>2
    <3>2. DOMAIN dir.snaps \cup {Len(D)} \in SUBSET (0..MaxOps)
      BY StoreAssumption DEF Inv, Memory, Types, Disk, SnapshotsOf, StoreAssumption
    <3>3. dir'.snaps \in Snaps
      BY <3>1, <3>2, SnapsAre
    <3> QED BY <1>0, <3>3 DEF Inv, Types, Dirs, Snapshot
  <2> QED BY <1>0, <2>1 DEF Inv, Types
<1>2. Disk(D)'
  <2>1. RecordsOf(D)' /\ Ordered' /\ TornLast' /\ Headless'
    BY <1>0, <1>a, FilesStay DEF Inv
  <2>2. Ahead' /\ Covered(D)'
    BY <1>0, <1>1, <1>a, ManifestMoves DEF Inv, Disk, Manifests
  <2>3. SnapshotsOf(D)'
    BY <1>0 DEF Inv, Disk, SnapshotsOf
  <2>4. Manifests(D)'
    BY <1>0, <1>a, ManifestTypes DEF Inv, Disk, Manifests, Complete, Kept
  <2> QED BY <2>1, <2>2, <2>3, <2>4 DEF Disk
<1>3. Memory(D)'
  BY <1>0 DEF Inv, Memory
<1>4. Writing'
  <2>1. mem.wal <= Eff(flushed'.manifest).wal
    BY <1>0, <1>a, ManifestTypes DEF Inv, Writing, Disk, Manifests, Types
  <2> QED BY <1>0, <1>a, <2>1, FilesSame DEF Inv, Writing
<1>5. Naming' /\ Checkpointing' /\ Acknowledged(D)'
  BY <1>0 DEF Inv, Naming, Checkpointing, Acknowledged
<1>6. Caching'
  <2> SUFFICES ASSUME "power" \in faults PROVE Caching'
    BY <1>0 DEF Caching
  <2>1. \A n \in SegNos : files[n].synced = Len(files[n].frames) /\ \A i \in Wholes(n) : ~(i > files[n].synced)
    BY <1>0, AllSynced DEF Inv
  <2>2. Live' \subseteq SegNos
    BY <1>a, ManifestTypes DEF Inv
  <2>3. mem.wal \in SegNos /\ mem.wal = Eff(dir.manifest).wal
    BY <1>0, ManifestTypes DEF Inv, Writing, Caching
  <2> QED BY <1>0, <1>a, <2>1, <2>2, <2>3, FilesSame DEF Caching
<1> QED BY <1>1, <1>2, <1>3, <1>4, <1>5, <1>6 DEF Inv

\* Whatever crash came before, what is there can be read.
LEMMA CanBeRead ==
    ASSUME NEW D \in Seq(Ops), Inv(D)
    PROVE  Readable
<1>1. \A n \in dir.segs : ~Damaged(files[n].frames)
  <2> SUFFICES ASSUME NEW n \in dir.segs, NEW i \in DOMAIN files[n].frames,
                      NEW j \in DOMAIN files[n].frames, i < j
               PROVE  files[n].frames[i] # Torn
    BY DEF Damaged
  <2>1. n \in SegNos /\ files[n].frames \in Seq(Frame)
    BY ManifestTypes DEF Inv, Types, Frame
  <2>2. i < Len(files[n].frames)
    BY <2>1
  <2> QED BY <2>1, <2>2 DEF Inv, Disk, TornLast
<1>2. Manifest.last # 0 => Manifest.last \in DOMAIN dir.snaps
  BY ManifestIs DEF Inv, Disk, Manifests, Complete, Eff, FirstManifest
<1> QED BY <1>1, <1>2 DEF Readable

\* Open reads the log and nothing else.
LEMMA OpenKeeps ==
    ASSUME NEW D \in Seq(Ops), Inv(D), Open
    PROVE  Inv(D)'
<1>0. /\ mem' = [state |-> D, seq |-> Len(D), wal |-> Eff(dir.manifest).wal,
                 since |-> 0, poisoned |-> FALSE]
      /\ pc' = "attach" /\ UNCHANGED <<dir, flushed, files, logged, issued, faults>>
  <2>1. Readable
    BY CanBeRead
  <2>2. Types /\ Disk(D)
    BY DEF Inv
  <2>3. Replay = [state |-> D, seq |-> Len(D)]
    BY <2>2, ReplayIs
  <2>4. Loaded = [state |-> D, seq |-> Len(D), wal |-> Eff(dir.manifest).wal,
                  since |-> 0, poisoned |-> FALSE]
    BY <2>3, ManifestIs DEF Loaded
  <2> QED BY <2>1, <2>4 DEF Open
<1>1. Types'
  <2>1. Eff(dir.manifest).wal \in 0..MaxSeg
    BY StoreAssumption DEF Inv, Types, Dirs, Eff, FirstManifest, StoreAssumption
  <2> QED BY <1>0, <2>1 DEF Inv, Types
<1>2. Disk(D)'
  BY <1>0, <1>1, DiskStays DEF Inv
<1>3. Memory(D)'
  BY <1>0 DEF Inv, Memory
<1>4. Writing' /\ Naming' /\ Checkpointing' /\ Acknowledged(D)'
  BY <1>0 DEF Inv, Writing, Naming, Checkpointing, Acknowledged
<1>5. Caching'
  BY <1>0 DEF Inv, Caching, Live, Wholes, Rec
<1> QED BY <1>1, <1>2, <1>3, <1>4, <1>5 DEF Inv

\* A failing fsync leaves the log longer than what was acknowledged.
LEMMA SyncFailsKeeps ==
    ASSUME NEW D \in Seq(Ops), Inv(D), SyncFails
    PROVE  Inv(D)'
<1>0. /\ pc = "append" /\ pc' = "idle" /\ UNCHANGED <<dir, flushed, files, logged, issued, faults>>
      /\ mem' = [mem EXCEPT !.poisoned = TRUE] /\ ~mem.poisoned /\ mem.state = D
      /\ mem'.poisoned /\ mem'.state = D /\ mem'.seq = mem.seq /\ mem'.wal = mem.wal
      /\ mem.seq <= Len(D)
  BY DEF SyncFails, Inv, Types, Memory
<1>1. Types'
  BY <1>0 DEF Inv, Types
<1>2. Disk(D)'
  BY <1>0, <1>1, DiskStays DEF Inv
<1>3. Memory(D)'
  <2>1. IsPrefix(D, D)
    BY DEF IsPrefix
  <2> QED BY <1>0, <2>1 DEF Inv, Memory
<1>4. Writing' /\ Naming' /\ Checkpointing' /\ Acknowledged(D)'
  BY <1>0 DEF Inv, Writing, Naming, Checkpointing, Acknowledged, Kept, Live
<1>5. Caching'
  BY <1>0 DEF Inv, Caching, Live, Wholes, Rec
<1> QED BY <1>1, <1>2, <1>3, <1>4, <1>5 DEF Inv

\* A killed process leaves the disk as it saw it.
LEMMA KillKeeps ==
    ASSUME NEW D \in Seq(Ops), Inv(D), Kill
    PROVE  Inv(D)'
<1>0. /\ pc' = "down" /\ mem' = NoProcess /\ UNCHANGED <<dir, flushed, files, logged, issued, faults>>
  BY DEF Kill
<1>1. Types'
  BY <1>0, StoreAssumption DEF Inv, Types, NoProcess, StoreAssumption
<1>2. Disk(D)'
  BY <1>0, <1>1, DiskStays DEF Inv
<1>3. Memory(D)'
  BY <1>0 DEF Inv, Memory, NoProcess, Types
<1>4. Writing' /\ Naming' /\ Checkpointing' /\ Acknowledged(D)'
  BY <1>0 DEF Inv, Writing, Naming, Checkpointing, Acknowledged
<1>5. Caching'
  BY <1>0 DEF Inv, Caching, Live, Wholes, Rec
<1> QED BY <1>1, <1>2, <1>3, <1>4, <1>5 DEF Inv

\* A failing step of the checkpoint leaves the disk consistent.
LEMMA CheckpointFailsKeeps ==
    ASSUME Journaled, NEW D \in Seq(Ops), Inv(D), CheckpointFails
    PROVE  Inv(D)'
<1>0. /\ pc' = "idle" /\ UNCHANGED <<dir, flushed, files, mem, logged, issued, faults>>
      /\ pc \in {"snap", "snapSync", "seg", "segSync", "swap", "swapSync"}
      /\ pc = "swapSync" => "power" \notin faults
      /\ ~mem.poisoned
  BY DEF CheckpointFails, Inv, Memory, Types, Journaled
<1>1. Types'
  BY <1>0 DEF Inv, Types
<1>2. Disk(D)'
  BY <1>0, <1>1, DiskStays DEF Inv
<1>3. Memory(D)'
  BY <1>0 DEF Inv, Memory
<1>4. Writing' /\ Naming' /\ Checkpointing' /\ Acknowledged(D)'
  BY <1>0 DEF Inv, Writing, Naming, Checkpointing, Acknowledged, Kept, Live, Wholes
<1>5. Caching'
  BY <1>0 DEF Inv, Caching, Live, Wholes, Rec
<1> QED BY <1>1, <1>2, <1>3, <1>4, <1>5 DEF Inv

\* The first manifest names a segment whose directory entry is flushed.
LEMMA PublishKeeps ==
    ASSUME Journaled, NEW D \in Seq(Ops), Inv(D), Publish
    PROVE  Inv(D)'
<1>0. /\ flushed' = dir /\ dir'.manifest = FirstManifest /\ dir.manifest = NoManifest
      /\ dir'.segs = dir.segs /\ dir'.snaps = dir.snaps /\ dir' \in Dirs
      /\ UNCHANGED <<files, mem, logged, issued, faults>>
      /\ pc = "publish" /\ pc' = "publishSync" /\ ~mem.poisoned /\ mem.wal = 1
      /\ D = <<>> /\ flushed.manifest = NoManifest
  <2>1. /\ pc = "publish" /\ pc' = "publishSync" /\ flushed' = dir
        /\ dir' = [dir EXCEPT !.manifest = FirstManifest]
        /\ UNCHANGED <<files, mem, logged, issued, faults>>
    BY DEF Publish, FileSynced, Journaled
  <2>2. dir \in Dirs /\ dir'.manifest = FirstManifest /\ dir'.segs = dir.segs /\ dir'.snaps = dir.snaps
    BY <2>1 DEF Inv, Types, Dirs
  <2>3. FirstManifest \in [last : 0..MaxOps, wal : 0..MaxSeg]
    BY StoreAssumption DEF FirstManifest, StoreAssumption
  <2>4. dir' \in Dirs
    BY <2>1, <2>2, <2>3 DEF Dirs
  <2>5. dir.manifest = NoManifest /\ mem.wal = 1 /\ ~mem.poisoned
    BY <2>1 DEF Inv, Naming, Memory, Types
  <2>6. D = <<>> /\ flushed.manifest = NoManifest
    BY <2>5 DEF Inv, Disk, Manifests
  <2> QED BY <2>1, <2>2, <2>4, <2>5, <2>6
<1>a. /\ Live' = dir.segs /\ Kept' = dir.segs /\ Kept \subseteq Kept' /\ Live' \subseteq Live
      /\ Eff(dir'.manifest) = FirstManifest /\ Eff(flushed'.manifest) = FirstManifest
      /\ Eff(dir.manifest) = FirstManifest /\ Eff(flushed.manifest) = FirstManifest
  BY <1>0 DEF Live, Kept, Eff, FirstManifest, NoManifest
<1>1. Types'
  BY <1>0 DEF Inv, Types
<1>2. Disk(D)'
  <2>1. RecordsOf(D)' /\ Ordered' /\ TornLast' /\ Headless'
    BY <1>0, <1>a, FilesStay DEF Inv
  <2>2. Ahead' /\ Covered(D)'
    <3>1. /\ Eff(flushed.manifest).wal <= Eff(flushed'.manifest).wal
          /\ Eff(flushed.manifest).last <= Eff(flushed'.manifest).last
      BY <1>a DEF FirstManifest
    <3> QED BY <1>0, <1>1, <1>a, <3>1, ManifestMoves DEF Inv
  <2>3. SnapshotsOf(D)'
    BY <1>0 DEF Inv, Disk, SnapshotsOf
  <2>4. Manifests(D)'
    BY <1>0, <1>a DEF Inv, Disk, Manifests, Complete, FirstManifest, NoManifest, Writing, Kept
  <2> QED BY <2>1, <2>2, <2>3, <2>4 DEF Disk
<1>3. Memory(D)'
  BY <1>0 DEF Inv, Memory
<1>4. Writing'
  BY <1>0, <1>a, FilesSame DEF Inv, Writing, FirstManifest
<1>5. Naming' /\ Checkpointing' /\ Acknowledged(D)'
  BY <1>0 DEF Inv, Naming, Checkpointing, Acknowledged
<1>6. Caching'
  BY <1>0, <1>a, FilesSame DEF Inv, Caching
<1> QED BY <1>1, <1>2, <1>3, <1>4, <1>5, <1>6 DEF Inv

\* The segment a checkpoint made is the last there is.
LEMMA NewSegmentIs ==
    ASSUME Types, dir.segs # {}
    PROVE  NewSegment \in dir.segs /\ NewSegment \in Nat /\ \A n \in dir.segs : n <= NewSegment
<1>1. dir.segs \in SUBSET (1..MaxSeg) /\ MaxSeg \in Nat
  BY StoreAssumption DEF Types, Dirs, SegNos, StoreAssumption
<1>2. Max(dir.segs) \in dir.segs /\ \A y \in dir.segs : Max(dir.segs) >= y
  BY <1>1, MaxIsLast
<1> QED BY <1>1, <1>2 DEF NewSegment

\* The manifest moves to the snapshot and the new segment, both flushed before.
LEMMA SwapKeeps ==
    ASSUME Journaled, NEW D \in Seq(Ops), Inv(D), Swap
    PROVE  Inv(D)'
<1>0. /\ flushed' = dir /\ flushed = dir /\ dir'.manifest = [last |-> Len(D), wal |-> NewSegment]
      /\ dir'.segs = dir.segs /\ dir'.snaps = dir.snaps
      /\ UNCHANGED <<files, mem, logged, issued, faults>>
      /\ pc = "swap" /\ pc' = "swapSync" /\ ~mem.poisoned
      /\ mem.state = D /\ mem.seq = Len(D)
  BY DEF Swap, FileSynced, Journaled, Inv, Memory, Types, Dirs, Checkpointing
<1>b. /\ NewSegment \in dir.segs /\ NewSegment \in Nat /\ NewSegment > mem.wal
      /\ files[NewSegment].header /\ files[NewSegment].frames = <<>>
      /\ \A n \in dir.segs : n <= NewSegment
      /\ NewSegment' = NewSegment
  BY <1>0, NewSegmentIs DEF Inv, Checkpointing, Kept, NewSegment
<1>c. dir'.manifest # NoManifest /\ dir.manifest # NoManifest
  BY <1>0, <1>b, ManifestTypes DEF NoManifest, Inv, SegNos, Naming
<1>a. /\ Live' = dir.segs /\ Kept' = dir.segs /\ Kept = dir.segs /\ Live = dir.segs
      /\ Eff(dir'.manifest) = dir'.manifest /\ Eff(flushed'.manifest) = dir.manifest
      /\ Eff(dir.manifest) = dir.manifest /\ Eff(flushed.manifest) = dir.manifest
  BY <1>0, <1>c DEF Live, Kept, Eff
<1>d. dir.manifest.wal \in dir.segs /\ dir.manifest.wal <= NewSegment /\ dir.manifest.last <= Len(D)
  BY <1>a, <1>b, <1>c DEF Inv, Disk, Manifests, Complete
<1>1. Types'
  <2>1. Len(D) \in 0..MaxOps /\ NewSegment \in 0..MaxSeg
    <3>1. Len(D) \in Nat /\ Len(D) <= issued /\ issued \in 0..MaxOps /\ MaxOps \in Nat
      BY StoreAssumption DEF Inv, Memory, Types, StoreAssumption
    <3>2. NewSegment \in SegNos
      BY <1>b, ManifestTypes DEF Inv
    <3> QED BY <3>1, <3>2, StoreAssumption DEF SegNos, StoreAssumption
  <2> QED BY <1>0, <2>1 DEF Inv, Types, Dirs, Swap
<1>2. Disk(D)'
  <2>1. RecordsOf(D)' /\ Ordered' /\ TornLast' /\ Headless'
    BY <1>0, <1>a, FilesStay DEF Inv
  <2>2. Ahead' /\ Covered(D)'
    BY <1>0, <1>1, <1>a, ManifestMoves, ManifestTypes DEF Inv, Disk
  <2>3. SnapshotsOf(D)'
    BY <1>0 DEF Inv, Disk, SnapshotsOf
  <2>4. Manifests(D)'
    <3>1. Complete(dir.manifest)'
      BY <1>0, <1>a, <1>b DEF Complete, Inv, Checkpointing
    <3>2. Complete(flushed.manifest)'
      BY <1>0, <1>a DEF Complete, Inv, Disk, Manifests
    <3> QED BY <1>0, <1>a, <1>c, <1>d, <3>1, <3>2 DEF Manifests, Complete
  <2> QED BY <2>1, <2>2, <2>3, <2>4 DEF Disk
<1>3. Memory(D)'
  BY <1>0 DEF Inv, Memory
<1>4. Writing'
  BY <1>0, <1>a, FilesSame DEF Inv, Writing
<1>5. Naming' /\ Acknowledged(D)'
  BY <1>0, <1>c DEF Inv, Naming, Acknowledged
<1>6. Checkpointing'
  BY <1>0, <1>a, <1>b DEF Inv, Checkpointing
<1>7. Caching'
  <2> SUFFICES ASSUME "power" \in faults PROVE Caching'
    BY <1>0 DEF Caching
  <2>1. \A n \in SegNos : files[n].synced = Len(files[n].frames) /\ \A i \in Wholes(n) : ~(i > files[n].synced)
    BY <1>0, AllSynced DEF Inv
  <2>2. Live' \subseteq SegNos /\ mem.wal \in SegNos
    BY <1>0, <1>a, ManifestTypes DEF Inv, Writing
  <2> QED BY <1>0, <1>a, <2>1, <2>2, FilesSame DEF Caching
<1> QED BY <1>1, <1>2, <1>3, <1>4, <1>5, <1>6, <1>7 DEF Inv

\* The directory is flushed: what is seen is what is kept.
LEMMA SyncDirKeeps ==
    ASSUME Journaled, NEW D \in Seq(Ops), Inv(D), SyncDir
    PROVE  Inv(D)'
<1>0. /\ flushed' = dir /\ UNCHANGED <<dir, files, mem, logged, issued, faults>>
      /\ pc \in {"attachSync", "publishSync", "snapSync", "segSync", "swapSync"}
      /\ pc = "attachSync" => pc' = "publish"
      /\ pc = "publishSync" => pc' = "idle"
      /\ pc = "snapSync" => pc' = "seg"
      /\ pc = "segSync" => pc' = "swap"
      /\ pc = "swapSync" => pc' = "sweep"
      /\ pc' \in {"publish", "idle", "seg", "swap", "sweep"}
      /\ ~mem.poisoned
  <2>1. pc \in {"attachSync", "publishSync", "snapSync", "segSync", "swapSync"} /\ pc' = AfterSync[pc]
    BY DEF SyncDir, AfterSync
  <2>2. pc = "attachSync" => Ready = "publish"
    BY DEF Inv, Naming, Ready
  <2>3. ~mem.poisoned
    BY <2>1 DEF Inv, Memory, Types
  <2> QED BY <2>1, <2>2, <2>3 DEF SyncDir, AfterSync
<1>a. /\ Live' = dir.segs /\ Kept' = dir.segs /\ Kept \subseteq Kept' /\ Live' \subseteq Live
      /\ Eff(dir'.manifest) = Eff(dir.manifest) /\ Eff(flushed'.manifest) = Eff(dir.manifest)
      /\ NewSegment' = NewSegment
  BY <1>0 DEF Live, Kept, Eff, NewSegment
<1>1. Types'
  BY <1>0 DEF Inv, Types
<1>2. Disk(D)'
  <2>1. RecordsOf(D)' /\ Ordered' /\ TornLast' /\ Headless'
    BY <1>0, <1>a, FilesStay DEF Inv
  <2>2. Ahead' /\ Covered(D)'
    BY <1>0, <1>1, <1>a, ManifestMoves DEF Inv, Disk, Manifests
  <2>3. SnapshotsOf(D)'
    BY <1>0 DEF Inv, Disk, SnapshotsOf
  <2>4. Manifests(D)'
    BY <1>0, <1>a, ManifestTypes DEF Inv, Disk, Manifests, Complete, Kept
  <2> QED BY <2>1, <2>2, <2>3, <2>4 DEF Disk
<1>3. Memory(D)'
  BY <1>0 DEF Inv, Memory
<1>4. Writing'
  <2>1. mem.wal <= Eff(flushed'.manifest).wal /\ mem.wal \in dir.segs
    BY <1>0, <1>a, ManifestTypes DEF Inv, Writing, Disk, Manifests, Types, Kept
  <2> QED BY <1>0, <1>a, <2>1, FilesSame DEF Inv, Writing
<1>5. Naming' /\ Acknowledged(D)'
  BY <1>0 DEF Inv, Naming, Acknowledged, FirstManifest, NoManifest
<1>6. Checkpointing'
  BY <1>0, <1>a DEF Inv, Checkpointing, Kept
<1>7. Caching'
  <2> SUFFICES ASSUME "power" \in faults PROVE Caching'
    BY <1>0 DEF Caching
  <2>1. \A n \in SegNos : ~(n = Eff(flushed'.manifest).wal /\ n = Eff(dir'.manifest).wal) =>
                  files[n].synced = Len(files[n].frames)
    BY <1>a DEF Inv, Caching
  <2>2. \A n \in Live' : \A i \in Wholes(n) : i > files[n].synced =>
              /\ Rec(n, i).seq > Len(logged)
              /\ \A k \in DOMAIN dir.snaps : k < Rec(n, i).seq
    BY <1>a DEF Inv, Caching
  <2>3. files[mem.wal].synced = Len(files[mem.wal].frames)
    BY <1>0 DEF Inv, Caching
  <2>4. pc' # "sweep" => mem.wal = Eff(dir.manifest).wal
    BY <1>0 DEF Inv, Caching
  <2> QED BY <1>0, <1>a, <2>1, <2>2, <2>3, <2>4, FilesSame DEF Caching
<1> QED BY <1>1, <1>2, <1>3, <1>4, <1>5, <1>6, <1>7 DEF Inv

\* The sweep takes only what the flushed manifest does not name.
LEMMA SweepKeeps ==
    ASSUME NEW D \in Seq(Ops), Inv(D), Sweep
    PROVE  Inv(D)'
<1>0. PICK segs \in SUBSET dir.segs, snaps \in SUBSET DOMAIN dir.snaps :
         /\ NewSegment \in segs /\ mem.seq \in snaps
         /\ dir' = [dir EXCEPT !.segs = segs, !.snaps = [n \in snaps |-> @[n]]]
  BY DEF Sweep
<1>b. /\ pc = "sweep" /\ pc' = "idle" /\ mem' = [mem EXCEPT !.wal = NewSegment, !.since = 0]
      /\ UNCHANGED <<flushed, files, logged, issued, faults>>
      /\ ~mem.poisoned /\ mem.state = D /\ mem.seq = Len(D) /\ flushed = dir
      /\ dir.manifest = [last |-> Len(D), wal |-> NewSegment]
      /\ files[NewSegment].header /\ files[NewSegment].frames = <<>>
  BY DEF Sweep, Inv, Memory, Types, Checkpointing
<1>c. /\ dir'.manifest = dir.manifest /\ dir'.segs = segs /\ dir'.snaps = [n \in snaps |-> dir.snaps[n]]
      /\ mem'.wal = NewSegment /\ mem'.state = D /\ mem'.seq = Len(D) /\ ~mem'.poisoned
  BY <1>0, <1>b DEF Inv, Types, Dirs
<1>d. /\ NewSegment \in dir.segs /\ NewSegment \in SegNos /\ NewSegment \in Nat
      /\ \A n \in dir.segs : n <= NewSegment
  BY <1>0, NewSegmentIs, ManifestTypes DEF Inv
<1>e. dir.manifest # NoManifest
  BY <1>b DEF Inv, Naming
<1>a. /\ Live' = dir.segs /\ Kept' = segs /\ Live = dir.segs /\ Kept = dir.segs
      /\ Eff(dir'.manifest) = dir.manifest /\ Eff(flushed'.manifest) = dir.manifest
      /\ Eff(dir.manifest) = dir.manifest /\ Eff(flushed.manifest) = dir.manifest
  BY <1>0, <1>b, <1>c, <1>e DEF Live, Kept, Eff
<1>1. Types'
  <2>1. dir'.snaps \in Snaps
    <3>1. \A k \in DOMAIN dir.snaps : dir.snaps[k] \in Seq(Ops)
      BY FirstOf DEF Inv, Disk, SnapshotsOf
    <3>2. dir'.snaps \in [snaps -> Seq(Ops)]
      BY <1>0, <1>c, <3>1
    <3>3. snaps \in SUBSET (0..MaxOps)
      BY StoreAssumption DEF Inv, Memory, Types, Disk, SnapshotsOf, StoreAssumption
    <3> QED BY <3>2, <3>3, SnapsAre
  <2>2. dir' \in Dirs
    BY <1>0, <1>c, <2>1 DEF Inv, Types, Dirs
  <2>3. NewSegment \in 0..MaxSeg
    BY <1>d, StoreAssumption DEF SegNos, StoreAssumption
  <2> QED BY <1>b, <2>2, <2>3 DEF Inv, Types
<1>2. Disk(D)'
  <2>1. RecordsOf(D)' /\ Ordered' /\ TornLast' /\ Headless'
    BY <1>a, <1>b, FilesStay DEF Inv
  <2>2. Ahead' /\ Covered(D)'
    <3>1. /\ Eff(flushed.manifest).wal <= Eff(flushed'.manifest).wal
          /\ Eff(flushed.manifest).last <= Eff(flushed'.manifest).last
          /\ Len(D) <= Eff(flushed'.manifest).last
      BY <1>a, <1>b, <1>d
    <3> QED BY <1>1, <1>a, <1>b, <3>1, ManifestMoves DEF Inv
  <2>3. SnapshotsOf(D)'
    <3>1. DOMAIN dir'.snaps = snaps /\ \A k \in snaps : dir'.snaps[k] = dir.snaps[k]
      BY <1>c
    <3>2. \A d \in {dir, flushed} : \A k \in DOMAIN d.snaps :
             k \in 0..Len(D) /\ d.snaps[k] = SubSeq(D, 1, k)
      BY DEF Inv, Disk, SnapshotsOf
    <3> QED BY <1>0, <1>b, <3>1, <3>2 DEF SnapshotsOf
  <2>4. Manifests(D)'
    <3>1. Complete(dir.manifest)' /\ Complete(flushed.manifest)'
      BY <1>0, <1>a, <1>b, <1>c DEF Complete
    <3> QED BY <1>a, <1>b, <1>c, <1>d, <1>e, <3>1 DEF Manifests
  <2> QED BY <2>1, <2>2, <2>3, <2>4 DEF Disk
<1>3. Memory(D)'
  BY <1>b, <1>c DEF Inv, Memory
<1>4. Writing'
  <2>1. Wholes(NewSegment) = DOMAIN files[NewSegment].frames
    BY <1>b DEF Wholes
  <2>2. \A n \in Live' : ~(n > NewSegment)
    BY <1>a, <1>d, ManifestTypes DEF Inv, SegNos
  <2>3. NewSegment \in Kept' /\ NewSegment <= Eff(flushed'.manifest).wal
    BY <1>0, <1>a, <1>b, <1>d
  <2> HIDE DEF NewSegment
  <2> QED BY <1>b, <1>c, <2>1, <2>2, <2>3, FilesSame DEF Writing
<1>5. Naming' /\ Acknowledged(D)' /\ Checkpointing'
  BY <1>b, <1>c, <1>e DEF Inv, Naming, Acknowledged, Checkpointing
<1>6. Caching'
  <2> SUFFICES ASSUME "power" \in faults PROVE Caching'
    BY <1>b DEF Caching
  <2>1. files[NewSegment].synced = Len(files[NewSegment].frames)
    BY <1>b, <1>d DEF Inv, Types
  <2>2. \A n \in Live : \A i \in Wholes(n) : i > files[n].synced =>
              /\ Rec(n, i).seq > Len(logged)
              /\ \A k \in DOMAIN dir.snaps : k < Rec(n, i).seq
    BY DEF Inv, Caching
  <2>3. DOMAIN dir'.snaps \subseteq DOMAIN dir.snaps
    BY <1>0, <1>c
  <2> QED BY <1>a, <1>b, <1>c, <2>1, <2>2, <2>3, FilesSame DEF Inv, Caching
<1> QED BY <1>1, <1>2, <1>3, <1>4, <1>5, <1>6 DEF Inv

\* Before the first manifest nothing was written.
LEMMA NothingYet ==
    ASSUME NEW D \in Seq(Ops), Inv(D), dir.manifest = NoManifest
    PROVE  /\ D = <<>> /\ Len(D) = 0 /\ flushed.manifest = NoManifest
           /\ Eff(dir.manifest) = FirstManifest /\ Eff(flushed.manifest) = FirstManifest
           /\ \A n \in Live : Wholes(n) = {}
<1>1. D = <<>> /\ flushed.manifest = NoManifest
  BY DEF Inv, Disk, Manifests
<1>2. \A n \in Live : \A i \in Wholes(n) : FALSE
  BY <1>1 DEF Inv, Disk, RecordsOf
<1> QED BY <1>1, <1>2 DEF Eff

\* A segment without a header is removed only before the first manifest.
LEMMA TornIsFirst ==
    ASSUME NEW D \in Seq(Ops), Inv(D), pc = "attach", mem.wal \notin dir.segs \/ ~files[mem.wal].header
    PROVE  dir.manifest = NoManifest /\ mem.wal = 1
<1>1. mem.wal = Eff(dir.manifest).wal
  BY DEF Inv, Writing
<1>2. dir.manifest = NoManifest
  <2> SUFFICES ASSUME dir.manifest # NoManifest PROVE FALSE
    OBVIOUS
  <2>1. mem.wal \in Kept /\ files[mem.wal].header
    BY <1>1 DEF Eff, Inv, Disk, Manifests, Complete
  <2> QED BY <2>1 DEF Kept
<1> QED BY <1>1, <1>2 DEF Eff, FirstManifest

\* The torn first segment goes: nothing was written in it.
LEMMA RemoveTornSegmentKeeps ==
    ASSUME NEW D \in Seq(Ops), Inv(D), RemoveTornSegment
    PROVE  Inv(D)'
<1>0. /\ pc = "attach" /\ UNCHANGED <<flushed, files, pc, mem, logged, issued, faults>>
      /\ dir'.segs = dir.segs \ {mem.wal} /\ dir'.manifest = dir.manifest /\ dir'.snaps = dir.snaps
      /\ dir' \in Dirs
  BY DEF RemoveTornSegment, Inv, Types, Dirs
<1>a. dir.manifest = NoManifest
  BY TornIsFirst DEF RemoveTornSegment
<1>b. /\ D = <<>> /\ Len(D) = 0 /\ flushed.manifest = NoManifest
      /\ Eff(dir.manifest) = FirstManifest /\ Eff(flushed.manifest) = FirstManifest
      /\ Live' \subseteq Live /\ Eff(dir'.manifest) = FirstManifest /\ Eff(flushed'.manifest) = FirstManifest
  BY <1>0, <1>a, NothingYet DEF Live
<1>1. Types'
  BY <1>0 DEF Inv, Types
<1>2. Disk(D)'
  <2>1. RecordsOf(D)' /\ Ordered' /\ TornLast' /\ Headless'
    BY <1>0, <1>b, FilesStay DEF Inv
  <2>2. Ahead' /\ Covered(D)'
    <3>1. /\ Eff(flushed.manifest).wal <= Eff(flushed'.manifest).wal
          /\ Eff(flushed.manifest).last <= Eff(flushed'.manifest).last
          /\ Len(D) <= Eff(flushed'.manifest).last
      BY <1>b DEF FirstManifest
    <3> QED BY <1>0, <1>1, <1>b, <3>1, ManifestMoves DEF Inv
  <2>3. SnapshotsOf(D)'
    BY <1>0 DEF Inv, Disk, SnapshotsOf
  <2>4. Manifests(D)'
    BY <1>0, <1>a, <1>b DEF Manifests, Complete, FirstManifest
  <2> QED BY <2>1, <2>2, <2>3, <2>4 DEF Disk
<1>3. Memory(D)' /\ Naming' /\ Checkpointing' /\ Acknowledged(D)'
  BY <1>0 DEF Inv, Memory, Naming, Checkpointing, Acknowledged
<1>4. Writing'
  BY <1>0, <1>b DEF Inv, Writing
<1>5. Caching'
  BY <1>0, <1>b, FilesSame DEF Inv, Caching
<1> QED BY <1>1, <1>2, <1>3, <1>4, <1>5 DEF Inv

\* A segment that appears has no frame yet.
LEMMA NewFile ==
    ASSUME NEW D \in Seq(Ops), Types, Types', Disk(D), NEW n \in SegNos,
           files'[n].frames = <<>>, \A m \in SegNos \ {n} : files'[m] = files[m],
           n \in Live => Wholes(n) = {},
           Live' \subseteq Live \cup {n}, Kept \ {n} \subseteq Kept',
           Eff(flushed'.manifest) = Eff(flushed.manifest)
    PROVE  RecordsOf(D)' /\ Ordered' /\ TornLast' /\ Headless' /\ Ahead' /\ Covered(D)'
<1>1. \A m \in SegNos \ {n} : Wholes(m)' = Wholes(m) /\ \A i : Rec(m, i)' = Rec(m, i)
  BY DEF Wholes, Rec
<1>2. Wholes(n)' = {}
  BY DEF Wholes
<1>3. Live \subseteq SegNos /\ Live' \subseteq SegNos /\ Kept \subseteq Live
  BY ManifestTypes
<1>4. RecordsOf(D)'
  <2> SUFFICES ASSUME NEW m \in Live', NEW i \in Wholes(m)'
               PROVE  Rec(m, i)'.seq \in 1..Len(D) /\ Rec(m, i)'.op = D[Rec(m, i)'.seq]
    BY DEF RecordsOf
  <2>1. m # n /\ m \in Live /\ m \in SegNos
    BY <1>2, <1>3
  <2> QED BY <1>1, <2>1 DEF Disk, RecordsOf
<1>5. Ordered'
  <2> SUFFICES ASSUME NEW m \in Live', NEW k \in Live', NEW i \in Wholes(m)', NEW j \in Wholes(k)',
                      m < k \/ (m = k /\ i < j)
               PROVE  Rec(m, i)'.seq < Rec(k, j)'.seq
    BY DEF Ordered
  <2>1. m # n /\ m \in Live /\ k # n /\ k \in Live /\ m \in SegNos /\ k \in SegNos
    BY <1>2, <1>3
  <2> QED BY <1>1, <2>1 DEF Disk, Ordered
<1>6. TornLast' /\ Headless'
  <2>1. \A m \in SegNos : m = n \/ files'[m] = files[m]
    OBVIOUS
  <2>2. TornLast'
    <3> SUFFICES ASSUME NEW m \in SegNos, NEW i \in DOMAIN files'[m].frames, i < Len(files'[m].frames)
                 PROVE  files'[m].frames[i] # Torn
      BY DEF TornLast
    <3>1. m # n
      OBVIOUS
    <3> QED BY <2>1, <3>1 DEF Disk, TornLast
  <2> QED BY <2>1, <2>2 DEF Disk, Headless
<1>7. Ahead'
  <2> SUFFICES ASSUME NEW m \in Live', m > Eff(flushed'.manifest).wal
               PROVE  files'[m].frames = <<>>
    BY DEF Ahead
  <2>1. m = n \/ (m \in Live /\ m \in SegNos \ {n})
    BY <1>3
  <2> QED BY <2>1 DEF Disk, Ahead
<1>8. Covered(D)'
  <2> SUFFICES ASSUME NEW q \in (Eff(flushed'.manifest).last + 1)..Len(D)
               PROVE  \E m \in Kept' : \E i \in Wholes(m)' : Rec(m, i)'.seq = q
    BY DEF Covered
  <2>1. PICK m \in Kept : \E i \in Wholes(m) : Rec(m, i).seq = q
    BY DEF Disk, Covered
  <2>2. m # n /\ m \in Kept' /\ m \in SegNos
    BY <1>3, <2>1
  <2> QED BY <1>1, <2>1, <2>2
<1> QED BY <1>4, <1>5, <1>6, <1>7, <1>8

\* The types of a file just made.
LEMMA FreshFile ==
    ASSUME Types, NEW n \in SegNos, NEW h \in BOOLEAN,
           files' = [files EXCEPT ![n] = [header |-> h, frames |-> <<>>, synced |-> 0]]
    PROVE  /\ files' \in [SegNos -> [header : BOOLEAN, frames : Seq(Record \cup {Torn}), synced : Nat]]
           /\ files'[n].header = h /\ files'[n].frames = <<>> /\ files'[n].synced = 0
           /\ Wholes(n)' = {}
           /\ \A m \in SegNos \ {n} : files'[m] = files[m]
           /\ \A m \in SegNos : files'[m].synced <= Len(files'[m].frames)
<1> DEFINE new == [header |-> h, frames |-> <<>>, synced |-> 0]
<1>1. files \in [SegNos -> [header : BOOLEAN, frames : Seq(Record \cup {Torn}), synced : Nat]]
  BY DEF Types
<1>2. new \in [header : BOOLEAN, frames : Seq(Record \cup {Torn}), synced : Nat]
      /\ new.header = h /\ new.frames = <<>> /\ new.synced = 0
  OBVIOUS
<1> HIDE DEF new
<1>3. files' = [files EXCEPT ![n] = new]
  BY DEF new
<1>4. /\ files'[n] = new /\ \A m \in SegNos \ {n} : files'[m] = files[m]
      /\ files' \in [SegNos -> [header : BOOLEAN, frames : Seq(Record \cup {Torn}), synced : Nat]]
  BY <1>1, <1>2, <1>3
<1>5. \A m \in SegNos \ {n} : files'[m].synced <= Len(files'[m].frames)
  BY <1>4 DEF Types
<1>6. files'[n].synced <= Len(files'[n].frames)
  BY <1>2, <1>4
<1>7. Wholes(n)' = {}
  BY <1>2, <1>4 DEF Wholes
<1> QED BY <1>2, <1>4, <1>5, <1>6, <1>7

\* The first segment is made.
LEMMA CreateFirstKeeps ==
    ASSUME Journaled, NEW D \in Seq(Ops), Inv(D), CreateFirst
    PROVE  Inv(D)'
<1>a. dir.manifest = NoManifest /\ mem.wal = 1 /\ 1 \in SegNos
  BY TornIsFirst, StoreAssumption DEF CreateFirst, SegNos, StoreAssumption
<1>0. /\ pc = "attach" /\ pc' = "attachSync" /\ UNCHANGED <<mem, logged, issued, faults>>
      /\ dir'.segs = dir.segs \cup {1} /\ dir'.manifest = NoManifest /\ dir'.snaps = dir.snaps
      /\ dir' \in Dirs /\ flushed' = dir'
      /\ files'[1].header /\ files'[1].frames = <<>> /\ files'[1].synced = 0
      /\ \A m \in SegNos \ {1} : files'[m] = files[m]
      /\ files' \in [SegNos -> [header : BOOLEAN, frames : Seq(Record \cup {Torn}), synced : Nat]]
      /\ \A m \in SegNos : files'[m].synced <= Len(files'[m].frames)
      /\ ~mem.poisoned
  <2>1. /\ pc = "attach" /\ pc' = "attachSync" /\ UNCHANGED <<mem, logged, issued, faults>>
        /\ dir' = [dir EXCEPT !.segs = @ \cup {1}] /\ flushed' = dir'
        /\ files' = [files EXCEPT ![1] = [header |-> TRUE, frames |-> <<>>, synced |-> 0]]
    BY <1>a DEF CreateFirst, CreateSegment, FileSynced, Journaled
  <2>2. /\ dir \in Dirs /\ ~mem.poisoned
    BY <2>1 DEF Inv, Types, Memory
  <2>3. /\ dir'.segs = dir.segs \cup {1} /\ dir'.manifest = NoManifest /\ dir'.snaps = dir.snaps
        /\ dir' \in Dirs
    BY <1>a, <2>1, <2>2 DEF Dirs
  <2>5. /\ files' \in [SegNos -> [header : BOOLEAN, frames : Seq(Record \cup {Torn}), synced : Nat]]
        /\ files'[1].header /\ files'[1].frames = <<>> /\ files'[1].synced = 0
        /\ \A m \in SegNos \ {1} : files'[m] = files[m]
        /\ \A m \in SegNos : files'[m].synced <= Len(files'[m].frames)
    BY <1>a, <2>1, FreshFile DEF Inv
  <2> QED BY <2>1, <2>2, <2>3, <2>5
<1>b. /\ D = <<>> /\ Len(D) = 0 /\ flushed.manifest = NoManifest
      /\ Eff(dir.manifest) = FirstManifest /\ Eff(flushed.manifest) = FirstManifest
      /\ \A n \in Live : Wholes(n) = {}
      /\ Live' = dir.segs \cup {1} /\ Kept' = dir.segs \cup {1} /\ Kept \subseteq Kept' /\ dir.segs \subseteq Live
      /\ Live' \subseteq Live \cup {1}
      /\ Eff(dir'.manifest) = FirstManifest /\ Eff(flushed'.manifest) = FirstManifest
  BY <1>0, <1>a, NothingYet DEF Live, Kept, Eff
<1>1. Types'
  BY <1>0 DEF Inv, Types
<1>2. Disk(D)'
  <2>1. RecordsOf(D)' /\ Ordered' /\ TornLast' /\ Headless' /\ Ahead' /\ Covered(D)'
    <3>1. Types /\ Disk(D)
      BY DEF Inv
    <3>2. files'[1].frames = <<>> /\ (1 \in Live => Wholes(1) = {}) /\ Kept \ {1} \subseteq Kept'
          /\ Eff(flushed'.manifest) = Eff(flushed.manifest)
      BY <1>0, <1>b
    <3> QED BY <1>0, <1>1, <1>a, <1>b, <3>1, <3>2, NewFile
  <2>2. SnapshotsOf(D)'
    BY <1>0 DEF Inv, Disk, SnapshotsOf
  <2>3. Manifests(D)'
    BY <1>0, <1>b DEF Manifests, Complete, FirstManifest
  <2> QED BY <2>1, <2>2, <2>3 DEF Disk
<1>3. Memory(D)' /\ Naming' /\ Checkpointing' /\ Acknowledged(D)'
  BY <1>0, <1>a DEF Inv, Memory, Naming, Checkpointing, Acknowledged
<1>c. \A m \in Live' : m = 1 \/ (m \in Live /\ m \in SegNos \ {1} /\ Wholes(m)' = {})
  BY <1>0, <1>b, ManifestTypes DEF Inv, Wholes
<1>d. Wholes(1)' = {}
  BY <1>0 DEF Wholes
<1>4. Writing'
  <2>1. \A n \in Live' : n > 1 => files'[n].frames = <<>>
    <3> SUFFICES ASSUME NEW n \in Live', n > 1 PROVE files'[n].frames = <<>>
      OBVIOUS
    <3>1. n \in Live /\ n \in SegNos \ {1}
      BY <1>c
    <3>2. files[n].frames = <<>>
      BY <1>b, <3>1 DEF Inv, Disk, Ahead, FirstManifest
    <3> QED BY <1>0, <3>1, <3>2
  <2>2. mem'.wal = 1 /\ 1 \in Kept' /\ files'[1].header /\ Eff(flushed'.manifest).wal = 1
        /\ DOMAIN files'[1].frames = {}
    BY <1>0, <1>a, <1>b DEF FirstManifest
  <2>3. Wholes(mem.wal)' = DOMAIN files'[mem'.wal].frames
    BY <2>2 DEF Wholes
  <2> QED BY <1>0, <2>1, <2>2, <2>3 DEF Writing
<1>5. Caching'
  <2> SUFFICES ASSUME "power" \in faults PROVE Caching'
    BY <1>0 DEF Caching
  <2>1. \A n \in SegNos : ~(n = 1) => files'[n].synced = Len(files'[n].frames)
    BY <1>0, <1>b DEF Inv, Caching, FirstManifest
  <2>2. \A n \in Live' : Wholes(n)' = {}
    BY <1>c, <1>d
  <2> QED BY <1>0, <1>a, <1>b, <2>1, <2>2 DEF Caching, FirstManifest
<1> QED BY <1>1, <1>2, <1>3, <1>4, <1>5 DEF Inv

\* The first segment is cut short in its header.
LEMMA CreateFirstCutKeeps ==
    ASSUME NEW D \in Seq(Ops), Inv(D), CreateFirstCut
    PROVE  Inv(D)'
<1>a. dir.manifest = NoManifest /\ mem.wal = 1 /\ 1 \in SegNos
  BY TornIsFirst, StoreAssumption DEF CreateFirstCut, SegNos, StoreAssumption
<1>0. /\ pc = "attach" /\ pc' = "down" /\ mem' = NoProcess /\ UNCHANGED <<flushed, logged, issued, faults>>
      /\ dir'.segs = dir.segs \cup {1} /\ dir'.manifest = NoManifest /\ dir'.snaps = dir.snaps
      /\ dir' \in Dirs
      /\ files'[1].frames = <<>> /\ files'[1].synced = 0 /\ Wholes(1)' = {}
      /\ \A m \in SegNos \ {1} : files'[m] = files[m]
      /\ files' \in [SegNos -> [header : BOOLEAN, frames : Seq(Record \cup {Torn}), synced : Nat]]
      /\ \A m \in SegNos : files'[m].synced <= Len(files'[m].frames)
  <2>1. /\ pc = "attach" /\ pc' = "down" /\ mem' = NoProcess /\ UNCHANGED <<flushed, logged, issued, faults>>
        /\ dir' = [dir EXCEPT !.segs = @ \cup {1}]
        /\ files' = [files EXCEPT ![1] = [header |-> FALSE, frames |-> <<>>, synced |-> 0]]
    BY <1>a DEF CreateFirstCut, TornSegment, NoFile
  <2>2. /\ dir'.segs = dir.segs \cup {1} /\ dir'.manifest = NoManifest /\ dir'.snaps = dir.snaps
        /\ dir' \in Dirs
    BY <1>a, <2>1 DEF Inv, Types, Dirs
  <2> QED BY <1>a, <2>1, <2>2, FreshFile DEF Inv
<1>b. /\ D = <<>> /\ Len(D) = 0 /\ flushed.manifest = NoManifest
      /\ Eff(dir.manifest) = FirstManifest /\ Eff(flushed.manifest) = FirstManifest
      /\ \A n \in Live : Wholes(n) = {}
      /\ Kept \subseteq Kept' /\ Live' \subseteq Live \cup {1}
      /\ Eff(dir'.manifest) = FirstManifest /\ Eff(flushed'.manifest) = FirstManifest
  BY <1>0, <1>a, NothingYet DEF Live, Kept, Eff
<1>1. Types'
  BY <1>0, StoreAssumption DEF Inv, Types, NoProcess, StoreAssumption
<1>2. Disk(D)'
  <2>1. RecordsOf(D)' /\ Ordered' /\ TornLast' /\ Headless' /\ Ahead' /\ Covered(D)'
    <3>1. Types /\ Disk(D)
      BY DEF Inv
    <3>2. files'[1].frames = <<>> /\ (1 \in Live => Wholes(1) = {}) /\ Kept \ {1} \subseteq Kept'
          /\ Eff(flushed'.manifest) = Eff(flushed.manifest)
      BY <1>0, <1>b
    <3> QED BY <1>0, <1>1, <1>a, <1>b, <3>1, <3>2, NewFile
  <2>2. SnapshotsOf(D)'
    BY <1>0 DEF Inv, Disk, SnapshotsOf
  <2>3. Manifests(D)'
    BY <1>0, <1>b DEF Manifests, Complete, FirstManifest
  <2> QED BY <2>1, <2>2, <2>3 DEF Disk
<1>3. Memory(D)' /\ Naming' /\ Checkpointing' /\ Acknowledged(D)' /\ Writing'
  BY <1>0, <1>a DEF Inv, Memory, Naming, Checkpointing, Acknowledged, Writing, NoProcess, Types
<1>4. Caching'
  <2> SUFFICES ASSUME "power" \in faults PROVE Caching'
    BY <1>0 DEF Caching
  <2>1. \A n \in SegNos : ~(n = 1) => files'[n].synced = Len(files'[n].frames)
    BY <1>0, <1>b DEF Inv, Caching, FirstManifest
  <2>2. \A n \in Live' : Wholes(n)' = {}
    BY <1>0, <1>b, ManifestTypes DEF Inv, Wholes
  <2> QED BY <1>0, <1>a, <1>b, <2>1, <2>2 DEF Caching, FirstManifest
<1> QED BY <1>1, <1>2, <1>3, <1>4 DEF Inv

\* Where a checkpoint begins, the directory is flushed and the next segment is new.
LEMMA NextSegmentIs ==
    ASSUME NEW D \in Seq(Ops), Inv(D), pc = "seg", NextSegment <= MaxSeg
    PROVE  /\ NextSegment \in SegNos /\ NextSegment > mem.wal /\ NextSegment \notin Live
           /\ \A n \in dir.segs : n < NextSegment
           /\ flushed = dir /\ Live = dir.segs /\ Kept = dir.segs
           /\ mem.wal \in dir.segs /\ mem.wal \in SegNos /\ mem.wal \in Nat
           /\ ~mem.poisoned /\ mem.state = D /\ mem.seq = Len(D) /\ dir.manifest # NoManifest
           /\ Eff(dir.manifest) = dir.manifest /\ Eff(flushed.manifest) = dir.manifest
<1>1. flushed = dir /\ Live = dir.segs /\ Kept = dir.segs
  BY DEF Inv, Checkpointing, Live, Kept
<1>2. mem.wal \in dir.segs /\ mem.wal \in SegNos /\ mem.wal \in Nat
  BY <1>1, ManifestTypes DEF Inv, Writing, SegNos
<1>3. dir.segs \cup {mem.wal} = dir.segs /\ dir.segs \in SUBSET (1..MaxSeg) /\ MaxSeg \in Nat
  BY <1>2, StoreAssumption DEF Inv, Types, Dirs, SegNos, StoreAssumption
<1>4. NextSegment = Max(dir.segs) + 1 /\ Max(dir.segs) \in dir.segs /\ \A n \in dir.segs : Max(dir.segs) >= n
  <2>1. Max(dir.segs) \in dir.segs /\ \A n \in dir.segs : Max(dir.segs) >= n
    BY <1>2, <1>3, MaxIsLast
  <2> QED BY <1>3, <2>1 DEF NextSegment
<1>5. ~mem.poisoned /\ mem.state = D /\ mem.seq = Len(D) /\ dir.manifest # NoManifest
  BY DEF Inv, Memory, Types, Naming
<1>6. NextSegment \in SegNos /\ \A n \in dir.segs : n < NextSegment
  BY <1>3, <1>4 DEF SegNos
<1> QED BY <1>1, <1>2, <1>5, <1>6, <1>3 DEF Eff, SegNos

\* The checkpoint's segment lies beyond every other.
LEMMA StartSegmentKeeps ==
    ASSUME Journaled, NEW D \in Seq(Ops), Inv(D), StartSegment
    PROVE  Inv(D)'
<1>n. PICK N : N = NextSegment
  OBVIOUS
<1>a. /\ N \in SegNos /\ N > mem.wal /\ N \notin Live
      /\ \A n \in dir.segs : n < N
      /\ flushed = dir /\ Live = dir.segs /\ Kept = dir.segs
      /\ mem.wal \in dir.segs /\ mem.wal \in SegNos /\ mem.wal \in Nat
      /\ ~mem.poisoned /\ mem.state = D /\ mem.seq = Len(D) /\ dir.manifest # NoManifest
      /\ Eff(dir.manifest) = dir.manifest /\ Eff(flushed.manifest) = dir.manifest
      /\ pc = "seg" /\ pc' = "segSync" /\ UNCHANGED <<mem, logged, issued, faults>>
  BY <1>n, NextSegmentIs DEF StartSegment
<1>c. /\ dir' = [dir EXCEPT !.segs = @ \cup {N}] /\ flushed' = dir'
      /\ files' = [files EXCEPT ![N] = [header |-> TRUE, frames |-> <<>>, synced |-> 0]]
  BY <1>n DEF StartSegment, CreateSegment, FileSynced, Journaled
<1>0. /\ dir'.segs = dir.segs \cup {N} /\ dir'.manifest = dir.manifest /\ dir'.snaps = dir.snaps
      /\ dir' \in Dirs
  BY <1>a, <1>c DEF Inv, Types, Dirs
<1>b. /\ Live' = dir.segs \cup {N} /\ Kept' = dir.segs \cup {N} /\ Kept \subseteq Kept'
      /\ Eff(dir'.manifest) = dir.manifest /\ Eff(flushed'.manifest) = dir.manifest
  BY <1>0, <1>a, <1>c DEF Live, Kept, Eff
<1>d. /\ files' \in [SegNos -> [header : BOOLEAN, frames : Seq(Record \cup {Torn}), synced : Nat]]
      /\ files'[N].header /\ files'[N].frames = <<>> /\ files'[N].synced = 0 /\ Wholes(N)' = {}
      /\ \A m \in SegNos \ {N} : files'[m] = files[m]
      /\ \A m \in SegNos : files'[m].synced <= Len(files'[m].frames)
  BY <1>a, <1>c, FreshFile DEF Inv
<1>e. /\ \A m \in SegNos \ {N} : Wholes(m)' = Wholes(m) /\ \A i : Rec(m, i)' = Rec(m, i)
      /\ mem.wal \in SegNos \ {N}
  BY <1>a, <1>d DEF Wholes, Rec
<1>f. NewSegment' = N
  <2>1. dir'.segs # {} /\ Types'
    BY <1>0, <1>a, <1>c, <1>d DEF Inv, Types
  <2>2. Max(dir'.segs) \in dir'.segs /\ \A n \in dir'.segs : Max(dir'.segs) >= n
    <3>1. dir'.segs \in SUBSET (1..MaxSeg) /\ MaxSeg \in Nat
      BY <2>1, StoreAssumption DEF Types, Dirs, SegNos, StoreAssumption
    <3> QED BY <2>1, <3>1, MaxIsLast
  <2>3. PICK M : M = Max(dir'.segs)
    OBVIOUS
  <2>4. M \in dir.segs \cup {N} /\ M >= N /\ N \in Nat /\ dir.segs \subseteq Nat
    <3>1. N \in Nat /\ dir.segs \subseteq Nat
      BY <1>a, ManifestTypes DEF Inv, SegNos
    <3>2. N \in dir'.segs
      BY <1>0
    <3>3. M \in dir'.segs /\ M >= N
      BY <2>2, <2>3, <3>2
    <3> QED BY <1>0, <3>1, <3>3
  <2>5. M = N
    BY <1>a, <2>4
  <2> QED BY <2>3, <2>5 DEF NewSegment
<1>1. Types'
  BY <1>0, <1>a, <1>c, <1>d DEF Inv, Types
<1>2. Disk(D)'
  <2>1. RecordsOf(D)' /\ Ordered' /\ TornLast' /\ Headless' /\ Ahead' /\ Covered(D)'
    <3>1. Types /\ Disk(D)
      BY DEF Inv
    <3>2. (N \in Live => Wholes(N) = {}) /\ Kept \ {N} \subseteq Kept' /\ Live' \subseteq Live \cup {N}
          /\ Eff(flushed'.manifest) = Eff(flushed.manifest)
      BY <1>a, <1>b
    <3> QED BY <1>1, <1>a, <1>d, <3>1, <3>2, NewFile
  <2>2. SnapshotsOf(D)'
    BY <1>0, <1>a, <1>c DEF Inv, Disk, SnapshotsOf
  <2>3. Manifests(D)'
    <3>1. dir.manifest.wal \in dir.segs /\ dir.manifest.wal \in SegNos \ {N}
      BY <1>a, ManifestTypes DEF Inv, Disk, Manifests, Complete
    <3> QED BY <1>0, <1>a, <1>b, <1>c, <1>d, <3>1 DEF Inv, Disk, Manifests, Complete
  <2> QED BY <2>1, <2>2, <2>3 DEF Disk
<1>3. Memory(D)' /\ Naming' /\ Acknowledged(D)'
  BY <1>0, <1>a, <1>c DEF Inv, Memory, Naming, Acknowledged
<1>4. Writing'
  <2>1. \A n \in Live' : n > mem.wal => files'[n].frames = <<>>
    <3> SUFFICES ASSUME NEW n \in Live', n > mem.wal PROVE files'[n].frames = <<>>
      OBVIOUS
    <3>1. CASE n = N
      BY <1>d, <3>1
    <3>2. CASE n # N
      <4>1. n \in Live /\ n \in SegNos \ {N}
        BY <1>a, <1>b, <3>2, ManifestTypes DEF Inv
      <4>2. files[n].frames = <<>>
        BY <1>a, <4>1 DEF Inv, Writing
      <4> QED BY <1>d, <4>1, <4>2
    <3> QED BY <3>1, <3>2
  <2>2. /\ mem.wal \in Kept' /\ files'[mem.wal].header /\ mem.wal <= Eff(flushed'.manifest).wal
        /\ Wholes(mem.wal) = DOMAIN files[mem.wal].frames /\ files'[mem.wal] = files[mem.wal]
    BY <1>a, <1>b, <1>d, <1>e DEF Inv, Writing
  <2>3. Wholes(mem.wal)' = DOMAIN files'[mem'.wal].frames
    BY <1>a, <2>2 DEF Wholes
  <2> QED BY <1>a, <2>1, <2>2, <2>3 DEF Writing
<1>5. Checkpointing'
  <2>1. mem'.seq \in DOMAIN dir'.snaps
    BY <1>0, <1>a DEF Inv, Checkpointing
  <2>2. \A n \in Live' : n <= NewSegment'
    BY <1>a, <1>b, <1>f, ManifestTypes DEF Inv, SegNos
  <2>3. NewSegment' \in Kept' /\ NewSegment' > mem'.wal
    BY <1>a, <1>b, <1>f
  <2>4. files'[NewSegment'].header /\ files'[NewSegment'].frames = <<>>
    BY <1>d, <1>f
  <2> QED BY <1>a, <1>c, <2>1, <2>2, <2>3, <2>4 DEF Checkpointing
<1>6. Caching'
  <2> SUFFICES ASSUME "power" \in faults PROVE Caching'
    BY <1>a DEF Caching
  <2>1. \A n \in SegNos : /\ files[n].synced = Len(files[n].frames)
                          /\ \A i \in Wholes(n) : ~(i > files[n].synced)
    BY <1>a, AllSynced DEF Inv
  <2>2. \A n \in SegNos : /\ files'[n].synced = Len(files'[n].frames)
                          /\ \A i \in Wholes(n)' : ~(i > files'[n].synced)
    <3>1. \A n \in SegNos \ {N} : /\ files'[n].synced = Len(files'[n].frames)
                                  /\ \A i \in Wholes(n)' : ~(i > files'[n].synced)
      BY <1>d, <1>e, <2>1
    <3>2. files'[N].synced = Len(files'[N].frames) /\ \A i \in Wholes(N)' : FALSE
      BY <1>d
    <3> QED BY <3>1, <3>2
  <2>3. mem.wal = dir.manifest.wal
    BY <1>a DEF Inv, Caching
  <2>4. Live' \subseteq SegNos
    BY <1>1, ManifestTypes, <1>a, <1>b DEF Inv
  <2> QED BY <1>a, <1>b, <2>2, <2>3, <2>4 DEF Caching
<1> QED BY <1>1, <1>2, <1>3, <1>4, <1>5, <1>6 DEF Inv

\* The checkpoint's segment is cut short in its header, and nothing names it.
LEMMA StartSegmentCutKeeps ==
    ASSUME NEW D \in Seq(Ops), Inv(D), NEW died \in BOOLEAN, StartSegmentCut(died)
    PROVE  Inv(D)'
<1>n. PICK N : N = NextSegment
  OBVIOUS
<1>a. /\ N \in SegNos /\ N > mem.wal /\ N \notin Live
      /\ \A n \in dir.segs : n < N
      /\ flushed = dir /\ Live = dir.segs /\ Kept = dir.segs
      /\ mem.wal \in dir.segs /\ mem.wal \in SegNos /\ mem.wal \in Nat
      /\ ~mem.poisoned /\ mem.state = D /\ mem.seq = Len(D) /\ dir.manifest # NoManifest
      /\ Eff(dir.manifest) = dir.manifest /\ Eff(flushed.manifest) = dir.manifest
      /\ pc = "seg" /\ UNCHANGED <<flushed, logged, issued, faults>>
      /\ \/ pc' = "down" /\ mem' = NoProcess
         \/ pc' = "idle" /\ mem' = mem
  BY <1>n, NextSegmentIs DEF StartSegmentCut, TornSegment
<1>c. /\ dir' = [dir EXCEPT !.segs = @ \cup {N}]
      /\ files' = [files EXCEPT ![N] = [header |-> FALSE, frames |-> <<>>, synced |-> 0]]
  BY <1>n DEF StartSegmentCut, TornSegment, NoFile
<1>0. /\ dir'.segs = dir.segs \cup {N} /\ dir'.manifest = dir.manifest /\ dir'.snaps = dir.snaps
      /\ dir' \in Dirs
  BY <1>a, <1>c DEF Inv, Types, Dirs
<1>b. /\ Live' = dir.segs \cup {N} /\ Kept' = dir.segs
      /\ Eff(dir'.manifest) = dir.manifest /\ Eff(flushed'.manifest) = dir.manifest
  BY <1>0, <1>a, <1>c DEF Live, Kept, Eff
<1>d. /\ files' \in [SegNos -> [header : BOOLEAN, frames : Seq(Record \cup {Torn}), synced : Nat]]
      /\ files'[N].frames = <<>> /\ files'[N].synced = 0 /\ Wholes(N)' = {}
      /\ \A m \in SegNos \ {N} : files'[m] = files[m]
      /\ \A m \in SegNos : files'[m].synced <= Len(files'[m].frames)
  BY <1>a, <1>c, FreshFile DEF Inv
<1>e. /\ \A m \in SegNos \ {N} : Wholes(m)' = Wholes(m) /\ \A i : Rec(m, i)' = Rec(m, i)
      /\ mem.wal \in SegNos \ {N}
  BY <1>a, <1>d DEF Wholes, Rec
<1>1. Types'
  <2>1. NoProcess \in [state : Seq(Ops), seq : Nat, wal : 0..MaxSeg, since : Nat, poisoned : BOOLEAN]
    BY StoreAssumption DEF NoProcess, StoreAssumption
  <2>2. mem' \in [state : Seq(Ops), seq : Nat, wal : 0..MaxSeg, since : Nat, poisoned : BOOLEAN]
    BY <1>a, <2>1 DEF Inv, Types
  <2> QED BY <1>0, <1>a, <1>c, <1>d, <2>2 DEF Inv, Types
<1>2. Disk(D)'
  <2>1. RecordsOf(D)' /\ Ordered' /\ TornLast' /\ Headless' /\ Ahead' /\ Covered(D)'
    <3>1. Types /\ Disk(D)
      BY DEF Inv
    <3>2. (N \in Live => Wholes(N) = {}) /\ Kept \ {N} \subseteq Kept' /\ Live' \subseteq Live \cup {N}
          /\ Eff(flushed'.manifest) = Eff(flushed.manifest)
      BY <1>a, <1>b
    <3> QED BY <1>1, <1>a, <1>d, <3>1, <3>2, NewFile
  <2>2. SnapshotsOf(D)'
    BY <1>0, <1>a, <1>c DEF Inv, Disk, SnapshotsOf
  <2>3. Manifests(D)'
    <3>1. dir.manifest.wal \in dir.segs /\ dir.manifest.wal \in SegNos \ {N}
      BY <1>a, ManifestTypes DEF Inv, Disk, Manifests, Complete
    <3> QED BY <1>0, <1>a, <1>b, <1>c, <1>d, <3>1 DEF Inv, Disk, Manifests, Complete
  <2> QED BY <2>1, <2>2, <2>3 DEF Disk
<1>3. Memory(D)' /\ Naming' /\ Acknowledged(D)' /\ Checkpointing'
  BY <1>0, <1>a, <1>c DEF Inv, Memory, Naming, Acknowledged, Checkpointing, NoProcess, Types
<1>4. Writing'
  <2> SUFFICES ASSUME pc' = "idle", mem' = mem PROVE Writing'
    BY <1>a DEF Writing
  <2>1. \A n \in Live' : n > mem.wal => files'[n].frames = <<>>
    <3> SUFFICES ASSUME NEW n \in Live', n > mem.wal PROVE files'[n].frames = <<>>
      OBVIOUS
    <3>1. CASE n = N
      BY <1>d, <3>1
    <3>2. CASE n # N
      <4>1. n \in Live /\ n \in SegNos \ {N}
        BY <1>a, <1>b, <3>2, ManifestTypes DEF Inv
      <4>2. files[n].frames = <<>>
        BY <1>a, <4>1 DEF Inv, Writing
      <4> QED BY <1>d, <4>1, <4>2
    <3> QED BY <3>1, <3>2
  <2>2. /\ mem.wal \in Kept' /\ files'[mem.wal].header /\ mem.wal <= Eff(flushed'.manifest).wal
        /\ Wholes(mem.wal) = DOMAIN files[mem.wal].frames /\ files'[mem.wal] = files[mem.wal]
    BY <1>a, <1>b, <1>d, <1>e DEF Inv, Writing
  <2>3. Wholes(mem.wal)' = DOMAIN files'[mem'.wal].frames
    BY <1>a, <2>2 DEF Wholes
  <2> QED BY <1>a, <2>1, <2>2, <2>3 DEF Writing
<1>6. Caching'
  <2> SUFFICES ASSUME "power" \in faults PROVE Caching'
    BY <1>a DEF Caching
  <2>1. \A n \in SegNos : /\ files[n].synced = Len(files[n].frames)
                          /\ \A i \in Wholes(n) : ~(i > files[n].synced)
    BY <1>a, AllSynced DEF Inv
  <2>2. \A n \in SegNos : /\ files'[n].synced = Len(files'[n].frames)
                          /\ \A i \in Wholes(n)' : ~(i > files'[n].synced)
    <3>1. \A n \in SegNos \ {N} : /\ files'[n].synced = Len(files'[n].frames)
                                  /\ \A i \in Wholes(n)' : ~(i > files'[n].synced)
      BY <1>d, <1>e, <2>1
    <3>2. files'[N].synced = Len(files'[N].frames) /\ \A i \in Wholes(N)' : FALSE
      BY <1>d
    <3> QED BY <3>1, <3>2
  <2>3. mem.wal = dir.manifest.wal
    BY <1>a DEF Inv, Caching
  <2>4. Live' \subseteq SegNos
    BY <1>1, ManifestTypes, <1>a, <1>b DEF Inv
  <2> QED BY <1>a, <1>b, <2>2, <2>3, <2>4 DEF Caching
<1> QED BY <1>1, <1>2, <1>3, <1>4, <1>6 DEF Inv

-----------------------------------------------------------------------------
(* Frames come and go.                                                     *)

\* A prefix, element by element.
LEMMA PrefixIs ==
    ASSUME NEW s \in Seq(Ops), NEW t \in Seq(Ops)
    PROVE  IsPrefix(s, t) <=> Len(s) <= Len(t) /\ \A i \in 1..Len(s) : s[i] = t[i]
<1>1. ASSUME Len(s) <= Len(t)
      PROVE  SubSeq(s, 1, Len(s)) = SubSeq(t, 1, Len(s)) <=> \A i \in 1..Len(s) : s[i] = t[i]
  <2>1. /\ Len(SubSeq(t, 1, Len(s))) = Len(s) /\ SubSeq(s, 1, Len(s)) = s
        /\ \A i \in 1..Len(s) : SubSeq(t, 1, Len(s))[i] = t[i]
        /\ SubSeq(t, 1, Len(s)) \in Seq(Ops)
    BY <1>1, FirstOf
  <2> QED BY <2>1
<1> QED BY <1>1 DEF IsPrefix

\* A prefix of a prefix.
LEMMA PrefixesChain ==
    ASSUME NEW s \in Seq(Ops), NEW t \in Seq(Ops), NEW u \in Seq(Ops), IsPrefix(s, t), IsPrefix(t, u)
    PROVE  IsPrefix(s, u)
<1>1. /\ Len(s) <= Len(t) /\ Len(t) <= Len(u)
      /\ \A i \in 1..Len(s) : s[i] = t[i]
      /\ \A i \in 1..Len(t) : t[i] = u[i]
  BY PrefixIs
<1>2. Len(s) <= Len(u) /\ \A i \in 1..Len(s) : s[i] = u[i]
  BY <1>1
<1> QED BY <1>2, PrefixIs

\* The same records in the same places: what is said of them still holds.
LEMMA RecordsStay ==
    ASSUME NEW D \in Seq(Ops), Types, Disk(D), Live' \subseteq Live, Kept \subseteq Kept',
           Eff(flushed.manifest).last <= Eff(flushed'.manifest).last,
           Eff(flushed'.manifest).last \in Nat,
           \A n \in SegNos : Wholes(n)' = Wholes(n) /\ \A i \in Wholes(n) : Rec(n, i)' = Rec(n, i)
    PROVE  RecordsOf(D)' /\ Ordered' /\ Covered(D)'
<1>0. Live \subseteq SegNos /\ Kept \subseteq SegNos /\ Eff(flushed.manifest).last \in Nat /\ Len(D) \in Nat
  BY ManifestTypes
<1>1. RecordsOf(D)'
  BY <1>0 DEF Disk, RecordsOf
<1>2. Ordered'
  BY <1>0 DEF Disk, Ordered
<1>3. Covered(D)'
  <2> SUFFICES ASSUME NEW q \in (Eff(flushed'.manifest).last + 1)..Len(D)
               PROVE  \E n \in Kept' : \E i \in Wholes(n)' : Rec(n, i)' = Rec(n, i) /\ Rec(n, i).seq = q
    BY DEF Covered
  <2>1. q \in (Eff(flushed.manifest).last + 1)..Len(D)
    BY <1>0
  <2> QED BY <1>0, <2>1 DEF Disk, Covered
<1> QED BY <1>1, <1>2, <1>3

\* The torn tail of the segment goes, and what is left is fsynced.
LEMMA AttachKeeps ==
    ASSUME Journaled, NEW D \in Seq(Ops), Inv(D), Attach
    PROVE  Inv(D)'
<1>w. PICK w : w = mem.wal
  OBVIOUS
<1>a. /\ pc = "attach" /\ w = mem.wal /\ w = Eff(dir.manifest).wal /\ w \in dir.segs /\ w \in SegNos
      /\ w \in Nat /\ files[w].header /\ flushed' = dir /\ pc' = Ready
      /\ files' = [files EXCEPT ![w].frames = Whole(@), ![w].synced = Len(Whole(files[w].frames))]
      /\ ~mem.poisoned /\ mem.state = D /\ mem.seq = Len(D)
      /\ UNCHANGED <<dir, mem, logged, issued, faults>>
  <2>1. w \in dir.segs /\ w \in SegNos /\ w \in Nat
    BY <1>w, ManifestTypes DEF Attach, Inv, SegNos
  <2>2. ~mem.poisoned /\ mem.state = D /\ mem.seq = Len(D) /\ w = Eff(dir.manifest).wal
    BY <1>w DEF Attach, Inv, Memory, Types, Writing
  <2> QED BY <1>w, <2>1, <2>2 DEF Attach, Cut, FileSynced, Journaled
<1>b. /\ Live' = dir.segs /\ Kept' = dir.segs /\ Kept \subseteq Kept' /\ Live' \subseteq Live
      /\ Eff(dir'.manifest) = Eff(dir.manifest) /\ Eff(flushed'.manifest) = Eff(dir.manifest)
      /\ Eff(flushed.manifest).last <= Eff(dir.manifest).last
      /\ Eff(flushed.manifest).wal <= w
      /\ Eff(flushed.manifest).wal \in Nat
  BY <1>a, ManifestTypes DEF Live, Kept, Eff, Inv, Disk, Manifests
<1>c. /\ Whole(files[w].frames) \in Seq(Record) /\ DOMAIN Whole(files[w].frames) = Wholes(w)
      /\ \A i \in Wholes(w) : Whole(files[w].frames)[i] = Rec(w, i)
  BY <1>a, WholesAre DEF Inv, Disk
<1>d. /\ files'[w].header /\ files'[w].frames = Whole(files[w].frames)
      /\ files'[w].synced = Len(Whole(files[w].frames))
      /\ \A m \in SegNos \ {w} : files'[m] = files[m]
      /\ \A m \in SegNos : files'[m].header = files[m].header
      /\ files'[w].header \in BOOLEAN
  BY <1>a DEF Inv, Types
<1>e. /\ Whole(files[w].frames) \in Seq(Record \cup {Torn}) /\ Len(Whole(files[w].frames)) \in Nat
      /\ \A i \in DOMAIN Whole(files[w].frames) : Whole(files[w].frames)[i] # Torn
  BY <1>c, RecordIsWhole
<1>f. \A n \in SegNos : Wholes(n)' = Wholes(n) /\ \A i \in Wholes(n) : Rec(n, i)' = Rec(n, i)
  <2>1. Wholes(w)' = Wholes(w) /\ \A i \in Wholes(w) : Rec(w, i)' = Rec(w, i)
    <3>1. Wholes(w)' = DOMAIN files'[w].frames
      BY <1>d, <1>e DEF Wholes
    <3>2. \A i : Rec(w, i)' = files'[w].frames[i]
      BY <1>a DEF Rec
    <3> QED BY <1>c, <1>d, <3>1, <3>2
  <2>2. \A n \in SegNos \ {w} : Wholes(n)' = Wholes(n) /\ \A i \in Wholes(n) : Rec(n, i)' = Rec(n, i)
    BY <1>d DEF Wholes, Rec
  <2> QED BY <2>1, <2>2
<1>1. Types'
  <2>1. files' \in [SegNos -> [header : BOOLEAN, frames : Seq(Record \cup {Torn}), synced : Nat]]
    BY <1>a, <1>e DEF Inv, Types
  <2>2. \A n \in SegNos : files'[n].synced <= Len(files'[n].frames)
    <3>1. \A n \in SegNos \ {w} : files'[n].synced <= Len(files'[n].frames)
      BY <1>d DEF Inv, Types
    <3>2. files'[w].synced <= Len(files'[w].frames)
      BY <1>d, <1>e
    <3> QED BY <3>1, <3>2
  <2>3. pc' \in {"publish", "idle"}
    BY <1>a DEF Ready
  <2> QED BY <1>a, <2>1, <2>2, <2>3 DEF Inv, Types
<1>2. Disk(D)'
  <2>1. RecordsOf(D)' /\ Ordered' /\ Covered(D)'
    BY <1>b, <1>f, RecordsStay, ManifestTypes DEF Inv
  <2>2. SnapshotsOf(D)'
    BY <1>a DEF Inv, Disk, SnapshotsOf
  <2>3. TornLast' /\ Headless'
    <3>1. \A n \in SegNos \ {w} : /\ \A i \in DOMAIN files'[n].frames :
                                        i < Len(files'[n].frames) => files'[n].frames[i] # Torn
                                  /\ ~files'[n].header => files'[n].frames = <<>>
      BY <1>d DEF Inv, Disk, TornLast, Headless
    <3> QED BY <1>d, <1>e, <3>1 DEF TornLast, Headless
  <2>4. Ahead'
    <3> SUFFICES ASSUME NEW n \in Live', n > w PROVE files'[n].frames = <<>>
      BY <1>a, <1>b DEF Ahead
    <3>1. n \in Live /\ n \in SegNos \ {w} /\ n \in Nat
      BY <1>a, <1>b, ManifestTypes DEF Inv, SegNos
    <3>2. n > Eff(flushed.manifest).wal
      BY <1>a, <1>b, <3>1
    <3> QED BY <1>d, <3>1, <3>2 DEF Inv, Disk, Ahead
  <2>5. Manifests(D)'
    <3>1. Complete(dir.manifest)' /\ Complete(flushed.manifest)'
      <4> SUFFICES ASSUME dir.manifest # NoManifest
                   PROVE  /\ dir.manifest.wal \in dir.segs /\ files'[dir.manifest.wal].header
                          /\ dir.manifest.last # 0 => dir.manifest.last \in DOMAIN dir.snaps
        BY <1>a, <1>b DEF Complete
      <4>1. dir.manifest.wal = w
        BY <1>a DEF Eff
      <4> QED BY <1>a, <1>d, <4>1 DEF Inv, Disk, Manifests, Complete
    <3> QED BY <1>a, <1>b, <3>1, ManifestTypes DEF Inv, Disk, Manifests
  <2> QED BY <2>1, <2>2, <2>3, <2>4, <2>5 DEF Disk
<1>3. Memory(D)' /\ Acknowledged(D)' /\ Checkpointing'
  BY <1>a DEF Inv, Memory, Acknowledged, Checkpointing, Ready
<1>4. Writing'
  <2>1. Wholes(mem.wal)' = DOMAIN files'[mem'.wal].frames
    <3>1. mem'.wal = w
      BY <1>a
    <3>2. \A i \in DOMAIN files'[w].frames : files'[w].frames[i] # Torn
      BY <1>d, <1>e
    <3> QED BY <3>1, <3>2 DEF Wholes
  <2>2. \A n \in Live' : n > w => files'[n].frames = <<>>
    BY <1>2, <1>a, <1>b DEF Disk, Ahead
  <2>3. mem'.wal = w /\ pc' \in {"publish", "idle"}
    BY <1>a DEF Ready
  <2>4. w \in Kept' /\ files'[w].header /\ w <= Eff(flushed'.manifest).wal
    BY <1>a, <1>b, <1>d
  <2> QED BY <2>1, <2>2, <2>3, <2>4 DEF Writing
<1>5. Naming'
  BY <1>a DEF Inv, Naming, Ready, Eff, FirstManifest
<1>6. Caching'
  <2> SUFFICES ASSUME "power" \in faults PROVE Caching'
    BY <1>a DEF Caching
  <2>1. \A n \in SegNos : n # w => files'[n].synced = Len(files'[n].frames)
    BY <1>a, <1>d DEF Inv, Caching
  <2>2. files'[w].synced = Len(files'[w].frames)
    BY <1>d
  <2>3. \A n \in SegNos : \A i \in Wholes(n)' : ~(i > files'[n].synced)
    <3>1. \A n \in SegNos : \A i \in Wholes(n)' :
             i \in Nat /\ Len(files'[n].frames) \in Nat /\ i <= Len(files'[n].frames)
      BY <1>1 DEF Types, Wholes
    <3> QED BY <2>1, <2>2, <3>1
  <2>4. Live' \subseteq SegNos
    BY <1>b, ManifestTypes DEF Inv
  <2> QED BY <1>a, <1>b, <2>1, <2>2, <2>3, <2>4 DEF Caching, Ready
<1> QED BY <1>1, <1>2, <1>3, <1>4, <1>5, <1>6 DEF Inv

\* After the fsync of a batch the whole log is on disk, and acknowledged.
LEMMA SyncKeeps ==
    ASSUME Journaled, NEW D \in Seq(Ops), Inv(D), Sync
    PROVE  Inv(D)'
<1>w. PICK w : w = mem.wal
  OBVIOUS
<1>a. /\ pc = "append" /\ w = mem.wal /\ w \in Kept /\ w \in SegNos /\ w \in Nat /\ files[w].header
      /\ flushed' = dir /\ files' = [files EXCEPT ![w].synced = Len(files[w].frames)]
      /\ ~mem.poisoned /\ mem.state = D /\ logged' = D /\ Last(files[w].frames).seq = Len(D)
      /\ mem.seq <= Len(D) /\ w <= Eff(flushed.manifest).wal
      /\ \A n \in Live : n > w => files[n].frames = <<>>
      /\ Wholes(w) = DOMAIN files[w].frames
      /\ UNCHANGED <<dir, issued, faults>>
  <2>1. pc = "append" /\ ~mem.poisoned /\ mem.state = D
    BY DEF Sync, Inv, Memory, Types
  <2>2. w \in Kept /\ w \in SegNos /\ w \in Nat
    BY <1>w, <2>1, ManifestTypes DEF Inv, Writing, SegNos
  <2>3. /\ files[w].header /\ w <= Eff(flushed.manifest).wal
        /\ \A n \in Live : n > w => files[n].frames = <<>>
        /\ Wholes(w) = DOMAIN files[w].frames
    BY <1>w, <2>1 DEF Inv, Writing
  <2>4. Last(files[w].frames).seq = Len(D) /\ mem.seq <= Len(D)
    BY <1>w, <2>1 DEF Inv, Memory
  <2> QED BY <1>w, <2>1, <2>2, <2>3, <2>4 DEF Sync, Fsynced, FileSynced, Journaled, Inv, Types
<1>m. /\ mem' \in [state : Seq(Ops), seq : Nat, wal : 0..MaxSeg, since : Nat, poisoned : BOOLEAN]
      /\ ~mem'.poisoned /\ mem'.state = D /\ mem'.seq = Len(D) /\ mem'.wal = w
      /\ pc' \in {"snap", "idle"}
  <2> DEFINE since == mem.since + Len(D) - mem.seq
  <2>1. since \in Nat /\ CheckpointEvery \in Nat
    BY <1>a, StoreAssumption DEF Inv, Types, StoreAssumption
  <2>2. Min({since, CheckpointEvery}) \in Nat
    BY <2>1, MinIsFirst
  <2>3. /\ mem' = [mem EXCEPT !.seq = Len(D), !.since = Min({since, CheckpointEvery})]
        /\ pc' \in {"snap", "idle"}
    BY <1>a DEF Sync
  <2>4. mem \in [state : Seq(Ops), seq : Nat, wal : 0..MaxSeg, since : Nat, poisoned : BOOLEAN]
        /\ Len(D) \in Nat
    BY DEF Inv, Types
  <2> HIDE DEF since
  <2> QED BY <1>a, <2>2, <2>3, <2>4
<1>b. /\ Live' = dir.segs /\ Kept' = dir.segs /\ Kept \subseteq Kept' /\ Live' \subseteq Live
      /\ Eff(dir'.manifest) = Eff(dir.manifest) /\ Eff(flushed'.manifest) = Eff(dir.manifest)
      /\ Eff(flushed.manifest).last <= Eff(dir.manifest).last
      /\ Eff(flushed.manifest).wal <= Eff(dir.manifest).wal
      /\ Eff(flushed.manifest).wal \in Nat /\ Eff(dir.manifest).wal \in Nat
  BY <1>a, ManifestTypes DEF Live, Kept, Eff, Inv, Disk, Manifests
<1>d. /\ files'[w].synced = Len(files'[w].frames)
      /\ \A m \in SegNos \ {w} : files'[m] = files[m]
      /\ \A m \in SegNos : files'[m].header = files[m].header /\ files'[m].frames = files[m].frames
  BY <1>a DEF Inv, Types
<1>f. \A n \in SegNos : Wholes(n)' = Wholes(n) /\ \A i \in Wholes(n) : Rec(n, i)' = Rec(n, i)
  BY <1>d DEF Wholes, Rec
<1>1. Types'
  <2>1. files' \in [SegNos -> [header : BOOLEAN, frames : Seq(Record \cup {Torn}), synced : Nat]]
    <3>1. files \in [SegNos -> [header : BOOLEAN, frames : Seq(Record \cup {Torn}), synced : Nat]]
      BY DEF Inv, Types
    <3>2. Len(files[w].frames) \in Nat
      BY <1>a, <3>1
    <3> QED BY <1>a, <3>1, <3>2
  <2>2. \A n \in SegNos : files'[n].synced <= Len(files'[n].frames)
    <3>1. \A n \in SegNos \ {w} : files'[n].synced <= Len(files'[n].frames)
      BY <1>d DEF Inv, Types
    <3>2. Len(files[w].frames) \in Nat
      BY <1>a DEF Inv, Types
    <3> QED BY <1>d, <3>1, <3>2
  <2> QED BY <1>a, <1>m, <2>1, <2>2 DEF Inv, Types
<1>2. Disk(D)'
  <2>1. RecordsOf(D)' /\ Ordered' /\ Covered(D)'
    BY <1>b, <1>f, RecordsStay, ManifestTypes DEF Inv
  <2>2. SnapshotsOf(D)'
    BY <1>a DEF Inv, Disk, SnapshotsOf
  <2>3. TornLast' /\ Headless'
    BY <1>d DEF Inv, Disk, TornLast, Headless
  <2>4. Ahead'
    <3> SUFFICES ASSUME NEW n \in Live', n > Eff(dir.manifest).wal PROVE files'[n].frames = <<>>
      BY <1>a, <1>b DEF Ahead
    <3>1. n \in Live /\ n \in SegNos /\ n \in Nat
      BY <1>a, <1>b, ManifestTypes DEF Inv, SegNos
    <3>2. n > Eff(flushed.manifest).wal
      BY <1>a, <1>b, <3>1
    <3> QED BY <1>d, <3>1, <3>2 DEF Inv, Disk, Ahead
  <2>5. Manifests(D)'
    <3>1. Complete(dir.manifest)' /\ Complete(flushed.manifest)'
      <4> SUFFICES ASSUME dir.manifest # NoManifest
                   PROVE  /\ dir.manifest.wal \in dir.segs /\ files'[dir.manifest.wal].header
                          /\ dir.manifest.last # 0 => dir.manifest.last \in DOMAIN dir.snaps
        BY <1>a, <1>b DEF Complete
      <4>1. dir.manifest.wal \in Kept /\ files[dir.manifest.wal].header
        BY DEF Inv, Disk, Manifests, Complete
      <4>2. dir.manifest.wal \in SegNos /\ dir.manifest.wal \in dir.segs
        BY <4>1, ManifestTypes DEF Inv, Kept
      <4> QED BY <1>d, <4>1, <4>2 DEF Inv, Disk, Manifests, Complete
    <3> QED BY <1>a, <1>b, <3>1, ManifestTypes DEF Inv, Disk, Manifests
  <2> QED BY <2>1, <2>2, <2>3, <2>4, <2>5 DEF Disk
<1>3. Memory(D)' /\ Acknowledged(D)' /\ Checkpointing'
  <2>1. IsPrefix(D, D)
    BY PrefixIs
  <2> QED BY <1>a, <1>m, <2>1 DEF Inv, Memory, Acknowledged, Checkpointing
<1>4. Writing'
  <2>1. Wholes(w)' = DOMAIN files'[w].frames
    BY <1>a, <1>d, <1>f
  <2>2. \A n \in Live' : n > w => files'[n].frames = <<>>
    BY <1>a, <1>b, <1>d, ManifestTypes DEF Inv
  <2>3. w <= Eff(dir.manifest).wal
    BY <1>a, <1>b
  <2>4. Wholes(mem.wal)' = DOMAIN files'[mem'.wal].frames
    BY <1>m, <2>1 DEF Wholes
  <2> QED BY <1>a, <1>b, <1>d, <1>m, <2>2, <2>3, <2>4 DEF Writing
<1>5. Naming'
  BY <1>a, <1>m DEF Inv, Naming
<1>6. Caching'
  <2> SUFFICES ASSUME "power" \in faults PROVE Caching'
    BY <1>a DEF Caching
  <2>0. w = Eff(dir.manifest).wal /\ w = Eff(flushed.manifest).wal
    BY <1>a DEF Inv, Caching
  <2>1. \A n \in SegNos : n # w => files'[n].synced = Len(files'[n].frames)
    BY <1>d, <2>0 DEF Inv, Caching
  <2>2. files'[w].synced = Len(files'[w].frames)
    BY <1>d
  <2>3. \A n \in SegNos : \A i \in Wholes(n)' : ~(i > files'[n].synced)
    <3>1. \A n \in SegNos : \A i \in Wholes(n)' :
             i \in Nat /\ Len(files'[n].frames) \in Nat /\ i <= Len(files'[n].frames)
      BY <1>1 DEF Types, Wholes
    <3> QED BY <2>1, <2>2, <3>1
  <2>4. Live' \subseteq SegNos
    BY <1>b, ManifestTypes DEF Inv
  <2> QED BY <1>b, <1>m, <2>0, <2>1, <2>2, <2>3, <2>4 DEF Caching
<1> QED BY <1>1, <1>2, <1>3, <1>4, <1>5, <1>6 DEF Inv

\* One sequence after another.
IsJoined(u, s, t, S) ==
    /\ u \in Seq(S) /\ Len(u) = Len(s) + Len(t)
    /\ \A i \in 1..Len(s) : u[i] = s[i]
    /\ \A i \in 1..Len(t) : u[Len(s) + i] = t[i]

\* Two sequences one after the other.
LEMMA Joined ==
    ASSUME NEW S, NEW s \in Seq(S), NEW t \in Seq(S)
    PROVE  IsJoined(s \o t, s, t, S)
<1> PICK u : u = s \o t
  OBVIOUS
<1>1. u \in Seq(S) /\ Len(u) = Len(s) + Len(t)
  OBVIOUS
<1>2. \A i \in 1..Len(s) : u[i] = s[i]
  OBVIOUS
<1>3. ASSUME NEW i \in 1..Len(t) PROVE u[Len(s) + i] = t[i]
  <2>1. Len(s) \in Nat /\ Len(t) \in Nat
    OBVIOUS
  <2>2. Len(s) + i \in 1..(Len(s) + Len(t)) /\ ~(Len(s) + i <= Len(s)) /\ (Len(s) + i) - Len(s) = i
    BY <2>1
  <2> QED BY <2>2
<1>4. IsJoined(u, s, t, S)
  BY <1>1, <1>2, <1>3 DEF IsJoined
<1> QED BY <1>4

\* The frames an append leaves in its segment: k records that follow the log,
\* and perhaps part of one more.
IsAppended(D, old, new, k, torn) ==
    /\ new \in Seq(Frame)
    /\ Len(new) = Len(old) + k + (IF torn THEN 1 ELSE 0)
    /\ \A i \in 1..Len(old) : new[i] = old[i]
    /\ \A i \in (Len(old) + 1)..(Len(old) + k) :
          /\ new[i] = [seq |-> Len(D) + (i - Len(old)), op |-> issued + (i - Len(old))]
          /\ new[i] \in Record /\ new[i] # Torn
    /\ torn => new[Len(old) + k + 1] = Torn

\* The frames of a segment after an append: the old ones, k records and perhaps
\* a torn one.
LEMMA AppendedFrames ==
    ASSUME NEW D \in Seq(Ops), NEW n \in Nat, NEW k \in 0..n, NEW torn \in BOOLEAN,
           mem.seq = Len(D), issued \in Nat, Len(D) <= issued, issued + n <= MaxOps,
           NEW old \in Seq(Frame), NEW new,
           new = old \o (SubSeq(Records(n), 1, k) \o (IF torn THEN <<Torn>> ELSE <<>>))
    PROVE  IsAppended(D, old, new, k, torn)
<1>0. MaxOps \in Nat /\ Len(D) \in Nat /\ Len(old) \in Nat /\ k \in Nat
  BY StoreAssumption DEF StoreAssumption
<1> DEFINE rec(i) == [seq |-> Len(D) + i, op |-> issued + i]
           tail == IF torn THEN <<Torn>> ELSE <<>>
<1>1. \A i \in 1..n : rec(i) \in Record
  BY <1>0 DEF Record, Ops
<1>2. Records(n) = [i \in 1..n |-> rec(i)]
  BY DEF Records
<1>r. \A i \in 1..n : rec(i) \in Frame /\ rec(i) # Torn
  <2> HIDE DEF rec
  <2> QED BY <1>1, RecordIsWhole DEF Frame
<1> HIDE DEF rec
<1>3. Records(n) \in Seq(Frame) /\ Len(Records(n)) = n /\ \A i \in 1..n : Records(n)[i] = rec(i)
  BY <1>2, <1>r
<1>4. /\ SubSeq(Records(n), 1, k) \in Seq(Frame) /\ Len(SubSeq(Records(n), 1, k)) = k
      /\ \A i \in 1..k : SubSeq(Records(n), 1, k)[i] = rec(i)
  <2>1. k \in 0..Len(Records(n))
    BY <1>3
  <2>2. \A i \in 1..k : i \in 1..n
    BY <1>0
  <2> HIDE DEF rec
  <2> QED BY <1>3, <2>1, <2>2, FirstOf
<1>5. tail \in Seq(Frame) /\ Len(tail) = (IF torn THEN 1 ELSE 0) /\ (torn => tail[1] = Torn)
  <2>1. Torn \in Frame
    BY DEF Frame
  <2>2. CASE torn
    BY <2>1, <2>2
  <2>3. CASE ~torn
    BY <2>3
  <2> QED BY <2>2, <2>3
<1> HIDE DEF tail
<1>6. PICK mid : mid = SubSeq(Records(n), 1, k)
  OBVIOUS
<1>7. PICK rest : rest = mid \o tail
  OBVIOUS
<1>8. mid \in Seq(Frame) /\ Len(mid) = k /\ \A i \in 1..k : mid[i] = rec(i)
  BY <1>4, <1>6
<1>9. /\ rest \in Seq(Frame) /\ Len(rest) = Len(mid) + Len(tail)
      /\ \A i \in 1..Len(mid) : rest[i] = mid[i]
      /\ \A i \in 1..Len(tail) : rest[Len(mid) + i] = tail[i]
  <2>1. mid \in Seq(Frame) /\ tail \in Seq(Frame) /\ rest = mid \o tail
    BY <1>5, <1>7, <1>8
  <2>2. IsJoined(mid \o tail, mid, tail, Frame)
    BY <2>1, Joined
  <2> QED BY <2>1, <2>2 DEF IsJoined
<1>10. new = old \o rest
  BY <1>6, <1>7 DEF tail
<1>11. /\ Len(rest) = k + (IF torn THEN 1 ELSE 0) /\ Len(rest) \in Nat
       /\ \A i \in 1..k : rest[i] = rec(i)
       /\ torn => rest[k + 1] = Torn
  BY <1>5, <1>8, <1>9
<1>12. /\ new \in Seq(Frame) /\ Len(new) = Len(old) + Len(rest)
       /\ \A i \in 1..Len(old) : new[i] = old[i]
       /\ \A i \in 1..Len(rest) : new[Len(old) + i] = rest[i]
  <2>1. old \in Seq(Frame) /\ rest \in Seq(Frame) /\ new = old \o rest
    BY <1>9, <1>10
  <2>2. IsJoined(old \o rest, old, rest, Frame)
    BY <2>1, Joined
  <2> QED BY <2>1, <2>2 DEF IsJoined
<1>13. Len(new) = Len(old) + k + (IF torn THEN 1 ELSE 0)
  <2>1. CASE torn
    BY <1>0, <1>11, <1>12, <2>1
  <2>2. CASE ~torn
    BY <1>0, <1>11, <1>12, <2>2
  <2> QED BY <2>1, <2>2
<1>14. ASSUME NEW i \in (Len(old) + 1)..(Len(old) + k)
       PROVE  new[i] = rec(i - Len(old)) /\ i - Len(old) \in 1..n
  <2>1. i - Len(old) \in 1..k /\ i - Len(old) \in 1..n /\ i = Len(old) + (i - Len(old))
    BY <1>0
  <2>2. i - Len(old) \in 1..Len(rest)
    BY <1>0, <1>11, <2>1
  <2>3. new[Len(old) + (i - Len(old))] = rest[i - Len(old)]
    BY <1>12, <2>2
  <2> QED BY <1>11, <2>1, <2>3
<1>15. torn => new[Len(old) + k + 1] = Torn
  <2> SUFFICES ASSUME torn PROVE new[Len(old) + k + 1] = Torn
    OBVIOUS
  <2>1. k + 1 \in 1..Len(rest) /\ Len(old) + k + 1 = Len(old) + (k + 1)
    BY <1>0, <1>11
  <2> QED BY <1>11, <1>12, <2>1
<1>16. ASSUME NEW i \in (Len(old) + 1)..(Len(old) + k)
       PROVE  /\ new[i] = [seq |-> Len(D) + (i - Len(old)), op |-> issued + (i - Len(old))]
              /\ new[i] \in Record /\ new[i] # Torn
  BY <1>1, <1>14, <1>r DEF rec
<1> QED BY <1>12, <1>13, <1>15, <1>16 DEF IsAppended

\* The log after an append of which k records got written.
Longer(D, k) == D \o [i \in 1..k |-> issued + i]

\* The longer log has the old one for a prefix, and the ops of the batch behind.
LEMMA LongerIs ==
    ASSUME NEW D \in Seq(Ops), NEW k \in Nat, issued \in Nat, issued + k <= MaxOps
    PROVE  /\ Longer(D, k) \in Seq(Ops) /\ Len(Longer(D, k)) = Len(D) + k
           /\ \A i \in 1..Len(D) : Longer(D, k)[i] = D[i]
           /\ \A i \in 1..k : Longer(D, k)[Len(D) + i] = issued + i
           /\ IsPrefix(D, Longer(D, k))
<1> DEFINE more == [i \in 1..k |-> issued + i]
<1>0. MaxOps \in Nat /\ Len(D) \in Nat
  BY StoreAssumption DEF StoreAssumption
<1>1. more \in Seq(Ops) /\ Len(more) = k /\ \A i \in 1..k : more[i] = issued + i
  <2>1. \A i \in 1..k : issued + i \in Ops
    BY <1>0 DEF Ops
  <2> QED BY <2>1
<1>2. Longer(D, k) = D \o more
  BY DEF Longer
<1> HIDE DEF more
<1>3. /\ Longer(D, k) \in Seq(Ops) /\ Len(Longer(D, k)) = Len(D) + k
      /\ \A i \in 1..Len(D) : Longer(D, k)[i] = D[i]
      /\ \A i \in 1..k : Longer(D, k)[Len(D) + i] = issued + i
  <2>1. PICK L : L = Longer(D, k)
    OBVIOUS
  <2>2. /\ L \in Seq(Ops) /\ Len(L) = Len(D) + Len(more)
        /\ \A i \in 1..Len(D) : L[i] = D[i]
        /\ \A i \in 1..Len(more) : L[Len(D) + i] = more[i]
    <3>1. D \in Seq(Ops) /\ more \in Seq(Ops) /\ L = D \o more
      BY <1>1, <1>2, <2>1
    <3>2. IsJoined(D \o more, D, more, Ops)
      BY <3>1, Joined
    <3> QED BY <3>1, <3>2 DEF IsJoined
  <2> QED BY <1>1, <2>1, <2>2
<1>4. IsPrefix(D, Longer(D, k))
  BY <1>0, <1>3, PrefixIs
<1> QED BY <1>3, <1>4

TornEnd(torn) == IF torn THEN <<Torn>> ELSE <<>>

\* What a write to the log leaves, whether or not all of it got there.
WrittenTo(w, E, torn, k) ==
    /\ Disk(E)' /\ Acknowledged(E)'
    /\ ~torn => Wholes(w)' = DOMAIN files'[w].frames
    /\ files'[w].header
    /\ \A n \in Live' : n > w => files'[n].frames = <<>>
    /\ k > 0 /\ ~torn => /\ files'[w].frames # <<>>
                         /\ Last(files'[w].frames) # Torn
                         /\ Last(files'[w].frames).seq = Len(E)
    /\ "power" \in faults =>
          /\ w = Eff(dir.manifest).wal /\ w = Eff(flushed.manifest).wal
          /\ \A n \in SegNos : n # w => files'[n].synced = Len(files'[n].frames)
          /\ \A n \in Live' : \A i \in Wholes(n)' : i > files'[n].synced =>
                 /\ Rec(n, i)'.seq > Len(logged)
                 /\ \A q \in DOMAIN dir.snaps \cup DOMAIN flushed.snaps : q < Rec(n, i)'.seq

\* An append of k records of a batch, and perhaps a part of the next: the disk
\* holds the log longer by k.
LEMMA AppendedKeeps ==
    ASSUME NEW D \in Seq(Ops), Inv(D), Accepts, NEW n \in Nat, NEW k \in 0..n,
           NEW torn \in BOOLEAN, issued + n <= MaxOps,
           files' = [files EXCEPT ![mem.wal].frames = @ \o (SubSeq(Records(n), 1, k) \o TornEnd(torn))],
           UNCHANGED <<dir, flushed, logged, faults>>, Types', NEW E, E = Longer(D, k),
           NEW w, w = mem.wal
    PROVE  WrittenTo(w, E, torn, k)
<1>w. w = mem.wal
  OBVIOUS
<1>a. /\ pc = "idle" /\ ~mem.poisoned /\ mem.state = D /\ mem.seq = Len(D)
      /\ w \in Kept /\ w \in SegNos /\ w \in Live /\ files[w].header /\ w <= Eff(flushed.manifest).wal
      /\ \A n2 \in Live : n2 > w => files[n2].frames = <<>>
      /\ Wholes(w) = DOMAIN files[w].frames
      /\ flushed.manifest # NoManifest
  BY <1>w, ManifestTypes DEF Accepts, Inv, Types, Memory, Writing, Naming
<1>i. issued \in Nat /\ Len(D) <= issued /\ Len(D) \in Nat /\ issued + k <= MaxOps /\ MaxOps \in Nat
      /\ k \in Nat
  <2>1. issued \in 0..MaxOps /\ Len(D) <= issued /\ MaxOps \in Nat
    BY StoreAssumption DEF Inv, Types, Memory, StoreAssumption
  <2>2. Len(D) \in Nat /\ issued \in Nat /\ k \in Nat /\ k <= n
    BY <2>1
  <2> QED BY <2>1, <2>2
<1>l. /\ E \in Seq(Ops) /\ Len(E) = Len(D) + k
      /\ \A i \in 1..Len(D) : E[i] = D[i]
      /\ \A i \in 1..k : E[Len(D) + i] = issued + i
      /\ IsPrefix(D, E)
  BY <1>i, LongerIs
<1>m. Len(E) = Len(D) + k /\ Len(D) \in Nat /\ k \in Nat
  BY <1>i, <1>l
<1>o. PICK old : old = files[w].frames
  OBVIOUS
<1>p. PICK new : new = files'[w].frames
  OBVIOUS
<1>q. PICK L : L = Len(old)
  OBVIOUS
<1>n. /\ old \in Seq(Frame) /\ L \in Nat /\ DOMAIN old = 1..L
      /\ new = old \o (SubSeq(Records(n), 1, k) \o (IF torn THEN <<Torn>> ELSE <<>>))
      /\ files'[w].header /\ files'[w].synced = files[w].synced
      /\ \A m \in SegNos \ {w} : files'[m] = files[m]
      /\ \A m \in SegNos : files'[m].header = files[m].header
  <2>1. files \in [SegNos -> [header : BOOLEAN, frames : Seq(Frame), synced : Nat]]
    BY DEF Inv, Types, Frame
  <2>2. old \in Seq(Frame) /\ L \in Nat /\ DOMAIN old = 1..L
    BY <1>a, <1>o, <1>q, <2>1
  <2>3. files' = [files EXCEPT ![w].frames = old \o (SubSeq(Records(n), 1, k) \o TornEnd(torn))]
    BY <1>w, <1>o
  <2>4. /\ files'[w] = [files[w] EXCEPT !.frames = old \o (SubSeq(Records(n), 1, k) \o TornEnd(torn))]
        /\ \A m \in SegNos \ {w} : files'[m] = files[m]
    BY <1>a, <1>o, <2>1, <2>3
  <2>5. /\ files'[w].header = files[w].header /\ files'[w].synced = files[w].synced
        /\ files'[w].frames = old \o (SubSeq(Records(n), 1, k) \o TornEnd(torn))
    <3>1. files[w] \in [header : BOOLEAN, frames : Seq(Frame), synced : Nat]
      BY <1>a, <2>1
    <3>2. PICK more : more = old \o (SubSeq(Records(n), 1, k) \o TornEnd(torn))
      OBVIOUS
    <3>3. files'[w] = [files[w] EXCEPT !.frames = more]
      BY <2>4, <3>2
    <3>4. files'[w].header = files[w].header /\ files'[w].synced = files[w].synced /\ files'[w].frames = more
      BY <3>1, <3>3
    <3> QED BY <3>2, <3>4
  <2> QED BY <1>a, <1>p, <2>2, <2>4, <2>5 DEF TornEnd
<1>f. /\ new \in Seq(Frame)
      /\ Len(new) = L + k + (IF torn THEN 1 ELSE 0)
      /\ \A i \in 1..L : new[i] = old[i]
      /\ \A i \in (L + 1)..(L + k) :
            /\ new[i] = [seq |-> Len(D) + (i - L), op |-> issued + (i - L)]
            /\ new[i] \in Record /\ new[i] # Torn
      /\ torn => new[L + k + 1] = Torn
  <2>1. /\ mem.seq = Len(D) /\ issued \in Nat /\ Len(D) <= issued /\ old \in Seq(Frame)
        /\ new = old \o (SubSeq(Records(n), 1, k) \o (IF torn THEN <<Torn>> ELSE <<>>))
    BY <1>a, <1>i, <1>n
  <2>2. IsAppended(D, old, new, k, torn)
    BY <2>1, AppendedFrames
  <2> QED BY <1>q, <2>2 DEF IsAppended
<1>g. /\ \A i \in 1..L : i \in Wholes(w)
      /\ DOMAIN new = 1..Len(new) /\ Len(new) \in Nat
      /\ Len(new) = L + k \/ (torn /\ Len(new) = L + k + 1)
      /\ ~torn => Len(new) = L + k
  <2>1. \A i \in 1..L : i \in Wholes(w)
    BY <1>a, <1>n, <1>o
  <2>2. DOMAIN new = 1..Len(new) /\ Len(new) \in Nat
    BY <1>f
  <2>3. Len(new) = L + k \/ (torn /\ Len(new) = L + k + 1)
    BY <1>f, <1>i, <1>n
  <2>4. ~torn => Len(new) = L + k
    BY <1>f, <1>i, <1>n
  <2> QED BY <2>1, <2>2, <2>3, <2>4
<1>h. Wholes(w)' = 1..(L + k)
  <2>0. Wholes(w)' = {i \in 1..Len(new) : new[i] # Torn}
    BY <1>g, <1>p DEF Wholes
  <2>1. ASSUME NEW i \in 1..(L + k) PROVE i \in 1..Len(new) /\ new[i] # Torn
    <3>1. i \in 1..Len(new)
      BY <1>g, <1>i, <1>n
    <3>2. CASE i \in 1..L
      <4>1. old[i] # Torn
        BY <1>a, <1>g, <1>n, <1>o, <3>2 DEF Wholes
      <4> QED BY <1>f, <3>1, <3>2, <4>1
    <3>3. CASE i \notin 1..L
      <4>1. i \in (L + 1)..(L + k)
        BY <1>i, <1>n, <3>3
      <4> QED BY <1>f, <3>1, <4>1
    <3> QED BY <3>2, <3>3
  <2>2. ASSUME NEW i \in 1..Len(new), i \notin 1..(L + k) PROVE new[i] = Torn
    <3>1. torn /\ i = L + k + 1
      BY <1>g, <1>i, <1>n, <2>2
    <3> QED BY <1>f, <3>1
  <2> QED BY <2>0, <2>1, <2>2
<1>j. /\ \A i : Rec(w, i)' = new[i]
      /\ \A i \in 1..L : Rec(w, i)' = Rec(w, i) /\ i \in Wholes(w)
      /\ \A i \in (L + 1)..(L + k) : /\ Rec(w, i)'.seq = Len(D) + (i - L)
                                     /\ Rec(w, i)'.op = issued + (i - L)
  <2>1. \A i : Rec(w, i)' = new[i] /\ Rec(w, i) = old[i]
    BY <1>o, <1>p DEF Rec
  <2>2. ASSUME NEW i \in (L + 1)..(L + k)
        PROVE  Rec(w, i)'.seq = Len(D) + (i - L) /\ Rec(w, i)'.op = issued + (i - L)
    <3>1. PICK x : x = i - L
      OBVIOUS
    <3>2. new[i] = [seq |-> Len(D) + x, op |-> issued + x]
      BY <1>f, <3>1
    <3> QED BY <2>1, <3>1, <3>2
  <2>3. \A i \in 1..L : Rec(w, i)' = Rec(w, i)
    BY <1>f, <2>1
  <2> QED BY <1>g, <2>1, <2>2, <2>3
<1>k. \A m \in SegNos \ {w} : Wholes(m)' = Wholes(m) /\ \A i : Rec(m, i)' = Rec(m, i)
  BY <1>n DEF Wholes, Rec
<1>v. Live' = Live /\ Kept' = Kept /\ Live \subseteq SegNos /\ Kept \subseteq SegNos /\ SegNos \subseteq Nat
  BY ManifestTypes DEF Live, Kept, Inv, SegNos
<1>r. \A m \in Live : \A i \in Wholes(m) :
          Rec(m, i).seq \in 1..Len(D) /\ Rec(m, i).op = D[Rec(m, i).seq]
  BY DEF Inv, Disk, RecordsOf
<1>t. \A m \in Live : m # w => \A i \in Wholes(m)' :
          i \in Wholes(m) /\ Rec(m, i)' = Rec(m, i) /\ ~(m > w)
  <2> SUFFICES ASSUME NEW m \in Live, m # w, NEW i \in Wholes(m)'
               PROVE  i \in Wholes(m) /\ Rec(m, i)' = Rec(m, i) /\ ~(m > w)
    OBVIOUS
  <2>1. m \in SegNos \ {w} /\ i \in Wholes(m) /\ Rec(m, i)' = Rec(m, i)
    BY <1>k, <1>v
  <2>2. ~(m > w)
    BY <1>a, <2>1 DEF Wholes
  <2> QED BY <2>1, <2>2
<1>s. \A i \in Wholes(w)' : \/ i \in 1..L /\ Rec(w, i)' = Rec(w, i) /\ i \in Wholes(w)
                            \/ i \in (L + 1)..(L + k) /\ Rec(w, i)'.seq = Len(D) + (i - L)
  BY <1>h, <1>j, <1>i, <1>n
<1>1. RecordsOf(E)'
  <2> SUFFICES ASSUME NEW m \in Live, NEW i \in Wholes(m)'
               PROVE  Rec(m, i)'.seq \in 1..Len(E) /\ Rec(m, i)'.op = E[Rec(m, i)'.seq]
    BY <1>v DEF RecordsOf
  <2>1. CASE m # w
    BY <1>i, <1>l, <1>r, <1>t, <2>1
  <2>2. CASE m = w /\ i \in 1..L
    BY <1>i, <1>j, <1>l, <1>r, <2>2
  <2>3. CASE m = w /\ i \notin 1..L
    <3>1. i \in (L + 1)..(L + k) /\ i - L \in 1..k
      BY <1>h, <1>i, <1>n, <2>3
    <3>2. Rec(m, i)'.seq = Len(D) + (i - L) /\ Rec(m, i)'.op = issued + (i - L)
      BY <1>j, <2>3, <3>1
    <3> QED BY <1>i, <1>l, <3>1, <3>2
  <2> QED BY <2>1, <2>2, <2>3
<1>2. SnapshotsOf(E)'
  <2> SUFFICES ASSUME NEW d \in {dir, flushed}, NEW q \in DOMAIN d.snaps
               PROVE  q \in 0..Len(E) /\ d.snaps[q] = SubSeq(E, 1, q)
    BY DEF SnapshotsOf
  <2>1. q \in 0..Len(D) /\ d.snaps[q] = SubSeq(D, 1, q)
    BY DEF Inv, Disk, SnapshotsOf
  <2>2. SubSeq(E, 1, q) = SubSeq(D, 1, q)
    <3>1. q \in 0..Len(E)
      BY <1>i, <1>l, <2>1
    <3>2. /\ SubSeq(E, 1, q) \in Seq(Ops) /\ Len(SubSeq(E, 1, q)) = q
          /\ \A i \in 1..q : SubSeq(E, 1, q)[i] = E[i]
      BY <1>l, <3>1, FirstOf
    <3>3. /\ SubSeq(D, 1, q) \in Seq(Ops) /\ Len(SubSeq(D, 1, q)) = q
          /\ \A i \in 1..q : SubSeq(D, 1, q)[i] = D[i]
      BY <2>1, FirstOf
    <3>4. \A i \in 1..q : E[i] = D[i]
      BY <1>l, <2>1
    <3> QED BY <3>2, <3>3, <3>4
  <2> QED BY <1>i, <1>l, <2>1, <2>2
<1>3. Ordered'
  <2> SUFFICES ASSUME NEW m \in Live, NEW p \in Live, NEW i \in Wholes(m)', NEW j \in Wholes(p)',
                      m < p \/ (m = p /\ i < j)
               PROVE  Rec(m, i)'.seq < Rec(p, j)'.seq
    BY <1>v DEF Ordered
  <2>1. CASE i \in Wholes(m) /\ Rec(m, i)' = Rec(m, i) /\ j \in Wholes(p) /\ Rec(p, j)' = Rec(p, j)
    BY <2>1 DEF Inv, Disk, Ordered
  <2>2. CASE i \in Wholes(m) /\ Rec(m, i)' = Rec(m, i) /\ p = w /\ j \in (L + 1)..(L + k)
    BY <1>i, <1>n, <1>r, <1>s, <2>2, <1>j
  <2>3. CASE m = w /\ i \in (L + 1)..(L + k)
    <3>1. p = w
      BY <1>a, <1>t, <1>v, <2>3
    <3>2. j \in (L + 1)..(L + k)
      <4>1. j \in 1..(L + k) /\ i < j
        <5>1. j \in Wholes(w)'
          BY <3>1 DEF Wholes
        <5>2. w \in Nat /\ ~(w < w)
          BY <1>a, <1>v
        <5>3. i < j
          BY <2>3, <3>1, <5>2
        <5> QED BY <1>h, <5>1, <5>3
      <4> QED BY <1>i, <1>n, <2>3, <4>1
    <3>3. i < j /\ i \in Int /\ j \in Int
      BY <1>a, <1>i, <1>n, <1>v, <2>3, <3>1, <3>2
    <3>4. Rec(w, i)'.seq = Len(D) + (i - L) /\ Rec(w, j)'.seq = Len(D) + (j - L)
      BY <1>j, <2>3, <3>2
    <3>5. Len(D) + (i - L) < Len(D) + (j - L)
      BY <1>i, <1>n, <3>3
    <3> QED BY <2>3, <3>1, <3>4, <3>5
  <2> QED BY <1>s, <1>t, <2>1, <2>2, <2>3
<1>4. Covered(E)'
  <2> SUFFICES ASSUME NEW q \in (Eff(flushed.manifest).last + 1)..Len(E)
               PROVE  \E m \in Kept : \E i \in Wholes(m)' : Rec(m, i)'.seq = q
    BY <1>v DEF Covered
  <2>0. Eff(flushed.manifest).last \in Nat
    BY ManifestTypes DEF Inv
  <2>1. CASE q <= Len(D)
    <3>1. PICK m \in Kept : \E i \in Wholes(m) : Rec(m, i).seq = q
      BY <1>i, <2>0, <2>1 DEF Inv, Disk, Covered
    <3>2. PICK i \in Wholes(m) : Rec(m, i).seq = q
      BY <3>1
    <3>3. CASE m = w
      <4>1. i \in 1..L
        BY <1>a, <1>n, <1>o, <3>2, <3>3
      <4>2. i \in Wholes(w)' /\ Rec(w, i)' = Rec(w, i)
        BY <1>h, <1>i, <1>j, <1>n, <4>1
      <4> QED BY <3>1, <3>2, <3>3, <4>2
    <3>4. CASE m # w
      BY <1>k, <1>v, <3>1, <3>2, <3>4
    <3> QED BY <3>3, <3>4
  <2>2. CASE ~(q <= Len(D))
    <3>0. PICK x : x = q - Len(D)
      OBVIOUS
    <3>a. x \in 1..k /\ q = Len(D) + x
      <4>1. q \in Nat /\ q <= Len(D) + k
        BY <1>m, <2>0
      <4>2. x \in Int /\ 1 <= x /\ x <= k /\ q = Len(D) + x
        BY ONLY <1>m, <2>2, <3>0, <4>1
      <4> QED BY <1>m, <4>2
    <3>1. L + x \in (L + 1)..(L + k) /\ (L + x) - L = x
      <4>1. L \in Nat
        BY <1>n
      <4> QED BY <1>m, <3>a, <4>1
    <3>2. Rec(w, L + x)'.seq = q
      <4>1. Rec(w, L + x)'.seq = Len(D) + ((L + x) - L)
        BY <1>j, <3>1
      <4> QED BY <3>a, <3>1, <4>1
    <3>3. L + x \in Wholes(w)'
      BY <1>h, <1>i, <1>n, <3>1
    <3> QED BY <1>a, <3>2, <3>3
  <2> QED BY <2>1, <2>2
<1>5. TornLast'
  <2> SUFFICES ASSUME NEW m \in SegNos, NEW i \in DOMAIN files'[m].frames, i < Len(files'[m].frames)
               PROVE  files'[m].frames[i] # Torn
    BY DEF TornLast
  <2>1. CASE m # w
    BY <1>n, <2>1 DEF Inv, Disk, TornLast
  <2>2. CASE m = w
    <3>0. i \in 1..Len(new) /\ i < Len(new)
      BY <1>g, <1>p, <2>2
    <3>1. i \in 1..(L + k)
      BY <1>g, <1>i, <1>n, <3>0
    <3>2. i \in Wholes(w)'
      BY <1>h, <3>1
    <3>3. files'[w].frames[i] # Torn
      BY <3>2 DEF Wholes
    <3> QED BY <2>2, <3>3
  <2> QED BY <2>1, <2>2
<1>6. Headless'
  BY <1>n DEF Inv, Disk, Headless
<1>7. \A n2 \in Live : n2 > w => files'[n2].frames = <<>>
  <2> SUFFICES ASSUME NEW m \in Live, m > w PROVE files'[m].frames = <<>>
    OBVIOUS
  <2>1. m \in SegNos \ {w} /\ files[m].frames = <<>>
    BY <1>a, <1>v
  <2> QED BY <1>n, <2>1
<1>8. Ahead'
  <2> SUFFICES ASSUME NEW m \in Live, m > Eff(flushed.manifest).wal PROVE files'[m].frames = <<>>
    BY <1>v DEF Ahead
  <2>1. m > w
    BY <1>a, <1>v, ManifestTypes DEF Inv
  <2> QED BY <1>7, <2>1
<1>9. Manifests(E)'
  <2>1. Complete(dir.manifest)' /\ Complete(flushed.manifest)'
    <3>1. \A m \in {dir.manifest, flushed.manifest} : m # NoManifest => m.wal \in Kept /\ files[m.wal].header
      BY DEF Inv, Disk, Manifests, Complete
    <3>2. \A m \in {dir.manifest, flushed.manifest} : m # NoManifest => files'[m.wal].header
      BY <1>n, <1>v, <3>1
    <3> QED BY <1>v, <3>1, <3>2 DEF Inv, Disk, Manifests, Complete
  <2> QED BY <1>a, <1>i, <1>l, <2>1, ManifestTypes DEF Inv, Disk, Manifests
<1>10. Acknowledged(E)'
  <2>1. IsPrefix(logged, D) /\ logged \in Seq(Ops)
    BY DEF Inv, Acknowledged, Types
  <2>2. Len(logged) <= Len(D) /\ \A i \in 1..Len(logged) : logged[i] = D[i]
    BY <2>1, PrefixIs
  <2>3. Len(logged) <= Len(E) /\ \A i \in 1..Len(logged) : logged[i] = E[i]
    BY <1>i, <1>l, <2>1, <2>2
  <2>4. IsPrefix(logged, E)
    BY <1>l, <2>1, <2>3, PrefixIs
  <2> QED BY <2>4 DEF Acknowledged
<1>11. ~torn => Wholes(w)' = DOMAIN files'[w].frames
  BY <1>g, <1>h, <1>p
<1>12. k > 0 /\ ~torn => /\ files'[w].frames # <<>>
                         /\ Last(files'[w].frames) # Torn
                         /\ Last(files'[w].frames).seq = Len(D) + k
  <2> SUFFICES ASSUME k > 0, ~torn
               PROVE  new # <<>> /\ Last(new) # Torn /\ Last(new).seq = Len(D) + k
    BY <1>p
  <2>1. Last(new) = new[L + k] /\ L + k \in (L + 1)..(L + k) /\ new # <<>>
    <3>1. Len(new) = L + k /\ L + k \in (L + 1)..(L + k)
      BY <1>g, <1>i, <1>n
    <3>2. new # <<>>
      <4>1. Len(<<>>) = 0 /\ L + k > 0
        BY <1>i, <1>n
      <4> QED BY <3>1, <4>1
    <3> QED BY <3>1, <3>2 DEF Last
  <2>2. new[L + k] # Torn /\ new[L + k] = [seq |-> Len(D) + ((L + k) - L), op |-> issued + ((L + k) - L)]
    BY <1>f, <2>1
  <2> QED BY <1>i, <1>n, <2>1, <2>2
<1>13. "power" \in faults =>
         /\ w = Eff(dir.manifest).wal /\ w = Eff(flushed.manifest).wal
         /\ \A n2 \in SegNos : n2 # w => files'[n2].synced = Len(files'[n2].frames)
         /\ \A n2 \in Live' : \A i \in Wholes(n2)' : i > files'[n2].synced =>
                /\ Rec(n2, i)'.seq > Len(logged)
                /\ \A q \in DOMAIN dir.snaps \cup DOMAIN flushed.snaps : q < Rec(n2, i)'.seq
  <2> SUFFICES ASSUME "power" \in faults
               PROVE  /\ w = Eff(dir.manifest).wal /\ w = Eff(flushed.manifest).wal
                      /\ \A n2 \in SegNos : n2 # w => files'[n2].synced = Len(files'[n2].frames)
                      /\ \A n2 \in Live : \A i \in Wholes(n2)' : i > files'[n2].synced =>
                             /\ Rec(n2, i)'.seq > Len(logged)
                             /\ \A q \in DOMAIN dir.snaps \cup DOMAIN flushed.snaps : q < Rec(n2, i)'.seq
    BY <1>v
  <2>1. w = Eff(dir.manifest).wal /\ w = Eff(flushed.manifest).wal /\ files[w].synced = L
    BY <1>a, <1>o, <1>q, <1>w DEF Inv, Caching
  <2>2. \A n2 \in SegNos : n2 # w => files[n2].synced = Len(files[n2].frames)
    BY <2>1 DEF Inv, Caching
  <2>3. \A n2 \in SegNos : n2 # w => files'[n2].synced = Len(files'[n2].frames)
    BY <1>n, <2>2
  <2>4. ASSUME NEW m \in Live, NEW i \in Wholes(m)', i > files'[m].synced
        PROVE  /\ Rec(m, i)'.seq > Len(logged)
               /\ \A q \in DOMAIN dir.snaps \cup DOMAIN flushed.snaps : q < Rec(m, i)'.seq
    <3>1. m = w
      <4> SUFFICES ASSUME m # w PROVE FALSE
        OBVIOUS
      <4>1. m \in SegNos /\ files'[m] = files[m] /\ files'[m].frames \in Seq(Record \cup {Torn})
        BY <1>n, <1>v DEF Inv, Types
      <4>2. i \in 1..Len(files'[m].frames)
        BY <4>1 DEF Wholes
      <4> QED BY <2>3, <2>4, <4>1, <4>2
    <3>2. i \in (L + 1)..(L + k)
      BY <1>h, <1>i, <1>n, <2>1, <2>4, <3>1
    <3>3. Rec(m, i)'.seq > Len(D)
      BY <1>i, <1>j, <1>n, <3>1, <3>2
    <3>4. Len(logged) <= Len(D) /\ Len(logged) \in Nat
      <4>1. IsPrefix(logged, D) /\ logged \in Seq(Ops)
        BY DEF Inv, Acknowledged, Types
      <4> QED BY <4>1, PrefixIs
    <3>5. \A q \in DOMAIN dir.snaps \cup DOMAIN flushed.snaps : q \in 0..Len(D)
      BY DEF Inv, Disk, SnapshotsOf
    <3>6. Rec(m, i)'.seq \in Nat
      BY <1>i, <1>j, <1>n, <3>1, <3>2
    <3> QED BY <1>i, <3>3, <3>4, <3>5, <3>6
  <2> QED BY <2>1, <2>3, <2>4
<1>14. Disk(E)'
  BY <1>1, <1>2, <1>3, <1>4, <1>5, <1>6, <1>8, <1>9 DEF Disk
<1>16. \A n2 \in Live' : n2 > mem.wal => files'[n2].frames = <<>>
  BY <1>7, <1>v, <1>w
<1> QED BY <1>10, <1>11, <1>12, <1>13, <1>14, <1>16, <1>m, <1>n, <1>w DEF WrittenTo

\* The types of a segment after a write of k records and perhaps part of another.
LEMMA AppendedTypes ==
    ASSUME NEW D \in Seq(Ops), Inv(D), Accepts, NEW n \in Nat, NEW k \in 0..n,
           NEW torn \in BOOLEAN, issued + n <= MaxOps,
           files' = [files EXCEPT ![mem.wal].frames = @ \o (SubSeq(Records(n), 1, k) \o TornEnd(torn))]
    PROVE  /\ files' \in [SegNos -> [header : BOOLEAN, frames : Seq(Record \cup {Torn}), synced : Nat]]
           /\ \A m \in SegNos : files'[m].synced <= Len(files'[m].frames)
<1>w. PICK w : w = mem.wal
  OBVIOUS
<1>a. mem.seq = Len(D) /\ w \in SegNos
  BY <1>w, ManifestTypes DEF Accepts, Inv, Types, Memory, Writing
<1>i. issued \in Nat /\ Len(D) <= issued
  BY StoreAssumption DEF Inv, Types, Memory, StoreAssumption
<1>1. files \in [SegNos -> [header : BOOLEAN, frames : Seq(Frame), synced : Nat]]
  BY DEF Inv, Types, Frame
<1>2. PICK old : old = files[w].frames
  OBVIOUS
<1>3. PICK new : new = old \o (SubSeq(Records(n), 1, k) \o TornEnd(torn))
  OBVIOUS
<1>4. old \in Seq(Frame) /\ files[w] \in [header : BOOLEAN, frames : Seq(Frame), synced : Nat]
      /\ files[w].synced <= Len(old)
  BY <1>1, <1>2, <1>a DEF Inv, Types
<1>5. IsAppended(D, old, new, k, torn)
  BY <1>3, <1>4, <1>a, <1>i, AppendedFrames DEF TornEnd
<1>6. new \in Seq(Frame) /\ Len(new) >= Len(old)
  <2>1. new \in Seq(Frame) /\ Len(new) = Len(old) + k + (IF torn THEN 1 ELSE 0) /\ Len(old) \in Nat
    BY <1>4, <1>5 DEF IsAppended
  <2> QED BY <2>1
<1>7. PICK f : f = [files[w] EXCEPT !.frames = new]
  OBVIOUS
<1>8. f \in [header : BOOLEAN, frames : Seq(Frame), synced : Nat] /\ f.frames = new /\ f.synced = files[w].synced
  BY <1>4, <1>6, <1>7
<1>9. files' = [files EXCEPT ![w] = f]
  BY <1>2, <1>3, <1>7, <1>w
<1>10. files' \in [SegNos -> [header : BOOLEAN, frames : Seq(Frame), synced : Nat]]
  BY <1>1, <1>8, <1>9, <1>a
<1>11. \A m \in SegNos : files'[m].synced <= Len(files'[m].frames)
  <2> SUFFICES ASSUME NEW m \in SegNos PROVE files'[m].synced <= Len(files'[m].frames)
    OBVIOUS
  <2>1. CASE m = w
    <3>1. files'[m] = f
      BY <1>1, <1>8, <1>9, <1>a, <2>1
    <3>2. files[w].synced \in Nat /\ Len(new) \in Nat /\ Len(old) \in Nat
      BY <1>4, <1>6
    <3>3. files[w].synced <= Len(new)
      BY <1>4, <1>6, <3>2
    <3> QED BY <1>8, <3>1, <3>3
  <2>2. CASE m # w
    <3>1. files'[m] = files[m]
      BY <1>1, <1>9, <2>2
    <3> QED BY <3>1 DEF Inv, Types
  <2> QED BY <2>1, <2>2
<1> QED BY <1>10, <1>11 DEF Frame

\* A whole batch is written, and not fsynced yet.
LEMMA AppendAllKeeps ==
    ASSUME NEW D \in Seq(Ops), Inv(D), NEW n \in 1..MaxBatch, AppendAll(n),
           NEW E, E = Longer(D, n)
    PROVE  Inv(E)'
<1>w. PICK w : w = mem.wal
  OBVIOUS
<1>n. n \in Nat /\ n > 0 /\ n \in 0..n /\ issued + n <= MaxOps
  BY StoreAssumption DEF AppendAll, StoreAssumption
<1>i. issued \in Nat /\ Len(D) <= issued /\ MaxOps \in Nat /\ Len(D) \in Nat
  BY StoreAssumption DEF Inv, Types, Memory, StoreAssumption
<1>a. /\ Accepts /\ pc = "idle" /\ pc' = "append" /\ ~mem.poisoned /\ mem.state = D /\ mem.seq = Len(D)
      /\ issued' = issued + n /\ UNCHANGED <<dir, flushed, logged, faults>>
      /\ mem' = [mem EXCEPT !.state = D \o Batch(n)]
      /\ w \in Kept /\ w <= Eff(flushed.manifest).wal
      /\ dir.manifest # NoManifest /\ flushed.manifest # NoManifest
  BY <1>w DEF AppendAll, Accepts, Inv, Types, Memory, Writing, Naming
<1>e. E \in Seq(Ops) /\ Len(E) = Len(D) + n /\ E = D \o Batch(n)
  BY <1>i, <1>n, LongerIs DEF Longer, Batch
<1>m. /\ mem' \in [state : Seq(Ops), seq : Nat, wal : 0..MaxSeg, since : Nat, poisoned : BOOLEAN]
      /\ mem'.state = E /\ mem'.seq = Len(D) /\ mem'.wal = w /\ ~mem'.poisoned
  BY <1>a, <1>e, <1>w DEF Inv, Types
<1>f. files' = [files EXCEPT ![mem.wal].frames = @ \o (SubSeq(Records(n), 1, n) \o TornEnd(FALSE))]
  <2>1. Records(n) \in Seq(Frame) /\ Len(Records(n)) = n
    <3>1. \A i \in 1..n : [seq |-> mem.seq + i, op |-> issued + i] \in Record
      BY <1>a, <1>i, <1>n DEF Record, Ops
    <3> QED BY <1>n, <3>1 DEF Records, Frame
  <2>2. SubSeq(Records(n), 1, n) \o TornEnd(FALSE) = Records(n)
    BY <1>n, <2>1 DEF TornEnd
  <2> QED BY <2>2 DEF AppendAll, Write
<1>1. Types'
  <2>1. /\ files' \in [SegNos -> [header : BOOLEAN, frames : Seq(Record \cup {Torn}), synced : Nat]]
        /\ \A m \in SegNos : files'[m].synced <= Len(files'[m].frames)
    BY <1>a, <1>f, <1>n, AppendedTypes
  <2>2. issued' \in 0..MaxOps
    BY <1>a, <1>i, <1>n
  <2> QED BY <1>a, <1>m, <2>1, <2>2 DEF Inv, Types
<1>2. WrittenTo(w, E, FALSE, n)
  BY <1>1, <1>a, <1>f, <1>n, <1>w, AppendedKeeps
<1>3. Disk(E)' /\ Acknowledged(E)'
  BY <1>2 DEF WrittenTo
<1>4. Memory(E)'
  <2>1. Len(E) <= issued' /\ Len(D) <= Len(E)
    BY <1>a, <1>e, <1>i, <1>n
  <2>2. /\ files'[mem'.wal].frames # <<>> /\ Last(files'[mem'.wal].frames) # Torn
        /\ Last(files'[mem'.wal].frames).seq = Len(E)
    BY <1>2, <1>m, <1>n DEF WrittenTo
  <2> QED BY <1>a, <1>m, <2>1, <2>2 DEF Memory
<1>5. Writing'
  <2>1. Wholes(mem.wal)' = DOMAIN files'[mem'.wal].frames
    BY <1>2, <1>m DEF WrittenTo, Wholes
  <2>2. Kept' = Kept
    BY <1>a DEF Kept
  <2> QED BY <1>2, <1>a, <1>m, <2>1, <2>2 DEF WrittenTo, Writing
<1>6. Naming' /\ Checkpointing'
  BY <1>a DEF Naming, Checkpointing
<1>7. Caching'
  BY <1>2, <1>a, <1>m DEF WrittenTo, Caching
<1> QED BY <1>1, <1>3, <1>4, <1>5, <1>6, <1>7, <1>e DEF Inv

\* The write fails, or the process dies, after k records.
LEMMA AppendCutKeeps ==
    ASSUME NEW D \in Seq(Ops), Inv(D), NEW n \in 1..MaxBatch, NEW k \in 0..MaxBatch,
           NEW torn \in BOOLEAN, NEW died \in BOOLEAN, AppendCut(n, k, torn, died),
           NEW E, E = Longer(D, k)
    PROVE  Inv(E)'
<1>w. PICK w : w = mem.wal
  OBVIOUS
<1>n. n \in Nat /\ k \in Nat /\ k < n /\ k \in 0..n /\ issued + n <= MaxOps
  <2>1. k < n /\ issued + n <= MaxOps
    BY DEF AppendCut
  <2> QED BY <2>1, StoreAssumption DEF StoreAssumption
<1>i. issued \in Nat /\ Len(D) <= issued /\ MaxOps \in Nat /\ Len(D) \in Nat /\ issued + k <= MaxOps
  <2>1. issued \in Nat /\ Len(D) <= issued /\ MaxOps \in Nat /\ Len(D) \in Nat
    BY StoreAssumption DEF Inv, Types, Memory, StoreAssumption
  <2> QED BY <1>n, <2>1
<1>a. /\ Accepts /\ pc = "idle" /\ ~mem.poisoned /\ mem.state = D /\ mem.seq = Len(D)
      /\ issued' = issued + n /\ UNCHANGED <<dir, flushed, logged, faults>>
      /\ w \in Kept /\ w <= Eff(flushed.manifest).wal
      /\ dir.manifest # NoManifest /\ flushed.manifest # NoManifest
      /\ \/ pc' = "down" /\ mem' = NoProcess
         \/ pc' = "idle" /\ mem' = [mem EXCEPT !.state = D \o Batch(n), !.poisoned = TRUE]
  BY <1>w DEF AppendCut, Accepts, Inv, Types, Memory, Writing, Naming
<1>e. E \in Seq(Ops) /\ Len(E) = Len(D) + k
  BY <1>i, <1>n, LongerIs
<1>g. PICK G : G = Longer(D, n)
  OBVIOUS
<1>h. G \in Seq(Ops) /\ Len(G) = Len(D) + n /\ G = D \o Batch(n) /\ IsPrefix(E, G)
  <2>1. /\ G \in Seq(Ops) /\ Len(G) = Len(D) + n
        /\ \A i \in 1..Len(D) : G[i] = D[i]
        /\ \A i \in 1..n : G[Len(D) + i] = issued + i
    BY <1>g, <1>i, <1>n, LongerIs
  <2>2. /\ \A i \in 1..Len(D) : E[i] = D[i]
        /\ \A i \in 1..k : E[Len(D) + i] = issued + i
    BY <1>i, <1>n, LongerIs
  <2>3. ASSUME NEW i \in 1..Len(E) PROVE E[i] = G[i]
    <3>1. CASE i <= Len(D)
      BY <1>i, <2>1, <2>2, <3>1
    <3>2. CASE ~(i <= Len(D))
      <4>1. PICK x : x = i - Len(D)
        OBVIOUS
      <4>2. x \in 1..k /\ x \in 1..n /\ i = Len(D) + x
        BY <1>e, <1>i, <1>n, <3>2, <4>1
      <4> QED BY <2>1, <2>2, <4>2
    <3> QED BY <3>1, <3>2
  <2>4. Len(E) <= Len(G)
    BY <1>e, <1>i, <1>n, <2>1
  <2>5. IsPrefix(E, G)
    BY <1>e, <2>1, <2>3, <2>4, PrefixIs
  <2> QED BY <1>g, <2>1, <2>5 DEF Longer, Batch
<1>m. /\ mem' \in [state : Seq(Ops), seq : Nat, wal : 0..MaxSeg, since : Nat, poisoned : BOOLEAN]
      /\ \/ pc' = "down" /\ mem' = NoProcess /\ mem'.state = <<>> /\ ~mem'.poisoned
         \/ pc' = "idle" /\ mem'.state = G /\ mem'.seq = Len(D) /\ mem'.wal = w /\ mem'.poisoned
  <2>1. NoProcess \in [state : Seq(Ops), seq : Nat, wal : 0..MaxSeg, since : Nat, poisoned : BOOLEAN]
        /\ NoProcess.state = <<>> /\ ~NoProcess.poisoned
    BY StoreAssumption DEF NoProcess, StoreAssumption
  <2>2. mem \in [state : Seq(Ops), seq : Nat, wal : 0..MaxSeg, since : Nat, poisoned : BOOLEAN]
    BY DEF Inv, Types
  <2>3. CASE mem' = NoProcess /\ pc' = "down"
    BY <2>1, <2>3
  <2>4. CASE mem' = [mem EXCEPT !.state = G, !.poisoned = TRUE] /\ pc' = "idle"
    BY <1>a, <1>h, <1>w, <2>2, <2>4
  <2> QED BY <1>a, <1>h, <2>3, <2>4
<1>f. files' = [files EXCEPT ![mem.wal].frames = @ \o (SubSeq(Records(n), 1, k) \o TornEnd(torn))]
  BY DEF AppendCut, Write, TornEnd
<1>1. Types'
  <2>1. /\ files' \in [SegNos -> [header : BOOLEAN, frames : Seq(Record \cup {Torn}), synced : Nat]]
        /\ \A m \in SegNos : files'[m].synced <= Len(files'[m].frames)
    BY <1>a, <1>f, <1>n, AppendedTypes
  <2>2. issued' \in 0..MaxOps
    BY <1>a, <1>i, <1>n
  <2> QED BY <1>a, <1>m, <2>1, <2>2 DEF Inv, Types
<1>2. WrittenTo(w, E, torn, k)
  BY <1>1, <1>a, <1>f, <1>n, <1>w, AppendedKeeps
<1>3. Disk(E)' /\ Acknowledged(E)'
  BY <1>2 DEF WrittenTo
<1>4. Memory(E)'
  <2>1. Len(E) <= issued' /\ Len(D) <= Len(E) /\ Len(G) <= issued' /\ 0 <= issued'
    BY <1>a, <1>e, <1>h, <1>i, <1>n
  <2>2. CASE pc' = "down"
    BY <1>m, <2>1, <2>2 DEF Memory
  <2>3. CASE pc' = "idle"
    BY <1>h, <1>m, <2>1, <2>3 DEF Memory
  <2> QED BY <1>m, <2>2, <2>3
<1>5. Writing'
  <2> SUFFICES ASSUME pc' = "idle", mem'.wal = w, mem'.poisoned PROVE Writing'
    BY <1>m DEF Writing
  <2>1. Kept' = Kept
    BY <1>a DEF Kept
  <2> QED BY <1>2, <1>a, <2>1 DEF WrittenTo, Writing
<1>6. Naming' /\ Checkpointing'
  BY <1>a DEF Naming, Checkpointing
<1>7. Caching'
  BY <1>2, <1>a, <1>m DEF WrittenTo, Caching
<1> QED BY <1>1, <1>3, <1>4, <1>5, <1>6, <1>7, <1>e DEF Inv

-----------------------------------------------------------------------------
(* The power goes.                                                         *)

\* What a file keeps of its frames.
LEMMA SurvivesIs ==
    ASSUME NEW f \in [header : BOOLEAN, frames : Seq(Frame), synced : Nat],
           NEW k \in 0..Len(f.frames), NEW torn \in BOOLEAN, NEW g, g = Survives(f, k, torn),
           \A i \in DOMAIN f.frames : i < Len(f.frames) => f.frames[i] # Torn
    PROVE  /\ g \in [header : BOOLEAN, frames : Seq(Frame), synced : Nat]
           /\ g.header = f.header /\ g.synced = k /\ k <= Len(g.frames)
           /\ \A i \in DOMAIN g.frames : i < Len(g.frames) => g.frames[i] # Torn
           /\ {i \in DOMAIN g.frames : g.frames[i] # Torn} =
                 {i \in DOMAIN f.frames : f.frames[i] # Torn /\ i <= k}
           /\ \A i \in 1..k : g.frames[i] = f.frames[i]
<1>1. PICK fs : fs = f.frames
  OBVIOUS
<1>2. PICK cut : cut = (torn /\ k < Len(fs))
  OBVIOUS
<1>3. PICK tail : tail = IF cut THEN <<Torn>> ELSE <<>>
  OBVIOUS
<1>4. PICK kept : kept = SubSeq(fs, 1, k)
  OBVIOUS
<1>5. PICK gs : gs = kept \o tail
  OBVIOUS
<1>6. fs \in Seq(Frame) /\ k \in 0..Len(fs) /\ Len(fs) \in Nat /\ k \in Nat
  BY <1>1
<1>7. kept \in Seq(Frame) /\ Len(kept) = k /\ \A i \in 1..k : kept[i] = fs[i]
  BY <1>4, <1>6, FirstOf
<1>8. tail \in Seq(Frame) /\ (cut => Len(tail) = 1 /\ tail[1] = Torn) /\ (~cut => Len(tail) = 0)
  <2>1. Torn \in Frame
    BY DEF Frame
  <2>2. CASE cut
    BY <1>3, <2>1, <2>2
  <2>3. CASE ~cut
    BY <1>3, <2>3
  <2> QED BY <2>2, <2>3
<1>9. /\ gs \in Seq(Frame) /\ Len(gs) = k + Len(tail)
      /\ \A i \in 1..k : gs[i] = fs[i]
      /\ \A i \in 1..Len(tail) : gs[k + i] = tail[i]
  <2>1. IsJoined(kept \o tail, kept, tail, Frame)
    BY <1>7, <1>8, Joined
  <2> QED BY <1>5, <1>7, <2>1 DEF IsJoined
<1>10. (cut /\ Len(gs) = k + 1 /\ gs[k + 1] = Torn /\ k < Len(fs)) \/ (~cut /\ Len(gs) = k)
  <2>1. CASE cut
    <3>1. Len(tail) = 1 /\ tail[1] = Torn /\ k < Len(fs)
      BY <1>2, <1>8, <2>1
    <3>2. 1 \in 1..Len(tail)
      BY <3>1
    <3>3. gs[k + 1] = Torn
      BY <1>9, <3>1, <3>2
    <3> QED BY <1>9, <2>1, <3>1, <3>3
  <2>2. CASE ~cut
    BY <1>6, <1>8, <1>9, <2>2
  <2> QED BY <2>1, <2>2
<1>11. g = [f EXCEPT !.frames = gs, !.synced = k]
  BY <1>1, <1>2, <1>3, <1>4, <1>5 DEF Survives
<1>12. g.header = f.header /\ g.frames = gs /\ g.synced = k
       /\ g \in [header : BOOLEAN, frames : Seq(Frame), synced : Nat]
  BY <1>6, <1>9, <1>11
<1>13. DOMAIN gs = 1..Len(gs) /\ DOMAIN fs = 1..Len(fs) /\ Len(gs) \in Nat
  BY <1>6, <1>9
<1>14. \A i \in DOMAIN gs : i < Len(gs) => gs[i] # Torn
  <2> SUFFICES ASSUME NEW i \in DOMAIN gs, i < Len(gs) PROVE fs[i] # Torn /\ i \in 1..k
    BY <1>9
  <2>1. i \in 1..k /\ i \in 1..Len(fs) /\ i < Len(fs)
    <3>1. i \in Nat /\ 1 <= i /\ i < Len(gs) /\ Len(fs) \in Nat /\ k \in Nat /\ k <= Len(fs)
      BY <1>6, <1>13
    <3>2. (Len(gs) = k + 1 /\ k < Len(fs)) \/ Len(gs) = k
      BY <1>10
    <3> QED BY ONLY <3>1, <3>2
  <2> QED BY <1>1, <1>13, <2>1
<1>16. k <= Len(gs)
  BY <1>6, <1>10
<1>15. {i \in DOMAIN gs : gs[i] # Torn} = {i \in DOMAIN fs : fs[i] # Torn /\ i <= k}
  <2>1. ASSUME NEW i \in DOMAIN gs, gs[i] # Torn PROVE i \in DOMAIN fs /\ fs[i] # Torn /\ i <= k
    <3>1. i \in 1..k
      <4>1. i \in Nat /\ 1 <= i /\ i <= Len(gs)
        BY <1>13
      <4>2. i <= k
        BY <1>6, <1>10, <2>1, <4>1
      <4> QED BY <1>6, <4>1, <4>2
    <3> QED BY <1>6, <1>9, <1>13, <2>1, <3>1
  <2>2. ASSUME NEW i \in DOMAIN fs, fs[i] # Torn, i <= k PROVE i \in DOMAIN gs /\ gs[i] # Torn
    <3>1. i \in 1..k /\ i \in 1..Len(gs)
      <4>1. i \in Nat /\ 1 <= i /\ k \in Nat
        BY <1>6, <1>13
      <4>2. i <= k
        BY <2>2
      <4>3. k <= Len(gs) /\ Len(gs) \in Nat
        BY <1>13, <1>16
      <4> QED BY ONLY <4>1, <4>2, <4>3
    <3> QED BY <1>9, <1>13, <2>2, <3>1
  <2> QED BY <2>1, <2>2
<1> QED BY <1>1, <1>9, <1>12, <1>14, <1>15, <1>16

\* What is left of the frames of each file when the power goes.
LEMMA FilesAfterPowerLoss ==
    ASSUME NEW D \in Seq(Ops), Inv(D), "power" \in faults, PowerLoss
    PROVE  \E keep :
           /\ \A n \in SegNos : keep[n] \in Nat /\ files[n].synced <= keep[n]
           /\ \A n \in SegNos : n \notin Unsynced => files'[n] = files[n] /\ keep[n] = Len(files[n].frames)
           /\ files' \in [SegNos -> [header : BOOLEAN, frames : Seq(Record \cup {Torn}), synced : Nat]]
           /\ \A n \in SegNos :
                 /\ files'[n].header = files[n].header
                 /\ files'[n].synced = keep[n] /\ keep[n] <= Len(files'[n].frames)
                 /\ \A i \in DOMAIN files'[n].frames :
                       i < Len(files'[n].frames) => files'[n].frames[i] # Torn
                 /\ Wholes(n)' = {i \in Wholes(n) : i <= keep[n]}
                 /\ \A i \in Wholes(n)' : Rec(n, i)' = Rec(n, i)
<1>1. PICK torn \in BOOLEAN, k \in [Unsynced -> 0..MaxOps] :
          /\ \A n \in Unsynced : k[n] \in files[n].synced..Len(files[n].frames)
          /\ files' = [n \in SegNos |-> IF n \in Unsynced
                                        THEN Survives(files[n], k[n], torn) ELSE files[n]]
  BY DEF PowerLoss
<1>2. PICK keep : keep = [n \in SegNos |-> IF n \in Unsynced THEN k[n] ELSE Len(files[n].frames)]
  OBVIOUS
<1>3. /\ files \in [SegNos -> [header : BOOLEAN, frames : Seq(Frame), synced : Nat]]
      /\ \A n \in SegNos : files[n].synced <= Len(files[n].frames)
      /\ \A n \in SegNos : \A i \in DOMAIN files[n].frames :
             i < Len(files[n].frames) => files[n].frames[i] # Torn
  BY DEF Inv, Types, Disk, TornLast, Frame
<1>4. ASSUME NEW n \in SegNos
      PROVE  /\ keep[n] \in Nat /\ files[n].synced <= keep[n]
             /\ n \notin Unsynced => files'[n] = files[n] /\ keep[n] = Len(files[n].frames)
             /\ files'[n] \in [header : BOOLEAN, frames : Seq(Frame), synced : Nat]
             /\ files'[n].header = files[n].header
             /\ files'[n].synced = keep[n] /\ keep[n] <= Len(files'[n].frames)
             /\ \A i \in DOMAIN files'[n].frames :
                   i < Len(files'[n].frames) => files'[n].frames[i] # Torn
             /\ Wholes(n)' = {i \in Wholes(n) : i <= keep[n]}
             /\ \A i \in Wholes(n)' : Rec(n, i)' = Rec(n, i)
  <2>0. /\ files[n] \in [header : BOOLEAN, frames : Seq(Frame), synced : Nat]
        /\ files[n].synced <= Len(files[n].frames) /\ Len(files[n].frames) \in Nat
        /\ files[n].synced \in Nat
    BY <1>3
  <2>1. CASE n \notin Unsynced
    <3>1. files'[n] = files[n] /\ keep[n] = Len(files[n].frames) /\ files[n].synced = Len(files[n].frames)
      BY <1>1, <1>2, <2>0, <2>1 DEF Unsynced
    <3>2. \A i \in Wholes(n) : i <= keep[n]
      BY <2>0, <3>1 DEF Wholes
    <3>3. Wholes(n)' = Wholes(n) /\ \A i : Rec(n, i)' = Rec(n, i)
      BY <3>1 DEF Wholes, Rec
    <3> QED BY <1>3, <2>0, <2>1, <3>1, <3>2, <3>3
  <2>2. CASE n \in Unsynced
    <3>1. PICK f : f = files[n]
      OBVIOUS
    <3>2. PICK c : c = keep[n]
      OBVIOUS
    <3>3. PICK g : g = files'[n]
      OBVIOUS
    <3>4. /\ c \in 0..Len(f.frames) /\ f.synced <= c /\ g = Survives(f, c, torn)
          /\ f \in [header : BOOLEAN, frames : Seq(Frame), synced : Nat]
      BY <1>1, <1>2, <2>0, <2>2, <3>1, <3>2, <3>3
    <3>5. \A i \in DOMAIN f.frames : i < Len(f.frames) => f.frames[i] # Torn
      BY <1>3, <3>1
    <3>6. /\ g \in [header : BOOLEAN, frames : Seq(Frame), synced : Nat]
          /\ g.header = f.header /\ g.synced = c /\ c <= Len(g.frames)
          /\ \A i \in DOMAIN g.frames : i < Len(g.frames) => g.frames[i] # Torn
          /\ {i \in DOMAIN g.frames : g.frames[i] # Torn} =
                 {i \in DOMAIN f.frames : f.frames[i] # Torn /\ i <= c}
          /\ \A i \in 1..c : g.frames[i] = f.frames[i]
      BY <3>4, <3>5, SurvivesIs
    <3>7. Wholes(n)' = {i \in Wholes(n) : i <= c}
      BY <3>1, <3>3, <3>6 DEF Wholes
    <3>8. \A i \in Wholes(n)' : Rec(n, i)' = Rec(n, i)
      <4>1. \A i \in Wholes(n)' : i \in 1..c
        BY <2>0, <3>4, <3>7 DEF Wholes
      <4> QED BY <3>1, <3>3, <3>6, <4>1 DEF Rec
    <3> QED BY <2>2, <3>1, <3>2, <3>3, <3>4, <3>6, <3>7, <3>8
  <2> QED BY <2>1, <2>2
<1>5. files' \in [SegNos -> [header : BOOLEAN, frames : Seq(Record \cup {Torn}), synced : Nat]]
  <2>1. files' = [n \in SegNos |-> files'[n]]
    BY <1>1
  <2> QED BY <1>4, <2>1 DEF Frame
<1> QED BY <1>4, <1>5

\* The records that go are the last ones of the log, none of them acknowledged
\* and none of them in a snapshot.
LEMMA LastAreLost ==
    ASSUME NEW D \in Seq(Ops), Inv(D), "power" \in faults,
           NEW keep, \A n \in SegNos : keep[n] \in Nat /\ files[n].synced <= keep[n]
    PROVE  \E c \in 0..Len(D) :
              /\ Len(logged) <= c
              /\ \A k \in DOMAIN dir.snaps \cup DOMAIN flushed.snaps : k <= c
              /\ \A n \in Live : \A i \in Wholes(n) : i <= keep[n] <=> Rec(n, i).seq <= c
<1>0. /\ Len(D) \in Nat /\ Len(logged) \in Nat /\ Len(logged) <= Len(D)
      /\ Live \subseteq SegNos /\ SegNos \subseteq Nat
      /\ \A k \in DOMAIN dir.snaps \cup DOMAIN flushed.snaps : k \in Nat /\ k <= Len(D)
      /\ \A n \in Live : \A i \in Wholes(n) : Rec(n, i).seq \in 1..Len(D)
      /\ Eff(flushed.manifest).wal \in Nat
  <2>1. Len(logged) <= Len(D) /\ Len(logged) \in Nat /\ Len(D) \in Nat
    BY PrefixIs DEF Inv, Types, Acknowledged
  <2>2. \A k \in DOMAIN dir.snaps \cup DOMAIN flushed.snaps : k \in Nat /\ k <= Len(D)
    BY <2>1 DEF Inv, Disk, SnapshotsOf
  <2>3. \A n \in Live : \A i \in Wholes(n) : Rec(n, i).seq \in 1..Len(D)
    BY DEF Inv, Disk, RecordsOf
  <2>4. Live \subseteq SegNos /\ SegNos \subseteq Nat /\ Eff(flushed.manifest).wal \in Nat
    BY ManifestTypes DEF Inv, SegNos
  <2> QED BY <2>1, <2>2, <2>3, <2>4
<1>1. \A n \in SegNos : \A i \in Wholes(n) : i \in Nat /\ i >= 1 /\ i <= Len(files[n].frames)
                                             /\ Len(files[n].frames) \in Nat
  BY DEF Wholes, Inv, Types
<1>2. CASE \A n \in Live : \A i \in Wholes(n) : i <= keep[n]
  BY <1>0, <1>2
<1>3. CASE ~ \A n \in Live : \A i \in Wholes(n) : i <= keep[n]
  <2>1. PICK w \in Live : \E i \in Wholes(w) : ~(i <= keep[w])
    BY <1>3
  <2>2. PICK x \in Wholes(w) : ~(x <= keep[w])
    BY <2>1
  <2>3. PICK j : j = keep[w] + 1
    OBVIOUS
  <2>4. w \in SegNos /\ keep[w] \in Nat /\ files[w].synced \in Nat /\ files[w].synced <= keep[w]
    BY <1>0 DEF Inv, Types
  <2>5. j \in Nat /\ j <= x /\ files[w].synced < j
    BY <1>1, <2>2, <2>3, <2>4
  <2>6. j \in Wholes(w)
    <3>1. CASE j = x
      BY <2>2, <3>1
    <3>2. CASE j # x
      <4>1. j \in 1..Len(files[w].frames) /\ j < Len(files[w].frames)
        BY <1>1, <2>2, <2>3, <2>4, <2>5, <3>2
      <4>2. files[w].frames \in Seq(Frame)
        BY <2>4 DEF Inv, Types, Frame
      <4>3. j \in DOMAIN files[w].frames
        BY <4>1, <4>2
      <4> QED BY <2>4, <4>1, <4>3 DEF Wholes, Inv, Disk, TornLast
    <3> QED BY <3>1, <3>2
  <2>7. PICK r : r = Rec(w, j).seq
    OBVIOUS
  <2>8. r \in 1..Len(D) /\ Len(logged) < r
        /\ \A k \in DOMAIN dir.snaps \cup DOMAIN flushed.snaps : k < r
    <3>1. r \in 1..Len(D)
      BY <1>0, <2>6, <2>7
    <3>2. r > Len(logged) /\ \A k \in DOMAIN dir.snaps \cup DOMAIN flushed.snaps : k < r
      BY <2>5, <2>6, <2>7, <2>4 DEF Inv, Caching
    <3> QED BY <1>0, <3>1, <3>2
  <2>9. w = Eff(flushed.manifest).wal
    <3>1. files[w].synced # Len(files[w].frames)
      BY <1>1, <2>4, <2>5, <2>6
    <3> QED BY <2>4, <3>1 DEF Inv, Caching
  <2>10. ASSUME NEW n \in Live, NEW i \in Wholes(n)
         PROVE  i <= keep[n] <=> Rec(n, i).seq <= r - 1
    <3>1. PICK q : q = Rec(n, i).seq
      OBVIOUS
    <3>2. q \in Nat /\ n \in SegNos /\ n \in Nat /\ i \in Nat /\ i <= Len(files[n].frames) /\ r \in Nat
      BY <1>0, <1>1, <2>8, <3>1
    <3>3. /\ n < w \/ (n = w /\ i < j) => q < r
          /\ w < n \/ (n = w /\ j < i) => r < q
      BY <2>6, <2>7, <3>1 DEF Inv, Disk, Ordered
    <3>4. CASE n < w
      <4>1. files[n].synced = Len(files[n].frames)
        BY <1>0, <2>4, <2>9, <3>2, <3>4 DEF Inv, Caching
      <4>2. i <= keep[n]
        BY <3>2, <4>1
      <4> QED BY <3>1, <3>2, <3>3, <3>4, <4>2
    <3>5. CASE n > w
      <4>1. files[n].frames = <<>>
        BY <2>9, <3>5 DEF Inv, Disk, Ahead
      <4>2. Len(files[n].frames) = 0
        BY <4>1
      <4> QED BY <1>1, <3>2, <4>2
    <3>6. CASE n = w
      <4>1. CASE i = j
        <5>1. q = r /\ ~(i <= keep[n])
          BY <2>3, <2>4, <2>7, <3>1, <3>6, <4>1
        <5> QED BY <3>1, <3>2, <5>1
      <4>2. CASE i < j
        <5>1. i <= keep[n] /\ q < r
          BY <2>3, <2>4, <3>2, <3>3, <3>6, <4>2
        <5> QED BY <3>1, <3>2, <5>1
      <4>3. CASE i > j
        <5>1. ~(i <= keep[n]) /\ r < q
          BY <2>3, <2>4, <2>5, <3>2, <3>3, <3>6, <4>3
        <5> QED BY <3>1, <3>2, <5>1
      <4> QED BY <2>5, <3>2, <4>1, <4>2, <4>3
    <3> QED BY <2>4, <1>0, <3>2, <3>4, <3>5, <3>6
  <2>11. r - 1 \in 0..Len(D) /\ Len(logged) <= r - 1
         /\ \A k \in DOMAIN dir.snaps \cup DOMAIN flushed.snaps : k <= r - 1
    BY <1>0, <2>8
  <2> QED BY <2>10, <2>11
<1> QED BY <1>2, <1>3

\* The directory a power loss leaves.
LEMMA DirAfterPowerLoss ==
    ASSUME Types, PowerLoss
    PROVE  /\ dir' \in Dirs /\ flushed' = dir'
           /\ dir'.manifest \in {dir.manifest, flushed.manifest}
           /\ dir'.snaps \in {dir.snaps, flushed.snaps}
           /\ dir'.segs \subseteq Live /\ Kept \subseteq dir'.segs
           /\ Live' = dir'.segs /\ Kept' = dir'.segs
<1>0. dir' \in Outcomes
  BY DEF PowerLoss
<1>1. PICK m \in {dir.manifest, flushed.manifest},
         segs \in {S \in SUBSET (dir.segs \cup flushed.segs) : dir.segs \cap flushed.segs \subseteq S},
         snaps \in {dir.snaps, flushed.snaps} :
            dir' = [manifest |-> m, segs |-> segs, snaps |-> snaps]
  BY <1>0 DEF Outcomes
<1>b. segs \in SUBSET Live /\ Kept \subseteq segs
  BY <1>1 DEF Live, Kept
<1>2. flushed' = dir'
  BY DEF PowerLoss
<1>3. dir' \in Dirs
  <2>1. Live \subseteq SegNos
    BY ManifestTypes
  <2> QED BY <1>1, <1>b, <2>1 DEF Types, Dirs
<1> QED BY <1>1, <1>b, <1>2, <1>3 DEF Live, Kept

\* A power loss leaves a prefix of the log that holds what was acknowledged.
LEMMA PowerLossKeeps ==
    ASSUME NEW D \in Seq(Ops), Inv(D), PowerLoss
    PROVE  \E E \in Seq(Ops) : Inv(E)' /\ IsPrefix(E, D) /\ IsPrefix(logged, E)
<1>p. /\ "power" \in faults /\ pc' = "down" /\ mem' = NoProcess /\ UNCHANGED <<logged, issued, faults>>
      /\ Types
  BY DEF PowerLoss, Inv
<1>1. PICK keep :
         /\ \A n \in SegNos : keep[n] \in Nat /\ files[n].synced <= keep[n]
         /\ \A n \in SegNos : n \notin Unsynced => files'[n] = files[n] /\ keep[n] = Len(files[n].frames)
         /\ files' \in [SegNos -> [header : BOOLEAN, frames : Seq(Record \cup {Torn}), synced : Nat]]
         /\ \A n \in SegNos :
               /\ files'[n].header = files[n].header
               /\ files'[n].synced = keep[n] /\ keep[n] <= Len(files'[n].frames)
               /\ \A i \in DOMAIN files'[n].frames :
                     i < Len(files'[n].frames) => files'[n].frames[i] # Torn
               /\ Wholes(n)' = {i \in Wholes(n) : i <= keep[n]}
               /\ \A i \in Wholes(n)' : Rec(n, i)' = Rec(n, i)
  BY <1>p, FilesAfterPowerLoss
<1>2. PICK c \in 0..Len(D) :
         /\ Len(logged) <= c
         /\ \A k \in DOMAIN dir.snaps \cup DOMAIN flushed.snaps : k <= c
         /\ \A n \in Live : \A i \in Wholes(n) : i <= keep[n] <=> Rec(n, i).seq <= c
  BY <1>1, <1>p, LastAreLost
<1>3. PICK E : E = SubSeq(D, 1, c)
  OBVIOUS
<1>4. E \in Seq(Ops) /\ Len(E) = c /\ (\A i \in 1..c : E[i] = D[i]) /\ c \in Nat /\ Len(D) \in Nat /\ c <= Len(D)
  BY <1>3, FirstOf
<1>5. /\ dir' \in Dirs /\ flushed' = dir'
      /\ dir'.manifest \in {dir.manifest, flushed.manifest}
      /\ dir'.snaps \in {dir.snaps, flushed.snaps}
      /\ dir'.segs \subseteq Live /\ Kept \subseteq dir'.segs
      /\ Live' = dir'.segs /\ Kept' = dir'.segs
  BY <1>p, DirAfterPowerLoss
<1>6. /\ Live \subseteq SegNos /\ Live' \subseteq SegNos /\ Kept \subseteq SegNos
      /\ SegNos \subseteq Nat
      /\ Eff(dir.manifest).last \in Nat /\ Eff(flushed.manifest).last \in Nat
      /\ Eff(dir.manifest).wal \in Nat /\ Eff(flushed.manifest).wal \in Nat
  BY <1>p, <1>5, ManifestTypes DEF SegNos
<1>7. /\ Eff(dir'.manifest) \in {Eff(dir.manifest), Eff(flushed.manifest)}
      /\ Eff(dir'.manifest).wal >= Eff(flushed.manifest).wal
      /\ Eff(dir'.manifest).last >= Eff(flushed.manifest).last
      /\ Eff(dir'.manifest).wal \in Nat /\ Eff(dir'.manifest).last \in Nat
  <2>1. Eff(dir'.manifest) \in {Eff(dir.manifest), Eff(flushed.manifest)}
    BY <1>5
  <2>2. /\ Eff(flushed.manifest).last <= Eff(dir.manifest).last
        /\ Eff(flushed.manifest).wal <= Eff(dir.manifest).wal
    BY DEF Inv, Disk, Manifests
  <2> QED BY <1>6, <2>1, <2>2
<1>8. \A n \in SegNos : n \notin Unsynced => /\ files'[n] = files[n]
                                              /\ files[n].synced = Len(files[n].frames)
  <2>1. \A n \in SegNos : files[n].synced <= Len(files[n].frames) /\ files[n].synced \in Nat
                          /\ Len(files[n].frames) \in Nat
    BY <1>p DEF Types
  <2> QED BY <1>1, <2>1 DEF Unsynced
<1>9. \A n \in SegNos : files[n].frames = <<>> => files'[n] = files[n]
  <2> SUFFICES ASSUME NEW n \in SegNos, files[n].frames = <<>> PROVE n \notin Unsynced
    BY <1>8
  <2>1. Len(files[n].frames) = 0 /\ files[n].synced \in Nat
    BY <1>p DEF Types
  <2> QED BY <2>1 DEF Unsynced
<1>10. Types'
  <2>1. \A n \in SegNos : files'[n].synced <= Len(files'[n].frames)
    BY <1>1
  <2>2. /\ NoProcess \in [state : Seq(Ops), seq : Nat, wal : 0..MaxSeg, since : Nat, poisoned : BOOLEAN]
    BY StoreAssumption DEF NoProcess, StoreAssumption
  <2> QED BY <1>1, <1>5, <1>p, <2>1, <2>2 DEF Types
<1>11. RecordsOf(E)'
  <2> SUFFICES ASSUME NEW n \in Live', NEW i \in Wholes(n)'
               PROVE  Rec(n, i)'.seq \in 1..Len(E) /\ Rec(n, i)'.op = E[Rec(n, i)'.seq]
    BY DEF RecordsOf
  <2>1. n \in Live /\ n \in SegNos /\ i \in Wholes(n) /\ i <= keep[n] /\ Rec(n, i)' = Rec(n, i)
    BY <1>1, <1>5, <1>6
  <2>2. Rec(n, i).seq \in 1..Len(D) /\ Rec(n, i).op = D[Rec(n, i).seq] /\ Rec(n, i).seq <= c
    BY <1>2, <2>1 DEF Inv, Disk, RecordsOf
  <2>3. Rec(n, i).seq \in 1..c
    BY <1>4, <2>2
  <2> QED BY <1>4, <2>1, <2>2, <2>3
<1>12. SnapshotsOf(E)'
  <2> SUFFICES ASSUME NEW k \in DOMAIN dir'.snaps
               PROVE  k \in 0..Len(E) /\ dir'.snaps[k] = SubSeq(E, 1, k)
    BY <1>5 DEF SnapshotsOf
  <2>1. k \in 0..Len(D) /\ dir'.snaps[k] = SubSeq(D, 1, k) /\ k <= c
    BY <1>2, <1>5 DEF Inv, Disk, SnapshotsOf
  <2>2. k \in 0..c
    BY <1>4, <2>1
  <2>3. SubSeq(D, 1, k) = SubSeq(E, 1, k)
    <3>1. /\ SubSeq(D, 1, k) \in Seq(Ops) /\ Len(SubSeq(D, 1, k)) = k
          /\ \A i \in 1..k : SubSeq(D, 1, k)[i] = D[i]
      BY <2>1, FirstOf
    <3>2. /\ SubSeq(E, 1, k) \in Seq(Ops) /\ Len(SubSeq(E, 1, k)) = k
          /\ \A i \in 1..k : SubSeq(E, 1, k)[i] = E[i]
      BY <1>4, <2>2, FirstOf
    <3>3. \A i \in 1..k : i \in 1..c
      BY <1>4, <2>2
    <3>4. \A i \in 1..k : SubSeq(D, 1, k)[i] = SubSeq(E, 1, k)[i]
      BY <1>4, <3>1, <3>2, <3>3
    <3> QED BY <3>1, <3>2, <3>4
  <2> QED BY <1>4, <2>1, <2>2, <2>3
<1>13. Ordered'
  <2> SUFFICES ASSUME NEW n \in Live', NEW m \in Live', NEW i \in Wholes(n)', NEW j \in Wholes(m)',
                      n < m \/ (n = m /\ i < j)
               PROVE  Rec(n, i)'.seq < Rec(m, j)'.seq
    BY DEF Ordered
  <2>1. /\ n \in Live /\ m \in Live /\ i \in Wholes(n) /\ j \in Wholes(m)
        /\ Rec(n, i)' = Rec(n, i) /\ Rec(m, j)' = Rec(m, j)
    BY <1>1, <1>5, <1>6
  <2> QED BY <2>1 DEF Inv, Disk, Ordered
<1>14. Covered(E)'
  <2> SUFFICES ASSUME NEW q \in (Eff(dir'.manifest).last + 1)..Len(E)
               PROVE  \E n \in Kept' : \E i \in Wholes(n)' : Rec(n, i)' = Rec(n, i) /\ Rec(n, i).seq = q
    BY <1>5 DEF Covered
  <2>1. q \in (Eff(flushed.manifest).last + 1)..Len(D) /\ q <= c
    BY <1>4, <1>6, <1>7
  <2>a. PICK n \in Kept : \E i \in Wholes(n) : Rec(n, i).seq = q
    BY <2>1 DEF Inv, Disk, Covered
  <2>2. PICK i \in Wholes(n) : Rec(n, i).seq = q
    BY <2>a
  <2>3. n \in Live /\ n \in SegNos /\ n \in Kept'
    BY <1>5, <1>6
  <2>4. i \in Wholes(n)' /\ Rec(n, i)' = Rec(n, i)
    <3>1. i <= keep[n]
      BY <1>2, <2>1, <2>2, <2>3
    <3> QED BY <1>1, <2>3, <3>1
  <2> QED BY <2>2, <2>3, <2>4
<1>15. TornLast' /\ Headless'
  <2>1. TornLast'
    BY <1>1 DEF TornLast
  <2>2. Headless'
    BY <1>1, <1>9 DEF Headless, Inv, Disk
  <2> QED BY <2>1, <2>2
<1>16. Ahead'
  <2> SUFFICES ASSUME NEW n \in Live', n > Eff(dir'.manifest).wal PROVE files'[n].frames = <<>>
    BY <1>5 DEF Ahead
  <2>1. n \in Live /\ n \in SegNos /\ n \in Nat
    BY <1>5, <1>6
  <2>2. n > Eff(flushed.manifest).wal
    BY <1>6, <1>7, <2>1
  <2>3. files[n].frames = <<>>
    BY <2>1, <2>2 DEF Inv, Disk, Ahead
  <2> QED BY <1>9, <2>1, <2>3
<1>17. Manifests(E)'
  <2>1. ASSUME dir'.manifest # NoManifest
        PROVE  /\ dir'.manifest.wal \in Kept' /\ files'[dir'.manifest.wal].header
               /\ dir'.manifest.last # 0 => dir'.manifest.last \in DOMAIN dir'.snaps
    <3>1. /\ dir'.manifest.wal \in Kept /\ files[dir'.manifest.wal].header
          /\ dir'.manifest.last # 0 =>
                dir'.manifest.last \in DOMAIN dir.snaps \cap DOMAIN flushed.snaps
      BY <1>5, <2>1 DEF Inv, Disk, Manifests, Complete
    <3> QED BY <1>1, <1>5, <1>6, <3>1
  <2>2. Complete(dir.manifest)' /\ Complete(flushed.manifest)'
    BY <1>5, <2>1 DEF Complete
  <2>3. Eff(dir'.manifest).last <= Len(E)
    <3>1. CASE Eff(dir'.manifest).last = 0
      BY <1>4, <3>1
    <3>2. CASE Eff(dir'.manifest).last # 0
      <4>1. dir'.manifest # NoManifest /\ dir'.manifest.last = Eff(dir'.manifest).last
        BY <3>2 DEF Eff, FirstManifest
      <4>2. dir'.manifest.last \in DOMAIN dir'.snaps
        BY <2>1, <3>2, <4>1
      <4> QED BY <1>2, <1>4, <1>5, <4>1, <4>2
    <3> QED BY <3>1, <3>2
  <2>4. dir'.manifest = NoManifest => E = <<>>
    <3> SUFFICES ASSUME dir'.manifest = NoManifest PROVE E = <<>>
      OBVIOUS
    <3>1. D = <<>>
      BY <1>5 DEF Inv, Disk, Manifests
    <3>2. c = 0
      BY <1>4, <3>1
    <3> QED BY <1>4, <3>2
  <2> QED BY <1>5, <1>7, <2>2, <2>3, <2>4 DEF Manifests
<1>18. Memory(E)'
  <2>1. Len(D) <= issued /\ issued \in Nat /\ Len(NoProcess.state) = 0
    BY StoreAssumption DEF Inv, Types, Memory, NoProcess, StoreAssumption
  <2>2. Len(E) <= issued
    BY <1>4, <2>1
  <2> QED BY <1>p, <2>1, <2>2 DEF Memory, NoProcess
<1>19. Writing' /\ Naming' /\ Checkpointing'
  BY <1>p DEF Writing, Naming, Checkpointing
<1>20. IsPrefix(logged, E) /\ IsPrefix(E, D)
  <2>1. logged \in Seq(Ops) /\ \A i \in 1..Len(logged) : logged[i] = D[i]
    BY <1>p, PrefixIs DEF Inv, Types, Acknowledged
  <2>2. \A i \in 1..Len(logged) : i \in 1..c
    BY <1>2, <1>4, <2>1
  <2>3. IsPrefix(logged, E)
    BY <1>2, <1>4, <2>1, <2>2, PrefixIs
  <2> QED BY <1>4, <2>3, PrefixIs
<1>21. Caching'
  <2>1. ASSUME NEW n \in SegNos, ~(n = Eff(flushed'.manifest).wal /\ n = Eff(dir'.manifest).wal)
        PROVE  files'[n].synced = Len(files'[n].frames)
    <3>1. ~(n = Eff(flushed.manifest).wal /\ n = Eff(dir.manifest).wal)
      BY <1>5, <1>7, <2>1
    <3>2. files[n].synced = Len(files[n].frames)
      BY <1>p, <3>1 DEF Inv, Caching
    <3>3. n \notin Unsynced
      BY <1>p, <3>2 DEF Unsynced, Types
    <3> QED BY <1>8, <3>2, <3>3
  <2>2. ASSUME NEW n \in Live', NEW i \in Wholes(n)' PROVE ~(i > files'[n].synced)
    <3>1. n \in SegNos /\ i <= keep[n] /\ files'[n].synced = keep[n] /\ keep[n] \in Nat /\ i \in Nat
      <4>1. n \in SegNos /\ i \in Wholes(n) /\ i <= keep[n] /\ files'[n].synced = keep[n] /\ keep[n] \in Nat
        BY <1>1, <1>6
      <4> QED BY <1>p, <4>1 DEF Wholes, Types
    <3> QED BY <3>1
  <2> QED BY <1>p, <2>1, <2>2 DEF Caching
<1>22. Acknowledged(E)'
  BY <1>20, <1>p DEF Acknowledged
<1> QED
  <2>1. Disk(E)'
    BY <1>11, <1>12, <1>13, <1>14, <1>15, <1>16, <1>17 DEF Disk
  <2> QED BY <1>4, <1>10, <1>18, <1>19, <1>20, <1>21, <1>22, <2>1 DEF Inv

-----------------------------------------------------------------------------
(* Every step.                                                             *)

\* What the callers see as the log: the memory of the process, or the disk.
Seen(D) == IF pc = "down" THEN D ELSE mem.state

\* What a step does to it.
Moves(D, E) ==
    \/ UNCHANGED logged /\ Seen(E)' = Seen(D)
    \/ logged' = Seen(D) /\ Seen(E)' = Seen(D)
    \/ /\ UNCHANGED logged
       /\ Seen(E)' \in Seq(Ops) /\ Len(Seen(D)) < Len(Seen(E)') /\ IsPrefix(Seen(D), Seen(E)')
    \/ /\ UNCHANGED logged
       /\ IsPrefix(Seen(E)', Seen(D)) /\ IsPrefix(logged, Seen(E)')

\* Unless an append has failed, memory and disk hold one log.
LEMMA SeenIs ==
    ASSUME NEW D \in Seq(Ops), Inv(D)
    PROVE  /\ ~mem.poisoned => Seen(D) = D
           /\ pc = "down" => ~mem.poisoned
           /\ Seen(D) \in Seq(Ops) /\ IsPrefix(D, Seen(D))
<1>1. IsPrefix(D, D)
  BY PrefixIs
<1>2. pc = "down" => ~mem.poisoned
  BY DEF Inv, Memory, NoProcess
<1> QED BY <1>1, <1>2 DEF Inv, Memory, Types, Seen

\* The steps that leave the log alone.
LEMMA CalmStep ==
    ASSUME Journaled, NEW D \in Seq(Ops), Inv(D),
           \/ Open \/ RemoveTornSegment \/ CreateFirst \/ CreateFirstCut \/ Attach \/ Publish
           \/ Checkpoint \/ Snapshot \/ StartSegment \/ \E died \in BOOLEAN : StartSegmentCut(died)
           \/ Swap \/ SyncDir \/ Sweep \/ CheckpointFails
    PROVE  Inv(D)' /\ ~mem.poisoned /\ ~mem'.poisoned /\ UNCHANGED logged
<1>0. mem.poisoned => pc = "idle"
  BY DEF Inv, Memory
<1>m. \A x, y : Types => /\ [mem EXCEPT !.wal = x, !.since = y].poisoned = mem.poisoned
  BY DEF Types
<1>n. NoProcess.poisoned = FALSE
  BY DEF NoProcess
<1>1. CASE Open
  <2>1. Inv(D)'
    BY <1>1, OpenKeeps
  <2>2. pc = "down" /\ mem' \in {Loaded, NoProcess} /\ UNCHANGED logged
    BY <1>1 DEF Open
  <2> QED BY <1>0, <1>n, <2>1, <2>2 DEF Loaded
<1>2. CASE RemoveTornSegment
  BY <1>0, <1>2, RemoveTornSegmentKeeps DEF RemoveTornSegment
<1>3. CASE CreateFirst
  BY <1>0, <1>3, CreateFirstKeeps DEF CreateFirst
<1>4. CASE CreateFirstCut
  BY <1>0, <1>n, <1>4, CreateFirstCutKeeps DEF CreateFirstCut
<1>5. CASE Attach
  BY <1>0, <1>5, AttachKeeps DEF Attach
<1>6. CASE Publish
  BY <1>0, <1>6, PublishKeeps DEF Publish
<1>7. CASE Checkpoint
  BY <1>7, CheckpointKeeps DEF Checkpoint, Accepts
<1>8. CASE Snapshot
  BY <1>0, <1>8, SnapshotKeeps DEF Snapshot
<1>9. CASE StartSegment
  BY <1>0, <1>9, StartSegmentKeeps DEF StartSegment
<1>10. CASE \E died \in BOOLEAN : StartSegmentCut(died)
  <2>1. PICK died \in BOOLEAN : StartSegmentCut(died)
    BY <1>10
  <2>2. Inv(D)'
    BY <2>1, StartSegmentCutKeeps
  <2>3. pc = "seg" /\ mem' \in {mem, NoProcess} /\ UNCHANGED logged
    BY <2>1 DEF StartSegmentCut
  <2> QED BY <1>0, <1>n, <2>2, <2>3
<1>11. CASE Swap
  BY <1>0, <1>11, SwapKeeps DEF Swap
<1>12. CASE SyncDir
  <2>1. pc # "idle"
    BY <1>12 DEF SyncDir, AfterSync
  <2> QED BY <1>0, <1>12, <2>1, SyncDirKeeps DEF SyncDir
<1>13. CASE Sweep
  <2>1. pc = "sweep" /\ mem' = [mem EXCEPT !.wal = NewSegment, !.since = 0] /\ UNCHANGED logged
    BY <1>13 DEF Sweep
  <2> QED BY <1>0, <1>m, <1>13, <2>1, SweepKeeps DEF Inv
<1>14. CASE CheckpointFails
  <2>1. pc # "idle" /\ UNCHANGED <<mem, logged>>
    BY <1>14 DEF CheckpointFails
  <2> QED BY <1>0, <1>14, <2>1, CheckpointFailsKeeps
<1> QED BY <1>1, <1>2, <1>3, <1>4, <1>5, <1>6, <1>7, <1>8, <1>9, <1>10, <1>11, <1>12, <1>13, <1>14

\* Every step keeps the invariant, of the log as it is after the step.
LEMMA NextKeeps ==
    ASSUME Journaled, NEW D \in Seq(Ops), Inv(D), [Next]_vars
    PROVE  \E E \in Seq(Ops) : Inv(E)' /\ Moves(D, E)
<1>0. /\ ~mem.poisoned => Seen(D) = D
      /\ pc = "down" => ~mem.poisoned
      /\ Seen(D) \in Seq(Ops) /\ IsPrefix(D, Seen(D))
  BY SeenIs
<1>t. /\ mem \in [state : Seq(Ops), seq : Nat, wal : 0..MaxSeg, since : Nat, poisoned : BOOLEAN]
      /\ issued \in Nat /\ MaxOps \in Nat /\ MaxBatch \in Nat /\ Len(D) \in Nat
      /\ logged \in Seq(Ops) /\ IsPrefix(logged, D)
  BY StoreAssumption DEF StoreAssumption, Inv, Types, Acknowledged
<1>1. CASE \/ Open \/ RemoveTornSegment \/ CreateFirst \/ CreateFirstCut \/ Attach \/ Publish
           \/ Checkpoint \/ Snapshot \/ StartSegment \/ \E died \in BOOLEAN : StartSegmentCut(died)
           \/ Swap \/ SyncDir \/ Sweep \/ CheckpointFails
  <2>1. Inv(D)' /\ ~mem.poisoned /\ ~mem'.poisoned /\ UNCHANGED logged
    BY <1>1, CalmStep
  <2>2. Seen(D)' = D
    BY <2>1 DEF Inv, Memory, Seen
  <2>3. Moves(D, D)
    BY <1>0, <2>1, <2>2 DEF Moves
  <2> QED BY <2>1, <2>3
<1>2. CASE \E n \in 1..MaxBatch : AppendAll(n)
  <2>1. PICK n \in 1..MaxBatch : AppendAll(n)
    BY <1>2
  <2>2. PICK E : E = Longer(D, n)
    OBVIOUS
  <2>3. /\ pc = "idle" /\ ~mem.poisoned /\ pc' = "append" /\ UNCHANGED logged
        /\ mem' = [mem EXCEPT !.state = @ \o Batch(n)] /\ issued + n <= MaxOps /\ n \in Nat /\ n > 0
    BY <1>t, <2>1 DEF AppendAll, Accepts
  <2>4. E \in Seq(Ops) /\ Len(E) = Len(D) + n /\ IsPrefix(D, E)
    BY <1>t, <2>2, <2>3, LongerIs
  <2>5. Inv(E)'
    BY <2>1, <2>2, AppendAllKeeps
  <2>6. Seen(D) = D /\ Seen(E)' = E
    <3>1. ~mem'.poisoned
      BY <1>t, <2>3
    <3> QED BY <1>0, <2>3, <2>5, <3>1 DEF Inv, Memory, Seen
  <2>7. Len(D) < Len(E)
    BY <1>t, <2>3, <2>4
  <2>8. Moves(D, E)
    BY <2>3, <2>4, <2>6, <2>7 DEF Moves
  <2> QED BY <2>4, <2>5, <2>8
<1>3. CASE \E n \in 1..MaxBatch, k \in 0..MaxBatch, torn, died \in BOOLEAN : AppendCut(n, k, torn, died)
  <2>1. PICK n \in 1..MaxBatch, k \in 0..MaxBatch, torn \in BOOLEAN, died \in BOOLEAN :
               AppendCut(n, k, torn, died)
    BY <1>3
  <2>2. PICK E : E = Longer(D, k)
    OBVIOUS
  <2>3. /\ pc = "idle" /\ ~mem.poisoned /\ UNCHANGED logged
        /\ issued + n <= MaxOps /\ n \in Nat /\ n > 0 /\ k \in Nat /\ k < n
        /\ \/ pc' = "down"
           \/ pc' = "idle" /\ mem' = [mem EXCEPT !.state = @ \o Batch(n), !.poisoned = TRUE]
    BY <1>t, <2>1 DEF AppendCut, Accepts
  <2>4. E \in Seq(Ops) /\ Len(E) = Len(D) + k /\ IsPrefix(D, E) /\ issued + k <= MaxOps
    <3>1. issued + k <= MaxOps
      BY <1>t, <2>3
    <3> QED BY <1>t, <2>2, <2>3, <3>1, LongerIs
  <2>5. Inv(E)'
    BY <2>1, <2>2, AppendCutKeeps
  <2>6. CASE pc' = "down"
    <3>1. Seen(E)' = E
      BY <2>6 DEF Seen
    <3>2. Len(E) > Len(D) \/ E = D
      <4>1. CASE k = 0
        BY <1>t, <2>4, <4>1, PrefixIs
      <4>2. CASE k # 0
        BY <1>t, <2>3, <2>4, <4>2
      <4> QED BY <4>1, <4>2
    <3>3. Moves(D, E)
      BY <1>0, <2>3, <2>4, <3>1, <3>2 DEF Moves
    <3> QED BY <2>4, <2>5, <3>3
  <2>7. CASE pc' = "idle" /\ mem' = [mem EXCEPT !.state = @ \o Batch(n), !.poisoned = TRUE]
    <3>1. PICK G : G = Longer(D, n)
      OBVIOUS
    <3>2. G \in Seq(Ops) /\ Len(G) = Len(D) + n /\ IsPrefix(D, G)
      BY <1>t, <2>3, <3>1, LongerIs
    <3>3. mem.state = D
      BY <2>3 DEF Inv, Memory
    <3>4. Seen(E)' = G
      BY <1>t, <2>7, <3>1, <3>3 DEF Seen, Longer, Batch
    <3>5. Len(D) < Len(G)
      BY <1>t, <2>3, <3>2
    <3>6. Moves(D, E)
      BY <1>0, <2>3, <3>2, <3>4, <3>5 DEF Moves
    <3> QED BY <2>4, <2>5, <3>6
  <2> QED BY <2>3, <2>6, <2>7
<1>4. CASE Sync
  <2>1. Inv(D)'
    BY <1>4, SyncKeeps
  <2>2. pc = "append" /\ logged' = mem.state /\ ~mem.poisoned /\ pc' # "down"
    BY <1>4 DEF Sync, Inv, Memory
  <2>3. mem'.state = mem.state
    BY <1>t, <1>4 DEF Sync
  <2>4. Seen(D)' = Seen(D) /\ logged' = Seen(D)
    BY <2>2, <2>3 DEF Seen
  <2> QED BY <2>1, <2>4 DEF Moves
<1>5. CASE SyncFails
  <2>1. Inv(D)'
    BY <1>5, SyncFailsKeeps
  <2>2. pc = "append" /\ pc' = "idle" /\ mem'.state = mem.state /\ UNCHANGED logged
    BY <1>t, <1>5 DEF SyncFails
  <2> QED BY <2>1, <2>2 DEF Moves, Seen
<1>6. CASE Kill
  <2>1. Inv(D)'
    BY <1>6, KillKeeps
  <2>2. pc' = "down" /\ UNCHANGED logged
    BY <1>6 DEF Kill
  <2>3. Seen(D)' = D
    BY <2>2 DEF Seen
  <2> QED BY <1>0, <1>t, <2>1, <2>2, <2>3 DEF Moves
<1>7. CASE PowerLoss
  <2>1. PICK E \in Seq(Ops) : Inv(E)' /\ IsPrefix(E, D) /\ IsPrefix(logged, E)
    BY <1>7, PowerLossKeeps
  <2>2. pc' = "down" /\ UNCHANGED logged
    BY <1>7 DEF PowerLoss
  <2>3. Seen(E)' = E
    BY <2>2 DEF Seen
  <2>4. IsPrefix(E, Seen(D))
    BY <1>0, <2>1, PrefixesChain
  <2> QED BY <2>1, <2>2, <2>3, <2>4 DEF Moves
<1>8. CASE UNCHANGED vars
  <2>1. UNCHANGED <<dir, flushed, files, pc, mem, logged, issued, faults>>
    BY <1>8 DEF vars
  <2>2. Types'
    BY <2>1 DEF Inv, Types
  <2>3. Disk(D)'
    BY <2>1, <2>2, DiskStays DEF Inv
  <2>4. Memory(D)' /\ Writing' /\ Naming' /\ Checkpointing' /\ Acknowledged(D)'
    BY <2>1 DEF Inv, Memory, Writing, Naming, Checkpointing, Acknowledged, Kept, Live, Wholes, NewSegment
  <2>5. Caching'
    BY <2>1 DEF Inv, Caching, Live, Wholes, Rec
  <2>6. Inv(D)' /\ Seen(D)' = Seen(D)
    BY <2>1, <2>2, <2>3, <2>4, <2>5 DEF Inv, Seen
  <2> QED BY <2>1, <2>6 DEF Moves
<1> QED BY <1>1, <1>2, <1>3, <1>4, <1>5, <1>6, <1>7, <1>8 DEF Next

-----------------------------------------------------------------------------
(* What the store promises.                                                *)

\* All through any behaviour of the store, whatever the ops, the batches and
\* the faults: the records on disk are those of one log, in order and with none
\* left out, the snapshots are prefixes of it, and memory holds it.
THEOREM StoreInductive ==
    ASSUME Journaled
    PROVE  Spec => []IInv
<1>1. Init => IInv
  <2>1. <<>> \in Seq(Ops)
    OBVIOUS
  <2> QED BY <2>1, InitHolds DEF IInv
<1>2. IInv /\ [Next]_vars => IInv'
  BY NextKeeps DEF IInv
<1> QED BY <1>1, <1>2, PTL DEF Spec

\* store.rs, "an acknowledged write survives any crash": an open catalog holds
\* every op whose append returned, in its place, whatever was killed, failed or
\* lost its power before.
THEOREM LoggedSurvivesHolds ==
    ASSUME Journaled
    PROVE  Spec => []LoggedSurvives
<1>1. IInv => LoggedSurvives
  <2> SUFFICES ASSUME NEW D \in Seq(Ops), Inv(D), Up PROVE IsPrefix(logged, mem.state)
    BY DEF IInv, LoggedSurvives
  <2>1. IsPrefix(logged, D) /\ logged \in Seq(Ops)
    BY DEF Inv, Types, Acknowledged
  <2>2. Seen(D) = mem.state
    BY DEF Up, Seen
  <2> QED BY <2>1, <2>2, SeenIs, PrefixesChain
<1> QED BY <1>1, StoreInductive, PTL

\* A catalog that has only been crashed can always be opened again: open never
\* meets a whole frame behind a torn one, nor a manifest without its snapshot.
THEOREM NeverRefusedHolds ==
    ASSUME Journaled
    PROVE  Spec => []NeverRefused
<1>1. IInv => NeverRefused
  BY DEF IInv, Inv, Types, NeverRefused
<1> QED BY <1>1, StoreInductive, PTL

\* Between calls what a fresh open would replay is what is in memory, and the
\* sequence number counts it.
THEOREM MemoryIsLoggedHolds ==
    ASSUME Journaled
    PROVE  Spec => []MemoryIsLogged
<1>1. IInv => MemoryIsLogged
  <2> SUFFICES ASSUME NEW D \in Seq(Ops), Inv(D),
                      pc \in {"idle", "snap", "seg", "swap", "sweep"}, ~mem.poisoned
               PROVE  mem.seq = Len(mem.state) /\ Replay.state = mem.state
    BY DEF IInv, MemoryIsLogged
  <2>1. mem.state = D /\ mem.seq = Len(D)
    BY DEF Inv, Memory
  <2>2. Replay = [state |-> D, seq |-> Len(D)]
    BY ReplayIs DEF Inv
  <2> QED BY <2>1, <2>2
<1> QED BY <1>1, StoreInductive, PTL

\* A manifest, the seen or the flushed one, names a segment with a header and a
\* snapshot that no crash takes away.
THEOREM ManifestCompleteHolds ==
    ASSUME Journaled
    PROVE  Spec => []ManifestComplete
<1>1. IInv => ManifestComplete
  BY DEF IInv, Inv, Disk, Manifests, Complete, Kept, ManifestComplete
<1> QED BY <1>1, StoreInductive, PTL

\* The log the callers see is the one Seen says.
LEMMA ViewIs == \A D \in Seq(Ops) : Inv(D) => View = Seen(D)
<1> SUFFICES ASSUME NEW D \in Seq(Ops), Inv(D) PROVE View = Seen(D)
  OBVIOUS
<1>1. Readable /\ Replay = [state |-> D, seq |-> Len(D)]
  BY CanBeRead, ReplayIs DEF Inv
<1>2. pc # "refused"
  BY DEF Inv, Types
<1> QED BY <1>1, <1>2 DEF View, Seen, Up

\* The store implements the durable log: every step of it submits ops, promises
\* what was applied, loses unpromised ops from the end, or changes nothing.
THEOREM StoreImplements ==
    ASSUME Journaled
    PROVE  Spec => ImplementsDurableLog
<1>1. Init => Promises!Init
  <2> SUFFICES ASSUME Init PROVE View = <<>> /\ logged = <<>>
    BY DEF Promises!Init
  <2>1. <<>> \in Seq(Ops) /\ Inv(<<>>)
    BY InitHolds
  <2>2. View = Seen(<<>>)
    BY <2>1, ViewIs
  <2> QED BY <2>2 DEF Init, Seen
<1>2. (\A D \in Seq(Ops) : Inv(D) => View = Seen(D))'
  BY ViewIs, PTL
<1>3. ASSUME IInv, [Next]_vars PROVE [Promises!Next]_(Promises!vars)
  <2>1. PICK D \in Seq(Ops) : Inv(D)
    BY <1>3 DEF IInv
  <2>2. PICK E \in Seq(Ops) : Inv(E)' /\ Moves(D, E)
    BY <1>3, <2>1, NextKeeps
  <2>3. PICK s : s = Seen(D)
    OBVIOUS
  <2>4. PICK t : t = Seen(E)'
    OBVIOUS
  <2>5. View = s /\ View' = t
    BY <1>2, <2>1, <2>2, <2>3, <2>4, ViewIs
  <2>6. \/ UNCHANGED logged /\ t = s
        \/ logged' = s /\ t = s
        \/ UNCHANGED logged /\ t \in Seq(Ops) /\ Len(s) < Len(t) /\ IsPrefix(s, t)
        \/ UNCHANGED logged /\ IsPrefix(t, s) /\ IsPrefix(logged, t)
    BY <2>2, <2>3, <2>4 DEF Moves
  <2>7. \A a, b : Promises!IsPrefix(a, b) <=> IsPrefix(a, b)
    BY DEF Promises!IsPrefix, IsPrefix
  <2> QED BY <2>5, <2>6, <2>7
          DEF Promises!Next, Promises!Submit, Promises!Promise, Promises!Lose, Promises!vars
<1> QED BY <1>1, <1>3, StoreInductive, PTL DEF Spec, ImplementsDurableLog, Promises!Spec
=============================================================================
