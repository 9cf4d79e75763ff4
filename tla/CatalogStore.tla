---------------------------- MODULE CatalogStore ----------------------------
(***************************************************************************)
(* The on-disk catalog (neowon-catalog's store and wal): a manifest that   *)
(* names a snapshot and a write-ahead segment, appended to by one process  *)
(* that may be killed, and on a disk that may lose power, between any two  *)
(* steps.                                                                  *)
(*                                                                         *)
(* An op is a number and a state is the sequence of the ops applied to it: *)
(* State::apply is a function, and CatalogState says what it does.  Ops    *)
(* that apply refuses never reach the disk and are left out.  A frame is a *)
(* record, or Torn when only part of it is there.                          *)
(*                                                                         *)
(* What the directory holds and what would be left of it after a power     *)
(* loss are two values, `dir' and `flushed': a create, rename or unlink is *)
(* certain only once the directory is fsynced.  A file keeps its fsynced   *)
(* frames and any prefix of the rest.                                      *)
(***************************************************************************)
EXTENDS Integers, Sequences, SequencesExt, FiniteSetsExt

CONSTANTS
    MaxOps,           \* bound: the ops ever submitted
    MaxBatch,         \* bound: the ops of one commit_many
    MaxSeg,           \* bound: the largest segment number
    CheckpointEvery,  \* Catalog::checkpoint_every, 1000 in the code
    FaultSets,        \* for each behaviour, the failures that can happen in it
    OrderedMetadata   \* the file system makes directory changes durable no
                      \* later than a later fsync of any file, as ext4 does

ASSUME StoreAssumption ==
    /\ MaxOps \in Nat /\ MaxBatch \in Nat /\ MaxSeg \in Nat \ {0}
    /\ CheckpointEvery \in Nat \ {0}
    /\ FaultSets \subseteq SUBSET {"kill", "power", "write", "dirsync"}
    /\ OrderedMetadata \in BOOLEAN

VARIABLES
    dir,      \* the directory: manifest, segments and snapshots
    flushed,  \* the directory as of its last flush
    files,    \* the content of each segment
    pc,       \* where the process is; "down" when there is none
    mem,      \* the fields of Catalog
    logged,   \* the ops applied when an append last returned
    issued,   \* how many ops were submitted
    faults    \* the failures of this behaviour

vars == <<dir, flushed, files, pc, mem, logged, issued, faults>>

Ops    == 1..MaxOps
SegNos == 1..MaxSeg
Record == [seq : Ops, op : Ops]
Torn   == [seq |-> 0, op |-> 0]

NoManifest == [last |-> 0, wal |-> 0]
FirstManifest == [last |-> 0, wal |-> 1]
NoFile    == [header |-> FALSE, frames |-> <<>>, synced |-> 0]
NoProcess == [state |-> <<>>, seq |-> 0, wal |-> 0, since |-> 0, poisoned |-> FALSE]

Up == pc \notin {"down", "refused"}

-----------------------------------------------------------------------------
(* Reading.                                                                *)

\* read: the records before the first frame that is not whole.
Whole(frames) ==
    LET damaged == {i \in DOMAIN frames : frames[i] = Torn}
    IN IF damaged = {} THEN frames ELSE SubSeq(frames, 1, Min(damaged) - 1)

\* torn_tail: a whole frame behind a damaged one is corruption.
Damaged(frames) ==
    \E i, j \in DOMAIN frames : i < j /\ frames[i] = Torn /\ frames[j] # Torn

Manifest == IF dir.manifest = NoManifest THEN FirstManifest ELSE dir.manifest

\* A record is applied when it is above the watermark.  Changed form: always.
Reapplied(s, r) == TRUE
IsNew(s, r) == r.seq > s.seq

\* Changed form: only the segment the manifest names.
NamedSegs == dir.segs \cap {Manifest.wal}
ReplayedSegs == dir.segs

\* One record over a state, which skips it when it has it already.
Over(s, r) ==
    IF IsNew(s, r) THEN [state |-> Append(s.state, r.op), seq |-> r.seq] ELSE s

\* The records of a segment over a state, in order.
OverSegment(s, n) ==
    LET records == Whole(files[n].frames)
        upTo[i \in 0..Len(records)] == IF i = 0 THEN s ELSE Over(upTo[i - 1], records[i])
    IN upTo[Len(records)]

\* What the manifest's snapshot holds.
Snapshotted ==
    [state |-> IF Manifest.last = 0 THEN <<>> ELSE dir.snaps[Manifest.last],
     seq   |-> Manifest.last]

\* What replaying the segments in order over the snapshot gives.
Replay ==
    LET upTo[n \in 0..MaxSeg] ==
            IF n = 0 THEN Snapshotted
            ELSE IF n \in ReplayedSegs THEN OverSegment(upTo[n - 1], n) ELSE upTo[n - 1]
    IN upTo[MaxSeg]

Readable ==
    /\ \A n \in dir.segs : ~Damaged(files[n].frames)
    /\ Manifest.last # 0 => Manifest.last \in DOMAIN dir.snaps

-----------------------------------------------------------------------------
(* Writing.                                                                *)

\* An fsync of a file, after which `d' is the directory.
FileSynced(d) == flushed' = IF OrderedMetadata THEN d ELSE flushed

Write(n, frames) == files' = [files EXCEPT ![n].frames = @ \o frames]

\* Writer::create: the header is fsynced, the directory not yet.
CreateSegment(n) ==
    /\ dir' = [dir EXCEPT !.segs = @ \cup {n}]
    /\ files' = [files EXCEPT ![n] = [header |-> TRUE, frames |-> <<>>, synced |-> 0]]
    /\ FileSynced(dir')

\* It fails, or the process dies, half-way through the header.
TornSegment(n) ==
    /\ dir' = [dir EXCEPT !.segs = @ \cup {n}]
    /\ files' = [files EXCEPT ![n] = NoFile]
    /\ UNCHANGED flushed

\* The segments and snapshots of a checkpoint in progress.
NextSegment == Max(dir.segs \cup {mem.wal}) + 1
NewSegment  == Max(dir.segs)

Ready == IF dir.manifest = NoManifest THEN "publish" ELSE "idle"

-----------------------------------------------------------------------------
(* Catalog::open.                                                          *)
Loaded == [state |-> Replay.state, seq |-> Replay.seq, wal |-> Manifest.wal,
           since |-> 0, poisoned |-> FALSE]

\* What cannot be read is refused.
Open ==
    /\ pc = "down"
    /\ mem' = IF Readable THEN Loaded ELSE NoProcess
    /\ pc' = IF Readable THEN "attach" ELSE "refused"
    /\ UNCHANGED <<dir, flushed, files, logged, issued, faults>>

\* A first segment whose header never got whole is removed ...
RemoveTornSegment ==
    /\ pc = "attach" /\ mem.wal \in dir.segs /\ ~files[mem.wal].header
    /\ dir' = [dir EXCEPT !.segs = @ \ {mem.wal}]
    /\ UNCHANGED <<flushed, files, pc, mem, logged, issued, faults>>

\* ... and recreated.
CreateFirst ==
    /\ pc = "attach" /\ mem.wal \notin dir.segs
    /\ CreateSegment(mem.wal)
    /\ pc' = "attachSync"
    /\ UNCHANGED <<mem, logged, issued, faults>>

\* Its header may be cut short by a kill, or a failing write that ends the open.
CreateFirstCut ==
    /\ pc = "attach" /\ mem.wal \notin dir.segs
    /\ {"kill", "write"} \cap faults # {}
    /\ TornSegment(mem.wal)
    /\ pc' = "down" /\ mem' = NoProcess
    /\ UNCHANGED <<logged, issued, faults>>

\* Changed form: a torn tail is not cut off.
LeftTorn(frames) == frames
Cut(frames) == Whole(frames)

\* Writer::open: the torn tail is cut off and what is left fsynced.
Attach ==
    /\ pc = "attach" /\ mem.wal \in dir.segs /\ files[mem.wal].header
    /\ files' = [files EXCEPT ![mem.wal].frames = Cut(@),
                              ![mem.wal].synced = Len(Cut(files[mem.wal].frames))]
    /\ FileSynced(dir)
    /\ pc' = Ready
    /\ UNCHANGED <<dir, mem, logged, issued, faults>>

Publish ==
    /\ pc = "publish"
    /\ FileSynced(dir)
    /\ dir' = [dir EXCEPT !.manifest = FirstManifest]
    /\ pc' = "publishSync"
    /\ UNCHANGED <<files, mem, logged, issued, faults>>

-----------------------------------------------------------------------------
(* commit_many.                                                            *)
Batch(n)   == [i \in 1..n |-> issued + i]

\* Changed form: the first record of a batch repeats the last number.
RecordsFromLast(n) == [i \in 1..n |-> [seq |-> mem.seq + i - 1, op |-> issued + i]]
Records(n) == [i \in 1..n |-> [seq |-> mem.seq + i, op |-> issued + i]]

\* Changed form: the poisoned flag is not looked at.
AcceptsAlways == pc = "idle"
Accepts == pc = "idle" /\ ~mem.poisoned

\* The ops are applied and their frames written ...
AppendAll(n) ==
    /\ Accepts /\ issued + n <= MaxOps
    /\ Write(mem.wal, Records(n))
    /\ mem' = [mem EXCEPT !.state = @ \o Batch(n)]
    /\ issued' = issued + n
    /\ pc' = "append"
    /\ UNCHANGED <<dir, flushed, logged, faults>>

\* ... or only k of them are, and part of another, before the write fails or
\* the process dies.
AppendCut(n, k, torn, died) ==
    /\ Accepts /\ issued + n <= MaxOps /\ k < n
    /\ IF died THEN "kill" \in faults ELSE "write" \in faults
    /\ Write(mem.wal, SubSeq(Records(n), 1, k) \o IF torn THEN <<Torn>> ELSE <<>>)
    /\ mem' = IF died THEN NoProcess
              ELSE [mem EXCEPT !.state = @ \o Batch(n), !.poisoned = TRUE]
    /\ issued' = issued + n
    /\ pc' = IF died THEN "down" ELSE "idle"
    /\ UNCHANGED <<dir, flushed, logged, faults>>

\* Changed form: the fsync does nothing.
StillInCache(f) == f
Fsynced(f) == [f EXCEPT !.synced = Len(f.frames)]

\* The one fsync of the batch: from here its ops are on disk.
Sync ==
    /\ pc = "append"
    /\ files' = [files EXCEPT ![mem.wal] = Fsynced(@)]
    /\ FileSynced(dir)
    /\ logged' = mem.state
    /\ LET seq   == Last(files[mem.wal].frames).seq
           since == mem.since + seq - mem.seq
       IN /\ mem' = [mem EXCEPT !.seq = seq,
                                !.since = Min({since, CheckpointEvery})]
          /\ pc' = IF since >= CheckpointEvery THEN "snap" ELSE "idle"
    /\ UNCHANGED <<dir, issued, faults>>

SyncFails ==
    /\ pc = "append" /\ "write" \in faults
    /\ mem' = [mem EXCEPT !.poisoned = TRUE]
    /\ pc' = "idle"
    /\ UNCHANGED <<dir, flushed, files, logged, issued, faults>>

-----------------------------------------------------------------------------
(* checkpoint, one file operation at a time.                               *)
Checkpoint ==
    /\ Accepts
    /\ pc' = "snap"
    /\ UNCHANGED <<dir, flushed, files, mem, logged, issued, faults>>

Snapshot ==
    /\ pc = "snap"
    /\ FileSynced(dir)
    /\ dir' = [dir EXCEPT !.snaps = [n \in DOMAIN @ \cup {mem.seq} |->
                                        IF n = mem.seq THEN mem.state ELSE @[n]]]
    /\ pc' = "snapSync"
    /\ UNCHANGED <<files, mem, logged, issued, faults>>

StartSegment ==
    /\ pc = "seg" /\ NextSegment <= MaxSeg
    /\ CreateSegment(NextSegment)
    /\ pc' = "segSync"
    /\ UNCHANGED <<mem, logged, issued, faults>>

StartSegmentCut(died) ==
    /\ pc = "seg" /\ NextSegment <= MaxSeg
    /\ IF died THEN "kill" \in faults ELSE "write" \in faults
    /\ TornSegment(NextSegment)
    /\ mem' = IF died THEN NoProcess ELSE mem
    /\ pc' = IF died THEN "down" ELSE "idle"
    /\ UNCHANGED <<logged, issued, faults>>

\* Changed form of Swap: the sweep follows before the directory is fsynced.
SwapUnsynced ==
    /\ pc = "swap"
    /\ FileSynced(dir)
    /\ dir' = [dir EXCEPT !.manifest = [last |-> mem.seq, wal |-> NewSegment]]
    /\ pc' = "sweep"
    /\ UNCHANGED <<files, mem, logged, issued, faults>>

Swap ==
    /\ pc = "swap"
    /\ FileSynced(dir)
    /\ dir' = [dir EXCEPT !.manifest = [last |-> mem.seq, wal |-> NewSegment]]
    /\ pc' = "swapSync"
    /\ UNCHANGED <<files, mem, logged, issued, faults>>

\* fsync_dir, after each of these and where open makes files.
AfterSync == [attachSync |-> Ready, publishSync |-> "idle", snapSync |-> "seg",
              segSync |-> "swap", swapSync |-> "sweep"]

SyncDir ==
    /\ pc \in DOMAIN AfterSync
    /\ flushed' = dir
    /\ pc' = AfterSync[pc]
    /\ UNCHANGED <<dir, files, mem, logged, issued, faults>>

\* Everything but what the new manifest names goes; an unlink that fails is
\* ignored.
Sweep ==
    /\ pc = "sweep"
    /\ \E segs \in SUBSET dir.segs, snaps \in SUBSET DOMAIN dir.snaps :
          /\ NewSegment \in segs /\ mem.seq \in snaps
          /\ dir' = [dir EXCEPT !.segs = segs, !.snaps = [n \in snaps |-> @[n]]]
    /\ mem' = [mem EXCEPT !.wal = NewSegment, !.since = 0]
    /\ pc' = "idle"
    /\ UNCHANGED <<flushed, files, logged, issued, faults>>

\* A step of the checkpoint returns an error: the catalog goes on with the
\* segment and the count it had.
CheckpointFails ==
    /\ \/ pc \in {"snap", "seg", "swap"} /\ "write" \in faults
       \/ pc \in {"snapSync", "segSync", "swapSync"} /\ "dirsync" \in faults
    /\ pc' = "idle"
    /\ UNCHANGED <<dir, flushed, files, mem, logged, issued, faults>>

-----------------------------------------------------------------------------
(* Crashes.  A kill, or dropping the catalog, leaves the directory as the  *)
(* process saw it; a power loss leaves of each unflushed change either.    *)
Kill ==
    /\ Up /\ "kill" \in faults
    /\ pc' = "down" /\ mem' = NoProcess
    /\ UNCHANGED <<dir, flushed, files, logged, issued, faults>>

\* The directories between what is seen and what was flushed.
Outcomes ==
    {[manifest |-> m, segs |-> segs, snaps |-> snaps] :
        m \in {dir.manifest, flushed.manifest},
        segs \in {S \in SUBSET (dir.segs \cup flushed.segs) :
                    dir.segs \cap flushed.segs \subseteq S},
        snaps \in {dir.snaps, flushed.snaps}}

\* Of a file, its fsynced frames and any part of the rest survive.
Unsynced == {n \in SegNos : files[n].synced < Len(files[n].frames)}
Survives(f, k, torn) ==
    [f EXCEPT !.frames = SubSeq(@, 1, k) \o (IF torn /\ k < Len(@) THEN <<Torn>> ELSE <<>>),
              !.synced = k]

PowerLoss ==
    /\ pc # "refused" /\ "power" \in faults
    /\ dir' \in Outcomes /\ flushed' = dir'
    /\ \E torn \in BOOLEAN, keep \in [Unsynced -> 0..MaxOps] :
          /\ \A n \in Unsynced : keep[n] \in files[n].synced..Len(files[n].frames)
          /\ files' = [n \in SegNos |-> IF n \in Unsynced
                                        THEN Survives(files[n], keep[n], torn) ELSE files[n]]
    /\ pc' = "down" /\ mem' = NoProcess
    /\ UNCHANGED <<logged, issued, faults>>

-----------------------------------------------------------------------------
Init ==
    /\ dir = [manifest |-> NoManifest, segs |-> {}, snaps |-> <<>>]
    /\ flushed = dir
    /\ files = [n \in SegNos |-> NoFile]
    /\ pc = "down" /\ mem = NoProcess
    /\ logged = <<>> /\ issued = 0
    /\ faults \in FaultSets

Next ==
    \/ Open \/ RemoveTornSegment \/ CreateFirst \/ CreateFirstCut \/ Attach \/ Publish
    \/ \E n \in 1..MaxBatch : AppendAll(n)
    \/ \E n \in 1..MaxBatch, k \in 0..MaxBatch, torn, died \in BOOLEAN :
          AppendCut(n, k, torn, died)
    \/ Sync \/ SyncFails
    \/ Checkpoint \/ Snapshot \/ StartSegment \/ \E died \in BOOLEAN : StartSegmentCut(died)
    \/ Swap \/ SyncDir \/ Sweep \/ CheckpointFails
    \/ Kill \/ PowerLoss

Spec == Init /\ [][Next]_vars

-----------------------------------------------------------------------------
(* Correctness properties.                                                 *)
TypeOK ==
    /\ dir.manifest \in [last : 0..MaxOps, wal : 0..MaxSeg]
    /\ dir.segs \subseteq SegNos /\ DOMAIN dir.snaps \subseteq 0..MaxOps
    /\ \A n \in SegNos : /\ files[n].synced \in 0..Len(files[n].frames)
                         /\ \A i \in DOMAIN files[n].frames :
                               files[n].frames[i] \in Record \cup {Torn}
    /\ mem.seq <= Len(mem.state) /\ issued \in 0..MaxOps

\* store.rs: "an acknowledged write survives any crash": whatever is open holds
\* every op whose append returned, in its place.
LoggedSurvives == Up => IsPrefix(logged, mem.state)

\* A catalog that has only been crashed can always be opened again.
NeverRefused == pc # "refused"

\* Between calls memory and disk agree, unless an append failed, and then
\* nothing is accepted until a reopen.
MemoryIsLogged ==
    pc \in {"idle", "snap", "seg", "swap", "sweep"} /\ ~mem.poisoned =>
        mem.seq = Len(mem.state) /\ Replay.state = mem.state

\* store.rs: a crash anywhere leaves either the old manifest or the new one, with
\* everything it names.
ManifestComplete ==
    "dirsync" \notin faults =>
    \A m \in {dir.manifest, flushed.manifest} : m # NoManifest =>
        /\ m.wal \in dir.segs \cap flushed.segs /\ files[m.wal].header
        /\ m.last # 0 => m.last \in DOMAIN dir.snaps \cap DOMAIN flushed.snaps

\* The store implements the durable log: between processes, the log is what
\* the next open would read.
View == IF Up THEN mem.state ELSE IF Readable THEN Replay.state ELSE <<>>

Promises == INSTANCE DurableLog WITH Op <- Ops, log <- View, promised <- logged

ImplementsDurableLog == Promises!Spec
=============================================================================
