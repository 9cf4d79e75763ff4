------------------------------ MODULE RefStore ------------------------------
(***************************************************************************)
(* The reference store on disk (crates/neowon-refdb/src/store.rs) and its  *)
(* two users in the app: the job thread that fetches or imports a source   *)
(* (app/refmap/jobs.rs) and the frame thread, which clears sources and     *)
(* loads what is shown (app/refmap/mod.rs, actions.rs).                    *)
(*                                                                         *)
(* One file per source holds its snapshot; one file, meta.json, holds the  *)
(* rows that describe all of them.  Both threads read meta.json, change    *)
(* their rows and write it back, through one temporary file of a fixed     *)
(* name.  Files are modelled by their inodes, because that is what two     *)
(* handles on one temporary file share.  A snapshot is its fetch's number, *)
(* which is also its digest; a row written before digests existed, checked *)
(* by its count alone, is left out.                                        *)
(***************************************************************************)
EXTENDS Naturals, FiniteSets

CONSTANTS Sources, MaxFetches, MaxClears, MaxKills,  \* bounds of the instance
          None,      \* no file, no handle, no snapshot
          Torn,      \* bytes of two writers in one file
          Blank      \* a file just created or truncated

RefStoreAssumption ==
    /\ Sources # {}
    /\ {MaxFetches, MaxClears, MaxKills} \subseteq Nat
    /\ None \notin Nat
    /\ {} \notin {Blank, Torn}                       \* no rows are rows

Inodes == 1..3                      \* meta.json, its temp, and one to spare

VARIABLES snapshot,   \* source -> the fetch its file holds, or None
          meta, tmp,  \* the inodes of meta.json and meta.json.tmp, or None
          bytes,      \* inode -> its content: a set of rows, Blank or Torn
          job,        \* the job thread: where it is and what it holds
          ui,         \* the frame thread, inside a clear or a load
          pending,    \* rm.job: one at a time
          shown,      \* the RefMap's index, metas and problems
          missed,     \* history: a job or a clear failed since the last load
          fetches, clears, kills

vars == <<snapshot, meta, tmp, bytes, job, ui, pending, shown, missed,
          fetches, clears, kills>>

files == <<snapshot, meta, tmp, bytes>>
counts == <<fetches, clears, kills>>

Row(src, ver) == [source |-> src, digest |-> ver]
Idle == [at |-> "idle", source |-> None, rows |-> {}, fd |-> None]
Nothing == [index |-> [s \in Sources |-> None], metas |-> {}, problems |-> {}]

Init == /\ snapshot = [s \in Sources |-> None]
        /\ meta = None /\ tmp = None
        /\ bytes = [i \in Inodes |-> Blank]
        /\ job = Idle /\ ui = Idle
        /\ pending = FALSE
        /\ shown = Nothing /\ missed = FALSE
        /\ fetches = 0 /\ clears = 0 /\ kills = 0

Content == IF meta = None THEN {} ELSE bytes[meta]
Unreadable == Content \in {Blank, Torn}
Drop(rows, src) == {r \in rows : r.source # src}

-----------------------------------------------------------------------------
(* write_atomic's three system calls on meta.json, by a thread whose       *)
(* record is t and becomes u.                                              *)

\* File::create: truncate the temporary file, or make one.
CreateTmp(t, u, other) ==
    /\ t.at = "create"
    /\ IF tmp # None
         THEN /\ u = [t EXCEPT !.at = "write", !.fd = tmp]
              /\ bytes' = [bytes EXCEPT ![tmp] = Blank]
              /\ tmp' = tmp
         ELSE LET free == CHOOSE i \in Inodes : i \notin {meta, other.fd}
              IN /\ u = [t EXCEPT !.at = "write", !.fd = free]
                 /\ bytes' = [bytes EXCEPT ![free] = Blank]
                 /\ tmp' = free
    /\ UNCHANGED <<snapshot, meta>>

\* write_all from offset 0 of the thread's own handle: over another's bytes
\* it hides them, or leaves their tail.
WriteTmp(t, u) ==
    /\ t.at = "write"
    /\ \E after \in IF bytes[t.fd] = Blank THEN {t.rows} ELSE {t.rows, Torn} :
           bytes' = [bytes EXCEPT ![t.fd] = after]
    /\ u = [t EXCEPT !.at = "rename"]
    /\ UNCHANGED <<snapshot, meta, tmp>>

\* rename: whatever the name refers to now; the other thread may have taken it.
RenameTmp(t, u) ==
    /\ t.at = "rename"
    /\ IF tmp = None
         THEN u = [t EXCEPT !.at = "failed", !.fd = None] /\ UNCHANGED <<meta, tmp>>
         ELSE /\ u = [t EXCEPT !.at = "done", !.fd = None]
              /\ meta' = tmp /\ tmp' = None
    /\ UNCHANGED <<snapshot, bytes>>

WriteMeta(t, u, other) == \/ CreateTmp(t, u, other)
                          \/ WriteTmp(t, u)
                          \/ RenameTmp(t, u)

-----------------------------------------------------------------------------
(* The job thread: Store::replace.                                         *)

\* start_fetch, start_import: refused while a job is pending.
StartJob(src) ==
    /\ ui.at = "idle" /\ ~pending /\ fetches < MaxFetches
    /\ job' = [Idle EXCEPT !.at = "read", !.source = src]
    /\ fetches' = fetches + 1
    /\ pending' = TRUE
    /\ UNCHANGED <<files, ui, shown, missed, clears, kills>>

\* The download fails, or the document is refused: nothing is written.
JobFails ==
    /\ job.at = "read"
    /\ job' = [job EXCEPT !.at = "failed"]
    /\ UNCHANGED <<files, ui, pending, shown, missed, counts>>

\* `self.metas()?`: an unreadable meta.json fails the job before it writes.
JobReads ==
    /\ job.at = "read"
    /\ job' = IF Unreadable THEN [job EXCEPT !.at = "failed"]
              ELSE [job EXCEPT !.at = "snapshot",
                       !.rows = Drop(Content, job.source) \cup {Row(job.source, fetches)}]
    /\ UNCHANGED <<files, ui, pending, shown, missed, counts>>

\* The snapshot's own write_atomic: no other thread writes that name.
JobSnapshot ==
    /\ job.at = "snapshot"
    /\ snapshot' = [snapshot EXCEPT ![job.source] = fetches]
    /\ job' = [job EXCEPT !.at = "create"]
    /\ UNCHANGED <<meta, tmp, bytes, ui, pending, shown, missed, counts>>

JobMeta == /\ WriteMeta(job, job', ui)
           /\ UNCHANGED <<ui, pending, shown, missed, counts>>

-----------------------------------------------------------------------------
(* The frame thread: one clear or one load at a time.                      *)

\* `refdb clear`: not held back by a pending job.
StartClear(src) ==
    /\ ui.at = "idle" /\ clears < MaxClears
    /\ clears' = clears + 1
    /\ snapshot' = [snapshot EXCEPT ![src] = None]
    /\ ui' = [Idle EXCEPT !.at = "read", !.source = src]
    /\ UNCHANGED <<meta, tmp, bytes, job, pending, shown, missed, fetches, kills>>

ClearReads ==
    /\ ui.at = "read"
    /\ ui' = IF Unreadable THEN Idle
             ELSE [ui EXCEPT !.at = "create", !.rows = Drop(Content, ui.source)]
    /\ missed' = (missed \/ Unreadable)
    /\ UNCHANGED <<files, job, pending, shown, counts>>

ClearMeta == /\ ui.at \in {"create", "write", "rename"}
             /\ WriteMeta(ui, ui', job)
             /\ UNCHANGED <<job, pending, shown, missed, counts>>

\* A failed clear is reported and loads nothing.
ClearEnds ==
    /\ ui.at \in {"done", "failed"}
    /\ ui' = IF ui.at = "done" THEN [Idle EXCEPT !.at = "load"] ELSE Idle
    /\ missed' = (missed \/ ui.at = "failed")
    /\ UNCHANGED <<files, job, pending, shown, counts>>

\* Changed form: a load that is under way is taken to be of what the job wrote.
TickJoinsLoad ==
    /\ ui.at \in {"idle", "match"} /\ pending
    /\ job.at \in {"done", "failed"}
    /\ pending' = FALSE
    /\ job' = Idle
    /\ ui' = IF ui.at = "idle" /\ job.at = "done" THEN [Idle EXCEPT !.at = "load"] ELSE ui
    /\ missed' = (missed \/ job.at = "failed")
    /\ UNCHANGED <<files, shown, counts>>

\* tick: a finished job is taken, and a successful one reloads.
Tick ==
    /\ ui.at = "idle" /\ pending
    /\ job.at \in {"done", "failed"}
    /\ pending' = FALSE
    /\ job' = Idle
    /\ ui' = IF job.at = "done" THEN [Idle EXCEPT !.at = "load"] ELSE Idle
    /\ missed' = (missed \/ job.at = "failed")
    /\ UNCHANGED <<files, shown, counts>>

\* Store::load reads the snapshots first, meta.json after them.  A job
\* changes one snapshot, once, so reading them together hides no order.
LoadSnapshots ==
    /\ ui.at = "load"
    /\ ui' = [ui EXCEPT !.at = "match", !.rows = snapshot]
    /\ UNCHANGED <<files, job, pending, shown, missed, counts>>

Same(row, index) == index[row.source] = row.digest

\* The rows that describe the snapshots read, and a problem for the rest.
Matched(rows, index) ==
    {r \in rows : index[r.source] # None /\ Same(r, index)}
Flagged(rows, index) ==
    LET metas == Matched(rows, index)
    IN {r.source : r \in rows \ metas}
         \cup {s \in Sources : index[s] # None /\ \A r \in metas : r.source # s}

\* What a load shows of the snapshots read, with meta.json as it is now.
Loaded(index) ==
    LET rows == IF Unreadable THEN {} ELSE Content
    IN [index |-> index, metas |-> Matched(rows, index), problems |-> Flagged(rows, index)]

LoadMatches ==
    /\ ui.at = "match"
    /\ shown' = Loaded(ui.rows)
    /\ ui' = Idle
    /\ missed' = FALSE
    /\ UNCHANGED <<files, job, pending, counts>>

\* The process is killed, and the next launch loads.
Kill ==
    /\ kills < MaxKills
    /\ kills' = kills + 1
    /\ job' = Idle /\ pending' = FALSE
    /\ shown' = Nothing
    /\ ui' = [Idle EXCEPT !.at = "load"]
    /\ UNCHANGED <<files, missed, fetches, clears>>

-----------------------------------------------------------------------------
Next == \/ \E src \in Sources : StartJob(src) \/ StartClear(src)
        \/ JobFails \/ JobReads \/ JobSnapshot \/ JobMeta
        \/ ClearReads \/ ClearMeta \/ ClearEnds
        \/ Tick \/ LoadSnapshots \/ LoadMatches \/ Kill

Spec == Init /\ [][Next]_vars

-----------------------------------------------------------------------------
\* Whatever a job, the clears beside it and a kill did to the two files and in
\* whatever order, once all of them are over the app shows what is stored: the
\* stations, the rows and the problems that a load would find now.  A failed
\* job or clear may have written all the same and loads nothing (tick, the
\* clear's `?'), so until the next load nothing is claimed after one.
ShownIsStored ==
    ui.at = "idle" /\ ~pending /\ ~missed => shown = Loaded(snapshot)

\* "The stations and the metadata are each written atomically": meta.json is
\* never seen partly written.  A clear beside a job shares its temp file.
MetaIsWhole == meta = None \/ bytes[meta] \notin {Blank, Torn}
=============================================================================
