------------------------------ MODULE Recorder ------------------------------
(***************************************************************************)
(* The scrollback of a scope: the ring every arriving record goes into,    *)
(* the history browser that scrubs it, and the timeline view that looks    *)
(* records up in it by time, beside an instrument that keeps acquiring     *)
(* until the app's next flush reaches it, and may be replugged.            *)
(*                                                                         *)
(* A record is the connection it came from and its number on it, which is  *)
(* also the time it was captured at: the clock starts with the connection. *)
(* The records of a capture file are those of connection 0.                *)
(***************************************************************************)
EXTENDS Naturals, Sequences, SequencesExt, FiniteSetsExt

CONSTANTS
    Budget,       \* the memory budget, in records
    MinKept,      \* records the ring keeps whatever their size (8)
    Chunk,        \* one record in so many is dropped at an overflow (8)
    FileLength,   \* records of the capture file
    EventCap,     \* records on their way to the app
    MaxRecords,   \* bound: records of a connection
    MaxSessions,  \* bound: connections
    None

\* The last conjunct, true of 8 and 8: a ring one record over MinKept gives up
\* one record, so an overflow never leaves fewer than MinKept.
RecorderAssumption ==
    /\ Budget \in Nat \ {0} /\ MinKept \in Nat \ {0} /\ Chunk \in Nat \ {0}
    /\ MinKept + 1 < 2 * Chunk
    /\ FileLength \in Nat /\ EventCap \in Nat \ {0} /\ MaxSessions \in Nat \ {0}

VARIABLES
    inst,     \* the instrument: connection, records made, running
    pending,  \* the Apply on its way to it, or None
    events,   \* records on their way to the app
    phase,    \* where the app is in its frame
    link,     \* Link: running, dirty, latest (None until one arrived)
    rec,      \* Recorder: on, ring, last
    active,   \* History::active, from 1, or None
    offered   \* records the recorder was to keep since it was last emptied

vars == <<inst, pending, events, phase, link, rec, active, offered>>

FileRecords == [k \in 1..FileLength |-> [session |-> 0, seq |-> k]]

-----------------------------------------------------------------------------
(* Recorder.                                                               *)

\* push: beyond the budget the oldest go, a chunk at a time.
Overflow(ring) ==
    LET drop == IF Len(ring) \div Chunk > 1 THEN Len(ring) \div Chunk ELSE 1
    IN SubSeq(ring, drop + 1, Len(ring))

\* A push adds one record, so one chunk is enough.
Push(ring, r) ==
    LET grown == Append(ring, r)
    IN IF Len(grown) > Budget /\ Len(grown) > MinKept THEN Overflow(grown) ELSE grown

\* Changed form: only the newest of the records that arrived is kept.
RecordNewest(r, arrived) ==
    IF arrived = <<>> THEN r
    ELSE [r EXCEPT !.last = Last(arrived).seq, !.ring = Push(@, Last(arrived))]

\* record_frames: every record that arrived, but one numbered like the last.
Recorded(r, f) ==
    IF f.seq = r.last THEN r ELSE [r EXCEPT !.last = f.seq, !.ring = Push(@, f)]
Record(r, arrived) ==
    LET after[n \in 0..Len(arrived)] == IF n = 0 THEN r ELSE Recorded(after[n - 1], arrived[n])
    IN after[Len(arrived)]

Recording == rec.on /\ active = None

\* link::ingest and record_frames.
Ingest ==
    /\ phase = "ingest" /\ phase' = "script"
    /\ events' = <<>>
    /\ link' = IF events = <<>> THEN link ELSE [link EXCEPT !.latest = Last(events)]
    /\ rec' = IF Recording THEN Record(rec, events) ELSE rec
    /\ offered' = IF Recording THEN offered \o events ELSE offered
    /\ UNCHANGED <<inst, pending, active>>

Run(l, on) == [l EXCEPT !.running = on, !.dirty = @ \/ l.running # on]

\* History::show and History::live
Show(k) ==
    /\ phase = "script" /\ k \in DOMAIN rec.ring
    /\ active' = k
    /\ link' = Run([link EXCEPT !.latest = rec.ring[k]], FALSE)
    /\ UNCHANGED <<inst, pending, events, phase, rec, offered>>

Live ==
    /\ phase = "script" /\ active # None
    /\ active' = None /\ link' = Run(link, TRUE)
    /\ UNCHANGED <<inst, pending, events, phase, rec, offered>>

\* `record', and the button.
SetRecording ==
    /\ phase = "script"
    /\ rec' = [rec EXCEPT !.on = ~@]
    /\ UNCHANGED <<inst, pending, events, phase, link, active, offered>>

\* The Clear button also goes live; the script's verb does not.
Clear(button) ==
    /\ phase = "script" /\ rec.ring # <<>>
    /\ rec' = [rec EXCEPT !.ring = <<>>, !.last = 0]
    /\ offered' = <<>>
    /\ active' = (IF button THEN None ELSE active)
    /\ link' = IF button THEN Run(link, TRUE) ELSE link
    /\ UNCHANGED <<inst, pending, events, phase>>

\* The ring after a file was pushed into an empty one.
Pushed(file) ==
    LET after[n \in 0..Len(file)] == IF n = 0 THEN <<>> ELSE Push(after[n - 1], file[n])
    IN after[Len(file)]

\* load_capture, which pauses the recorder, and the first record shown.
Load ==
    /\ phase = "script" /\ FileLength > 0
    /\ LET kept == Pushed(FileRecords)
       IN /\ rec' = [on |-> FALSE, ring |-> kept, last |-> FileLength]
          /\ offered' = FileRecords
          /\ active' = 1
          /\ link' = Run([link EXCEPT !.latest = kept[1]], FALSE)
    /\ UNCHANGED <<inst, pending, events, phase>>

Flush ==
    /\ phase = "script" /\ phase' = "ingest"
    /\ pending' = IF link.dirty THEN link.running ELSE pending
    /\ link' = [link EXCEPT !.dirty = FALSE]
    /\ UNCHANGED <<inst, events, rec, active, offered>>

-----------------------------------------------------------------------------
(* The supervisor's thread and the instrument.                             *)

Acquire ==
    /\ inst.running /\ inst.made < MaxRecords /\ Len(events) < EventCap
    /\ inst' = [inst EXCEPT !.made = @ + 1]
    /\ events' = Append(events, [session |-> inst.session, seq |-> inst.made + 1])
    /\ UNCHANGED <<pending, phase, link, rec, active, offered>>

Apply ==
    /\ pending # None
    /\ inst' = [inst EXCEPT !.running = pending] /\ pending' = None
    /\ UNCHANGED <<events, phase, link, rec, active, offered>>

\* Unplugged, plugged in again and configured as before.
Replug ==
    /\ inst.session < MaxSessions
    /\ inst' = [inst EXCEPT !.session = @ + 1, !.made = 0]
    /\ UNCHANGED <<pending, events, phase, link, rec, active, offered>>

-----------------------------------------------------------------------------
(* The timeline view: deep::build.                                         *)

\* first_after: the ring is searched, not scanned, for the first record that
\* ends after t; a partition point is found by halving.
FirstAfter(t) ==
    LET ring == rec.ring
        Halve[lo \in 1..(Len(ring) + 1), hi \in 1..(Len(ring) + 1)] ==
            IF lo >= hi THEN lo
            ELSE LET mid == (lo + hi) \div 2
                 IN IF ring[mid].seq <= t THEN Halve[mid + 1, hi] ELSE Halve[lo, mid]
    IN Halve[1, Len(ring) + 1]

\* The records a window from t to end is drawn from: up to the first that
\* starts after it.
Drawn(t, end) ==
    {k \in FirstAfter(t)..Len(rec.ring) :
        \A j \in FirstAfter(t)..k : rec.ring[j].seq - 1 < end}

-----------------------------------------------------------------------------
Init ==
    /\ inst = [session |-> 1, made |-> 0, running |-> TRUE]
    /\ pending = None /\ events = <<>> /\ phase = "ingest"
    /\ link = [running |-> TRUE, dirty |-> FALSE, latest |-> None]
    /\ rec = [on |-> TRUE, ring |-> <<>>, last |-> 0]
    /\ active = None /\ offered = <<>>

Next ==
    \/ Ingest \/ \E k \in 1..Budget : Show(k)
    \/ Live \/ SetRecording \/ \E button \in BOOLEAN : Clear(button)
    \/ Load \/ Flush
    \/ Acquire \/ Apply \/ Replug

Spec == Init /\ [][Next]_vars

-----------------------------------------------------------------------------
(* Correctness properties.                                                 *)

\* What was offered, without the records numbered like the one before.
Distinct(s) ==
    LET upto[n \in 0..Len(s)] ==
            IF n = 0 THEN <<>>
            ELSE IF n > 1 /\ s[n].seq = s[n - 1].seq THEN upto[n - 1]
            ELSE Append(upto[n - 1], s[n])
    IN upto[Len(s)]

\* The scrollback is the tail of what it was offered: every record of an app
\* frame and not only the newest, through pauses, scrubbing, loads, clears
\* and overflows, and no shorter than its budget allows.  Records numbered
\* alike on both sides of a replug count once.
RingIsTail ==
    LET distinct == Distinct(offered)
    IN /\ IsSuffix(rec.ring, distinct)
       /\ Len(rec.ring) >= Min({Len(distinct), Max({MinKept, Budget - Budget \div Chunk})})
       /\ Len(rec.ring) <= Max({Budget, MinKept})

\* record.rs on the history browser: "while `active`, acquisition is stopped
\* and the display shows `Recorder.frames[i]`".
ShowsRecorded ==
    active # None /\ active \in DOMAIN rec.ring => link.latest = rec.ring[active]

\* record.rs on first_after: "The ring is in capture order, so this is a
\* search": what a window draws is what overlaps it.
FoundByTime ==
    \A t \in 0..MaxRecords : \A end \in (t + 1)..(MaxRecords + 1) :
        Drawn(t, end) = {k \in DOMAIN rec.ring : rec.ring[k].seq > t /\ rec.ring[k].seq - 1 < end}
=============================================================================
