------------------------------ MODULE DabLabel -------------------------------
(***************************************************************************)
(* The dynamic label: a text sent in segments, each a data group with its  *)
(* own CRC, split over the sub-fields of the X-PAD between those of other  *)
(* applications, and put together again by PadParser.                      *)
(*                                                                         *)
(* A data group is two units, of which the first has the header; a unit    *)
(* keeps whose it is, and that a group's CRC passes means that both units  *)
(* of one group follow each other.  A sub-field ends with the group it     *)
(* carries or with zeros, so that one group at most is extracted of it.    *)
(***************************************************************************)
EXTENDS Integers, Sequences, FiniteSets

CONSTANTS
    Lengths,        \* the segments of each message the station sends
    None

\* A message, all its segments.
WholeText(m) == [k \in 0..(Lengths[m] - 1) |-> m]

\* None is no parity, no application and no text.
LabelAssumption ==
    /\ Lengths \in Seq(1..8) \ {<<>>}
    /\ None \notin {0, 1} /\ None \notin {"start", "cont", "other"}
    /\ \A m \in DOMAIN Lengths : None # WholeText(m)

VARIABLES
    tx,       \* the sender: its message and segment, and whether half is sent
    p,        \* PadParser
    heard,    \* history: fields of this message in a row that came through
    taken,    \* history: a group of this message was taken
    skipped   \* history: a message ended of which no group was taken

vars == <<tx, p, heard, taken, skipped>>

-----------------------------------------------------------------------------
Unit(m, seg, part) == [msg |-> m, seg |-> seg, part |-> part]
Clearing == [msg |-> 0, seg |-> 1, part |-> 0]
Noise == [msg |-> 0, seg |-> 2, part |-> 0]

\* An X-PAD sub-field; one without a contents indicator has no application.
Field(app, units) == [app |-> app, units |-> units]

Parser == [acc |-> <<>>, active |-> FALSE, segments |-> <<>>, toggle |-> None,
           dls |-> None, dlsLast |-> FALSE]

\* entry(key).or_insert: the first segment of a number stays.
WithSegment(segments, unit) ==
    [k \in DOMAIN segments \cup {unit.seg} |->
        IF k \in DOMAIN segments THEN segments[k] ELSE unit.msg]

IsLast(segments, k) == k = Lengths[segments[k]] - 1

\* What the segments say: the text up to the first that is a last one.
Text(segments) ==
    LET lasts == {k \in DOMAIN segments : IsLast(segments, k)}
        last  == CHOOSE k \in lasts : \A j \in lasts : k <= j
    IN IF lasts = {} THEN None
       ELSE IF 0..last \subseteq DOMAIN segments THEN [k \in 0..last |-> segments[k]]
       ELSE None

\* add_segment: the toggle inverts when the message changes.
Segments(q, unit) ==
    WithSegment(IF q.toggle = unit.msg % 2 THEN q.segments ELSE <<>>, unit)

AddSegment(q, unit) ==
    LET segments == Segments(q, unit)
        text     == Text(segments)
    IN [q EXCEPT !.segments = segments, !.toggle = unit.msg % 2,
                 !.dls = IF text = None THEN @ ELSE text]

DropGroup(q) == [q EXCEPT !.acc = <<>>, !.active = FALSE]
Forget(q) == [q EXCEPT !.segments = <<>>, !.toggle = None]

IsGroup(acc) == acc[1].part = 1 /\ acc[2] = [acc[1] EXCEPT !.part = 2]

\* extract_groups: a command is a group of one unit.
Extracted(q) ==
    CASE ~q.active -> q
      [] q.active /\ q.acc[1] = Clearing -> DropGroup([Forget(q) EXCEPT !.dls = None])
      [] q.active /\ q.acc[1] # Clearing /\ Len(q.acc) < 2 -> q
      [] q.active /\ q.acc[1] # Clearing /\ Len(q.acc) >= 2 ->
            IF IsGroup(q.acc) THEN DropGroup(AddSegment(q, q.acc[1])) ELSE DropGroup(Forget(q))

StartGroup(q, units) == [q EXCEPT !.acc = units, !.active = TRUE]
ContinueGroup(q, units) == IF q.active THEN [q EXCEPT !.acc = @ \o units] ELSE q

\* push_xpad.  Another application's field is skipped, and what came last
\* stays what it was.
PushXpad(q, f) ==
    CASE f.app = "start" -> [Extracted(StartGroup(q, f.units)) EXCEPT !.dlsLast = TRUE]
      [] f.app = "cont"  -> [Extracted(ContinueGroup(q, f.units)) EXCEPT !.dlsLast = TRUE]
      [] f.app = "other" -> q
      [] f.app = None    -> IF q.dlsLast THEN Extracted(ContinueGroup(q, f.units)) ELSE q

-----------------------------------------------------------------------------
\* The fields of two passes: in so many a message is told.
Enough == 2 * 2 * Lengths[tx.msg]
Counted(n) == IF n > Enough THEN Enough ELSE n

Noisy(f) == Field(f.app, [i \in DOMAIN f.units |-> Noise])

\* A field of the message arrives, is lost, or arrives as noise.
Carry(f, whole) ==
    /\ \/ /\ p' = PushXpad(p, f)
          /\ heard' = Counted(heard + Len(f.units))
       \/ p' = p /\ heard' = 0
       \/ p' = PushXpad(p, Noisy(f)) /\ heard' = 0
    /\ taken' = (taken \/ (whole /\ p'.toggle = tx.msg % 2 /\ heard' >= 2))
    /\ UNCHANGED skipped

NextSegment == [tx EXCEPT !.seg = (@ + 1) % Lengths[tx.msg], !.half = FALSE]

\* A group in one sub-field, or its first half.
Whole ==
    /\ ~tx.half /\ tx' = NextSegment
    /\ Carry(Field("start", <<Unit(tx.msg, tx.seg, 1), Unit(tx.msg, tx.seg, 2)>>), TRUE)

FirstHalf ==
    /\ ~tx.half /\ tx' = [tx EXCEPT !.half = TRUE]
    /\ Carry(Field("start", <<Unit(tx.msg, tx.seg, 1)>>), FALSE)

\* The second half, with a contents indicator or without one.
SecondHalf ==
    /\ tx.half /\ tx' = NextSegment
    /\ \E app \in {"cont", None} : Carry(Field(app, <<Unit(tx.msg, tx.seg, 2)>>), TRUE)

\* The message changes, between two groups.
NewMessage ==
    /\ ~tx.half /\ tx.msg + 1 \in DOMAIN Lengths
    /\ tx' = [msg |-> tx.msg + 1, seg |-> 0, half |-> FALSE]
    /\ heard' = 0 /\ taken' = FALSE /\ skipped' = (skipped \/ ~taken)
    /\ UNCHANGED p

\* The display is cleared; the message goes on.
Clear ==
    /\ ~tx.half /\ \/ p' = PushXpad(p, Field("start", <<Clearing>>))
                   \/ p' = p
    /\ heard' = 0 /\ UNCHANGED <<tx, taken, skipped>>

\* Another application's field comes between, and one that continues it.
Other ==
    /\ p' = PushXpad(p, Field("other", <<Noise>>))
    /\ UNCHANGED <<tx, heard, taken, skipped>>

OtherContinues ==
    /\ p' = PushXpad(p, Field(None, <<Noise>>))
    /\ heard' = IF tx.half THEN 0 ELSE heard
    /\ UNCHANGED <<tx, taken, skipped>>

\* The receiver is retuned, to the same programme.
Reset == p' = Parser /\ heard' = 0 /\ UNCHANGED <<tx, taken, skipped>>

Init ==
    /\ tx = [msg |-> 1, seg |-> 0, half |-> FALSE]
    /\ p = Parser /\ heard = 0 /\ taken = FALSE /\ skipped = FALSE

Next ==
    \/ Whole \/ FirstHalf \/ SecondHalf \/ NewMessage \/ Clear
    \/ Other \/ OtherContinues \/ Reset

Spec == Init /\ [][Next]_vars

-----------------------------------------------------------------------------
(* Correctness properties.                                                 *)

\* The label shown is one that was sent, whole and of one message, unless a
\* message passed of which nothing was heard: the toggle is then the same.
ShownWasSent ==
    p.dls # None /\ ~skipped => \E m \in 1..tx.msg : p.dls = WholeText(m)

\* A message of which two passes came through is the one shown.
HeardIsShown == heard = Enough /\ ~skipped => p.dls = WholeText(tx.msg)

\* "A partial or corrupt label is never shown": nor of two messages.
NeverPartial == p.dls # None => \E m \in 1..tx.msg : p.dls = WholeText(m)

\* "Unknown applications are skipped": nothing of theirs is taken for the
\* label's.
OthersAreSkipped == [][OtherContinues => p' = p]_vars
=============================================================================
