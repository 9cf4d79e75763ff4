-------------------------------- MODULE Uart ---------------------------------
(***************************************************************************)
(* The asynchronous decoder: a line sampled at a rate that is no multiple  *)
(* of the bit rate, sent by a clock that is a little off, and the search   *)
(* for start bits that must not step over one.  One step is one turn of    *)
(* decode()'s loop that finds a start bit.                                 *)
(*                                                                         *)
(* Durations are in tenths of a sample; the decoder's floors are kept.     *)
(***************************************************************************)
EXTENDS Naturals, Sequences, SequencesExt, FiniteSetsExt

CONSTANTS
    PerBit,    \* per_bit, from the configured baud
    Clocks,    \* the sender's own bit times
    Phases,    \* where in a sample the sender's bits begin
    Bits,      \* Config::bits
    Texts,     \* what is sent, as sequences of words
    Gaps,      \* idle bits between two words
    Spikes,    \* samples of a spike in the idle line before them
    Wrap       \* bound: 2^64, where a usize that went below zero continues

Parities == {"none", "even", "odd"}

UartAssumption ==
    /\ PerBit \in Nat \ {0} /\ Clocks \subseteq Nat \ {0} /\ Bits \in Nat \ {0}
    /\ Texts \subseteq Seq([1..Bits -> BOOLEAN])

VARIABLES
    line,    \* what is sent and how: text, gap, clock, phase, parity
    levels,  \* the capture, digitized
    at,      \* i
    lastEnd, \* last_end, or None
    events   \* [kind, word, start, end]

vars == <<line, levels, at, lastEnd, events>>

None == <<>>

-----------------------------------------------------------------------------
(* The capture.                                                            *)
Ones(word) == Cardinality({b \in DOMAIN word : word[b]})

ParityBit(word, parity) ==
    CASE parity = "none" -> <<>>
      [] parity = "even" -> <<Ones(word) % 2 = 1>>
      [] parity = "odd"  -> <<Ones(word) % 2 = 0>>

FrameBits(l) == 1 + Bits + (IF l.parity = "none" THEN 0 ELSE 1)

\* Two idle bits, every word with its start, parity, stop and gap, two more.
CellsPerWord(l) == FrameBits(l) + 1 + l.gap
Cell(l, c) ==
    LET word == 1 + (c - 2) \div CellsPerWord(l)
        bit  == (c - 2) % CellsPerWord(l)
    IN CASE c < 2 \/ word > Len(l.text) \/ bit >= FrameBits(l) -> TRUE
         [] OTHER -> IF bit = 0 THEN FALSE
                     ELSE IF bit <= Bits THEN l.text[word][bit] ELSE ParityBit(l.text[word], l.parity)[1]

Capture(l) ==
    [j \in 1..(((Len(l.text) * CellsPerWord(l) + 4) * l.clock - l.phase) \div 10) |->
        Cell(l, (10 * (j - 1) + l.phase) \div l.clock) /\ ~(j \in 3..(2 + l.spike))]

-----------------------------------------------------------------------------
(* decode().                                                               *)
Level(i) == levels[i + 1]

Centre(start, k) == start + ((2 * k + 1) * PerBit) \div 20
Steady(start, k) ==
    \A j \in (start + ((5 * k + 1) * PerBit) \div 50)..(start + ((5 * k + 4) * PerBit) \div 50 - 1) :
        Level(j) = Level(Centre(start, k))
End(start) == start + ((FrameBits(line) + 1) * PerBit) \div 10

\* Changed form: the search goes on at the rounded end of the frame.
ResumeAtEnd(start) == End(start)
\* Half a bit inside the stop bit.
Resume(start) == start + ((2 * FrameBits(line) + 1) * PerBit) \div 20

\* start - last_end in a usize, as a release build does it: PACKET_GAP_BITS.
FarFrom(start) == (start + Wrap - lastEnd[1]) % Wrap > PerBit

IdleMark(start) ==
    IF lastEnd # None /\ FarFrom(start)
    THEN <<[kind |-> "idle", word |-> None, start |-> lastEnd[1], end |-> start]>> ELSE <<>>

\* The frame that starts at `start': the first complaint, or the word.
Frame(start) ==
    LET word == [b \in 1..Bits |-> Level(Centre(start, b))]
        is(kind, w) == [kind |-> kind, word |-> w, start |-> start, end |-> End(start)]
    IN CASE \E k \in 1..Bits : ~Steady(start, k) -> is("unstable", None)
         [] OTHER ->
              IF line.parity # "none" /\ ParityBit(word, line.parity) # <<Level(Centre(start, Bits + 1))>>
              THEN is("parity", None)
              ELSE IF ~Level(Centre(start, FrameBits(line))) THEN is("framing", None) ELSE is("word", word)

Count  == Len(levels)
Starts == {i \in at..(Count - 2) : Level(i) /\ ~Level(i + 1)}

\* Nothing more, or not the whole of a frame.
Ends ==
    /\ at < Count
    /\ Starts # {} => End(Min(Starts) + 1) >= Count
    /\ at' = Count
    /\ UNCHANGED <<line, levels, lastEnd, events>>

\* A low that does not last half a bit.
Glitch ==
    /\ Starts # {}
    /\ LET start == Min(Starts) + 1
       IN /\ End(start) < Count /\ Level(Centre(start, 0))
          /\ events' = events \o IdleMark(start)
                \o <<[kind |-> "glitch", word |-> None, start |-> start, end |-> Centre(start, 0)]>>
          /\ at' = start + 1
    /\ UNCHANGED <<line, levels, lastEnd>>

Take ==
    /\ Starts # {}
    /\ LET start == Min(Starts) + 1
       IN /\ End(start) < Count /\ ~Level(Centre(start, 0))
          /\ events' = events \o IdleMark(start) \o <<Frame(start)>>
          /\ lastEnd' = <<End(start)>>
          /\ at' = Resume(start)
    /\ UNCHANGED <<line, levels>>

-----------------------------------------------------------------------------
\* A capture may hold a spike of `spike' samples before the first frame.
Init ==
    /\ line \in [text : Texts, gap : Gaps, clock : Clocks, phase : Phases, parity : Parities,
                 spike : Spikes]
    /\ levels = Capture(line)
    /\ at = 0 /\ lastEnd = None /\ events = <<>>

Next == Ends \/ Glitch \/ Take
Spec == Init /\ [][Next]_vars

-----------------------------------------------------------------------------
(* Correctness properties.                                                 *)
Read == SelectSeq(events, LAMBDA e : e.kind \notin {"idle", "glitch"})

\* Every word sent is read, once and without a complaint, whether frames are
\* back to back or apart, and though neither clock divides the other's
\* samples: no start bit is stepped over, no data edge taken for one, and a
\* spike shorter than half a bit costs no word.
ReadsEveryWord == at >= Count => [k \in DOMAIN Read |-> Read[k].word] = line.text

\* uart.rs: "Idle gap, in bit times, that separates one packet from the next":
\* an idle mark spans that much of the capture.
IdleIsAGap == \A k \in DOMAIN events :
    events[k].kind = "idle" => events[k].end > events[k].start + PerBit

-----------------------------------------------------------------------------
(* Digitizing: digitize()'s Schmitt trigger against what it is to return.   *)

Digitized(raw, lo, hi) ==
    FoldLeft(LAMBDA out, v :
                 LET state == IF out = <<>> THEN 2 * raw[1] >= lo + hi ELSE Last(out)
                 IN Append(out, (state /\ v >= lo) \/ (~state /\ v > hi)),
             <<>>, raw)

\* A sample is high when the last one outside the band was above it, and with
\* none outside so far when the first was in the upper half.
Crossed(raw, lo, hi) ==
    [k \in DOMAIN raw |->
        LET outside == {j \in 1..k : raw[j] < lo \/ raw[j] > hi}
        IN IF outside = {} THEN 2 * raw[1] >= lo + hi ELSE raw[Max(outside)] > hi]
=============================================================================
