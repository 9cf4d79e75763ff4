------------------------------ MODULE ScopeDesk ------------------------------
(***************************************************************************)
(* The oscilloscope's desk in the app: the front panel, the trigger,       *)
(* utility and math sections, and what is derived of every record: the     *)
(* math trace, the measurements with their statistics, the spectrum, the   *)
(* pass/fail verdict, the decoded events and the picture.  One Update is   *)
(* one frame of the app: take in what the instrument sent, push the        *)
(* configuration, derive, draw.  The controls are used between two frames. *)
(* neowon-app/src: derived.rs, decode.rs, plot.rs, refs.rs, ui/.           *)
(***************************************************************************)
EXTENDS Integers, Sequences, FiniteSets, SequencesExt, FiniteSetsExt

CONSTANTS
    Traces,         \* what a channel may show: samples of raw counts
    Measures,       \* Measured and Envelope of every trace that comes up, as a table
    Peaks,          \* those of them that are records of hardware peak detect
    Grain,          \* the parts a sample's time is told in
    Scales,         \* the 1-2-5 ladder of full scales
    HistoryLen,     \* the values a trend keeps
    ErrorShow,      \* how long the bar tells a refusal
    MathOps, Kinds, \* the math operations and the trigger kinds that are chosen
    MaxTime, MaxUpdates, MaxEdits, MaxSteps,    \* bounds: updates, edits and both
    None

VARIABLES
    d,        \* the desk
    inst,     \* the instrument: its record number, and the records of all sessions
    said,     \* the configuration last sent, or adopted from the instrument
    past,     \* what was measured and judged since the last reset, in order
    used      \* updates and edits spent

vars == <<d, inst, said, past, used>>

Channels == 1..2
Slots == 1..3                               \* the third is the math trace
Ops == {"add", "sub", "mul", "div", "diff", "integ"}
Metrics == {"Vpp", "Period"}
Size(n) == IF n >= 0 THEN n ELSE -n
Rounded(n, k) == (IF n >= 0 THEN 1 ELSE -1) * ((2 * Size(n) + k) \div (2 * k))
Cut(n, k) == (IF n * k >= 0 THEN 1 ELSE -1) * (Size(n) \div Size(k))
Within(n, k) == IF n > k THEN k ELSE IF n < -k THEN -k ELSE n

-----------------------------------------------------------------------------
(* What is measured of a trace.                                            *)
Lowest(t) == Min(ToSet(t))
Highest(t) == Max(ToSet(t))

\* The middle of the swing, with a hysteresis of an eighth of it and at least
\* two counts, in sixteenths of a count.
Threshold(t) ==
    LET middle == 8 * (Lowest(t) + Highest(t))
        half == Max({16, Highest(t) - Lowest(t)})
    IN [low |-> middle - half, high |-> middle + half]

\* The crossings: an edge counts once the trace was beyond the other
\* threshold since the last one of its direction.
Crossings(t) ==
    LET th == Threshold(t)
        Next16(c, i) ==
            LET was == 16 * t[i - 1]
                is == 16 * t[i]
                low == c.low \/ is < th.low
                high == c.high \/ is > th.high
                At(part, whole) == (i - 2) * Grain + (part * Grain) \div whole
            IN IF low /\ was < th.high /\ is >= th.high
               THEN [low |-> FALSE, high |-> high,
                     out |-> Append(c.out, [rising |-> TRUE, at |-> At(th.high - was, is - was)])]
               ELSE IF high /\ was > th.low /\ is <= th.low
               THEN [low |-> low, high |-> FALSE,
                     out |-> Append(c.out, [rising |-> FALSE, at |-> At(was - th.low, was - is)])]
               ELSE [c EXCEPT !.low = low, !.high = high]
    IN FoldLeft(Next16, [low |-> FALSE, high |-> FALSE, out |-> <<>>],
                [i \in 1..Len(t) - 1 |-> i + 1]).out

\* The level held most often in a half, if it is held often enough; of two,
\* the upper.
Mode(t, from, to, otherwise) ==
    LET Times(v) == Cardinality({i \in DOMAIN t : t[i] = v})
        often == {v \in from..to : Times(v) >= Max({4, Len(t) \div 32})}
    IN IF often = {} THEN otherwise
       ELSE CHOOSE v \in often : \A w \in often : Times(w) < Times(v) \/ (Times(w) = Times(v) /\ w <= v)
TopBase(t) ==
    LET mid == Cut(Lowest(t) + Highest(t), 2)
    IN [top |-> Mode(t, mid + 1, Highest(t), Highest(t)), base |-> Mode(t, Lowest(t), mid, Lowest(t))]

\* A mean is its sum and its number.
Spacing(at) == IF Len(at) < 2 THEN None ELSE [sum |-> Last(at) - Head(at), n |-> Len(at) - 1]
Ats(cr, rising) == LET those == SelectSeq(cr, LAMBDA c : c.rising = rising) IN [i \in DOMAIN those |-> those[i].at]
Widths(cr, rising) ==
    LET pairs == {i \in 1..Len(cr) - 1 : cr[i].rising = rising /\ cr[i + 1].rising # rising}
    IN IF pairs = {} THEN None
       ELSE [sum |-> MapThenSumSet(LAMBDA i : cr[i + 1].at - cr[i].at, pairs), n |-> Cardinality(pairs)]

\* measure: a swing under eight counts has no timing.
Measured(t) ==
    LET cr == IF Highest(t) - Lowest(t) < 8 THEN <<>> ELSE Crossings(t)
        rises == Spacing(Ats(cr, TRUE))
    IN [Vpp |-> Highest(t) - Lowest(t), top |-> TopBase(t).top, base |-> TopBase(t).base,
        Period |-> IF rises # None THEN rises ELSE Spacing(Ats(cr, FALSE)),
        high |-> Widths(cr, TRUE), low |-> Widths(cr, FALSE)]

\* measure_envelope: of pairs, the series with the higher mean is the maxima;
\* what the spacing of samples tells is absent.
Envelope(t) ==
    LET Series(k) == [i \in 1..(Len(t) + 2 - k) \div 2 |-> t[2 * (i - 1) + k]]
        Total(s) == FoldLeft(LAMBDA a, x : a + x, 0, s)
        above == Total(Series(1)) * Len(Series(2)) >= Total(Series(2)) * Len(Series(1))
        maxs == Series(IF above THEN 1 ELSE 2)
        mins == Series(IF above THEN 2 ELSE 1)
    IN [Vpp |-> Highest(t) - Lowest(t), top |-> TopBase(maxs).top, base |-> TopBase(mins).base,
        Period |-> None, high |-> None, low |-> None]

ScopeDeskAssumption ==
    /\ \A t \in Traces : t \in Seq(-128..127) /\ Len(t) >= 2
    /\ \A t \in DOMAIN Measures.plain : Measures.plain[t] = Measured(t)
    /\ \A t \in DOMAIN Measures.peak : Measures.peak[t] = Envelope(t)
    /\ Grain \in Nat \ {0} /\ HistoryLen \in Nat \ {0} /\ ErrorShow \in Nat

-----------------------------------------------------------------------------
(* The math trace and the pass/fail envelope.                              *)
NeedsB(op) == op \in {"add", "sub", "mul", "div"}
Compute(a, b, op) ==
    LET n == IF NeedsB(op) THEN Min({Len(a), Len(b)}) ELSE Len(a)
    IN [i \in 1..n |->
          CASE op = "add" -> a[i] + b[i]
            [] op = "sub" -> a[i] - b[i]
            [] op = "mul" -> a[i] * b[i]
            [] op = "div" -> IF b[i] = 0 THEN 0 ELSE Cut(a[i], b[i])
            [] op = "diff" -> CASE i = 1 -> a[2] - a[1]
                                [] i = n -> a[n] - a[n - 1]
                                [] OTHER -> Cut(a[i + 1] - a[i - 1], 2)
            [] op = "integ" -> FoldLeft(LAMBDA s, x : s + x, 0, SubSeq(a, 1, i))]

\* The first scale that leaves the peak a fifth of headroom.
FullScale(values) ==
    LET peak == Max({0} \cup {Size(values[i]) : i \in DOMAIN values})
    IN Min({s \in Scales : 5 * s >= 12 * peak})
Quantized(values, scale) == [i \in DOMAIN values |-> Within(Rounded(values[i] * 250, scale), 125)]
Clips(values, scale) == \E i \in DOMAIN values : Size(Rounded(values[i] * 250, scale)) > 125

\* build_pf_mask: h and v are tolerances in divisions.
Railed(n) == IF n > 127 THEN 127 ELSE IF n < -128 THEN -128 ELSE n
Mask(ref, h, v) ==
    LET half == Max({1, Rounded(h * Len(ref), 20)}) \div 2
        pad == Rounded(v * 250, 10)
        Near(i) == {ref[j] : j \in {k \in DOMAIN ref : k >= i - half /\ k <= i + half}}
    IN [lo |-> [i \in DOMAIN ref |-> Railed(Min(Near(i)) - pad)],
        hi |-> [i \in DOMAIN ref |-> Railed(Max(Near(i)) + pad)]]
Passes(mask, t) ==
    \A i \in 1..Min({Len(mask.lo), Len(t)}) : t[i] >= mask.lo[i] /\ t[i] <= mask.hi[i]

-----------------------------------------------------------------------------
(* Numbers on display: m ten-thousandths of 1000^band, 1000^band <= the    *)
(* value, or nothing for zero, and the band a readout last used.           *)
Fits(m, up) ==       \* within [0.5, 1050) of a band that many higher
    CASE up = 0 -> m >= 5000 /\ m < 10500000
      [] up = 1 -> m >= 5000000
      [] up = -1 -> m >= 5 /\ m < 10500
      [] OTHER -> FALSE
Sticky(x, band) ==
    IF band # None /\ (x.m = 0 \/ Fits(x.m, band - x.band)) THEN band ELSE x.band

\* mantissa6: decimals are dropped until the field of six holds it.
Digits(n) == IF n < 10 THEN 1 ELSE IF n < 100 THEN 2 ELSE IF n < 1000 THEN 3 ELSE IF n < 10000 THEN 4 ELSE 5
Chars(m, decimals, negative) ==
    LET part == 10 ^ (4 - decimals)
    IN Digits(Rounded(m, part) \div 10 ^ decimals)
       + (IF decimals > 0 THEN decimals + 1 ELSE 0) + (IF negative THEN 1 ELSE 0)
Field(m, negative) ==
    LET most == IF m >= 10000000 THEN (IF negative THEN 0 ELSE 1)
                ELSE IF m >= 1000000 THEN 1 ELSE IF m >= 100000 THEN 2 ELSE 3
        fitting == {k \in 0..most : Chars(m, k, negative) <= 6}
    IN Max({6, Chars(m, IF fitting = {} THEN 0 ELSE Max(fitting), negative)})
Mantissa(x, band) ==
    CASE band = x.band -> x.m [] band = x.band + 1 -> Rounded(x.m, 1000) [] OTHER -> x.m * 1000

-----------------------------------------------------------------------------
(* The desk.                                                               *)
NoStat == [count |-> 0, min |-> 0, max |-> 0]
NoStats == [s \in Slots |-> [k \in Metrics |-> NoStat]]
NoTrend == [s \in Slots |-> [k \in Metrics |-> <<>>]]
NoPast == [measured |-> NoTrend, judged |-> <<>>]

Conf == [on |-> <<TRUE, TRUE>>, running |-> TRUE, sweep |-> "auto", kind |-> "edge", source |-> 1,
         level |-> 0, upper |-> 0, lower |-> 0, position |-> 0]

\* As a script left it: the math trace and pass/fail on.
Init ==
    /\ d = [conf |-> Conf, dirty |-> FALSE, caps |-> TRUE, status |-> "ready", latest |-> None,
         now |-> 0, lastAt |-> 0, port |-> <<>>,
         meas |-> [seq |-> 0, of |-> None, latest |-> [s \in Slots |-> None], stats |-> NoStats,
                   trend |-> NoTrend, slot |-> 1],
         math |-> [on |-> TRUE, op |-> "add", scale |-> Max(Scales), rescale |-> TRUE, trace |-> None],
         fft |-> [on |-> FALSE, source |-> 1, of |-> None],
         pf |-> [on |-> TRUE, source |-> 1, h |-> 1, v |-> 1, mask |-> None, pass |-> 0, fail |-> 0,
                 stop |-> TRUE, out |-> TRUE],
         dec |-> [protocol |-> "off", line |-> 1, seq |-> 0, of |-> None, error |-> FALSE],
         picture |-> [of |-> None, seq |-> None, trail |-> {}], persist |-> "short",
         refs |-> [c \in Channels |-> None],
         menus |-> [open |-> <<"trigger">>, focus |-> None],
         bar |-> [text |-> None, since |-> 0, shows |-> None, run |-> "RUN"]]
    /\ inst = [seq |-> 0, taken |-> 0, refusedAt |-> None]
    /\ said = Conf /\ past = NoPast
    /\ used = [updates |-> 0, edits |-> 0]

Frame(seq, id, peak, data) == [seq |-> seq, id |-> id, peak |-> peak, data |-> data]
SlotTrace(x, s) ==
    IF s \in Channels THEN (IF x.latest # None /\ x.latest.data[s] # None THEN x.latest.data[s] ELSE None)
    ELSE IF x.math.trace # None THEN x.math.trace.data ELSE None

\* The math trace of the record, on a new scale if one was asked for.
WithMath(x) ==
    LET a == SlotTrace(x, 1)
        b == SlotTrace(x, 2)
        values == Compute(a, b, x.math.op)
        scale == IF x.math.rescale THEN FullScale(values) ELSE x.math.scale
    IN IF x.math.on /\ a # None /\ (NeedsB(x.math.op) => b # None)
       THEN [x EXCEPT !.math.trace = [data |-> Quantized(values, scale), fresh |-> x.math.rescale,
                                      clips |-> Clips(values, scale)],
                      !.math.scale = scale, !.math.rescale = FALSE]
       ELSE [x EXCEPT !.math.trace = None]

Get(m, k) == IF k = "Vpp" THEN m.Vpp ELSE IF m.Period = None THEN None ELSE m.Period.sum \div m.Period.n
Pushed(ring, v) == Append(IF Len(ring) >= HistoryLen THEN Tail(ring) ELSE ring, v)
Counted(stat, v) ==
    [count |-> stat.count + 1, min |-> IF stat.count = 0 THEN v ELSE Min({stat.min, v}),
     max |-> IF stat.count = 0 THEN v ELSE Max({stat.max, v})]
Values(x) ==
    [s \in Slots |-> IF SlotTrace(x, s) = None THEN None
                     ELSE IF x.latest.peak THEN Measures.peak[SlotTrace(x, s)]
                     ELSE Measures.plain[SlotTrace(x, s)]]
Valued(values, s, k) == values[s] # None /\ Get(values[s], k) # None
WithMeasurements(x) ==
    LET values == Values(x)
    IN [x EXCEPT
          !.meas.latest = values, !.meas.of = x.latest.id, !.meas.seq = x.latest.seq,
          !.meas.stats = [s \in Slots |-> [k \in Metrics |->
             IF Valued(values, s, k) THEN Counted(@[s][k], Get(values[s], k)) ELSE @[s][k]]],
          !.meas.trend = [s \in Slots |-> [k \in Metrics |->
             IF Valued(values, s, k) THEN Pushed(@[s][k], Get(values[s], k)) ELSE @[s][k]]],
          !.fft.of = IF x.fft.on /\ SlotTrace(x, x.fft.source) # None THEN x.latest.id ELSE None]

\* The verdict, where there is a reference and a trace to judge; a failure
\* may stop the acquisition.
Judges(x) == x.pf.on /\ x.pf.mask # None /\ SlotTrace(x, x.pf.source) # None
WithVerdict(x) ==
    LET passed == Passes(x.pf.mask, SlotTrace(x, x.pf.source))
        stops == x.pf.stop /\ ~passed
    IN IF ~Judges(x) THEN x
       ELSE [x EXCEPT !.pf.pass = @ + (IF passed THEN 1 ELSE 0), !.pf.fail = @ + (IF passed THEN 0 ELSE 1),
                      !.port = IF x.pf.out THEN <<passed>> ELSE @,
                      !.conf.running = @ /\ ~stops, !.dirty = @ \/ stops]

\* compute_derived: once for a record number that is not the last one's.
IsNew(x) == x.latest # None /\ x.latest.seq # x.meas.seq
Derived(x) == IF IsNew(x) THEN WithVerdict(WithMeasurements(WithMath(x))) ELSE x

\* decode::run, on the data line of the protocol.
Decoded(x) ==
    IF x.dec.protocol = "off"
    THEN IF x.dec.of = None THEN x ELSE [x EXCEPT !.dec.of = None, !.dec.error = FALSE]
    ELSE IF x.latest = None \/ x.latest.seq = x.dec.seq THEN x
    ELSE IF SlotTrace(x, x.dec.line) # None
            /\ Highest(SlotTrace(x, x.dec.line)) > Lowest(SlotTrace(x, x.dec.line))
    THEN [x EXCEPT !.dec.seq = x.latest.seq, !.dec.of = x.latest.id, !.dec.error = FALSE]
    ELSE [x EXCEPT !.dec.seq = x.latest.seq, !.dec.of = None, !.dec.error = TRUE]

\* update_phosphor and the raster: a record is blended into those before it,
\* or with persistence off replaces them.
Blended(x) == {x.latest.id} \cup (IF x.persist = "off" THEN {} ELSE x.picture.trail)
Pictured(x) ==
    IF x.latest = None \/ x.latest.seq = x.picture.seq THEN x
    ELSE [x EXCEPT !.picture = [of |-> x.latest.id, seq |-> x.latest.seq, trail |-> Blended(x)]]

\* The bar: the run state, and with a device connected an error while fresh,
\* counted from when its text was first seen.
RunState(x) ==
    IF ~x.conf.running THEN "STOP"
    ELSE IF x.conf.sweep \in {"normal", "single"} /\ x.now > x.lastAt THEN "WAIT" ELSE "RUN"
IsError(text) == text \in {"error", "disconnected"}
Barred(x) ==
    LET since == IF x.bar.text = x.status THEN x.bar.since ELSE x.now
    IN [x EXCEPT !.bar =
          IF ~x.caps THEN [@ EXCEPT !.shows = x.status, !.run = RunState(x)]
          ELSE [text |-> x.status, since |-> since, run |-> RunState(x),
                shows |-> IF IsError(x.status) /\ x.now - since <= ErrorShow THEN x.status ELSE None]]

\* The sections are drawn every frame, and one of them scrolled into view.
Laid(x) == [x EXCEPT !.menus.focus = None]
Flushed(x) == [x EXCEPT !.dirty = FALSE]

\* ingest: what the instrument sent, oldest first.
Took(x, e) ==
    CASE e.kind = "frame" -> [x EXCEPT !.latest = e.frame, !.lastAt = x.now]
      [] e.kind = "config" -> [x EXCEPT !.conf = e.conf]
      [] e.kind = "refused" -> [x EXCEPT !.status = "error"]
      [] e.kind = "gone" -> [x EXCEPT !.status = "disconnected", !.caps = FALSE]
      [] e.kind = "back" -> [x EXCEPT !.status = "ready", !.caps = TRUE]

Update(events, later) ==
    LET taken == FoldLeft(Took, [d EXCEPT !.now = @ + later], events)
        flushed == Flushed(taken)
        derived == Derived(flushed)
        values == derived.meas.latest
        verdict == [mask |-> flushed.pf.mask, of |-> flushed.pf.source,
                    pass |-> derived.pf.pass > flushed.pf.pass]
    IN /\ used.updates < MaxUpdates /\ used.updates + used.edits < MaxSteps
       /\ d.now + later <= MaxTime
       /\ d' = Laid(Barred(Pictured(Decoded(derived))))
       /\ said' = IF taken.dirty \/ (\E i \in DOMAIN events : events[i].kind = "config") THEN taken.conf ELSE said
       /\ past' = IF ~IsNew(flushed) THEN past
                  ELSE [measured |-> [s \in Slots |-> [k \in Metrics |->
                          IF Valued(values, s, k) THEN Append(past.measured[s][k], Get(values[s], k))
                          ELSE past.measured[s][k]]],
                        judged |-> IF derived.pf.pass + derived.pf.fail = flushed.pf.pass + flushed.pf.fail
                                   THEN past.judged ELSE Append(past.judged, verdict)]
       /\ used' = [used EXCEPT !.updates = @ + 1]

\* The instrument's part of an update.
Quiet == Update(<<>>, 1) /\ UNCHANGED inst
Shown(t, c) == IF said.on[c] THEN t ELSE None
Records(n) ==
    \E t \in Traces :
      LET Made(k) == [kind |-> "frame", frame |-> Frame(inst.seq + k, inst.taken + k, t \in Peaks,
                                                        [c \in Channels |-> Shown(t, c)])]
      IN /\ d.caps /\ said.running
         /\ Update([k \in 1..n |-> Made(k)], 0)
         /\ inst' = [inst EXCEPT !.seq = @ + n, !.taken = @ + n]
Arrives == Records(1)
TwoArrive == Records(2)
\* A single sweep is done: the supervisor stops it and says so.
SingleTook ==
    /\ d.caps /\ said.running /\ said.sweep = "single"
    /\ Update(<<[kind |-> "config", conf |-> [said EXCEPT !.running = FALSE]]>>, 0)
    /\ UNCHANGED inst
Refuses ==
    /\ d.caps /\ Update(<<[kind |-> "refused"]>>, 1) /\ inst' = [inst EXCEPT !.refusedAt = d.now + 1]
\* The device is pulled, and plugged in again: its numbers start over.
Pulled == d.caps /\ Update(<<[kind |-> "gone"]>>, 0) /\ UNCHANGED inst
Replugged ==
    /\ ~d.caps /\ Update(<<[kind |-> "back"]>>, 0) /\ inst' = [inst EXCEPT !.seq = 0]

-----------------------------------------------------------------------------
(* The controls.                                                           *)
Use(x) == /\ used.edits < MaxEdits /\ used.updates + used.edits < MaxSteps
          /\ used' = [used EXCEPT !.edits = @ + 1]
          /\ d' = x /\ UNCHANGED <<inst, said>>
Edit(x) == Use(x) /\ UNCHANGED past
Set(conf) == Edit([d EXCEPT !.conf = conf, !.dirty = TRUE])

\* The front panel.
ToggleChannel(c) == Set([d.conf EXCEPT !.on[c] = ~@])
ToggleMath == Edit([d EXCEPT !.math.on = ~@])
Pos50 == Set([d.conf EXCEPT !.position = 50])
Sweep(s) == Set([d.conf EXCEPT !.sweep = s, !.running = @ \/ s = "single"])
Lvl50 ==
    LET m == d.meas.latest[d.conf.source]
    IN m # None /\ Set([d.conf EXCEPT !.level = Cut(m.top + m.base, 2)])
RunStop == Set([d.conf EXCEPT !.running = ~@])
Persist == Edit([d EXCEPT !.persist = IF @ = "off" THEN "short" ELSE "off"])
\* Clear, and the Reset of the measurements.
ResetStats ==
    /\ Use([d EXCEPT !.meas.stats = NoStats, !.meas.trend = NoTrend])
    /\ past' = [past EXCEPT !.measured = NoTrend]
Clear == ResetStats
\* A panel's key closes a section that is open, and shows one that is not.
PanelKey(m) ==
    LET open == SelectSeq(d.menus.open, LAMBDA x : x # m)
    IN Edit([d EXCEPT !.menus = IF m \in ToSet(@.open) THEN [@ EXCEPT !.open = open]
                                ELSE [open |-> Append(@.open, m), focus |-> m]])

\* The trigger section: a slope is set about the level.
Kind(k) ==
    Set([d.conf EXCEPT !.kind = k,
         !.upper = IF k = "slope" THEN d.conf.level + 1 ELSE 0,
         !.lower = IF k = "slope" THEN d.conf.level - 1 ELSE 0])
Source(c) == Set([d.conf EXCEPT !.source = c])
Level(l) == d.conf.kind \in {"edge", "pulse"} /\ Set([d.conf EXCEPT !.level = l])

\* The math and the utility section.
MathOp(op) == Edit([d EXCEPT !.math.op = op, !.math.rescale = TRUE])
MathAuto == Edit([d EXCEPT !.math.rescale = TRUE])
PfToggle == Edit([d EXCEPT !.pf.on = ~@])
PfSource(s) == Edit([d EXCEPT !.pf.source = s, !.pf.mask = None])
PfTolerance(h, v) == Edit([d EXCEPT !.pf.h = h, !.pf.v = v])
PfCapture ==
    LET raw == SlotTrace(d, d.pf.source)
    IN /\ raw # None
       /\ Use([d EXCEPT !.pf.mask = Mask(raw, d.pf.h, d.pf.v), !.pf.pass = 0, !.pf.fail = 0])
       /\ past' = [past EXCEPT !.judged = <<>>]
PfReset == /\ Use([d EXCEPT !.pf.pass = 0, !.pf.fail = 0]) /\ past' = [past EXCEPT !.judged = <<>>]
Fft == Edit([d EXCEPT !.fft.on = ~@])
FftSource(s) == Edit([d EXCEPT !.fft.source = s])
Protocol(p) == Edit([d EXCEPT !.dec.protocol = p])
Line(c) == d.dec.protocol # "off" /\ Edit([d EXCEPT !.dec.line = c])
\* refs.rs: a trace is frozen as it is, the newest in its channel's place.
RefSave(c) == SlotTrace(d, c) # None /\ Edit([d EXCEPT !.refs[c] = SlotTrace(d, c)])

Next ==
    \/ Quiet \/ Arrives \/ TwoArrive \/ SingleTook \/ Refuses \/ Pulled \/ Replugged
    \/ \E c \in Channels : ToggleChannel(c) \/ Source(c) \/ RefSave(c) \/ Line(c)
    \/ ToggleMath \/ Pos50 \/ Lvl50 \/ RunStop \/ Persist \/ ResetStats
    \/ \E s \in {"auto", "normal", "single"} : Sweep(s)
    \/ \E m \in {"measure", "trigger"} : PanelKey(m)
    \/ \E k \in Kinds : Kind(k)
    \/ Level(3)
    \/ \E op \in MathOps : MathOp(op)
    \/ MathAuto \/ PfToggle \/ PfTolerance(2, 0) \/ PfCapture \/ PfReset \/ Fft
    \/ \E s \in Slots : PfSource(s) \/ FftSource(s)
    \/ \E p \in {"off", "uart"} : Protocol(p)

Spec == Init /\ [][Next]_vars

-----------------------------------------------------------------------------
(* Properties.                                                             *)

\* Every control that changes the configuration has it sent: what the desk
\* shows is what the instrument was last told, or told the app, unless it is
\* about to be sent; and a bar that says RUN is not of a stopped instrument.
EveryEditIsSent ==
    /\ ~d.dirty => d.conf = said
    /\ d.bar.run # "STOP" /\ ~d.dirty /\ d.conf.running => said.running

\* The counts are the verdicts since the reference was captured or the counts
\* were reset, and all of them were found with the reference in force.
JudgedByTheMask ==
    LET Number(passed) == Cardinality({i \in DOMAIN past.judged : past.judged[i].pass = passed})
    IN /\ d.pf.pass = Number(TRUE) /\ d.pf.fail = Number(FALSE)
       /\ d.pf.mask # None =>
             \A i \in DOMAIN past.judged : past.judged[i].mask = d.pf.mask /\ past.judged[i].of = d.pf.source

\* The statistics are those of every value since the last reset, and a trend
\* holds the last of them in order.
StatisticsAddUp ==
    \A s \in Slots, k \in Metrics :
      LET all == past.measured[s][k]
          stat == d.meas.stats[s][k]
          kept == d.meas.trend[s][k]
      IN /\ stat.count = Len(all)
         /\ all # <<>> => stat.min = Min(ToSet(all)) /\ stat.max = Max(ToSet(all))
         /\ kept = SubSeq(all, Max({1, Len(all) - HistoryLen + 1}), Len(all))

\* The picture and the measurements are of one record, whichever numbers the
\* records bear and however often the device is pulled.
PictureIsMeasured == d.picture.of = d.meas.of

\* A failure that is to stop the acquisition leaves the bar at STOP in the
\* very frame that judged it.
StopsAtTheFailure ==
    [][d'.pf.fail > d.pf.fail /\ d.pf.stop => d'.bar.run = "STOP" /\ (d'.dirty \/ ~said'.running)]_vars

\* A reference passes its own envelope, and a wider tolerance passes what a
\* narrower one does.
References ==
    \A ref \in Traces, t \in Traces, h \in {0, 1, 5, 20}, v \in {0, 1, 10} :
      /\ Passes(Mask(ref, h, v), ref)
      /\ Passes(Mask(ref, h, v), t) => Passes(Mask(ref, h + 5, v), t) /\ Passes(Mask(ref, h, v + 1), t)

\* A math trace on a scale of its own is never clipped, whatever the op.
MathFits ==
    \A a \in Traces, b \in Traces, op \in Ops :
      LET values == Compute(a, b, op)
      IN ~Clips(values, FullScale(values))

\* Over every trace of levels: crossings take turns unless one was missed at
\* the threshold itself, and come in order; the flat top is above the base,
\* both in the swing; a period is positive.
MeasuresMakeSense(length, levels) ==
    \A t \in [1..length -> levels] :
      LET cr == Crossings(t)
          m == Measured(t)
      IN /\ \A i \in 1..Len(cr) - 1 : cr[i].at <= cr[i + 1].at
         /\ Lowest(t) <= m.base /\ m.base <= m.top /\ m.top <= Highest(t)
         /\ m.Period # None => m.Period.sum > 0

\* A readout's field is six characters wide whatever the value and the band,
\* and two values within a twentieth of each other never make the band
\* alternate.
Numbers == {0, 10000, 10004, 99994, 99996, 104999, 999949, 999951, 4999000, 5000000, 9994999, 9999499, 9999999}
Close(x, y) ==
    \/ x.band = y.band /\ 20 * x.m <= 21 * y.m /\ 20 * y.m <= 21 * x.m
    \/ x.band = y.band + 1 /\ x.m < 10500 /\ x.m * 20000 <= 21 * y.m
    \/ y.band = x.band + 1 /\ y.m < 10500 /\ y.m * 20000 <= 21 * x.m
LayoutIsSteady ==
    LET Readings == {[m |-> m, band |-> IF m = 0 THEN 0 ELSE b] : m \in Numbers, b \in -1..1}
        Bands == {None} \cup -2..2
    IN /\ \A x \in Readings, band \in Bands, negative \in BOOLEAN :
            x.m > 0 => Field(Mantissa(x, Sticky(x, band)), negative) = 6
       /\ \A x \in Readings, y \in Readings, band \in Bands :
            Close(x, y) => LET first == Sticky(x, band)
                              second == Sticky(y, first)
                          IN Sticky(x, second) = second

-----------------------------------------------------------------------------
(* What the code says of itself and does not do.                           *)

\* "Data computed per record": a record taken in is derived.  The first of a
\* device plugged in again may bear the number of the last one derived.
NewRecordIsDerived == [][d'.latest # d.latest => d'.meas.of = d'.latest.id]_vars

\* The tolerance is "in horizontal divisions", of which a record spans ten:
\* a trace moved by as much passes.
ToleranceIsInDivisions(length, levels) ==
    \A t \in [1..length -> levels], h \in 1..2 :
      \A k \in {n \in 1..length - 1 : 10 * n <= h * length} :
        \A i \in 1..length - k :
          t[i] >= Mask(t, h, 0).lo[i + k] /\ t[i] <= Mask(t, h, 0).hi[i + k]

\* "Duty as a fraction": the mean width of a pulse is at most the period.
DutyIsAFraction(length, levels) ==
    \A t \in [1..length -> levels] :
      LET m == Measured(t)
      IN m.high # None /\ m.Period # None => m.high.sum * m.Period.n <= m.Period.sum * m.high.n

\* "Push to set level to 50% of waveform": a slope has two levels, and they stay.
LevelIsHalf ==
    [][Lvl50 /\ d.conf.kind = "slope"
       => d'.conf.upper + d'.conf.lower = 2 * d'.conf.level]_vars

\* "Clears persistence + statistics": what was blended into the picture stays.
ClearClears == [][Clear => d'.picture.trail \subseteq {d.picture.of}]_vars

\* "How long a refusal stays in the SDR bar after it happened": one in the
\* words of the last is not shown again.
RefusalIsShown ==
    d.caps /\ inst.refusedAt # None /\ d.now - inst.refusedAt <= ErrorShow /\ d.status = "error"
    => d.bar.shows = "error"
=============================================================================
