------------------------------ MODULE SdrTuning ------------------------------
(***************************************************************************)
(* The SDR mode's three frequencies - the hardware window, the view inside *)
(* it and the tuned channel - under the verbs of scripts and the gestures  *)
(* of the pointer, with the survey that moves the window by itself and the *)
(* DAB table that is only true of one window.                              *)
(*                                                                         *)
(* A gesture is decided on what one app frame shows and its verbs run in   *)
(* the next, behind sdr::update, which may move the window for a survey;   *)
(* sdr::flush follows in the same frame.  One step is one frame.           *)
(***************************************************************************)
EXTENDS Integers, Sequences, FiniteSets, SequencesExt, FiniteSetsExt

CONSTANTS
    Rates,      \* SdrCaps::sample_rates, in units the halves of which are whole
    LoHz, HiHz, \* SdrCaps::freq_range_hz
    Targets,    \* frequencies asked for by tune and centre
    Blocks,     \* centres of the Band III blocks, in order
    BlockReach, \* half of BLOCK_SPACING_HZ: how near is on a block
    Spans,      \* spans asked for
    Widths,     \* channel widths asked for
    Plans,      \* steps of the surveys asked for
    MinPart,    \* 1 / MIN_SPAN_FRACTION
    Home,       \* [centre, rate, width] of SdrState::default()
    Bands,      \* the active band plan, by start: [name, lo, hi]
    Grain,      \* what a click in the view or the strip rounds to
    Grains,     \* minimap: [below, step] from the lowest up, the last open-ended
    MinWidth,   \* the narrowest channel an edge can be dragged to
    MaxFrames   \* bound: frames of a session

TuningAssumption ==
    /\ Rates \subseteq Nat \ {0} /\ IsFiniteSet(Rates) /\ Home.rate \in Rates
    /\ LoHz <= HiHz /\ Home.centre \in LoHz..HiHz
    /\ MinPart \in Nat \ {0} /\ Blocks \in Seq(Int) /\ BlockReach \in Nat
    /\ Grain \in Nat \ {0} /\ \A i \in DOMAIN Grains : Grains[i].step \in Nat \ {0}
    /\ MinWidth \in 1..Min(Rates)
    /\ \A i \in DOMAIN Bands : Bands[i].lo < Bands[i].hi

VARIABLES
    v,        \* the view: centre, rate, tuned, span, pan, follow, width, auto, dab, table, dirty
    survey,   \* steps a running survey has left, the current one first
    told,     \* what the supervisor was last sent
    wandered, \* a survey moved the window under a follow
    frames

vars == <<v, survey, told, wandered, frames>>

Window(w) == [centre |-> w.centre, rate |-> w.rate]
NoTable == [centre |-> 0, rate |-> 0]   \* no window has this rate
Abs(n) == IF n < 0 THEN -n ELSE n
Clamp(n, lo, hi) == IF n < lo THEN lo ELSE IF n > hi THEN hi ELSE n

-----------------------------------------------------------------------------
(* SdrState.                                                               *)
Span(w) == IF w.span > 0 THEN Min({w.span, w.rate}) ELSE w.rate
ViewCentre(w) == w.centre + w.pan
Room(w) == (w.rate - Span(w)) \div 2

\* |d| > TUNE_REACH * width
BeyondReach(d, width) == 20 * Abs(d) > 9 * width

\* Changed form: the pan is left where it was.
Unclamped(w) == w
\* clamp_pan.
Clamped(w) == [w EXCEPT !.pan = Clamp(w.pan, -Room(w), Room(w))]

DabReset(w) == [w EXCEPT !.table = NoTable]

\* set_centre: a move is a new signal; a follower rides along.
SetCentre(w, hz) ==
    LET moved == [w EXCEPT !.centre = hz, !.pan = 0, !.tuned = IF w.follow THEN hz ELSE @]
    IN IF w.centre # hz THEN DabReset(moved) ELSE moved

SetTuned(w, hz) ==
    LET t == [w EXCEPT !.tuned = hz]
    IN CASE w.follow \/ BeyondReach(hz - w.centre, w.rate) -> SetCentre(t, hz)
         [] ~w.follow /\ ~BeyondReach(hz - w.centre, w.rate)
              /\ BeyondReach(hz - ViewCentre(w), Span(w)) ->
              Clamped([t EXCEPT !.pan = hz - w.centre])
         [] OTHER -> t

\* Changed form: only the verbs of the window mark it.
Undirtied(before, w) == w
Dirtied(before, w) == [w EXCEPT !.dirty = before.dirty \/ w.centre # before.centre]
InRange(hz) == hz \in LoHz..HiHz
Rounded(hz, step) == ((2 * hz + step) \div (2 * step)) * step

\* dab::channel: the next block, the one before, or the first or last of the
\* raster from anywhere off it; a tune in its own right.
ToBlock(w, up) ==
    LET n  == Len(Blocks)
        away(i) == Abs(Blocks[i] - w.centre)
        on == {i \in 1..n : away(i) <= BlockReach /\ \A j \in 1..n : away(i) <= away(j)}
        i  == CASE on # {} /\ up  -> (Min(on) % n) + 1
                [] on # {} /\ ~up -> ((Min(on) + n - 2) % n) + 1
                [] on = {} /\ up  -> 1
                [] OTHER -> n
    IN [SetCentre(w, Blocks[i]) EXCEPT !.tuned = Blocks[i], !.dirty = TRUE]

\* refmap::actions: of the bands of a name the one nearest the cursor, and
\* goto, which fits the span to it.
Centre2(band) == band.lo + band.hi
Named(w, name) ==
    LET near(i) == Abs(Centre2(Bands[i]) - 2 * w.tuned)
        S == {i \in DOMAIN Bands : Bands[i].name = name}
    IN Bands[Min({i \in S : \A j \in S : near(i) <= near(j)})]

Goto(w, band) ==
    LET centre == Rounded(Centre2(band) \div 2, Grain)
        t == SetTuned(w, centre)
        want == (11 * (band.hi - band.lo)) \div 10
    IN IF ~InRange(centre) THEN w
       ELSE Dirtied(w, Clamped(IF want < t.rate
                               THEN [t EXCEPT !.span = want, !.pan = centre - t.centre]
                               ELSE [t EXCEPT !.span = 0, !.pan = 0]))

-----------------------------------------------------------------------------
(* actions::apply.  A verb that is refused changes nothing.                *)
Verb(name, arg) == [verb |-> name, arg |-> arg]

\* What apply asks of a verb's value.
Accepted(w, a) ==
    CASE a.verb \in {"tune", "centre"} -> InRange(a.arg)
      [] a.verb = "step"  -> InRange(w.tuned + a.arg)
      [] a.verb = "rate"  -> a.arg \in Rates
      [] a.verb = "span"  -> a.arg >= 0
      [] a.verb = "width" -> a.arg \in 1..w.rate
      [] OTHER -> TRUE

Apply(w, a) ==
    CASE a.verb = "tune"   -> IF InRange(a.arg) THEN Dirtied(w, SetTuned(w, a.arg)) ELSE w
      [] a.verb = "step"   ->
           IF InRange(w.tuned + a.arg) THEN Dirtied(w, SetTuned(w, w.tuned + a.arg)) ELSE w
      [] a.verb = "goto"   -> Goto(w, Named(w, a.arg))
      [] a.verb = "rate"   ->
           IF a.arg \notin Rates THEN w
           ELSE LET r == Clamped([w EXCEPT !.rate = a.arg, !.dirty = TRUE])
                IN IF a.arg # w.rate THEN DabReset(r) ELSE r
      [] a.verb = "span"   -> Clamped([w EXCEPT !.span = a.arg])
      [] a.verb = "pan"    -> Clamped([w EXCEPT !.pan = a.arg])
      [] a.verb = "centre" ->
           IF InRange(a.arg) THEN [SetCentre(w, a.arg) EXCEPT !.dirty = TRUE] ELSE w
      [] a.verb = "follow" ->
           LET f == [w EXCEPT !.follow = a.arg]
           IN IF a.arg THEN Dirtied(w, SetCentre(f, f.tuned)) ELSE f
      [] a.verb = "width"  -> IF a.arg \in 1..w.rate
                              THEN [w EXCEPT !.width = a.arg, !.auto = FALSE] ELSE w
      [] a.verb = "auto"   -> [w EXCEPT !.auto = TRUE]
      [] a.verb = "dab"    -> [DabReset(w) EXCEPT !.dab = a.arg, !.dirty = TRUE]
      [] a.verb = "block"  -> ToBlock(w, a.arg)

Applied(w, acts) == FoldLeft(Apply, w, acts)

-----------------------------------------------------------------------------
(* zoom.rs: what a wheel gesture injects.                                  *)

\* rate_for_span: the captured band covers two visible spans.
RateForSpan(span) ==
    LET fit == {r \in Rates : r >= 2 * span} IN IF fit = {} THEN Max(Rates) ELSE Min(fit)

\* TUNE_REACH around the centre.
Holds(w, rate) == ~BeyondReach(w.tuned - w.centre, rate)

\* Changed form: the tuned channel is left where it is.
NoRecentre(w, rate) == <<>>
Recentre(w, rate) ==
    IF Holds(w, w.rate) /\ ~Holds(w, rate) THEN <<Verb("centre", w.tuned)>> ELSE <<>>

\* One notch in or out with the pointer `quarter' quarters of the span off
\* the middle.
ZoomSpan(w, in) ==
    LET most == IF w.dab THEN w.rate ELSE Max(Rates)
    IN Clamp(IF in THEN Span(w) \div 2 ELSE 2 * Span(w), w.rate \div MinPart, most)

ZoomRate(w, in) ==
    LET rung == RateForSpan(ZoomSpan(w, in))
    IN IF w.dab THEN w.rate ELSE IF in THEN Min({rung, w.rate}) ELSE Max({rung, w.rate})

UnderPointer(w, quarter) == ViewCentre(w) + (quarter * Span(w)) \div 4

ZoomActions(w, quarter, in) ==
    LET span == ZoomSpan(w, in)
        rate == ZoomRate(w, in)
    IN (IF rate # w.rate THEN <<Verb("rate", rate)>> ELSE <<>>)
       \o <<Verb("span", IF span >= rate THEN 0 ELSE span),
            Verb("pan", UnderPointer(w, quarter) - (quarter * span) \div 4 - w.centre)>>
       \o Recentre(w, rate)

\* The view moves by a quarter of its span, inside the band or with it.
PanActions(w, up) ==
    LET want == ViewCentre(w) + (IF up THEN 1 ELSE -1) * (Span(w) \div 4)
    IN IF Abs(want - w.centre) <= Room(w) THEN <<Verb("pan", want - w.centre)>>
       ELSE <<Verb("centre", want)>>

-----------------------------------------------------------------------------
(* The canvas, the band strip, the minimap and the keys: what the other    *)
(* gestures inject.  A place on the canvas is a quarter of the view, its   *)
(* edges two of them off the middle.                                       *)

Click(w, quarter) == <<Verb("tune", Rounded(UnderPointer(w, quarter), Grain))>>
ResetView == <<Verb("span", 0), Verb("pan", 0)>>
EdgeDrag(w, quarter) ==
    <<Verb("width", Clamp(2 * Abs(UnderPointer(w, quarter) - w.tuned), MinWidth, w.rate))>>

\* The content follows the pointer: the view slides inside the band, or the
\* band itself with the other button.
Dragged(w, quarter) == (quarter * Span(w)) \div 4
ViewDrag(w, quarter) == <<Verb("pan", Clamp(w.pan - Dragged(w, quarter), -Room(w), Room(w)))>>
WindowDrag(w, quarter) == <<Verb("centre", w.centre - Dragged(w, quarter))>>

\* The narrowest band of the strip under the pointer.
UnderStrip(w, quarter) ==
    LET hz == UnderPointer(w, quarter)
        S == {i \in DOMAIN Bands : hz \in Bands[i].lo..Bands[i].hi}
        wide(i) == Bands[i].hi - Bands[i].lo
    IN {Bands[Min({i \in S : \A j \in S : wide(i) <= wide(j)})] : x \in IF S = {} THEN {} ELSE {1}}
StripClick(band) == <<Verb("tune", Rounded(Centre2(band) \div 2, Grain))>>
StripFit(band) == <<Verb("goto", band.name)>>

\* round_hz.
RoundHz(hz) ==
    LET n == Len(Grains)
        i == Min({k \in 1..n : k = n \/ hz < Grains[k].below})
    IN Rounded(hz, Grains[i].step)
MinimapClick(hz) == <<Verb("tune", RoundHz(hz))>>

\* Keys of the panel and boxes of the dock.
StepKey(by) == <<Verb("step", by)>>
SpanKey(span) == <<Verb("span", span), Verb("pan", 0)>>
AutoBox(w) == <<IF w.auto THEN Verb("width", w.width) ELSE Verb("auto", TRUE)>>

\* The gestures that move what is heard, and those that move what is seen.
Tunings(w) ==
    {Click(w, q) : q \in -2..2} \cup {MinimapClick(hz) : hz \in Targets}
      \cup UNION {{StripClick(b), StripFit(b)} : b \in UNION {UnderStrip(w, q) : q \in -2..2}}
Viewings(w) ==
    {ResetView} \cup {SpanKey(s) : s \in Spans}
      \cup UNION {{EdgeDrag(w, q), ViewDrag(w, q)} : q \in {-1, 1}}

\* draw_channel: the cursor, or an arrow at the edge it is beyond.
ArrowAt(w) ==
    CASE 2 * Abs(w.tuned - ViewCentre(w)) <= Span(w) -> "none"
      [] w.tuned > ViewCentre(w) /\ 2 * (w.tuned - ViewCentre(w)) > Span(w) -> "right"
      [] OTHER -> "left"

\* draw_spectrum and dc_notch: the line of the hardware's centre, and the tag
\* of the notch that is always there.
CentreShown(w) == 2 * Abs(w.pan) <= Span(w)
LineDrawn(w) == CentreShown(w) /\ (w.centre # w.tuned \/ w.pan # 0)

\* The frequency ticks: multiples of the least 1-2-5 step that is an eighth
\* of the span or more.
TickStep(span) == Min({s \in {m * 10^n : m \in {1, 2, 5}, n \in 0..6} : 8 * s >= span})
Ticks(lo, span) ==
    LET step == TickStep(span) IN {k \in (lo \div step)..((lo + span) \div step) : k * step >= lo}

-----------------------------------------------------------------------------
(* A frame.                                                                *)

\* scan::start and the retune of scan::feed.
\* Changed form: the retune leaves the DAB receiver alone.
MoveKeepingTable(w, hz) == [w EXCEPT !.centre = hz, !.dirty = TRUE]
SurveyMove(w, hz) == DabReset([w EXCEPT !.centre = hz, !.dirty = TRUE])

\* sdr::flush behind everything else.
Flushed(w) ==
    /\ v' = [w EXCEPT !.dirty = FALSE]
    /\ told' = IF w.dirty THEN Window(w) ELSE told
    /\ frames < MaxFrames /\ frames' = frames + 1

\* The verbs of a script or of a gesture; the survey is where it was.
Run(acts) ==
    /\ Flushed(Applied(v, acts))
    /\ UNCHANGED <<survey, wandered>>

\* The last frame of a step, then the verbs decided before it.
StepThen(acts) ==
    /\ survey # <<>> /\ v.centre = survey[1]
    /\ survey' = Tail(survey)
    /\ LET w == IF survey' = <<>> THEN v ELSE SurveyMove(v, survey'[1])
       IN Flushed(Applied(w, acts))
    /\ wandered' = (wandered \/ (v.follow /\ survey' # <<>>))

Do(acts) == Run(acts) \/ StepThen(acts)

Tune   == \E hz \in Targets : Do(<<Verb("tune", hz)>>)
Centre == \E hz \in Targets : Do(<<Verb("centre", hz)>>)
SetRate == \E r \in Rates : Do(<<Verb("rate", r)>>)
SetSpan == \E s \in Spans : Do(<<Verb("span", s)>>)
Follow == \E on \in BOOLEAN : Do(<<Verb("follow", on)>>)
Width  == Do(<<Verb("auto", TRUE)>>) \/ \E hz \in Widths : Do(<<Verb("width", hz)>>)
Dab    == \E on \in BOOLEAN : Do(<<Verb("dab", on)>>)
Channel == \E up \in BOOLEAN : Do(<<Verb("block", up)>>)
Zoom   == \E quarter \in {-1, 0, 1}, in \in BOOLEAN : Do(ZoomActions(v, quarter, in))
Wheel  == \E up \in BOOLEAN : Do(PanActions(v, up))
Point  == \E acts \in Tunings(v) : Do(acts)
Look   == \E acts \in Viewings(v) : Do(acts)
Drag   == \E quarter \in {-1, 1} : Do(WindowDrag(v, quarter))
Press  == \E by \in {-Grain, Grain} : Do(StepKey(by)) \/ Do(AutoBox(v))

\* sdr survey, and stop.
StartSurvey ==
    /\ \E plan \in Plans :
         /\ survey' = plan
         /\ Flushed(SurveyMove(v, plan[1]))
    /\ wandered' = (wandered \/ v.follow)

StopSurvey == survey # <<>> /\ survey' = <<>> /\ Flushed(v) /\ UNCHANGED wandered

\* A table is decoded from what the window holds.
Hear ==
    /\ v.dab /\ v.table = NoTable
    /\ v' = [v EXCEPT !.table = Window(v)]
    /\ UNCHANGED <<survey, told, wandered, frames>>

-----------------------------------------------------------------------------
Default ==
    [centre |-> Home.centre, rate |-> Home.rate, tuned |-> Home.centre, span |-> 0, pan |-> 0,
     follow |-> FALSE, width |-> Home.width, auto |-> TRUE, dab |-> FALSE, table |-> NoTable,
     dirty |-> FALSE]

Init ==
    /\ v = Default /\ told = Window(Default)
    /\ survey = <<>> /\ wandered = FALSE /\ frames = 0

Next ==
    \/ Tune \/ Centre \/ SetRate \/ SetSpan \/ Follow \/ Width \/ Dab \/ Channel
    \/ Zoom \/ Wheel \/ Point \/ Look \/ Drag \/ Press \/ StartSurvey \/ StopSurvey \/ Hear

Spec == Init /\ [][Next]_vars

-----------------------------------------------------------------------------
(* What a restart restores: autostate's sdr_actions on a fresh state.      *)

Saved(w) ==
    <<Verb("rate", w.rate), Verb("tune", w.tuned), Verb("centre", w.centre),
      Verb("follow", w.follow), Verb("span", w.span), Verb("pan", w.pan),
      IF w.auto THEN Verb("auto", TRUE) ELSE Verb("width", w.width), Verb("dab", w.dab)>>

Restored == Applied(Default, Saved(v))

-----------------------------------------------------------------------------
(* Correctness properties.                                                 *)

\* The view lies in the band: no verb, gesture or survey shows a span the
\* hardware does not capture.
ViewInBand == Abs(v.pan) <= Room(v)

\* dab_state.rs: every site that moves the hardware window forgets the table
\* that was decoded from the old one.
TableIsOfWindow == v.table # NoTable => v.table = Window(v)

\* The hardware is told of every move, by whichever verb, in its frame.
HardwareIsTold == told = Window(v)

\* A restart comes back with the window, the channel and the view as they
\* were left, whatever verbs, gestures and surveys led there - unless a
\* survey took the window away from a cursor it follows.
RestoredAsLeft ==
    ~wandered => /\ Window(Restored) = Window(v)
                 /\ Restored.tuned = v.tuned /\ Restored.follow = v.follow
                 /\ Span(Restored) = Span(v) /\ Restored.pan = v.pan

\* zoom.rs: a zoom that shrinks the band does not drop the tuned channel.
ZoomKeepsTheChannel ==
    \A quarter \in {-1, 0, 1}, in \in BOOLEAN :
        LET w == Applied(v, ZoomActions(v, quarter, in))
        IN Holds(v, v.rate) => Holds(w, w.rate)

\* Whatever is tuned from the canvas, the strip, the minimap or a script is
\* seen: the cursor is in the view afterwards, by whichever of the reach of
\* the band, the reach of the view and a follow it came.
TunedIsSeen ==
    \A acts \in Tunings(v) \cup {<<Verb("tune", hz)>> : hz \in Targets} :
        LET w == Applied(v, acts)
        IN Accepted(v, acts[1]) /\ w.tuned # v.tuned => ArrowAt(w) = "none"

\* The gestures that clamp what they ask for, and a click on the minimap,
\* are never refused.
OfferedIsTaken == \A acts \in Viewings(v) : \A i \in DOMAIN acts : Accepted(v, acts[i])
MinimapIsTaken == \A hz \in LoHz..HiHz : InRange(RoundHz(hz))

\* An arrow leads to the cursor: a turn of the wheel its way comes nearer,
\* moving the window where the band ends.
ArrowLeadsBack ==
    ArrowAt(v) # "none" =>
        LET w == Applied(v, PanActions(v, ArrowAt(v) = "right"))
        IN Abs(w.tuned - ViewCentre(w)) < Abs(v.tuned - ViewCentre(v))

\* A view has ticks enough to read a frequency by, and not too many.
TicksAreFew == \A lo \in 0..20, span \in 8..500 : Cardinality(Ticks(lo, span)) \in 3..9

\* The strip names bands, and several have one name: the band gone to by a
\* double click is the one clicked, because its first click tuned to it.
FitIsTheBandClicked ==
    \A b \in UNION {UnderStrip(v, q) : q \in -2..2} :
        Accepted(v, StripClick(b)[1]) => Named(Applied(v, StripClick(b)), b.name) = b

\* With no line at the hardware's centre, the notch in view is under the
\* cursor.
NotchIsMarked == CentreShown(v) /\ ~LineDrawn(v) => v.centre = v.tuned /\ ArrowAt(v) = "none"

(* Expectations the code does not meet.                                    *)

\* sdr_view.rs: "A left-click tunes to the frequency under the pointer and
\* leaves the window alone."
ClickLeavesWindow ==
    ~v.follow => \A q \in -2..2 : Applied(v, Click(v, q)).centre = v.centre

\* sdr_bands.rs: "double-click to fit the span to it".
FitShowsTheBand ==
    \A i \in DOMAIN Bands :
        LET w == Goto(v, Bands[i])
        IN w.span # 0 /\ w.tuned = Rounded(Centre2(Bands[i]) \div 2, Grain) =>
               /\ 2 * (ViewCentre(w) - Bands[i].lo) <= Span(w)
               /\ 2 * (Bands[i].hi - ViewCentre(w)) <= Span(w)

\* sdr_view.rs: "double-click resets the view"; the first of the two clicks
\* is a click.
DoubleClickOnlyResets ==
    \A q \in -1..1 : Applied(Applied(v, Click(v, q)), ResetView).tuned = v.tuned

\* sdr_view.rs: ticks "on round 1-2-5 steps, 6-12 across the span".
TicksAsSaid == \A span \in 8..500 : Cardinality(Ticks(0, span)) \in 6..12

\* The "auto" box can be unticked.
AutoBoxIsTaken == Accepted(v, AutoBox(v)[1])

\* sdr/mod.rs: "With `follow` on the tuned cursor rides along, so the window
\* still holds it centred."
FollowIsCentred == v.follow => v.tuned = v.centre

\* zoom.rs: "anchored so the frequency under the pointer stays put".
ZoomIsAnchored ==
    \A quarter \in {-1, 0, 1} :
        LET w == Applied(v, ZoomActions(v, quarter, TRUE))
        IN Recentre(v, ZoomRate(v, TRUE)) = <<>>
              => UnderPointer(w, quarter) = UnderPointer(v, quarter)

\* autostate.rs: the app "comes back the way it was left".
WidthIsRestored == Restored.width = v.width /\ Restored.auto = v.auto
=============================================================================
