---------------------------- MODULE ScopeSession -----------------------------
(***************************************************************************)
(* The scope's settings, the script verbs that set them, and the text they *)
(* are saved as.  A session is a script: saving writes one line per        *)
(* setting, restoring replays the lines through the script's own verbs, so *)
(* the order of the lines and what each verb also changes decide whether a *)
(* restart gives back what was saved.  The view has its own rules: the     *)
(* zoom window into one record, the timeline over many, and what turning   *)
(* one on does to the other; and auto peak takes the acquisition mode over *)
(* while the time base outruns the signal.                                 *)
(*                                                                         *)
(* A word is [word, n]: a name with n = 0, or a number with the word "".   *)
(* Positions in a record are in units of which Whole make the record; time *)
(* is in units of the span ladder.                                         *)
(***************************************************************************)
EXTENDS SequencesExt, Integers

CONSTANTS
    Rates,       \* the instrument's sample rates, ascending
    Volts,       \* its volts/div, ascending
    RecordLen,   \* samples of a record
    SpanLadder,  \* the timeline's windows, ascending
    Whole, MinSpan, HalfWhole,  \* the record, its narrowest window, its middle
    MinBudget,   \* the least scrollback
    Freqs,       \* what the frequency meter may read, None among it
    Numbers,     \* the numbers a script may write
    Scripts,     \* the lines of the scripts that run
    None,
    MaxEdits     \* bound: changes from launch to the end

VARIABLES
    s,       \* the settings
    text,    \* the session last saved, or None
    rested,  \* whether auto peak's dwell is over
    edits

vars == <<s, text, rested, edits>>

W(name) == [word |-> name, n |-> 0]
N(n) == [word |-> "", n |-> n]
Line(verb, args) == [verb |-> verb, args |-> args]
Flag1(on) == IF on THEN N(1) ELSE N(0)
FlagOn(on) == IF on THEN W("on") ELSE W("off")

-----------------------------------------------------------------------------
(* The grammar: what each argument of a verb may be, by its word.  A       *)
(* number's word is empty; Anything is read whatever it says.               *)

Number == {""}
Anything == {}
Sweeps == {"auto", "normal", "single"}
Polarity == {"pos", "neg"}
Compare == {"gt", "eq", "lt"}

ScopeVerbs ==
    [rate |-> <<Number>>, vdiv |-> <<Number, Number>>, enable |-> <<Number, Anything>>,
     coupling |-> <<Number, {"dc", "ac", "gnd"}>>, probe |-> <<Number, Number>>,
     offset |-> <<Number, Number>>,
     trigger |-> <<Number, {"rising", "falling"}, Number, Sweeps>>,
     trigpulse |-> <<Number, Polarity, Compare, Number, Sweeps>>,
     trigslope |-> <<Number, Polarity, Compare, Number, Number, Number, Sweeps>>,
     trigvideo |-> <<{"line", "field", "odd", "even", "linenum"}, Number, Sweeps>>,
     holdoff |-> <<Number>>, zoom |-> <<{"h", "v"}, {"in", "out"}>>, hzoom |-> <<{"in", "out"}>>,
     hview |-> <<Number, Number>>, timebase |-> <<Number>>, zoomwin |-> <<Anything>>, deep |-> <<Anything>>,
     deepfollow |-> <<{"page", "slide"}>>, deepspan |-> <<Number>>,
     pan |-> <<{"left", "right", "up", "down"}>>, home |-> <<>>, autopeak |-> <<Anything>>,
     acq |-> <<{"sample", "peak", "avg4", "avg16", "avg64"}>>, trigpos |-> <<Number>>]
DisplayVerbs ==
    [mode |-> <<{"vectors", "dots", "xy"}>>, persist |-> <<{"off", "inf", ""}>>,
     gain |-> <<Number>>, crt |-> <<Anything>>, select |-> <<Number>>, guides |-> <<Anything>>,
     markers |-> <<Anything>>, palette |-> <<{"phosphor", "thermal", "green"}>>,
     math |-> <<{"off", "add", "sub", "mul", "div", "diff", "integ"}>>, run |-> <<Anything>>,
     cursor |-> <<{"time", "amp"}, Anything>>, stats |-> <<Number>>, fft |-> <<Anything>>, fftsrc |-> <<Number>>,
     fftwnd |-> <<{"rectangle", "hamming", "hann", "blackman", "flattop", "triangular"}>>,
     pf |-> <<Anything>>, pfsrc |-> <<Number>>, pftol |-> <<Number, Number>>, scrollback |-> <<Number>>,
     waterfall |-> <<Anything>>, effect |-> <<Anything>>, stimulus |-> <<Anything>>,
     viz |-> <<{"off", "terrain", "orbit"}>>, measwin |-> <<Anything>>, settings |-> <<Anything>>]
Grammar == ScopeVerbs @@ DisplayVerbs

\* Words beyond those a verb reads are left unread.
Parses(line) ==
    /\ line.verb \in DOMAIN Grammar
    /\ Len(line.args) >= Len(Grammar[line.verb])
    /\ \A i \in DOMAIN Grammar[line.verb] :
          LET kind == Grammar[line.verb][i] IN kind = Anything \/ line.args[i].word \in kind

-----------------------------------------------------------------------------
(* The view.                                                               *)

Home == [c |-> HalfWhole, w |-> Whole]
Between(lo, x, hi) == IF x < lo THEN lo ELSE IF x > hi THEN hi ELSE x

HviewClamp(c, w) ==
    LET width == Between(MinSpan, w, Whole)
    IN [c |-> Between(width \div 2, c, Whole - width \div 2), w |-> width]

\* The anchor keeps its place on the screen.
HviewZoom(x, anchor, inward) ==
    LET old   == x.hview.w
        new   == Between(MinSpan, IF inward THEN old \div 2 ELSE 2 * old, Whole)
        at    == Between(0, anchor, Whole)
        place == Between(0, at - (x.hview.c - old \div 2), old)
    IN [x EXCEPT !.hview = HviewClamp(at - (place * new) \div old + new \div 2, new)]
HviewPan(x, d) == [x EXCEPT !.hview = HviewClamp(x.hview.c + d, x.hview.w)]

SetZoom(x, on) ==
    [x EXCEPT !.zoom = on,
              !.hview = IF on THEN HviewClamp(x.hview.c, Min({x.hview.w, Whole \div 2})) ELSE Home]
SetDeep(x, on) ==
    IF on THEN [SetZoom(x, FALSE) EXCEPT !.deep = TRUE, !.hview = Home]
    ELSE [x EXCEPT !.deep = FALSE, !.anchor = None]

\* The rung nearest by ratio, the first of two, and the one beside it.
Nearer(a, b, v) == Max({a, v}) * Min({b, v}) < Max({b, v}) * Min({a, v})
Nearest(ladder, v) ==
    CHOOSE i \in DOMAIN ladder :
        \A j \in DOMAIN ladder : Nearer(ladder[i], ladder[j], v) \/ (~Nearer(ladder[j], ladder[i], v) /\ i <= j)
StepLadder(ladder, v, up) ==
    ladder[Between(1, Nearest(ladder, v) + (IF up THEN 1 ELSE -1), Len(ladder))]

TimebaseStep(x, slower) == [x EXCEPT !.rate = StepLadder(Rates, x.rate, ~slower)]
RecordTime(x) == RecordLen \div x.rate
ZoomChannel(x, ch, inward) == [x EXCEPT !.vdiv[ch] = StepLadder(Volts, @, ~inward)]

\* span_step: the first rung not below the window, and the one beside it;
\* from a window beyond the ladder it begins at the bottom.
Rung(x) == LET up == {i \in DOMAIN SpanLadder : SpanLadder[i] >= x.span}
           IN IF up = {} THEN 1 ELSE Min(up)
CanStep(x, wider) == IF wider THEN Rung(x) < Len(SpanLadder) ELSE Rung(x) > 1
SpanStep(x, wider) ==
    IF CanStep(x, wider) THEN [x EXCEPT !.span = SpanLadder[Rung(x) + (IF wider THEN 1 ELSE -1)]] ELSE x

Hzoom(x, anchor, inward) ==
    IF x.zoom \/ ~x.running THEN HviewZoom(x, anchor, inward) ELSE TimebaseStep(x, ~inward)

HzoomTimeline(x, anchor, inward) ==
    LET record == RecordTime(x)
        next   == SpanStep(x, ~inward)
        longer == {i \in DOMAIN SpanLadder : 2 * SpanLadder[i] > 3 * record}
    IN CASE x.deep /\ inward /\ (~CanStep(x, FALSE) \/ next.span <= record) -> SetDeep(next, FALSE)
         [] x.deep /\ ~(inward /\ (~CanStep(x, FALSE) \/ next.span <= record)) -> next
         [] ~x.deep /\ (inward \/ x.zoom) -> HviewZoom(x, anchor, inward)
         [] OTHER -> [SetDeep(x, TRUE) EXCEPT
                         !.span = IF longer = {} THEN 2 * record ELSE SpanLadder[Min(longer)]]

\* deep::pan: a window that reaches the newest sample follows again.
DeepPan(x, newest, d) ==
    LET next == (IF x.anchor = None THEN newest ELSE x.anchor) - d
    IN [x EXCEPT !.anchor = IF next >= newest THEN None ELSE next]
Hposition(x, d) ==
    IF x.zoom THEN HviewPan(x, -((d * x.hview.w) \div Whole))
    ELSE [x EXCEPT !.pos = Between(0, @ + d, Whole)]
Step == Whole \div 8
Offset(x, ch, d) == [x EXCEPT !.offset[ch] = Between(-HalfWhole, @ + d, HalfWhole)]
Pan(x, dir) ==
    CASE dir = "left" -> Hposition(x, -Step) [] dir = "right" -> Hposition(x, Step)
      [] dir = "up" -> Offset(x, x.selected, Step) [] dir = "down" -> Offset(x, x.selected, -Step)

-----------------------------------------------------------------------------
(* The settings at launch, and auto peak's rule.                           *)

Plain == {"gain", "crt", "palette", "mode", "persist", "holdoff", "fftsrc", "fftwnd", "effect",
          "markers", "guides", "stats", "pf", "pfsrc", "pftol", "deepfollow", "measwin", "settings"}
PerWhich == {<<"enable", 0>>, <<"enable", 1>>, <<"probe", 0>>, <<"probe", 1>>}

Startup == [rate |-> Rates[Len(Rates)], vdiv |-> [ch \in 0..1 |-> Volts[1 + ch]], pos |-> HalfWhole]
Launched ==
    [rate |-> Startup.rate, vdiv |-> Startup.vdiv, pos |-> Startup.pos,
     offset |-> [ch \in 0..1 |-> 0], coupling |-> [ch \in 0..1 |-> "dc"],
     selected |-> 0, running |-> TRUE,
     trig |-> [kind |-> "trigger", source |-> 0, detail |-> <<W("rising")>>, level |-> 1, sweep |-> "auto"],
     acq |-> "sample", user |-> "sample", engaged |-> FALSE, auto |-> TRUE,
     hview |-> Home, zoom |-> FALSE, deep |-> FALSE, span |-> SpanLadder[1], anchor |-> None,
     math |-> FALSE, op |-> "add", fft |-> FALSE, waterfall |-> FALSE, viz |-> "off", budget |-> MinBudget,
     cursor |-> [k \in {"time", "amp"} |-> W("off")],
     which |-> [k \in PerWhich |-> N(1)],
     plain |-> [v \in Plain |->
        CASE v \in {"crt", "markers", "guides"} -> <<N(0)>> [] v \in {"measwin", "settings", "pf", "effect"} -> <<W("off")>>
          [] v = "palette" -> <<W("phosphor")>> [] v = "mode" -> <<W("vectors")>> [] v = "persist" -> <<W("off")>>
          [] v = "fftwnd" -> <<W("hann")>> [] v = "deepfollow" -> <<W("page")>> [] v = "pftol" -> <<N(1), N(1)>>
          [] OTHER -> <<N(0)>>]]

ViewHome(x) ==
    [x EXCEPT !.vdiv = Startup.vdiv, !.offset = [ch \in 0..1 |-> 0], !.rate = Startup.rate,
              !.pos = Startup.pos, !.hview = Home]

Averages == {"avg4", "avg16", "avg64"}
SetUser(x, m) == [x EXCEPT !.user = m, !.engaged = FALSE, !.acq = m]
Release(x) == [x EXCEPT !.engaged = FALSE, !.acq = x.user]

\* peak_advised: fewer than 8 samples per cycle engage it, more than 16
\* release it, and between them, or with no reading, it stays.
Advised(x, freq) ==
    IF freq = None THEN x.engaged
    ELSE x.rate < 8 * freq \/ (x.rate <= 16 * freq /\ x.engaged)

-----------------------------------------------------------------------------
(* Script::run, one action.                                                *)

\* What a verb set and read by nothing else keeps of its words: a flag says
\* on or it is off.
Kept(line) ==
    CASE line.verb \in {"crt", "markers", "guides"} -> <<Flag1(line.args[1] = N(1))>>
      [] line.verb \in {"pf", "measwin", "settings"} -> <<FlagOn(line.args[1] = W("on"))>>
      [] line.verb = "pftol" -> SubSeq(line.args, 1, 2)
      [] OTHER -> <<line.args[1]>>

Trigger(x, kind, source, detail, level, sweep) ==
    [x EXCEPT !.trig = [kind |-> kind, source |-> source, detail |-> detail, level |-> level, sweep |-> sweep]]

Do(x, line) ==
    LET a == line.args
        on == a[1] = W("on")
    IN CASE line.verb \in Plain -> [x EXCEPT !.plain[line.verb] = Kept(line)]
         [] line.verb = "rate" -> [x EXCEPT !.rate = a[1].n]
         [] line.verb = "timebase" -> [x EXCEPT !.rate = Rates[Nearest(Rates, RecordLen \div (a[1].n * 10))]]
         [] line.verb = "vdiv" -> [x EXCEPT !.vdiv[a[1].n] = a[2].n]
         [] line.verb = "offset" -> [x EXCEPT !.offset[a[1].n] = a[2].n]
         [] line.verb = "coupling" -> [x EXCEPT !.coupling[a[1].n] = a[2].word]
         [] line.verb = "enable" -> [x EXCEPT !.which[<<"enable", a[1].n>>] = Flag1(a[2] = N(1))]
         [] line.verb = "probe" -> [x EXCEPT !.which[<<"probe", a[1].n>>] = a[2]]
         [] line.verb = "trigger" -> Trigger(x, "trigger", a[1].n, <<a[2]>>, a[3].n, a[4].word)
         [] line.verb = "trigpulse" -> Trigger(x, "trigpulse", a[1].n, SubSeq(a, 2, 4), x.trig.level, a[5].word)
         [] line.verb = "trigslope" -> Trigger(x, "trigslope", a[1].n, SubSeq(a, 2, 6), x.trig.level, a[7].word)
         [] line.verb = "trigvideo" -> Trigger(x, "trigvideo", x.trig.source, SubSeq(a, 1, 2), x.trig.level, a[3].word)
         [] line.verb = "zoom" -> IF a[1].word = "h" THEN Hzoom(x, x.hview.c, a[2].word = "in")
                                  ELSE ZoomChannel(x, x.selected, a[2].word = "in")
         [] line.verb = "hzoom" -> HzoomTimeline(x, x.hview.c, a[1].word = "in")
         [] line.verb = "hview" -> LET v == HviewClamp(a[1].n, a[2].n) IN [x EXCEPT !.hview = v, !.zoom = v.w < Whole]
         [] line.verb = "zoomwin" -> SetZoom(x, on)
         [] line.verb = "deep" -> SetDeep(x, on)
         [] line.verb = "deepspan" -> LET y == [x EXCEPT !.span = Max({a[1].n, 1})] IN IF x.deep THEN y ELSE SetDeep(y, TRUE)
         [] line.verb = "pan" -> Pan(x, a[1].word)
         [] line.verb = "home" -> ViewHome(SetDeep(x, FALSE))
         [] line.verb = "acq" -> SetUser(x, a[1].word)
         [] line.verb = "autopeak" -> IF ~on /\ x.engaged THEN [Release(x) EXCEPT !.auto = FALSE] ELSE [x EXCEPT !.auto = on]
         [] line.verb = "trigpos" -> [x EXCEPT !.pos = Between(0, a[1].n, Whole)]
         [] line.verb = "select" -> [x EXCEPT !.selected = Min({a[1].n, 1})]
         [] line.verb = "run" -> [x EXCEPT !.running = (a[1] = N(1))]
         [] line.verb = "math" -> IF a[1] = W("off") THEN [x EXCEPT !.math = FALSE] ELSE [x EXCEPT !.math = TRUE, !.op = a[1].word]
         [] line.verb = "fft" -> [x EXCEPT !.fft = on]
         [] line.verb = "waterfall" -> [x EXCEPT !.waterfall = on, !.fft = @ \/ on]
         [] line.verb = "viz" -> [x EXCEPT !.viz = a[1].word, !.fft = @ \/ a[1].word = "terrain"]
         [] line.verb = "cursor" -> [x EXCEPT !.cursor[a[1].word] = FlagOn(a[2] = W("on"))]
         [] line.verb = "scrollback" -> [x EXCEPT !.budget = Max({a[1].n, MinBudget})]
         [] OTHER -> x

Replay(x, lines) == FoldLeft(Do, x, lines)

-----------------------------------------------------------------------------
(* session::emit, line by line.                                            *)

EmitTrigger(t) ==
    CASE t.kind = "trigger" -> Line("trigger", <<N(t.source)>> \o t.detail \o <<N(t.level), W(t.sweep)>>)
      [] t.kind = "trigvideo" -> Line("trigvideo", t.detail \o <<W(t.sweep)>>)
      [] OTHER -> Line(t.kind, <<N(t.source)>> \o t.detail \o <<W(t.sweep)>>)

EmitChannel(x, ch) ==
    << Line("enable", <<N(ch), x.which[<<"enable", ch>>]>>), Line("vdiv", <<N(ch), N(x.vdiv[ch])>>),
       Line("coupling", <<N(ch), W(x.coupling[ch])>>), Line("probe", <<N(ch), x.which[<<"probe", ch>>]>>),
       Line("offset", <<N(ch), N(x.offset[ch])>>) >>

EmitPlain(x, verbs) == [i \in DOMAIN verbs |-> Line(verbs[i], x.plain[verbs[i]])]

EmitView(x) ==
    << Line("hview", <<N(x.hview.c), N(x.hview.w)>>), Line("deepspan", <<N(x.span)>>) >>
    \o EmitPlain(x, <<"deepfollow">>) \o << Line("deep", <<FlagOn(x.deep)>>) >>

EmitDerived(x) ==
    << Line("math", <<IF x.math THEN W(x.op) ELSE W("off")>>), Line("fft", <<FlagOn(x.fft)>>) >>
    \o EmitPlain(x, <<"fftsrc", "fftwnd">>)
    \o << Line("waterfall", <<FlagOn(x.waterfall)>>), Line("viz", <<W(x.viz)>>) >>

Emit(x) ==
    << Line("rate", <<N(x.rate)>>), Line("trigpos", <<N(x.pos)>>), Line("acq", <<W(x.user)>>),
       Line("autopeak", <<FlagOn(x.auto)>>) >>
    \o EmitChannel(x, 0) \o EmitChannel(x, 1)
    \o << Line("select", <<N(x.selected)>>), EmitTrigger(x.trig) >>
    \o EmitPlain(x, <<"holdoff", "mode", "persist", "gain", "crt", "palette">>)
    \o EmitView(x) \o EmitDerived(x) \o EmitPlain(x, <<"effect">>)
    \o << Line("cursor", <<W("time"), x.cursor["time"]>>), Line("cursor", <<W("amp"), x.cursor["amp"]>>) >>
    \o EmitPlain(x, <<"markers", "guides", "stats", "pf", "pfsrc", "pftol">>)
    \o << Line("scrollback", <<N(x.budget)>>), Line("run", <<Flag1(x.running)>>) >>

\* autostate: the same, but for run and with the windows' lines before it.
EmitState(x) == EmitPlain(x, <<"measwin", "settings">>) \o SelectSeq(Emit(x), LAMBDA l : l.verb # "run")

\* restore: a sample rate the instrument does not offer is dropped.
Restorable(lines) == SelectSeq(lines, LAMBDA l : l.verb = "rate" => l.args[1].n \in ToSet(Rates))

-----------------------------------------------------------------------------
(* The keys, the horizontal dialog and the plot.                           *)

Key(x, k) ==
    LET Cycle(seq, v) == seq[(Max({i \in 0..Len(seq) : i = 0 \/ (i > 0 /\ seq[i] = v)}) % Len(seq)) + 1]
    IN CASE k = "space" -> [x EXCEPT !.running = ~@]
         [] k = "up" -> ZoomChannel(x, 0, FALSE) [] k = "down" -> ZoomChannel(x, 0, TRUE)
         [] k = "right" -> TimebaseStep(x, FALSE) [] k = "left" -> TimebaseStep(x, TRUE)
         [] k = "." -> [x EXCEPT !.trig.level = @ + x.vdiv[0]] [] k = "," -> [x EXCEPT !.trig.level = @ - x.vdiv[0]]
         [] k = "s" -> IF x.trig.kind # "trigger" THEN x
                       ELSE [x EXCEPT !.trig.detail = <<Cycle(<<W("rising"), W("falling")>>, @[1])>>]
         [] k = "n" -> LET sweep == Cycle(<<"auto", "normal", "single">>, x.trig.sweep)
                       IN [x EXCEPT !.trig.sweep = sweep, !.running = @ \/ sweep = "single"]
         [] k = "m" -> SetUser(x, Cycle(<<"sample", "peak", "avg4", "avg16", "avg64">>, x.user))
         [] k = "c" -> [x EXCEPT !.coupling[0] = Cycle(<<"dc", "ac", "gnd">>, @)]
         [] k = "[" -> Offset(x, 0, -Step) [] k = "]" -> Offset(x, 0, Step)
         [] k = "h" -> ViewHome(x)
         [] k = "x" -> [x EXCEPT !.plain["mode"] = <<Cycle(<<W("vectors"), W("dots"), W("xy")>>, @[1])>>]
Keys == {"space", "up", "down", "right", "left", ".", ",", "s", "n", "m", "c", "[", "]", "h", "x"}

\* dialog_horizontal and touch: the gestures no verb makes.
Gestures(x) ==
    {SpanStep(x, wider) : wider \in {w \in BOOLEAN : x.deep}}
    \cup {[x EXCEPT !.anchor = None], [x EXCEPT !.hview = Home]}
    \cup {HzoomTimeline(x, anchor, inward) : anchor \in {0, HalfWhole, Whole}, inward \in BOOLEAN}
    \cup {IF x.deep THEN DeepPan(x, 4, d) ELSE Hposition(x, d * Step) : d \in {-1, 1}}
    \cup {[x EXCEPT !.auto = ~@]}

-----------------------------------------------------------------------------
Init == /\ s = Launched /\ text = None /\ rested = TRUE /\ edits = 0

Edit == edits < MaxEdits /\ edits' = edits + 1

\* Every line of the verbs a script run writes here, over few numbers.
WordsOf(kind) ==
    IF kind = Anything THEN {W("on"), W("off"), N(1), N(0)}
    ELSE {W(w) : w \in kind \ {""}} \cup (IF "" \in kind THEN {N(n) : n \in Numbers} ELSE {})
Arguments(kinds) ==
    FoldLeft(LAMBDA some, kind : {Append(args, w) : args \in some, w \in WordsOf(kind)}, {<<>>}, kinds)
LinesOf(verbs) == UNION {{Line(v, args) : args \in Arguments(Grammar[v])} : v \in verbs}

Script == Edit /\ \E line \in Scripts : s' = Do(s, line) /\ UNCHANGED <<text, rested>>
Press == Edit /\ \E k \in Keys : s' = Key(s, k) /\ UNCHANGED <<text, rested>>
Gesture == Edit /\ s' \in Gestures(s) /\ UNCHANGED <<text, rested>>
Rest == rested' = TRUE /\ UNCHANGED <<s, text, edits>>

\* autopeak::update, once a frame.
Update ==
    \E freq \in Freqs :
        LET bound == ~s.auto \/ s.user \in Averages
            want  == Advised(s, freq)
        IN /\ \/ bound /\ s.engaged /\ s' = Release(s) /\ UNCHANGED rested
              \/ /\ ~bound /\ want # s.engaged /\ rested /\ rested' = FALSE
                 /\ s' = [s EXCEPT !.engaged = want, !.acq = IF want THEN "peak" ELSE s.user]
           /\ UNCHANGED <<text, edits>>

\* deep::build, once there is a record: no zoom window under the timeline.
Build == /\ s.deep /\ (s.zoom \/ s.hview # Home)
         /\ s' = SetZoom(s, FALSE) /\ UNCHANGED <<text, rested, edits>>

Save == edits < MaxEdits /\ text' = Emit(s) /\ UNCHANGED <<s, rested, edits>>
\* sessionload, and a launch with what the last session left.
Load == Edit /\ text # None /\ s' = Replay(s, text) /\ UNCHANGED <<text, rested>>
Launch == /\ Edit /\ s' = Replay(Launched, Restorable(EmitState(s))) /\ text' = text
          /\ rested' = TRUE

Next == \/ Script \/ Press \/ Gesture \/ Rest \/ Update \/ Build \/ Save \/ Load \/ Launch
Spec == Init /\ [][Next]_vars

-----------------------------------------------------------------------------
TypeOK == /\ s.zoom \in BOOLEAN /\ s.deep \in BOOLEAN /\ s.rate \in Nat \ {0} /\ s.span \in Nat \ {0}
          /\ s.pos \in 0..Whole /\ s.acq \in {"sample", "peak"} \cup Averages /\ edits \in 0..MaxEdits

\* What the text of a session brings back: every setting but the zoom
\* window, the level of a trigger that has none in its line, the source of
\* one that has none, the math operation while math is off, and the spectrum
\* a waterfall or a terrain turns on.
Captured(x) ==
    [rate |-> x.rate, pos |-> x.pos, user |-> x.user, auto |-> x.auto, vdiv |-> x.vdiv, offset |-> x.offset,
     coupling |-> x.coupling, which |-> x.which, selected |-> x.selected, running |-> x.running,
     trig |-> [x.trig EXCEPT !.level = IF x.trig.kind = "trigger" THEN @ ELSE 0,
                             !.source = IF x.trig.kind = "trigvideo" THEN 0 ELSE @],
     span |-> x.span, deep |-> x.deep, math |-> IF x.math THEN x.op ELSE "off",
     fft |-> x.fft \/ x.waterfall \/ x.viz = "terrain", waterfall |-> x.waterfall, viz |-> x.viz,
     cursor |-> x.cursor, budget |-> x.budget, plain |-> [v \in Plain \ {"measwin", "settings"} |-> x.plain[v]]]

\* Every line a session writes is one the grammar takes, and replayed into a
\* fresh app, or into one that was used since, it makes the settings saved.
SavedIsRestored ==
    /\ \A i \in DOMAIN Emit(s) : Parses(Emit(s)[i])
    /\ Captured(Replay(Launched, Emit(s))) = Captured(s)
LoadIsLaunch ==
    text # None => Captured(Replay(s, text)) = Captured(Replay(Launched, text))

\* The same of every line a script may write, over few numbers.
LinesAreRestored ==
    \A line \in LinesOf(DOMAIN Grammar \ {"rate", "timebase", "trigslope", "vdiv", "enable", "coupling", "probe", "offset"}) :
        LET t == Do(Launched, line) IN Captured(Replay(Launched, Emit(t))) = Captured(t)

\* A second restart changes nothing that the first did not.
SettlesOnce ==
    LET once == Replay(Launched, Restorable(EmitState(s)))
    IN Replay(Launched, Restorable(EmitState(once))) = once

\* The instrument acquires the way the user chose, or by peak while the rule
\* is engaged, and the rule is engaged by nothing the user switched off
\* longer than to the next frame.
AcqFollows ==
    /\ s.acq = IF s.engaged THEN "peak" ELSE s.user
    /\ s.engaged => s.user \notin Averages

\* The window shown lies in the record, and the timeline is parked only
\* while it is on.
ViewIsInRecord ==
    /\ s.hview.w \in MinSpan..Whole
    /\ s.hview.c - s.hview.w \div 2 >= 0 /\ s.hview.c + s.hview.w \div 2 <= Whole

\* session.rs 167-168: "After hview on purpose: `deep on` clears the zoom
\* window, so emitting it first would make the session fail to round-trip".
\* deepspan turns the timeline on as well, and is emitted after hview.
ZoomRoundTrips ==
    ~s.deep => LET t == Replay(Launched, Emit(s)) IN t.hview = s.hview /\ t.zoom = s.zoom

\* view.rs 148: zooming out with the zoom window on, "at the record, engage
\* the timeline".  While zoom is on the timeline is never engaged, and a
\* window narrowed from the whole record is not zoom.
ZoomsOutInSteps ==
    LET t == HzoomTimeline(s, HalfWhole, FALSE)
    IN ~s.deep => (t.deep <=> s.hview = Home)

\* view.rs 188-189, deep.rs 135: a wider window is wider.
WiderIsWider == SpanStep(s, TRUE).span >= s.span
\* run.rs 209: "Home means the normal view: the timeline is a mode", where
\* the key H says "home: default zoom + centre position" and leaves it on.
HomeIsNormal == LET t == Key(s, "h") IN ~t.deep /\ ~t.zoom
=============================================================================
