------------------------------- MODULE SdrDesk -------------------------------
(***************************************************************************)
(* The rest of the SDR's desk: the verbs of its settings, the script lines *)
(* they are written as and read back from, what the dock, the front panel  *)
(* and the MCP tools ask for, the audio device behind the demodulator with *)
(* the volume and the mute it holds itself, the raw IQ dump, and the       *)
(* switch from one instrument to the other.                                *)
(*                                                                         *)
(* SdrTuning has the window and the cursor, SignalLab the tracks and the   *)
(* lab, DabDesk and DabPlayback the transport: here a tune moves only the  *)
(* cursor, and a transport starts or ends.                                 *)
(***************************************************************************)
EXTENDS Integers, Sequences, FiniteSets, SequencesExt, FiniteSetsExt

CONSTANTS
    Rates, Gains,   \* what the instrument's capabilities list
    Modes,          \* demodulators
    Channels,       \* frequencies to tune to
    Powers,         \* channel powers a frame may have, dBFS
    Asked,          \* actions the desk and scripts ask for, of those there are
    Transports,     \* states a DAB transport may report
    Tools,          \* calls of sdr_tune and sdr_demod, None for what is absent
    Pairs,          \* IQ pairs of a frame
    MaxFrames,      \* bound: frames that arrive
    None

FftSizes == {1024, 2048, 4096, 8192, 16384}
SquelchOff == -120
Full == 100         \* a volume of 1, in hundredths

VARIABLES
    d,       \* SdrState, the link and the device
    queue,   \* lines asked for and not yet run
    frames   \* frames that arrived

vars == <<d, queue, frames>>

-----------------------------------------------------------------------------
(* Actions and their lines.                                                *)

\* SdrAction: the verb and what it carries: a switch, numbers, a name, and
\* for a survey the ranges to skip.
Act(verb) == [verb |-> verb, on |-> None, n |-> <<>>, name |-> None, skip |-> <<>>]
Switch(verb, on) == [Act(verb) EXCEPT !.on = on]
Number(verb, n) == [Act(verb) EXCEPT !.n = <<n>>]
Name(verb, name) == [Act(verb) EXCEPT !.name = name]

Switches == {"agc", "run", "detect", "analyse", "follow", "mute"}
Numbers  == {"tune", "step", "rate", "ppm", "span", "fft", "threshold", "pan", "centre",
             "volume", "list"}
\* What the word says in place of a number, or of a name.
Blank == [verb \in {"gain", "width", "squelch", "demod", "modulation"} |->
            IF verb \in {"squelch", "demod"} THEN "off" ELSE "auto"]

Word(w) == [word |-> w, num |-> None, pair |-> None]
Num(n)  == [word |-> None, num |-> n, pair |-> None]
Pair(p) == [word |-> None, num |-> None, pair |-> p]
Nums(n) == [i \in DOMAIN n |-> Num(n[i])]
OnOff(on) == Word(IF on THEN "on" ELSE "off")

\* Display.
Line(a) ==
    LET v == a.verb
        args ==
            CASE v \in Switches -> <<OnOff(a.on)>>
              [] v \in Numbers \cup {"level"} -> Nums(a.n)
              [] v \in DOMAIN Blank /\ a.n = <<>> /\ a.name = None -> <<Word(Blank[v])>>
              [] v \in DOMAIN Blank /\ a.name # None -> <<Word(a.name)>>
              [] v \in DOMAIN Blank /\ a.n # <<>> -> Nums(a.n)
              [] v = "survey" /\ a.n = <<>> -> <<Word("stop")>>
              [] v = "survey" /\ a.n # <<>> ->
                   Nums(SubSeq(a.n, 1, 2)) \o <<Word("cap"), Num(a.n[3])>>
                     \o FlattenSeq([i \in DOMAIN a.skip |-> <<Word("skip"), Pair(a.skip[i])>>])
              [] v = "iqdump" /\ a.name = None -> <<Word("off")>>
              [] v = "iqdump" /\ a.name # None -> <<Word(a.name)>> \o Nums(a.n)
              [] OTHER -> <<>>
    IN CASE v = "instrument" -> <<Word(v), Word(IF a.on THEN "sdr" ELSE "scope")>>
         [] v = "seed" -> <<Word("sim"), Word("iq"), Word("--seed")>> \o Nums(a.n)
         [] OTHER -> <<Word("sdr"), Word(v)>> \o args

\* The words after the ones a survey's range took: cap N and skip lo:hi.
Swept(w, a) ==
    LET caps  == {i \in DOMAIN w : w[i] = Word("cap")}
        skips == {i \in DOMAIN w : w[i] = Word("skip")}
        order == SetToSortSeq(skips, <)
    IN [a EXCEPT !.n = @ \o <<IF caps = {} THEN 32 ELSE w[Max(caps) + 1].num>>,
                 !.skip = [i \in DOMAIN order |-> w[order[i] + 1].pair]]

\* parse, of a line that parses; words beyond those a verb takes are left.
Parsed(line) ==
    LET v == line[2].word
        a == line[3]
        amount == [Act(v) EXCEPT !.n = <<a.num>>]
    IN CASE line[1].word = "instrument" -> Switch("instrument", line[2].word = "sdr")
         [] line[1].word = "sim" -> Number("seed", line[4].num)
         [] line[1].word = "sdr" /\ v \in Switches -> Switch(v, a.word = "on")
         [] line[1].word = "sdr" /\ v \in Numbers -> amount
         [] line[1].word = "sdr" /\ v = "level" -> [Act(v) EXCEPT !.n = <<a.num, line[4].num>>]
         [] line[1].word = "sdr" /\ v \in DOMAIN Blank /\ a.word = Blank[v] -> Act(v)
         [] line[1].word = "sdr" /\ v \in DOMAIN Blank /\ a.word \notin {Blank[v], None} ->
              Name(v, a.word)
         [] line[1].word = "sdr" /\ v \in DOMAIN Blank /\ a.word = None -> amount
         [] line[1].word = "sdr" /\ v = "survey" /\ a.word = "stop" -> Act(v)
         [] line[1].word = "sdr" /\ v = "survey" /\ a.word # "stop" ->
              Swept(SubSeq(line, 5, Len(line)), [Act(v) EXCEPT !.n = <<a.num, line[4].num>>])
         [] line[1].word = "sdr" /\ v = "iqdump" /\ a.word = "off" -> Act(v)
         [] line[1].word = "sdr" /\ v = "iqdump" /\ a.word # "off" ->
              [Act(v) EXCEPT !.name = a.word, !.n = <<line[4].num>>]

\* Every shape of action.  Paths are words.
Actions(names) ==
    {Switch(v, on) : v \in Switches \cup {"instrument"}, on \in BOOLEAN}
    \cup {Number(v, 7) : v \in Numbers \cup {"seed", "gain", "width", "squelch"}}
    \cup {Act(v) : v \in DOMAIN Blank \cup {"survey", "iqdump"}}
    \cup {Name(v, "am") : v \in {"demod", "modulation"}}
    \cup {[Act("level") EXCEPT !.n = <<3, 4>>]}
    \cup {[Act("survey") EXCEPT !.n = <<1, 9, 5>>, !.skip = skip] :
            skip \in {<<>>, <<<<2, 3>>>>, <<<<2, 3>>, <<4, 6>>>>}}
    \cup {[Act("iqdump") EXCEPT !.name = path, !.n = <<2>>] : path \in names}

-----------------------------------------------------------------------------
(* The device.                                                             *)
Closed == None
Spawned == [state |-> "starting", volume |-> Full, mute |-> FALSE, held |-> {}]

Open(x) == [x EXCEPT !.sink = IF @ = Closed THEN Spawned ELSE @]
\* Changed form: what was queued plays on.
PlaysOut(x) == x
Clear(x) == [x EXCEPT !.sink = IF @ = Closed THEN @ ELSE [@ EXCEPT !.held = {}]]
SetVolume(x) == [x EXCEPT !.sink = IF @ = Closed THEN @ ELSE [@ EXCEPT !.volume = x.volume]]
SetMute(x)   == [x EXCEPT !.sink = IF @ = Closed THEN @ ELSE [@ EXCEPT !.mute = x.mute]]

DabReset(x) == IF x.dab = None THEN x ELSE Clear([x EXCEPT !.dab = None])

\* audio_state.
AudioState(x) ==
    LET silent == CASE x.sink = Closed -> "starting"
                    [] x.sink # Closed /\ x.sink.state # "ready" ->
                         IF x.sink.state = "gone" THEN "no device" ELSE "starting"
                    [] x.sink # Closed /\ x.sink.state = "ready" /\ x.mute -> "muted"
                    [] OTHER -> None
    IN CASE x.dab = None /\ x.demod = None -> "off"
         [] x.dab = "error" -> "error"
         [] x.dab \notin {None, "error"} -> IF silent # None THEN silent ELSE x.dab
         [] OTHER -> CASE silent # None -> silent
                       [] silent = None /\ x.squelched -> "squelched"
                       [] OTHER -> "playing"

-----------------------------------------------------------------------------
(* apply.                                                                  *)
Near(gains, g) ==
    CHOOSE x \in gains : \A y \in gains :
       LET dx == IF x < g THEN g - x ELSE x - g
           dy == IF y < g THEN g - y ELSE y - g
       IN dx < dy \/ (dx = dy /\ x <= y)

\* Changed form: the gain asked for is kept.
Unsnapped(x, g) == g
Snapped(x, g) == IF x.caps /\ Gains # {} THEN Near(Gains, g) ELSE g

Refused(x, a) ==
    CASE a.verb = "rate" -> a.n[1] <= 0 \/ (x.caps /\ a.n[1] \notin Rates)
      [] a.verb = "fft" -> a.n[1] \notin FftSizes
      [] a.verb = "level" -> a.n[2] <= 0
      [] a.verb = "threshold" -> a.n[1] \notin 3..60
      [] a.verb = "volume" -> a.n[1] \notin 0..Full
      [] a.verb = "list" -> a.n[1] \notin 40..2000
      \* A dump of 0.1 to 600 s, in tenths, to a path that can be created.
      [] a.verb = "iqdump" -> a.name # None /\ (a.n[1] \notin 1..6000 \/ a.name = "unwritable")
      [] OTHER -> FALSE

DumpStart(x, a) ==
    [path |-> a.name, rate |-> x.rate, asked |-> (a.n[1] * x.rate) \div 10,
     left |-> (a.n[1] * x.rate) \div 10, rates |-> {}, from |-> None, upto |-> None]

\* finish puts what was written in place, whole.
Finished(x, stopped) ==
    [x EXCEPT !.dump = None,
              !.file = [path |-> x.dump.path, whole |-> x.dump.left = 0, stopped |-> stopped,
                        rate |-> x.dump.rate, rates |-> x.dump.rates, asked |-> x.dump.asked,
                        pairs |-> x.dump.asked - x.dump.left, from |-> x.dump.from,
                        upto |-> x.dump.upto]]

Switched(x, to) ==
    [DabReset(x) EXCEPT !.active = to, !.caps = FALSE,
                        !.sent = IF to THEN [rate |-> x.rate, gain |-> x.gain, run |-> x.running]
                                 ELSE None]

Taken(x, a) ==
    LET v == a.verb
        n == IF a.n = <<>> THEN None ELSE a.n[1]
        dirtied(y) == [y EXCEPT !.dirty = TRUE]
    IN CASE v = "rate" -> dirtied([(IF n # x.rate THEN DabReset(x) ELSE x) EXCEPT !.rate = n])
         [] v = "gain" -> dirtied([x EXCEPT !.gain = IF n = None THEN None ELSE Snapped(x, n)])
         [] v = "run" -> dirtied([(IF a.on THEN x ELSE DabReset(x)) EXCEPT !.running = a.on])
         [] v \in {"agc", "ppm"} -> dirtied(x)
         [] v = "tune" -> [x EXCEPT !.tuned = n]
         [] v = "demod" -> [(IF a.name = x.demod THEN x ELSE Clear([x EXCEPT !.squelched = FALSE]))
                              EXCEPT !.demod = a.name]
         [] v = "volume" -> SetVolume([x EXCEPT !.volume = n])
         [] v = "mute" -> SetMute([x EXCEPT !.mute = a.on])
         [] v = "squelch" -> [x EXCEPT !.squelch = IF n = None THEN SquelchOff ELSE n]
         [] v = "instrument" -> IF a.on = x.active THEN x ELSE Switched(x, a.on)
         [] v = "iqdump" /\ a.name # None -> [x EXCEPT !.dump = DumpStart(x, a)]
         [] v = "iqdump" /\ a.name = None -> IF x.dump = None THEN x ELSE Finished(x, TRUE)
         [] OTHER -> x   \* display settings: kept as asked for

Applied(x, a) == IF Refused(x, a) THEN x ELSE Taken(x, a)

-----------------------------------------------------------------------------
(* What the desk asks for.                                                 *)

\* The receiver's controls: rates and a gain slider as the capabilities say.
OfferReceiver(x) ==
    (IF x.caps THEN {Number("rate", r) : r \in Rates} ELSE {})
    \cup (IF x.gain = None THEN {Number("gain", 297)} ELSE {Act("gain")})
    \cup (IF x.gain # None /\ x.caps THEN {Number("gain", g) : g \in {0, Max(Gains)}} ELSE {})
    \cup {Switch("agc", on) : on \in BOOLEAN} \cup {Number("ppm", p) : p \in {-200, 200}}

OfferDisplay ==
    {Number("fft", n) : n \in FftSizes}
    \cup {[Act("level") EXCEPT !.n = <<ref, range>>] : ref \in {-150, 30}, range \in {10, 200}}

\* The slider of the squelch ends where the gate is open.
OfferSquelch(db) == IF db <= SquelchOff THEN Act("squelch") ELSE Number("squelch", db)
OfferAudio(x) ==
    {Name("demod", m) : m \in Modes \ {x.demod}} \cup {Act("demod"), Switch("mute", ~x.mute)}
    \cup {Number("volume", v) : v \in {0, Full}}
    \cup {OfferSquelch(db) : db \in {SquelchOff, 0}}

OfferSignals ==
    {Number("threshold", t) : t \in {3, 60}}
    \cup {Number("list", px) : px \in {40, 2000}}
OfferTracks == {Number("tune", c) : c \in Channels}

\* The front panel has some of these, and the run key.
OfferPanel(x) ==
    {Switch("run", ~x.running), Switch("mute", ~x.mute), Act("demod")}
    \cup {Name("demod", m) : m \in Modes}

Offers(x) ==
    OfferReceiver(x) \cup OfferDisplay \cup OfferAudio(x) \cup OfferSignals \cup OfferTracks
      \cup OfferPanel(x)

\* sdr_tune: rate, gain, tune.  sdr_demod: demod, volume, mute, squelch.
Given(a, present) == IF present THEN <<Line(a)>> ELSE <<>>
TuneLines(p) ==
    Given(Number("rate", p.rate), p.rate # None)
      \o (IF p.auto = TRUE THEN <<Line(Act("gain"))>>
          ELSE Given(Number("gain", p.gain), p.gain # None))
      \o <<Line(Number("tune", p.tuned))>>
DemodLines(p) ==
    <<Line(IF p.demod = "off" THEN Act("demod") ELSE Name("demod", p.demod))>>
      \o Given(Number("volume", p.volume), p.volume # None)
      \o Given(Switch("mute", p.mute), p.mute # None)
      \o Given(Number("squelch", p.squelch), p.squelch # None)
ToolLines(p) == IF p.tool = "tune" THEN TuneLines(p) ELSE DemodLines(p)

\* get sdr and get audio, of what is here.
Reading(x) ==
    [rate |-> x.rate, gain |-> x.gain, running |-> x.running, demod |-> x.demod,
     volume |-> x.volume, mute |-> x.mute, squelch |-> x.squelch, state |-> AudioState(x),
     iqdump |-> IF x.dump = None THEN None
                ELSE [written |-> x.dump.asked - x.dump.left, remaining |-> x.dump.left]]

-----------------------------------------------------------------------------
(* What happens.                                                           *)

\* IqDump::write of one frame, or its failure.
Dumped(x, rate) ==
    LET take == Min({Pairs, x.dump.left})
    IN [x EXCEPT !.dump.left = @ - take, !.dump.rates = @ \cup {rate},
                 !.dump.from = IF @ = None THEN frames ELSE @, !.dump.upto = frames]

\* Changed form: a dump that failed is put in place.
KeepsFailed(x) == Finished(x, FALSE)
DumpFailed(x) == [x EXCEPT !.dump = None]

DumpFed(x, rate, fails) ==
    CASE x.dump = None -> x
      [] x.dump # None /\ fails -> DumpFailed(x)
      [] x.dump # None /\ ~fails ->
           LET y == Dumped(x, rate) IN IF y.dump.left = 0 THEN Finished(y, FALSE) ELSE y

\* feed: the device opens, the gate is judged, and the channel is queued
\* unless DAB owns the device.
Demodulated(x, power) ==
    LET y == [Open(x) EXCEPT !.squelched = power < x.squelch]
    IN CASE x.demod = None -> x
         [] x.demod # None /\ (y.squelched \/ x.dab # None) -> y
         [] OTHER -> [y EXCEPT !.sink.held = @ \cup {[mode |-> x.demod, channel |-> x.tuned]}]

\* A frame of the instrument, at the rate it was last told.
Frame ==
    /\ d.active /\ d.caps /\ d.sent.run /\ frames < MaxFrames
    /\ \E power \in Powers, fails \in BOOLEAN :
          /\ fails => d.dump # None
          /\ d' = Demodulated(DumpFed(d, d.sent.rate, fails), power)
    /\ frames' = frames + 1 /\ UNCHANGED queue

Connected == ~d.caps /\ d.active /\ d' = [d EXCEPT !.caps = TRUE] /\ UNCHANGED <<queue, frames>>
Disconnected == d.caps /\ d' = [d EXCEPT !.caps = FALSE] /\ UNCHANGED <<queue, frames>>

\* The device's thread answers; its callback empties the queue.
Reported ==
    /\ d.sink # Closed /\ d.sink.state = "starting"
    /\ \E state \in {"ready", "gone"} : d' = [d EXCEPT !.sink.state = state]
    /\ UNCHANGED <<queue, frames>>
Drained ==
    /\ d.sink # Closed /\ d.sink.state = "ready" /\ d.sink.held # {}
    /\ d' = [d EXCEPT !.sink.held = {}] /\ UNCHANGED <<queue, frames>>

\* A transport takes the device, or leaves it.
DabPlays ==
    /\ d.dab = None /\ d.active /\ d.running
    /\ \E state \in Transports :
          d' = Clear(SetMute(SetVolume(Open([d EXCEPT !.dab = state]))))
    /\ UNCHANGED <<queue, frames>>
DabStops == d.dab # None /\ d' = Clear([d EXCEPT !.dab = None]) /\ UNCHANGED <<queue, frames>>

\* Changed form: the settings changed in another mode are not sent.
FlushOnce(x) == [x EXCEPT !.dirty = FALSE]
Flushed(x) ==
    [x EXCEPT !.dirty = FALSE, !.sent = [rate |-> x.rate, gain |-> x.gain, run |-> x.running]]
Flush == d.active /\ d.dirty /\ d' = Flushed(d) /\ UNCHANGED <<queue, frames>>

Ask ==
    /\ queue = <<>>
    /\ \/ \E a \in Asked : queue' = <<Line(a)>>
       \/ \E p \in Tools : queue' = ToolLines(p)
    /\ UNCHANGED <<d, frames>>

\* run: a tool stops at the line that is refused.
Run ==
    /\ queue # <<>>
    /\ LET a == Parsed(Head(queue))
       IN d' = Applied(d, a) /\ queue' = IF Refused(d, a) THEN <<>> ELSE Tail(queue)
    /\ UNCHANGED frames

-----------------------------------------------------------------------------
Init ==
    /\ \E active \in BOOLEAN :
          d = [active |-> active, caps |-> FALSE, rate |-> Min(Rates), gain |-> None,
               running |-> TRUE, dirty |-> FALSE,
               sent |-> IF active THEN [rate |-> Min(Rates), gain |-> None, run |-> TRUE] ELSE None,
               tuned |-> Min(Channels), demod |-> None, volume |-> 70, mute |-> FALSE,
               squelch |-> SquelchOff, squelched |-> FALSE, dab |-> None, sink |-> Closed,
               dump |-> None, file |-> None]
    /\ queue = <<>> /\ frames = 0

Next ==
    \/ Frame \/ Connected \/ Disconnected \/ Reported \/ Drained \/ DabPlays \/ DabStops
    \/ Flush \/ Ask \/ Run

-----------------------------------------------------------------------------
(* Correctness properties.                                                 *)

\* The instrument runs what the desk shows once everything is flushed,
\* whichever instrument was on while it was set.
SentIsHeld ==
    d.active /\ ~d.dirty => d.sent = [rate |-> d.rate, gain |-> d.gain, run |-> d.running]

\* A dump appears complete or stopped by its operator, and without a hole.
DumpIsWhole ==
    d.file # None =>
      /\ d.file.whole \/ d.file.stopped
      /\ d.file.from # None => d.file.pairs = Min({d.file.asked, Pairs * (d.file.upto - d.file.from + 1)})

\* What is queued is of the demodulator that is on and is let through, so
\* the state never names a silence while it plays; a mute that the device
\* was never told of apart.
HeardIsNamed ==
    d.sink # Closed /\ d.sink.held # {} =>
      /\ \A h \in d.sink.held : h.mode = d.demod
      /\ AudioState(d) \notin {"off", "error"}

\* The desk offers nothing that is refused, and every action is the one its
\* line is read back as; paths that are also words of the grammar apart.
DeskIsTaken == \A a \in Offers(d) : ~Refused(d, a)
LinesAreRead == \A a \in Actions({"dump"}) : Parsed(Line(a)) = a

\* What actions.rs:121-124 says of every action: violated by a dump to "off".
EveryLineIsRead == \A a \in Actions({"dump", "off"}) : Parsed(Line(a)) = a

\* A state of muted is silent, "told apart by name" (audio.rs:157-158):
\* violated.  The demodulator opens the device without its mute or volume.
MutedIsSilent ==
    d.sink # Closed /\ d.sink.state = "ready" /\ AudioState(d) = "muted" => d.sink.mute
VolumeIsHeard == d.sink # Closed => d.sink.volume = d.volume

\* Nothing plays of a stopped stream, and it is not named: violated.
SilenceIsNamed ==
    AudioState(d) = "playing" /\ d.dab = None => d.active /\ d.running

\* What is queued is of the tuned channel, dropped "on retune or a mode
\* change" (sink.rs:249): violated.
QueueIsOfTheChannel ==
    d.sink # Closed => \A h \in d.sink.held : h.channel = d.tuned

\* With an instrument, a manual gain is one of its table, "so the readout
\* says what it runs" (actions.rs:255): violated by one set before it came.
GainIsOfTheTable == d.caps /\ d.gain # None => d.gain \in Gains

\* A dump has one rate, the one it was started at: violated by a rate set
\* while it runs.
DumpHasOneRate == d.file # None => d.file.rates \subseteq {d.file.rate}

\* sdr_demod without a squelch leaves the gate open: violated.  It leaves
\* the squelch alone.
NullOpensTheGate ==
    \A p \in Tools : p.tool = "demod" /\ p.squelch = None =>
      FoldLeft(LAMBDA x, line : Applied(x, Parsed(line)), d, ToolLines(p)).squelch = SquelchOff
=============================================================================
