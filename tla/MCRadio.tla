------------------------------ MODULE MCRadio -------------------------------
(***************************************************************************)
(* The instrument backends and the radio chain, each on an instance of its *)
(* own: the initial state chooses which part runs, and only its variables  *)
(* change.                                                                 *)
(***************************************************************************)
EXTENDS Integers, Radio, DabReceiver, TLC

VARIABLES
    part,                                                   \* the part that runs
    syncState, syncNext, syncClean, syncProved,
    deskS, deskClock, deskQueue, deskHeld,
    sdrD, sdrQueue, sdrFrames,
    mapM, mapInjected, mapCall, mapAsks

syncVars == <<syncState, syncNext, syncClean, syncProved>>
deskVars == <<deskS, deskClock, deskQueue, deskHeld>>
sdrVars  == <<sdrD, sdrQueue, sdrFrames>>
mapVars  == <<mapM, mapInjected, mapCall, mapAsks>>

-----------------------------------------------------------------------------
\* The oscilloscope: the second channel on only when it is the trigger's
\* source, the first in two ranges when that is; the slow rate and the second
\* source with one position each, peak detection at the fast rate and with the
\* second source, and stopped at one rate and position.
AskedOfScope(c) ==
    /\ c.channels[1] = [on |-> c.src = 1, vb |-> 2]
    /\ c.channels[0].vb = 2 \/ (c.channels[0].on /\ c.src = 0)
    /\ (c.rate = 1 \/ c.src = 1) => c.position = 0
    /\ c.peak => c.running /\ c.rate = 250 /\ c.src = 1
    /\ c.running \/ (c.rate = 250 /\ c.position = 0)

\* The dongle twice: every setting without samples, and samples with some.
RtlBase == [rate |-> 1, centre |-> 100, gain |-> 0, ppm |-> 0, running |-> TRUE]

SettingAsked(c) ==
    \/ c = [RtlBase EXCEPT !.running = FALSE]
    \/ c = [RtlBase EXCEPT !.rate = 2]
    \/ c = [RtlBase EXCEPT !.centre = c.centre, !.gain = c.gain]
    \/ c = [RtlBase EXCEPT !.ppm = 1]

StreamAsked(c) ==
    c \in {RtlBase, [RtlBase EXCEPT !.running = FALSE],
           [RtlBase EXCEPT !.rate = 2], [RtlBase EXCEPT !.ppm = 1]}

Settings == INSTANCE RtlBackend WITH
    Rates <- RtlRates, Centres <- RtlCentres, Gains <- RtlGains, Ppms <- RtlPpms, Hf <- RtlHf,
    CalLo <- RtlCalLo, QueueCap <- RtlQueue, MaxMade <- 0, Asked <- SettingAsked,
    plugged <- rtlPlugged, open <- rtlOpen, stuck <- rtlStuck, reg <- rtlReg,
    drv <- rtlDrv, applied <- rtlApplied, moved <- rtlMoved, stream <- rtlStream,
    acct <- rtlAcct, answer <- rtlAnswer, made <- rtlMade, told <- rtlTold,
    behind <- rtlBehind

\* Super frames of three logical frames instead of five.
Sync == INSTANCE DabPlusSync WITH
    Frames <- 3, ConfirmWindows <- 2, ResyncAfterBad <- 2, ShapeVerdict <- 2,
    sync <- syncState, next <- syncNext, clean <- syncClean, proved <- syncProved

\* A device of one channel and one of two, each below the level, above it
\* late, and crossing it all the time; the second channel as a source too.
Hears(above) == [i \in 1..14 |-> i \in above]
HeardSignals == {Hears({}), Hears(11..14), Hears({3, 4, 7, 8, 11, 12})}
HostConfigs == {[normal |-> n, want |-> 1, source |-> 0] : n \in BOOLEAN}
                  \cup {[normal |-> TRUE, want |-> 1, source |-> 1]}

\* An ensemble of two layouts: in the second a sub-channel has moved, a
\* service is another, and two sub-channels cannot be played: a size its
\* protection does not allow, and an end past the CIF's.  Half of a frame's
\* FIBs may be lost, or all but one.
Layout(start, size, prot) == [start |-> start, size |-> size, prot |-> prot]
Eep(level, option) == [level |-> level, option |-> option]
Before == [eid |-> "A", services |-> [s1 |-> 0, s2 |-> 1, s3 |-> 1],
           subs |-> 0 :> Layout(0, 96, [uep |-> 35]) @@ 1 :> Layout(96, 66, Eep(2, 0))]
After == [eid |-> "A", services |-> [s1 |-> 0, s2 |-> 2],
          subs |-> 0 :> Layout(0, 96, [uep |-> 35]) @@ 1 :> Layout(200, 66, Eep(2, 0))
                @@ 2 :> Layout(100, 65, Eep(1, 0)) @@ 3 :> Layout(820, 8, Eep(1, 0))]
SentProgrammes == {Before, After}
Interleaving == 0 :> 0 @@ 1 :> 2 @@ 2 :> 1 @@ 3 :> 3
FibsHeard == {{}, 1..12, {1}, {3}, {2, 4}}

\* Four messages, the first and the third of one parity.
MessageLengths == <<3, 1, 2, 3>>

\* An ensemble of two services, one of which cannot play, the same with its
\* streams exchanged, and another; two blocks, and a first centre off both.
DeskTable == [eid |-> 1, rates |-> [k \in {1, 2} |-> 8],
              services |-> (10 :> [sub |-> 1, ascty |-> 63] @@ 20 :> [sub |-> 2, ascty |-> 5])]

Desk == INSTANCE DabDesk WITH
    Air <- {DeskTable, [DeskTable EXCEPT !.services[10].sub = 2],
            [eid |-> 2, rates |-> (1 :> None), services |-> (10 :> [sub |-> 1, ascty |-> 0])]},
    Raster <- <<178352, 180064>>, HalfStep <- 856, Start <- 181000,
    Plan <- {[lo |-> 174000, hi |-> 180500]},
    Calls <- {[action |-> [verb |-> None, arg |-> 0], channel |-> [verb |-> "block", arg |-> 1],
               service |-> [verb |-> "index", arg |-> 1], play |-> [verb |-> "play", arg |-> 0]]},
    Asks <- {[verb |-> "index", arg |-> 3], [verb |-> "block", arg |-> 0]}
               \cup {[verb |-> "run", arg |-> on] : on \in {0, 1}},
    Patience <- 0, MaxTime <- 1,
    s <- deskS, clock <- deskClock, queue <- deskQueue, held <- deskHeld

\* The desk's settings twice: with a dump, a gain that is not of the table,
\* another rate and the other instrument; and with a DAB transport beside the
\* demodulator.
SdrAct(verb) == [verb |-> verb, on |-> None, n |-> <<>>, name |-> None, skip |-> <<>>]
ToDump(path) == [SdrAct("iqdump") EXCEPT !.name = path, !.n = <<10>>]

Dumping == INSTANCE SdrDesk WITH
    Rates <- {3, 4}, Gains <- {0, 10, 400}, Modes <- {"am"}, Channels <- {1}, Powers <- {-50},
    Transports <- {}, Pairs <- 2, MaxFrames <- 2,
    Asked <- {[SdrAct("rate") EXCEPT !.n = <<4>>], SdrAct("iqdump"), ToDump("dump"),
              ToDump("unwritable")}
                \cup {[SdrAct("instrument") EXCEPT !.on = on] : on \in BOOLEAN},
    Tools <- {[tool |-> "tune", rate |-> None, auto |-> None, gain |-> 13, tuned |-> 1]},
    d <- sdrD, queue <- sdrQueue, frames <- sdrFrames

Output == INSTANCE SdrDesk WITH
    Rates <- {3}, Gains <- {0, 10, 400}, Modes <- {"am"}, Channels <- {1, 2}, Powers <- {-50},
    Transports <- {"playing", "error"}, Pairs <- 2, MaxFrames <- 2,
    Asked <- {[SdrAct("demod") EXCEPT !.name = m] : m \in {None, "am"}}
                \cup {[SdrAct("mute") EXCEPT !.on = TRUE], [SdrAct("run") EXCEPT !.on = FALSE],
                      [SdrAct("squelch") EXCEPT !.n = <<-40>>], [SdrAct("tune") EXCEPT !.n = <<2>>]},
    Tools <- {[tool |-> "demod", demod |-> "am", volume |-> 30, mute |-> FALSE,
               squelch |-> None]},
    d <- sdrD, queue <- sdrQueue, frames <- sdrFrames

\* A reference store of two stations, one of them beyond the tuner; two plans,
\* with bands of one name, of one width, five deep and beyond the tuner.
Row(key, source, freq, mod) ==
    [key |-> <<key>>, source |-> source, freq |-> freq, mod |-> mod, service |-> "broadcast"]
Band(name, lo, hi) == [name |-> name, lo |-> lo, hi |-> hi]
BandPlans ==
    "general" :> <<Band(<<"short", "wave">>, 10, 20), Band(<<"2m">>, 30, 60), Band(<<"far">>, 1500, 1600),
                   Band(<<"short", "wave">>, 80, 300), Band(<<"sat">>, 35, 40)>>
      @@ "eu" :> <<Band(<<"2m">>, 30, 50), Band(<<"a">>, 100, 200), Band(<<"b">>, 100, 200),
                   Band(<<"c">>, 100, 150), Band(<<"d">>, 120, 180), Band(<<"e">>, 110, 190)>>
Crowd == <<[x |-> 10, w |-> 20], [x |-> 15, w |-> 20], [x |-> 18, w |-> 20], [x |-> 20, w |-> 20],
           [x |-> 90, w |-> 10]>>
MapAsked(a) ==
    \/ a.verb \in {<<"location">>, <<"stations", "tune">>}
    \/ a.verb = <<"refdb", "fetch">> /\ a.args[1] \in {"fcc", "fmlist"}
    \/ a.verb = <<"refdb", "clear">> \/ a.args = <<"eu">> \/ a.args = <<"2m">>

Map == INSTANCE MapDesk WITH
    StationSets <- {{Row("eibi:1", "eibi", 12, "am"), Row("fcc:2", "fcc", 40, "fm")},
                    {Row("fcc:2", "fcc", 40, "fm"), Row("fcc:3", "fcc", 2000, "nfm")}},
    Plans <- BandPlans, Tuner <- [lo |-> 10, hi |-> 1000], Asked <- MapAsked, MaxAsks <- 2,
    Tools <- {[tool |-> "stations", query |-> <<"a", "", "b">>, source |-> "-", scope |-> "near"],
              [tool |-> "stations", query |-> None, source |-> "fcc", scope |-> "all"],
              [tool |-> "stations", query |-> <<"">>, source |-> None, scope |-> "view"],
              [tool |-> "refdb", action |-> "status"],
              [tool |-> "refdb", action |-> "clear", source |-> "eibi"],
              [tool |-> "tune", id |-> <<"fcc:3">>],
              [tool |-> "location", at |-> <<"ip">>], [tool |-> "location", at |-> <<"48", "1">>]}
             \cup {[tool |-> "refdb", action |-> "fetch", source |-> s] : s \in {"fcc", "fmlist"}},
    m <- mapM, injected <- mapInjected, call <- mapCall, asks <- mapAsks

ASSUME SuiteAssumption ==
    /\ Settings!RtlAssumption /\ Sync!SyncAssumption /\ Desk!DeskAssumption
    /\ Dumping!LinesAreRead
    /\ Map!LinesOf({<<"a">>, <<"a", "b">>}, {<<"x">>})
    /\ Map!LocatorIsOfThePlace({[lon |-> x, lat |-> y] : x \in {0, 3, 4, 90001, 172799},
                                                       y \in {0, 1, 43200, 86399, 86400}})
    /\ Map!LabelsArePicked({Crowd, SubSeq(Crowd, 1, 2)}, 100) /\ Map!ChartHasEveryBand

-----------------------------------------------------------------------------
Parts == {"vds", "settings", "stream", "sync", "receiver", "play", "scan", "audio", "desk",
          "dump", "output", "map", "lab", "mux", "label"}

SuiteInit ==
    /\ part \in Parts
    /\ Init /\ Vds!Init /\ Rtl!Init /\ Mic!Init /\ Play!Init /\ Scan!Init
    /\ Lab!Init /\ Mux!Init /\ Lbl!Init
    /\ part # "audio" => /\ micDevice = [channels |-> 1, hears |-> Hears({})]
                         /\ ~micBackend.cfg.normal
    /\ part # "lab" => labUi.centre = 1 /\ labUi.setting = "auto"
    /\ part # "mux" => muxAir = Before
    /\ CASE part = "dump" -> Dumping!Init
         [] part = "output" -> Output!Init
         [] OTHER -> sdrD = None /\ sdrQueue = <<>> /\ sdrFrames = 0
    /\ IF part = "map" THEN Map!Init
       ELSE mapM = None /\ mapInjected = <<>> /\ mapCall = None /\ mapAsks = 0
    /\ IF part = "desk" THEN Desk!Init
       ELSE deskS = None /\ deskClock = 0 /\ deskQueue = <<>> /\ deskHeld = FALSE
    /\ IF part = "sync" THEN Sync!Init
       ELSE syncState = None /\ syncNext = 0 /\ syncClean = 0 /\ syncProved = FALSE

SuiteNext ==
    \/ part = "vds" /\ Vds!Next
         /\ UNCHANGED <<part, vars, rtlVars, syncVars, playVars, scanVars, micVars, deskVars,
                        sdrVars, mapVars, labVars, muxVars, lblVars>>
    \/ part = "settings" /\ Settings!Next
         /\ UNCHANGED <<part, vars, vdsVars, syncVars, playVars, scanVars, micVars, deskVars,
                        sdrVars, mapVars, labVars, muxVars, lblVars>>
    \/ part = "stream" /\ Rtl!Next
         /\ UNCHANGED <<part, vars, vdsVars, syncVars, playVars, scanVars, micVars, deskVars,
                        sdrVars, mapVars, labVars, muxVars, lblVars>>
    \/ part = "sync" /\ Sync!Next
         /\ UNCHANGED <<part, vars, vdsVars, rtlVars, playVars, scanVars, micVars, deskVars,
                        sdrVars, mapVars, labVars, muxVars, lblVars>>
    \/ part = "receiver" /\ Next
         /\ UNCHANGED <<part, vdsVars, rtlVars, syncVars, playVars, scanVars, micVars, deskVars,
                        sdrVars, mapVars, labVars, muxVars, lblVars>>
    \/ part = "play" /\ Play!Next
         /\ UNCHANGED <<part, vars, vdsVars, rtlVars, syncVars, scanVars, micVars, deskVars,
                        sdrVars, mapVars, labVars, muxVars, lblVars>>
    \/ part = "scan" /\ Scan!Next
         /\ UNCHANGED <<part, vars, vdsVars, rtlVars, syncVars, playVars, micVars, deskVars,
                        sdrVars, mapVars, labVars, muxVars, lblVars>>
    \/ part = "audio" /\ Mic!Next
         /\ UNCHANGED <<part, vars, vdsVars, rtlVars, syncVars, playVars, scanVars, deskVars,
                        sdrVars, mapVars, labVars, muxVars, lblVars>>
    \/ part = "desk" /\ Desk!Next
         /\ UNCHANGED <<part, vars, vdsVars, rtlVars, syncVars, playVars, scanVars, micVars,
                        sdrVars, mapVars, labVars, muxVars, lblVars>>
    \/ part = "dump" /\ Dumping!Next
         /\ UNCHANGED <<part, vars, vdsVars, rtlVars, syncVars, playVars, scanVars, micVars,
                        deskVars, mapVars, labVars, muxVars, lblVars>>
    \/ part = "output" /\ Output!Next
         /\ UNCHANGED <<part, vars, vdsVars, rtlVars, syncVars, playVars, scanVars, micVars,
                        deskVars, mapVars, labVars, muxVars, lblVars>>
    \/ part = "map" /\ Map!Next
         /\ UNCHANGED <<part, vars, vdsVars, rtlVars, syncVars, playVars, scanVars, micVars,
                        deskVars, sdrVars, labVars, muxVars, lblVars>>
    \/ part = "lab" /\ Lab!Next
         /\ UNCHANGED <<part, vars, vdsVars, rtlVars, syncVars, playVars, scanVars, micVars,
                        deskVars, sdrVars, mapVars, muxVars, lblVars>>
    \/ part = "mux" /\ Mux!Next
         /\ UNCHANGED <<part, vars, vdsVars, rtlVars, syncVars, playVars, scanVars, micVars,
                        deskVars, sdrVars, mapVars, labVars, lblVars>>
    \/ part = "label" /\ Lbl!Next
         /\ UNCHANGED <<part, vars, vdsVars, rtlVars, syncVars, playVars, scanVars, micVars,
                        deskVars, sdrVars, mapVars, labVars, muxVars>>

SuiteSpec ==
    SuiteInit /\ [][SuiteNext]_<<part, vars, vdsVars, rtlVars, syncVars, playVars, scanVars, micVars,
                                 deskVars, sdrVars, mapVars, labVars, muxVars, lblVars>>

-----------------------------------------------------------------------------
\* The properties of the parts that Radio and DabReceiver do not name.

\* DabPlusSync: a clean stream is found, and keeps being found, and a stream
\* once proved is not condemned for its shape.
\* DabDesk: what is selected is in the table, what is said to be gone is, and
\* what is offered is taken.  SdrDesk: what the desk shows is held once it has
\* been sent, what is heard is of the demodulator that is on, and a dump is
\* whole.  MapDesk: what is offered is taken, and the status is the job's.
\* DabMux: a frame of whole FIBs tells the ensemble.
DeskIsTrue ==
    /\ part = "sync" => Sync!CleanStreamIsFound /\ Sync!RealStreamNotCondemned
    /\ part = "desk" => Desk!SelectionIsListed /\ Desk!GoneIsHonest /\ Desk!OfferedIsTaken
    /\ part = "dump" => Dumping!SentIsHeld /\ Dumping!DumpIsWhole /\ Dumping!DeskIsTaken
    /\ part = "output" => Output!SentIsHeld /\ Output!HeardIsNamed /\ Output!DeskIsTaken
    /\ part = "map" => Map!OfferedIsTaken /\ Map!StatusIsOfTheJob
    /\ part = "mux" => Mux!CleanFrameTells
=============================================================================
