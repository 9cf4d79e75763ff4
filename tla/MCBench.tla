------------------------------- MODULE MCBench -------------------------------
(***************************************************************************)
(* The operator's bench: what is tuned, measured, decoded and kept over a  *)
(* restart, each part on an instance of its own.  The initial state        *)
(* chooses which part runs, and only its variables change.                 *)
(***************************************************************************)
EXTENDS AutoState, Integers, Sequences, TLC

CONSTANTS Nothing, Bad,
          DeskTable     \* MeasuresOfDesk, as a constant TLC evaluates once

VARIABLES
    part,                                                   \* the part that runs
    tunV, tunSurvey, tunTold, tunWandered, tunFrames,
    decBus, decWire, decPlan, decHost, decDec, decOut, decSent, decStray,
    urtLine, urtLevels, urtAt, urtLastEnd, urtEvents,
    staIndex, staUi, staRows, staPage, staFile, staJob, staEdits,
    srcSource, srcJob, srcSnapshot, srcOutcome, srcFailures,
    sesS, sesText, sesRested, sesEdits,
    catC, catUi, catAir, catUsed,
    dskD, dskInst, dskSaid, dskPast, dskUsed

tunVars == <<tunV, tunSurvey, tunTold, tunWandered, tunFrames>>
decVars == <<decBus, decWire, decPlan, decHost, decDec, decOut, decSent, decStray>>
urtVars == <<urtLine, urtLevels, urtAt, urtLastEnd, urtEvents>>
staVars == <<staIndex, staUi, staRows, staPage, staFile, staJob, staEdits>>
srcVars == <<srcSource, srcJob, srcSnapshot, srcOutcome, srcFailures>>
sesVars == <<sesS, sesText, sesRested, sesEdits>>
catVars == <<catC, catUi, catAir, catUsed>>
dskVars == <<dskD, dskInst, dskSaid, dskPast, dskUsed>>

-----------------------------------------------------------------------------
\* Two rates, a block on and one off the middle, a target at the edge of
\* what the tuner takes, and a survey of two steps.
Tun == INSTANCE SdrTuning WITH
    Rates <- {64, 128}, LoHz <- 280, HiHz <- 400, Targets <- {300, 330, 400},
    Blocks <- <<300, 340>>, BlockReach <- 8, Spans <- {0, 32}, Widths <- {12}, Plans <- {<<320, 360>>},
    MinPart <- 8, Home <- [centre |-> 320, rate |-> 64, width |-> 12], MaxFrames <- 3,
    Bands <- <<[name |-> 1, lo |-> 304, hi |-> 324], [name |-> 2, lo |-> 300, hi |-> 400],
               [name |-> 1, lo |-> 350, hi |-> 358]>>,
    Grain <- 2, Grains <- <<[below |-> 300, step |-> 1], [below |-> 360, step |-> 4],
                            [below |-> 0, step |-> 20]>>, MinWidth <- 4,
    v <- tunV, survey <- tunSurvey, told <- tunTold, wandered <- tunWandered,
    frames <- tunFrames

\* Words of two bits.
Dec == INSTANCE Decoders WITH
    Width <- 2, MaxEvents <- 4,
    bus <- decBus, wire <- decWire, plan <- decPlan, host <- decHost, dec <- decDec,
    out <- decOut, sent <- decSent, stray <- decStray

\* 12.5 samples to a bit, and senders 2.4 % fast, exact and 2.4 % slow.
Edges == {<<FALSE, FALSE, FALSE>>, <<FALSE, TRUE, FALSE>>, <<TRUE, FALSE, TRUE>>, <<TRUE, TRUE, TRUE>>}
Urt == INSTANCE Uart WITH
    PerBit <- 125, Clocks <- {122, 125, 128}, Phases <- {0, 60}, Bits <- 3,
    Texts <- {<<a, b>> : a \in Edges, b \in Edges}, Gaps <- {0, 12}, Spikes <- {0, 3},
    Wrap <- 100000,
    line <- urtLine, levels <- urtLevels, at <- urtAt, lastEnd <- urtLastEnd,
    events <- urtEvents

\* Four stations in two places, two of them one frequency, on a week of three
\* days of four minutes.
Slot(start, stop, days) == [start |-> start, stop |-> stop, days |-> days]
Sender(freq, id, source, at, sched, service, words) ==
    [freq |-> freq, id |-> id, source |-> source, at |-> at, sched |-> sched,
     service |-> service, words |-> words]
Senders == << Sender(2, 1, "eibi", "p", Slot(3, 1, {0}), "broadcast", {"x"}),
              Sender(2, 2, "fcc", "q", Nothing, "broadcast", {}),
              Sender(5, 1, "fcc", Nothing, Nothing, "other", {"x"}),
              Sender(7, 3, "eibi", "q", Slot(0, 2, {0, 1}), "aviation", {}) >>
Band(lo, hi) == [lo |-> lo, hi |-> hi]
Sta == INSTANCE Stations WITH
    StationSets <- {{}, {Senders[i] : i \in 1..4}, {Senders[2], Senders[3]}},
    Places <- {"p", "q"}, Km <- [pair \in {"p", "q"} \X {"p", "q"} |-> IF pair[1] = pair[2] THEN 0 ELSE 120],
    Views <- {Band(1, 4), Band(2, 9)}, Clocks <- {[day |-> 0, minute |-> 3], [day |-> 1, minute |-> 0]},
    Radii <- {Nothing, 50}, ServiceKm <- [aviation |-> 100, broadcast |-> 150], DefaultKm <- 150,
    Day <- 4, Week <- 3,
    Shipped <- [general |-> <<Band(0, 6), Band(5, 4), Band(1, 3), Band(2, 4), Band(3, 5)>>, broken |-> Bad],
    User <- [general |-> Bad, mine |-> <<Band(4, 7)>>], Bad <- Bad, None <- Nothing, MaxEdits <- 2,
    index <- staIndex, ui <- staUi, rows <- staRows, page <- staPage, file <- staFile,
    job <- staJob, edits <- staEdits

\* Documents of up to two or three rows, good ones, doubles and bad ones.
Upto(S, n) == UNION {[1..k -> S] : k \in 0..n}
Item(item, freq) == [item |-> item, freq |-> freq]
OnShortWave(khz, start, stop, days, name) ==
    [header |-> khz = Bad /\ start = Bad, khz |-> khz, start |-> start, stop |-> stop, days |-> days,
     name |-> name, remark |-> "am"]
Licence(call, freq, at, facility) ==
    [call |-> call, freq |-> freq, lat |-> at, lon |-> at, facility |-> facility, service |-> "FM", ns |-> "N"]
Tower(airport, mhz, khz, id) == [airport |-> airport, mhz |-> mhz, khz |-> khz, id |-> id]
Listed(freq) == [header |-> "freq", freq |-> freq, id |-> Nothing, name |-> "n", mode |-> "wfm"]
Src == INSTANCE RefSources WITH
    Documents <- [wikidata |-> Upto({Item(1, 900), Item(1, 99000), Item(2, 900), Item(Bad, Bad)}, 3),
                  eibi |-> Upto({OnShortWave(Bad, Bad, Bad, Bad, Bad), OnShortWave(6000, 2300, 2400, {1}, "n"),
                                 OnShortWave(6000, 2400, 100, {1}, "n"), OnShortWave(Bad, 0, 0, Bad, Bad)}, 2),
                  fcc |-> Upto({Licence("K", 99000, 1, Nothing), Licence("K", 99000, 1, 7),
                                Licence("L", 98000, 1, 8), Licence(Bad, Bad, Bad, Nothing)}, 2),
                  ourairports |-> Upto({Tower("a", 120, Bad, 1), Tower("a", Bad, 0, 2), Tower("b", 120, Bad, 3)}, 2),
                  fmlist |-> Upto({Listed(99), Listed(99000), Listed(Bad)}, 2)],
    Requests <- [wikidata |-> 1, eibi |-> 1, fcc |-> 2, ourairports |-> 1, fmlist |-> 1],
    Airports <- {"a"}, Bad <- Bad, None <- Nothing,
    source <- srcSource, job <- srcJob, snapshot <- srcSnapshot, outcome <- srcOutcome,
    failures <- srcFailures

\* Three rates of which the signal outruns two, five windows of the timeline,
\* and a record of 1024 parts: one script line of every kind.
Say(verb, words) == [verb |-> verb, args |-> words]
W(name) == [word |-> name, n |-> 0]
N(n) == [word |-> "", n |-> n]
On == <<W("on")>>
Off == <<W("off")>>
Ses == INSTANCE ScopeSession WITH
    Rates <- <<2, 16, 64>>, Volts <- <<1, 2, 5>>, RecordLen <- 64, SpanLadder <- <<1, 2, 5, 10, 20>>,
    Whole <- 1024, HalfWhole <- 512, MinSpan <- 128, MinBudget <- 4, Freqs <- {Nothing, 1, 3},
    Numbers <- {0, 1, 512},
    Scripts <-
       {Say("rate", <<N(2)>>), Say("rate", <<N(3)>>), Say("hview", <<N(128), N(512)>>),
        Say("hview", <<N(512), N(2048)>>), Say("zoomwin", On), Say("deep", On), Say("deep", Off),
        Say("deepspan", <<N(64)>>), Say("deepspan", <<N(0)>>), Say("hzoom", <<W("in")>>),
        Say("hzoom", <<W("out")>>), Say("zoom", <<W("h"), W("in")>>), Say("zoom", <<W("v"), W("out")>>),
        Say("acq", <<W("peak")>>), Say("acq", <<W("avg16")>>), Say("autopeak", Off), Say("math", Off),
        Say("math", <<W("diff")>>), Say("fft", On), Say("waterfall", On), Say("waterfall", Off),
        Say("viz", <<W("terrain")>>), Say("home", <<>>), Say("pan", <<W("left")>>), Say("pan", <<W("up")>>),
        Say("crt", On), Say("crt", <<N(1)>>), Say("cursor", <<W("amp"), W("on")>>),
        Say("trigpulse", <<N(1), W("neg"), W("lt"), N(2), W("normal")>>),
        Say("trigvideo", <<W("odd"), N(3), W("single")>>), Say("scrollback", <<N(1)>>),
        Say("timebase", <<N(3)>>), Say("select", <<N(1)>>)},
    None <- Nothing, MaxEdits <- 2,
    s <- sesS, text <- sesText, rested <- sesRested, edits <- sesEdits

\* A receiver that hears nothing, and one whose nearest track is narrow and
\* not on the tuned frequency; a document that stands on its own, one whose
\* observation is of no signal, and one with an id twice.
Heard(id, centre, half, power) == [id |-> id, centre |-> centre, half |-> half, power |-> power]
Verb(verb) ==
    [verb |-> verb, id |-> Nothing, to |-> Nothing, sub |-> "", text |-> <<>>, ids |-> <<>>, on |-> FALSE]
Kept(kind) == [kind |-> kind, of |-> Nothing, tx |-> Nothing, name |-> <<>>, aliases |-> {}, tags |-> {},
               pinned |-> FALSE, centre |-> 10, half |-> 1, from |-> <<>>, at |-> 0]
Given(name, entities) == [name |-> name, format |-> TRUE, schema |-> 1, entities |-> entities]
Kin(id, e) == [id |-> id, e |-> e]
Taken(a) == a.verb \notin {"alias", "tag", "untag"} /\ (a.verb = "delete" => a.on)
Cat == INSTANCE CatalogApp WITH
    Airs <- {[tracks |-> <<>>, tuned |-> 12, auto |-> FALSE, surveyed |-> FALSE],
             [tracks |-> <<Heard(7, 10, 1, 3), Heard(8, 16, 5, 9)>>, tuned |-> 12, auto |-> TRUE,
              surveyed |-> TRUE]},
    ChannelHalf <- 2, Names <- {<<"b">>}, Schema <- 1, Rows <- 2, Asked <- Taken,
    Documents <- {Given("whole", <<Kin(4, [Kept("observation") EXCEPT !.of = 2, !.tx = 3]),
                                   Kin(3, [Kept("transmission") EXCEPT !.of = 2]),
                                   Kin(2, [Kept("signal") EXCEPT !.of = 1, !.name = <<"b">>, !.pinned = TRUE]),
                                   Kin(1, Kept("source"))>>),
                  Given("torn", <<Kin(1, Kept("signal")), Kin(4, [Kept("observation") EXCEPT !.of = 2])>>),
                  Given("twice", <<Kin(1, Kept("signal")), Kin(1, Kept("source"))>>)},
    Scripts <- {[Verb("import") EXCEPT !.sub = "whole"], [Verb("merge") EXCEPT !.id = 1, !.to = 2],
                [Verb("bulk") EXCEPT !.sub = "tag", !.ids = <<1, 2>>, !.text = <<"b">>],
                [Verb("bulk") EXCEPT !.sub = "delete", !.ids = <<2, 1>>, !.text = <<"cascade">>]},
    MaxActs <- 3, MaxFaults <- 1, None <- Nothing,
    c <- catC, ui <- catUi, air <- catAir, used <- catUsed

\* Two traces: a pulse between its own levels, and a swing that peak detect
\* records; the measurements of both and of every math trace made of them.
DeskTraces == {<<0, 40, 0, 0, 0, 0>>, <<-60, 60, -60, 60, -60, 60>>}
DeskScales == {1, 2, 5, 10, 20, 50, 100, 200, 500, 1000, 2000, 5000, 10000, 20000, 50000}
Raw == INSTANCE ScopeDesk WITH
    Traces <- DeskTraces, Measures <- Nothing, Peaks <- {}, Grain <- 12, Scales <- DeskScales,
    HistoryLen <- 2, ErrorShow <- 1, MathOps <- {}, Kinds <- {}, MaxTime <- 0, MaxUpdates <- 0,
    MaxEdits <- 0, MaxSteps <- 0, None <- Nothing,
    d <- Nothing, inst <- Nothing, said <- Nothing, past <- Nothing, used <- Nothing
MadeOf == DeskTraces \cup {Raw!Quantized(Raw!Compute(a, b, op), scale) :
                              a \in DeskTraces, b \in DeskTraces, op \in Raw!Ops, scale \in DeskScales}
MeasuresOfDesk == [plain |-> [t \in MadeOf |-> Raw!Measured(t)], peak |-> [t \in MadeOf |-> Raw!Envelope(t)]]
Dsk == INSTANCE ScopeDesk WITH
    Traces <- DeskTraces, Measures <- MeasuresOfDesk, Peaks <- {<<-60, 60, -60, 60, -60, 60>>},
    Grain <- 12, Scales <- DeskScales, HistoryLen <- 2, ErrorShow <- 1, MathOps <- {"diff"},
    Kinds <- {"slope"}, MaxTime <- 3, MaxUpdates <- 4, MaxEdits <- 2, MaxSteps <- 4,
    None <- Nothing,
    d <- dskD, inst <- dskInst, said <- dskSaid, past <- dskPast, used <- dskUsed

\* What holds of the tables and the conversions alone.
SchedulesAndPlans == Sta!SchedulesAddUp /\ Sta!PlansAreRight /\ Sta!BlocksAreNamed
Conversions == Src!CsvRoundTrips /\ Src!DatesAreRight /\ Src!OrderChangesNothing

\* The digitizer on every capture of up to five samples of five levels, and a
\* session saved after any one line.
ASSUME BenchAssumption ==
    /\ Tun!TuningAssumption /\ Tun!MinimapIsTaken /\ Tun!TicksAreFew
    /\ Dec!DecodersAssumption /\ Urt!UartAssumption
    /\ Sta!StationsAssumption
    /\ Ses!LinesAreRestored
    /\ DeskTable = MeasuresOfDesk /\ Dsk!ScopeDeskAssumption /\ Dsk!References /\ Dsk!MathFits
    /\ Dsk!MeasuresMakeSense(5, {-128, -4, 0, 5, 127}) /\ Dsk!LayoutIsSteady
    /\ \A lo \in {-1, 0}, hi \in {0, 1} : \A raw \in UNION {[1..n -> -2..2] : n \in 1..5} :
          Urt!Digitized(raw, lo, hi) = Urt!Crossed(raw, lo, hi)

-----------------------------------------------------------------------------
SuiteInit ==
    /\ part \in {"autosave", "tuning", "decode", "uart", "stations", "sources",
                "session", "catalog", "desk"}
    /\ Init /\ (part # "autosave" => file = NoText)
    /\ IF part = "tuning" THEN Tun!Init
       ELSE /\ tunV = Nothing /\ tunSurvey = Nothing /\ tunTold = Nothing
            /\ tunWandered = Nothing /\ tunFrames = 0
    /\ IF part = "decode" THEN Dec!Init
       ELSE /\ decBus = Nothing /\ decWire = Nothing /\ decPlan = Nothing /\ decHost = Nothing
            /\ decDec = Nothing /\ decOut = Nothing /\ decSent = Nothing /\ decStray = Nothing
    /\ IF part = "uart" THEN Urt!Init
       ELSE /\ urtLine = Nothing /\ urtLevels = Nothing /\ urtAt = 0 /\ urtLastEnd = Nothing
            /\ urtEvents = Nothing
    /\ IF part = "stations" THEN Sta!Init
       ELSE /\ staIndex = Nothing /\ staUi = Nothing /\ staRows = Nothing /\ staPage = Nothing
            /\ staFile = Nothing /\ staJob = Nothing /\ staEdits = 0
    /\ IF part = "sources" THEN Src!Init
       ELSE /\ srcSource = Nothing /\ srcJob = Nothing /\ srcSnapshot = Nothing
            /\ srcOutcome = Nothing /\ srcFailures = 0
    /\ IF part = "session" THEN Ses!Init
       ELSE /\ sesS = Nothing /\ sesText = Nothing /\ sesRested = Nothing /\ sesEdits = 0
    /\ IF part = "catalog" THEN Cat!Init
       ELSE /\ catC = Nothing /\ catUi = Nothing /\ catAir = Nothing /\ catUsed = Nothing
    /\ IF part = "desk" THEN Dsk!Init
       ELSE /\ dskD = Nothing /\ dskInst = Nothing /\ dskSaid = Nothing /\ dskPast = Nothing
            /\ dskUsed = Nothing

SuiteNext ==
    \/ part = "autosave" /\ Next
       /\ UNCHANGED <<part, tunVars, decVars, urtVars, staVars, srcVars, sesVars, catVars, dskVars>>
    \/ part = "tuning" /\ Tun!Next
       /\ UNCHANGED <<part, vars, decVars, urtVars, staVars, srcVars, sesVars, catVars, dskVars>>
    \/ part = "decode" /\ Dec!Next
       /\ UNCHANGED <<part, vars, tunVars, urtVars, staVars, srcVars, sesVars, catVars, dskVars>>
    \/ part = "uart" /\ Urt!Next
       /\ UNCHANGED <<part, vars, tunVars, decVars, staVars, srcVars, sesVars, catVars, dskVars>>
    \/ part = "stations" /\ Sta!Next
       /\ UNCHANGED <<part, vars, tunVars, decVars, urtVars, srcVars, sesVars, catVars, dskVars>>
    \/ part = "sources" /\ Src!Next
       /\ UNCHANGED <<part, vars, tunVars, decVars, urtVars, staVars, sesVars, catVars, dskVars>>
    \/ part = "session" /\ Ses!Next
       /\ UNCHANGED <<part, vars, tunVars, decVars, urtVars, staVars, srcVars, catVars, dskVars>>
    \/ part = "catalog" /\ Cat!Next
       /\ UNCHANGED <<part, vars, tunVars, decVars, urtVars, staVars, srcVars, sesVars, dskVars>>
    \/ part = "desk" /\ Dsk!Next
       /\ UNCHANGED <<part, vars, tunVars, decVars, urtVars, staVars, srcVars, sesVars, catVars>>

SuiteVars ==
    <<part, vars, tunVars, decVars, urtVars, staVars, srcVars, sesVars, catVars, dskVars>>
SuiteSpec == SuiteInit /\ [][SuiteNext]_SuiteVars

-----------------------------------------------------------------------------
\* The properties of the parts; those of AutoState are taken by name.

\* SdrTuning: the view is in the band, the table of this window, the
\* hardware told of it, no zoom drops the channel out of the band, and a
\* restart restores the window, the channel and the view.
\* ScopeSession: a session's text, replayed at a launch or into a window in
\* use, makes the settings it was saved of, and a second restart changes
\* nothing more; the mode acquired is the one chosen or auto peak's; the
\* window shown lies in the record.  CatalogApp: what the Catalog window
\* offers is read back from its line, and done; the listing kept is the
\* listing of the catalog as it is.  ScopeDesk: every control has its change
\* sent; the statistics and the verdicts are those of every record since they
\* were reset, and the picture is of the record measured.  Stations: a frame
\* draws what its filters ask for, and the location drawn from is the one on
\* disk.
WindowIsTrue ==
    /\ part = "tuning" => /\ Tun!ViewInBand /\ Tun!TableIsOfWindow
                         /\ Tun!HardwareIsTold /\ Tun!ZoomKeepsTheChannel
                         /\ Tun!RestoredAsLeft /\ Tun!TunedIsSeen /\ Tun!OfferedIsTaken
                         /\ Tun!ArrowLeadsBack /\ Tun!NotchIsMarked /\ Tun!FitIsTheBandClicked
    /\ part = "session" => /\ Ses!SavedIsRestored /\ Ses!LoadIsLaunch /\ Ses!SettlesOnce
                          /\ Ses!AcqFollows /\ Ses!ViewIsInRecord
    /\ part = "catalog" => Cat!OfferedIsTaken /\ Cat!ListingIsTrue
    /\ part = "desk" => /\ Dsk!EveryEditIsSent /\ Dsk!StatisticsAddUp
                       /\ Dsk!JudgedByTheMask /\ Dsk!PictureIsMeasured
    /\ part = "stations" => Sta!PageIsCurrent /\ Sta!OverlayIsInView /\ Sta!LocationIsKept
    /\ SchedulesAndPlans
\* Decoders, Uart: what is decoded is what was meant, by whichever clock it
\* is sent and wherever the capture begins.
\* RefSources: every row of a document is accounted for, a key names one
\* frequency, and a job gives up at the second failure.  CatalogApp: an
\* import is its document, whole and apart, and a batch is its ops one by one.
DecodesWhatWasSent ==
    /\ part = "decode" => Dec!DecodesWhatWasSent
    /\ part = "uart" => Urt!ReadsEveryWord
    /\ part = "catalog" => Cat!ImportIsFaithful /\ Cat!BulkIsALoop
    /\ part = "sources" => Src!KeysName /\ Src!ReportAddsUp /\ Src!GivesUpAfterTwo
    /\ Conversions
=============================================================================
