------------------------------- MODULE MapDesk -------------------------------
(***************************************************************************)
(* The desk of the reference data: the verbs of the band map, the          *)
(* location, the sources and the stations, what the RF map, the station    *)
(* overlay and the Stations window offer, and the four MCP tools.          *)
(*                                                                         *)
(* A verb is the words it starts with, its arguments the words after them, *)
(* case apart: a text is the words between single blanks, so that "" stands *)
(* where two blanks meet.  RefStore has the jobs' thread and the snapshots, *)
(* Stations the index and its queries, SdrTuning the window of a tune.     *)
(***************************************************************************)
EXTENDS Integers, Sequences, FiniteSets, SequencesExt, FiniteSetsExt, TLC

CONSTANTS
    StationSets,    \* what the store may hold: sets of [key, source, freq, mod, service]
    Plans,          \* stem -> its bands, [name, lo, hi]
    Tuner,          \* [lo, hi]
    Asked(_),       \* which of the offered actions are taken up
    Tools,          \* calls of the MCP tools
    MaxAsks,        \* bound: clicks and calls
    None

Sources    == {"wikidata", "eibi", "ourairports", "fcc", "fmlist"}
Services   == {"broadcast", "aviation", "marine", "amateur", "utility", "other"}
Modulations == {"am", "fm", "wfm", "nfm", "usb", "lsb", "cw", "dab", "dvb-t", "atsc", "digital", "?"}
Scopes     == {"view", "near", "all"}
Sorts      == {"freq", "distance"}
NeedLocation == {"wikidata", "fcc"}

VARIABLES
    m,         \* RefMap, and the cursor, the demodulator and the status line
    injected,  \* actions of the frame
    call,      \* the MCP call: requests left, what it got, whether it failed
    asks

vars == <<m, injected, call, asks>>

-----------------------------------------------------------------------------
(* Verbs and their lines.                                                  *)
Act(verb, args) == [verb |-> verb, args |-> args]
Switched == {<<"bandmap", "strip">>, <<"bandmap", "mini">>, <<"bandmap", "window">>,
             <<"stations", "window">>, <<"stations", "overlay">>, <<"stations", "onair">>}
\* Values an argument may have, where the verb lists them.
Listed ==
    [v \in Switched |-> {"on", "off"}] @@ <<"refdb", "clear">> :> Sources
      @@ <<"stations", "filter", "source">> :> Sources \cup {"-"}
      @@ <<"stations", "filter", "service">> :> Services \cup {"-"}
      @@ <<"stations", "filter", "mod">> :> Modulations \cup {"-"}
      @@ <<"stations", "scope">> :> Scopes @@ <<"stations", "sort">> :> Sorts
\* The verbs that take the rest of the line, and those that take a word.
Rest == {<<"bandmap", "goto">>, <<"stations", "find">>, <<"refdb", "import">>}
Word == {<<"bandplan">>, <<"stations", "radius">>, <<"stations", "tune">>,
         <<"stations", "catalog">>, <<"location">>}
Verbs == DOMAIN Listed \cup Rest \cup Word \cup {<<"refdb", "fetch">>}

Words(text) == SelectSeq(text, LAMBDA w : w # "")

\* Display, as the words parse will find.
Line(a) == a.verb \o Words(IF a.verb = <<"stations", "find">> /\ a.args = <<>> THEN <<"-">> ELSE a.args)

\* parse: None when the line is refused.
Number(w) == w \in {"1", "25", "48", "95", "150"}
Parsed(line) ==
    LET of == {v \in Verbs : Len(v) <= Len(line) /\ SubSeq(line, 1, Len(v)) = v}
        v == CHOOSE v \in of : \A u \in of : Len(u) <= Len(v)
        args == SubSeq(line, Len(v) + 1, Len(line))
        first == SubSeq(args, 1, Min({1, Len(args)}))
    IN CASE of = {} -> None
         [] of # {} /\ args = <<>> -> None
         [] of # {} /\ args # <<>> /\ v \in DOMAIN Listed ->
              IF args[1] \in Listed[v] THEN Act(v, first) ELSE None
         [] of # {} /\ args # <<>> /\ v = <<"stations", "find">> ->
              Act(v, IF args = <<"-">> THEN <<>> ELSE args)
         [] of # {} /\ args # <<>> /\ v = <<"refdb", "import">> ->
              IF args[1] \in Sources /\ Len(args) > 1 THEN Act(v, args) ELSE None
         [] of # {} /\ args # <<>> /\ v = <<"refdb", "fetch">> ->
              IF args[1] \in Sources /\ (Len(args) > 1 => Number(args[2]))
              THEN Act(v, SubSeq(args, 1, Min({2, Len(args)}))) ELSE None
         [] of # {} /\ args # <<>> /\ v = <<"location">> ->
              Act(v, IF Len(args) > 1 /\ Number(args[1]) /\ Number(args[2])
                     THEN SubSeq(args, 1, 2) ELSE first)
         [] of # {} /\ args # <<>> /\ v = <<"stations", "radius">> ->
              IF args[1] = "auto" \/ Number(args[1]) THEN Act(v, first) ELSE None
         [] OTHER -> IF v = <<"bandmap", "goto">> THEN Act(v, args) ELSE Act(v, first)

\* Every shape of action, over names and paths.
Actions(texts, names) ==
    {Act(v, <<x>>) : v \in DOMAIN Listed, x \in UNION {Listed[v] : v \in DOMAIN Listed}}
    \cup {Act(v, t) : v \in {<<"bandmap", "goto">>, <<"stations", "find">>}, t \in texts}
    \cup {Act(<<"refdb", "import">>, <<"eibi">> \o t) : t \in texts}
    \cup {Act(<<"refdb", "fetch">>, a) : a \in {<<"fcc">>, <<"fcc", "150">>}}
    \cup {Act(<<"location">>, a) : a \in {<<"48", "1">>, <<"io91">>, <<"ip">>, <<"clear">>}}
    \cup {Act(<<"stations", "radius">>, <<r>>) : r \in {"auto", "25"}}
    \cup {Act(v, n) : v \in {<<"bandplan">>, <<"stations", "tune">>, <<"stations", "catalog">>},
                      n \in names}
    \cup {Act(<<"stations", "find">>, <<>>)}
Proper(a) == a.verb \in DOMAIN Listed => a.args[1] \in Listed[a.verb]
LinesOf(texts, names) == \A a \in {b \in Actions(texts, names) : Proper(b)} : Parsed(Line(a)) = a

\* Modulation::demod: the demodulator that fits.
Demod(mod) == CASE mod = "am" -> "am" [] mod \in {"wfm", "fm"} -> "wfm" [] mod = "nfm" -> "nfm"
                [] OTHER -> None

-----------------------------------------------------------------------------
(* Places and locators, in the 480th of a degree from the south-west       *)
(* corner: the smallest cell is 4 by 2.                                    *)
LonSteps == <<9600, 960, 40, 4>>
LatSteps == <<4800, 480, 20, 2>>
Counts   == <<18, 10, 24, 10>>
World    == [lon |-> 172800, lat |-> 86400]

\* A coordinate's digits, each within its alphabet.
Digits(at, steps, pairs) ==
    FoldLeft(LAMBDA acc, i :
                LET x == Min({(at - acc.of) \div steps[i], Counts[i] - 1})
                IN [of |-> acc.of + x * steps[i], digits |-> Append(acc.digits, x)],
             [of |-> 0, digits |-> <<>>], [i \in 1..pairs |-> i]).digits

ToLocator(p, pairs) ==
    [lon |-> Digits(p.lon % World.lon, LonSteps, pairs),
     lat |-> Digits(Max({0, Min({p.lat, World.lat})}), LatSteps, pairs)]

\* The centre of its cell.
Centre(digits, steps) ==
    FoldLeft(LAMBDA sum, i : sum + digits[i] * steps[i], steps[Len(digits)] \div 2,
             [i \in DOMAIN digits |-> i])
FromLocator(l) == [lon |-> Centre(l.lon, LonSteps), lat |-> Centre(l.lat, LatSteps)]

\* The place is in the cell its locator names, whose centre names the cell.
Near(a, b, step) == 2 * (a - b) <= step /\ 2 * (b - a) <= step
LocatorIsOfThePlace(places) ==
    \A p \in places, pairs \in 2..4 :
       LET l == ToLocator(p, pairs)
           c == FromLocator(l)
       IN Near(c.lon, p.lon, LonSteps[pairs]) /\ Near(c.lat, p.lat, LatSteps[pairs])
            /\ ToLocator(c, pairs) = l

\* "A point on the outer edge (lon 180, lat 90) folds into the last cell"
\* (geo.rs:101): violated by the longitude, which wraps to the first.
EdgeIsTheLastCell ==
    LET l == ToLocator(World, 2) IN l.lon = <<17, 9>> /\ l.lat = <<17, 9>>

-----------------------------------------------------------------------------
(* The station overlay: labels [lo, hi] in rows above the ticks, row 0.    *)
Rows == 3
TickHalf == 5

\* draw, of stations [x, w] nearest first, on a spectrum of a width: where a
\* click of each is taken.
LabelAt(s, width) ==
    LET left == Max({1, Min({s.x - s.w \div 2, Max({width - s.w - 1, 0})})}) IN [lo |-> left, hi |-> left + s.w]
Overlaps(a, b) == a.row = b.row /\ a.lo <= b.hi /\ b.lo <= a.hi
Drawn(stations, width) ==
    FoldLeft(LAMBDA hits, s :
                LET at == LabelAt(s, width)
                    free == {row \in 1..Rows : \A k \in DOMAIN hits :
                               ~Overlaps(hits[k], [row |-> row, lo |-> at.lo, hi |-> at.hi])}
                IN Append(hits, IF free = {} THEN [row |-> 0, lo |-> s.x - TickHalf, hi |-> s.x + TickHalf]
                                ELSE [row |-> Min(free), lo |-> at.lo, hi |-> at.hi]),
             <<>>, stations)
\* pointer: the first that contains the click.
Under(hits, x, row) ==
    LET at == {k \in DOMAIN hits : hits[k].row = row /\ hits[k].lo <= x /\ x <= hits[k].hi}
    IN IF at = {} THEN None ELSE Min(at)

\* A click on a label takes its station.
LabelsArePicked(layouts, width) ==
    \A stations \in layouts :
       LET hits == Drawn(stations, width)
       IN \A k \in DOMAIN hits : hits[k].row # 0 =>
             \A x \in hits[k].lo..hits[k].hi : Under(hits, x, hits[k].row) = k

\* "A station under the pointer wins" (sdr_view.rs:463): violated by the
\* tick of a station that has a label.
StationWins(layouts, width) ==
    \A stations \in layouts : \A k \in DOMAIN stations :
       Under(Drawn(stations, width), stations[k].x, 0) # None
\* The label's place is clamped between bounds in order: violated by a label
\* wider than the spectrum.
LabelFits(layouts, width) ==
    \A stations \in layouts : \A k \in DOMAIN stations : 1 <= Max({width - stations[k].w - 1, 0})

-----------------------------------------------------------------------------
(* The RF map: a row per decade of the tuner's range, bands in lanes.      *)
MaxLanes == 4
Decades == {10^k : k \in {j \in 0..8 : 10^(j + 1) > Tuner.lo /\ 10^j < Tuner.hi}}
Wide(b) == b.hi - b.lo
\* The lanes of a row's bands, widest first; bands of one width keep the
\* plan's order.
Lanes(bands) ==
    LET first(b) == CHOOSE i \in DOMAIN bands : bands[i] = b
    IN FoldLeft(LAMBDA lanes, b :
               LET free == {k \in DOMAIN lanes : \A o \in lanes[k] : b.hi <= o.lo \/ b.lo >= o.hi}
               IN IF free = {} THEN Append(lanes, {b}) ELSE [lanes EXCEPT ![Min(free)] = @ \cup {b}],
             <<>>, SortSeq(bands, LAMBDA a, b : Wide(a) > Wide(b) \/ (Wide(a) = Wide(b) /\ first(a) < first(b))))
Chart(plan, dec) == Lanes(SelectSeq(plan, LAMBDA b : b.lo <= 10 * dec /\ b.hi >= dec))

\* The narrowest band under a click, the lanes past the last drawn over it.
BandUnder(chart, hz, lane) ==
    LET at == UNION {{b \in chart[k] : b.lo <= hz /\ hz <= b.hi} :
                        k \in {k \in DOMAIN chart : Min({k, MaxLanes}) = lane}}
    IN IF at = {} THEN None ELSE CHOOSE b \in at : \A o \in at : Wide(b) <= Wide(o)

\* Every band the tuner reaches is in a row, and a click in it takes it
\* unless a narrower one lies over it.
ChartHasEveryBand ==
    \A stem \in DOMAIN Plans : \A i \in DOMAIN Plans[stem] :
       LET b == Plans[stem][i]
       IN b.lo <= Tuner.hi /\ b.hi >= Tuner.lo =>
            \E dec \in Decades : \E lane \in DOMAIN Chart(Plans[stem], dec) :
               LET chart == Chart(Plans[stem], dec)
               IN /\ b \in chart[lane]
                  /\ \A hz \in {b.lo + 1, (b.lo + b.hi) \div 2, b.hi - 1} :
                        LET under == BandUnder(chart, hz, Min({lane, MaxLanes}))
                        IN under = b \/ (lane >= MaxLanes /\ Wide(under) <= Wide(b))

-----------------------------------------------------------------------------
(* apply.                                                                  *)
StationOf(x, key) == {s \in x.stations : s.key = key}
BandsNamed(x, name) == {i \in DOMAIN Plans[x.plan] : Plans[x.plan][i].name = name}
Away(x, b) == LET d == (b.lo + b.hi) \div 2 - x.tuned IN IF d < 0 THEN -d ELSE d
Middle(x, name) ==
    LET i == CHOOSE i \in BandsNamed(x, name) :
               \A j \in BandsNamed(x, name) : Away(x, Plans[x.plan][i]) <= Away(x, Plans[x.plan][j])
    IN (Plans[x.plan][i].lo + Plans[x.plan][i].hi) \div 2
Reached(hz) == Tuner.lo <= hz /\ hz <= Tuner.hi

Refused(x, a) ==
    CASE a.verb = <<"bandplan">> -> a.args[1] \notin DOMAIN Plans
      [] a.verb = <<"bandmap", "goto">> ->
           BandsNamed(x, a.args) = {} \/ ~Reached(Middle(x, a.args))
      [] a.verb = <<"location">> /\ a.args = <<"ip">> -> x.job # None
      [] a.verb = <<"location">> /\ Len(a.args) = 2 -> a.args[1] = "95"
      [] a.verb = <<"location">> /\ Len(a.args) = 1 -> a.args[1] \notin {"io91", "clear", "ip"}
      [] a.verb = <<"refdb", "fetch">> ->
           x.job # None \/ (a.args[1] \in NeedLocation /\ x.location = None)
      [] a.verb = <<"refdb", "import">> -> x.job # None
      [] a.verb \in {<<"stations", "tune">>, <<"stations", "catalog">>} ->
           StationOf(x, a.args) = {}
      [] OTHER -> FALSE

\* A station's tune runs two verbs of the SDR, of which the first may be
\* refused, and then names both.
TuneStation(x, s) ==
    [x EXCEPT !.selected = s.key,
              !.tuned = IF Reached(s.freq) THEN s.freq ELSE @,
              !.demod = IF Demod(s.mod) = None THEN @ ELSE Demod(s.mod),
              !.line = [ok |-> TRUE, tuned |-> s.freq]]

Plain == [ok |-> TRUE, tuned |-> None]
Error == [ok |-> FALSE, tuned |-> None]
Started(x, what, src) ==
    [x EXCEPT !.job = [what |-> what, src |-> src], !.status = [what |-> "running", src |-> src]]
Located(x, place) == [x EXCEPT !.location = place, !.status = [what |-> "located", src |-> None]]

Taken(x, a) ==
    LET v == a.verb
        arg == IF a.args = <<>> THEN None ELSE a.args[1]
    IN CASE v = <<"bandplan">> -> [x EXCEPT !.plan = arg]
         [] v = <<"bandmap", "goto">> -> [x EXCEPT !.tuned = Middle(x, a.args)]
         [] v = <<"location">> /\ arg = "ip" -> Started(x, "locate", None)
         [] v = <<"location">> /\ arg = "clear" ->
              [x EXCEPT !.location = None, !.status = [what |-> "cleared", src |-> None], !.line = Plain]
         [] v = <<"location">> /\ arg \notin {"ip", "clear"} -> Located(x, a.args)
         [] v = <<"refdb", "fetch">> -> [Started(x, "fetch", arg) EXCEPT !.line = Plain]
         [] v = <<"refdb", "import">> -> [Started(x, "import", arg) EXCEPT !.line = Plain]
         [] v = <<"refdb", "clear">> ->
              [x EXCEPT !.stations = {s \in @ : s.source # arg}, !.line = Plain,
                        !.status = [what |-> "cleared", src |-> arg]]
         [] v = <<"stations", "find">> -> [x EXCEPT !.find = a.args]
         [] v = <<"stations", "filter", "source">> -> [x EXCEPT !.source = arg]
         [] v = <<"stations", "scope">> -> [x EXCEPT !.scope = arg]
         [] v = <<"stations", "tune">> -> TuneStation(x, CHOOSE s \in x.stations : s.key = a.args)
         [] v = <<"stations", "catalog">> ->
              [x EXCEPT !.copies = @ \cup StationOf(x, a.args), !.selected = a.args, !.line = Plain,
                        !.status = [what |-> "copied", src |-> None]]
         [] OTHER -> x   \* switches, the radius, the other filters, the order: kept as told

\* run: an error goes to the status line.
Applied(x, a) == IF Refused(x, a) THEN [x EXCEPT !.line = Error] ELSE Taken(x, a)

-----------------------------------------------------------------------------
(* What the windows offer.                                                 *)
OfferMap(x) ==
    {Act(<<"bandplan">>, <<stem>>) : stem \in DOMAIN Plans}
    \cup {Act(<<"bandmap", "goto">>, Plans[x.plan][i].name) : i \in DOMAIN Plans[x.plan]}

OfferFilters ==
    {Act(<<"stations", "find">>, <<>>)}
    \cup {Act(<<"stations", "filter", f>>, <<v>>) :
            f \in {"source"}, v \in Listed[<<"stations", "filter", "source">>]}
    \cup {Act(<<"stations", "filter", "service">>, <<v>>) :
            v \in Listed[<<"stations", "filter", "service">>]}
    \cup {Act(<<"stations", "filter", "mod">>, <<v>>) :
            v \in Listed[<<"stations", "filter", "mod">>] \ {"atsc"}}
    \cup {Act(<<"stations", "onair">>, <<v>>) : v \in {"on", "off"}}
    \cup {Act(<<"stations", "scope">>, <<v>>) : v \in Scopes}
    \cup {Act(<<"stations", "sort">>, <<v>>) : v \in Sorts}
OfferRows(x) ==
    {Act(v, s.key) : v \in {<<"stations", "tune">>, <<"stations", "catalog">>}, s \in x.stations}

OfferSources(x) ==
    IF x.job # None THEN {}
    ELSE {Act(<<"refdb", "fetch">>, <<src>>) :
             src \in IF x.location = None THEN Sources \ NeedLocation ELSE Sources}
         \cup {Act(<<"refdb", "clear">>, <<s.source>>) : s \in x.stations}
         \cup {Act(<<"refdb", "import">>, <<src, "file">>) : src \in Sources}

\* Set, Clear, the near-me radius, and Look up behind its dialog.
OfferLocation ==
    {Act(<<"location">>, a) : a \in {<<"48", "1">>, <<"io91">>, <<"clear">>, <<"ip">>}}
    \cup {Act(<<"stations", "radius">>, <<r>>) : r \in {"auto", "25", "150"}}

Offers(x) == OfferMap(x) \cup OfferFilters \cup OfferRows(x) \cup OfferSources(x) \cup OfferLocation

-----------------------------------------------------------------------------
(* The MCP tools: a call is its lines, and what it reads at the end.       *)
Ask(line) == [line |-> line, waits |-> FALSE]
Get == [line |-> None, waits |-> FALSE]

StationsLines(p) ==
    (IF p.query = None THEN <<>> ELSE <<Ask(<<"stations", "find">> \o Words(p.query))>>)
      \o (IF p.source = None THEN <<>> ELSE <<Ask(<<"stations", "filter", "source", p.source>>)>>)
      \o <<Ask(<<"stations", "scope", p.scope>>), Get>>
RefdbLines(p) ==
    CASE p.action = "status" -> <<Get>>
      [] p.action = "fetch" -> <<Ask(<<"refdb", "fetch", p.source>>), [Get EXCEPT !.waits = TRUE]>>
      [] p.action = "clear" -> <<Ask(<<"refdb", "clear", p.source>>), Get>>
TuneLines(p) == <<Ask(<<"stations", "tune">> \o p.id), Get>>
LocationLines(p) == <<Ask(<<"location">> \o p.at), Get>>
ToolLines(p) == CASE p.tool = "stations" -> StationsLines(p) [] p.tool = "refdb" -> RefdbLines(p)
                  [] p.tool = "tune" -> TuneLines(p) [] p.tool = "location" -> LocationLines(p)

\* get refdb, get stations, get location, get sdr: what is here of them.
Reading(x) == [job |-> x.job, status |-> x.status, find |-> x.find, source |-> x.source,
               scope |-> x.scope, location |-> x.location, tuned |-> x.tuned, demod |-> x.demod]

-----------------------------------------------------------------------------
(* What happens.                                                           *)
Idle == call.todo = <<>>

Click ==
    /\ asks < MaxAsks /\ injected = <<>>
    /\ \E a \in Offers(m) : Asked(a) /\ injected' = <<a>>
    /\ asks' = asks + 1 /\ UNCHANGED <<m, call>>

Call ==
    /\ asks < MaxAsks /\ Idle
    /\ \E p \in Tools : call' = [of |-> p, todo |-> ToolLines(p), got |-> None, failed |-> FALSE, late |-> FALSE]
    /\ asks' = asks + 1 /\ UNCHANGED <<m, injected>>

\* poll: a line that parses is injected and answered at once.  A tool ends
\* at a line that does not, and waits, or gives up waiting, for a job.
Poll ==
    /\ ~Idle
    /\ LET r == Head(call.todo)
           rest == [call EXCEPT !.todo = Tail(@)]
       IN \/ /\ r.line # None /\ Parsed(r.line) # None
             /\ injected' = Append(injected, Parsed(r.line)) /\ call' = rest
          \/ /\ r.line # None /\ Parsed(r.line) = None
             /\ call' = [call EXCEPT !.todo = <<>>, !.failed = TRUE] /\ UNCHANGED injected
          \/ /\ r.line = None /\ UNCHANGED injected
             /\ call' = [rest EXCEPT !.got = Reading(m), !.late = r.waits /\ m.job # None]
    /\ UNCHANGED <<m, asks>>

\* run_script, after poll in the frame.
RunScript ==
    /\ injected # <<>> /\ m' = FoldLeft(Applied, m, injected) /\ injected' = <<>>
    /\ UNCHANGED <<call, asks>>

\* tick: the job's result.  A fetch of FMLIST has none.
Finished(x, stations) ==
    [x EXCEPT !.stations = stations, !.job = None, !.line = Plain,
              !.status = [what |-> "done", src |-> x.job.src]]
Failed(x) == [x EXCEPT !.job = None, !.status = [what |-> "failed", src |-> x.job.src], !.line = Error]
Works(job) == job.what = "fetch" => job.src # "fmlist"
JobEnds ==
    /\ m.job # None
    /\ \/ m' = Failed(m)
       \/ m.job.what # "locate" /\ Works(m.job) /\ \E stations \in StationSets : m' = Finished(m, stations)
       \/ m.job.what = "locate" /\ m' = [Located(m, <<"48", "1">>) EXCEPT !.job = None, !.line = Plain]
    /\ UNCHANGED <<injected, call, asks>>

-----------------------------------------------------------------------------
Init ==
    /\ \E stations \in StationSets :
          m = [plan |-> "general", stations |-> stations, find |-> <<>>, source |-> "-",
               scope |-> "all", selected |-> None, location |-> None, job |-> None,
               status |-> [what |-> "ready", src |-> None], copies |-> {}, tuned |-> Tuner.lo,
               demod |-> None, line |-> Plain]
    /\ injected = <<>> /\ asks = 0
    /\ call = [of |-> None, todo |-> <<>>, got |-> None, failed |-> FALSE, late |-> FALSE]

Next == Click \/ Call \/ Poll \/ RunScript \/ JobEnds
Spec == Init /\ [][Next]_vars

-----------------------------------------------------------------------------
\* What a window offers is read back from its line and done: only a lookup
\* while a job runs, and a band the tuner does not reach, are refused.
OfferedIsTaken ==
    \A a \in Offers(m) :
       /\ Parsed(Line(a)) = a
       /\ ~Refused(m, a) \/ IF a.verb = <<"location">> THEN m.job # None
                          ELSE a.verb = <<"bandmap", "goto">> /\ ~Reached(Middle(m, a.args))

\* The status never says that a job runs when none does, and a call that
\* did not give up has waited for it.
StatusIsOfTheJob ==
    /\ m.job = None => m.status.what # "running"
    /\ call.got # None /\ ~call.late /\ call.of.tool = "refdb" /\ call.of.action = "fetch"
         => call.got.job = None /\ call.got.status.what # "running"

-----------------------------------------------------------------------------
(* What comments and tool descriptions say, and the code does not do.      *)

\* A tune's receipt names what was tuned (actions.rs:359): violated by a
\* station the tuner does not reach, whose refusal the receipt replaces.
ReceiptIsTrue ==
    \A s \in m.stations :
       LET y == Applied(m, Act(<<"stations", "tune">>, s.key))
       IN y.line.ok => y.tuned = y.line.tuned

\* Fetch is offered only where it can work (stations_window.rs:350:
\* "FMLIST is import-only"): violated by FMLIST's own button.
FetchCanWork == m.job # None => Works(m.job)

\* "a fetch/import call returns the finished report instead of a promise"
\* (refmap_tools.rs:160): violated by a start that is refused, and by a
\* reading of the frame of the start.
FetchIsFinished ==
    call.got # None /\ ~call.late /\ call.of.tool = "refdb" /\ call.of.action = "fetch"
       => call.got.status.what \in {"done", "failed"}

\* "location ip is deliberately not exposed" (refmap_tools.rs:3): violated by
\* the locator "ip".
LookupIsNoTool ==
    \A p \in Tools : \A k \in DOMAIN ToolLines(p) :
       ToolLines(p)[k].line # None => Parsed(ToolLines(p)[k].line) # Act(<<"location">>, <<"ip">>)

\* Every parameter the tools describe is taken: violated by a query of
\* blanks, for which find has no word.
ParametersAreTaken ==
    \A p \in Tools : \A k \in DOMAIN ToolLines(p) :
       ToolLines(p)[k].line # None => Parsed(ToolLines(p)[k].line) # None
=============================================================================
