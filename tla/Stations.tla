------------------------------ MODULE Stations -------------------------------
(***************************************************************************)
(* What the SDR screen shows of the reference data: the frequency-sorted   *)
(* index and its queries, the Stations window's rows kept across frames,   *)
(* the band plan and its strip, the DAB raster, and the operator's         *)
(* location on disk and in memory.                                         *)
(*                                                                         *)
(* A station is [freq, id, source, at, sched, service, words].  A place is *)
(* a model value and Km the distance of two; a frequency is a number on    *)
(* whatever grid the instance has.  RefStore has the snapshots and the     *)
(* jobs' thread: here a reload only brings a set of stations.              *)
(***************************************************************************)
EXTENDS SequencesExt, Integers

CONSTANTS
    StationSets,    \* what a reload may find
    Places, Km,     \* Km[<<a, b>>]: the distance of two places
    Views,          \* the ranges [lo, hi] the spectrum may show
    Clocks,         \* weekday and minute
    Radii,          \* the operator's radii, None among them
    ServiceKm,      \* within_radius: the services that have a radius of their own
    DefaultKm,      \* the Near scope's radius when the operator set none
    Day, Week,      \* minutes of a day, days of a week
    Shipped, User,  \* load_plans: stem -> the file's bands, or Bad
    Bad, None,
    MaxEdits        \* bound: changes between the first frame and the last

StationsAssumption ==
    /\ \A p, q \in Places : Km[<<p, q>>] = Km[<<q, p>>]
    /\ DefaultKm \in Nat /\ None \in Radii /\ None \notin Places

VARIABLES
    index,   \* RefMap::index: its stations in order, and its generation
    ui,      \* RefMap's filters, the view, the clock, the selection
    rows,    \* StationRows: the key the rows were built for, and the rows
    page,    \* what the last frame drew, or None when something changed since
    file,    \* location.json
    job,     \* what the job in the slot will bring, or None
    edits

vars == <<index, ui, rows, page, file, job, edits>>

-----------------------------------------------------------------------------
(* Schedule.                                                               *)

OnAir(s, weekday, minute) ==
    LET before == (weekday + Week - 1) % Week
    IN IF s.start < s.stop
       THEN minute >= s.start /\ minute < s.stop /\ weekday \in s.days
       ELSE \/ minute >= s.start /\ weekday \in s.days
            \/ minute < s.stop /\ before \in s.days

Duration(s) == IF s.stop >= s.start THEN s.stop - s.start ELSE s.stop + Day - s.start

-----------------------------------------------------------------------------
(* Index.                                                                  *)

Sorted(stations) ==
    SortSeq(SetToSeq(stations), LAMBDA a, b : a.freq < b.freq \/ (a.freq = b.freq /\ a.id < b.id))

\* partition_point: how many lead a sequence sorted for the test.
Leading(seq, Test(_)) == Cardinality({i \in DOMAIN seq : Test(seq[i])})

\* Index::range, as the positions it spans.
Positions(lo, hi) ==
    LET start == Leading(index.stations, LAMBDA s : s.freq < lo)
        end == Leading(index.stations, LAMBDA s : s.freq <= hi)
    IN [k \in 1..(IF end > start THEN end - start ELSE 0) |-> start + k]

KmFrom(place, s) == IF place = None \/ s.at = None THEN None ELSE Km[<<place, s.at>>]
Closer(a, b) == a # None /\ (b = None \/ a < b)

\* query_visiting and the window's own filters, over a key.
Passes(key, s) ==
    /\ key.sources = {} \/ s.source \in key.sources
    /\ key.find = None \/ key.find \in s.words
    /\ key.clock = None \/ s.sched = None \/ OnAir(s.sched, key.clock.day, key.clock.minute)
    /\ key.scope = "near" /\ key.at # None =>
          LET km == KmFrom(key.at, s)
          IN km # None /\ km <= (IF key.radius = None THEN DefaultKm ELSE key.radius)

QueryPositions(key) ==
    LET found == SelectSeq(Positions(key.lo, key.hi), LAMBDA i : Passes(key, index.stations[i]))
        km(i) == KmFrom(key.at, index.stations[i])
    IN SortSeq(found, LAMBDA i, j :
           IF key.sort = "distance" /\ km(i) # km(j) THEN Closer(km(i), km(j)) ELSE i < j)

\* RowsKey::of: everything the rows depend on.
Highest == Max(UNION {{s.freq : s \in stations} : stations \in StationSets} \cup {0})
KeyOf(u, generation) ==
    [generation |-> generation, scope |-> u.scope,
     lo |-> IF u.scope = "view" THEN u.view.lo ELSE 0,
     hi |-> IF u.scope = "view" THEN u.view.hi ELSE Highest,
     find |-> u.find, sources |-> u.sources, at |-> u.at, radius |-> u.radius, sort |-> u.sort,
     clock |-> IF u.onair THEN u.clock ELSE None]

\* overlay_stations: in view, on the air, within the service's radius,
\* nearest first.
WithinRadius(s) ==
    LET km == KmFrom(ui.at, s)
    IN \/ km = None
       \/ ui.radius # None /\ km <= ui.radius
       \/ ui.radius = None /\ (s.service \in DOMAIN ServiceKm => km <= ServiceKm[s.service])

Overlay ==
    LET Shows(i) == LET s == index.stations[i]
                    IN /\ s.sched = None \/ OnAir(s.sched, ui.clock.day, ui.clock.minute)
                       /\ WithinRadius(s)
        km(i) == KmFrom(ui.at, index.stations[i])
    IN SortSeq(SelectSeq(Positions(ui.view.lo, ui.view.hi), Shows), LAMBDA i, j : IF km(i) # km(j) THEN Closer(km(i), km(j)) ELSE i < j)

-----------------------------------------------------------------------------
(* Band plans.                                                             *)

\* from_sdrpp_json: a band that ends before it starts is dropped.
Bands(raw) ==
    SortSeq(SelectSeq(raw, LAMBDA b : b.lo >= 0 /\ b.hi > b.lo), LAMBDA a, b : a.lo < b.lo)

\* load_plans: a file that does not parse is left out, and hides nothing.
Good(dir) == {stem \in DOMAIN dir : dir[stem] # Bad}
LoadedPlans ==
    [stem \in Good(Shipped) \cup Good(User) |->
        Bands(IF stem \in Good(User) THEN User[stem] ELSE Shipped[stem])]

BandsWithin(plan, lo, hi) ==
    SelectSeq(SubSeq(plan, 1, Leading(plan, LAMBDA b : b.lo <= hi)), LAMBDA b : b.hi >= lo)
Width(b) == b.hi - b.lo

\* RefMap::at, narrowest first.
BandsAt(plan, hz) ==
    SortSeq(BandsWithin(plan, hz, hz), LAMBDA a, b : Width(a) < Width(b))

\* lanes: widest first, each band in the first lane it overlaps nothing of.
Free(lane, b) == \A other \in lane : b.hi <= other.lo \/ b.lo >= other.hi
Lanes(bands) ==
    LET Place(lanes, b) ==
            LET free == {k \in DOMAIN lanes : Free(lanes[k], b)}
            IN IF free = {} THEN Append(lanes, {b}) ELSE [lanes EXCEPT ![Min(free)] = @ \cup {b}]
    IN FoldLeft(Place, <<>>, SortSeq(bands, LAMBDA a, b : Width(a) > Width(b)))

-----------------------------------------------------------------------------
(* BAND_III, in kHz: a table, not a formula.                               *)

BandIII == << 174928, 176640, 178352, 180064, 181936, 183648, 185360, 187072, 188928, 190640,
              192352, 194064, 195936, 197648, 199360, 201072, 202928, 204640, 206352, 208064,
              209936, 211648, 213360, 215072, 216928, 218640, 220352, 222064, 223936, 225648,
              227360, 229072, 230784, 232496, 234208, 235776, 237488, 239200 >>
BlockSpacing == 1712

Away(i, khz) == IF BandIII[i] > khz THEN BandIII[i] - khz ELSE khz - BandIII[i]

\* band_iii_block_at: the nearest, the lower of two, when it is near enough.
BlockAt(khz) ==
    LET i == CHOOSE i \in DOMAIN BandIII :
                \A j \in DOMAIN BandIII : Away(i, khz) < Away(j, khz) \/ (Away(i, khz) = Away(j, khz) /\ i <= j)
    IN IF 2 * Away(i, khz) <= BlockSpacing THEN i ELSE 0

\* BandPlan::dab_blocks: the blocks whose centres its DAB bands hold.
DabBlocks(allocations) ==
    {i \in DOMAIN BandIII : \E a \in allocations : a.lo <= BandIII[i] /\ BandIII[i] <= a.hi}

-----------------------------------------------------------------------------
(* The app.                                                                *)

Init ==
    /\ \E stations \in StationSets : index = [stations |-> Sorted(stations), generation |-> 1]
    /\ file \in Places \cup {None}
    /\ \E view \in Views, clock \in Clocks :
          ui = [scope |-> "all", sources |-> {}, find |-> None, onair |-> FALSE, radius |-> None,
                sort |-> "freq", at |-> file, view |-> view, clock |-> clock,
                selected |-> None, tuned |-> None]
    /\ rows = [key |-> None, found |-> <<>>] /\ page = None /\ job = None /\ edits = 0

\* Anything but a frame leaves the window as the last one drew it.
Edited == edits < MaxEdits /\ edits' = edits + 1 /\ page' = None

Filter ==
    /\ Edited /\ UNCHANGED <<index, rows, file, job>>
    /\ \/ \E scope \in {"view", "near", "all"} : ui' = [ui EXCEPT !.scope = scope]
       \/ \E sources \in {{}, {"eibi"}} : ui' = [ui EXCEPT !.sources = sources]
       \/ \E find \in {None, "x"} : ui' = [ui EXCEPT !.find = find]
       \/ \E onair \in BOOLEAN : ui' = [ui EXCEPT !.onair = onair]
       \/ \E radius \in Radii : ui' = [ui EXCEPT !.radius = radius]
       \/ \E sort \in {"freq", "distance"} : ui' = [ui EXCEPT !.sort = sort]

\* The spectrum moves under the window, and the clock goes on.
Move == /\ Edited /\ \E view \in Views : ui' = [ui EXCEPT !.view = view]
        /\ UNCHANGED <<index, rows, file, job>>
Pass == /\ Edited /\ \E clock \in Clocks : ui' = [ui EXCEPT !.clock = clock]
        /\ UNCHANGED <<index, rows, file, job>>

\* RefMap::reload: a new index, of a new generation.
Reload ==
    /\ Edited /\ UNCHANGED <<ui, rows, file>>
    /\ job \in {None, "stations"} /\ job' = None
    /\ \E stations \in StationSets :
          index' = [stations |-> Sorted(stations), generation |-> index.generation + 1]

\* set_location: the file first, and only what it took.
SetLocation ==
    /\ Edited /\ UNCHANGED <<index, rows, job>>
    /\ \E at \in Places :
          \/ file' = at /\ ui' = [ui EXCEPT !.at = at]
          \/ UNCHANGED <<file, ui>>                        \* the write fails
ClearLocation ==
    /\ Edited /\ UNCHANGED <<index, rows, job>>
    /\ \/ file' = None /\ ui' = [ui EXCEPT !.at = None]
       \/ UNCHANGED <<file, ui>>                           \* the removal fails

\* start_fetch, start_import, start_locate: one job at a time.
StartJob ==
    /\ Edited /\ job = None /\ job' \in {"stations", "place"}
    /\ UNCHANGED <<index, ui, rows, file>>
\* tick: what it found, or why it failed.
Located ==
    /\ Edited /\ job = "place" /\ job' = None /\ UNCHANGED <<index, rows>>
    /\ \E at \in Places :
          \/ file' = at /\ ui' = [ui EXCEPT !.at = at]
          \/ UNCHANGED <<file, ui>>
JobFails == Edited /\ job # None /\ job' = None /\ UNCHANGED <<index, ui, rows, file>>

\* stations tune: the row whose source and id the key names.
TuneStation ==
    /\ Edited /\ UNCHANGED <<index, rows, file, job>>
    /\ \E s \in ToSet(index.stations) :
          LET first == Min({i \in DOMAIN index.stations :
                               index.stations[i].source = s.source /\ index.stations[i].id = s.id})
          IN ui' = [ui EXCEPT !.selected = [source |-> s.source, id |-> s.id],
                              !.tuned = index.stations[first].freq]

\* StationRows::page: rebuilt when the key is another.
Frame ==
    LET key == KeyOf(ui, index.generation)
        found == IF rows.key = key THEN rows.found ELSE QueryPositions(key)
    IN /\ page = None
       /\ rows' = [key |-> key, found |-> found]
       /\ page' = [i \in DOMAIN found |-> index.stations[found[i]]]
       /\ UNCHANGED <<index, ui, file, job, edits>>

Next == \/ Filter \/ Move \/ Pass \/ Reload \/ SetLocation \/ ClearLocation
        \/ StartJob \/ Located \/ JobFails \/ TuneStation \/ Frame
Spec == Init /\ [][Next]_vars

-----------------------------------------------------------------------------
TypeOK ==
    /\ index.generation \in Nat \ {0} /\ file \in Places \cup {None}
    /\ job \in {None, "stations", "place"} /\ edits \in 0..MaxEdits

\* The stations the operator asked for, by what each filter means.
Wanted(s) ==
    /\ ui.scope = "view" => s.freq \in ui.view.lo..ui.view.hi
    /\ ui.sources # {} => s.source \in ui.sources
    /\ ui.find # None => ui.find \in s.words
    /\ ui.onair /\ s.sched # None => OnAir(s.sched, ui.clock.day, ui.clock.minute)
    /\ ui.scope = "near" /\ ui.at # None =>
          /\ s.at # None
          /\ Km[<<ui.at, s.at>>] <= IF ui.radius = None THEN DefaultKm ELSE ui.radius

\* A frame draws the stations the filters, the view, the clock and the
\* location of that frame ask for, whatever changed since the rows it keeps
\* were built, and in order.
PageIsCurrent ==
    page # None =>
        /\ ToSet(page) = {s \in ToSet(index.stations) : Wanted(s)}
        /\ Len(page) = Cardinality(ToSet(page))
        /\ \A i, j \in DOMAIN page : i < j =>
              IF ui.sort = "freq" THEN page[i].freq <= page[j].freq
              ELSE ~Closer(KmFrom(ui.at, page[j]), KmFrom(ui.at, page[i]))

\* The overlay hides only what is out of view, off the air or too far.
OverlayIsInView ==
    \A s \in ToSet(index.stations) :
        (\E i \in DOMAIN Overlay : index.stations[Overlay[i]] = s) <=>
            /\ s.freq \in ui.view.lo..ui.view.hi
            /\ s.sched # None => OnAir(s.sched, ui.clock.day, ui.clock.minute)
            /\ ui.at # None /\ s.at # None /\ (ui.radius # None \/ s.service \in DOMAIN ServiceKm) =>
                  Km[<<ui.at, s.at>>] <= IF ui.radius # None THEN ui.radius ELSE ServiceKm[s.service]

\* The app has the location the next launch will load.
LocationIsKept == ui.at = file

\* Every schedule is on the air for its length, on each of its days, those
\* that end where they start apart.
ScheduleAddsUp(s) ==
    Cardinality({t \in (0..(Week - 1)) \X (0..(Day - 1)) : OnAir(s, t[1], t[2])})
        = Cardinality(s.days) * Duration(s)
Schedules == [start : 0..(Day - 1), stop : 0..Day, days : SUBSET (0..(Week - 1))]
SchedulesAddUp == \A s \in Schedules : s.start # s.stop => ScheduleAddsUp(s)

\* station.rs 220-221: "equal endpoints are empty".  They are a full day.
EqualEndsAreEmpty == \A s \in Schedules : ScheduleAddsUp(s)

\* Every good plan is loaded; a band is found at every frequency it holds,
\* the narrowest first, and drawn once, beside nothing it overlaps.
PlansAreRight ==
    \A stem \in DOMAIN LoadedPlans :
        LET plan == LoadedPlans[stem]
            lanes == Lanes(plan)
        IN /\ \A hz \in 0..Highest :
                /\ ToSet(BandsAt(plan, hz)) = {b \in ToSet(plan) : b.lo <= hz /\ hz <= b.hi}
                /\ \A i \in 2..Len(BandsAt(plan, hz)) :
                      Width(BandsAt(plan, hz)[i - 1]) <= Width(BandsAt(plan, hz)[i])
           /\ UNION ToSet(lanes) = ToSet(plan)
           /\ \A k \in DOMAIN lanes : \A a, b \in lanes[k] : a = b \/ a.hi <= b.lo \/ b.hi <= a.lo

\* A block is named only for a frequency nearer to it than to any other.
BlocksAreNamed ==
    /\ \A i \in DOMAIN BandIII : BlockAt(BandIII[i]) = i /\ DabBlocks({[lo |-> BandIII[i], hi |-> BandIII[i]]}) = {i}
    /\ \A k \in 0..240 : LET n == 174000 + 267 * k IN BlockAt(n) # 0 =>
          \A j \in DOMAIN BandIII : Away(BlockAt(n), n) <= Away(j, n)
=============================================================================
