----------------------------- MODULE RefSources ------------------------------
(***************************************************************************)
(* Fetching or importing a reference source: the requests and their one    *)
(* retry, the parsers of the five sources with what they report, and the   *)
(* refusal of a document that is not one of the source.                    *)
(*                                                                         *)
(* A document is a sequence of rows, a row a record of what its parser     *)
(* looks at, Bad where a cell does not parse; a page that is no document   *)
(* of the source is rows all of whose cells are Bad.  RefStore has what    *)
(* becomes of a snapshot on disk.                                          *)
(***************************************************************************)
EXTENDS SequencesExt, Integers

CONSTANTS
    Documents,   \* source -> what its server may answer, or its file hold
    Requests,    \* source -> how many documents a fetch asks for
    Airports,    \* the airports of airports.csv
    Bad,         \* a cell that does not parse
    None

Attempts == 2

VARIABLES
    source,    \* the source asked for: those of two sources share nothing
    job,       \* [got, tries]: the documents so far, the tries of the next, or None
    snapshot,  \* the stations stored, or None
    outcome,   \* what the status line says of the last job
    failures   \* history: the requests of the running job that failed in a row

vars == <<source, job, snapshot, outcome, failures>>

Sources == DOMAIN Documents

-----------------------------------------------------------------------------
(* Reports.                                                                *)

NoReport == [rows |-> 0, kept |-> 0, skipped |-> 0]
Unusable(report) == report.kept = 0 /\ report.skipped > 0
Together(a, b) == [f \in {"rows", "kept", "skipped"} |-> a[f] + b[f]]

\* One row read: kept as a station or skipped with a reason.
Kept(out, s) == [stations |-> Append(out.stations, s),
                 report |-> [out.report EXCEPT !.rows = @ + 1, !.kept = @ + 1]]
Skip(out) == [out EXCEPT !.report.rows = @ + 1, !.report.skipped = @ + 1]
EmptyAnswer == [stations |-> <<>>, report |-> NoReport]
Station(id, freq, mode) == [id |-> id, freq |-> freq, mode |-> mode]

-----------------------------------------------------------------------------
(* wikidata: one station per item and frequency, numbered when an item has *)
(* several.                                                                *)

InferModulation(freq) ==
    CASE freq \in 88000..108000 -> "wfm"
      [] freq \in 149..1700 -> "am"
      [] freq \in 174000..230000 \cup 470000..862000 -> "dvbt"
      [] OTHER -> "unknown"

ReadsRow(row) == row.item # Bad /\ row.freq # Bad /\ row.freq > 0
Distinct(rows) ==
    FoldLeft(LAMBDA seen, row :
                IF \E i \in DOMAIN seen : seen[i].item = row.item /\ seen[i].freq = row.freq
                THEN seen ELSE Append(seen, row), <<>>, rows)
ByItem(rows) ==
    SortSeq(rows, LAMBDA a, b : a.item < b.item \/ (a.item = b.item /\ a.freq < b.freq))

\* The place of row i among the rows of its item, 0 when it is the only one.
Number(rows, i) ==
    IF \A j \in DOMAIN rows : rows[j].item = rows[i].item => j = i THEN 0
    ELSE Cardinality({j \in 1..i : rows[j].item = rows[i].item})

Numbered(rows) ==
    [i \in DOMAIN rows |-> Station(<<rows[i].item, Number(rows, i)>>, rows[i].freq,
                                   InferModulation(rows[i].freq))]

Wikidata(doc) ==
    LET good == SelectSeq(doc, ReadsRow)
        stations == Numbered(ByItem(Distinct(good)))
    IN [stations |-> stations,
        report |-> [rows |-> Len(doc), kept |-> Len(stations), skipped |-> Len(doc) - Len(good)]]

-----------------------------------------------------------------------------
(* eibi: the row's own text is its id.                                     *)

Minutes(t) == (t \div 100) * 60 + (t % 100)
IsTime(t, latest) == t # Bad /\ (t \div 100) <= 24 /\ (t % 100) <= 59 /\ Minutes(t) <= latest

\* parse_days: a range may go over the end of the week.
DayRange(a, b) == IF a <= b THEN a..b ELSE a..6 \cup 0..b

Eibi(doc) ==
    FoldLeft(LAMBDA out, row :
        CASE row.header -> out
          [] ~row.header /\ (\/ row.khz = Bad \/ row.name = Bad \/ row.days = Bad
                             \/ ~IsTime(row.start, 1439) \/ ~IsTime(row.stop, 1440)) -> Skip(out)
          [] OTHER -> Kept(out, Station(<<row.khz, row.start, row.stop, row.days, row.name>>,
                                        row.khz, row.remark)),
        EmptyAnswer, doc)

\* season_file: summer from March's last Sunday to October's.
Leap(y) == (y % 4) = 0 /\ ((y % 100) # 0 \/ (y % 400) = 0)
DaysInMonth(y, m) ==
    IF m = 2 THEN IF Leap(y) THEN 29 ELSE 28 ELSE IF m \in {4, 6, 9, 11} THEN 30 ELSE 31

\* civil days since 1970-01-01 (Hinnant), and its inverse.
DaysFromCivil(y, m, d) ==
    LET yy  == IF m <= 2 THEN y - 1 ELSE y
        era == yy \div 400
        yoe == yy - era * 400
        doy == ((153 * ((m + 9) % 12) + 2) \div 5) + d - 1
    IN era * 146097 + (yoe * 365 + (yoe \div 4) - (yoe \div 100) + doy) - 719468
WeekdayOf(y, m, d) == (DaysFromCivil(y, m, d) + 4) % 7
CivilFromDays(days) ==
    LET z   == days + 719468
        doe == z % 146097
        yoe == (doe - (doe \div 1460) + (doe \div 36524) - (doe \div 146096)) \div 365
        doy == doe - (365 * yoe + (yoe \div 4) - (yoe \div 100))
        mp  == (5 * doy + 2) \div 153
        m   == IF mp < 10 THEN mp + 3 ELSE mp - 9
    IN <<yoe + (z \div 146097) * 400 + (IF m <= 2 THEN 1 ELSE 0), m, doy - ((153 * mp + 2) \div 5) + 1>>

LastSunday(y, m) ==
    CHOOSE d \in 1..DaysInMonth(y, m) :
        WeekdayOf(y, m, d) = 0 /\ \A e \in (d + 1)..DaysInMonth(y, m) : WeekdayOf(y, m, e) # 0
Season(y, m, d) ==
    LET from == <<3, LastSunday(y, 3)>>
        to == <<10, LastSunday(y, 10)>>
        before(a, b) == a[1] < b[1] \/ (a[1] = b[1] /\ a[2] < b[2])
    IN IF ~before(<<m, d>>, from) /\ before(<<m, d>>, to) THEN "a" ELSE "b"

-----------------------------------------------------------------------------
(* fcc: no header; the first cell that reads as a frequency is one, the    *)
(* position is the run after a hemisphere's letter, and the facility's     *)
(* number, where the row has it, is the id.                                *)

Fcc(doc) ==
    FoldLeft(LAMBDA out, row :
        LET seen == \E i \in DOMAIN out.stations : out.stations[i].name = row.call /\ out.stations[i].freq = row.freq
        IN IF row.call = Bad \/ row.freq = Bad \/ row.lat = Bad \/ row.lon = Bad \/ seen THEN Skip(out)
           ELSE Kept(out, [id |-> IF row.facility = None THEN <<row.call, row.freq>> ELSE <<row.facility>>,
                           freq |-> row.freq, mode |-> IF row.service = "AM" THEN "am" ELSE "wfm",
                           name |-> row.call, north |-> row.ns = "N"]),
        EmptyAnswer, doc)

\* dms_parts, of hundredths of a second of arc: seconds are rounded to
\* tenths, and what that makes sixty is carried.
DmsParts(v) ==
    LET s  == ((v % 6000) + 5) \div 10
        m  == ((v % 360000) \div 6000) + (IF s >= 600 THEN 1 ELSE 0)
        d  == (v \div 360000) + (IF m >= 60 THEN 1 ELSE 0)
    IN <<d, IF m >= 60 THEN m - 60 ELSE m, IF s >= 600 THEN s - 600 ELSE s>>

-----------------------------------------------------------------------------
(* ourairports: a frequency belongs to an airport that is known.           *)

OurAirports(doc) ==
    FoldLeft(LAMBDA out, row :
        LET freq == IF row.mhz # Bad THEN row.mhz * 1000 ELSE row.khz
        IN IF row.airport = Bad \/ row.airport \notin Airports \/ freq = Bad \/ freq <= 0 THEN Skip(out)
           ELSE Kept(out, Station(<<row.id>>, freq, "am")),
        EmptyAnswer, doc)

-----------------------------------------------------------------------------
(* fmlist: the header decides the unit, and a bare number below 2000 is in *)
(* megahertz.                                                              *)

FmlistKhz(header, v) ==
    IF header = "khz" THEN v ELSE IF header = "mhz" \/ v < 2000 THEN v * 1000 ELSE v

Fmlist(doc) ==
    FoldLeft(LAMBDA out, row :
        IF row.freq = Bad THEN Skip(out)
        ELSE LET khz == FmlistKhz(row.header, row.freq)
             IN Kept(out, Station(IF row.id = None THEN <<row.name, khz>> ELSE <<row.id>>, khz, row.mode)),
        EmptyAnswer, doc)

\* csv::detect_delimiter: the last of the most frequent, as max_by_key.
Delimiter(counts) ==
    CASE counts.tab >= counts.comma /\ counts.tab >= counts.semicolon -> "tab"
      [] counts.semicolon >= counts.comma /\ counts.semicolon > counts.tab -> "semicolon"
      [] OTHER -> "comma"

-----------------------------------------------------------------------------
(* csv::parse, a character at a time.                                      *)

CsvStart == [rows |-> <<>>, row |-> <<>>, field |-> <<>>, quoted |-> FALSE, skip |-> FALSE]

CsvField(p) == [p EXCEPT !.row = Append(@, p.field), !.field = <<>>]
CsvRow(p) ==
    IF p.field = <<>> /\ p.row = <<>> THEN p
    ELSE [p EXCEPT !.rows = Append(@, Append(p.row, p.field)), !.row = <<>>, !.field = <<>>]

CsvChar(text, p, i) ==
    LET c == text[i]
        more == i < Len(text) /\ text[i + 1] = "quote"
        Push == [p EXCEPT !.field = Append(@, c)]
    IN CASE p.skip -> [p EXCEPT !.skip = FALSE]
         [] ~p.skip /\ p.quoted /\ c = "quote" /\ more -> [Push EXCEPT !.skip = TRUE]
         [] ~p.skip /\ p.quoted /\ c = "quote" /\ ~more -> [p EXCEPT !.quoted = FALSE]
         [] ~p.skip /\ p.quoted /\ c # "quote" -> Push
         [] ~p.skip /\ ~p.quoted /\ c = "quote" /\ p.field = <<>> -> [p EXCEPT !.quoted = TRUE]
         [] ~p.skip /\ ~p.quoted /\ c = "delim" -> CsvField(p)
         [] ~p.skip /\ ~p.quoted /\ c = "newline" -> CsvRow(p)
         [] ~p.skip /\ ~p.quoted /\ c = "return" -> p
         [] OTHER -> Push

CsvParse(text) == CsvRow(FoldLeft(LAMBDA p, i : CsvChar(text, p, i), CsvStart, [i \in DOMAIN text |-> i])).rows

-----------------------------------------------------------------------------
(* The job.                                                                *)

Parse(s, doc) ==
    CASE s = "wikidata" -> Wikidata(doc) [] s = "eibi" -> Eibi(doc)
      [] s = "fcc" -> Fcc(doc) [] s = "ourairports" -> OurAirports(doc)
      [] s = "fmlist" -> Fmlist(doc)

\* fetch: what the documents of a source make together.
Parsed(docs) ==
    FoldLeft(LAMBDA out, doc :
                LET part == Parse(source, doc)
                IN [stations |-> out.stations \o part.stations,
                    report |-> Together(out.report, part.report)],
             EmptyAnswer, docs)

Init == /\ job = None /\ outcome = None /\ failures = 0
        /\ snapshot = None /\ source \in Sources

Start == /\ job = None /\ outcome = None /\ job' = [got |-> <<>>, tries |-> 0]
         /\ UNCHANGED <<source, snapshot, outcome, failures>>

Wants == job # None /\ Len(job.got) < Requests[source]

\* once, within get_plain: an answer, or one more try, or the job's error.
Answer == /\ Wants
          /\ \E doc \in Documents[source] : job' = [job EXCEPT !.got = Append(@, doc), !.tries = 0]
          /\ failures' = 0 /\ UNCHANGED <<source, snapshot, outcome>>
Fails ==
    /\ Wants /\ failures' = failures + 1 /\ UNCHANGED <<source, snapshot>>
    /\ IF job.tries + 1 < Attempts
       THEN job' = [job EXCEPT !.tries = @ + 1] /\ UNCHANGED outcome
       ELSE job' = None /\ outcome' = [is |-> "failed", report |-> NoReport]

\* jobs::save: the snapshot is replaced unless the report is of no use.
Save ==
    /\ job # None /\ ~Wants /\ job' = None /\ UNCHANGED <<source, failures>>
    /\ LET out == Parsed(job.got)
       IN IF Unusable(out.report)
          THEN outcome' = [is |-> "refused", report |-> out.report] /\ UNCHANGED snapshot
          ELSE /\ outcome' = [is |-> "saved", report |-> out.report]
               /\ snapshot' = out.stations

\* The operator may ask again.
Again == /\ job = None /\ outcome # None /\ outcome' = None /\ failures' = 0
         /\ UNCHANGED <<source, job, snapshot>>

Next == Start \/ Answer \/ Fails \/ Save \/ Again
Spec == Init /\ [][Next]_vars

-----------------------------------------------------------------------------
TypeOK == /\ source \in Sources /\ (job # None => job.tries \in 0..(Attempts - 1))
          /\ failures \in 0..Attempts

\* A job gives up only when the same request failed twice in a row, and asks
\* for nothing three times.
GivesUpAfterTwo ==
    /\ outcome # None => (outcome.is = "failed" <=> failures = Attempts)
    /\ job # None => failures = job.tries

\* What a snapshot holds: every station of it by a key of its own, or on the
\* frequency the key stands for.
KeysName ==
    snapshot # None =>
        \A i, j \in DOMAIN snapshot : snapshot[i].id = snapshot[j].id => snapshot[i].freq = snapshot[j].freq

\* The rows of a document are kept or skipped; of the wikidata join's, the
\* duplicates are neither.
RowsAccounted(report) ==
    IF source = "wikidata" THEN report.rows >= report.kept + report.skipped
    ELSE report.rows = report.kept + report.skipped
ReportAddsUp == (outcome # None /\ outcome.is # "failed") => RowsAccounted(outcome.report)

\* sources/mod.rs 13-14: "rows read, stations produced, and why the rest were
\* dropped".  Wikidata's duplicates are dropped without a reason.
EveryRowHasAReason ==
    outcome # None => outcome.report.rows = outcome.report.kept + outcome.report.skipped

\* The order a server answers in changes no station: wikidata's numbers mean
\* the same stations on every import.
OrderChangesNothing ==
    \A doc \in Documents["wikidata"] : \A f \in Permutations(DOMAIN doc) :
        ToSet(Wikidata([i \in DOMAIN doc |-> doc[f[i]]]).stations) = ToSet(Wikidata(doc).stations)

\* sources/mod.rs 28-31: a document with every row rejected "must not replace
\* the snapshot it was meant to update".  Of the FCC's two, one may.
EveryDocumentIsUsable ==
    [][snapshot' # snapshot =>
          \A k \in DOMAIN job.got : ~Unusable(Parse(source, job.got[k]).report)]_vars

\* A quoted field comes back as it was written, whatever is in it.
Special == {"quote", "delim", "newline", "return"}
CsvQuote(field) ==
    FoldLeft(LAMBDA text, c : text \o IF c = "quote" THEN <<c, c>> ELSE <<c>>, <<"quote">>, field) \o <<"quote">>
CsvWrite(row) ==
    FoldLeft(LAMBDA text, i : text \o (IF i = 1 THEN <<>> ELSE <<"delim">>)
                 \o (IF ToSet(row[i]) \cap Special = {} THEN row[i] ELSE CsvQuote(row[i])),
             <<>>, [i \in DOMAIN row |-> i]) \o <<"newline">>
CsvRoundTrips ==
    \A a, b \in UNION {[1..n -> {"x"} \cup Special] : n \in 0..2}, end \in BOOLEAN :
        LET text == CsvWrite(<<a, b>>) \o CsvWrite(<<b, a>>)
        IN CsvParse(IF end THEN text ELSE Front(text)) = << <<a, b>>, <<b, a>> >>

\* The two conversions of a day are each other's inverse, a season has one
\* beginning and one end, and no part of an angle is 60.
DatesAreRight ==
    /\ \A n \in 0..150 : LET k == n * 211
                             c == CivilFromDays(k)
                         IN DaysFromCivil(c[1], c[2], c[3]) = k /\ c[2] \in 1..12 /\ c[3] \in 1..DaysInMonth(c[1], c[2])
    /\ \A y \in 2024..2030 : \A m \in 1..12 : \A d \in 1..DaysInMonth(y, m) :
          Season(y, m, d) = "a" <=>
              /\ m \in 3..10
              /\ m = 3 => d >= LastSunday(y, 3)
              /\ m = 10 => d < LastSunday(y, 10)
    /\ \A n \in 0..400 : LET v == n * 5999
                             p == DmsParts(v)
                         IN (p[1] * 60 + p[2]) * 600 + p[3] = (v + 5) \div 10 /\ p[2] < 60 /\ p[3] < 600
=============================================================================
