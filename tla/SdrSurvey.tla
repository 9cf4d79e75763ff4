----------------------------- MODULE SdrSurvey -----------------------------
(***************************************************************************)
(* A frequency survey run by the app through the supervisor: the survey    *)
(* steps a plan of centres, the app retunes the instrument at each and     *)
(* feeds it the newest frame once per app frame, while the supervisor's    *)
(* thread polls frames and applies settings at its own pace.               *)
(*                                                                         *)
(* A frame is the centre it was captured at; the program does not know it. *)
(* Centres are the plan's steps 1..Steps; 0 is anywhere else.              *)
(***************************************************************************)
EXTENDS Naturals, Sequences, SequencesExt

CONSTANTS
    Steps,        \* steps of the plan
    Skipped,      \* those that fall in a skipped range
    SettleFrames, \* settle_frames
    DwellFrames,  \* dwell_frames
    Keep,         \* surveys kept
    EventCap,     \* frames on their way to the app
    MaxRuns,      \* bound on surveys started
    None

Centres == 0..Steps
Survey  == [step : 1..(Steps + 1), seen : Nat, kept : Seq(Centres),
            coverage : Seq([step : 1..Steps, scanned : BOOLEAN]),
            used : SUBSET ((1..Steps) \X Centres)]

SurveyAssumption ==
    /\ Steps \in Nat \ {0} /\ Skipped \subseteq 1..Steps
    /\ SettleFrames \in Nat /\ DwellFrames \in Nat \ {0}
    /\ Keep \in Nat \ {0} /\ EventCap \in Nat \ {0} /\ MaxRuns \in Nat
    /\ None \notin Centres \cup Survey

VARIABLES
    phase,    \* where the app is in its frame
    centre,   \* SdrState::config.centre_hz
    dirty,    \* the config is to be sent
    pending,  \* the Apply on its way to the supervisor, or None
    hardware, \* the centre the instrument is tuned to
    polling,  \* the centre the frame being polled was captured at, or None
    events,   \* frames on their way to the app
    survey,   \* the Survey: step, frames seen, coverage and frames kept, or None
    surveys,  \* the results kept
    runs

vars == <<phase, centre, dirty, pending, hardware, polling, events, survey, surveys, runs>>

-----------------------------------------------------------------------------
(* neowon_dsp::survey.                                                     *)

\* Changed form: only the first step is looked up.
OneSkip(s) ==
    IF s.step \in Skipped
    THEN [s EXCEPT !.step = @ + 1, !.coverage = Append(@, [step |-> s.step, scanned |-> FALSE])]
    ELSE s

\* skip_unscanned: the skipped steps from here on are covered, unscanned.
SkipUnscanned(s) ==
    LET next == CHOOSE n \in s.step..(Steps + 1) :
                    n \notin Skipped /\ \A m \in s.step..(n - 1) : m \in Skipped
    IN [s EXCEPT !.step = next,
                 !.coverage = @ \o [k \in 1..(next - s.step) |->
                                        [step |-> s.step + k - 1, scanned |-> FALSE]]]

NewSurvey == SkipUnscanned([step |-> 1, seen |-> 0, kept |-> <<>>, coverage |-> <<>>, used |-> {}])

Complete(s) == s.step > Steps

\* close_step: the frames kept are this step's.
CloseStep(s) ==
    SkipUnscanned([s EXCEPT !.coverage = Append(@, [step |-> s.step, scanned |-> TRUE]),
                            !.used = @ \cup {<<s.step, at>> : at \in ToSet(s.kept)},
                            !.kept = <<>>, !.seen = 0, !.step = @ + 1])

\* Survey::feed: the settling frames are not kept.
Fed(s, frame) ==
    LET seen == [s EXCEPT !.seen = @ + 1]
        kept == [seen EXCEPT !.kept = Append(@, frame)]
    IN CASE seen.seen <= SettleFrames -> seen
         [] seen.seen > SettleFrames /\ seen.seen < SettleFrames + DwellFrames -> kept
         [] OTHER -> CloseStep(kept)

-----------------------------------------------------------------------------
(* The app's frame: ingest and update, then the operator's script, then    *)
(* flush; the supervisor's thread runs between them.                       *)

\* scan::feed: the survey is untouched while the window is elsewhere.
ScanFeed(frame) ==
    IF survey = None \/ centre # survey.step
    THEN UNCHANGED <<centre, dirty, survey, surveys>>
    ELSE LET fed == Fed(survey, frame)
         IN CASE fed.step = survey.step -> survey' = fed /\ UNCHANGED <<centre, dirty, surveys>>
              [] fed.step # survey.step /\ ~Complete(fed) ->
                    /\ survey' = fed /\ centre' = fed.step /\ dirty' = TRUE
                    /\ UNCHANGED surveys
              [] OTHER ->
                    /\ survey' = None
                    /\ surveys' = LET all == Append(surveys, fed)
                                  IN IF Len(all) > Keep THEN Tail(all) ELSE all
                    /\ UNCHANGED <<centre, dirty>>

\* link::ingest and sdr::update: of the frames that arrived, the newest is fed.
Ingest ==
    /\ phase = "ingest" /\ phase' = "script"
    /\ events' = <<>>
    /\ IF events = <<>> THEN UNCHANGED <<centre, dirty, survey, surveys>>
       ELSE ScanFeed(Last(events))
    /\ UNCHANGED <<pending, hardware, polling, runs>>

\* scan::start, which replaces a survey in progress.
Start ==
    /\ phase = "script" /\ runs < MaxRuns
    /\ ~Complete(NewSurvey)
    /\ survey' = NewSurvey /\ centre' = NewSurvey.step /\ dirty' = TRUE
    /\ runs' = runs + 1
    /\ UNCHANGED <<phase, pending, hardware, polling, events, surveys>>

Cancel ==
    /\ phase = "script" /\ survey # None /\ survey' = None
    /\ UNCHANGED <<phase, centre, dirty, pending, hardware, polling, events, surveys, runs>>

\* The operator tunes away from the survey's step, or back to it.
Tune ==
    /\ phase = "script" /\ survey # None
    /\ centre' = (IF centre = 0 THEN survey.step ELSE 0) /\ dirty' = TRUE
    /\ UNCHANGED <<phase, pending, hardware, polling, events, survey, surveys, runs>>

\* sdr::flush; of the Applies waiting the newest counts.
Flush ==
    /\ phase = "script" /\ phase' = "ingest"
    /\ dirty' = FALSE /\ pending' = IF dirty THEN centre ELSE pending
    /\ UNCHANGED <<centre, hardware, polling, events, survey, surveys, runs>>

-----------------------------------------------------------------------------
(* The supervisor's thread: commands between polls, one frame per poll.    *)

Poll ==
    /\ polling = None /\ pending = None
    /\ polling' = hardware
    /\ UNCHANGED <<phase, centre, dirty, pending, hardware, events, survey, surveys, runs>>

Deliver ==
    /\ polling # None /\ Len(events) < EventCap
    /\ events' = Append(events, polling) /\ polling' = None
    /\ UNCHANGED <<phase, centre, dirty, pending, hardware, survey, surveys, runs>>

Apply ==
    /\ pending # None /\ polling = None
    /\ hardware' = pending /\ pending' = None
    /\ UNCHANGED <<phase, centre, dirty, polling, events, survey, surveys, runs>>

-----------------------------------------------------------------------------
Init ==
    /\ centre = 0 /\ dirty = FALSE /\ pending = None /\ hardware = 0
    /\ polling = None /\ events = <<>> /\ phase = "ingest"
    /\ survey = None /\ surveys = <<>> /\ runs = 0

Next ==
    \/ Ingest \/ Start \/ Cancel \/ Tune \/ Flush
    \/ Poll \/ Deliver \/ Apply

Spec == Init /\ [][Next]_vars

-----------------------------------------------------------------------------
(* Correctness properties.                                                 *)

AllSurveys == ToSet(surveys) \cup (IF survey = None THEN {} ELSE {survey})

\* A survey's coverage is its plan so far, in order and without a hole, and it
\* says scanned exactly of the steps whose frames were kept.
CoverageIsThePlan ==
    \A s \in AllSurveys :
        /\ Len(s.coverage) = s.step - 1
        /\ \A k \in 1..Len(s.coverage) :
               /\ s.coverage[k] = [step |-> k, scanned |-> k \notin Skipped]
               /\ s.coverage[k].scanned = (\E at \in 0..Steps : <<k, at>> \in s.used)
        /\ ~Complete(s) => s.step \notin Skipped

\* What the comment in scan::feed says of frames in flight before a retune:
\* none of them is kept as another step's.
MeasuresItsStep == \A s \in AllSurveys : \A use \in s.used : use[1] = use[2]
=============================================================================
