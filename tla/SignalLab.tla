------------------------------ MODULE SignalLab ------------------------------
(***************************************************************************)
(* Detection and the modulation lab: the tracker gives what each frame     *)
(* detects an identity over time, and a worker thread measures the track   *)
(* nearest the tuned frequency, one frame at a time, while the operator    *)
(* retunes, moves the cursor, changes the setting, or the link drops.      *)
(*                                                                         *)
(* What a frame detects is chosen freely; a band is a place, and two       *)
(* places overlap when they are at most Slack apart.  The clock of the     *)
(* stream counts frames, as their sequence numbers do.                     *)
(***************************************************************************)
EXTENDS Integers, Sequences, FiniteSets, SequencesExt, FiniteSetsExt

CONSTANTS
    Places,        \* where in the band signals are
    Centres,       \* centres of the hardware window
    Settings,      \* modulation settings, auto included
    Slack,         \* assoc_hz
    MinActive,     \* min_duration_s
    Hold,          \* hold_s
    Every,         \* EVERY
    MaxFrames, MaxLinks, MaxEdits   \* bounds

LabAssumption ==
    /\ Places \subseteq Int /\ IsFiniteSet(Places) /\ Centres # {} /\ Settings # {}
    /\ {Slack, MinActive, Hold, MaxFrames, MaxLinks, MaxEdits} \subseteq Nat
    /\ Every \in Nat \ {0}

VARIABLES
    ui,       \* config.centre_hz, tuned_hz, analyse_on, detect_on, modulation
    tracker,  \* tracks (a sequence), next id, and the centre they belong to
    clock,    \* frames of this connection
    lab,      \* busy, next_seq
    job,      \* what the worker has, or NoJob
    done,     \* a finished run, or NoJob
    shown,    \* sdr.analysis, or NoJob
    ticks,    \* frames of the session
    waited,   \* frames the lab was idle with a target
    used      \* bounds: links, edits

vars == <<ui, tracker, clock, lab, job, done, shown, ticks, waited, used>>

NoJob == [track |-> 0]
Dist(a, b) == IF a < b THEN b - a ELSE a - b

-----------------------------------------------------------------------------
(* Tracker.                                                                *)

\* What a frame may detect, in the order of the band.
Detections ==
    {places \in BoundedSeq(Places, Cardinality(Places)) :
        \A i, j \in DOMAIN places : i < j => places[i] < places[j]}

\* A track seen once more.
Met(track, place, now) ==
    [track EXCEPT !.at = place, !.seen = ticks, !.last = IF @ < now THEN now ELSE @]

\* One observation: the nearest track it overlaps that none of this frame's
\* took, the first of them in the list, or a track of its own.
Observe(t, place) ==
    LET fit  == {i \in DOMAIN t.tracks : i \notin t.taken /\ Dist(t.tracks[i].at, place) <= Slack}
        near == {i \in fit : \A j \in fit : Dist(t.tracks[i].at, place) <= Dist(t.tracks[j].at, place)}
        new  == [id |-> t.next, at |-> place, first |-> t.now, last |-> t.now, seen |-> ticks]
    IN IF fit = {}
       THEN [t EXCEPT !.tracks = Append(@, new), !.next = @ + 1, !.taken = @ \cup {Len(t.tracks) + 1}]
       ELSE LET i == Min(near)
            IN [t EXCEPT !.tracks[i] = Met(@, place, t.now), !.taken = @ \cup {i}]

\* The observations of a frame, one after the other.
Observed(t, places) ==
    LET upto[k \in 0..Len(places)] == IF k = 0 THEN t ELSE Observe(upto[k - 1], places[k])
    IN upto[Len(places)]

\* The tracks that were seen in the last Hold.
Retained(tracks, now) ==
    LET upto[k \in 0..Len(tracks)] ==
            IF k = 0 THEN <<>>
            ELSE IF now - tracks[k].last <= Hold THEN Append(upto[k - 1], tracks[k]) ELSE upto[k - 1]
    IN upto[Len(tracks)]

\* Changed form: what one setting of the window tracked goes on in the next.
KeptAcross(t, centre) == t.tracks
ForCentre(t, centre) == IF t.centre = centre THEN t.tracks ELSE <<>>

\* track(): another centre starts afresh, though never with an id again.
Tracked(t, centre, places, now) ==
    LET seen == Observed([tracks |-> ForCentre(t, centre), next |-> t.next, taken |-> {}, now |-> now],
                         places)
    IN [tracks |-> Retained(seen.tracks, now), next |-> seen.next, centre |-> centre]

Active(t) == {i \in DOMAIN t.tracks : t.tracks[i].last - t.tracks[i].first >= MinActive}

\* nearest_track: its id, or 0.
Nearest(t, u) ==
    LET near == {i \in Active(t) : \A j \in Active(t) :
                    Dist(t.tracks[i].at, u.tuned) <= Dist(t.tracks[j].at, u.tuned)}
    IN IF near = {} THEN 0 ELSE t.tracks[Min(near)].id

-----------------------------------------------------------------------------
(* The frame: take_lab_result, the tracker, the lab.                       *)

\* adopt(): a run the operator has moved away from is dropped.
\* Changed form: any run of the signal nearest now is taken.
AdoptsNearest(r) == ui.on /\ r.track = Nearest(tracker, ui)
Adopts(r) ==
    /\ ui.on /\ r.centre = ui.centre /\ r.setting = ui.setting
    /\ r.track = Nearest(tracker, ui)

Adopted == IF done # NoJob /\ Adopts(done) THEN done ELSE shown

\* Lab::submit: at most one run, and EVERY frames between two.
Frame(places) ==
    /\ ticks < MaxFrames /\ ticks' = ticks + 1
    /\ clock' = clock + 1
    /\ done' = NoJob
    /\ tracker' = (IF ui.detect THEN Tracked(tracker, ui.centre, places, clock') ELSE tracker)
    /\ LET target == Nearest(tracker', ui)
           idle   == [lab EXCEPT !.busy = @ /\ done = NoJob]
           starts == ui.on /\ target # 0 /\ ~idle.busy /\ clock' >= lab.next
       IN /\ shown' = (IF ui.on /\ target # Adopted.track THEN NoJob ELSE Adopted)
          /\ job' = (IF starts THEN [track |-> target, centre |-> ui.centre, setting |-> ui.setting]
                     ELSE job)
          /\ lab' = (IF starts THEN [busy |-> TRUE, next |-> clock' + Every] ELSE idle)
          /\ waited' = (IF starts \/ idle.busy \/ ~ui.on \/ target = 0 THEN 0 ELSE waited + 1)
    /\ UNCHANGED <<ui, used>>

\* The worker's own thread.
Finish ==
    /\ job # NoJob /\ done' = job /\ job' = NoJob
    /\ UNCHANGED <<ui, tracker, clock, lab, shown, ticks, waited, used>>

-----------------------------------------------------------------------------
(* The operator and the link.                                              *)
Edits ==
    /\ used.edits < MaxEdits /\ used' = [used EXCEPT !.edits = @ + 1]
    /\ UNCHANGED <<clock, lab, job, done, ticks, waited>>

Retune(c) ==
    /\ c # ui.centre /\ ui' = [ui EXCEPT !.centre = c]
    /\ Edits /\ UNCHANGED <<tracker, shown>>

MoveCursor(p) ==
    /\ p # ui.tuned /\ ui' = [ui EXCEPT !.tuned = p]
    /\ Edits /\ UNCHANGED <<tracker, shown>>

Analyse ==
    /\ ui' = [ui EXCEPT !.on = ~@]
    /\ shown' = (IF ui.on THEN NoJob ELSE shown)
    /\ Edits /\ UNCHANGED tracker

Detect ==
    /\ ui' = [ui EXCEPT !.detect = ~@]
    /\ tracker' = (IF ui.detect THEN [tracker EXCEPT !.tracks = <<>>] ELSE tracker)
    /\ Edits /\ UNCHANGED shown

Modulation(m) ==
    /\ m # ui.setting /\ ui' = [ui EXCEPT !.setting = m]
    /\ shown' = NoJob
    /\ Edits /\ UNCHANGED tracker

\* A backend opened anew counts its frames from zero; nothing of the app's
\* own changes.
Reconnect ==
    /\ used.links < MaxLinks /\ used' = [used EXCEPT !.links = @ + 1]
    /\ clock > 0 /\ clock' = 0
    /\ UNCHANGED <<ui, tracker, lab, job, done, shown, ticks, waited>>

Init ==
    /\ ui \in [centre : Centres, tuned : {Min(Places)}, on : {TRUE}, detect : {TRUE}, setting : Settings]
    /\ tracker = [tracks |-> <<>>, next |-> 1, centre |-> ui.centre]
    /\ clock = 0 /\ lab = [busy |-> FALSE, next |-> 0]
    /\ job = NoJob /\ done = NoJob /\ shown = NoJob
    /\ ticks = 0 /\ waited = 0 /\ used = [links |-> 0, edits |-> 0]

Next ==
    \/ \E places \in Detections : Frame(places)
    \/ Finish \/ Analyse \/ Detect \/ Reconnect
    \/ \E c \in Centres : Retune(c)
    \/ \E p \in Places : MoveCursor(p)
    \/ \E m \in Settings : Modulation(m)

Spec == Init /\ [][Next]_vars

-----------------------------------------------------------------------------
(* Correctness properties.                                                 *)

\* What the lab shows was measured under the setting and, once a frame was
\* seen there, at the centre that are set now: a run that was on its way
\* when either changed, or changed and changed back, is not shown for it.
ShownIsCurrent ==
    shown # NoJob =>
        /\ ui.on /\ shown.setting = ui.setting
        /\ ui.detect => shown.centre = tracker.centre

\* analysis.rs: "Identity of the signal measured: the tracker's id, never
\* reused in a session": a run's track is alive under the centre it was
\* measured at, or gone.
IdentityIsUnique ==
    shown # NoJob =>
        \A i \in DOMAIN tracker.tracks :
            tracker.tracks[i].id = shown.track => tracker.centre = shown.centre

(* Expectations the code does not meet once the link drops.                *)

\* sdr/mod.rs: "forgotten after 1 s unseen".
GhostsAreForgotten ==
    \A i \in DOMAIN tracker.tracks : ticks - 1 - tracker.tracks[i].seen <= Hold

\* analysis.rs: a run starts "if none is in flight and `EVERY` frames have
\* passed since the last one".
LabRunsAgain == waited < Every
=============================================================================
