------------------------------ MODULE AutoState ------------------------------
(***************************************************************************)
(* The state file: read at launch, replayed through the script queue once  *)
(* an instrument is connected, re-emitted twice a second and written once  *)
(* it is stable, and at exit.  Edits, waits of the control socket, kills   *)
(* and writes that fail come in between.                                   *)
(*                                                                         *)
(* One step is one app frame: Update with the script and the edits, then   *)
(* autostate::tick in Last.  Time passes in units of CHECK_EVERY; a state  *)
(* is the text emit() makes of it.                                         *)
(***************************************************************************)
EXTENDS Naturals

CONSTANTS
    Texts,       \* states the operator sets
    Fresh,       \* the state a launch starts in
    NoText,      \* no file, and an empty last_written
    Debounce,    \* DEBOUNCE, in checks
    Timeout,     \* RESTORE_TIMEOUT, in checks
    MaxTime,     \* bound: checks of a launch
    MaxEdits, MaxLaunches, MaxFails, MaxWaits   \* bounds

ASSUME AutoStateAssumption ==
    /\ Fresh \in Texts /\ NoText \notin Texts
    /\ {Debounce, Timeout, MaxTime, MaxEdits, MaxLaunches, MaxFails, MaxWaits} \subseteq Nat

VARIABLES
    file,     \* state.nws
    up,       \* the process runs
    live,     \* the state, as its text
    st,       \* AutoState: saved, restored, written (last_written), pending, since
    queue,    \* the script queue: checks its front still waits, and the text behind it
    linked,   \* link.caps
    now,      \* the clock, in checks
    seen,     \* the state the last check of a save saw, and how many before saw it too
    opened,   \* what the launch found in the file
    used      \* bounds, and what happened: edits, launches, fails, waits

vars == <<file, up, live, st, queue, linked, now, seen, opened, used>>

-----------------------------------------------------------------------------
Fields(saved, restored, written) ==
    [saved |-> saved, restored |-> restored, written |-> written,
     pending |-> NoText, since |-> 0]

\* Changed form: nothing is waited for before the first save.
OpenedRestored(text) == Fields(text, TRUE, text)
\* from_env: what the file holds is what was last written.
Opened(text) == Fields(text, text = NoText, text)

\* write(): the text counts as written whether or not it is on disk.
Save(text, s, done) ==
    /\ done \/ used.fails < MaxFails
    /\ file' = IF done THEN text ELSE file
    /\ st' = [s EXCEPT !.written = text]
    /\ used' = [used EXCEPT !.fails = @ + (IF done THEN 0 ELSE 1)]

Restores(time) == linked \/ time > Timeout

\* Changed form: an exit waits for the text to be stable, too.
DueWhenStable(s, time, exiting) == time - s.since >= Debounce
Due(s, time, exiting) == exiting \/ time - s.since >= Debounce

\* tick, when it is due or the app exits: text is what emit() makes.
Tick(text, time, exiting, done) ==
    IF ~st.restored
    THEN /\ st' = IF Restores(time) THEN [st EXCEPT !.restored = TRUE, !.saved = NoText] ELSE st
         /\ UNCHANGED <<file, used>>
    ELSE IF text = st.written THEN UNCHANGED <<file, st, used>>
    ELSE LET s == IF text = st.pending THEN st
                  ELSE [st EXCEPT !.pending = text, !.since = time]
         IN IF Due(s, time, exiting) THEN Save(text, s, done)
            ELSE st' = s /\ UNCHANGED <<file, used>>

\* restore(): the saved text goes to the back of the queue.
Injected(time) == ~st.restored /\ Restores(time)

\* run_script: what is due at the front of the queue is applied.
Ran == IF queue.text # NoText /\ queue.wait = 0 THEN queue.text ELSE live
Left == IF queue.wait = 0 THEN NoText ELSE queue.text

-----------------------------------------------------------------------------
(* Frames.                                                                 *)

\* A frame in which half a second has passed.
Check(done) ==
    /\ up /\ now < MaxTime /\ now' = now + 1
    /\ live' = Ran
    /\ Tick(live', now', FALSE, done)
    /\ queue' = [wait |-> IF queue.wait = 0 THEN 0 ELSE queue.wait - 1,
                 text |-> IF Injected(now') THEN st.saved ELSE Left]
    /\ seen' = IF st.restored
               THEN [text |-> live', for |-> IF live' = seen.text THEN seen.for + 1 ELSE 0]
               ELSE seen
    /\ UNCHANGED <<up, linked, opened>>

\* A frame between two checks, with an edit.
Edit(text) ==
    /\ up /\ used.edits < MaxEdits /\ text # Ran
    /\ live' = text
    /\ queue' = [queue EXCEPT !.text = Left]
    /\ used' = [used EXCEPT !.edits = @ + 1]
    /\ UNCHANGED <<file, up, st, linked, now, seen, opened>>

\* A frame between two checks that only runs the script.
RunScript ==
    /\ up /\ queue.text # NoText /\ queue.wait = 0
    /\ live' = Ran /\ queue' = [queue EXCEPT !.text = NoText]
    /\ UNCHANGED <<file, up, st, linked, now, seen, opened, used>>

\* A line of the control socket that waits.
Wait(checks) ==
    /\ up /\ used.waits < MaxWaits /\ queue = [wait |-> 0, text |-> NoText]
    /\ queue' = [queue EXCEPT !.wait = checks]
    /\ used' = [used EXCEPT !.waits = @ + 1]
    /\ UNCHANGED <<file, up, live, st, linked, now, seen, opened>>

Connect ==
    /\ up /\ linked' = ~linked
    /\ UNCHANGED <<file, up, live, st, queue, now, seen, opened, used>>

\* The exit's frame: the script, then the save.
Exit(done) ==
    /\ up /\ up' = FALSE
    /\ live' = Ran
    /\ Tick(live', now, TRUE, done)
    /\ queue' = [queue EXCEPT !.text = IF Injected(now) THEN st.saved ELSE Left]
    /\ UNCHANGED <<linked, now, seen, opened>>

\* The write is atomic, so that a kill leaves the file as it was.
Kill ==
    /\ up /\ up' = FALSE /\ live' = NoText
    /\ UNCHANGED <<file, st, queue, linked, now, seen, opened, used>>

Launch ==
    /\ ~up /\ used.launches < MaxLaunches
    /\ up' = TRUE /\ live' = Fresh /\ st' = Opened(file) /\ opened' = file
    /\ queue' = [wait |-> 0, text |-> NoText] /\ linked' = FALSE
    /\ now' = 0 /\ seen' = [text |-> NoText, for |-> 0]
    /\ used' = [edits |-> 0, launches |-> used.launches + 1, fails |-> 0, waits |-> 0]
    /\ UNCHANGED file

Init ==
    /\ file \in Texts \cup {NoText}
    /\ up = FALSE /\ live = NoText /\ st = Opened(file) /\ opened = file
    /\ queue = [wait |-> 0, text |-> NoText] /\ linked = FALSE
    /\ now = 0 /\ seen = [text |-> NoText, for |-> 0]
    /\ used = [edits |-> 0, launches |-> 0, fails |-> 0, waits |-> 0]

Next ==
    \/ \E done \in BOOLEAN : Check(done) \/ Exit(done)
    \/ \E text \in Texts : Edit(text)
    \/ \E checks \in {1, MaxTime} : Wait(checks)
    \/ RunScript \/ Connect \/ Kill \/ Launch

Spec == Init /\ [][Next]_vars

-----------------------------------------------------------------------------
(* Correctness properties.                                                 *)

\* autostate.rs: "Nothing is saved before then, or the defaults would
\* overwrite the file": a launch in which nothing was edited leaves the file
\* as it found it, however it ends and whenever an instrument comes and goes
\* - as long as no line that waits is in front of what is restored.
SavedIsKept ==
    opened # NoText /\ used.edits = 0 /\ used.waits = 0 => file = opened

\* "Saving is ... synchronous on exit", and what stays as it is reaches the
\* file by itself: with no write failed, a state is on disk after an exit,
\* and at the check DEBOUNCE after the first that saw it.
StateIsSaved ==
    st.restored /\ used.fails = 0 /\ live # NoText /\ queue.text = NoText
       /\ (~up \/ (seen.text = live /\ seen.for >= Debounce)) => file = live

(* Expectations the code does not meet.                                    *)

\* autostate.rs: "written once it has been stable for `DEBOUNCE`".
WrittenWhenStable ==
    [][file' # file /\ up' => seen'.for >= Debounce]_vars

\* "Nothing is saved before then", whatever the script queue does.
SavedIsKeptAlways == opened # NoText /\ used.edits = 0 => file = opened

\* "then keep the file current": a failed write is made up for at exit.
ExitSaves == [][\A text \in Texts : up /\ ~up' /\ live' = text /\ st.restored
                    /\ used'.fails = used.fails => file' = text]_vars
=============================================================================
