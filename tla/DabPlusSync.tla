---------------------------- MODULE DabPlusSync ----------------------------
(***************************************************************************)
(* DAB+ super-frame synchronisation: the search for the logical frame that *)
(* starts a super frame, its confirmation, the run of bad windows that     *)
(* gives an alignment up, and the verdict that the stream is not DAB+.     *)
(*                                                                         *)
(* A window passes the Fire code when its first logical frame starts an    *)
(* undamaged super frame, or by chance.                                    *)
(***************************************************************************)
EXTENDS Naturals, Sequences

CONSTANTS
    Frames,          \* logical frames of a super frame (5)
    ConfirmWindows,  \* CONFIRM_WINDOWS
    ResyncAfterBad,  \* RESYNC_AFTER_BAD
    ShapeVerdict     \* SHAPE_VERDICT_SUPERFRAMES

SyncAssumption ==
    /\ Frames \in Nat \ {0, 1} /\ ConfirmWindows \in Nat \ {0}
    /\ ResyncAfterBad \in Nat \ {0} /\ ShapeVerdict \in Nat

VARIABLES
    sync,   \* DabPlusSync
    next,   \* the place in its super frame of the logical frame on the air
    clean,  \* logical frames since the last disturbance, up to Enough
    proved  \* the stream was clean for Enough logical frames once

vars == <<sync, next, clean, proved>>

\* The longest a clean stream takes to be found: the windows that give up a
\* wrong alignment, two that cover every phase, and the confirmation.
Enough == (ResyncAfterBad + 2 + ConfirmWindows) * Frames

Budget == ShapeVerdict * Frames
Capped(n, most) == IF n < most THEN n ELSE most

FreshSync == [pending |-> <<>>, phase |-> 0, aligned |-> FALSE, confirming |-> 0, bad |-> 0,
              ever |-> FALSE, searched |-> 0]

FireOk(frame) == frame.chance \/ (frame.at = 0 /\ frame.ok)

Searching(s) == ~s.aligned /\ s.confirming = 0
Phase(s) == IF Searching(s) THEN s.phase ELSE 0
Drop(s, n) == [s EXCEPT !.pending = SubSeq(@, n + 1, Len(@))]

\* A clean window.
Passed(s) ==
    LET rest == Drop(s, Phase(s) + Frames)
    IN IF s.aligned THEN [rest EXCEPT !.bad = 0]
       ELSE IF s.confirming + 1 >= ConfirmWindows
       THEN [rest EXCEPT !.aligned = TRUE, !.confirming = 0, !.ever = TRUE, !.phase = 0]
       ELSE [rest EXCEPT !.confirming = @ + 1, !.phase = 0]

\* Changed form: the run of bad windows never ends an alignment.
BadKept(s) ==
    LET rest == Drop(s, Frames)
    IN IF ~s.aligned THEN [rest EXCEPT !.confirming = 0, !.phase = 1] ELSE rest

\* A bad window on an alignment, or on one being confirmed.
Bad(s) ==
    LET rest == Drop(s, Frames)
    IN IF ~s.aligned THEN [rest EXCEPT !.confirming = 0, !.phase = 1]
       ELSE IF s.bad + 1 >= ResyncAfterBad
       THEN [rest EXCEPT !.aligned = FALSE, !.bad = 0, !.phase = 1]
       ELSE [rest EXCEPT !.bad = @ + 1]

\* A bad window of the search: the next phase, or one logical frame is given up.
Missed(s) ==
    IF s.phase + 1 < Frames THEN [s EXCEPT !.phase = @ + 1]
    ELSE [Drop(s, 1) EXCEPT !.phase = 0, !.searched = Capped(@ + 1, Budget)]

\* push(): windows are taken while there is a whole one.
RECURSIVE Settled(_)
Settled(s) ==
    IF Len(s.pending) < Phase(s) + Frames THEN s
    ELSE Settled(IF FireOk(s.pending[Phase(s) + 1]) THEN Passed(s)
                 ELSE IF Searching(s) THEN Missed(s) ELSE Bad(s))

\* Changed form: the verdict does not remember an alignment.
ShapeForgets(s) == ~s.aligned /\ s.searched >= Budget

ShapeMismatch(s) == ~s.ever /\ s.searched >= Budget

Push(frame) == sync' = Settled([sync EXCEPT !.pending = Append(@, frame)])

-----------------------------------------------------------------------------
\* The next logical frame arrives, undamaged.
Clean ==
    /\ Push([at |-> next, ok |-> TRUE, chance |-> FALSE])
    /\ next' = (next + 1) % Frames
    /\ clean' = Capped(clean + 1, Enough)
    /\ proved' = (proved \/ clean' = Enough)

\* Damaged, passing the Fire code by chance, or after frames were lost.
Disturbed ==
    \E at \in 0..(Frames - 1), ok, chance \in BOOLEAN :
        /\ at # 0 => ok
        /\ Push([at |-> at, ok |-> ok, chance |-> chance])
        /\ next' = (at + 1) % Frames
        /\ clean' = 0
        /\ UNCHANGED proved

Init == sync = FreshSync /\ next \in 0..(Frames - 1) /\ clean = 0 /\ proved = FALSE
Next == Clean \/ Disturbed
Spec == Init /\ [][Next]_vars

-----------------------------------------------------------------------------
(* Correctness properties.                                                 *)

\* Where the next window starts in the stream.
AtBoundary == IF sync.pending = <<>> THEN next = 0 ELSE Head(sync.pending).at = 0

\* Whatever came before - lost frames, chance hits, a wrong alignment - a
\* stream that stays clean is aligned, at a super frame, within Enough
\* logical frames.
CleanStreamIsFound == clean = Enough => sync.aligned /\ AtBoundary

\* A stream that was clean long enough once is never declared not DAB+.
RealStreamNotCondemned == proved => ~ShapeMismatch(sync)
=============================================================================
