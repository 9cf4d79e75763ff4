---------------------------- MODULE DabReceiver ----------------------------
(***************************************************************************)
(* The DAB receiver, one frame attempt at a time: the frame grid and its   *)
(* soft misses, the ensemble table with its expiry and its lock window,    *)
(* and one sub-channel's time de-interleaver, which must never mix logical *)
(* frames from the two sides of a hole in the stream.                      *)
(*                                                                         *)
(* Of the samples, an attempt's PRS score is kept: "good" (PRS_METRIC_MIN  *)
(* or more), "fade", or "noise" (below CLOCK_LOST_METRIC).  Of a FIC       *)
(* frame, whether its FIBs pass their CRC, all or none, and the            *)
(* sub-channel plan they signal.                                           *)
(***************************************************************************)
EXTENDS Naturals, Sequences, FiniteSets

CONSTANTS
    ClockStrikes,  \* CLOCK_STRIKES
    TableExpiry,   \* TABLE_EXPIRY_FRAMES
    LockWindow,    \* LOCK_WINDOW_FRAMES
    Depth,         \* transmission frames of the de-interleaver's warm-up (4)
    Plans,         \* places a sub-channel can have in the multiplex
    NoTable        \* the empty ensemble table

ASSUME ReceiverAssumption ==
    /\ ClockStrikes \in Nat \ {0} /\ TableExpiry \in Nat \ {0}
    /\ LockWindow \in Nat \ {0} /\ Depth \in Nat \ {0}
    /\ NoTable \notin Plans

VARIABLES
    grid,      \* next_frame is known: the next attempt is at the predicted start
    misses,    \* clock_misses
    since,     \* frames_since_accept, counted to TableExpiry
    window,    \* FicState.window: was each accepted frame clean
    table,     \* FicState.ensemble: the plan it signals, or NoTable
    handler,   \* MscDecoder: the plan its handler was built from, or NoTable
    received,  \* frames in the handler's de-interleaver, up to Depth + 1
    joined,    \* frames of that plan on the air, in one piece, that ended with
               \* the last one pushed, up to Depth + 1
    deaf,      \* attempts since one was accepted, up to TableExpiry
    heard      \* clean good attempts in a row, up to Enough

vars == <<grid, misses, since, window, table, handler, received, joined, deaf, heard>>

Least(a, b) == IF a < b THEN a ELSE b
Enough == IF LockWindow > Depth + 1 THEN LockWindow ELSE Depth + 1

\* is_locked: a whole window, half of it clean, and an ensemble.
CleanFrames == Cardinality({i \in 1..Len(window) : window[i]})
IsLocked == Len(window) = LockWindow /\ 2 * CleanFrames >= LockWindow /\ table # NoTable

\* Changed form: a full window keeps what it has.
SlidUntilFull(clean) == IF Len(window) < LockWindow THEN Append(window, clean) ELSE window

\* The lock window with one more frame.
Slid(clean) ==
    LET grown == Append(window, clean)
    IN IF Len(grown) > LockWindow THEN Tail(grown) ELSE grown

\* FicState::expire
Expire == table' = NoTable /\ window' = <<>>

\* MscDecoder::sync with the table as it stands, then push_frame.  A handler
\* built from another plan is replaced, one without a table is dropped.
SyncAndPush(plan) ==
    /\ handler' = plan
    /\ received' = IF plan = NoTable THEN 0
                   ELSE Least((IF handler = plan THEN received ELSE 0) + 1, Depth + 1)
    /\ joined' = Least((IF grid /\ handler = plan THEN joined ELSE 0) + 1, Depth + 1)

\* Changed form: the de-interleaver keeps its history.
KeptHistory == UNCHANGED received

\* MscDecoder::discard
Discard == received' = 0

\* The grid is given up and the search starts again.
GiveUpGrid == grid' = FALSE /\ misses' = 0 /\ Discard

-----------------------------------------------------------------------------
\* A frame the PRS accepts: its FIC is decoded, then its MSC.
Accepted(clean, plan) ==
    /\ since' = 0 /\ deaf' = 0 /\ misses' = 0
    /\ window' = Slid(clean)
    /\ table' = IF clean THEN plan ELSE table
    /\ SyncAndPush(table')
    /\ grid' = TRUE
    /\ heard' = IF clean /\ plan = table THEN Least(heard + 1, Enough)
                ELSE IF clean THEN 1 ELSE 0

\* Changed form: an attempt counts only while it is on the grid.
CountRejectedOnGrid ==
    /\ since' = IF grid THEN Least(since + 1, TableExpiry) ELSE since
    /\ IF since + 1 = TableExpiry /\ grid THEN Expire ELSE UNCHANGED <<table, window>>

\* An attempt that is not accepted; the table expires with the last of a run.
CountRejected ==
    /\ since' = Least(since + 1, TableExpiry)
    /\ IF since + 1 = TableExpiry THEN Expire ELSE UNCHANGED <<table, window>>

\* A weak frame on the grid: its MSC is pushed, its FIC is not.  On the last
\* strike the history goes, the frame is pushed, and the grid is kept.
Fade ==
    /\ grid
    /\ CountRejected
    /\ deaf' = Least(deaf + 1, TableExpiry) /\ heard' = 0
    /\ grid' = TRUE
    /\ IF misses + 1 >= ClockStrikes
       THEN /\ misses' = 0
            /\ handler' = table'
            /\ received' = IF table' = NoTable THEN 0 ELSE 1
            /\ joined' = Least((IF handler = table' THEN joined ELSE 0) + 1, Depth + 1)
       ELSE misses' = misses + 1 /\ SyncAndPush(table')

\* Noise, or anything not accepted off the grid: the search goes on.
Lost(score) ==
    /\ score = "fade" => ~grid
    /\ CountRejected
    /\ deaf' = Least(deaf + 1, TableExpiry) /\ heard' = 0
    /\ GiveUpGrid /\ joined' = 0
    /\ UNCHANGED handler

\* discard_buffer: the owner saw a hole in the stream; the table stays.
DiscardBuffer ==
    /\ GiveUpGrid /\ joined' = 0 /\ heard' = 0
    /\ UNCHANGED <<since, window, table, handler, deaf>>

\* no_input: the stream stopped.
NoInput ==
    /\ Expire /\ GiveUpGrid
    /\ since' = 0 /\ deaf' = 0 /\ joined' = 0 /\ heard' = 0
    /\ UNCHANGED handler

\* reset: a retune, a rate change, another instrument.
Reset ==
    /\ Expire /\ GiveUpGrid
    /\ handler' = NoTable
    /\ since' = 0 /\ deaf' = 0 /\ joined' = 0 /\ heard' = 0

Init ==
    /\ grid = FALSE /\ misses = 0 /\ since = 0 /\ window = <<>>
    /\ table = NoTable /\ handler = NoTable
    /\ received = 0 /\ joined = 0 /\ deaf = 0 /\ heard = 0

Next ==
    \/ \E clean \in BOOLEAN, plan \in Plans : Accepted(clean, plan)
    \/ Fade
    \/ \E score \in {"fade", "noise"} : Lost(score)
    \/ DiscardBuffer \/ NoInput \/ Reset

Spec == Init /\ [][Next]_vars

-----------------------------------------------------------------------------
(* Correctness properties.                                                 *)

\* The de-interleaver never holds more frames than arrived in one piece under
\* its plan: what it emits after its warm-up mixes no two sides of a hole and
\* no two plans.
HistoryIsWhole == received <= joined

\* A table is never older than TableExpiry attempts without an accepted frame.
TableIsHeard == table # NoTable => deaf < TableExpiry

\* After any history - fades, holes, other ensembles - a signal heard cleanly
\* for Enough frames is locked, and its sub-channel past the warm-up.
GoodSignalIsPublished == heard = Enough => IsLocked /\ received = Depth + 1

\* What the comment on CLOCK_STRIKES says: the last strike of a run gives the
\* grid up.  (The code gives it up and takes it back in the same step.)
StrikesGiveUpGrid ==
    [][misses = ClockStrikes - 1 /\ misses' = 0 /\ deaf' # 0 => ~grid']_vars
=============================================================================
