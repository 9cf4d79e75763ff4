---------------------------- MODULE AudioInput -----------------------------
(***************************************************************************)
(* The sound card as an oscilloscope: the ring the audio callback fills    *)
(* and cuts when nobody comes for it, the capture clock that counts the    *)
(* samples taken out of it, and the host's own trigger.                    *)
(*                                                                         *)
(* A sample frame is its number since the stream began; of its voltage     *)
(* only the side of the trigger level is kept.                             *)
(***************************************************************************)
EXTENDS Integers, Sequences

CONSTANTS
    Chunk,        \* CHUNK
    MaxBuffered,  \* MAX_BUFFERED, in sample frames
    Callbacks,    \* how many sample frames one callback may bring
    Configs,      \* sweep, where the crossing is asked for (position * CHUNK), source
    Channels,     \* the channels a device may have
    Signals,      \* the side of the level of every sample frame
    MaxMade       \* bound: sample frames recorded

AudioAssumption ==
    /\ Chunk \in Nat \ {0} /\ MaxBuffered \in Nat /\ Callbacks \subseteq Nat \ {0}
    /\ Configs \subseteq [normal : BOOLEAN, want : 0..Chunk - 1, source : {0, 1}]
    /\ Channels \subseteq {1, 2}
    /\ \A s \in Signals : MaxMade <= Len(s)

VARIABLES
    device,    \* its channels and what it hears
    shared,    \* Shared: the ring, and the sample frames thrown away
    made,      \* sample frames recorded
    backend,   \* AudioBackend: pending, consumed, dropped_pending, and the config
    frame,     \* the last frame delivered
    lost,      \* sample frames thrown away
    told,      \* of those, declared by a frame
    hole,      \* the first sample frame after the last hole
    panicked

vars == <<device, shared, made, backend, frame, lost, told, hole, panicked>>

Without(s, n) == SubSeq(s, n + 1, Len(s))

NoFrame == [t |-> 0, data |-> <<>>, want |-> 0, triggered |-> FALSE, before |-> 0,
            after |-> 0]

-----------------------------------------------------------------------------
\* Too far behind: all but half a ring is thrown away.
Overrun(s) ==
    [s EXCEPT !.ring = Without(@, Len(@) - MaxBuffered \div 2),
              !.dropped = @ + Len(s.ring) - MaxBuffered \div 2]

Cuts == Len(shared.ring) > MaxBuffered

\* Shared::push, on the audio thread.
Push(n) ==
    /\ made + n <= MaxMade
    /\ LET s == IF Cuts THEN Overrun(shared) ELSE shared
       IN shared' = [s EXCEPT !.ring = @ \o [k \in 1..n |-> made + k - 1]]
    /\ lost' = IF Cuts THEN lost + Len(shared.ring) - MaxBuffered \div 2 ELSE lost
    /\ made' = made + n
    /\ UNCHANGED <<device, backend, frame, told, hole, panicked>>

-----------------------------------------------------------------------------
(* poll_frame, on the acquisition thread.                                  *)

\* lose: time that passed, and that the next frame reports.
Lose(b, n) == [b EXCEPT !.consumed = @ + n, !.dropped = @ + n]

\* drain: all of the ring, and what it had thrown away.
Drained == Lose([backend EXCEPT !.pending = @ \o shared.ring], shared.dropped)
DrainRing ==
    /\ shared' = [ring |-> <<>>, dropped |-> 0]
    /\ hole' = IF shared.dropped > 0 THEN Head(shared.ring) ELSE hole

Above(n) == device.hears[n + 1]
\* find_edge: where pending crosses the level upwards.  A channel the device
\* has not is empty.
Edges(b) ==
    {i \in 0..Len(b.pending) - 2 :
        b.cfg.source < device.channels /\ ~Above(b.pending[i + 1]) /\ Above(b.pending[i + 2])}

Waiting(b) == b.cfg.normal /\ Edges(b) = {}
\* Where the frame begins: the first crossing at its place, if there is room
\* before it; none while waiting.
Starts(b) ==
    IF ~b.cfg.normal THEN {0}
    ELSE {IF i >= b.cfg.want THEN i - b.cfg.want ELSE 0 :
            i \in {i \in Edges(b) : \A j \in Edges(b) : i <= j}}

\* take_frame
Taken(b, from) ==
    /\ frame' = [t |-> b.consumed + from, data |-> SubSeq(b.pending, from + 1, from + Chunk),
                 want |-> b.cfg.want, triggered |-> b.cfg.normal, before |-> b.dropped,
                 after |-> frame.t + Len(frame.data)]
    /\ told' = told + b.dropped
    /\ backend' = [b EXCEPT !.pending = Without(@, from + Chunk),
                            !.consumed = @ + from + Chunk, !.dropped = 0]

\* Never triggered: the oldest are cut.  The buffer of the channel that a
\* device with one channel has not is cut too, below zero.
Starved(b) ==
    LET cut == Len(b.pending) - 2 * Chunk
    IN IF device.channels = 1
       THEN panicked' = TRUE /\ backend' = b /\ UNCHANGED lost
       ELSE /\ backend' = Lose([b EXCEPT !.pending = Without(@, cut)], cut)
            /\ lost' = lost + cut /\ UNCHANGED panicked

Poll(b) ==
    \/ /\ Waiting(b) /\ Len(b.pending) > 4 * Chunk
       /\ Starved(b) /\ UNCHANGED <<frame, told>>
    \/ \E start \in Starts(b) :
          /\ start + Chunk <= Len(b.pending)
          /\ Taken(b, start) /\ UNCHANGED <<lost, panicked>>
    \/ /\ Waiting(b) => Len(b.pending) <= 4 * Chunk
       /\ \A start \in Starts(b) : start + Chunk > Len(b.pending)
       /\ backend' = b /\ UNCHANGED <<frame, told, lost, panicked>>

PollFrame == ~panicked /\ DrainRing /\ Poll(Drained) /\ UNCHANGED <<device, made>>

\* Nothing to drive: the config is how the stream is read from here on.
Apply(cfg) ==
    /\ ~panicked /\ cfg # backend.cfg
    /\ backend' = [backend EXCEPT !.cfg = cfg]
    /\ UNCHANGED <<device, shared, made, frame, lost, told, hole, panicked>>

-----------------------------------------------------------------------------
Init ==
    /\ device \in [channels : Channels, hears : Signals]
    /\ shared = [ring |-> <<>>, dropped |-> 0] /\ made = 0
    /\ \E cfg \in Configs :
          backend = [pending |-> <<>>, consumed |-> 0, dropped |-> 0, cfg |-> cfg]
    /\ frame = NoFrame /\ lost = 0 /\ told = 0 /\ hole = 0 /\ panicked = FALSE

Next ==
    \/ \E n \in Callbacks : Push(n)
    \/ PollFrame
    \/ \E cfg \in Configs : Apply(cfg)

Spec == Init /\ [][Next]_vars

-----------------------------------------------------------------------------
(* Correctness properties.                                                 *)

\* Shared::dropped_frames: "the capture clock and the frames it stamps have to
\* move over the hole": the next sample frame to be recorded will be stamped
\* with its own number, however many were thrown away by whom.
ClockIsKept ==
    backend.consumed + Len(backend.pending) + shared.dropped + Len(shared.ring) = made

\* Every sample frame thrown away is declared by a frame, once.
LossIsTold == told + backend.dropped + shared.dropped = lost

\* A frame is stamped with the number of its first sample, if that came after
\* the last hole, and is then without a seam.
StampedAfterHole ==
    frame.data # <<>> /\ frame.data[1] >= hole =>
        \A k \in 1..Chunk : frame.data[k] = frame.t + k - 1

\* Frames are stamped in order, and never one into the other.
StampsAdvance == frame.t >= frame.after

\* take_frame: "The first sample's time, exactly: a streaming source counts."
StampIsExact == frame.data # <<>> => frame.t = frame.data[1]

\* poll_frame: "Centre the crossing, as the trigger position asks."
CrossingIsCentred ==
    frame.triggered /\ frame.want + 2 <= Chunk =>
        ~Above(frame.data[frame.want + 1]) /\ Above(frame.data[frame.want + 2])

\* "Starve like a scope in Normal sweep".
StarvesQuietly == ~panicked
=============================================================================
