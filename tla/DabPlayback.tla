---------------------------- MODULE DabPlayback ----------------------------
(***************************************************************************)
(* DAB playback: the app feeds each IQ chunk to the receiver, hands the    *)
(* logical frames of the playing service to a worker thread over a bounded *)
(* queue, moves the worker's blocks to the output device, which the        *)
(* demodulator shares, and ends playback whenever the table it rests on    *)
(* goes.                                                                   *)
(*                                                                         *)
(* The receiver is DabReceiver's: here it is locked or not, holds a table  *)
(* or not, and emits a logical frame once it is past its warm-up, which no *)
(* chunk is long enough to complete.  Samples are numbered by seam: the    *)
(* holes in the stream so far.                                             *)
(***************************************************************************)
EXTENDS Naturals, Sequences, FiniteSets

CONSTANTS
    Services,    \* SIds of the ensemble
    Refused,     \* those spec_for finds no playable stream for
    Modes,       \* demodulator modes
    WarmUp,      \* chunks from a seam to the first logical frame
    JobCap,      \* the worker's job queue (256)
    OutCap,      \* its result queue (64)
    Prime,       \* blocks of the start-up cushion
    SinkCap,     \* blocks the device's queue holds
    MaxSeams,    \* bound on the holes of a behaviour
    None

\* DabState's receiver, and the worker with its stream; a job is a logical
\* frame, by its seam, or a reset, and memory is the seams whose samples the
\* transport, the codec and the converter hold.
Receivers == [locked : BOOLEAN, table : BOOLEAN, warm : Nat]
Jobs      == [reset : BOOLEAN, seam : Nat]
Streams   == [memory : SUBSET Nat, held : Nat, primed : BOOLEAN, decoded : BOOLEAN,
              state : {"starting", "playing", "error"}]
Workers   == [sid : Services, jobs : Seq(Jobs), out : Nat, stream : Streams]

PlaybackAssumption ==
    /\ Refused \subseteq Services /\ WarmUp \in Nat \ {0}
    /\ JobCap \in Nat \ {0} /\ OutCap \in Nat \ {0}
    /\ Prime \in Nat \ {0} /\ SinkCap \in Nat \ {0} /\ MaxSeams \in Nat
    /\ Services \cap Modes = {} /\ None \notin Services \cup Modes \cup Receivers \cup Workers

VARIABLES
    rx,       \* the receiver: None, or [locked, table, warm]
    service,  \* the selected service
    audio,    \* the worker: None, or its sid, queues, memory and status
    demod,    \* the demodulator's mode
    sink,     \* the device's queue, each block by who made it
    gone,     \* GoneCause of the last loss
    seam

vars == <<rx, service, audio, demod, sink, gone, seam>>

FreshRx == [locked |-> FALSE, table |-> FALSE, warm |-> 0]

FreshStream == [memory |-> {}, held |-> 0, primed |-> FALSE, decoded |-> FALSE, state |-> "starting"]
Job(reset) == [reset |-> reset, seam |-> seam']
Worker(sid) == [sid |-> sid, jobs |-> <<>>, out |-> 0, stream |-> FreshStream]

Locked == rx # None /\ rx.locked

AudioOwner == IF audio # None THEN "dab" ELSE IF demod # None THEN "demod" ELSE "idle"

\* Shared::push: beyond the queue's depth the oldest goes.
Pushed(n, by) ==
    LET all == sink \o [k \in 1..n |-> by]
    IN SubSeq(all, IF Len(all) > SinkCap THEN Len(all) - SinkCap + 1 ELSE 1, Len(all))

\* Changed form: playback goes, what it queued stays.
StopsWithTail == audio' = None /\ UNCHANGED sink

\* What every path that ends playback does.
StopPlayback == audio' = None /\ sink' = IF audio # None THEN <<>> ELSE sink

-----------------------------------------------------------------------------
(* The app's feed: one IQ chunk.                                           *)

\* Changed form: a selection survives the loss of the lock.
KeepSelection == UNCHANGED <<audio, sink, service>>

\* DabState::forget_selection: the table went under a selection.
ForgetSelection == StopPlayback /\ service' = None

GoneAfter(locked, held) ==
    CASE locked -> None
      [] ~locked /\ held -> "expired"
      [] ~locked /\ ~held /\ gone = "no_input" -> None
      [] OTHER -> gone

\* One job for the worker, lost when its queue is full (try_send).
Sent(a, job) == IF Len(a.jobs) < JobCap THEN [a EXCEPT !.jobs = Append(@, job)] ELSE a

\* A decoded frame for the playing service: the worker is told of the seam
\* first - but a spliced chunk decodes no frame, and the next is not spliced.
Handed(spliced) ==
    IF audio = None THEN audio
    ELSE Sent(IF spliced THEN Sent(audio, Job(TRUE)) ELSE audio, Job(FALSE))

\* dab::feed: the chunk may be spliced; the receiver may gain or lose its
\* lock, and its table with it.
Feed(spliced, locked, table) ==
    /\ rx # None /\ (locked => table)
    /\ spliced => seam < MaxSeams
    /\ LET warm == IF spliced THEN 0 ELSE rx.warm
           decodes == warm >= WarmUp
       IN /\ seam' = IF spliced THEN seam + 1 ELSE seam
          /\ rx' = [locked |-> locked, table |-> table,
                    warm |-> IF warm < WarmUp THEN warm + 1 ELSE warm]
          /\ gone' = GoneAfter(locked, rx.locked)
          /\ IF ~locked /\ service # None THEN ForgetSelection
             ELSE /\ audio' = IF decodes THEN Handed(spliced) ELSE audio
                  /\ UNCHANGED <<sink, service>>
    /\ UNCHANGED demod

-----------------------------------------------------------------------------
(* The worker thread: one job.                                             *)

\* push_block, n of them: the result queue takes what it has room for.
Delivered(a, n) ==
    [a EXCEPT !.out = IF @ + n > OutCap THEN OutCap ELSE @ + n, !.stream.state = "playing"]

\* SinkFeed::emit: held until the cushion is full, then all at once.
Emitted(a) ==
    CASE a.stream.primed -> Delivered(a, 1)
      [] ~a.stream.primed /\ a.stream.held + 1 < Prime -> [a EXCEPT !.stream.held = @ + 1]
      [] OTHER -> Delivered([a EXCEPT !.stream.held = 0, !.stream.primed = TRUE], Prime)

\* One logical frame: no access unit yet, one decoded, one damaged, or, before
\* the first decode, the verdict that the stream is not what was signalled.
FrameDone(a, tag, outcome) ==
    LET fed == [a EXCEPT !.stream.memory = @ \cup {tag}]
    IN CASE outcome = "decoded" -> Emitted([fed EXCEPT !.stream.decoded = TRUE])
         [] outcome = "failed" /\ ~a.stream.decoded -> [fed EXCEPT !.stream.state = "error"]
         [] OTHER -> fed

WorkerStep ==
    /\ audio # None /\ audio.jobs # <<>>
    /\ LET job == Head(audio.jobs)
           rest == [audio EXCEPT !.jobs = Tail(@)]
       IN \E outcome \in {"nothing", "decoded", "failed"} :
             audio' = CASE job.reset -> [rest EXCEPT !.stream = FreshStream]
                        [] ~job.reset /\ rest.stream.state = "error" -> rest
                        [] OTHER -> FrameDone(rest, job.seam, outcome)
    /\ UNCHANGED <<rx, service, demod, sink, gone, seam>>

-----------------------------------------------------------------------------
(* The app's frame and the operator's verbs.                               *)

\* dab_audio::drain: the finished blocks go to the device.
Drain ==
    /\ audio # None /\ audio.out > 0
    /\ sink' = Pushed(audio.out, audio.sid)
    /\ audio' = [audio EXCEPT !.out = 0]
    /\ UNCHANGED <<rx, service, demod, gone, seam>>

\* audio::feed: the demodulated channel, unless another owns the device.
Demodulate ==
    /\ demod # None
    /\ sink' = IF AudioOwner = "demod" THEN Pushed(1, demod) ELSE sink
    /\ UNCHANGED <<rx, service, audio, demod, gone, seam>>

\* The device's callback takes the oldest block.
DevicePlays ==
    /\ sink # <<>> /\ sink' = Tail(sink)
    /\ UNCHANGED <<rx, service, audio, demod, gone, seam>>

\* `sdr dab service`: selecting another while one plays restarts playback, or
\* ends it where the new stream is refused.
SelectService(s) ==
    /\ Locked
    /\ service' = s
    /\ IF audio = None THEN UNCHANGED <<audio, sink>>
       ELSE audio' = (IF s \in Refused THEN None ELSE Worker(s)) /\ sink' = <<>>
    /\ UNCHANGED <<rx, demod, gone, seam>>

\* `sdr dab play`
Play ==
    /\ Locked /\ service # None /\ service \notin Refused
    /\ audio # None => audio.sid # service
    /\ audio' = Worker(service) /\ sink' = <<>>
    /\ UNCHANGED <<rx, service, demod, gone, seam>>

\* `sdr dab stop`
Stop ==
    /\ audio # None /\ StopPlayback
    /\ UNCHANGED <<rx, service, demod, gone, seam>>

\* SdrState::dab_reset, as a retune, a rate change, a survey, a stopped
\* stream or another instrument calls it, `sdr dab on` and `sdr dab off`.
DabReset(on) ==
    /\ StopPlayback
    /\ service' = None /\ gone' = None
    /\ rx' = CASE on = "keep" /\ rx = None -> None
               [] on = "off" -> None
               [] OTHER -> FreshRx
    /\ UNCHANGED <<demod, seam>>

\* SdrState::dab_no_input: no chunk for NO_INPUT_TIMEOUT_S.
DabNoInput ==
    /\ rx # None
    /\ StopPlayback
    /\ service' = None /\ gone' = "no_input" /\ rx' = FreshRx
    /\ UNCHANGED <<demod, seam>>

\* `sdr demod`: a change of mode drops what is queued.
Demod(mode) ==
    /\ mode # demod
    /\ demod' = mode /\ sink' = <<>>
    /\ UNCHANGED <<rx, service, audio, gone, seam>>

-----------------------------------------------------------------------------
Init ==
    /\ rx = None /\ service = None /\ audio = None /\ demod = None
    /\ sink = <<>> /\ gone = None /\ seam = 0

Next ==
    \/ \E spliced, locked, table \in BOOLEAN : Feed(spliced, locked, table)
    \/ WorkerStep \/ Drain \/ Demodulate \/ DevicePlays
    \/ \E s \in Services : SelectService(s)
    \/ Play \/ Stop
    \/ \E on \in {"keep", "on", "off"} : DabReset(on)
    \/ DabNoInput
    \/ \E mode \in Modes \cup {None} : Demod(mode)

Spec == Init /\ [][Next]_vars

-----------------------------------------------------------------------------
(* Correctness properties.                                                 *)

\* One voice: everything queued at the device was made by its present owner,
\* the playing service or the demodulator's mode; nobody's tail plays on.
OneVoice ==
    \A k \in 1..Len(sink) :
        sink[k] = CASE AudioOwner = "dab" -> audio.sid [] AudioOwner = "demod" -> demod [] OTHER -> None

\* What plays is what is selected, out of a table that is still published.
PlaysTheSelection ==
    /\ service # None => Locked
    /\ audio # None => audio.sid = service

\* What the comment in feed says of a splice: "The playback worker's
\* transports restart with them: a seam is not a signal."
NoMixedHistory == audio # None => Cardinality(audio.stream.memory) <= 1

\* What the comment on GoneCause says: expired is the receiver's table gone.
ExpiredIsGone == gone = "expired" /\ rx # None => ~rx.table
=============================================================================
