----------------------------- MODULE RtlBackend -----------------------------
(***************************************************************************)
(* The RTL-SDR backend: the settings it applies to the dongle, the reader  *)
(* thread that keeps the USB stream moving, and poll_frame, which turns    *)
(* the reader's chunks into frames and accounts for every one that is not  *)
(* delivered.                                                              *)
(*                                                                         *)
(* One chunk is one unit of time.  Settings are written between two steps  *)
(* of the reader: the chunk that was filling then is mixed.                *)
(***************************************************************************)
EXTENDS Naturals, Sequences, FiniteSets

CONSTANTS
    Rates, Centres, Gains, Ppms,
    Hf,        \* the centres below TUNER_MIN_HZ, served by direct sampling
    CalLo,     \* FILT_CAL_LO_HZ, where the tuner calibrates its filter
    QueueCap,  \* QUEUE
    MaxMade,   \* bound: chunks the dongle ever makes
    Asked(_),  \* which configurations are asked for
    None

\* SdrConfig; the RTL2832's own AGC is switched like a gain.
Config == [rate : Rates, centre : Centres, gain : Gains, ppm : Ppms, running : BOOLEAN]
\* The widest choice of what is asked for.
IsConfig(c) == c \in Config

\* What is in the queue of a Stream, and the Stream.
Messages == [is : {"iq", "lost"}, mixed : BOOLEAN]
Streams == [queue : Seq(Messages), lost : Nat, reader : {"live", "failed", "ended"},
            mixed : BOOLEAN, since : Nat, from : Nat]

RtlAssumption ==
    /\ Hf \subseteq Centres /\ QueueCap \in Nat \ {0} /\ MaxMade \in Nat
    /\ 0 \notin Centres \cup {CalLo} /\ None \notin Config \cup Streams

AskedConfigs == {c \in Config : Asked(c)}

VARIABLES
    plugged,  \* the dongle is there
    open,     \* an RtlBackend exists
    stuck,    \* a Stream's drop waits for its reader for ever
    reg,      \* the dongle: rate, centre (0: untuned), direct, gain, ppm
    drv,      \* RtlSdr's fields of the same names
    applied,  \* RtlBackend::applied
    moved,    \* parts a refused apply may have left different from `applied'
    stream,   \* the Stream: its queue and its reader, or None
    acct,     \* pairs, overflows_seen, straddling, dropped_pending
    answer,   \* what the last poll_frame returned
    made,     \* chunks the dongle made, with those the stream started after
    told,     \* chunks the frames delivered so far hold or declare lost
    behind    \* a chunk was queued when the settings last moved

vars == <<plugged, open, stuck, reg, drv, applied, moved, stream, acct, answer, made, told, behind>>

Device == [reg |-> reg, drv |-> drv, ok |-> TRUE]
FreshAcct == [pairs |-> 0, seen |-> 0, straddling |-> FALSE, pending |-> 0]
FreshDriver == [rate |-> 0, centre |-> 0, direct |-> FALSE, gain |-> None, ppm |-> 0]

-----------------------------------------------------------------------------
(* The driver's writes, on d = [reg, drv, ok].  The PLL locks at the       *)
(* centres of L; a calibration of the tuner needs CalLo in L.               *)

Tune(d, hz, L) ==
    IF d.drv.direct \/ hz \in L
    THEN [d EXCEPT !.reg.centre = hz, !.drv.centre = hz]
    ELSE [d EXCEPT !.reg.centre = 0, !.drv.centre = 0, !.ok = FALSE]

Retune(d, L) == IF d.drv.centre # 0 THEN Tune(d, d.drv.centre, L) ELSE d

\* The rate is noted first; the resampler is written last.
SetSampleRate(d, r, L) ==
    LET noted == [d EXCEPT !.drv.rate = r]
        tuned == IF d.drv.direct THEN noted ELSE Retune(noted, L)
    IN IF tuned.ok THEN [tuned EXCEPT !.reg.rate = r] ELSE tuned

\* Changed form: the tuner comes back with the gain it was initialised with.
BackUntouched(d) == [d EXCEPT !.drv.direct = FALSE, !.reg.direct = FALSE, !.reg.gain = None]
\* The tuner initialised anew, and its gain restored.
Back(d) == [d EXCEPT !.drv.direct = FALSE, !.reg.direct = FALSE, !.reg.gain = d.drv.gain]

\* Leaving direct sampling re-initialises the tuner.
SetDirectSampling(d, on, L) ==
    CASE on = d.drv.direct -> d
      [] on /\ ~d.drv.direct ->
            Retune([d EXCEPT !.reg.direct = TRUE, !.drv.direct = TRUE], L)
      [] ~on /\ d.drv.direct ->
            IF CalLo \notin L THEN [d EXCEPT !.drv.direct = FALSE, !.reg.gain = None, !.ok = FALSE]
            ELSE IF d.drv.centre \in Hf
                 THEN [Back(d) EXCEPT !.drv.centre = 0, !.reg.centre = 0] ELSE Retune(Back(d), L)

SetGain(d, g) == [d EXCEPT !.reg.gain = g, !.drv.gain = g]

SetPpm(d, p, L) ==
    IF p = d.drv.ppm THEN d ELSE Retune([d EXCEPT !.reg.ppm = p, !.drv.ppm = p], L)

-----------------------------------------------------------------------------
(* apply().                                                                *)
Parts == {"rate", "direct", "centre", "gain", "ppm"}

\* Against the configuration in force, except direct sampling, which is
\* compared with the driver and takes the centre along.
Differs(part, prev, c, d) ==
    CASE part = "direct" -> (c.centre \in Hf) # d.drv.direct
      [] part = "centre" -> (c.centre \in Hf) = d.drv.direct /\ prev # None => prev.centre # c.centre
      [] part \in {"rate", "gain", "ppm"} -> prev # None => prev[part] # c[part]

Changed(prev, c, d) == {p \in Parts : Differs(p, prev, c, d)}

WritePart(d, part, c, L) ==
    CASE part = "rate"   -> SetSampleRate(d, c.rate, L)
      [] part = "direct" -> SetDirectSampling(d, c.centre \in Hf, L)
      [] part = "centre" -> Tune(d, c.centre, L)
      [] part = "gain"   -> SetGain(d, c.gain)
      [] part = "ppm"    -> SetPpm(d, c.ppm, L)

\* One part, when it is of `changed' and none before it was refused.
Update(d, part, changed, c, L) == IF d.ok /\ part \in changed THEN WritePart(d, part, c, L) ELSE d

\* The parts in the order they are written.
Written(changed, c, L) ==
    LET Then(d, part) == Update(d, part, changed, c, L)
    IN Then(Then(Then(Then(Then(Device, "rate"), "direct"), "centre"), "gain"), "ppm")

\* Dropping a Stream joins its reader, which may be waiting for room in the
\* queue to tell that the dongle is lost.
Blocked == stream # None /\ stream.reader = "failed" /\ Len(stream.queue) = QueueCap

NewStream == [queue |-> <<>>, lost |-> 0, reader |-> "live", mixed |-> FALSE, since |-> acct.pairs, from |-> made]

\* What is left of the running stream once the rate may have been written.
Kept(rateWritten) == IF rateWritten THEN None ELSE stream

Refilled(s, d) ==
    IF s = None \/ (d.reg = reg) THEN s ELSE [s EXCEPT !.mixed = TRUE]

\* Changed form: only a new centre counts as a change of what samples mean.
StraddlesTuned(changed) == "centre" \in changed

Straddles(changed) == changed \cap {"direct", "centre", "gain", "ppm"} # {}

\* Stream and account when every part was written.
Resumed(c, changed, d) ==
    LET kept == Refilled(Kept("rate" \in changed), d)
    IN CASE c.running /\ kept = None ->
              /\ stream' = NewStream
              /\ acct' = [acct EXCEPT !.seen = 0, !.straddling = FALSE]
         [] c.running /\ kept # None ->
              /\ stream' = kept
              /\ acct' = [acct EXCEPT !.straddling = @ \/ Straddles(changed)]
         [] ~c.running ->
              /\ stream' = None
              /\ acct' = [acct EXCEPT !.straddling = IF kept = None THEN @ ELSE FALSE]

Apply(c, L) ==
    LET changed == Changed(applied, c, Device)
        d       == Written(changed, c, L)
    IN /\ open /\ plugged /\ d.ok
       /\ reg' = d.reg /\ drv' = d.drv
       /\ Resumed(c, changed, d)
       /\ applied' = c
       /\ moved' = moved \ (changed \cup {"stream"})
       /\ behind' = IF stream = None THEN FALSE
                    ELSE IF d.reg # reg THEN stream.queue # <<>> ELSE behind
       /\ answer' = None
       /\ UNCHANGED <<plugged, open, stuck, made, told>>

\* A tuner that does not lock: `applied' stays, though parts were written.
ApplyRefused(c, L) ==
    LET changed == Changed(applied, c, Device)
        d       == Written(changed, c, L)
        gone    == "rate" \in changed /\ d.reg.rate = c.rate /\ stream # None
    IN /\ open /\ plugged /\ ~d.ok
       /\ reg' = d.reg /\ drv' = d.drv
       /\ stream' = Refilled(IF gone THEN None ELSE stream, d)
       /\ acct' = IF gone THEN [acct EXCEPT !.seen = 0] ELSE acct
       /\ moved' = moved \cup changed \cup {"centre"} \cup (IF gone THEN {"stream"} ELSE {})
                          \cup (IF "direct" \in changed THEN {"gain"} ELSE {})
       /\ behind' = TRUE /\ answer' = None
       /\ UNCHANGED <<plugged, open, stuck, applied, made, told>>

Closed ==
    /\ open' = FALSE /\ applied' = None /\ moved' = {} /\ stream' = None
    /\ acct' = FreshAcct /\ made' = 0 /\ told' = 0 /\ answer' = None /\ behind' = FALSE
    /\ reg' = FreshDriver /\ drv' = FreshDriver

\* Without the dongle the first write fails, and the backend is dropped.
ApplyFails(c) ==
    /\ open /\ ~plugged /\ Changed(applied, c, Device) # {}
    /\ IF Blocked THEN stuck' = TRUE /\ UNCHANGED <<open, reg, drv, applied, moved, stream, acct, answer, made, told, behind>>
       ELSE Closed /\ UNCHANGED stuck
    /\ UNCHANGED plugged

\* open() initialises demodulator and tuner, without a rate or a centre.
Open ==
    /\ ~open /\ plugged /\ open' = TRUE
    /\ UNCHANGED <<plugged, stuck, reg, drv, applied, moved, stream, acct, answer, made, told, behind>>

-----------------------------------------------------------------------------
(* The reader thread.                                                      *)
Reading(state) == stream # None /\ stream.reader = state

Chunk == [is |-> "iq", mixed |-> stream.mixed]
Lost == [is |-> "lost", mixed |-> FALSE]

\* A chunk goes to the queue, or is counted when the queue is full.
Fill ==
    /\ Reading("live") /\ plugged /\ made < MaxMade
    /\ stream' = IF Len(stream.queue) < QueueCap
                 THEN [stream EXCEPT !.queue = Append(@, Chunk), !.mixed = FALSE]
                 ELSE [stream EXCEPT !.lost = @ + 1, !.mixed = FALSE]
    /\ made' = made + 1
    /\ UNCHANGED <<plugged, open, stuck, reg, drv, applied, moved, acct, answer, told, behind>>

\* MAX_ERRORS failed transfers in a row; then one message, sent blocking.
Fails ==
    /\ Reading("live") /\ ~plugged
    /\ stream' = [stream EXCEPT !.reader = "failed"]
    /\ UNCHANGED <<plugged, open, stuck, reg, drv, applied, moved, acct, answer, made, told, behind>>

Tells ==
    /\ Reading("failed") /\ Len(stream.queue) < QueueCap /\ ~stuck
    /\ stream' = [stream EXCEPT !.reader = "ended", !.queue = Append(@, Lost)]
    /\ UNCHANGED <<plugged, open, stuck, reg, drv, applied, moved, acct, answer, made, told, behind>>

-----------------------------------------------------------------------------
(* poll_frame().                                                           *)

\* Changed form: the chunks a discard makes go missing from the report.
PlanForgetting(a, lost) ==
    IF a.straddling
    THEN [acct |-> [a EXCEPT !.pairs = @ + lost + 1, !.straddling = FALSE, !.pending = @ + lost],
          told |-> 0]
    ELSE [acct |-> [a EXCEPT !.pairs = @ + lost + 1, !.pending = 0], told |-> a.pending + lost + 1]

\* plan_chunk and the clock: what a chunk does to the account when `lost'
\* chunks overflowed, and what the frame delivered holds and declares lost.
Plan(a, lost) ==
    IF a.straddling
    THEN [acct |-> [a EXCEPT !.pairs = @ + lost + 1, !.straddling = FALSE, !.pending = @ + lost + 1],
          told |-> 0]
    ELSE [acct |-> [a EXCEPT !.pairs = @ + lost + 1, !.pending = 0], told |-> a.pending + lost + 1]

Poll ==
    /\ open /\ ~stuck /\ stream # None /\ stream.queue # <<>> /\ Head(stream.queue) # Lost
    /\ LET plan == Plan(acct, stream.lost - acct.seen)
       IN /\ acct' = [plan.acct EXCEPT !.seen = stream.lost]
          /\ told' = told + plan.told
          /\ answer' = IF plan.told = 0 THEN None ELSE Head(stream.queue)
    /\ stream' = [stream EXCEPT !.queue = Tail(@)]
    /\ UNCHANGED <<plugged, open, stuck, reg, drv, applied, moved, made, behind>>

\* A lost dongle, and every poll after it, is a transient error.
PollFails ==
    /\ open /\ ~stuck /\ stream # None
    /\ IF stream.queue # <<>> THEN Head(stream.queue) = Lost ELSE stream.reader = "ended"
    /\ stream' = [stream EXCEPT !.queue = <<>>]
    /\ answer' = [is |-> "error", mixed |-> FALSE]
    /\ UNCHANGED <<plugged, open, stuck, reg, drv, applied, moved, acct, made, told, behind>>

-----------------------------------------------------------------------------
Unplug ==
    /\ plugged /\ plugged' = FALSE
    /\ UNCHANGED <<open, stuck, reg, drv, applied, moved, stream, acct, answer, made, told, behind>>

\* A dongle plugged in again is a new device: the old handles stay dead.
Replug ==
    /\ ~plugged /\ ~open /\ plugged' = TRUE
    /\ UNCHANGED <<open, stuck, reg, drv, applied, moved, stream, acct, answer, made, told, behind>>

Init ==
    /\ plugged = TRUE /\ open = FALSE /\ stuck = FALSE
    /\ reg = FreshDriver /\ drv = FreshDriver
    /\ applied = None /\ moved = {} /\ stream = None /\ acct = FreshAcct
    /\ answer = None /\ made = 0 /\ told = 0 /\ behind = FALSE

Next ==
    \/ Open \/ Unplug \/ Replug \/ Fill \/ Fails \/ Tells \/ Poll \/ PollFails
    \/ \E c \in AskedConfigs : ApplyFails(c)
    \/ \E c \in AskedConfigs, L \in SUBSET ((Centres \ Hf) \cup {CalLo}) :
          ~stuck /\ (Apply(c, L) \/ ApplyRefused(c, L))

Spec == Init /\ [][Next]_vars

\* The threads run while the supervisor polls.
FairSpec == Spec /\ WF_vars(Fails) /\ WF_vars(Tells) /\ WF_vars(Poll) /\ WF_vars(PollFails)

-----------------------------------------------------------------------------
(* Correctness properties.                                                 *)
Queued == Cardinality({k \in 1..Len(stream.queue) : stream.queue[k] # Lost})

\* No chunk vanishes: what the clock passed, what is queued and what
\* overflowed unseen are the chunks of the stream; and the frames declare
\* every chunk the clock passed, once, or the next one will.
EveryChunkCounts ==
    /\ stream # None =>
          acct.pairs + Queued + (stream.lost - acct.seen) = stream.since + made - stream.from
    /\ told + acct.pending = acct.pairs

Holds(part) ==
    CASE part = "rate"   -> reg.rate = applied.rate /\ drv.rate = applied.rate
      [] part = "direct" -> reg.direct = (applied.centre \in Hf)
      [] part = "centre" -> reg.centre = applied.centre
      [] part = "gain"   -> reg.gain = applied.gain
      [] part = "ppm"    -> reg.ppm = applied.ppm
      [] part = "stream" -> (stream # None) = applied.running

\* What apply() does not write again is in force already, whatever sequence
\* of tuner, direct-sampling and rate changes came before: only a refused
\* configuration leaves parts of the dongle different.
AppliedIsHeld ==
    applied # None => \A part \in Parts \cup {"stream"} : part \in moved \/ Holds(part)

\* A chunk taken partly before a change of settings is not delivered, unless
\* one was queued in front of it.
MixedOnlyFromBehind == answer # None => (answer.mixed => behind)

\* docs/protocol-rtlsdr.md: "the first chunk after a change straddles it, the
\* second is clean. Consumers measuring a setting must drop that chunk."
StraddlerDropped == answer # None => ~answer.mixed

\* supervisor.rs: "Reconnects when the backend reports a fatal error": the
\* drop of a backend, and of a stream that a new rate replaces, comes back.
DropReturns == ~stuck

\* stream.rs: "Consecutive failed transfers taken as a disconnect": the
\* backend of a dongle that was pulled out is dropped, so that the
\* supervisor connects again.
UnplugEnds == [](~plugged /\ open /\ stream # None => <>~open)
=============================================================================
