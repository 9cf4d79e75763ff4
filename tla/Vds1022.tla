------------------------------ MODULE Vds1022 ------------------------------
(***************************************************************************)
(* The OWON VDS1022 backend: the driver's picture of the instrument        *)
(* (Vds1022), the configuration the backend believes is in force           *)
(* (Vds1022Backend::applied, against which apply() writes differences      *)
(* only), the instrument's registers, and the record it holds ready.       *)
(*                                                                         *)
(* A register holds what was last written to it.  A channel's gain, offset *)
(* and relay are its `setup'; a trigger level is held in ADC counts, which *)
(* depend on the range of the source channel at the time of the write.     *)
(*                                                                         *)
(* The instrument samples by itself, and the record it has ready was taken *)
(* under the registers of then, not of when it is fetched.  What empties   *)
(* its buffer is as the driver has it: SET_EMPTY, which ends every write   *)
(* of the rate and the position, and the gain and channel writes           *)
(* (configure_channel's comment); nothing else does.                       *)
(***************************************************************************)
EXTENDS Naturals

CONSTANTS
    Ranges,     \* voltbase indices
    Levels,     \* trigger levels, volts; auto-set probes with Zero
    Zero,
    Rates,      \* sample rates; auto-set probes at BaseRate
    BaseRate,
    SlowRates,  \* those below ROLLMODE_THRESHOLD
    Positions,  \* horizontal trigger positions, with Centre = 0.5
    Centre,
    Sweeps,     \* trigger sweeps, with "auto"
    Asked(_),   \* which configurations are asked for
    None

Channels == 0..1
Setup    == [on : BOOLEAN, vb : Ranges]

\* ScopeConfig, the parts of it that apply() compares.
Config == [channels : [Channels -> Setup], rate : Rates, position : Positions,
           src : Channels, level : Levels, sweep : Sweeps,
           peak : BOOLEAN, running : BOOLEAN]

VdsAssumption ==
    /\ Zero \in Levels /\ BaseRate \in Rates \ SlowRates /\ SlowRates \subseteq Rates
    /\ Centre \in Positions /\ "auto" \in Sweeps /\ Ranges # {}
    /\ None \notin Config

Choices == {c \in Config : Asked(c)}

VARIABLES
    open,     \* a Vds1022Backend exists
    reg,      \* the instrument's registers
    drv,      \* the driver's fields: channels, rate, roll, peak, sweep, src
    buffer,   \* the instrument's: the record ready to be fetched, or None
    applied,  \* Vds1022Backend::applied
    apart     \* history: the parts `applied' tells wrong, by auto-set or keep-alive

vars == <<open, reg, drv, buffer, applied, apart>>

\* What the registers, or the driver's fields, say of a record: which channels
\* it is of and in which range, its rate, and how its samples were taken.  A
\* record in the buffer also knows whether that was changed after it was taken.
Measured(channels) == {<<c, channels[c].vb>> : c \in {i \in Channels : channels[i].on}}
RecordOf(x) == [channels |-> Measured(x.channels), rate |-> x.rate, peak |-> x.peak,
                before |-> FALSE]

Outdated(record) == IF record = None THEN None ELSE [record EXCEPT !.before = TRUE]

-----------------------------------------------------------------------------
(* The driver's writes, as functions of the device d = [reg, drv, buf].    *)

Counts(level, vb) == <<level, vb>>

ConfigureChannel(d, c, setup) ==
    [d EXCEPT !.reg.channels[c] = setup, !.drv.channels[c] = setup, !.buf = None]

\* Changed form: the record that is ready stays.
SetPositionOnly(d, p) == [d EXCEPT !.reg.position = IF d.drv.roll THEN Centre ELSE p]

\* Roll mode forces the centre.
SetPosition(d, p) ==
    [d EXCEPT !.reg.position = IF d.drv.roll THEN Centre ELSE p, !.buf = None]

\* The roll register is written only when the driver's flag changes; the
\* trigger position is centred again.
SetRate(d, r) ==
    LET roll == r \in SlowRates
        timed == [reg |-> [d.reg EXCEPT !.rate = r, !.roll = IF roll # d.drv.roll THEN roll ELSE @],
                  drv |-> [d.drv EXCEPT !.rate = r, !.roll = roll],
                  buf |-> d.buf]
    IN SetPosition(timed, Centre)

SetTrigger(d, src, level, sweep) ==
    [d EXCEPT !.reg.trigger = [src |-> src, sweep |-> sweep,
                               counts |-> Counts(level, d.drv.channels[src].vb)],
              !.drv.src = src, !.drv.sweep = sweep]

SetPeak(d, on) ==
    IF on = d.drv.peak THEN d
    ELSE [d EXCEPT !.reg.peak = on, !.drv.peak = on, !.buf = Outdated(d.buf)]

SetRunning(d, on) == [d EXCEPT !.reg.running = on]

Device == [reg |-> reg, drv |-> drv, buf |-> buffer]
SetDevice(d) == reg' = d.reg /\ drv' = d.drv /\ buffer' = d.buf

\* The instrument finishes a record when it runs with a channel on.
Sampled(d) ==
    IF d.reg.running /\ \E c \in Channels : d.reg.channels[c].on
    THEN [d EXCEPT !.buf = RecordOf(d.reg)]
    ELSE d

Sample ==
    /\ SetDevice(Sampled(Device))
    /\ UNCHANGED <<open, applied, apart>>

-----------------------------------------------------------------------------
(* apply(): the parts in the order they are written, each only when it     *)
(* differs from the configuration prev.                                    *)
Parts == <<"channels", "rate", "position", "trigger", "peak", "running">>

\* The trigger word of a configuration.
Word(c) == <<c.src, c.level, c.sweep>>

\* Changed form: a new range leaves the trigger level's counts alone.
DiffersAlone(part, prev, c) ==
    prev # None =>
        CASE part = "channels" -> prev.channels # c.channels
          [] part = "rate"     -> prev.rate # c.rate
          [] part = "position" -> prev.rate # c.rate \/ prev.position # c.position
          [] part = "trigger"  -> Word(prev) # Word(c)
          [] part = "peak"     -> prev.peak # c.peak
          [] part = "running"  -> prev.running # c.running

\* Writing the rate recentres the trigger, and a range changes the counts of
\* a level, so the position goes with the rate and the trigger with the channels.
Differs(part, prev, c) ==
    prev # None =>
        CASE part = "channels" -> prev.channels # c.channels
          [] part = "rate"     -> prev.rate # c.rate
          [] part = "position" -> prev.rate # c.rate \/ prev.position # c.position
          [] part = "trigger"  -> Word(prev) # Word(c) \/ prev.channels # c.channels
          [] part = "peak"     -> prev.peak # c.peak
          [] part = "running"  -> prev.running # c.running

WritePart(d, part, c) ==
    CASE part = "channels" -> ConfigureChannel(ConfigureChannel(d, 0, c.channels[0]), 1, c.channels[1])
      [] part = "rate"     -> SetRate(d, c.rate)
      [] part = "position" -> SetPosition(d, c.position)
      [] part = "trigger"  -> SetTrigger(d, c.src, c.level, c.sweep)
      [] part = "peak"     -> SetPeak(d, c.peak)
      [] part = "running"  -> SetRunning(d, c.running)

\* One part, when it differs.
Update(d, part, prev, c) == IF Differs(part, prev, c) THEN WritePart(d, part, c) ELSE d

\* The device after the first n parts.
Written(d, prev, c, n) ==
    LET Then(e, k) == IF k <= n THEN Update(e, Parts[k], prev, c) ELSE e
    IN Then(Then(Then(Then(Then(Then(d, 1), 2), 3), 4), 5), 6)

\* apply() as a whole; the instrument may finish a record on the way, which
\* outlasts it when only peak detection and run, or run, are written after.
Apply(c) ==
    /\ open
    /\ LET timed == Written(Device, applied, c, 4)
       IN \E d \in {timed, Sampled(timed)} :
              LET peaked == Update(d, "peak", applied, c)
              IN \E e \in {peaked, Sampled(peaked)} : SetDevice(Update(e, "running", applied, c))
    /\ applied' = c
    /\ apart' = {p \in apart : ~Differs(p, applied, c)}
    /\ UNCHANGED open

\* A transfer fails after n parts: applied was taken and stays None.  The
\* supervisor drops the backend, except when this was the stop of a single
\* sweep, whose error it only reports.
ApplyFails(c, n) ==
    /\ open /\ Differs(Parts[n + 1], applied, c)
    /\ SetDevice(Written(Device, applied, c, n))
    /\ applied' = None /\ apart' = {}
    /\ open' = (applied # None /\ applied.running /\ c = [applied EXCEPT !.running = FALSE])

-----------------------------------------------------------------------------
(* Vds1022::open: the bitstream when the instrument lost it, then init().  *)
Off == [on |-> FALSE, vb |-> CHOOSE v \in Ranges : TRUE]

\* init() leaves ranges and run/stop as they were, and ends at 250 kS/s.
Initialised(r) ==
    [r EXCEPT !.channels = [c \in Channels |-> [r.channels[c] EXCEPT !.on = FALSE]],
              !.peak = FALSE, !.roll = FALSE, !.position = Centre, !.rate = BaseRate,
              !.trigger = [src |-> 0, sweep |-> "auto", counts |-> None]]

FreshDriver == [channels |-> [c \in Channels |-> Off], rate |-> BaseRate, roll |-> FALSE,
                peak |-> FALSE, sweep |-> "auto", src |-> 0]

Open ==
    /\ ~open /\ open' = TRUE
    /\ reg' = Initialised(reg) /\ drv' = FreshDriver /\ buffer' = None
    /\ applied' = None /\ apart' = {}

\* The cable, or a transfer of poll, idle or auto-set that failed.
Lose ==
    /\ open /\ open' = FALSE
    /\ applied' = None /\ apart' = {}
    /\ UNCHANGED <<reg, drv, buffer>>

-----------------------------------------------------------------------------
(* Two seconds without traffic: the instrument is told to stop, so that it *)
(* does not reset.  Sent while stopped (idle) and while every channel is   *)
(* off (poll_frame).                                                       *)
KeepAlive ==
    /\ open
    /\ applied # None /\ applied.running => \A c \in Channels : ~applied.channels[c].on
    /\ SetDevice(SetRunning(Device, FALSE))
    /\ apart' = IF applied # None /\ applied.running THEN apart \cup {"running"} ELSE apart
    /\ UNCHANGED <<open, applied>>

\* poll_frame, while it acquires: the record that is ready is fetched, and told
\* with the driver's fields as they are now (assemble_capture).
Label == RecordOf(drv)

Poll ==
    /\ open /\ buffer # None
    /\ applied # None /\ applied.running /\ \E c \in Channels : applied.channels[c].on
    /\ buffer' = None
    /\ UNCHANGED <<open, reg, drv, applied, apart>>

-----------------------------------------------------------------------------
(* autoset(): the configuration it starts from, the device after probing   *)
(* with range v, and the configuration it comes back with.                 *)
Base == IF applied # None THEN applied
        ELSE [channels |-> [c \in Channels |-> [Off EXCEPT !.on = (c = 0)]], rate |-> BaseRate,
              position |-> Centre, src |-> 0, level |-> Zero, sweep |-> "auto",
              peak |-> FALSE, running |-> TRUE]

Probed(v) ==
    LET triggered == SetTrigger(Device, Base.src, Zero, "auto")
        started   == SetRunning(SetRate(triggered, BaseRate), TRUE)
    IN ConfigureChannel(started, Base.src, [on |-> TRUE, vb |-> v])

\* Nothing to measure: the instrument stays as the probing left it, and
\* `applied' as it was.
AutosetFlat(v) ==
    /\ open
    /\ SetDevice(Probed(v))
    /\ apart' = IF applied = None THEN {}
                ELSE apart \cup {"channels", "rate", "position", "trigger", "running"}
    /\ UNCHANGED <<open, applied>>

\* What was found is written, but for two parts that are only claimed: peak
\* detection off, and, with nothing applied before, the other channel's setup.
AutosetFound(v, level, rate) ==
    LET d == SetRunning(SetTrigger(SetRate(Probed(v), rate), Base.src, level, "auto"), TRUE)
    IN /\ open
       /\ SetDevice(d)
       /\ applied' = [Base EXCEPT !.channels[Base.src] = [on |-> TRUE, vb |-> v],
                                  !.rate = rate, !.level = level, !.sweep = "auto",
                                  !.position = Centre, !.peak = FALSE, !.running = TRUE]
       /\ apart' = IF applied = None THEN {"channels", "peak"}
                   ELSE (apart \cap {"channels", "peak"}) \cup (IF applied.peak THEN {"peak"} ELSE {})
       /\ UNCHANGED open

-----------------------------------------------------------------------------
Init ==
    /\ open = FALSE /\ drv = FreshDriver /\ buffer = None /\ applied = None /\ apart = {}
    /\ reg = Initialised([channels |-> [c \in Channels |-> Off], rate |-> BaseRate, roll |-> FALSE,
                          position |-> Centre, trigger |-> None, peak |-> FALSE, running |-> FALSE])

Next ==
    \/ Open \/ Lose \/ KeepAlive \/ Sample \/ Poll
    \/ \E c \in Choices : Apply(c) \/ \E n \in 0..5 : ApplyFails(c, n)
    \/ \E v \in Ranges : AutosetFlat(v)
    \/ \E v \in Ranges, level \in Levels, rate \in Rates \ SlowRates : AutosetFound(v, level, rate)

Spec == Init /\ [][Next]_vars

-----------------------------------------------------------------------------
(* Correctness properties.                                                 *)

Holds(part, c) ==
    CASE part = "channels" -> reg.channels = c.channels
      [] part = "rate"     -> reg.rate = c.rate /\ reg.roll = (c.rate \in SlowRates)
      [] part = "position" -> reg.position = IF reg.roll THEN Centre ELSE c.position
      [] part = "trigger"  -> reg.trigger = [src |-> c.src, sweep |-> c.sweep,
                                  counts |-> Counts(c.level, drv.channels[c.src].vb)]
      [] part = "peak"     -> reg.peak = c.peak
      [] part = "running"  -> reg.running = c.running

\* Writing only differences is right: the instrument holds every part of the
\* configuration in force, the ones that other writes disturb included, but
\* those that the code itself has parted since they were last written:
\* auto-set moves five without recording it when it finds nothing, and claims
\* two without writing them when it finds a signal, and a keep-alive stops
\* what should run.  Of those the properties at the end speak.
AppliedIsHeld ==
    applied # None => \A i \in DOMAIN Parts : Parts[i] \in apart \/ Holds(Parts[i], applied)

\* A record is fetched some time after it was taken, and told with the driver's
\* fields of then.  Across changes of range and rate, half-written
\* configurations, probes, stops and reconnects to an instrument that kept its
\* registers and its buffer, it is told with the channels, the ranges and the
\* rate it was taken with, and as peak or plain as it was taken unless peak
\* detection was switched in between.
RecordsToldRight ==
    open /\ buffer # None =>
        /\ Label.channels = buffer.channels
        /\ Label.rate = buffer.rate
        /\ buffer.before \/ Label.peak = buffer.peak

(* What comments say and the code does not do.                             *)

\* "Applies the result to the hardware and returns the new config."
PeakIsHeld == applied # None => reg.peak = applied.peak

\* "All channels off is a valid state": running again once a channel is on.
RunsWhenOn ==
    open /\ applied # None /\ applied.running /\ (\E c \in Channels : applied.channels[c].on)
        => reg.running

\* "The new config (already applied to the instrument) or None": with None,
\* the configuration in force is still the one of before.
RateIsHeld == applied # None => reg.rate = applied.rate

\* "How the samples were produced (affects interpretation: peak-detect records
\* are min/max pairs)."
PeakIsToldRight == open /\ buffer # None => Label.peak = buffer.peak
=============================================================================
