---------------------------- MODULE RadioProofs -----------------------------
(***************************************************************************)
(* What the backends of the oscilloscope, the dongle and the sound card,   *)
(* DAB playback and the survey guarantee, for every set of ranges, rates   *)
(* and levels, every configuration that is asked for and every choice of   *)
(* where the tuner locks, every queue and cushion, and every plan.         *)
(***************************************************************************)
EXTENDS Radio, Sequences, FiniteSets, SequenceTheorems, FiniteSetTheorems, WellFoundedInduction,
        TLAPS

-----------------------------------------------------------------------------
(* The oscilloscope's backend.                                             *)

\* The parts of a configuration, in the order they are written.
VdsParts == {"channels", "rate", "position", "trigger", "peak", "running"}

Registers == [channels : [Vds!Channels -> Vds!Setup], rate : VdsRates, roll : BOOLEAN,
              position : Positions, peak : BOOLEAN, running : BOOLEAN,
              trigger : [src : Vds!Channels, sweep : Sweeps,
                         counts : (Levels \X Ranges) \cup {None}]]
Driver    == [channels : [Vds!Channels -> Vds!Setup], rate : VdsRates, roll : BOOLEAN,
              peak : BOOLEAN, sweep : Sweeps, src : Vds!Channels]
Records   == [channels : SUBSET (Vds!Channels \X Ranges), rate : VdsRates, peak : BOOLEAN,
              before : BOOLEAN]
Devices   == [reg : Registers, drv : Driver, buf : Records \cup {None}]

\* What the driver's fields say of a record is what the record was taken with.
Fits(record, x) ==
    record # None =>
        /\ record.channels = Vds!Measured(x.channels) /\ record.rate = x.rate
        /\ record.before \/ record.peak = x.peak

\* The driver's fields say what the registers hold; the range of a channel
\* that is off is not in the registers' power to know.  They tell a record of
\* before, if one is left, as it was taken.
Follows(d) ==
    /\ Fits(d.buf, d.drv)
    /\ d.drv.rate = d.reg.rate /\ d.drv.roll = d.reg.roll /\ d.drv.peak = d.reg.peak
    /\ \A c \in Vds!Channels :
          /\ d.drv.channels[c].on = d.reg.channels[c].on
          /\ d.reg.channels[c].on => d.drv.channels[c].vb = d.reg.channels[c].vb

\* Vds!Holds of a device.
HeldBy(d, part, c) ==
    CASE part = "channels" -> d.reg.channels = c.channels
      [] part = "rate"     -> d.reg.rate = c.rate /\ d.reg.roll = (c.rate \in SlowRates)
      [] part = "position" -> d.reg.position = IF d.reg.roll THEN VdsCentre ELSE c.position
      [] part = "trigger"  -> d.reg.trigger = [src |-> c.src, sweep |-> c.sweep,
                                  counts |-> <<c.level, d.drv.channels[c.src].vb>>]
      [] part = "peak"     -> d.reg.peak = c.peak
      [] part = "running"  -> d.reg.running = c.running

VdsInv ==
    /\ Vds!Device \in Devices /\ Follows(Vds!Device)
    /\ vdsApplied \in Vds!Config \cup {None}
    /\ Vds!AppliedIsHeld

\* What the assumption gives of the constants.
LEMMA RangesAre ==
    /\ Zero \in Levels /\ BaseRate \in VdsRates /\ BaseRate \notin SlowRates
    /\ VdsCentre \in Positions /\ "auto" \in Sweeps /\ Ranges # {} /\ None \notin Vds!Config
    /\ Vds!Off \in Vds!Setup /\ Vds!Off.on = FALSE
<1>1. Vds!VdsAssumption
  BY PartsAssumption
<1>2. (CHOOSE v \in Ranges : TRUE) \in Ranges
  BY <1>1 DEF Vds!VdsAssumption
<1> QED BY <1>1, <1>2 DEF Vds!VdsAssumption, Vds!Off, Vds!Setup

\* d with one channel's setup in the registers.
Configured(e, d, c, setup) ==
    e.reg = [d.reg EXCEPT !.channels = [d.reg.channels EXCEPT ![c] = setup]]

\* A channel's gain, offset and relay: driver and registers alike.
LEMMA ConfigureFollows ==
    ASSUME NEW d \in Devices, Follows(d), NEW c \in Vds!Channels, NEW setup \in Vds!Setup,
           NEW e, e = Vds!ConfigureChannel(d, c, setup)
    PROVE  /\ e \in Devices /\ Follows(e)
           /\ Configured(e, d, c, setup)
           /\ e.drv.channels = [d.drv.channels EXCEPT ![c] = setup]
<1>1. d.reg \in Registers /\ d.drv \in Driver
  BY DEF Devices
<1>2. [d.reg.channels EXCEPT ![c] = setup] \in [Vds!Channels -> Vds!Setup]
      /\ [d.drv.channels EXCEPT ![c] = setup] \in [Vds!Channels -> Vds!Setup]
  BY <1>1 DEF Registers, Driver
<1>3. /\ e.reg = [d.reg EXCEPT !.channels = [d.reg.channels EXCEPT ![c] = setup]]
      /\ e.drv = [d.drv EXCEPT !.channels = [d.drv.channels EXCEPT ![c] = setup]]
      /\ e = [reg |-> e.reg, drv |-> e.drv, buf |-> None]
  BY <1>1 DEF Vds!ConfigureChannel, Devices, Registers, Driver
<1>4. e.reg \in Registers /\ e.drv \in Driver
  BY <1>1, <1>2, <1>3 DEF Registers, Driver
<1>5. e \in Devices
  BY <1>3, <1>4 DEF Devices
<1>6. /\ e.reg.rate = d.reg.rate /\ e.reg.roll = d.reg.roll /\ e.reg.peak = d.reg.peak
      /\ e.drv.rate = d.drv.rate /\ e.drv.roll = d.drv.roll /\ e.drv.peak = d.drv.peak
      /\ e.reg.channels = [d.reg.channels EXCEPT ![c] = setup]
      /\ e.drv.channels = [d.drv.channels EXCEPT ![c] = setup]
  BY <1>1, <1>3 DEF Registers, Driver
<1>7. Follows(e)
  <2>1. d.reg.channels \in [Vds!Channels -> Vds!Setup] /\ d.drv.channels \in [Vds!Channels -> Vds!Setup]
    BY <1>1 DEF Registers, Driver
  <2>2. Fits(e.buf, e.drv)
    BY <1>3 DEF Fits
  <2> QED BY <1>6, <2>1, <2>2 DEF Follows
<1> QED BY <1>3, <1>5, <1>6, <1>7 DEF Configured

\* What a write of the position is, to a device of any buffer.
LEMMA PositionIs ==
    ASSUME NEW d \in Devices, NEW p, NEW e, e = Vds!SetPosition(d, p)
    PROVE  /\ e.reg = [d.reg EXCEPT !.position = IF d.drv.roll THEN VdsCentre ELSE p] /\ e.drv = d.drv
           /\ e = [reg |-> e.reg, drv |-> e.drv, buf |-> None]
<1>1. d.reg \in Registers
  BY DEF Devices
<1>2. PICK at : at = IF d.drv.roll THEN VdsCentre ELSE p
  OBVIOUS
<1> QED BY <1>1, <1>2 DEF Vds!SetPosition, Devices, Registers

\* The trigger position, which roll mode forces to the centre.
LEMMA PositionFollows ==
    ASSUME NEW d \in Devices, Follows(d), NEW p \in Positions, NEW e, e = Vds!SetPosition(d, p)
    PROVE  /\ e \in Devices /\ Follows(e) /\ e.drv = d.drv
           /\ e.reg = [d.reg EXCEPT !.position = IF d.reg.roll THEN VdsCentre ELSE p]
<1>1. d.reg \in Registers /\ d.drv \in Driver
  BY DEF Devices
<1>2. PICK at : at = IF d.drv.roll THEN VdsCentre ELSE p
  OBVIOUS
<1>3. at \in Positions /\ at = IF d.reg.roll THEN VdsCentre ELSE p
  BY <1>2, RangesAre DEF Follows
<1>4. e.reg = [d.reg EXCEPT !.position = at] /\ e.drv = d.drv
      /\ e = [reg |-> e.reg, drv |-> e.drv, buf |-> None]
  BY <1>2, PositionIs
<1>5. e \in Devices
  BY <1>1, <1>3, <1>4 DEF Devices, Registers
<1>6. Follows(e)
  <2>1. Fits(e.buf, e.drv)
    BY <1>4 DEF Fits
  <2> QED BY <1>1, <1>4, <2>1 DEF Follows, Registers
<1> QED BY <1>3, <1>4, <1>5, <1>6

\* The sample rate, its roll mode, and the centred position.
LEMMA RateFollows ==
    ASSUME NEW d \in Devices, Follows(d), NEW r \in VdsRates, NEW e, e = Vds!SetRate(d, r)
    PROVE  /\ e \in Devices /\ Follows(e)
           /\ e.drv.channels = d.drv.channels
           /\ e.reg = [d.reg EXCEPT !.rate = r, !.roll = (r \in SlowRates), !.position = VdsCentre]
<1>1. d.reg \in Registers /\ d.drv \in Driver
  BY DEF Devices
<1>2. PICK roll : roll = (r \in SlowRates)
  OBVIOUS
<1>b. roll \in BOOLEAN
  BY <1>2
<1>3. d.drv.roll = d.reg.roll /\ d.reg.roll \in BOOLEAN
  BY <1>1 DEF Follows, Registers
<1>4. PICK timed : timed = [reg |-> [d.reg EXCEPT !.rate = r, !.roll = roll],
                            drv |-> [d.drv EXCEPT !.rate = r, !.roll = roll], buf |-> None]
  OBVIOUS
<1>5. timed \in Devices
  BY <1>1, <1>b, <1>4 DEF Devices, Registers, Driver
<1>6. Follows(timed)
  <2>1. /\ timed.reg.rate = r /\ timed.drv.rate = r /\ timed.reg.roll = roll /\ timed.drv.roll = roll
        /\ timed.reg.peak = d.reg.peak /\ timed.drv.peak = d.drv.peak
        /\ timed.reg.channels = d.reg.channels /\ timed.drv.channels = d.drv.channels
    BY <1>1, <1>4 DEF Registers, Driver
  <2>2. Fits(timed.buf, timed.drv)
    BY <1>4 DEF Fits
  <2> QED BY <1>3, <2>1, <2>2 DEF Follows
<1>7. e = Vds!SetPosition(timed, VdsCentre)
  <2>1. (IF roll # d.drv.roll THEN roll ELSE d.reg.roll) = roll
    BY <1>3
  <2>2. PICK old : old = [timed EXCEPT !.buf = d.buf]
    OBVIOUS
  <2>3. old = [reg |-> timed.reg, drv |-> timed.drv, buf |-> d.buf]
    BY <1>4, <2>2
  <2>4. e = Vds!SetPosition(old, VdsCentre)
    BY <1>2, <1>4, <2>1, <2>3 DEF Vds!SetRate
  <2>5. old \in Devices /\ old.reg = timed.reg /\ old.drv = timed.drv
    BY <1>5, <2>3 DEF Devices
  <2>6. PICK f : f = Vds!SetPosition(timed, VdsCentre)
    OBVIOUS
  <2>7. /\ e.reg = [old.reg EXCEPT !.position = IF old.drv.roll THEN VdsCentre ELSE VdsCentre]
        /\ e.drv = old.drv /\ e = [reg |-> e.reg, drv |-> e.drv, buf |-> None]
    BY <2>4, <2>5, PositionIs
  <2>8. /\ f.reg = [timed.reg EXCEPT !.position = IF timed.drv.roll THEN VdsCentre ELSE VdsCentre]
        /\ f.drv = timed.drv /\ f = [reg |-> f.reg, drv |-> f.drv, buf |-> None]
    BY <1>5, <2>6, PositionIs
  <2>9. e.reg = f.reg /\ e.drv = f.drv
    BY <2>5, <2>7, <2>8
  <2> QED BY <2>6, <2>7, <2>8, <2>9
<1>8. /\ e \in Devices /\ Follows(e) /\ e.drv = timed.drv
      /\ e.reg = [timed.reg EXCEPT !.position = IF timed.reg.roll THEN VdsCentre ELSE VdsCentre]
  BY <1>5, <1>6, <1>7, RangesAre, PositionFollows
<1>9. e.reg = [d.reg EXCEPT !.rate = r, !.roll = roll, !.position = VdsCentre]
  BY <1>1, <1>4, <1>8 DEF Registers
<1> QED BY <1>1, <1>2, <1>4, <1>8, <1>9 DEF Driver

\* d with a trigger word in the registers, its level in counts.
Triggered(e, d, src, level, sweep) ==
    e.reg = [d.reg EXCEPT !.trigger =
                [src |-> src, sweep |-> sweep, counts |-> <<level, d.drv.channels[src].vb>>]]

\* The trigger word, in counts of the source channel's range.
LEMMA TriggerFollows ==
    ASSUME NEW d \in Devices, Follows(d), NEW src \in Vds!Channels, NEW level \in Levels,
           NEW sweep \in Sweeps, NEW e, e = Vds!SetTrigger(d, src, level, sweep)
    PROVE  /\ e \in Devices /\ Follows(e)
           /\ e.drv.channels = d.drv.channels
           /\ Triggered(e, d, src, level, sweep)
<1>1. d.reg \in Registers /\ d.drv \in Driver
  BY DEF Devices
<1>2. PICK vb \in Ranges : vb = d.drv.channels[src].vb
  BY <1>1 DEF Driver, Vds!Setup
<1>3. PICK word : word = [src |-> src, sweep |-> sweep, counts |-> <<level, vb>>]
  OBVIOUS
<1>4. word \in [src : Vds!Channels, sweep : Sweeps, counts : (Levels \X Ranges) \cup {None}]
  BY <1>2, <1>3
<1>5. e = [reg |-> [d.reg EXCEPT !.trigger = word], drv |-> [d.drv EXCEPT !.src = src, !.sweep = sweep],
           buf |-> d.buf]
  BY <1>1, <1>2, <1>3 DEF Vds!SetTrigger, Vds!Counts, Devices, Registers, Driver
<1>6. [d.reg EXCEPT !.trigger = word] \in Registers
      /\ [d.drv EXCEPT !.src = src, !.sweep = sweep] \in Driver
  BY <1>1, <1>4 DEF Registers, Driver
<1>7. e \in Devices
  BY <1>5, <1>6 DEF Devices
<1>8. e.buf = d.buf
  BY <1>5
<1>9. /\ e.reg.rate = d.reg.rate /\ e.reg.roll = d.reg.roll /\ e.reg.peak = d.reg.peak
      /\ e.drv.rate = d.drv.rate /\ e.drv.roll = d.drv.roll /\ e.drv.peak = d.drv.peak
      /\ e.reg.channels = d.reg.channels /\ e.drv.channels = d.drv.channels
  <2>1. e.reg = [d.reg EXCEPT !.trigger = word] /\ e.drv = [d.drv EXCEPT !.src = src, !.sweep = sweep]
    BY <1>5
  <2>2. e.reg.rate = d.reg.rate /\ e.reg.roll = d.reg.roll /\ e.reg.peak = d.reg.peak
        /\ e.reg.channels = d.reg.channels
    BY <1>1, <2>1 DEF Registers
  <2>3. e.drv.rate = d.drv.rate /\ e.drv.roll = d.drv.roll /\ e.drv.peak = d.drv.peak
        /\ e.drv.channels = d.drv.channels
    BY <1>1, <2>1 DEF Driver
  <2> QED BY <2>2, <2>3
<1>10. Follows(e)
  <2>1. Fits(e.buf, e.drv)
    BY <1>8, <1>9 DEF Follows, Fits
  <2> QED BY <1>9, <2>1 DEF Follows
<1> QED BY <1>2, <1>3, <1>5, <1>7, <1>9, <1>10 DEF Triggered

\* Peak detection, written only when the driver's flag changes.
LEMMA PeakFollows ==
    ASSUME NEW d \in Devices, Follows(d), NEW on \in BOOLEAN, NEW e, e = Vds!SetPeak(d, on)
    PROVE  /\ e \in Devices /\ Follows(e)
           /\ e.drv.channels = d.drv.channels
           /\ e.reg = [d.reg EXCEPT !.peak = on]
<1>1. d.reg \in Registers /\ d.drv \in Driver
  BY DEF Devices
<1>2. CASE on = d.drv.peak
  <2>1. e = d /\ d.reg.peak = on
    BY <1>2 DEF Vds!SetPeak, Follows
  <2>2. [d.reg EXCEPT !.peak = on] = d.reg
    BY <1>1, <2>1 DEF Registers
  <2> QED BY <2>1, <2>2
<1>3. CASE on # d.drv.peak
  <2>1. PICK old : old = Vds!Outdated(d.buf)
    OBVIOUS
  <2>2. e = [reg |-> [d.reg EXCEPT !.peak = on], drv |-> [d.drv EXCEPT !.peak = on], buf |-> old]
    BY <1>1, <1>3, <2>1 DEF Vds!SetPeak, Devices, Registers, Driver
  <2>3. d.buf \in Records \cup {None} /\ Fits(d.buf, d.drv)
    BY DEF Devices, Follows
  <2>4. old \in Records \cup {None}
        /\ (old # None => d.buf # None /\ old = [d.buf EXCEPT !.before = TRUE])
    BY <2>1, <2>3 DEF Vds!Outdated, Records
  <2>5. e \in Devices
    BY <1>1, <2>2, <2>4 DEF Devices, Registers, Driver
  <2>6. e.drv.channels = d.drv.channels /\ e.drv.rate = d.drv.rate
    BY <1>1, <2>2 DEF Driver
  <2>7. Fits(e.buf, e.drv)
    BY <2>2, <2>3, <2>4, <2>6 DEF Fits, Records
  <2>8. Follows(e)
    BY <1>1, <2>2, <2>7 DEF Follows, Registers, Driver
  <2> QED BY <1>1, <2>2, <2>5, <2>8 DEF Driver
<1> QED BY <1>2, <1>3

\* Run or stop.
LEMMA RunningFollows ==
    ASSUME NEW d \in Devices, Follows(d), NEW on \in BOOLEAN, NEW e, e = Vds!SetRunning(d, on)
    PROVE  /\ e \in Devices /\ Follows(e) /\ e.drv = d.drv
           /\ e.reg = [d.reg EXCEPT !.running = on]
<1>1. d.reg \in Registers /\ d.drv \in Driver
  BY DEF Devices
<1>2. e = [reg |-> [d.reg EXCEPT !.running = on], drv |-> d.drv, buf |-> d.buf]
  BY <1>1 DEF Vds!SetRunning, Devices, Registers
<1>3. e \in Devices
  BY <1>1, <1>2 DEF Devices, Registers
<1>4. Follows(e)
  BY <1>1, <1>2 DEF Follows, Registers
<1> QED BY <1>2, <1>3, <1>4

\* A record is of what the registers hold, and so of what the fields say.
LEMMA SampledFollows ==
    ASSUME NEW d \in Devices, Follows(d), NEW e, e = Vds!Sampled(d)
    PROVE  e \in Devices /\ Follows(e) /\ e.reg = d.reg /\ e.drv = d.drv
<1>1. d.reg \in Registers /\ d.drv \in Driver
  BY DEF Devices
<1>2. CASE e = d
  BY <1>2
<1>3. CASE e # d
  <2>1. PICK record : record = Vds!RecordOf(d.reg)
    OBVIOUS
  <2>2. e = [reg |-> d.reg, drv |-> d.drv, buf |-> record]
    BY <1>3, <2>1 DEF Vds!Sampled, Devices
  <2>3. PICK of : of = Vds!Measured(d.reg.channels)
    OBVIOUS
  <2>4. record = [channels |-> of, rate |-> d.reg.rate, peak |-> d.reg.peak, before |-> FALSE]
    BY <2>1, <2>3 DEF Vds!RecordOf
  <2>5. of \in SUBSET (Vds!Channels \X Ranges)
    BY <1>1, <2>3 DEF Vds!Measured, Registers, Vds!Setup
  <2>6. of = Vds!Measured(d.drv.channels)
    <3>1. \A c \in Vds!Channels :
             /\ d.drv.channels[c].on = d.reg.channels[c].on
             /\ d.reg.channels[c].on => d.drv.channels[c].vb = d.reg.channels[c].vb
      BY DEF Follows
    <3> QED BY <2>3, <3>1 DEF Vds!Measured
  <2>7. e \in Devices
    BY <1>1, <2>2, <2>4, <2>5 DEF Devices, Records, Registers
  <2>8. Fits(e.buf, e.drv)
    BY <2>2, <2>4, <2>6 DEF Fits, Follows
  <2> QED BY <2>2, <2>7, <2>8 DEF Follows
<1> QED BY <1>2, <1>3

\* Both channels, one after the other.
LEMMA ChannelsFollow ==
    ASSUME NEW d \in Devices, Follows(d), NEW setups \in [Vds!Channels -> Vds!Setup],
           NEW e, e = Vds!ConfigureChannel(Vds!ConfigureChannel(d, 0, setups[0]), 1, setups[1])
    PROVE  /\ e \in Devices /\ Follows(e)
           /\ e.reg = [d.reg EXCEPT !.channels = setups]
<1>1. /\ 0 \in Vds!Channels /\ 1 \in Vds!Channels /\ \A c \in Vds!Channels : c = 0 \/ c = 1
      /\ setups[0] \in Vds!Setup /\ setups[1] \in Vds!Setup
  BY DEF Vds!Channels
<1>a. PICK zero, s0, s1 : zero = 0 /\ s0 = setups[0] /\ s1 = setups[1]
  OBVIOUS
<1>b. PICK unit : unit = 1
  OBVIOUS
<1>2. PICK one : one = Vds!ConfigureChannel(d, zero, s0)
  OBVIOUS
<1>c. e = Vds!ConfigureChannel(one, unit, s1)
  BY <1>a, <1>b, <1>2
<1>3. /\ one \in Devices /\ Follows(one)
      /\ one.reg = [d.reg EXCEPT !.channels = [d.reg.channels EXCEPT ![0] = setups[0]]]
  <2>1. zero \in Vds!Channels /\ s0 \in Vds!Setup
    BY <1>1, <1>a
  <2>2. /\ one \in Devices /\ Follows(one)
        /\ Configured(one, d, zero, s0)
    BY <1>2, <2>1, ConfigureFollows
  <2> QED BY <1>a, <2>2 DEF Configured
<1>4. /\ e \in Devices /\ Follows(e)
      /\ e.reg = [one.reg EXCEPT !.channels = [one.reg.channels EXCEPT ![1] = setups[1]]]
  <2>1. unit \in Vds!Channels /\ s1 \in Vds!Setup
    BY <1>1, <1>a, <1>b
  <2>2. /\ e \in Devices /\ Follows(e)
        /\ Configured(e, one, unit, s1)
    <3>1. one \in Devices /\ Follows(one)
      BY <1>3
    <3> QED BY <1>c, <2>1, <3>1, ConfigureFollows
  <2> QED BY <1>a, <1>b, <2>2 DEF Configured
<1>5. d.reg \in Registers
  BY DEF Devices
<1>6. one.reg.channels = [d.reg.channels EXCEPT ![0] = setups[0]]
  BY <1>3, <1>5 DEF Registers
<1>7. [one.reg.channels EXCEPT ![1] = setups[1]] = setups
  BY <1>1, <1>5, <1>6 DEF Registers
<1>8. e.reg = [d.reg EXCEPT !.channels = setups]
  BY <1>3, <1>4, <1>5, <1>7 DEF Registers
<1> QED BY <1>4, <1>8

\* Writing a part makes the device hold it, keeps the driver's picture, and
\* disturbs no part but those that are written after it because of it.
Disturbs(part) == IF part = "channels" THEN {"trigger"} ELSE IF part = "rate" THEN {"position"} ELSE {}

Wrote(e, d, part, c) ==
    /\ e \in Devices /\ Follows(e) /\ HeldBy(e, part, c)
    /\ \A q \in VdsParts \ ({part} \cup Disturbs(part)) : HeldBy(d, q, c) => HeldBy(e, q, c)

LEMMA WritesPart ==
    ASSUME NEW d \in Devices, Follows(d), NEW c \in Vds!Config, NEW part \in VdsParts,
           NEW e, e = Vds!WritePart(d, part, c)
    PROVE  Wrote(e, d, part, c)
<1>1. /\ d.reg \in Registers /\ d.drv \in Driver
      /\ c.channels \in [Vds!Channels -> Vds!Setup] /\ c.rate \in VdsRates /\ c.position \in Positions
      /\ c.src \in Vds!Channels /\ c.level \in Levels /\ c.sweep \in Sweeps
      /\ c.peak \in BOOLEAN /\ c.running \in BOOLEAN
  BY DEF Devices, Vds!Config
<1>2. CASE part = "channels"
  <2>1. PICK s : s = c.channels
    OBVIOUS
  <2>2. e = Vds!ConfigureChannel(Vds!ConfigureChannel(d, 0, s[0]), 1, s[1])
    BY <1>2, <2>1 DEF Vds!WritePart
  <2>3. e \in Devices /\ Follows(e) /\ e.reg = [d.reg EXCEPT !.channels = s]
    BY <1>1, <2>1, <2>2, ChannelsFollow
  <2>4. /\ e.reg.channels = s /\ e.reg.rate = d.reg.rate /\ e.reg.roll = d.reg.roll
        /\ e.reg.position = d.reg.position /\ e.reg.peak = d.reg.peak /\ e.reg.running = d.reg.running
    BY <1>1, <2>3 DEF Registers
  <2>5. HeldBy(e, part, c)
    BY <1>2, <2>1, <2>4 DEF HeldBy
  <2>6. ASSUME NEW q \in {"rate", "position", "peak", "running"}, HeldBy(d, q, c) PROVE HeldBy(e, q, c)
    BY <2>4, <2>6 DEF HeldBy
  <2>7. VdsParts \ ({part} \cup Disturbs(part)) = {"rate", "position", "peak", "running"}
    BY <1>2 DEF VdsParts, Disturbs
  <2> QED BY <2>3, <2>5, <2>6, <2>7 DEF Wrote
<1>3. CASE part = "rate"
  <2>1. e = Vds!SetRate(d, c.rate)
    BY <1>3 DEF Vds!WritePart
  <2>2. PICK roll : roll = (c.rate \in SlowRates)
    OBVIOUS
  <2>3. /\ e \in Devices /\ Follows(e) /\ e.drv.channels = d.drv.channels
        /\ e.reg = [d.reg EXCEPT !.rate = c.rate, !.roll = roll, !.position = VdsCentre]
    BY <1>1, <2>1, <2>2, RateFollows
  <2>4. /\ e.reg.channels = d.reg.channels /\ e.reg.rate = c.rate /\ e.reg.roll = roll
        /\ e.reg.trigger = d.reg.trigger /\ e.reg.peak = d.reg.peak /\ e.reg.running = d.reg.running
    BY <1>1, <2>3 DEF Registers
  <2>5. HeldBy(e, part, c)
    BY <1>3, <2>2, <2>4 DEF HeldBy
  <2>6. ASSUME NEW q \in {"channels", "trigger", "peak", "running"}, HeldBy(d, q, c) PROVE HeldBy(e, q, c)
    BY <2>3, <2>4, <2>6 DEF HeldBy
  <2>7. VdsParts \ ({part} \cup Disturbs(part)) = {"channels", "trigger", "peak", "running"}
    BY <1>3 DEF VdsParts, Disturbs
  <2> QED BY <2>3, <2>5, <2>6, <2>7 DEF Wrote
<1>4. CASE part = "position"
  <2>1. e = Vds!SetPosition(d, c.position)
    BY <1>4 DEF Vds!WritePart
  <2>2. PICK at : at = IF d.reg.roll THEN VdsCentre ELSE c.position
    OBVIOUS
  <2>3. e \in Devices /\ Follows(e) /\ e.drv = d.drv /\ e.reg = [d.reg EXCEPT !.position = at]
    BY <1>1, <2>1, <2>2, PositionFollows
  <2>4. /\ e.reg.channels = d.reg.channels /\ e.reg.rate = d.reg.rate /\ e.reg.roll = d.reg.roll
        /\ e.reg.position = at
        /\ e.reg.trigger = d.reg.trigger /\ e.reg.peak = d.reg.peak /\ e.reg.running = d.reg.running
    BY <1>1, <2>3 DEF Registers
  <2>5. HeldBy(e, part, c)
    BY <1>4, <2>2, <2>4 DEF HeldBy
  <2>6. ASSUME NEW q \in {"channels", "rate", "trigger", "peak", "running"}, HeldBy(d, q, c)
        PROVE  HeldBy(e, q, c)
    BY <2>3, <2>4, <2>6 DEF HeldBy
  <2>7. VdsParts \ ({part} \cup Disturbs(part)) = {"channels", "rate", "trigger", "peak", "running"}
    BY <1>4 DEF VdsParts, Disturbs
  <2> QED BY <2>3, <2>5, <2>6, <2>7 DEF Wrote
<1>5. CASE part = "trigger"
  <2>1. e = Vds!SetTrigger(d, c.src, c.level, c.sweep)
    BY <1>5 DEF Vds!WritePart
  <2>2. PICK word : word = [src |-> c.src, sweep |-> c.sweep, counts |-> <<c.level, d.drv.channels[c.src].vb>>]
    OBVIOUS
  <2>3. /\ e \in Devices /\ Follows(e) /\ e.drv.channels = d.drv.channels
        /\ e.reg = [d.reg EXCEPT !.trigger = word]
    <3>1. e \in Devices /\ Follows(e) /\ e.drv.channels = d.drv.channels
          /\ Triggered(e, d, c.src, c.level, c.sweep)
      BY <1>1, <2>1, TriggerFollows
    <3> QED BY <2>2, <3>1 DEF Triggered
  <2>4. /\ e.reg.channels = d.reg.channels /\ e.reg.rate = d.reg.rate /\ e.reg.roll = d.reg.roll
        /\ e.reg.position = d.reg.position
        /\ e.reg.trigger = word /\ e.reg.peak = d.reg.peak /\ e.reg.running = d.reg.running
    BY <1>1, <2>3 DEF Registers
  <2>5. HeldBy(e, part, c)
    BY <1>5, <2>2, <2>3, <2>4 DEF HeldBy
  <2>6. ASSUME NEW q \in {"channels", "rate", "position", "peak", "running"}, HeldBy(d, q, c)
        PROVE  HeldBy(e, q, c)
    BY <2>4, <2>6 DEF HeldBy
  <2>7. VdsParts \ ({part} \cup Disturbs(part)) = {"channels", "rate", "position", "peak", "running"}
    BY <1>5 DEF VdsParts, Disturbs
  <2> QED BY <2>3, <2>5, <2>6, <2>7 DEF Wrote
<1>6. CASE part = "peak"
  <2>1. e = Vds!SetPeak(d, c.peak)
    BY <1>6 DEF Vds!WritePart
  <2>3. /\ e \in Devices /\ Follows(e) /\ e.drv.channels = d.drv.channels
        /\ e.reg = [d.reg EXCEPT !.peak = c.peak]
    BY <1>1, <2>1, PeakFollows
  <2>4. /\ e.reg.channels = d.reg.channels /\ e.reg.rate = d.reg.rate /\ e.reg.roll = d.reg.roll
        /\ e.reg.position = d.reg.position
        /\ e.reg.trigger = d.reg.trigger /\ e.reg.peak = c.peak /\ e.reg.running = d.reg.running
    BY <1>1, <2>3 DEF Registers
  <2>5. HeldBy(e, part, c)
    BY <1>6, <2>4 DEF HeldBy
  <2>6. ASSUME NEW q \in {"channels", "rate", "position", "trigger", "running"}, HeldBy(d, q, c)
        PROVE  HeldBy(e, q, c)
    BY <2>3, <2>4, <2>6 DEF HeldBy
  <2>7. VdsParts \ ({part} \cup Disturbs(part)) = {"channels", "rate", "position", "trigger", "running"}
    BY <1>6 DEF VdsParts, Disturbs
  <2> QED BY <2>3, <2>5, <2>6, <2>7 DEF Wrote
<1>7. CASE part = "running"
  <2>1. e = Vds!SetRunning(d, c.running)
    BY <1>7 DEF Vds!WritePart
  <2>3. e \in Devices /\ Follows(e) /\ e.drv = d.drv /\ e.reg = [d.reg EXCEPT !.running = c.running]
    BY <1>1, <2>1, RunningFollows
  <2>4. /\ e.reg.channels = d.reg.channels /\ e.reg.rate = d.reg.rate /\ e.reg.roll = d.reg.roll
        /\ e.reg.position = d.reg.position
        /\ e.reg.trigger = d.reg.trigger /\ e.reg.peak = d.reg.peak /\ e.reg.running = c.running
    BY <1>1, <2>3 DEF Registers
  <2>5. HeldBy(e, part, c)
    BY <1>7, <2>4 DEF HeldBy
  <2>6. ASSUME NEW q \in {"channels", "rate", "position", "trigger", "peak"}, HeldBy(d, q, c)
        PROVE  HeldBy(e, q, c)
    BY <2>3, <2>4, <2>6 DEF HeldBy
  <2>7. VdsParts \ ({part} \cup Disturbs(part)) = {"channels", "rate", "position", "trigger", "peak"}
    BY <1>7 DEF VdsParts, Disturbs
  <2> QED BY <2>3, <2>5, <2>6, <2>7 DEF Wrote
<1> QED BY <1>2, <1>3, <1>4, <1>5, <1>6, <1>7 DEF VdsParts

\* The parts are written in an order in which each comes after those that
\* disturb it: when k of them are done, the device holds the first k, but for
\* those in m, and of the others those that need no write.
Staged(d, k, prev, c, m) ==
    /\ d \in Devices /\ Follows(d)
    /\ \A i \in 1..6 : \/ Vds!Parts[i] \in m \/ HeldBy(d, Vds!Parts[i], c)
                       \/ i > k /\ Vds!Differs(Vds!Parts[i], prev, c)

\* What is disturbed by a part differs when that part does, and comes later.
LEMMA DisturbedIsLater ==
    ASSUME NEW prev \in Vds!Config \cup {None}, NEW c \in Vds!Config, NEW k \in 1..6,
           Vds!Differs(Vds!Parts[k], prev, c), NEW i \in 1..6, Vds!Parts[i] \in Disturbs(Vds!Parts[k])
    PROVE  i > k /\ Vds!Differs(Vds!Parts[i], prev, c)
<1>1. CASE k = 1
  <2>1. i = 4 /\ Vds!Parts[k] = "channels" /\ Vds!Parts[i] = "trigger"
    BY <1>1 DEF Vds!Parts, Disturbs
  <2> QED BY <1>1, <2>1 DEF Vds!Differs
<1>2. CASE k = 2
  <2>1. i = 3 /\ Vds!Parts[k] = "rate" /\ Vds!Parts[i] = "position"
    BY <1>2 DEF Vds!Parts, Disturbs
  <2> QED BY <1>2, <2>1 DEF Vds!Differs
<1>3. k \in 3..6 => Disturbs(Vds!Parts[k]) = {}
  BY DEF Vds!Parts, Disturbs
<1> QED BY <1>1, <1>2, <1>3

\* One part more.
LEMMA StagesOne ==
    ASSUME NEW prev \in Vds!Config \cup {None}, NEW c \in Vds!Config, NEW m, NEW k \in 1..6,
           NEW d, Staged(d, k - 1, prev, c, m), NEW e, e = Vds!Update(d, Vds!Parts[k], prev, c)
    PROVE  Staged(e, k, prev, c, m)
<1>1. Vds!Parts[k] \in VdsParts /\ \A i \in 1..6 : Vds!Parts[i] \in VdsParts
  BY DEF Vds!Parts, VdsParts
<1>2. \A i \in 1..6 : Vds!Parts[i] = Vds!Parts[k] => i = k
  BY DEF Vds!Parts
<1>3. CASE Vds!Differs(Vds!Parts[k], prev, c)
  <2>1. Wrote(e, d, Vds!Parts[k], c)
    BY <1>1, <1>3, WritesPart DEF Vds!Update, Staged
  <2>2. ASSUME NEW i \in 1..6
        PROVE  \/ Vds!Parts[i] \in m \/ HeldBy(e, Vds!Parts[i], c)
               \/ i > k /\ Vds!Differs(Vds!Parts[i], prev, c)
    <3>1. CASE i = k
      BY <2>1, <3>1 DEF Wrote
    <3>2. CASE Vds!Parts[i] \in Disturbs(Vds!Parts[k])
      BY <1>3, <3>2, DisturbedIsLater
    <3>3. CASE i # k /\ Vds!Parts[i] \notin Disturbs(Vds!Parts[k])
      <4>1. Vds!Parts[i] \in VdsParts \ ({Vds!Parts[k]} \cup Disturbs(Vds!Parts[k]))
        BY <1>1, <1>2, <3>3
      <4>2. HeldBy(d, Vds!Parts[i], c) => HeldBy(e, Vds!Parts[i], c)
        BY <2>1, <4>1 DEF Wrote
      <4>3. i > k - 1 => i > k
        BY <3>3
      <4> QED BY <4>2, <4>3 DEF Staged
    <3> QED BY <3>1, <3>2, <3>3
  <2> QED BY <2>1, <2>2 DEF Wrote, Staged
<1>4. CASE ~Vds!Differs(Vds!Parts[k], prev, c)
  <2>1. e = d
    BY <1>4 DEF Vds!Update
  <2>2. \A i \in 1..6 : i > k - 1 => i > k \/ i = k
    OBVIOUS
  <2> QED BY <1>4, <2>1, <2>2 DEF Staged
<1> QED BY <1>3, <1>4

\* One part more, or none behind the n-th.
LEMMA StagesNext ==
    ASSUME NEW prev \in Vds!Config \cup {None}, NEW c \in Vds!Config, NEW m, NEW k \in 1..6, NEW n \in 0..6,
           NEW d, Staged(d, IF k - 1 <= n THEN k - 1 ELSE n, prev, c, m),
           NEW e, e = IF k <= n THEN Vds!Update(d, Vds!Parts[k], prev, c) ELSE d
    PROVE  Staged(e, IF k <= n THEN k ELSE n, prev, c, m)
<1>1. CASE k <= n
  <2>1. Staged(d, k - 1, prev, c, m)
    BY <1>1
  <2> QED BY <1>1, <2>1, StagesOne
<1>2. CASE k > n
  <2>1. Staged(d, n, prev, c, m)
    <3>1. CASE k - 1 <= n
      <4>1. k - 1 = n
        BY <1>2, <3>1
      <4> QED BY <3>1, <4>1
    <3> QED BY <3>1
  <2>2. ~(k <= n) /\ e = d
    BY <1>2
  <2> QED BY <2>1, <2>2
<1> QED BY <1>1, <1>2

\* The first n parts.
LEMMA WrittenIsStaged ==
    ASSUME NEW prev \in Vds!Config \cup {None}, NEW c \in Vds!Config, NEW m, NEW n \in 0..6,
           NEW d, Staged(d, 0, prev, c, m), NEW e, e = Vds!Written(d, prev, c, n)
    PROVE  Staged(e, n, prev, c, m)
<1> DEFINE Upto(k) == IF k <= n THEN k ELSE n
<1>1. PICK e1 : e1 = IF 1 <= n THEN Vds!Update(d, Vds!Parts[1], prev, c) ELSE d
  OBVIOUS
<1>2. PICK e2 : e2 = IF 2 <= n THEN Vds!Update(e1, Vds!Parts[2], prev, c) ELSE e1
  OBVIOUS
<1>3. PICK e3 : e3 = IF 3 <= n THEN Vds!Update(e2, Vds!Parts[3], prev, c) ELSE e2
  OBVIOUS
<1>4. PICK e4 : e4 = IF 4 <= n THEN Vds!Update(e3, Vds!Parts[4], prev, c) ELSE e3
  OBVIOUS
<1>5. PICK e5 : e5 = IF 5 <= n THEN Vds!Update(e4, Vds!Parts[5], prev, c) ELSE e4
  OBVIOUS
<1>6. PICK e6 : e6 = IF 6 <= n THEN Vds!Update(e5, Vds!Parts[6], prev, c) ELSE e5
  OBVIOUS
<1>7. e = e6
  BY <1>1, <1>2, <1>3, <1>4, <1>5, <1>6 DEF Vds!Written
<1>8. ASSUME NEW k \in 1..6, NEW a, Staged(a, Upto(k - 1), prev, c, m),
             NEW b, b = IF k <= n THEN Vds!Update(a, Vds!Parts[k], prev, c) ELSE a
      PROVE  Staged(b, Upto(k), prev, c, m)
  BY <1>8, StagesNext
<1>9. Upto(0) = 0 /\ Upto(6) = n
  OBVIOUS
<1>10. 1 - 1 = 0 /\ 2 - 1 = 1 /\ 3 - 1 = 2 /\ 4 - 1 = 3 /\ 5 - 1 = 4 /\ 6 - 1 = 5
  OBVIOUS
<1> HIDE DEF Upto
<1>11. Staged(e1, Upto(1), prev, c, m)
  BY <1>1, <1>8, <1>9, <1>10
<1>12. Staged(e2, Upto(2), prev, c, m)
  BY <1>2, <1>8, <1>10, <1>11
<1>13. Staged(e3, Upto(3), prev, c, m)
  BY <1>3, <1>8, <1>10, <1>12
<1>14. Staged(e4, Upto(4), prev, c, m)
  BY <1>4, <1>8, <1>10, <1>13
<1>15. Staged(e5, Upto(5), prev, c, m)
  BY <1>5, <1>8, <1>10, <1>14
<1>16. Staged(e6, Upto(6), prev, c, m)
  BY <1>6, <1>8, <1>10, <1>15
<1> QED BY <1>7, <1>9, <1>16

\* A record that is finished on the way changes nothing that is held.
LEMMA SampledIsStaged ==
    ASSUME NEW prev, NEW c, NEW m, NEW k, NEW d, Staged(d, k, prev, c, m)
    PROVE  Staged(Vds!Sampled(d), k, prev, c, m)
<1>1. PICK e : e = Vds!Sampled(d)
  OBVIOUS
<1>2. e \in Devices /\ Follows(e) /\ e.reg = d.reg /\ e.drv = d.drv
  BY <1>1, SampledFollows DEF Staged
<1>3. \A part : HeldBy(d, part, c) => HeldBy(e, part, c)
  BY <1>2 DEF HeldBy
<1> QED BY <1>1, <1>2, <1>3 DEF Staged

\* The device is what was written to it.
LEMMA DeviceIs ==
    ASSUME NEW e \in Devices, Vds!SetDevice(e)
    PROVE  (Vds!Device)' = e
  BY DEF Vds!SetDevice, Vds!Device, Devices

\* apply(): from what was held and what differs to the whole configuration.
LEMMA ApplyKeeps ==
    ASSUME VdsInv, NEW c \in Vds!Config, Vds!Apply(c)
    PROVE  VdsInv'
<1>1. PICK w, m : w = Vds!Written(Vds!Device, vdsApplied, c, 4)
                  /\ m = {p \in vdsApart : ~Vds!Differs(p, vdsApplied, c)}
  OBVIOUS
<1>a. PICK d \in {w, Vds!Sampled(w)} :
         LET peaked == Vds!Update(d, "peak", vdsApplied, c)
         IN \E x \in {peaked, Vds!Sampled(peaked)} :
                Vds!SetDevice(Vds!Update(x, "running", vdsApplied, c))
  BY <1>1 DEF Vds!Apply
<1>b. PICK k : k = Vds!Update(d, "peak", vdsApplied, c)
  OBVIOUS
<1>c. PICK x \in {k, Vds!Sampled(k)} : Vds!SetDevice(Vds!Update(x, "running", vdsApplied, c))
  BY <1>a, <1>b
<1>d. PICK e : e = Vds!Update(x, "running", vdsApplied, c)
  OBVIOUS
<1>2. vdsApplied \in Vds!Config \cup {None} /\ vdsApplied' = c /\ vdsApart' = m /\ Vds!SetDevice(e)
  BY <1>1, <1>c, <1>d DEF Vds!Apply, VdsInv
<1>3. Staged(Vds!Device, 0, vdsApplied, c, m)
  <2>1. ASSUME NEW i \in 1..6, ~Vds!Differs(Vds!Parts[i], vdsApplied, c), Vds!Parts[i] \notin m
        PROVE  HeldBy(Vds!Device, Vds!Parts[i], c)
    <3>1. vdsApplied # None /\ Vds!Parts[i] \notin vdsApart
      BY <1>1, <2>1 DEF Vds!Differs
    <3>2. Vds!Holds(Vds!Parts[i], vdsApplied)
      <4>1. i \in DOMAIN Vds!Parts
        BY DEF Vds!Parts
      <4> QED BY <3>1, <4>1 DEF VdsInv, Vds!AppliedIsHeld
    <3>3. PICK p, a, f : p = Vds!Parts[i] /\ a = vdsApplied /\ f = Vds!Device
      OBVIOUS
    <3>4. HeldBy(f, p, a)
      BY <3>2, <3>3 DEF HeldBy, Vds!Holds, Vds!Counts, Vds!Device
    <3>5. p \in VdsParts /\ a # None /\ ~Vds!Differs(p, a, c)
      BY <2>1, <3>1, <3>3 DEF Vds!Parts, VdsParts
    <3>6. HeldBy(f, p, c)
      BY <3>4, <3>5 DEF HeldBy, Vds!Differs, Vds!Word, VdsParts
    <3> QED BY <3>3, <3>6
  <2> QED BY <2>1 DEF Staged, VdsInv
<1>4. Staged(e, 6, vdsApplied, c, m)
  <2>1. Staged(w, 4, vdsApplied, c, m)
    BY <1>1, <1>2, <1>3, WrittenIsStaged
  <2>2. Staged(d, 4, vdsApplied, c, m)
    BY <1>a, <2>1, SampledIsStaged
  <2>3. Vds!Parts[5] = "peak" /\ Vds!Parts[6] = "running" /\ 5 - 1 = 4 /\ 6 - 1 = 5
    BY DEF Vds!Parts
  <2>4. Staged(k, 5, vdsApplied, c, m)
    BY <1>2, <1>b, <2>2, <2>3, StagesOne
  <2>5. Staged(x, 5, vdsApplied, c, m)
    BY <1>c, <2>4, SampledIsStaged
  <2> QED BY <1>2, <1>d, <2>3, <2>5, StagesOne
<1>5. e \in Devices /\ Follows(e) /\ \A i \in 1..6 : Vds!Parts[i] \in m \/ HeldBy(e, Vds!Parts[i], c)
  BY <1>4 DEF Staged
<1>6. (Vds!Device)' = e
  BY <1>2, <1>5, DeviceIs
<1>7. Vds!AppliedIsHeld'
  <2>1. ASSUME NEW i \in DOMAIN Vds!Parts PROVE Vds!Parts[i] \in vdsApart' \/ Vds!Holds(Vds!Parts[i], vdsApplied)'
    <3>1. i \in 1..6
      BY DEF Vds!Parts
    <3>2. PICK p : p = Vds!Parts[i]
      OBVIOUS
    <3>3. HeldBy(e, p, c) => Vds!Holds(p, vdsApplied)'
      BY <1>2, <1>6 DEF HeldBy, Vds!Holds, Vds!Counts, Vds!Device
    <3> QED BY <1>2, <1>5, <3>1, <3>2, <3>3
  <2> QED BY <2>1 DEF Vds!AppliedIsHeld
<1> QED BY <1>2, <1>5, <1>6, <1>7 DEF VdsInv

\* A transfer fails: what was written keeps the driver's picture.
LEMMA ApplyFailsKeeps ==
    ASSUME VdsInv, NEW c \in Vds!Config, NEW n \in 0..5, Vds!ApplyFails(c, n)
    PROVE  VdsInv'
<1>1. PICK e : e = Vds!Written(Vds!Device, vdsApplied, c, n)
  OBVIOUS
<1>2. vdsApplied \in Vds!Config \cup {None} /\ vdsApplied' = None /\ Vds!SetDevice(e)
  BY <1>1 DEF Vds!ApplyFails, VdsInv
<1>3. Staged(Vds!Device, 0, vdsApplied, c, VdsParts)
  BY DEF Staged, VdsInv, Vds!Parts, VdsParts
<1>4. Staged(e, n, vdsApplied, c, VdsParts)
  BY <1>1, <1>2, <1>3, WrittenIsStaged
<1>5. e \in Devices /\ Follows(e)
  BY <1>4 DEF Staged
<1>6. (Vds!Device)' = e
  BY <1>2, <1>5, DeviceIs
<1> QED BY <1>2, <1>5, <1>6 DEF VdsInv, Vds!AppliedIsHeld

\* The configuration auto-set starts from.
LEMMA BaseIs ==
    ASSUME VdsInv
    PROVE  Vds!Base \in Vds!Config /\ Vds!Base.src \in Vds!Channels
<1>1. CASE vdsApplied # None
  BY <1>1 DEF VdsInv, Vds!Base, Vds!Config
<1>2. CASE vdsApplied = None
  <2>1. [c \in Vds!Channels |-> [Vds!Off EXCEPT !.on = (c = 0)]] \in [Vds!Channels -> Vds!Setup]
    BY RangesAre DEF Vds!Setup
  <2>2. 0 \in Vds!Channels
    BY DEF Vds!Channels
  <2> QED BY <1>2, <2>1, <2>2, RangesAre DEF Vds!Base, Vds!Config
<1> QED BY <1>1, <1>2

\* A probe of auto-set: peak detection is left alone, and of the channels only
\* the trigger's source is set.
LEMMA ProbedIs ==
    ASSUME VdsInv, NEW v \in Ranges, NEW e, e = Vds!Probed(v)
    PROVE  /\ e \in Devices /\ Follows(e) /\ e.reg.peak = vdsReg.peak
           /\ e.reg.channels = [vdsReg.channels EXCEPT ![Vds!Base.src] = [on |-> TRUE, vb |-> v]]
<1>1. PICK d, src : d = Vds!Device /\ src = Vds!Base.src
  OBVIOUS
<1>2. d \in Devices /\ Follows(d) /\ src \in Vds!Channels /\ d.reg = vdsReg
  BY <1>1, BaseIs DEF VdsInv, Vds!Device
<1>3. PICK t, r, s, u : t = Vds!SetTrigger(d, src, Zero, "auto") /\ r = Vds!SetRate(t, BaseRate)
                        /\ s = Vds!SetRunning(r, TRUE) /\ u = [on |-> TRUE, vb |-> v]
  OBVIOUS
<1>4. e = Vds!ConfigureChannel(s, src, u)
  BY <1>1, <1>3 DEF Vds!Probed
<1>5. t \in Devices /\ Follows(t) /\ Triggered(t, d, src, Zero, "auto")
  BY <1>2, <1>3, RangesAre, TriggerFollows
<1>6. r \in Devices /\ Follows(r)
      /\ r.reg = [t.reg EXCEPT !.rate = BaseRate, !.roll = (BaseRate \in SlowRates), !.position = VdsCentre]
  BY <1>3, <1>5, RangesAre, RateFollows
<1>7. s \in Devices /\ Follows(s) /\ s.reg = [r.reg EXCEPT !.running = TRUE]
  <2>1. r \in Devices /\ Follows(r)
    BY <1>6
  <2> QED BY <1>3, <2>1, RunningFollows
<1>8. e \in Devices /\ Follows(e) /\ Configured(e, s, src, u)
  <2>1. s \in Devices /\ Follows(s) /\ u \in Vds!Setup
    BY <1>3, <1>7 DEF Vds!Setup
  <2> QED BY <1>2, <1>4, <2>1, ConfigureFollows
<1>9. t.reg.peak = d.reg.peak /\ t.reg.channels = d.reg.channels
  BY <1>2, <1>5 DEF Triggered, Devices, Registers
<1>10. r.reg.peak = t.reg.peak /\ r.reg.channels = t.reg.channels
  BY <1>5, <1>6 DEF Devices, Registers
<1>11. s.reg.peak = r.reg.peak /\ s.reg.channels = r.reg.channels
  BY <1>6, <1>7 DEF Devices, Registers
<1>12. e.reg.peak = s.reg.peak /\ e.reg.channels = [s.reg.channels EXCEPT ![src] = u]
  BY <1>7, <1>8 DEF Configured, Devices, Registers
<1> QED BY <1>1, <1>2, <1>3, <1>8, <1>9, <1>10, <1>11, <1>12

\* Nothing to measure: what the probing wrote is marked as moved.
LEMMA FlatKeeps ==
    ASSUME VdsInv, NEW v \in Ranges, Vds!AutosetFlat(v)
    PROVE  VdsInv'
<1>1. PICK e : e = Vds!Probed(v)
  OBVIOUS
<1>2. e \in Devices /\ Follows(e) /\ e.reg.peak = vdsReg.peak
  BY <1>1, ProbedIs
<1>3. Vds!SetDevice(e) /\ vdsApplied' = vdsApplied
  BY <1>1 DEF Vds!AutosetFlat
<1>4. (Vds!Device)' = e /\ vdsReg' = e.reg
  BY <1>2, <1>3, DeviceIs DEF Vds!SetDevice
<1>5. Vds!AppliedIsHeld'
  <2>1. ASSUME vdsApplied # None, NEW i \in DOMAIN Vds!Parts
        PROVE  Vds!Parts[i] \in vdsApart' \/ Vds!Holds(Vds!Parts[i], vdsApplied)'
    <3>1. vdsApart' = vdsApart \cup {"channels", "rate", "position", "trigger", "running"}
      BY <2>1 DEF Vds!AutosetFlat
    <3>2. CASE Vds!Parts[i] # "peak"
      BY <3>1, <3>2 DEF Vds!Parts
    <3>3. CASE Vds!Parts[i] = "peak"
      <4>1. "peak" \in vdsApart \/ vdsReg.peak = vdsApplied.peak
        BY <2>1, <3>3 DEF VdsInv, Vds!AppliedIsHeld, Vds!Holds
      <4>2. vdsReg'.peak = vdsReg.peak
        BY <1>2, <1>4
      <4>3. vdsReg.peak = vdsApplied.peak => Vds!Holds("peak", vdsApplied)'
        BY <1>3, <4>2 DEF Vds!Holds
      <4> QED BY <3>1, <3>3, <4>1, <4>3
    <3> QED BY <3>2, <3>3
  <2> QED BY <1>3, <2>1 DEF Vds!AppliedIsHeld
<1> QED BY <1>2, <1>3, <1>4, <1>5 DEF VdsInv

\* What was found is written and reported, but for the other channel's setup
\* and peak detection, which are marked when they were not held.
LEMMA FoundKeeps ==
    ASSUME VdsInv, NEW v \in Ranges, NEW level \in Levels, NEW rate \in VdsRates \ SlowRates,
           Vds!AutosetFound(v, level, rate)
    PROVE  VdsInv'
<1>1. PICK src, base : src = Vds!Base.src /\ base = Vds!Base
  OBVIOUS
<1>2. PICK p, r, t, e : p = Vds!Probed(v) /\ r = Vds!SetRate(p, rate)
                        /\ t = Vds!SetTrigger(r, src, level, "auto") /\ e = Vds!SetRunning(t, TRUE)
  OBVIOUS
<1>3. p \in Devices /\ Follows(p) /\ p.reg.peak = vdsReg.peak
      /\ p.reg.channels = [vdsReg.channels EXCEPT ![src] = [on |-> TRUE, vb |-> v]]
  BY <1>1, <1>2, ProbedIs
<1>4. r \in Devices /\ Follows(r)
      /\ r.reg = [p.reg EXCEPT !.rate = rate, !.roll = (rate \in SlowRates), !.position = VdsCentre]
  <2>1. p \in Devices /\ Follows(p)
    BY <1>3
  <2> QED BY <1>2, <2>1, RateFollows
<1>5. src \in Vds!Channels /\ base \in Vds!Config
  BY <1>1, BaseIs
<1>6. t \in Devices /\ Follows(t) /\ Triggered(t, r, src, level, "auto") /\ t.drv.channels = r.drv.channels
  <2>1. r \in Devices /\ Follows(r)
    BY <1>4
  <2> QED BY <1>2, <1>5, <2>1, RangesAre, TriggerFollows
<1>7. e \in Devices /\ Follows(e) /\ e.reg = [t.reg EXCEPT !.running = TRUE] /\ e.drv = t.drv
  BY <1>2, <1>6, RunningFollows
<1>8. /\ e.reg.peak = vdsReg.peak /\ e.reg.channels = [vdsReg.channels EXCEPT ![src] = [on |-> TRUE, vb |-> v]]
      /\ e.reg.rate = rate /\ e.reg.roll = (rate \in SlowRates) /\ e.reg.position = VdsCentre
      /\ e.reg.running = TRUE
      /\ e.reg.trigger = [src |-> src, sweep |-> "auto", counts |-> <<level, e.drv.channels[src].vb>>]
  <2>1. /\ r.reg.peak = p.reg.peak /\ r.reg.channels = p.reg.channels /\ r.reg.rate = rate
        /\ r.reg.roll = (rate \in SlowRates) /\ r.reg.position = VdsCentre
    BY <1>3, <1>4 DEF Devices, Registers
  <2>2. /\ t.reg.peak = r.reg.peak /\ t.reg.channels = r.reg.channels /\ t.reg.rate = r.reg.rate
        /\ t.reg.roll = r.reg.roll /\ t.reg.position = r.reg.position
        /\ t.reg.trigger = [src |-> src, sweep |-> "auto", counts |-> <<level, r.drv.channels[src].vb>>]
    BY <1>4, <1>6 DEF Triggered, Devices, Registers
  <2>3. /\ e.reg.peak = t.reg.peak /\ e.reg.channels = t.reg.channels /\ e.reg.rate = t.reg.rate
        /\ e.reg.roll = t.reg.roll /\ e.reg.position = t.reg.position
        /\ e.reg.trigger = t.reg.trigger /\ e.reg.running = TRUE
    BY <1>6, <1>7 DEF Devices, Registers
  <2> QED BY <1>3, <1>6, <1>7, <2>1, <2>2, <2>3
<1>9. Vds!SetDevice(e) /\ (Vds!Device)' = e /\ vdsReg' = e.reg /\ vdsDrv' = e.drv
  <2>1. Vds!SetDevice(e)
    BY <1>1, <1>2 DEF Vds!AutosetFound
  <2> QED BY <1>7, <2>1, DeviceIs DEF Vds!SetDevice
<1>10. PICK found : found = [base EXCEPT !.channels[src] = [on |-> TRUE, vb |-> v],
                                         !.rate = rate, !.level = level, !.sweep = "auto",
                                         !.position = VdsCentre, !.peak = FALSE, !.running = TRUE]
  OBVIOUS
<1>11. vdsApplied' = found
  BY <1>1, <1>10 DEF Vds!AutosetFound
<1>12. /\ found \in Vds!Config /\ found.src = src /\ found.level = level /\ found.sweep = "auto"
       /\ found.rate = rate /\ found.position = VdsCentre /\ found.peak = FALSE /\ found.running = TRUE
       /\ found.channels = [base.channels EXCEPT ![src] = [on |-> TRUE, vb |-> v]]
  <2>1. [on |-> TRUE, vb |-> v] \in Vds!Setup
    BY DEF Vds!Setup
  <2>2. PICK chs : chs = [base.channels EXCEPT ![src] = [on |-> TRUE, vb |-> v]]
    OBVIOUS
  <2>3. chs \in [Vds!Channels -> Vds!Setup]
    BY <1>5, <2>1, <2>2 DEF Vds!Config
  <2>4. found = [base EXCEPT !.channels = chs, !.rate = rate, !.level = level, !.sweep = "auto",
                             !.position = VdsCentre, !.peak = FALSE, !.running = TRUE]
    BY <1>10, <2>2
  <2>5. base.src = src
    BY <1>1
  <2> QED BY <1>5, <2>2, <2>3, <2>4, <2>5, RangesAre DEF Vds!Config
<1>13. Vds!Holds("rate", found)' /\ Vds!Holds("position", found)' /\ Vds!Holds("trigger", found)'
       /\ Vds!Holds("running", found)'
  <2>1. Vds!Holds("rate", found)'
    BY <1>8, <1>9, <1>12 DEF Vds!Holds
  <2>2. Vds!Holds("position", found)'
    BY <1>8, <1>9, <1>12 DEF Vds!Holds
  <2>3. Vds!Holds("trigger", found)'
    BY <1>8, <1>9, <1>12 DEF Vds!Holds, Vds!Counts
  <2>4. Vds!Holds("running", found)'
    BY <1>8, <1>9, <1>12 DEF Vds!Holds
  <2> QED BY <2>1, <2>2, <2>3, <2>4
<1>14. "channels" \in vdsApart' \/ Vds!Holds("channels", found)'
  <2>1. CASE vdsApplied = None \/ "channels" \in vdsApart
    BY <2>1 DEF Vds!AutosetFound
  <2>2. CASE vdsApplied # None /\ "channels" \notin vdsApart
    <3>1. 1 \in DOMAIN Vds!Parts /\ Vds!Parts[1] = "channels"
      BY DEF Vds!Parts
    <3>2. vdsReg.channels = vdsApplied.channels
      BY <2>2, <3>1 DEF VdsInv, Vds!AppliedIsHeld, Vds!Holds
    <3>3. base = vdsApplied
      BY <1>1, <2>2 DEF Vds!Base
    <3>4. vdsReg'.channels = found.channels
      BY <1>8, <1>9, <1>12, <3>2, <3>3
    <3> QED BY <3>4 DEF Vds!Holds
  <2> QED BY <2>1, <2>2
<1>15. "peak" \in vdsApart' \/ Vds!Holds("peak", found)'
  <2>1. CASE vdsApplied = None \/ "peak" \in vdsApart \/ vdsApplied.peak
    BY <2>1 DEF Vds!AutosetFound
  <2>2. CASE vdsApplied # None /\ "peak" \notin vdsApart /\ ~vdsApplied.peak
    <3>1. vdsApplied.peak = FALSE
      BY <2>2 DEF VdsInv, Vds!Config
    <3>2. 5 \in DOMAIN Vds!Parts /\ Vds!Parts[5] = "peak"
      BY DEF Vds!Parts
    <3>3. vdsReg.peak = vdsApplied.peak
      BY <2>2, <3>2 DEF VdsInv, Vds!AppliedIsHeld, Vds!Holds
    <3>4. vdsReg'.peak = FALSE
      BY <1>8, <1>9, <3>1, <3>3
    <3> QED BY <1>12, <3>4 DEF Vds!Holds
  <2> QED BY <2>1, <2>2
<1>16. Vds!AppliedIsHeld'
  <2>1. ASSUME NEW i \in DOMAIN Vds!Parts
        PROVE  Vds!Parts[i] \in vdsApart' \/ Vds!Holds(Vds!Parts[i], found)'
    <3>1. Vds!Parts[i] \in VdsParts
      BY DEF Vds!Parts, VdsParts
    <3> QED BY <1>13, <1>14, <1>15, <3>1 DEF VdsParts
  <2> QED BY <1>11, <2>1 DEF Vds!AppliedIsHeld
<1> QED BY <1>7, <1>9, <1>11, <1>12, <1>16 DEF VdsInv

\* A keep-alive stops the instrument, and is marked when it should run.
LEMMA KeepAliveKeeps ==
    ASSUME VdsInv, Vds!KeepAlive
    PROVE  VdsInv'
<1>1. PICK e : e = Vds!SetRunning(Vds!Device, FALSE)
  OBVIOUS
<1>2. e \in Devices /\ Follows(e) /\ e.drv = vdsDrv /\ e.reg = [vdsReg EXCEPT !.running = FALSE]
  <2>1. (Vds!Device).drv = vdsDrv /\ (Vds!Device).reg = vdsReg
    BY DEF Vds!Device
  <2> QED BY <1>1, <2>1, RunningFollows DEF VdsInv
<1>3. Vds!SetDevice(e) /\ vdsApplied' = vdsApplied
  BY <1>1 DEF Vds!KeepAlive
<1>4. (Vds!Device)' = e /\ vdsReg' = e.reg /\ vdsDrv' = vdsDrv
  BY <1>2, <1>3, DeviceIs DEF Vds!SetDevice
<1>5. /\ vdsReg'.channels = vdsReg.channels /\ vdsReg'.rate = vdsReg.rate /\ vdsReg'.roll = vdsReg.roll
      /\ vdsReg'.position = vdsReg.position /\ vdsReg'.trigger = vdsReg.trigger
      /\ vdsReg'.peak = vdsReg.peak /\ vdsReg'.running = FALSE
  BY <1>2, <1>4 DEF VdsInv, Vds!Device, Devices, Registers
<1>6. Vds!AppliedIsHeld'
  <2>1. ASSUME vdsApplied # None, NEW i \in DOMAIN Vds!Parts
        PROVE  Vds!Parts[i] \in vdsApart' \/ Vds!Holds(Vds!Parts[i], vdsApplied)'
    <3>1. PICK p : p = Vds!Parts[i] /\ p \in VdsParts
      BY DEF Vds!Parts, VdsParts
    <3>2. vdsApart \subseteq vdsApart' /\ (vdsApplied.running => "running" \in vdsApart')
      BY <2>1 DEF Vds!KeepAlive
    <3>3. p \in vdsApart \/ Vds!Holds(p, vdsApplied)
      BY <2>1, <3>1 DEF VdsInv, Vds!AppliedIsHeld
    <3>4. CASE p = "running"
      <4>1. vdsApplied.running \in BOOLEAN
        BY <2>1 DEF VdsInv, Vds!Config
      <4>2. ~vdsApplied.running => Vds!Holds(p, vdsApplied)'
        BY <1>3, <1>5, <3>4, <4>1 DEF Vds!Holds
      <4> QED BY <3>1, <3>2, <3>4, <4>2
    <3>5. CASE p # "running"
      <4>1. Vds!Holds(p, vdsApplied) => Vds!Holds(p, vdsApplied)'
        BY <1>3, <1>4, <1>5, <3>1, <3>5 DEF Vds!Holds, VdsParts
      <4> QED BY <3>1, <3>2, <3>3, <4>1
    <3> QED BY <3>4, <3>5
  <2> QED BY <1>3, <2>1 DEF Vds!AppliedIsHeld
<1> QED BY <1>2, <1>3, <1>4, <1>6 DEF VdsInv

\* What is held is so whatever record is ready.
LEMMA OnlyTheRecord ==
    ASSUME VdsInv, NEW e \in Devices, Follows(e), Vds!SetDevice(e), e.reg = vdsReg, e.drv = vdsDrv,
           vdsApplied' = vdsApplied, vdsApart' = vdsApart
    PROVE  VdsInv'
<1>1. (Vds!Device)' = e /\ vdsReg' = vdsReg /\ vdsDrv' = vdsDrv
  BY DeviceIs DEF Vds!SetDevice
<1>2. Vds!AppliedIsHeld'
  BY <1>1 DEF VdsInv, Vds!AppliedIsHeld, Vds!Holds
<1> QED BY <1>1, <1>2 DEF VdsInv

\* The instrument finishes a record.
LEMMA SampleKeeps ==
    ASSUME VdsInv, Vds!Sample
    PROVE  VdsInv'
<1>1. PICK d, e : d = Vds!Device /\ e = Vds!Sampled(d)
  OBVIOUS
<1>2. d \in Devices /\ Follows(d) /\ d.reg = vdsReg /\ d.drv = vdsDrv
  BY <1>1 DEF VdsInv, Vds!Device
<1>3. e \in Devices /\ Follows(e) /\ e.reg = vdsReg /\ e.drv = vdsDrv
  BY <1>1, <1>2, SampledFollows
<1> QED BY <1>1, <1>3, OnlyTheRecord DEF Vds!Sample

\* A record is fetched.
LEMMA PollKeeps ==
    ASSUME VdsInv, Vds!Poll
    PROVE  VdsInv'
<1>1. PICK e : e = [reg |-> vdsReg, drv |-> vdsDrv, buf |-> None]
  OBVIOUS
<1>2. e \in Devices
  BY <1>1 DEF VdsInv, Vds!Device, Devices
<1>3. Follows(e)
  <2>1. Fits(e.buf, e.drv)
    BY <1>1 DEF Fits
  <2> QED BY <1>1, <2>1 DEF VdsInv, Vds!Device, Follows
<1>4. Vds!SetDevice(e)
  BY <1>1 DEF Vds!Poll, Vds!SetDevice
<1> QED BY <1>1, <1>2, <1>3, <1>4, OnlyTheRecord DEF Vds!Poll

\* init(): the registers and the driver's fields meet again, whatever the
\* instrument had kept.
LEMMA InitialisedFollows ==
    ASSUME NEW r \in Registers, NEW e,
           e = [reg |-> Vds!Initialised(r), drv |-> Vds!FreshDriver, buf |-> None]
    PROVE  e \in Devices /\ Follows(e)
<1>1. PICK chs : chs = [c \in Vds!Channels |-> [r.channels[c] EXCEPT !.on = FALSE]]
  OBVIOUS
<1>2. chs \in [Vds!Channels -> Vds!Setup] /\ \A c \in Vds!Channels : chs[c].on = FALSE
  BY <1>1 DEF Registers, Vds!Setup
<1>3. PICK word : word = [src |-> 0, sweep |-> "auto", counts |-> None]
  OBVIOUS
<1>4. word \in [src : Vds!Channels, sweep : Sweeps, counts : (Levels \X Ranges) \cup {None}]
      /\ 0 \in Vds!Channels
  BY <1>3, RangesAre DEF Vds!Channels
<1>5. Vds!Initialised(r) = [r EXCEPT !.channels = chs, !.peak = FALSE, !.roll = FALSE,
                                     !.position = VdsCentre, !.rate = BaseRate, !.trigger = word]
  BY <1>1, <1>3 DEF Vds!Initialised
<1>6. Vds!Initialised(r) \in Registers
  BY <1>2, <1>4, <1>5, RangesAre DEF Registers
<1>7. Vds!FreshDriver \in Driver
  BY <1>4, RangesAre DEF Vds!FreshDriver, Driver
<1>8. Follows(e)
  <2>1. Fits(e.buf, e.drv)
    BY DEF Fits
  <2> QED BY <1>2, <1>5, <1>6, <2>1, RangesAre DEF Follows, Registers, Vds!FreshDriver
<1> QED BY <1>6, <1>7, <1>8 DEF Devices

\* The first connection.
LEMMA VdsStarts == Vds!Init => VdsInv
<1> SUFFICES ASSUME Vds!Init PROVE VdsInv
  OBVIOUS
<1>1. PICK r : r = [channels |-> [c \in Vds!Channels |-> Vds!Off], rate |-> BaseRate, roll |-> FALSE,
                    position |-> VdsCentre, trigger |-> None, peak |-> FALSE, running |-> FALSE]
  OBVIOUS
<1>2. PICK word : word = [src |-> 0, sweep |-> "auto", counts |-> None]
  OBVIOUS
<1>3. PICK q : q = [r EXCEPT !.trigger = word]
  OBVIOUS
<1>4. word \in [src : Vds!Channels, sweep : Sweeps, counts : (Levels \X Ranges) \cup {None}]
  BY <1>2, RangesAre DEF Vds!Channels
<1>5. q \in Registers
  BY <1>1, <1>3, <1>4, RangesAre DEF Registers
<1>6. Vds!Initialised(r) = Vds!Initialised(q)
  BY <1>1, <1>2, <1>3 DEF Vds!Initialised
<1>7. Vds!Device = [reg |-> Vds!Initialised(q), drv |-> Vds!FreshDriver, buf |-> None]
      /\ vdsApplied = None
  BY <1>1, <1>6 DEF Vds!Init, Vds!Device
<1> QED BY <1>5, <1>7, InitialisedFollows DEF VdsInv, Vds!AppliedIsHeld

\* Every step of the backend keeps its invariant.
LEMMA VdsGoesOn == VdsInv /\ [Vds!Next]_(Vds!vars) => VdsInv'
<1> SUFFICES ASSUME VdsInv, [Vds!Next]_(Vds!vars) PROVE VdsInv'
  OBVIOUS
<1>1. CASE Vds!Open
  <2>1. vdsReg \in Registers
    BY DEF VdsInv, Vds!Device, Devices
  <2>2. (Vds!Device)' = [reg |-> Vds!Initialised(vdsReg), drv |-> Vds!FreshDriver, buf |-> None]
        /\ vdsApplied' = None
    BY <1>1 DEF Vds!Open, Vds!Device
  <2> QED BY <2>1, <2>2, InitialisedFollows DEF VdsInv, Vds!AppliedIsHeld
<1>2. CASE Vds!Lose
  BY <1>2 DEF Vds!Lose, VdsInv, Vds!Device, Vds!AppliedIsHeld
<1>3. CASE Vds!KeepAlive
  BY <1>3, KeepAliveKeeps
<1>4. ASSUME NEW c \in Vds!Choices, Vds!Apply(c) \/ \E n \in 0..5 : Vds!ApplyFails(c, n) PROVE VdsInv'
  <2>1. c \in Vds!Config
    BY DEF Vds!Choices
  <2> QED BY <1>4, <2>1, ApplyKeeps, ApplyFailsKeeps
<1>5. ASSUME NEW v \in Ranges, Vds!AutosetFlat(v) PROVE VdsInv'
  BY <1>5, FlatKeeps
<1>6. ASSUME NEW v \in Ranges, NEW level \in Levels, NEW rate \in VdsRates \ SlowRates,
             Vds!AutosetFound(v, level, rate)
      PROVE  VdsInv'
  BY <1>6, FoundKeeps
<1>7. CASE Vds!Sample
  BY <1>7, SampleKeeps
<1>8. CASE Vds!Poll
  BY <1>8, PollKeeps
<1>9. CASE UNCHANGED Vds!vars
  BY <1>9 DEF Vds!vars, VdsInv, Vds!Device, Vds!AppliedIsHeld, Vds!Holds
<1> QED BY <1>1, <1>2, <1>3, <1>4, <1>5, <1>6, <1>7, <1>8, <1>9 DEF Vds!Next

\* The driver's fields follow the registers, and a record that outlasts a write
\* is one that the write left true: a record is told with the channels, the
\* ranges and the rate it was taken with (poll_frame, assemble_capture).
THEOREM RecordsToldRightHolds == Vds!Spec => []RecordsToldRight
<1>1. VdsInv => RecordsToldRight
  <2> SUFFICES ASSUME VdsInv, vdsBuffer # None
               PROVE  /\ Vds!Label.channels = vdsBuffer.channels /\ Vds!Label.rate = vdsBuffer.rate
                      /\ vdsBuffer.before \/ Vds!Label.peak = vdsBuffer.peak
    BY DEF RecordsToldRight, Vds!RecordsToldRight
  <2>1. Fits(vdsBuffer, vdsDrv)
    BY DEF VdsInv, Vds!Device, Follows
  <2> QED BY <2>1 DEF Fits, Vds!Label, Vds!RecordOf
<1> QED BY <1>1, VdsStarts, VdsGoesOn, PTL DEF Vds!Spec

-----------------------------------------------------------------------------
(* The dongle's backend: the chunks of its stream.                         *)

Accounts == [pairs : Nat, seen : Nat, straddling : BOOLEAN, pending : Nat]

\* Nothing follows the word that the dongle is lost, which the reader says
\* when it ends.
LostIsLast(s) ==
    \A k \in 1..Len(s.queue) :
        s.queue[k] = Rtl!Lost => s.reader = "ended" /\ k = Len(s.queue)

\* The chunks of a queue.
ChunksIn(q) == Cardinality({k \in 1..Len(q) : q[k] # Rtl!Lost})

\* What is queued and what overflowed unseen make up what the clock has still
\* to pass.
Accounted(s, a, m) ==
    /\ s \in Rtl!Streams /\ LostIsLast(s) /\ a.seen <= s.lost
    /\ a.pairs + ChunksIn(s.queue) + (s.lost - a.seen) = s.since + m - s.from

RtlStreamInv ==
    /\ rtlAcct \in Accounts /\ rtlMade \in Nat /\ rtlTold \in Nat
    /\ rtlStream \in Rtl!Streams \cup {None}
    /\ rtlTold + rtlAcct.pending = rtlAcct.pairs
    /\ rtlStream # None => Accounted(rtlStream, rtlAcct, rtlMade)

\* What the assumption gives of the constants.
LEMMA RtlConstants == None \notin Rtl!Config /\ None \notin Rtl!Streams /\ RtlQueue \in Nat \ {0}
  BY PartsAssumption DEF Rtl!RtlAssumption

\* A queue holds chunks, and perhaps the last word.
LEMMA ChunksCount ==
    ASSUME NEW q \in Seq(Rtl!Messages), \A k \in 1..Len(q) : q[k] = Rtl!Lost => k = Len(q)
    PROVE  ChunksIn(q) = IF q # <<>> /\ q[Len(q)] = Rtl!Lost THEN Len(q) - 1 ELSE Len(q)
<1>1. Len(q) \in Nat /\ (q = <<>> <=> Len(q) = 0)
  OBVIOUS
<1>2. CASE q # <<>> /\ q[Len(q)] = Rtl!Lost
  <2>1. {k \in 1..Len(q) : q[k] # Rtl!Lost} = 1..(Len(q) - 1)
    BY <1>1, <1>2
  <2>2. Cardinality(1..(Len(q) - 1)) = Len(q) - 1
    BY <1>1, <1>2, FS_Interval, SMT
  <2> QED BY <1>2, <2>1, <2>2 DEF ChunksIn
<1>3. CASE ~(q # <<>> /\ q[Len(q)] = Rtl!Lost)
  <2>1. {k \in 1..Len(q) : q[k] # Rtl!Lost} = 1..Len(q)
    BY <1>1, <1>3
  <2>2. PICK n \in Nat : n = Len(q)
    BY <1>1
  <2>3. 1 \in Int /\ n \in Int
    OBVIOUS
  <2>4. Cardinality(1..n) = IF 1 > n THEN 0 ELSE n-1+1
    BY <2>3, FS_Interval, Zenon
  <2>5. Cardinality(1..n) = n
    BY <2>4
  <2>6. ChunksIn(q) = Len(q)
    BY <2>1, <2>2, <2>5, Zenon DEF ChunksIn
  <2> QED BY <1>3, <2>6
<1> QED BY <1>2, <1>3

\* One chunk more, queued, lost or passed by the clock.
LEMMA AccountsAdd ==
    ASSUME NEW pairs \in Nat, NEW queued \in Nat, NEW lost \in Nat, NEW seen \in Nat, NEW since \in Nat,
           NEW m \in Nat, NEW from \in Nat, seen <= lost,
           pairs + queued + (lost - seen) = since + m - from
    PROVE  /\ pairs + (queued + 1) + (lost - seen) = since + (m + 1) - from
           /\ pairs + queued + ((lost + 1) - seen) = since + (m + 1) - from /\ seen <= lost + 1
  OBVIOUS

\* The clock passes a chunk, and what overflowed before it.
LEMMA AccountsPass ==
    ASSUME NEW pairs \in Nat, NEW queued \in Nat, NEW lost \in Nat, NEW seen \in Nat, NEW since \in Nat,
           NEW m \in Nat, NEW from \in Nat, pairs + (queued + 1) + (lost - seen) = since + m - from
    PROVE  (pairs + (lost - seen) + 1) + queued + (lost - lost) = since + m - from
  OBVIOUS

\* What the frames declare keeps pace with the clock.
LEMMA ToldAdds ==
    ASSUME NEW told \in Nat, NEW pending \in Nat, NEW pairs \in Nat, NEW more \in Nat,
           NEW new \in Nat, NEW left \in Nat,
           told + pending = pairs, new + left = pending + more + 1
    PROVE  told + new + left = pairs + more + 1
  OBVIOUS

\* A message more.
LEMMA QueueGrows ==
    ASSUME NEW s \in Rtl!Streams, LostIsLast(s), s.reader # "ended", NEW x \in Rtl!Messages
    PROVE  /\ ChunksIn(s.queue) = Len(s.queue)
           /\ ChunksIn(Append(s.queue, x)) = IF x = Rtl!Lost THEN Len(s.queue) ELSE Len(s.queue) + 1
           /\ \A k \in 1..Len(Append(s.queue, x)) :
                 Append(s.queue, x)[k] = Rtl!Lost => x = Rtl!Lost /\ k = Len(Append(s.queue, x))
<1> DEFINE q == s.queue
           r == Append(q, x)
<1>1. q \in Seq(Rtl!Messages) /\ Len(q) \in Nat
  BY DEF Rtl!Streams
<1>2. \A k \in 1..Len(q) : q[k] # Rtl!Lost
  BY DEF LostIsLast
<1>3. r \in Seq(Rtl!Messages) /\ Len(r) = Len(q) + 1 /\ r[Len(r)] = x /\ r # <<>>
      /\ \A k \in 1..Len(q) : r[k] = q[k]
  BY <1>1
<1>4. \A k \in 1..Len(r) : r[k] = Rtl!Lost => x = Rtl!Lost /\ k = Len(r)
  BY <1>1, <1>2, <1>3
<1>5. ChunksIn(q) = Len(q)
  BY <1>1, <1>2, ChunksCount
<1>6. ChunksIn(r) = IF r # <<>> /\ r[Len(r)] = Rtl!Lost THEN Len(r) - 1 ELSE Len(r)
  <2> HIDE DEF r
  <2> QED BY <1>3, <1>4, ChunksCount
<1> QED BY <1>1, <1>3, <1>4, <1>5, <1>6

\* A message less.
LEMMA QueueShrinks ==
    ASSUME NEW s \in Rtl!Streams, LostIsLast(s), s.queue # <<>>, Head(s.queue) # Rtl!Lost
    PROVE  /\ Tail(s.queue) \in Seq(Rtl!Messages)
           /\ ChunksIn(s.queue) = ChunksIn(Tail(s.queue)) + 1
           /\ \A k \in 1..Len(Tail(s.queue)) :
                 Tail(s.queue)[k] = Rtl!Lost => s.reader = "ended" /\ k = Len(Tail(s.queue))
<1> DEFINE q == s.queue
           r == Tail(q)
<1>1. q \in Seq(Rtl!Messages) /\ Len(q) \in Nat \ {0}
  BY DEF Rtl!Streams
<1>2. r \in Seq(Rtl!Messages) /\ Len(r) = Len(q) - 1 /\ \A k \in 1..Len(r) : r[k] = q[k + 1]
  BY <1>1
<1>3. \A k \in 1..Len(q) : q[k] = Rtl!Lost => s.reader = "ended" /\ k = Len(q)
  BY DEF LostIsLast
<1>4. \A k \in 1..Len(r) : r[k] = Rtl!Lost => s.reader = "ended" /\ k = Len(r)
  BY <1>1, <1>2, <1>3
<1>5. ChunksIn(q) = IF q # <<>> /\ q[Len(q)] = Rtl!Lost THEN Len(q) - 1 ELSE Len(q)
  BY <1>1, <1>3, ChunksCount
<1>6. ChunksIn(r) = IF r # <<>> /\ r[Len(r)] = Rtl!Lost THEN Len(r) - 1 ELSE Len(r)
  <2> HIDE DEF r
  <2> QED BY <1>2, <1>4, ChunksCount
<1>7. CASE r = <<>>
  <2>1. Len(r) = 0
    BY <1>7, EmptySeq, Zenon
  <2>2. Head(q) = q[1]
    BY <1>1
  <2>3. Len(q) = 1 /\ q[1] # Rtl!Lost
    BY <1>1, <1>2, <2>1, <2>2
  <2> QED BY <1>1, <1>2, <1>4, <1>5, <1>6, <1>7, <2>3
<1>8. CASE r # <<>>
  <2>1. Len(r) >= 1 /\ r[Len(r)] = q[Len(q)]
    BY <1>1, <1>2, <1>8
  <2> QED BY <1>1, <1>2, <1>4, <1>5, <1>6, <1>8, <2>1
<1> QED BY <1>7, <1>8

\* The first connection, and every one after it.
LEMMA NoStreamIsAccounted ==
    ASSUME rtlStream = None, rtlAcct = Rtl!FreshAcct, rtlMade = 0, rtlTold = 0
    PROVE  RtlStreamInv
  BY DEF RtlStreamInv, Rtl!FreshAcct, Accounts

\* A stream just begun owes what the clock has not passed.
LEMMA NewStreamIsAccounted ==
    ASSUME RtlStreamInv, NEW a, a = [rtlAcct EXCEPT !.seen = 0, !.straddling = FALSE]
    PROVE  a \in Accounts /\ a.pairs = rtlAcct.pairs /\ a.pending = rtlAcct.pending
           /\ Accounted(Rtl!NewStream, a, rtlMade)
<1>1. rtlAcct \in Accounts /\ rtlMade \in Nat
  BY DEF RtlStreamInv
<1>2. a \in Accounts /\ a.pairs = rtlAcct.pairs /\ a.pending = rtlAcct.pending /\ a.seen = 0
  BY <1>1 DEF Accounts
<1>3. Rtl!NewStream \in Rtl!Streams
  BY <1>1 DEF Rtl!NewStream, Rtl!Streams, Accounts
<1>4. ChunksIn(<<>>) = 0
  <2>1. PICK q \in Seq(Rtl!Messages) : q = <<>> /\ Len(q) = 0
    BY EmptySeq, Zenon
  <2>2. \A k \in 1..Len(q) : q[k] = Rtl!Lost => k = Len(q)
    BY <2>1
  <2> QED BY <2>1, <2>2, ChunksCount
<1> QED BY <1>1, <1>2, <1>3, <1>4 DEF Accounted, LostIsLast, Rtl!NewStream, Accounts

\* Settings change what a filling chunk is worth, and not how many there are.
LEMMA MixingIsAccounted ==
    ASSUME NEW s \in Rtl!Streams, NEW a \in Accounts, NEW m \in Nat, Accounted(s, a, m),
           NEW b \in Accounts, b.seen = a.seen, b.pairs = a.pairs
    PROVE  /\ Accounted(s, b, m)
           /\ [s EXCEPT !.mixed = TRUE] \in Rtl!Streams
           /\ Accounted([s EXCEPT !.mixed = TRUE], b, m)
<1>1. PICK t : t = [s EXCEPT !.mixed = TRUE]
  OBVIOUS
<1>2. t \in Rtl!Streams /\ t.queue = s.queue /\ t.lost = s.lost /\ t.since = s.since
      /\ t.from = s.from /\ t.reader = s.reader
  BY <1>1 DEF Rtl!Streams
<1> QED BY <1>1, <1>2 DEF Accounted, LostIsLast

\* What is kept of a stream under new settings.
LEMMA RefilledIs ==
    ASSUME NEW s, NEW d
    PROVE  Rtl!Refilled(s, d) = s \/ (s # None /\ Rtl!Refilled(s, d) = [s EXCEPT !.mixed = TRUE])
  BY DEF Rtl!Refilled

\* The account after a change of settings that keeps the clock.
LEMMA Remarked ==
    ASSUME RtlStreamInv, NEW t \in BOOLEAN, NEW a, a = [rtlAcct EXCEPT !.straddling = t]
    PROVE  a \in Accounts /\ a.pairs = rtlAcct.pairs /\ a.pending = rtlAcct.pending
           /\ a.seen = rtlAcct.seen
  BY DEF RtlStreamInv, Accounts

\* The stream and its account after settings that were all written.
LEMMA ResumedIsAccounted ==
    ASSUME RtlStreamInv, NEW c, NEW changed, NEW d, Rtl!Resumed(c, changed, d), c.running \in BOOLEAN,
           rtlMade' = rtlMade, rtlTold' = rtlTold
    PROVE  RtlStreamInv'
<1> DEFINE kept == Rtl!Refilled(Rtl!Kept("rate" \in changed), d)
<1>0. rtlAcct \in Accounts /\ rtlMade \in Nat /\ rtlTold \in Nat /\ rtlStream \in Rtl!Streams \cup {None}
      /\ rtlTold + rtlAcct.pending = rtlAcct.pairs
  BY DEF RtlStreamInv
<1>1. CASE c.running /\ kept = None
  <2>1. rtlStream' = Rtl!NewStream /\ rtlAcct' = [rtlAcct EXCEPT !.seen = 0, !.straddling = FALSE]
    BY <1>1 DEF Rtl!Resumed
  <2>2. rtlAcct' \in Accounts /\ rtlAcct'.pairs = rtlAcct.pairs /\ rtlAcct'.pending = rtlAcct.pending
        /\ Accounted(Rtl!NewStream, rtlAcct', rtlMade)
    BY <2>1, NewStreamIsAccounted
  <2>3. Rtl!NewStream \in Rtl!Streams
    BY <2>2 DEF Accounted
  <2> QED BY <1>0, <2>1, <2>2, <2>3 DEF RtlStreamInv, Accounted, LostIsLast
<1>2. CASE c.running /\ kept # None
  <2>1. rtlStream' = kept
        /\ rtlAcct' = [rtlAcct EXCEPT !.straddling = rtlAcct.straddling \/ Rtl!Straddles(changed)]
    BY <1>2 DEF Rtl!Resumed
  <2>2. (rtlAcct.straddling \/ Rtl!Straddles(changed)) \in BOOLEAN
    OBVIOUS
  <2>3. rtlAcct' \in Accounts /\ rtlAcct'.pairs = rtlAcct.pairs /\ rtlAcct'.pending = rtlAcct.pending
        /\ rtlAcct'.seen = rtlAcct.seen
    BY <2>1, <2>2, Remarked
  <2>4. rtlStream # None /\ Rtl!Kept("rate" \in changed) = rtlStream
    BY <1>2 DEF Rtl!Kept, Rtl!Refilled
  <2>5. rtlStream \in Rtl!Streams /\ Accounted(rtlStream, rtlAcct, rtlMade)
    BY <1>0, <2>4 DEF RtlStreamInv
  <2>6. kept \in Rtl!Streams /\ Accounted(kept, rtlAcct', rtlMade)
    <3> HIDE DEF kept
    <3>1. kept = rtlStream \/ kept = [rtlStream EXCEPT !.mixed = TRUE]
      BY <2>4, RefilledIs DEF kept
    <3> QED BY <1>0, <2>3, <2>5, <3>1, MixingIsAccounted
  <2> HIDE DEF kept
  <2> QED BY <1>0, <2>1, <2>3, <2>6 DEF RtlStreamInv, Accounted, LostIsLast
<1>3. CASE ~c.running
  <2>1. PICK t \in BOOLEAN : rtlAcct' = [rtlAcct EXCEPT !.straddling = t]
    <3>1. rtlAcct.straddling \in BOOLEAN
      BY <1>0 DEF Accounts
    <3> QED BY <1>3, <3>1 DEF Rtl!Resumed
  <2>2. rtlStream' = None
    BY <1>3 DEF Rtl!Resumed
  <2>3. rtlAcct' \in Accounts /\ rtlAcct'.pairs = rtlAcct.pairs /\ rtlAcct'.pending = rtlAcct.pending
    BY <2>1, Remarked
  <2> QED BY <1>0, <2>2, <2>3 DEF RtlStreamInv
<1> QED BY <1>1, <1>2, <1>3

\* The reader: a chunk more, or the last word.
LEMMA ReaderIsAccounted ==
    ASSUME RtlStreamInv, Rtl!Fill \/ Rtl!Fails \/ Rtl!Tells
    PROVE  RtlStreamInv' /\ rtlStream' \in Rtl!Streams
<1>0. rtlAcct \in Accounts /\ rtlMade \in Nat /\ rtlTold \in Nat /\ rtlStream \in Rtl!Streams
      /\ rtlStream # None /\ Accounted(rtlStream, rtlAcct, rtlMade)
  BY DEF RtlStreamInv, Rtl!Fill, Rtl!Fails, Rtl!Tells, Rtl!Reading
<1>1. PICK s \in Rtl!Streams : s = rtlStream
  BY <1>0
<1>2. LostIsLast(s) /\ rtlAcct.seen <= s.lost /\ s.lost \in Nat
      /\ rtlAcct.pairs + ChunksIn(s.queue) + (s.lost - rtlAcct.seen) = s.since + rtlMade - s.from
      /\ s.since \in Nat /\ s.from \in Nat /\ rtlAcct.pairs \in Nat /\ rtlAcct.seen \in Nat
      /\ s.queue \in Seq(Rtl!Messages) /\ s.mixed \in BOOLEAN
  BY <1>0, <1>1 DEF Accounted, Rtl!Streams, Accounts
<1>3. CASE Rtl!Fill
  <2>1. s.reader = "live" /\ rtlMade' = rtlMade + 1 /\ rtlAcct' = rtlAcct /\ rtlTold' = rtlTold
    BY <1>1, <1>3 DEF Rtl!Fill, Rtl!Reading
  <2>2. CASE Len(s.queue) < RtlQueue
    <3>1. PICK q : q = Append(s.queue, Rtl!Chunk)
      OBVIOUS
    <3>2. Rtl!Chunk \in Rtl!Messages /\ Rtl!Chunk # Rtl!Lost
      BY <1>1, <1>2 DEF Rtl!Chunk, Rtl!Lost, Rtl!Messages
    <3>3. q \in Seq(Rtl!Messages) /\ ChunksIn(q) = ChunksIn(s.queue) + 1
          /\ \A k \in 1..Len(q) : q[k] # Rtl!Lost
      <4>1. s.reader # "ended"
        BY <2>1
      <4>2. q \in Seq(Rtl!Messages)
        BY <1>2, <3>1, <3>2
      <4> HIDE DEF Rtl!Chunk
      <4> QED BY <1>2, <3>1, <3>2, <4>1, <4>2, QueueGrows
    <3>4. PICK t : t = [s EXCEPT !.queue = q, !.mixed = FALSE]
      OBVIOUS
    <3>5. t \in Rtl!Streams /\ t.queue = q /\ t.lost = s.lost /\ t.since = s.since /\ t.from = s.from
      BY <3>3, <3>4 DEF Rtl!Streams
    <3>6. rtlStream' = t
      BY <1>1, <1>3, <2>2, <3>1, <3>4 DEF Rtl!Fill
    <3>7. Accounted(t, rtlAcct, rtlMade + 1)
      <4>1. ChunksIn(s.queue) \in Nat
        BY <1>2, <2>1, QueueGrows, <3>2
      <4>2. LostIsLast(t)
        BY <3>3, <3>5 DEF LostIsLast
      <4>a. /\ rtlMade \in Nat /\ rtlAcct.pairs \in Nat /\ ChunksIn(s.queue) \in Nat /\ s.lost \in Nat
            /\ rtlAcct.seen \in Nat /\ s.since \in Nat /\ s.from \in Nat
        BY <1>0, <1>2, <4>1
      <4>b. rtlAcct.pairs + ChunksIn(s.queue) + (s.lost - rtlAcct.seen) = s.since + rtlMade - s.from
            /\ rtlAcct.seen <= s.lost
        BY <1>2
      <4>3. rtlAcct.pairs + (ChunksIn(s.queue) + 1) + (s.lost - rtlAcct.seen)
              = s.since + (rtlMade + 1) - s.from
        BY <4>a, <4>b, AccountsAdd
      <4>4. rtlAcct.pairs + ChunksIn(t.queue) + (t.lost - rtlAcct.seen)
              = t.since + (rtlMade + 1) - t.from
        BY <3>3, <3>5, <4>3
      <4> QED BY <1>2, <3>5, <4>2, <4>4 DEF Accounted
    <3> QED BY <1>0, <2>1, <3>5, <3>6, <3>7 DEF RtlStreamInv, Accounted, LostIsLast
  <2>3. CASE ~(Len(s.queue) < RtlQueue)
    <3>3. PICK l \in Nat : l = s.lost + 1
      BY <1>2
    <3>4. PICK t : t = [s EXCEPT !.lost = l, !.mixed = FALSE]
      OBVIOUS
    <3>5. t \in Rtl!Streams /\ t.queue = s.queue /\ t.lost = s.lost + 1 /\ t.since = s.since
          /\ t.from = s.from /\ t.reader = s.reader
      BY <1>2, <3>3, <3>4 DEF Rtl!Streams
    <3>6. rtlStream' = t
      BY <1>1, <1>3, <2>3, <3>3, <3>4 DEF Rtl!Fill
    <3>7. Accounted(t, rtlAcct, rtlMade + 1)
      <4>1. ChunksIn(s.queue) \in Nat
        <5>1. Rtl!Lost \in Rtl!Messages /\ s.reader # "ended"
          BY <2>1 DEF Rtl!Lost, Rtl!Messages
        <5> QED BY <1>2, <5>1, QueueGrows
      <4>2. LostIsLast(t)
        BY <1>2, <3>5 DEF LostIsLast
      <4>a. /\ rtlMade \in Nat /\ rtlAcct.pairs \in Nat /\ ChunksIn(s.queue) \in Nat /\ s.lost \in Nat
            /\ rtlAcct.seen \in Nat /\ s.since \in Nat /\ s.from \in Nat
        BY <1>0, <1>2, <4>1
      <4>b. rtlAcct.pairs + ChunksIn(s.queue) + (s.lost - rtlAcct.seen) = s.since + rtlMade - s.from
            /\ rtlAcct.seen <= s.lost
        BY <1>2
      <4>3. /\ rtlAcct.pairs + ChunksIn(s.queue) + ((s.lost + 1) - rtlAcct.seen)
                 = s.since + (rtlMade + 1) - s.from
            /\ rtlAcct.seen <= s.lost + 1
        BY <4>a, <4>b, AccountsAdd
      <4>4. /\ rtlAcct.pairs + ChunksIn(t.queue) + (t.lost - rtlAcct.seen)
                 = t.since + (rtlMade + 1) - t.from
            /\ rtlAcct.seen <= t.lost
        BY <3>5, <4>3
      <4> QED BY <3>5, <4>2, <4>4 DEF Accounted
    <3> QED BY <1>0, <2>1, <3>5, <3>6, <3>7 DEF RtlStreamInv, Accounted, LostIsLast
  <2> QED BY <2>2, <2>3
<1>4. CASE Rtl!Fails
  <2>1. s.reader = "live" /\ rtlMade' = rtlMade /\ rtlAcct' = rtlAcct /\ rtlTold' = rtlTold
    BY <1>1, <1>4 DEF Rtl!Fails, Rtl!Reading
  <2>2. PICK t : t = [s EXCEPT !.reader = "failed"]
    OBVIOUS
  <2>3. t \in Rtl!Streams /\ t.queue = s.queue /\ t.lost = s.lost /\ t.since = s.since
        /\ t.from = s.from
    BY <1>2, <2>2 DEF Rtl!Streams
  <2>4. rtlStream' = t
    BY <1>1, <1>4, <2>2 DEF Rtl!Fails
  <2>5. Accounted(t, rtlAcct, rtlMade)
    BY <1>2, <2>1, <2>3 DEF Accounted, LostIsLast
  <2> QED BY <1>0, <2>1, <2>3, <2>4, <2>5 DEF RtlStreamInv, Accounted, LostIsLast
<1>5. CASE Rtl!Tells
  <2>1. s.reader = "failed" /\ rtlMade' = rtlMade /\ rtlAcct' = rtlAcct /\ rtlTold' = rtlTold
    BY <1>1, <1>5 DEF Rtl!Tells, Rtl!Reading
  <2>2. PICK q : q = Append(s.queue, Rtl!Lost)
    OBVIOUS
  <2>3. Rtl!Lost \in Rtl!Messages
    BY DEF Rtl!Lost, Rtl!Messages
  <2>4. q \in Seq(Rtl!Messages) /\ ChunksIn(q) = ChunksIn(s.queue)
        /\ \A k \in 1..Len(q) : q[k] = Rtl!Lost => k = Len(q)
    <3>1. s.reader # "ended"
      BY <2>1
    <3>2. q \in Seq(Rtl!Messages)
      BY <1>2, <2>2, <2>3
    <3> HIDE DEF Rtl!Lost
    <3> QED BY <1>2, <2>2, <2>3, <3>1, <3>2, QueueGrows
  <2>5. PICK t : t = [s EXCEPT !.reader = "ended", !.queue = q]
    OBVIOUS
  <2>6. t \in Rtl!Streams /\ t.queue = q /\ t.lost = s.lost /\ t.since = s.since
        /\ t.from = s.from /\ t.reader = "ended"
    BY <2>4, <2>5 DEF Rtl!Streams
  <2>7. rtlStream' = t
    BY <1>1, <1>5, <2>2, <2>5 DEF Rtl!Tells
  <2>8. Accounted(t, rtlAcct, rtlMade)
    BY <1>2, <2>4, <2>6 DEF Accounted, LostIsLast
  <2> QED BY <1>0, <2>1, <2>6, <2>7, <2>8 DEF RtlStreamInv, Accounted, LostIsLast
<1> QED BY <1>3, <1>4, <1>5

\* A poll: the clock passes the chunk and those that overflowed before it.
LEMMA PollIsAccounted ==
    ASSUME RtlStreamInv, Rtl!Poll
    PROVE  RtlStreamInv' /\ rtlStream' \in Rtl!Streams
<1>0. rtlAcct \in Accounts /\ rtlMade \in Nat /\ rtlTold \in Nat /\ rtlStream \in Rtl!Streams
      /\ Accounted(rtlStream, rtlAcct, rtlMade) /\ rtlTold + rtlAcct.pending = rtlAcct.pairs
  BY DEF RtlStreamInv, Rtl!Poll
<1>1. PICK s \in Rtl!Streams : s = rtlStream
  BY <1>0
<1>2. PICK a \in Accounts : a = rtlAcct
  BY <1>0
<1>3. LostIsLast(s) /\ a.seen <= s.lost /\ s.lost \in Nat
      /\ a.pairs + ChunksIn(s.queue) + (s.lost - a.seen) = s.since + rtlMade - s.from
      /\ s.since \in Nat /\ s.from \in Nat /\ a.pairs \in Nat /\ a.seen \in Nat /\ a.pending \in Nat
      /\ a.straddling \in BOOLEAN /\ s.queue \in Seq(Rtl!Messages)
  BY <1>0, <1>1, <1>2 DEF Accounted, Rtl!Streams, Accounts
<1>4. PICK n \in Nat : n = s.lost - a.seen
  BY <1>3
<1>5. PICK plan : plan = Rtl!Plan(a, n)
  OBVIOUS
<1>6. /\ rtlAcct' = [plan.acct EXCEPT !.seen = s.lost] /\ rtlTold' = rtlTold + plan.told
      /\ rtlMade' = rtlMade /\ s.queue # <<>> /\ Head(s.queue) # Rtl!Lost
      /\ rtlStream' = [s EXCEPT !.queue = Tail(s.queue)]
  BY <1>1, <1>2, <1>4, <1>5 DEF Rtl!Poll
<1>7. /\ plan.acct \in Accounts /\ plan.acct.pairs = a.pairs + n + 1 /\ plan.told \in Nat
      /\ plan.told + plan.acct.pending = a.pending + n + 1
  <2>1. CASE a.straddling
    <3>0. PICK p \in Nat, w \in Nat : p = a.pairs + n + 1 /\ w = a.pending + n + 1
      <4>1. (a.pairs + n + 1) \in Nat /\ (a.pending + n + 1) \in Nat
        BY <1>3, <1>4
      <4> QED BY <4>1
    <3>1. PICK b : b = [a EXCEPT !.pairs = p, !.straddling = FALSE, !.pending = w]
      OBVIOUS
    <3>2. b \in Accounts /\ b.pairs = a.pairs + n + 1 /\ b.pending = a.pending + n + 1
      BY <3>0, <3>1 DEF Accounts
    <3>3. plan.acct = b /\ plan.told = 0
      BY <1>5, <2>1, <3>0, <3>1 DEF Rtl!Plan
    <3> QED BY <1>3, <3>2, <3>3
  <2>2. CASE ~a.straddling
    <3>0. PICK p \in Nat : p = a.pairs + n + 1
      BY <1>3
    <3>1. PICK b : b = [a EXCEPT !.pairs = p, !.pending = 0]
      OBVIOUS
    <3>2. b \in Accounts /\ b.pairs = a.pairs + n + 1 /\ b.pending = 0
      BY <3>0, <3>1 DEF Accounts
    <3>3. plan.acct = b /\ plan.told = a.pending + n + 1
      BY <1>5, <2>2, <3>0, <3>1 DEF Rtl!Plan
    <3> QED BY <1>3, <3>2, <3>3
  <2> QED BY <2>1, <2>2
<1>8. PICK b \in Accounts : b = plan.acct
  BY <1>7
<1>9. PICK e : e = [b EXCEPT !.seen = s.lost]
  OBVIOUS
<1>10. e \in Accounts /\ e.pairs = b.pairs /\ e.pending = b.pending /\ e.seen = s.lost /\ rtlAcct' = e
  BY <1>3, <1>6, <1>8, <1>9 DEF Accounts
<1>11. PICK q : q = Tail(s.queue)
  OBVIOUS
<1>12. /\ q \in Seq(Rtl!Messages) /\ ChunksIn(s.queue) = ChunksIn(q) + 1 /\ ChunksIn(q) \in Nat
       /\ \A k \in 1..Len(q) : q[k] = Rtl!Lost => s.reader = "ended" /\ k = Len(q)
  <2>1. /\ q \in Seq(Rtl!Messages) /\ ChunksIn(s.queue) = ChunksIn(q) + 1
        /\ \A k \in 1..Len(q) : q[k] = Rtl!Lost => s.reader = "ended" /\ k = Len(q)
    BY <1>3, <1>6, <1>11, QueueShrinks
  <2>2. ChunksIn(q) = IF q # <<>> /\ q[Len(q)] = Rtl!Lost THEN Len(q) - 1 ELSE Len(q)
    BY <2>1, ChunksCount
  <2>3. Len(q) \in Nat /\ (q # <<>> => Len(q) > 0)
    BY <2>1
  <2> QED BY <2>1, <2>2, <2>3
<1>13. PICK t : t = [s EXCEPT !.queue = q]
  OBVIOUS
<1>14. t \in Rtl!Streams /\ t.queue = q /\ t.lost = s.lost /\ t.since = s.since
       /\ t.from = s.from /\ t.reader = s.reader /\ rtlStream' = t
  BY <1>6, <1>11, <1>12, <1>13 DEF Rtl!Streams
<1>15. LostIsLast(t)
  BY <1>12, <1>14 DEF LostIsLast
<1>16. e.pairs + ChunksIn(t.queue) + (t.lost - e.seen) = t.since + rtlMade - t.from
  <2>1. (a.pairs + (s.lost - a.seen) + 1) + ChunksIn(q) + (s.lost - s.lost) = s.since + rtlMade - s.from
    <3>1. /\ rtlMade \in Nat /\ a.pairs \in Nat /\ s.lost \in Nat
          /\ a.seen \in Nat /\ s.since \in Nat /\ s.from \in Nat /\ ChunksIn(q) \in Nat
      BY <1>0, <1>3, <1>12
    <3>2. a.pairs + (ChunksIn(q) + 1) + (s.lost - a.seen) = s.since + rtlMade - s.from
      BY <1>3, <1>12
    <3> QED BY <3>1, <3>2, AccountsPass
  <2>2. e.pairs = a.pairs + (s.lost - a.seen) + 1
    BY <1>4, <1>7, <1>8, <1>10
  <2> QED BY <1>10, <1>14, <2>1, <2>2
<1>17. e.seen <= t.lost /\ rtlTold + plan.told + e.pending = e.pairs
  <2>1. e.pairs = a.pairs + n + 1 /\ plan.told + e.pending = a.pending + n + 1 /\ e.pending \in Nat
    BY <1>7, <1>8, <1>10 DEF Accounts
  <2>2. rtlTold + a.pending = a.pairs /\ e.seen <= t.lost
    BY <1>0, <1>2, <1>3, <1>10, <1>14
  <2>3. rtlTold + plan.told + e.pending = a.pairs + n + 1
    <3>1. rtlTold \in Nat /\ plan.told \in Nat /\ e.pending \in Nat /\ a.pending \in Nat /\ a.pairs \in Nat
      BY <1>0, <1>3, <1>7, <2>1
    <3>2. rtlTold + a.pending = a.pairs /\ plan.told + e.pending = a.pending + n + 1
      BY <2>1, <2>2
    <3> QED BY <3>1, <3>2, ToldAdds
  <2> QED BY <2>1, <2>2, <2>3
<1>18. Accounted(t, e, rtlMade)
  BY <1>14, <1>15, <1>16, <1>17 DEF Accounted
<1>19. (rtlTold + plan.told) \in Nat /\ rtlStream' # None
  BY <1>0, <1>7, <1>14, RtlConstants
<1> QED
  <2>1. rtlAcct' \in Accounts /\ rtlMade' \in Nat /\ rtlTold' \in Nat /\ rtlStream' \in Rtl!Streams
    BY <1>0, <1>6, <1>10, <1>14, <1>19
  <2>2. rtlTold' + rtlAcct'.pending = rtlAcct'.pairs
    BY <1>6, <1>10, <1>17
  <2>3. Accounted(rtlStream', rtlAcct', rtlMade')
    BY <1>0, <1>6, <1>10, <1>14, <1>18
  <2> QED BY <2>1, <2>2, <2>3 DEF RtlStreamInv, Accounted, LostIsLast

\* A poll of a lost dongle drops what was queued: the last word, or nothing.
LEMMA PollFailsIsAccounted ==
    ASSUME RtlStreamInv, Rtl!PollFails
    PROVE  RtlStreamInv' /\ rtlStream' \in Rtl!Streams
<1>0. rtlAcct \in Accounts /\ rtlMade \in Nat /\ rtlTold \in Nat /\ rtlStream \in Rtl!Streams
      /\ Accounted(rtlStream, rtlAcct, rtlMade) /\ rtlTold + rtlAcct.pending = rtlAcct.pairs
  BY DEF RtlStreamInv, Rtl!PollFails
<1>1. PICK s \in Rtl!Streams : s = rtlStream
  BY <1>0
<1>2. LostIsLast(s) /\ s.queue \in Seq(Rtl!Messages)
  BY <1>0, <1>1 DEF Accounted, Rtl!Streams
<1>3. IF s.queue # <<>> THEN Head(s.queue) = Rtl!Lost ELSE s.reader = "ended"
  BY <1>1 DEF Rtl!PollFails
<1>4. PICK q \in Seq(Rtl!Messages) : q = <<>> /\ Len(q) = 0
  BY EmptySeq, Zenon
<1>5. ChunksIn(q) = 0
  <2>1. \A k \in 1..Len(q) : q[k] = Rtl!Lost => k = Len(q)
    BY <1>4
  <2> QED BY <1>4, <2>1, ChunksCount
<1>6. ChunksIn(s.queue) = 0
  <2>1. CASE s.queue = <<>>
    BY <1>4, <1>5, <2>1
  <2>2. CASE s.queue # <<>>
    <3>1. Len(s.queue) \in Nat \ {0} /\ s.queue[1] = Rtl!Lost
      BY <1>2, <1>3, <2>2
    <3>3. \A k \in 1..Len(s.queue) : s.queue[k] = Rtl!Lost => k = Len(s.queue)
      BY <1>2 DEF LostIsLast
    <3>2. Len(s.queue) = 1
      <4>1. 1 \in 1..Len(s.queue)
        BY <3>1
      <4>2. 1 = Len(s.queue)
        BY <3>1, <3>3, <4>1, Zenon
      <4> QED BY <4>2
    <3>4. ChunksIn(s.queue) = Len(s.queue) - 1
      BY <1>2, <2>2, <3>1, <3>2, <3>3, ChunksCount
    <3> QED BY <3>2, <3>4
  <2> QED BY <2>1, <2>2
<1>7. PICK t : t = [s EXCEPT !.queue = q]
  OBVIOUS
<1>8. t \in Rtl!Streams /\ t.queue = q /\ t.lost = s.lost /\ t.since = s.since
      /\ t.from = s.from /\ rtlStream' = t
  BY <1>1, <1>4, <1>7 DEF Rtl!Streams, Rtl!PollFails
<1>9. Accounted(t, rtlAcct, rtlMade)
  BY <1>0, <1>1, <1>4, <1>5, <1>6, <1>8 DEF Accounted, LostIsLast
<1>10. rtlAcct' = rtlAcct /\ rtlMade' = rtlMade /\ rtlTold' = rtlTold
  BY DEF Rtl!PollFails
<1> QED BY <1>0, <1>8, <1>9, <1>10 DEF RtlStreamInv, Accounted, LostIsLast


LEMMA RtlStreamStep == RtlStreamInv /\ [Rtl!Next]_Rtl!vars => RtlStreamInv'
<1> SUFFICES ASSUME RtlStreamInv, [Rtl!Next]_Rtl!vars PROVE RtlStreamInv'
  OBVIOUS
<1>1. CASE rtlStream' = rtlStream /\ rtlAcct' = rtlAcct /\ rtlMade' = rtlMade /\ rtlTold' = rtlTold
  BY <1>1 DEF RtlStreamInv, Accounted, LostIsLast
<1>2. CASE Rtl!Closed
  BY <1>2 DEF Rtl!Closed, RtlStreamInv, Rtl!FreshAcct, Accounts
<1>3. CASE Rtl!Fill \/ Rtl!Fails \/ Rtl!Tells
  BY <1>3, ReaderIsAccounted
<1>4. CASE Rtl!Poll
  BY <1>4, PollIsAccounted
<1>5. CASE Rtl!PollFails
  BY <1>5, PollFailsIsAccounted
<1>6. ASSUME NEW c \in Rtl!AskedConfigs, NEW L, Rtl!Apply(c, L)
      PROVE  RtlStreamInv'
  <2> DEFINE changed == Rtl!Changed(rtlApplied, c, Rtl!Device)
             d == Rtl!Written(changed, c, L)
  <2>1. c.running \in BOOLEAN
    BY DEF Rtl!AskedConfigs, Rtl!Config
  <2>2. Rtl!Resumed(c, changed, d) /\ rtlMade' = rtlMade /\ rtlTold' = rtlTold
    BY <1>6 DEF Rtl!Apply
  <2> HIDE DEF changed, d
  <2> QED BY <2>1, <2>2, ResumedIsAccounted
<1>7. ASSUME NEW c \in Rtl!AskedConfigs, NEW L, Rtl!ApplyRefused(c, L)
      PROVE  RtlStreamInv'
  <2>1. PICK d : \E gone \in BOOLEAN :
           /\ rtlStream' = Rtl!Refilled(IF gone THEN None ELSE rtlStream, d)
           /\ rtlAcct' = IF gone THEN [rtlAcct EXCEPT !.seen = 0] ELSE rtlAcct
           /\ rtlMade' = rtlMade /\ rtlTold' = rtlTold
    <3> DEFINE changed == Rtl!Changed(rtlApplied, c, Rtl!Device)
               d == Rtl!Written(changed, c, L)
               gone == "rate" \in changed /\ d.reg.rate = c.rate /\ rtlStream # None
    <3>1. /\ rtlStream' = Rtl!Refilled(IF gone THEN None ELSE rtlStream, d)
          /\ rtlAcct' = IF gone THEN [rtlAcct EXCEPT !.seen = 0] ELSE rtlAcct
          /\ rtlMade' = rtlMade /\ rtlTold' = rtlTold
      BY <1>7 DEF Rtl!ApplyRefused
    <3>2. gone \in BOOLEAN
      OBVIOUS
    <3> HIDE DEF gone, d
    <3> QED BY <3>1, <3>2
  <2>. PICK gone \in BOOLEAN :
           /\ rtlStream' = Rtl!Refilled(IF gone THEN None ELSE rtlStream, d)
           /\ rtlAcct' = IF gone THEN [rtlAcct EXCEPT !.seen = 0] ELSE rtlAcct
           /\ rtlMade' = rtlMade /\ rtlTold' = rtlTold
    BY <2>1
  <2>2. rtlAcct \in Accounts /\ rtlMade \in Nat /\ rtlTold \in Nat
        /\ rtlStream \in Rtl!Streams \cup {None} /\ rtlTold + rtlAcct.pending = rtlAcct.pairs
    BY DEF RtlStreamInv
  <2>3. CASE gone
    <3>1. rtlStream' = None
      BY <2>1, <2>3, RefilledIs
    <3>2. rtlAcct' \in Accounts /\ rtlAcct'.pairs = rtlAcct.pairs /\ rtlAcct'.pending = rtlAcct.pending
      BY <2>1, <2>2, <2>3 DEF Accounts
    <3> QED BY <2>1, <2>2, <3>1, <3>2 DEF RtlStreamInv
  <2>4. CASE ~gone /\ rtlStream = None
    BY <2>1, <2>2, <2>4, RefilledIs DEF RtlStreamInv
  <2>5. CASE ~gone /\ rtlStream # None
    <3>1. rtlStream \in Rtl!Streams /\ Accounted(rtlStream, rtlAcct, rtlMade)
      BY <2>2, <2>5 DEF RtlStreamInv
    <3>2. rtlAcct' = rtlAcct /\ (rtlStream' = rtlStream \/ rtlStream' = [rtlStream EXCEPT !.mixed = TRUE])
      BY <2>1, <2>5, RefilledIs
    <3>3. rtlStream' \in Rtl!Streams /\ Accounted(rtlStream', rtlAcct, rtlMade)
      BY <2>2, <3>1, <3>2, MixingIsAccounted
    <3> QED BY <2>1, <2>2, <3>2, <3>3 DEF RtlStreamInv, Accounted, LostIsLast
  <2> QED BY <2>1, <2>3, <2>4, <2>5
<1>8. CASE UNCHANGED Rtl!vars
  BY <1>1, <1>8 DEF Rtl!vars
<1>9. CASE Rtl!Open \/ Rtl!Unplug \/ Rtl!Replug
  BY <1>1, <1>9 DEF Rtl!Open, Rtl!Unplug, Rtl!Replug
<1>10. ASSUME NEW c \in Rtl!AskedConfigs, Rtl!ApplyFails(c)
       PROVE  RtlStreamInv'
  BY <1>1, <1>2, <1>10 DEF Rtl!ApplyFails
<1> QED BY <1>3, <1>4, <1>5, <1>6, <1>7, <1>8, <1>9, <1>10 DEF Rtl!Next

LEMMA RtlStreamTrue == Rtl!Spec => []RtlStreamInv
<1>1. Rtl!Init => RtlStreamInv
  BY DEF Rtl!Init, RtlStreamInv, Rtl!FreshAcct, Accounts
<1>2. RtlStreamInv /\ [Rtl!Next]_Rtl!vars => RtlStreamInv'
  BY RtlStreamStep
<1> QED BY <1>1, <1>2, PTL DEF Rtl!Spec

\* RtlBackend: every chunk of the stream is passed by the clock, queued or
\* counted as overflowed, and the frames declare what the clock passed.
LEMMA EveryChunkHolds == Rtl!Spec => []Rtl!EveryChunkCounts
<1>1. Rtl!Queued = ChunksIn(rtlStream.queue)
  BY DEF ChunksIn, Rtl!Queued, Rtl!Cardinality, Cardinality
<1>2. RtlStreamInv => Rtl!EveryChunkCounts
  BY <1>1 DEF RtlStreamInv, Accounted, Rtl!EveryChunkCounts
<1> QED BY <1>2, RtlStreamTrue, PTL

(* The dongle's backend: what it says it applied.                          *)

\* The registers of the dongle, and the driver's fields of the same names.
DongleRegs == [rate : RtlRates \cup {0}, centre : RtlCentres \cup {0}, direct : BOOLEAN,
               gain : RtlGains \cup {None}, ppm : RtlPpms \cup {0}]
Dongles == [reg : DongleRegs, drv : DongleRegs, ok : BOOLEAN]

\* The driver knows the centre and the correction, whatever was refused.
Tuned(d) == d.reg.centre = d.drv.centre /\ d.reg.ppm = d.drv.ppm

\* The same but for the centre.
AlikeBut(d, e) ==
    /\ e.reg.rate = d.reg.rate /\ e.drv.rate = d.drv.rate
    /\ e.reg.direct = d.reg.direct /\ e.drv.direct = d.drv.direct
    /\ e.reg.gain = d.reg.gain /\ e.drv.gain = d.drv.gain
    /\ e.reg.ppm = d.reg.ppm /\ e.drv.ppm = d.drv.ppm

\* e is d after the parts of `done' were written, or refused.
Moves(d, e, done) ==
    /\ e \in Dongles /\ Tuned(e)
    /\ "rate" \notin done => e.reg.rate = d.reg.rate /\ e.drv.rate = d.drv.rate
    /\ "direct" \notin done => e.reg.direct = d.reg.direct /\ e.drv.direct = d.drv.direct
    /\ "gain" \notin done => e.drv.gain = d.drv.gain
    /\ "gain" \notin done /\ "direct" \notin done => e.reg.gain = d.reg.gain
    /\ "ppm" \notin done => e.reg.ppm = d.reg.ppm

\* The same when nothing was refused: the parts hold what c says, and what was
\* not written what it held.
Says(d, e, done, c) ==
    /\ "rate" \in done => e.reg.rate = c.rate /\ e.drv.rate = c.rate
    /\ "direct" \in done => e.reg.direct = (c.centre \in RtlHf) /\ e.drv.direct = e.reg.direct
    /\ "centre" \in done => e.reg.centre = c.centre
    /\ "centre" \notin done /\ "direct" \notin done => e.reg.centre = d.reg.centre
    /\ "gain" \in done => e.reg.gain = c.gain /\ e.drv.gain = c.gain
    /\ "gain" \notin done => e.reg.gain \in {d.reg.gain, e.drv.gain}
    /\ "ppm" \in done => e.reg.ppm = c.ppm

LEMMA TuneMoves ==
    ASSUME NEW d \in Dongles, NEW hz \in RtlCentres, NEW L
    PROVE  LET e == Rtl!Tune(d, hz, L)
           IN /\ e \in Dongles /\ AlikeBut(d, e) /\ e.reg.centre = e.drv.centre
              /\ e.ok => d.ok /\ e.reg.centre = hz
<1>1. CASE d.drv.direct \/ hz \in L
  <2>1. PICK e : e = [d EXCEPT !.reg.centre = hz, !.drv.centre = hz]
    OBVIOUS
  <2>2. e \in Dongles /\ AlikeBut(d, e) /\ e.reg.centre = hz /\ e.drv.centre = hz /\ e.ok = d.ok
    BY <2>1 DEF Dongles, DongleRegs, AlikeBut
  <2> QED BY <1>1, <2>1, <2>2 DEF Rtl!Tune
<1>2. CASE ~(d.drv.direct \/ hz \in L)
  <2>1. PICK e : e = [d EXCEPT !.reg.centre = 0, !.drv.centre = 0, !.ok = FALSE]
    OBVIOUS
  <2>2. e \in Dongles /\ AlikeBut(d, e) /\ e.reg.centre = 0 /\ e.drv.centre = 0 /\ e.ok = FALSE
    BY <2>1 DEF Dongles, DongleRegs, AlikeBut
  <2> QED BY <1>2, <2>1, <2>2 DEF Rtl!Tune
<1> QED BY <1>1, <1>2

LEMMA RetuneMoves ==
    ASSUME NEW d \in Dongles, d.reg.centre = d.drv.centre, NEW L
    PROVE  LET e == Rtl!Retune(d, L)
           IN /\ e \in Dongles /\ AlikeBut(d, e) /\ e.reg.centre = e.drv.centre
              /\ e.ok => d.ok /\ e.reg.centre = d.reg.centre
<1>1. CASE d.drv.centre # 0
  <2>1. d.drv.centre \in RtlCentres
    BY <1>1 DEF Dongles, DongleRegs
  <2> QED BY <1>1, <2>1, TuneMoves DEF Rtl!Retune
<1>2. CASE d.drv.centre = 0
  BY <1>2 DEF Rtl!Retune, AlikeBut
<1> QED BY <1>1, <1>2

\* The five writes.  d is the dongle as it was, e after what was done already.
LEMMA RateMoves ==
    ASSUME NEW d \in Dongles, NEW e \in Dongles, Tuned(e), NEW c \in Rtl!Config, NEW L, e.ok
    PROVE  LET f == Rtl!SetSampleRate(e, c.rate, L)
           IN /\ f \in Dongles /\ Tuned(f)
              /\ f.reg.direct = e.reg.direct /\ f.drv.direct = e.drv.direct
              /\ f.reg.gain = e.reg.gain /\ f.drv.gain = e.drv.gain /\ f.reg.ppm = e.reg.ppm
              /\ f.ok => f.reg.rate = c.rate /\ f.drv.rate = c.rate /\ f.reg.centre = e.reg.centre
<1>1. PICK n : n = [e EXCEPT !.drv.rate = c.rate]
  OBVIOUS
<1>2. n \in Dongles /\ n.drv.rate = c.rate /\ Tuned(n) /\ n.reg = e.reg /\ n.ok = e.ok
      /\ n.drv.direct = e.drv.direct /\ n.drv.gain = e.drv.gain
  BY <1>1 DEF Dongles, DongleRegs, Tuned, Rtl!Config
<1>3. PICK t : t = IF e.drv.direct THEN n ELSE Rtl!Retune(n, L)
  OBVIOUS
<1>4. t \in Dongles /\ AlikeBut(n, t) /\ t.reg.centre = t.drv.centre
      /\ (t.ok => t.reg.centre = n.reg.centre)
  <2>1. n.reg.centre = n.drv.centre
    BY <1>2 DEF Tuned
  <2>2. CASE e.drv.direct
    BY <1>2, <1>3, <2>1, <2>2 DEF AlikeBut
  <2>3. CASE ~e.drv.direct
    BY <1>2, <1>3, <2>1, <2>3, RetuneMoves
  <2> QED BY <2>2, <2>3
<1>5. PICK f : f = IF t.ok THEN [t EXCEPT !.reg.rate = c.rate] ELSE t
  OBVIOUS
<1>6. /\ f \in Dongles /\ f.reg.centre = t.reg.centre /\ f.drv = t.drv /\ f.ok = t.ok
      /\ f.reg.direct = t.reg.direct /\ f.reg.gain = t.reg.gain /\ f.reg.ppm = t.reg.ppm
      /\ f.ok => f.reg.rate = c.rate
  BY <1>4, <1>5 DEF Dongles, DongleRegs, Rtl!Config
<1>7. f = Rtl!SetSampleRate(e, c.rate, L)
  BY <1>1, <1>3, <1>5 DEF Rtl!SetSampleRate
<1> QED BY <1>2, <1>4, <1>6, <1>7 DEF AlikeBut, Tuned

LEMMA DirectMoves ==
    ASSUME NEW e \in Dongles, Tuned(e), NEW on \in BOOLEAN, on # e.drv.direct, NEW L, e.ok
    PROVE  LET f == Rtl!SetDirectSampling(e, on, L)
           IN /\ f \in Dongles /\ Tuned(f)
              /\ f.reg.rate = e.reg.rate /\ f.drv.rate = e.drv.rate
              /\ f.drv.gain = e.drv.gain /\ f.reg.ppm = e.reg.ppm
              /\ f.ok => f.reg.direct = on /\ f.drv.direct = on
                         /\ f.reg.gain \in {e.reg.gain, e.drv.gain}
<1>0. (on = TRUE /\ e.drv.direct = FALSE) \/ (on = FALSE /\ e.drv.direct = TRUE)
  BY DEF Dongles, DongleRegs
<1>1. CASE on
  <2>1. PICK n : n = [e EXCEPT !.reg.direct = TRUE, !.drv.direct = TRUE]
    OBVIOUS
  <2>2. n \in Dongles /\ Tuned(n) /\ n.reg.direct = TRUE /\ n.drv.direct = TRUE
        /\ n.reg.rate = e.reg.rate /\ n.drv.rate = e.drv.rate
        /\ n.reg.gain = e.reg.gain /\ n.drv.gain = e.drv.gain /\ n.reg.ppm = e.reg.ppm
    BY <2>1 DEF Dongles, DongleRegs, Tuned
  <2>3. Rtl!SetDirectSampling(e, on, L) = Rtl!Retune(n, L)
    BY <1>1, <2>1 DEF Rtl!SetDirectSampling
  <2>4. PICK f : f = Rtl!Retune(n, L)
    OBVIOUS
  <2>5. /\ f \in Dongles /\ AlikeBut(n, f) /\ f.reg.centre = f.drv.centre
    BY <2>2, <2>4, RetuneMoves DEF Tuned
  <2> QED BY <1>1, <2>2, <2>3, <2>4, <2>5 DEF AlikeBut, Tuned
<1>2. CASE ~on /\ RtlCalLo \notin L
  <2>1. PICK f : f = [e EXCEPT !.drv.direct = FALSE, !.reg.gain = None, !.ok = FALSE]
    OBVIOUS
  <2>2. f \in Dongles /\ Tuned(f) /\ f.ok = FALSE
        /\ f.reg.rate = e.reg.rate /\ f.drv.rate = e.drv.rate
        /\ f.drv.gain = e.drv.gain /\ f.reg.ppm = e.reg.ppm
    BY <2>1 DEF Dongles, DongleRegs, Tuned
  <2>3. Rtl!SetDirectSampling(e, on, L) = f
    BY <1>0, <1>2, <2>1 DEF Rtl!SetDirectSampling
  <2> QED BY <2>2, <2>3
<1>3. CASE ~on /\ RtlCalLo \in L
  <2>1. PICK n : n = Rtl!Back(e)
    OBVIOUS
  <2>2. n \in Dongles /\ Tuned(n) /\ n.reg.direct = FALSE /\ n.drv.direct = FALSE
        /\ n.reg.rate = e.reg.rate /\ n.drv.rate = e.drv.rate
        /\ n.reg.gain = e.drv.gain /\ n.drv.gain = e.drv.gain /\ n.reg.ppm = e.reg.ppm
    BY <2>1 DEF Dongles, DongleRegs, Tuned, Rtl!Back
  <2>3. CASE e.drv.centre \in RtlHf
    <3>1. PICK f : f = [n EXCEPT !.drv.centre = 0, !.reg.centre = 0]
      OBVIOUS
    <3>2. f \in Dongles /\ Tuned(f) /\ f.reg.direct = FALSE /\ f.drv.direct = FALSE
          /\ f.reg.rate = e.reg.rate /\ f.drv.rate = e.drv.rate
          /\ f.reg.gain = e.drv.gain /\ f.drv.gain = e.drv.gain /\ f.reg.ppm = e.reg.ppm
      BY <2>2, <3>1 DEF Dongles, DongleRegs, Tuned
    <3>3. Rtl!SetDirectSampling(e, on, L) = f
      BY <1>0, <1>3, <2>1, <2>3, <3>1 DEF Rtl!SetDirectSampling
    <3> QED BY <1>3, <3>2, <3>3
  <2>4. CASE e.drv.centre \notin RtlHf
    <3>1. Rtl!SetDirectSampling(e, on, L) = Rtl!Retune(n, L)
      BY <1>0, <1>3, <2>1, <2>4 DEF Rtl!SetDirectSampling
    <3>2. PICK f : f = Rtl!Retune(n, L)
      OBVIOUS
    <3>3. /\ f \in Dongles /\ AlikeBut(n, f) /\ f.reg.centre = f.drv.centre
      BY <2>2, <3>2, RetuneMoves DEF Tuned
    <3> QED BY <1>0, <1>3, <2>2, <3>1, <3>2, <3>3 DEF AlikeBut, Tuned
  <2> QED BY <2>3, <2>4
<1> QED BY <1>1, <1>2, <1>3

LEMMA GainMoves ==
    ASSUME NEW e \in Dongles, Tuned(e), NEW g \in RtlGains
    PROVE  LET f == Rtl!SetGain(e, g)
           IN /\ f \in Dongles /\ Tuned(f) /\ f.ok = e.ok
              /\ f.reg.rate = e.reg.rate /\ f.drv.rate = e.drv.rate
              /\ f.reg.direct = e.reg.direct /\ f.drv.direct = e.drv.direct
              /\ f.reg.centre = e.reg.centre /\ f.reg.ppm = e.reg.ppm
              /\ f.reg.gain = g /\ f.drv.gain = g
  BY DEF Dongles, DongleRegs, Tuned, Rtl!SetGain

LEMMA PpmMoves ==
    ASSUME NEW e \in Dongles, Tuned(e), NEW p \in RtlPpms, NEW L
    PROVE  LET f == Rtl!SetPpm(e, p, L)
           IN /\ f \in Dongles /\ Tuned(f)
              /\ f.reg.rate = e.reg.rate /\ f.drv.rate = e.drv.rate
              /\ f.reg.direct = e.reg.direct /\ f.drv.direct = e.drv.direct
              /\ f.reg.gain = e.reg.gain /\ f.drv.gain = e.drv.gain
              /\ f.reg.ppm = p
              /\ f.ok => e.ok /\ f.reg.centre = e.reg.centre
<1>1. CASE p = e.drv.ppm
  BY <1>1 DEF Rtl!SetPpm, Tuned
<1>2. CASE p # e.drv.ppm
  <2>1. PICK n : n = [e EXCEPT !.reg.ppm = p, !.drv.ppm = p]
    OBVIOUS
  <2>2. n \in Dongles /\ Tuned(n) /\ n.reg.ppm = p /\ n.ok = e.ok
        /\ n.reg.rate = e.reg.rate /\ n.drv.rate = e.drv.rate
        /\ n.reg.direct = e.reg.direct /\ n.drv.direct = e.drv.direct
        /\ n.reg.gain = e.reg.gain /\ n.drv.gain = e.drv.gain /\ n.reg.centre = e.reg.centre
    BY <2>1 DEF Dongles, DongleRegs, Tuned
  <2>3. Rtl!SetPpm(e, p, L) = Rtl!Retune(n, L)
    BY <1>2, <2>1 DEF Rtl!SetPpm
  <2>4. PICK f : f = Rtl!Retune(n, L)
    OBVIOUS
  <2>5. /\ f \in Dongles /\ AlikeBut(n, f) /\ f.reg.centre = f.drv.centre
        /\ f.ok => n.ok /\ f.reg.centre = n.reg.centre
    BY <2>2, <2>4, RetuneMoves DEF Tuned
  <2> QED BY <2>2, <2>3, <2>4, <2>5 DEF AlikeBut, Tuned
<1> QED BY <1>1, <1>2

\* After some of the parts.
RtlWrote(d, e, done, c) == Moves(d, e, done) /\ (e.ok => Says(d, e, done, c))

\* Each write after those before it.
LEMMA RateDone ==
    ASSUME NEW d, NEW e, NEW c \in Rtl!Config, NEW changed, NEW L, RtlWrote(d, e, {}, c)
    PROVE  RtlWrote(d, Rtl!Update(e, "rate", changed, c, L), changed \cap {"rate"}, c)
<1>1. e \in Dongles /\ Tuned(e) /\ c.rate \in RtlRates
  BY DEF RtlWrote, Moves, Rtl!Config
<1>2. CASE e.ok /\ "rate" \in changed
  <2>1. PICK f : f = Rtl!SetSampleRate(e, c.rate, L)
    OBVIOUS
  <2>2. Rtl!Update(e, "rate", changed, c, L) = f
    BY <1>2, <2>1 DEF Rtl!Update, Rtl!WritePart
  <2>4. /\ f \in Dongles /\ Tuned(f)
        /\ f.reg.direct = e.reg.direct /\ f.drv.direct = e.drv.direct
        /\ f.reg.gain = e.reg.gain /\ f.drv.gain = e.drv.gain /\ f.reg.ppm = e.reg.ppm
        /\ (f.ok => f.reg.rate = c.rate /\ f.drv.rate = c.rate /\ f.reg.centre = e.reg.centre)
    BY <1>1, <1>2, <2>1, <2>2, RateMoves
  <2> QED BY <1>2, <2>2, <2>4 DEF RtlWrote, Moves, Says, AlikeBut, Tuned
<1>3. CASE ~(e.ok /\ "rate" \in changed)
  <2>1. Rtl!Update(e, "rate", changed, c, L) = e
    BY <1>3 DEF Rtl!Update
  <2> QED BY <1>3, <2>1 DEF RtlWrote, Moves, Says
<1> QED BY <1>2, <1>3

LEMMA DirectDone ==
    ASSUME NEW d, NEW e, NEW c \in Rtl!Config, NEW changed, NEW L, RtlWrote(d, e, changed \cap {"rate"}, c),
           "direct" \in changed => (c.centre \in RtlHf) # d.drv.direct
    PROVE  RtlWrote(d, Rtl!Update(e, "direct", changed, c, L), changed \cap {"rate", "direct"}, c)
<1>1. e \in Dongles /\ Tuned(e) /\ c.centre \in RtlCentres
  BY DEF RtlWrote, Moves, Rtl!Config
<1>2. CASE e.ok /\ "direct" \in changed
  <2>1. PICK f : f = Rtl!SetDirectSampling(e, c.centre \in RtlHf, L)
    OBVIOUS
  <2>2. Rtl!Update(e, "direct", changed, c, L) = f
    BY <1>2, <2>1 DEF Rtl!Update, Rtl!WritePart
  <2>3. PICK on \in BOOLEAN : on = (c.centre \in RtlHf)
    <3>1. (c.centre \in RtlHf) \in BOOLEAN
      OBVIOUS
    <3> QED BY <3>1, Zenon
  <2>5. on # e.drv.direct /\ f = Rtl!SetDirectSampling(e, on, L)
    BY <1>2, <2>1, <2>3 DEF RtlWrote, Moves
  <2>4. /\ f \in Dongles /\ Tuned(f)
        /\ f.reg.rate = e.reg.rate /\ f.drv.rate = e.drv.rate
        /\ f.drv.gain = e.drv.gain /\ f.reg.ppm = e.reg.ppm
        /\ (f.ok => f.reg.direct = (c.centre \in RtlHf) /\ f.drv.direct = (c.centre \in RtlHf)
                    /\ f.reg.gain \in {e.reg.gain, e.drv.gain})
    <3>1. /\ f \in Dongles /\ Tuned(f)
          /\ f.reg.rate = e.reg.rate /\ f.drv.rate = e.drv.rate
          /\ f.drv.gain = e.drv.gain /\ f.reg.ppm = e.reg.ppm
          /\ (f.ok => f.reg.direct = on /\ f.drv.direct = on /\ f.reg.gain \in {e.reg.gain, e.drv.gain})
      BY <1>1, <1>2, <2>5, DirectMoves
    <3> QED BY <2>3, <3>1
  <2> QED BY <1>2, <2>2, <2>4 DEF RtlWrote, Moves, Says, AlikeBut, Tuned
<1>3. CASE ~(e.ok /\ "direct" \in changed)
  <2>1. Rtl!Update(e, "direct", changed, c, L) = e
    BY <1>3 DEF Rtl!Update
  <2> QED BY <1>3, <2>1 DEF RtlWrote, Moves, Says
<1> QED BY <1>2, <1>3

LEMMA CentreDone ==
    ASSUME NEW d, NEW e, NEW c \in Rtl!Config, NEW changed, NEW L, RtlWrote(d, e, changed \cap {"rate", "direct"}, c)
    PROVE  RtlWrote(d, Rtl!Update(e, "centre", changed, c, L), changed \cap {"rate", "direct", "centre"}, c)
<1>1. e \in Dongles /\ Tuned(e) /\ c.centre \in RtlCentres
  BY DEF RtlWrote, Moves, Rtl!Config
<1>2. CASE e.ok /\ "centre" \in changed
  <2>1. PICK f : f = Rtl!Tune(e, c.centre, L)
    OBVIOUS
  <2>2. Rtl!Update(e, "centre", changed, c, L) = f
    BY <1>2, <2>1 DEF Rtl!Update, Rtl!WritePart
  <2>4. /\ f \in Dongles /\ AlikeBut(e, f) /\ f.reg.centre = f.drv.centre
        /\ (f.ok => f.reg.centre = c.centre)
    BY <1>1, <1>2, <2>1, <2>2, TuneMoves
  <2> QED BY <1>2, <2>2, <2>4 DEF RtlWrote, Moves, Says, AlikeBut, Tuned
<1>3. CASE ~(e.ok /\ "centre" \in changed)
  <2>1. Rtl!Update(e, "centre", changed, c, L) = e
    BY <1>3 DEF Rtl!Update
  <2> QED BY <1>3, <2>1 DEF RtlWrote, Moves, Says
<1> QED BY <1>2, <1>3

LEMMA GainDone ==
    ASSUME NEW d, NEW e, NEW c \in Rtl!Config, NEW changed, NEW L, RtlWrote(d, e, changed \cap {"rate", "direct", "centre"}, c)
    PROVE  RtlWrote(d, Rtl!Update(e, "gain", changed, c, L), changed \cap {"rate", "direct", "centre", "gain"}, c)
<1>1. e \in Dongles /\ Tuned(e) /\ c.gain \in RtlGains
  BY DEF RtlWrote, Moves, Rtl!Config
<1>2. CASE e.ok /\ "gain" \in changed
  <2>1. PICK f : f = Rtl!SetGain(e, c.gain)
    OBVIOUS
  <2>2. Rtl!Update(e, "gain", changed, c, L) = f
    BY <1>2, <2>1 DEF Rtl!Update, Rtl!WritePart
  <2>4. /\ f \in Dongles /\ Tuned(f) /\ f.ok = e.ok
        /\ f.reg.rate = e.reg.rate /\ f.drv.rate = e.drv.rate
        /\ f.reg.direct = e.reg.direct /\ f.drv.direct = e.drv.direct
        /\ f.reg.centre = e.reg.centre /\ f.reg.ppm = e.reg.ppm
        /\ f.reg.gain = c.gain /\ f.drv.gain = c.gain
    <3>1. PICK g \in RtlGains : g = c.gain
      BY <1>1
    <3> QED BY <1>1, <2>1, <3>1, GainMoves
  <2> QED BY <1>2, <2>2, <2>4 DEF RtlWrote, Moves, Says, AlikeBut, Tuned
<1>3. CASE ~(e.ok /\ "gain" \in changed)
  <2>1. Rtl!Update(e, "gain", changed, c, L) = e
    BY <1>3 DEF Rtl!Update
  <2> QED BY <1>3, <2>1 DEF RtlWrote, Moves, Says
<1> QED BY <1>2, <1>3

LEMMA PpmDone ==
    ASSUME NEW d, NEW e, NEW c \in Rtl!Config, NEW changed, NEW L, RtlWrote(d, e, changed \cap {"rate", "direct", "centre", "gain"}, c)
    PROVE  RtlWrote(d, Rtl!Update(e, "ppm", changed, c, L), changed \cap {"rate", "direct", "centre", "gain", "ppm"}, c)
<1>1. e \in Dongles /\ Tuned(e) /\ c.ppm \in RtlPpms
  BY DEF RtlWrote, Moves, Rtl!Config
<1>2. CASE e.ok /\ "ppm" \in changed
  <2>1. PICK f : f = Rtl!SetPpm(e, c.ppm, L)
    OBVIOUS
  <2>2. Rtl!Update(e, "ppm", changed, c, L) = f
    BY <1>2, <2>1 DEF Rtl!Update, Rtl!WritePart
  <2>4. /\ f \in Dongles /\ Tuned(f)
        /\ f.reg.rate = e.reg.rate /\ f.drv.rate = e.drv.rate
        /\ f.reg.direct = e.reg.direct /\ f.drv.direct = e.drv.direct
        /\ f.reg.gain = e.reg.gain /\ f.drv.gain = e.drv.gain /\ f.reg.ppm = c.ppm
        /\ (f.ok => f.reg.centre = e.reg.centre)
    BY <1>1, <1>2, <2>1, <2>2, PpmMoves
  <2> QED BY <1>2, <2>2, <2>4 DEF RtlWrote, Moves, Says, AlikeBut, Tuned
<1>3. CASE ~(e.ok /\ "ppm" \in changed)
  <2>1. Rtl!Update(e, "ppm", changed, c, L) = e
    BY <1>3 DEF Rtl!Update
  <2> QED BY <1>3, <2>1 DEF RtlWrote, Moves, Says
<1> QED BY <1>2, <1>3


\* All of them.
LEMMA AllWritten ==
    ASSUME Rtl!Device \in Dongles, Tuned(Rtl!Device), NEW c \in Rtl!Config, NEW L, NEW changed,
           "direct" \in changed => (c.centre \in RtlHf) # rtlDrv.direct
    PROVE  RtlWrote(Rtl!Device, Rtl!Written(changed, c, L), changed, c)
<1> DEFINE d == Rtl!Device
<1>1. RtlWrote(d, d, {}, c)
  BY DEF RtlWrote, Moves, Says
<1>2. PICK e1 : e1 = Rtl!Update(d, "rate", changed, c, L)
  OBVIOUS
<1>3. PICK e2 : e2 = Rtl!Update(e1, "direct", changed, c, L)
  OBVIOUS
<1>4. PICK e3 : e3 = Rtl!Update(e2, "centre", changed, c, L)
  OBVIOUS
<1>5. PICK e4 : e4 = Rtl!Update(e3, "gain", changed, c, L)
  OBVIOUS
<1>6. PICK e5 : e5 = Rtl!Update(e4, "ppm", changed, c, L)
  OBVIOUS
<1>7. e5 = Rtl!Written(changed, c, L)
  BY <1>2, <1>3, <1>4, <1>5, <1>6 DEF Rtl!Written
<1>8. d.drv = rtlDrv
  BY DEF Rtl!Device
<1> HIDE DEF d
<1>9. RtlWrote(d, e1, changed \cap {"rate"}, c)
  BY <1>1, <1>2, RateDone
<1>10. RtlWrote(d, e2, changed \cap {"rate", "direct"}, c)
  BY <1>3, <1>8, <1>9, DirectDone
<1>11. RtlWrote(d, e3, changed \cap {"rate", "direct", "centre"}, c)
  BY <1>4, <1>10, CentreDone
<1>12. RtlWrote(d, e4, changed \cap {"rate", "direct", "centre", "gain"}, c)
  BY <1>5, <1>11, GainDone
<1>13. RtlWrote(d, e5, changed \cap {"rate", "direct", "centre", "gain", "ppm"}, c)
  BY <1>6, <1>12, PpmDone
<1>14. RtlWrote(d, e5, changed, c)
  BY <1>13 DEF RtlWrote, Moves, Says
<1> QED BY <1>7, <1>14 DEF d

\* What is in force of a part, and what the driver knows of the gain; the
\* driver forgets direct sampling only in a refused change of it.
RtlInv ==
    /\ RtlStreamInv
    /\ Rtl!Device \in Dongles /\ Tuned(Rtl!Device) /\ rtlApplied \in Rtl!Config \cup {None}
    /\ "direct" \in rtlMoved \/ rtlReg.direct = rtlDrv.direct
    /\ rtlApplied # None => "gain" \in rtlMoved \/ rtlDrv.gain = rtlApplied.gain
    /\ Rtl!AppliedIsHeld

\* The same in terms of one configuration.
InForce(c, r, v, moved) ==
    /\ "rate" \in moved \/ (r.rate = c.rate /\ v.rate = c.rate)
    /\ "direct" \in moved \/ r.direct = (c.centre \in RtlHf)
    /\ "centre" \in moved \/ r.centre = c.centre
    /\ "gain" \in moved \/ r.gain = c.gain
    /\ "ppm" \in moved \/ r.ppm = c.ppm

LEMMA HeldParts ==
    Rtl!AppliedIsHeld
        <=> (rtlApplied # None =>
                /\ InForce(rtlApplied, rtlReg, rtlDrv, rtlMoved)
                /\ "stream" \in rtlMoved \/ (rtlStream # None) = rtlApplied.running)
  BY DEF Rtl!AppliedIsHeld, Rtl!Holds, Rtl!Parts, InForce

LEMMA PrimedHeldParts ==
    ASSUME rtlApplied' # None =>
              /\ InForce(rtlApplied', rtlReg', rtlDrv', rtlMoved')
              /\ "stream" \in rtlMoved' \/ (rtlStream' # None) = rtlApplied'.running
    PROVE  Rtl!AppliedIsHeld'
  BY DEF Rtl!AppliedIsHeld, Rtl!Holds, Rtl!Parts, InForce

LEMMA RtlStarts == Rtl!Init => RtlInv
<1> SUFFICES ASSUME Rtl!Init PROVE RtlInv
  OBVIOUS
<1>1. RtlStreamInv
  BY DEF Rtl!Init, RtlStreamInv, Rtl!FreshAcct, Accounts
<1>2. Rtl!Device \in Dongles /\ Tuned(Rtl!Device)
  BY DEF Rtl!Init, Rtl!Device, Rtl!FreshDriver, Dongles, DongleRegs, Tuned
<1>3. rtlReg.direct = rtlDrv.direct /\ rtlApplied = None
  BY DEF Rtl!Init, Rtl!FreshDriver
<1> QED BY <1>1, <1>2, <1>3 DEF RtlInv, Rtl!AppliedIsHeld

\* Neither the dongle nor what is said of it changes.
LEMMA RtlUntouched ==
    ASSUME RtlInv, RtlStreamInv', rtlReg' = rtlReg, rtlDrv' = rtlDrv, rtlApplied' = rtlApplied,
           rtlMoved' = rtlMoved, (rtlStream' = None) <=> (rtlStream = None)
    PROVE  RtlInv'
  BY DEF RtlInv, Rtl!Device, Rtl!AppliedIsHeld, Rtl!Holds, Rtl!Parts

LEMMA RtlClosedKeeps ==
    ASSUME RtlStreamInv', Rtl!Closed
    PROVE  RtlInv'
<1>1. Rtl!Device' \in Dongles /\ Tuned(Rtl!Device')
  BY DEF Rtl!Closed, Rtl!Device, Rtl!FreshDriver, Dongles, DongleRegs, Tuned
<1>2. rtlReg'.direct = rtlDrv'.direct /\ rtlApplied' = None
  BY DEF Rtl!Closed, Rtl!FreshDriver
<1> QED BY <1>1, <1>2 DEF RtlInv, Rtl!AppliedIsHeld, Rtl!Device, Tuned

\* The stream is kept, or there is none.
LEMMA RefilledStays ==
    ASSUME NEW s \in Rtl!Streams \cup {None}, NEW d
    PROVE  (Rtl!Refilled(s, d) = None) <=> (s = None)
<1>1. CASE s = None
  BY <1>1 DEF Rtl!Refilled
<1>2. CASE s # None
  <2>1. PICK t : t = [s EXCEPT !.mixed = TRUE]
    OBVIOUS
  <2>2. s \in Rtl!Streams /\ t \in Rtl!Streams
    BY <1>2, <2>1 DEF Rtl!Streams
  <2>3. t # None
    BY <2>2, RtlConstants
  <2> QED BY <1>2, <2>1, <2>3, RefilledIs
<1> QED BY <1>1, <1>2

\* What apply() finds different, and what it leaves alone.
LEMMA ChangedParts ==
    ASSUME NEW prev, NEW c, NEW d, NEW changed, changed = Rtl!Changed(prev, c, d)
    PROVE  /\ "direct" \in changed <=> (c.centre \in RtlHf) # d.drv.direct
           /\ "centre" \notin changed => (c.centre \in RtlHf) = d.drv.direct /\ prev # None /\ prev.centre = c.centre
           /\ "rate" \notin changed => prev # None /\ prev.rate = c.rate
           /\ "gain" \notin changed => prev # None /\ prev.gain = c.gain
           /\ "ppm" \notin changed => prev # None /\ prev.ppm = c.ppm
<1>1. /\ "direct" \in changed <=> Rtl!Differs("direct", prev, c, d)
      /\ "centre" \in changed <=> Rtl!Differs("centre", prev, c, d)
      /\ "rate" \in changed <=> Rtl!Differs("rate", prev, c, d)
      /\ "gain" \in changed <=> Rtl!Differs("gain", prev, c, d)
      /\ "ppm" \in changed <=> Rtl!Differs("ppm", prev, c, d)
  BY DEF Rtl!Changed, Rtl!Parts
<1> QED BY <1>1 DEF Rtl!Differs

\* A configuration that was written whole.
LEMMA RtlApplyKeeps ==
    ASSUME RtlInv, NEW c \in Rtl!Config, NEW L, Rtl!Apply(c, L), RtlStreamInv'
    PROVE  RtlInv'
<1>1. PICK changed : changed = Rtl!Changed(rtlApplied, c, Rtl!Device)
  OBVIOUS
<1>2. PICK d : d = Rtl!Written(changed, c, L)
  OBVIOUS
<1>3. /\ d.ok /\ rtlReg' = d.reg /\ rtlDrv' = d.drv /\ rtlApplied' = c
      /\ rtlMoved' = rtlMoved \ (changed \cup {"stream"}) /\ Rtl!Resumed(c, changed, d)
  BY <1>1, <1>2 DEF Rtl!Apply
<1>4. Rtl!Device.reg = rtlReg /\ Rtl!Device.drv = rtlDrv
  BY DEF Rtl!Device
<1>5. /\ "direct" \in changed <=> (c.centre \in RtlHf) # rtlDrv.direct
      /\ "centre" \notin changed => (c.centre \in RtlHf) = rtlDrv.direct /\ rtlApplied # None
                                    /\ rtlApplied.centre = c.centre
      /\ "rate" \notin changed => rtlApplied # None /\ rtlApplied.rate = c.rate
      /\ "gain" \notin changed => rtlApplied # None /\ rtlApplied.gain = c.gain
      /\ "ppm" \notin changed => rtlApplied # None /\ rtlApplied.ppm = c.ppm
  BY <1>1, <1>4, ChangedParts
<1>6. Moves(Rtl!Device, d, changed) /\ Says(Rtl!Device, d, changed, c)
  BY <1>2, <1>3, <1>5, AllWritten DEF RtlInv, RtlWrote
<1>7. d \in Dongles /\ Tuned(d) /\ Rtl!Device' \in Dongles /\ Tuned(Rtl!Device')
  <2>1. d \in Dongles /\ Tuned(d)
    BY <1>6 DEF Moves
  <2>2. [reg |-> d.reg, drv |-> d.drv, ok |-> TRUE] \in Dongles
    BY <2>1 DEF Dongles
  <2>3. Rtl!Device' = [reg |-> d.reg, drv |-> d.drv, ok |-> TRUE]
    BY <1>3 DEF Rtl!Device
  <2> QED BY <2>1, <2>2, <2>3 DEF Tuned
<1>8. rtlApplied # None => InForce(rtlApplied, rtlReg, rtlDrv, rtlMoved)
                           /\ ("gain" \in rtlMoved \/ rtlDrv.gain = rtlApplied.gain)
  BY HeldParts DEF RtlInv
<1>9. "direct" \in rtlMoved \/ rtlReg.direct = rtlDrv.direct
  BY DEF RtlInv
<1>10. InForce(c, d.reg, d.drv, rtlMoved')
  <2>1. "rate" \in rtlMoved' \/ (d.reg.rate = c.rate /\ d.drv.rate = c.rate)
    BY <1>3, <1>4, <1>5, <1>6, <1>8 DEF Moves, Says, InForce
  <2>2. "direct" \in rtlMoved' \/ d.reg.direct = (c.centre \in RtlHf)
    BY <1>3, <1>4, <1>5, <1>6, <1>9 DEF Moves, Says
  <2>3. "centre" \in rtlMoved' \/ d.reg.centre = c.centre
    BY <1>3, <1>4, <1>5, <1>6, <1>8 DEF Moves, Says, InForce
  <2>4. "gain" \in rtlMoved' \/ d.reg.gain = c.gain
    BY <1>3, <1>4, <1>5, <1>6, <1>8 DEF Moves, Says, InForce
  <2>5. "ppm" \in rtlMoved' \/ d.reg.ppm = c.ppm
    BY <1>3, <1>4, <1>5, <1>6, <1>8 DEF Moves, Says, InForce
  <2> QED BY <2>1, <2>2, <2>3, <2>4, <2>5 DEF InForce
<1>11. "gain" \in rtlMoved' \/ d.drv.gain = c.gain
  BY <1>3, <1>4, <1>5, <1>6, <1>8 DEF Moves, Says
<1>12. "direct" \in rtlMoved' \/ d.reg.direct = d.drv.direct
  BY <1>3, <1>4, <1>6, <1>9 DEF Moves, Says
<1>13. (rtlStream' # None) = c.running
  <2>1. Rtl!NewStream # None
    <3>1. Rtl!NewStream \in Rtl!Streams
      BY NewStreamIsAccounted DEF RtlInv, Accounted
    <3> QED BY <3>1, RtlConstants
  <2>2. c.running \in BOOLEAN
    BY DEF Rtl!Config
  <2> QED BY <1>3, <2>1, <2>2 DEF Rtl!Resumed
<1>14. Rtl!AppliedIsHeld'
  <2>1. rtlApplied' # None => InForce(rtlApplied', rtlReg', rtlDrv', rtlMoved')
                              /\ ("stream" \in rtlMoved' \/ (rtlStream' # None) = rtlApplied'.running)
    BY <1>3, <1>10, <1>13
  <2> QED BY <2>1, PrimedHeldParts
<1> QED BY <1>3, <1>7, <1>11, <1>12, <1>14 DEF RtlInv

\* A tuner that did not lock: what may differ is noted in rtlMoved.
LEMMA RtlRefusedKeeps ==
    ASSUME RtlInv, NEW c \in Rtl!Config, NEW L, Rtl!ApplyRefused(c, L), RtlStreamInv'
    PROVE  RtlInv'
<1>1. PICK changed : changed = Rtl!Changed(rtlApplied, c, Rtl!Device)
  OBVIOUS
<1>2. PICK d : d = Rtl!Written(changed, c, L)
  OBVIOUS
<1>3. PICK gone \in BOOLEAN :
         /\ rtlReg' = d.reg /\ rtlDrv' = d.drv /\ rtlApplied' = rtlApplied
         /\ rtlStream' = Rtl!Refilled(IF gone THEN None ELSE rtlStream, d)
         /\ rtlMoved' = rtlMoved \cup changed \cup {"centre"} \cup (IF gone THEN {"stream"} ELSE {})
                                 \cup (IF "direct" \in changed THEN {"gain"} ELSE {})
  <2>1. PICK gone \in BOOLEAN : gone = ("rate" \in changed /\ d.reg.rate = c.rate /\ rtlStream # None)
    OBVIOUS
  <2> QED BY <1>1, <1>2, <2>1 DEF Rtl!ApplyRefused
<1>4. Rtl!Device.reg = rtlReg /\ Rtl!Device.drv = rtlDrv
  BY DEF Rtl!Device
<1>5. "direct" \in changed => (c.centre \in RtlHf) # rtlDrv.direct
  BY <1>1, <1>4, ChangedParts
<1>6. Moves(Rtl!Device, d, changed)
  BY <1>2, <1>5, AllWritten DEF RtlInv, RtlWrote
<1>7. d \in Dongles /\ Tuned(d) /\ Rtl!Device' \in Dongles /\ Tuned(Rtl!Device')
  <2>1. d \in Dongles /\ Tuned(d)
    BY <1>6 DEF Moves
  <2>2. [reg |-> d.reg, drv |-> d.drv, ok |-> TRUE] \in Dongles
    BY <2>1 DEF Dongles
  <2>3. Rtl!Device' = [reg |-> d.reg, drv |-> d.drv, ok |-> TRUE]
    BY <1>3 DEF Rtl!Device
  <2> QED BY <2>1, <2>2, <2>3 DEF Tuned
<1>8. rtlApplied # None =>
         /\ InForce(rtlApplied, rtlReg, rtlDrv, rtlMoved)
         /\ "gain" \in rtlMoved \/ rtlDrv.gain = rtlApplied.gain
         /\ "stream" \in rtlMoved \/ (rtlStream # None) = rtlApplied.running
  BY HeldParts DEF RtlInv
<1>9. "direct" \in rtlMoved \/ rtlReg.direct = rtlDrv.direct
  BY DEF RtlInv
<1>10. rtlApplied # None => InForce(rtlApplied, d.reg, d.drv, rtlMoved')
  BY <1>3, <1>4, <1>6, <1>8 DEF Moves, InForce
<1>11. rtlApplied # None => "gain" \in rtlMoved' \/ d.drv.gain = rtlApplied.gain
  BY <1>3, <1>4, <1>6, <1>8 DEF Moves
<1>12. "direct" \in rtlMoved' \/ d.reg.direct = d.drv.direct
  BY <1>3, <1>4, <1>6, <1>9 DEF Moves
<1>13. rtlApplied # None => "stream" \in rtlMoved' \/ (rtlStream' # None) = rtlApplied.running
  <2>1. CASE gone
    BY <1>3, <2>1
  <2>2. CASE ~gone
    <3>1. (rtlStream' = None) <=> (rtlStream = None)
      BY <1>3, <2>2, RefilledStays DEF RtlInv, RtlStreamInv
    <3> QED BY <1>3, <1>8, <3>1
  <2> QED BY <2>1, <2>2
<1>14. Rtl!AppliedIsHeld'
  <2>1. rtlApplied' # None => InForce(rtlApplied', rtlReg', rtlDrv', rtlMoved')
                              /\ ("stream" \in rtlMoved' \/ (rtlStream' # None) = rtlApplied'.running)
    BY <1>3, <1>10, <1>13
  <2> QED BY <2>1, PrimedHeldParts
<1> QED BY <1>3, <1>7, <1>11, <1>12, <1>14 DEF RtlInv

LEMMA RtlGoesOn == RtlInv /\ [Rtl!Next]_Rtl!vars => RtlInv'
<1> SUFFICES ASSUME RtlInv, [Rtl!Next]_Rtl!vars PROVE RtlInv'
  OBVIOUS
<1>0. RtlStreamInv'
  BY RtlStreamStep DEF RtlInv
<1>1. CASE UNCHANGED Rtl!vars
  BY <1>0, <1>1, RtlUntouched DEF Rtl!vars
<1>2. CASE Rtl!Open \/ Rtl!Unplug \/ Rtl!Replug
  BY <1>0, <1>2, RtlUntouched DEF Rtl!Open, Rtl!Unplug, Rtl!Replug
<1>3. CASE Rtl!Fill \/ Rtl!Fails \/ Rtl!Tells \/ Rtl!Poll \/ Rtl!PollFails
  <2>1. rtlStream \in Rtl!Streams
    BY <1>3 DEF RtlInv, RtlStreamInv, Rtl!Fill, Rtl!Fails, Rtl!Tells, Rtl!Poll, Rtl!PollFails, Rtl!Reading
  <2>2. /\ rtlReg' = rtlReg /\ rtlDrv' = rtlDrv /\ rtlApplied' = rtlApplied /\ rtlMoved' = rtlMoved
        /\ rtlStream # None
    BY <1>3, <2>1, RtlConstants DEF Rtl!Fill, Rtl!Fails, Rtl!Tells, Rtl!Poll, Rtl!PollFails
  <2>3. rtlStream' # None
    BY <1>3, ReaderIsAccounted, PollIsAccounted, PollFailsIsAccounted, RtlConstants DEF RtlInv
  <2> QED BY <1>0, <2>2, <2>3, RtlUntouched
<1>4. ASSUME NEW c \in Rtl!AskedConfigs, Rtl!ApplyFails(c) PROVE RtlInv'
  <2>1. CASE Rtl!Closed
    BY <1>0, <2>1, RtlClosedKeeps
  <2>2. CASE UNCHANGED <<rtlReg, rtlDrv, rtlApplied, rtlMoved, rtlStream>>
    BY <1>0, <2>2, RtlUntouched
  <2> QED BY <1>4, <2>1, <2>2 DEF Rtl!ApplyFails
<1>5. ASSUME NEW c \in Rtl!AskedConfigs, NEW L, Rtl!Apply(c, L) \/ Rtl!ApplyRefused(c, L) PROVE RtlInv'
  <2>1. c \in Rtl!Config
    BY DEF Rtl!AskedConfigs
  <2> QED BY <1>0, <1>5, <2>1, RtlApplyKeeps, RtlRefusedKeeps
<1> QED BY <1>1, <1>2, <1>3, <1>4, <1>5 DEF Rtl!Next

\* What the backends of the oscilloscope and the dongle say they applied
\* (apply() of neowon-vds1022 and neowon-sdr): both write differences only and
\* may be refused half way.  Auto-set probes and keep-alives move the first,
\* a retune, a change to direct sampling and a stream restart the second; still
\* the hardware holds every part of the configuration in force that no refused
\* one has moved.
THEOREM AppliedIsHeldHolds == Vds!Spec /\ Rtl!Spec => []AppliedIsHeld
<1>1. VdsInv /\ RtlInv => AppliedIsHeld
  BY DEF VdsInv, RtlInv, AppliedIsHeld
<1>2. Vds!Spec => []VdsInv
  BY VdsStarts, VdsGoesOn, PTL DEF Vds!Spec
<1>3. Rtl!Spec => []RtlInv
  BY RtlStarts, RtlGoesOn, PTL DEF Rtl!Spec
<1> QED BY <1>1, <1>2, <1>3, PTL

-----------------------------------------------------------------------------
(* The sound card's samples, from the proofs of its module.                *)
MicP == INSTANCE AudioInputProofs WITH
    Chunk <- MicChunk, MaxBuffered <- MicBuffered, Callbacks <- MicCallbacks,
    Configs <- MicConfigs, Channels <- MicChannels, Signals <- MicSignals, MaxMade <- MicSamples,
    device <- micDevice, shared <- micShared, made <- micMade, backend <- micBackend,
    frame <- micFrame, lost <- micLost, told <- micTold, hole <- micHole,
    panicked <- micPanicked

\* What is never lost untold (poll_frame() of neowon-sdr, the callbacks and
\* poll_frame() of neowon-audio): every chunk of the dongle is in a frame, or
\* declared by the next one; the sound card's clock counts every sample frame,
\* and what its bounded buffer throws away is declared by the frame after it.
THEOREM EveryChunkCountsHolds == Rtl!Spec /\ Mic!Spec => []EveryChunkCounts
<1>1. MicP!AudioAssumption
  BY PartsAssumption DEF Mic!AudioAssumption, MicP!AudioAssumption
<1>2. Mic!Init => MicP!Init
  BY DEF Mic!Init, MicP!Init, Mic!NoFrame, MicP!NoFrame
<1>3. [Mic!Next]_Mic!vars => [MicP!Next]_MicP!vars
  <2>1. ASSUME NEW n PROVE Mic!Push(n) <=> MicP!Push(n)
    BY DEF Mic!Push, MicP!Push, Mic!Cuts, MicP!Cuts, Mic!Overrun, MicP!Overrun, Mic!Without,
       MicP!Without
  <2>2. Mic!DrainRing <=> MicP!DrainRing
    BY DEF Mic!DrainRing, MicP!DrainRing
  <2>3. Mic!Drained = MicP!Drained
    BY DEF Mic!Drained, MicP!Drained, Mic!Lose, MicP!Lose
  <2>4. ASSUME NEW b PROVE Mic!Poll(b) <=> MicP!Poll(b)
    BY DEF Mic!Poll, MicP!Poll, Mic!Waiting, MicP!Waiting, Mic!Edges, MicP!Edges, Mic!Above,
       MicP!Above, Mic!Starved, MicP!Starved, Mic!Starts, MicP!Starts, Mic!Taken, MicP!Taken,
       Mic!Lose, MicP!Lose, Mic!Without, MicP!Without
  <2>5. Mic!PollFrame <=> MicP!PollFrame
    BY <2>2, <2>3, <2>4 DEF Mic!PollFrame, MicP!PollFrame
  <2>6. ASSUME NEW cfg PROVE Mic!Apply(cfg) <=> MicP!Apply(cfg)
    BY DEF Mic!Apply, MicP!Apply
  <2>7. Mic!vars = MicP!vars /\ Mic!vars' = MicP!vars'
    BY DEF Mic!vars, MicP!vars
  <2>8. Mic!Next <=> MicP!Next
    BY <2>1, <2>5, <2>6 DEF Mic!Next, MicP!Next
  <2> QED BY <2>7, <2>8
<1>4. Mic!Spec => MicP!Spec
  BY <1>2, <1>3, PTL DEF Mic!Spec, MicP!Spec
<1>5. /\ MicP!Spec => []MicP!ClockIsKept
      /\ MicP!Spec => []MicP!LossIsTold
      /\ MicP!Spec => []MicP!StampedAfterHole
      /\ MicP!Spec => []MicP!StampsAdvance
  BY <1>1, MicP!ClockHolds, MicP!LossHolds, MicP!StampHolds, MicP!AdvanceHolds
<1>6. MicP!ClockIsKept /\ MicP!LossIsTold /\ MicP!StampedAfterHole /\ MicP!StampsAdvance
      => Mic!ClockIsKept /\ Mic!LossIsTold /\ Mic!StampedAfterHole /\ Mic!StampsAdvance
  BY DEF Mic!ClockIsKept, MicP!ClockIsKept, Mic!LossIsTold, MicP!LossIsTold, Mic!StampedAfterHole,
     MicP!StampedAfterHole, Mic!StampsAdvance, MicP!StampsAdvance
<1>7. /\ Rtl!EveryChunkCounts
      /\ Mic!ClockIsKept /\ Mic!LossIsTold /\ Mic!StampedAfterHole /\ Mic!StampsAdvance
      => EveryChunkCounts
  BY DEF EveryChunkCounts
<1> QED BY <1>4, <1>5, <1>6, <1>7, EveryChunkHolds, PTL
-----------------------------------------------------------------------------
(* DAB playback.                                                           *)

PlayTypes ==
    /\ playRx \in Play!Receivers \cup {None}
    /\ playService \in PlayServices \cup {None}
    /\ playAudio \in Play!Workers \cup {None}
    /\ playDemod \in PlayModes \cup {None}
    /\ playSink \in Seq(PlayServices \cup PlayModes)
    /\ playSeam \in Nat

\* Whose block the device may hold: what plays, or else what is demodulated.
Speaker == IF playAudio # None THEN playAudio.sid ELSE playDemod

SpeaksFor(sink, by) == \A k \in 1..Len(sink) : sink[k] = by

PlayInv ==
    PlayTypes /\ PlaysTheSelection /\ SpeaksFor(playSink, Speaker)

\* None is no worker, no receiver, and neither a service nor a mode.
LEMMA NoneIsNone ==
    /\ None \notin Play!Workers /\ None \notin Play!Receivers
    /\ None \notin PlayServices /\ None \notin PlayModes
    /\ JobCap \in Nat /\ OutCap \in Nat /\ SinkCap \in Nat /\ Prime \in Nat /\ WarmUp \in Nat
  BY PartsAssumption DEF Play!PlaybackAssumption

\* The device's queue has one speaker's blocks: OneVoice.
LEMMA SpeakerIsOne ==
    ASSUME PlayTypes, SpeaksFor(playSink, Speaker)
    PROVE  OneVoice
  BY NoneIsNone DEF PlayTypes, SpeaksFor, Speaker, OneVoice, Play!OneVoice, Play!AudioOwner

\* Blocks of one speaker more, the oldest beyond the queue's depth dropped.
LEMMA PushedSpeaks ==
    ASSUME NEW S, playSink \in Seq(S), NEW by \in S, SpeaksFor(playSink, by), NEW n \in Nat
    PROVE  Play!Pushed(n, by) \in Seq(S) /\ SpeaksFor(Play!Pushed(n, by), by)
<1> DEFINE more == [k \in 1..n |-> by]
           all  == playSink \o more
<1>1. more \in Seq(S) /\ Len(more) = n /\ \A k \in 1..n : more[k] = by
  OBVIOUS
<1>2. all \in Seq(S) /\ Len(all) = Len(playSink) + n
  BY <1>1
<1>3. \A k \in 1..Len(all) : all[k] = by
  BY <1>1, <1>2 DEF SpeaksFor
<1> HIDE DEF all
<1>4. PICK from \in 1..(Len(all) + 1) : Play!Pushed(n, by) = SubSeq(all, from, Len(all))
  <2>1. (IF Len(all) > SinkCap THEN Len(all) - SinkCap + 1 ELSE 1) \in 1..(Len(all) + 1)
    BY <1>2, NoneIsNone
  <2> QED BY <2>1 DEF Play!Pushed, all
<1>5. SubSeq(all, from, Len(all)) \in Seq(S)
  BY <1>2, <1>4
<1>6. Len(SubSeq(all, from, Len(all))) = Len(all) - from + 1
      /\ \A k \in 1..(Len(all) - from + 1) : SubSeq(all, from, Len(all))[k] = all[from + k - 1]
  BY <1>2, <1>4
<1> QED BY <1>3, <1>4, <1>5, <1>6, <1>2 DEF SpeaksFor

\* A logical frame for a worker that is there.
LEMMA SentIsWorker ==
    ASSUME NEW w \in Play!Workers, NEW job \in Play!Jobs
    PROVE  Play!Sent(w, job) \in Play!Workers /\ Play!Sent(w, job).sid = w.sid
  BY DEF Play!Sent, Play!Workers

\* What a chunk leaves of the worker: the same service's.
LEMMA HandedIsWorker ==
    ASSUME PlayTypes, playSeam' \in Nat, NEW spliced \in BOOLEAN, playAudio # None
    PROVE  Play!Handed(spliced) \in Play!Workers /\ Play!Handed(spliced).sid = playAudio.sid
<1>1. Play!Job(TRUE) \in Play!Jobs /\ Play!Job(FALSE) \in Play!Jobs
  BY DEF Play!Job, Play!Jobs
<1>2. playAudio \in Play!Workers
  BY DEF PlayTypes
<1>3. Play!Sent(playAudio, Play!Job(TRUE)) \in Play!Workers
      /\ Play!Sent(playAudio, Play!Job(TRUE)).sid = playAudio.sid
  BY <1>1, <1>2, SentIsWorker
<1>4. CASE spliced
  BY <1>1, <1>3, <1>4, SentIsWorker DEF Play!Handed
<1>5. CASE ~spliced
  BY <1>1, <1>2, <1>5, SentIsWorker DEF Play!Handed
<1> QED BY <1>4, <1>5

\* A decoded frame held back or delivered.
LEMMA EmittedIsWorker ==
    ASSUME NEW w \in Play!Workers
    PROVE  Play!Emitted(w) \in Play!Workers /\ Play!Emitted(w).sid = w.sid
<1>1. \A n \in Nat, v \in Play!Workers :
          Play!Delivered(v, n) \in Play!Workers /\ Play!Delivered(v, n).sid = v.sid
  <2> TAKE n \in Nat, v \in Play!Workers
  <2> DEFINE held == IF v.out + n > OutCap THEN OutCap ELSE v.out + n
             fuller == [v EXCEPT !.out = held]
  <2>1. held \in Nat
    BY NoneIsNone DEF Play!Workers
  <2> HIDE DEF held
  <2>2. fuller \in Play!Workers /\ fuller.sid = v.sid /\ fuller.stream \in Play!Streams
    BY <2>1 DEF Play!Workers
  <2> HIDE DEF fuller
  <2>3. Play!Delivered(v, n) = [fuller EXCEPT !.stream = [fuller.stream EXCEPT !.state = "playing"]]
    BY DEF Play!Delivered, fuller, held, Play!Workers
  <2>4. [fuller.stream EXCEPT !.state = "playing"] \in Play!Streams
    BY <2>2 DEF Play!Streams
  <2> QED BY <2>2, <2>3, <2>4 DEF Play!Workers
<1>2. [w EXCEPT !.stream.held = 0, !.stream.primed = TRUE] \in Play!Workers
      /\ [w EXCEPT !.stream.held = 0, !.stream.primed = TRUE].sid = w.sid
  BY DEF Play!Workers, Play!Streams
<1>3. [w EXCEPT !.stream.held = @ + 1] \in Play!Workers
      /\ [w EXCEPT !.stream.held = @ + 1].sid = w.sid
  BY DEF Play!Workers, Play!Streams
<1> QED BY <1>1, <1>2, <1>3, NoneIsNone DEF Play!Emitted

\* One job done: the same service's worker.
LEMMA DoneIsWorker ==
    ASSUME NEW w \in Play!Workers, NEW tag \in Nat, NEW outcome
    PROVE  Play!FrameDone(w, tag, outcome) \in Play!Workers
           /\ Play!FrameDone(w, tag, outcome).sid = w.sid
<1> DEFINE fed == [w EXCEPT !.stream.memory = @ \cup {tag}]
<1>1. fed \in Play!Workers /\ fed.sid = w.sid
  BY DEF Play!Workers, Play!Streams
<1> HIDE DEF fed
<1>2. [fed EXCEPT !.stream.decoded = TRUE] \in Play!Workers
      /\ [fed EXCEPT !.stream.decoded = TRUE].sid = w.sid
  BY <1>1 DEF Play!Workers, Play!Streams
<1>3. [fed EXCEPT !.stream.state = "error"] \in Play!Workers
      /\ [fed EXCEPT !.stream.state = "error"].sid = w.sid
  BY <1>1 DEF Play!Workers, Play!Streams
<1>4. Play!Emitted([fed EXCEPT !.stream.decoded = TRUE]) \in Play!Workers
      /\ Play!Emitted([fed EXCEPT !.stream.decoded = TRUE]).sid = w.sid
  BY <1>2, EmittedIsWorker
<1> QED BY <1>1, <1>3, <1>4 DEF Play!FrameDone, fed

\* The first connection has nothing selected, and nothing in the queue.
LEMMA PlayStarts == Play!Init => PlayInv
  BY NoneIsNone
  DEF Play!Init, PlayInv, PlayTypes, PlaysTheSelection, Play!PlaysTheSelection, SpeaksFor, Speaker

\* Every step of the app, the worker and the device keeps it.
LEMMA PlayGoesOn == PlayInv /\ [Play!Next]_Play!vars => PlayInv'
<1> SUFFICES ASSUME PlayInv, [Play!Next]_Play!vars
             PROVE  PlayInv'
  OBVIOUS
<1> USE NoneIsNone
<1>t. PlayTypes /\ Play!PlaysTheSelection /\ SpeaksFor(playSink, Speaker)
  BY DEF PlayInv, PlaysTheSelection
<1>s. playAudio # None => playAudio \in Play!Workers /\ playService = playAudio.sid /\ playService # None
  BY <1>t DEF PlayTypes, Play!PlaysTheSelection, Play!Workers
<1>e. <<>> \in Seq(PlayServices \cup PlayModes) /\ \A by : SpeaksFor(<<>>, by)
  BY DEF SpeaksFor
<1>w. \A sid \in PlayServices : Play!Worker(sid) \in Play!Workers /\ Play!Worker(sid).sid = sid
  BY DEF Play!Worker, Play!Workers, Play!FreshStream, Play!Streams
<1>1. ASSUME NEW spliced \in BOOLEAN, NEW locked \in BOOLEAN, NEW table \in BOOLEAN,
             Play!Feed(spliced, locked, table)
      PROVE  PlayInv'
  <2>1. playSeam' \in Nat
    BY <1>1, <1>t DEF Play!Feed, PlayTypes
  <2>2. playRx' \in Play!Receivers /\ playRx'.locked = locked
    BY <1>1, <1>t DEF Play!Feed, PlayTypes, Play!Receivers
  <2>3. playDemod' = playDemod
    BY <1>1 DEF Play!Feed
  <2>4. CASE ~locked /\ playService # None
    <3>1. playAudio' = None /\ playService' = None
          /\ playSink' = IF playAudio # None THEN <<>> ELSE playSink
      BY <1>1, <2>4 DEF Play!Feed, Play!ForgetSelection, Play!StopPlayback
    <3>2. playSink' \in Seq(PlayServices \cup PlayModes) /\ SpeaksFor(playSink', playDemod)
      BY <3>1, <1>e, <1>t DEF PlayTypes, Speaker
    <3> QED BY <1>t, <2>1, <2>2, <2>3, <3>1, <3>2
            DEF PlayInv, PlayTypes, PlaysTheSelection, Play!PlaysTheSelection, Play!Locked, Speaker
  <2>5. CASE ~(~locked /\ playService # None)
    <3>1. playSink' = playSink /\ playService' = playService
          /\ playAudio' \in {playAudio, Play!Handed(spliced)}
      BY <1>1, <2>5 DEF Play!Feed
    <3>2. playAudio = None => playAudio' = None
      BY <3>1 DEF Play!Handed
    <3>3. playAudio # None => playAudio' \in Play!Workers /\ playAudio'.sid = playAudio.sid
      BY <1>s, <1>t, <2>1, <3>1, HandedIsWorker
    <3>4. Speaker' = Speaker
      BY <2>3, <3>2, <3>3 DEF Speaker
    <3> QED BY <1>s, <1>t, <2>1, <2>2, <2>3, <2>5, <3>1, <3>2, <3>3, <3>4
            DEF PlayInv, PlayTypes, PlaysTheSelection, Play!PlaysTheSelection, Play!Locked
  <2> QED BY <2>4, <2>5
<1>2. CASE Play!WorkerStep
  <2>1. PICK outcome : \E job, rest :
            /\ playAudio # None /\ playAudio.jobs # <<>>
            /\ job = Head(playAudio.jobs) /\ rest = [playAudio EXCEPT !.jobs = Tail(@)]
            /\ playAudio' = CASE job.reset -> [rest EXCEPT !.stream = Play!FreshStream]
                              [] ~job.reset /\ rest.stream.state = "error" -> rest
                              [] OTHER -> Play!FrameDone(rest, job.seam, outcome)
            /\ UNCHANGED <<playRx, playService, playDemod, playSink, playGone, playSeam>>
    BY <1>2 DEF Play!WorkerStep
  <2>2. PICK job, rest :
            /\ playAudio # None /\ playAudio.jobs # <<>>
            /\ job = Head(playAudio.jobs) /\ rest = [playAudio EXCEPT !.jobs = Tail(@)]
            /\ playAudio' = CASE job.reset -> [rest EXCEPT !.stream = Play!FreshStream]
                              [] ~job.reset /\ rest.stream.state = "error" -> rest
                              [] OTHER -> Play!FrameDone(rest, job.seam, outcome)
            /\ UNCHANGED <<playRx, playService, playDemod, playSink, playGone, playSeam>>
    BY <2>1
  <2>3. playAudio.jobs \in Seq(Play!Jobs)
    BY <1>s, <2>2 DEF Play!Workers
  <2>4. job \in Play!Jobs /\ Tail(playAudio.jobs) \in Seq(Play!Jobs)
    BY <2>2, <2>3
  <2>5. rest \in Play!Workers /\ rest.sid = playAudio.sid
    BY <1>s, <2>2, <2>4 DEF Play!Workers
  <2>6. [rest EXCEPT !.stream = Play!FreshStream] \in Play!Workers
        /\ [rest EXCEPT !.stream = Play!FreshStream].sid = rest.sid
    BY <2>5 DEF Play!Workers, Play!FreshStream, Play!Streams
  <2>7. Play!FrameDone(rest, job.seam, outcome) \in Play!Workers
        /\ Play!FrameDone(rest, job.seam, outcome).sid = rest.sid
    BY <2>4, <2>5, DoneIsWorker DEF Play!Jobs
  <2>8. playAudio' \in Play!Workers /\ playAudio'.sid = playAudio.sid
    BY <2>2, <2>5, <2>6, <2>7
  <2>9. Speaker' = Speaker
    BY <2>2, <2>8 DEF Speaker
  <2> QED BY <1>t, <2>2, <2>8, <2>9
          DEF PlayInv, PlayTypes, PlaysTheSelection, Play!PlaysTheSelection, Play!Locked
<1>3. CASE Play!Drain
  <2>1. /\ playAudio # None /\ playSink' = Play!Pushed(playAudio.out, playAudio.sid)
        /\ playAudio' = [playAudio EXCEPT !.out = 0]
        /\ UNCHANGED <<playRx, playService, playDemod, playGone, playSeam>>
    BY <1>3 DEF Play!Drain
  <2>2. playAudio' \in Play!Workers /\ playAudio'.sid = playAudio.sid
        /\ playAudio.out \in Nat /\ playAudio.sid \in PlayServices
    BY <1>s, <2>1 DEF Play!Workers
  <2>3. playSink' \in Seq(PlayServices \cup PlayModes) /\ SpeaksFor(playSink', playAudio.sid)
    BY <1>t, <2>1, <2>2, PushedSpeaks DEF PlayTypes, Speaker
  <2> QED BY <1>t, <2>1, <2>2, <2>3
          DEF PlayInv, PlayTypes, PlaysTheSelection, Play!PlaysTheSelection, Play!Locked, Speaker
<1>4. CASE Play!Demodulate
  <2>1. /\ playDemod \in PlayModes
        /\ playSink' = IF playAudio = None THEN Play!Pushed(1, playDemod) ELSE playSink
        /\ UNCHANGED <<playRx, playService, playAudio, playDemod, playGone, playSeam>>
    BY <1>4, <1>t DEF Play!Demodulate, Play!AudioOwner, PlayTypes
  <2>2. CASE playAudio = None
    <3>1. playSink' \in Seq(PlayServices \cup PlayModes) /\ SpeaksFor(playSink', playDemod)
      BY <1>t, <2>1, <2>2, PushedSpeaks DEF PlayTypes, Speaker
    <3> QED BY <1>t, <2>1, <2>2, <3>1
            DEF PlayInv, PlayTypes, PlaysTheSelection, Play!PlaysTheSelection, Play!Locked, Speaker
  <2>3. CASE playAudio # None
    BY <1>t, <2>1, <2>3
    DEF PlayInv, PlayTypes, PlaysTheSelection, Play!PlaysTheSelection, Play!Locked, Speaker
  <2> QED BY <2>2, <2>3
<1>5. CASE Play!DevicePlays
  <2>1. playSink # <<>> /\ playSink' = Tail(playSink)
        /\ UNCHANGED <<playRx, playService, playAudio, playDemod, playGone, playSeam>>
    BY <1>5 DEF Play!DevicePlays
  <2>2. playSink' \in Seq(PlayServices \cup PlayModes) /\ SpeaksFor(playSink', Speaker)
    BY <1>t, <2>1 DEF PlayTypes, SpeaksFor
  <2> QED BY <1>t, <2>1, <2>2
          DEF PlayInv, PlayTypes, PlaysTheSelection, Play!PlaysTheSelection, Play!Locked, Speaker
<1>6. ASSUME NEW s \in PlayServices, Play!SelectService(s)
      PROVE  PlayInv'
  <2>1. /\ Play!Locked /\ playService' = s
        /\ playAudio = None => playAudio' = None /\ playSink' = playSink
        /\ playAudio # None => playAudio' \in {None, Play!Worker(s)} /\ playSink' = <<>>
        /\ UNCHANGED <<playRx, playDemod, playGone, playSeam>>
    BY <1>6 DEF Play!SelectService
  <2> QED BY <1>t, <1>e, <1>w, <2>1
          DEF PlayInv, PlayTypes, PlaysTheSelection, Play!PlaysTheSelection, Play!Locked, Speaker
<1>7. CASE Play!Play
  BY <1>7, <1>t, <1>e, <1>w
  DEF Play!Play, PlayInv, PlayTypes, PlaysTheSelection, Play!PlaysTheSelection, Play!Locked, Speaker
<1>8. CASE Play!Stop
  BY <1>8, <1>t, <1>e
  DEF Play!Stop, Play!StopPlayback, PlayInv, PlayTypes, PlaysTheSelection, Play!PlaysTheSelection,
      Play!Locked, Speaker
<1>f. Play!FreshRx \in Play!Receivers
  BY DEF Play!FreshRx, Play!Receivers
<1>9. ASSUME NEW on \in {"keep", "on", "off"}, Play!DabReset(on)
      PROVE  PlayInv'
  <2>1. playRx' \in {None, Play!FreshRx}
    BY <1>9 DEF Play!DabReset
  <2> QED BY <1>9, <1>t, <1>e, <1>f, <2>1
          DEF Play!DabReset, Play!StopPlayback, PlayInv, PlayTypes, PlaysTheSelection,
              Play!PlaysTheSelection, Play!Locked, Speaker
<1>10. CASE Play!DabNoInput
  BY <1>10, <1>t, <1>e, <1>f
  DEF Play!DabNoInput, Play!StopPlayback, PlayInv, PlayTypes, PlaysTheSelection,
      Play!PlaysTheSelection, Play!Locked, Speaker
<1>11. ASSUME NEW mode \in PlayModes \cup {None}, Play!Demod(mode)
       PROVE  PlayInv'
  BY <1>11, <1>t, <1>e
  DEF Play!Demod, PlayInv, PlayTypes, PlaysTheSelection, Play!PlaysTheSelection, Play!Locked, Speaker
<1>12. CASE UNCHANGED Play!vars
  BY <1>12, <1>t
  DEF Play!vars, PlayInv, PlayTypes, PlaysTheSelection, Play!PlaysTheSelection, Play!Locked, Speaker
<1> QED BY <1>1, <1>2, <1>3, <1>4, <1>5, <1>6, <1>7, <1>8, <1>9, <1>10, <1>11, <1>12 DEF Play!Next

\* DAB playback (sdr/dab.rs, dab_audio): whatever the receiver, the operator
\* and the worker do, everything queued at the device was made by the service
\* that plays or the mode that is demodulated.
THEOREM OneVoiceHolds == Play!Spec => []OneVoice
<1>1. PlayInv => OneVoice
  BY SpeakerIsOne DEF PlayInv
<1> QED BY <1>1, PlayStarts, PlayGoesOn, PTL DEF Play!Spec

\* What plays is what is selected, and nothing is selected without a lock:
\* no path that loses the table, the input or the instrument leaves a worker
\* playing a service of it.
THEOREM PlaysTheSelectionHolds == Play!Spec => []PlaysTheSelection
<1>1. PlayInv => PlaysTheSelection
  BY DEF PlayInv
<1> QED BY <1>1, PlayStarts, PlayGoesOn, PTL DEF Play!Spec

-----------------------------------------------------------------------------
(* The survey.                                                             *)

\* What a survey knows when its next step may still be a skipped one.
Told(s) ==
    /\ s \in Scan!Survey /\ Len(s.coverage) = s.step - 1
    /\ \A k \in 1..(s.step - 1) : s.coverage[k] = [step |-> k, scanned |-> k \notin Skipped]
    /\ \A k \in 1..(s.step - 1) : (k \notin Skipped) = (\E at \in 0..Steps : <<k, at>> \in s.used)
    /\ \A k \in 1..Steps, at \in 0..Steps : k >= s.step => <<k, at>> \notin s.used

Good(s) == Told(s) /\ (s.step <= Steps => s.step \notin Skipped)

ScanTypes ==
    /\ scanCentre \in Scan!Centres /\ scanHardware \in Scan!Centres
    /\ scanPending \in Scan!Centres \cup {None} /\ scanPolling \in Scan!Centres \cup {None}
    /\ scanEvents \in Seq(Scan!Centres)
    /\ scanSurveys \in Seq(Scan!Survey)

Surveying ==
    /\ scanSurvey # None => Good(scanSurvey) /\ scanSurvey.step <= Steps
    /\ \A k \in 1..Len(scanSurveys) : Good(scanSurveys[k])

ScanInv == ScanTypes /\ Surveying

LEMMA PlanIs ==
    /\ Steps \in Nat /\ Steps # 0 /\ Skipped \subseteq 1..Steps /\ SettleFrames \in Nat
    /\ DwellFrames \in Nat /\ DwellFrames # 0
    /\ None \notin Scan!Centres /\ None \notin Scan!Survey
  BY PartsAssumption DEF Scan!SurveyAssumption

\* A set of naturals has a least element.
LEMMA NatMin ==
    ASSUME NEW S \in SUBSET Nat, S # {}
    PROVE  \E x \in S : \A y \in S : x <= y
<1>1. IsWellFoundedOn(OpToRel(<, Nat), Nat)
  BY NatLessThanWellFounded
<1>2. PICK x \in S : \A y \in S : ~ (<<y, x>> \in OpToRel(<, Nat))
  BY <1>1, WFMin, Zenon
<1>3. \A y \in S : ~ (y < x)
  BY <1>2 DEF OpToRel
<1> QED BY <1>3

\* From every step on there is a first one that is not skipped, at the latest
\* behind the last.
LEMMA NextStep ==
    ASSUME NEW from \in 1..(Steps + 1)
    PROVE  \E n \in from..(Steps + 1) : n \notin Skipped /\ \A m \in from..(n - 1) : m \in Skipped
<1> DEFINE N == {n \in from..(Steps + 1) : n \notin Skipped}
<1>1. Steps + 1 \in N
  BY PlanIs
<1>2. N \in SUBSET Nat
  BY PlanIs
<1>3. PICK n \in N : \A y \in N : n <= y
  BY <1>1, <1>2, NatMin
<1>4. ASSUME NEW m \in from..(n - 1), m \notin Skipped PROVE FALSE
  BY <1>2, <1>3, <1>4, PlanIs
<1> QED BY <1>3, <1>4

\* A function on 1..n is a sequence.
LEMMA FunctionIsSeq ==
    ASSUME NEW S, NEW n \in Nat, NEW f \in [1..n -> S]
    PROVE  f \in Seq(S) /\ Len(f) = n
  OBVIOUS

\* Two sequences, one behind the other.
LEMMA JoinedIs ==
    ASSUME NEW S, NEW a \in Seq(S), NEW b \in Seq(S)
    PROVE  /\ a \o b \in Seq(S) /\ Len(a \o b) = Len(a) + Len(b)
           /\ \A k \in 1..Len(a) : (a \o b)[k] = a[k]
           /\ \A k \in (Len(a) + 1)..(Len(a) + Len(b)) : (a \o b)[k] = b[k - Len(a)]
  OBVIOUS

\* Passing over skipped steps covers them, unscanned, and ends where one is to
\* be scanned, or behind the plan.
LEMMA SkipsUnscanned ==
    ASSUME NEW s, Told(s)
    PROVE  Good(Scan!SkipUnscanned(s)) /\ Scan!SkipUnscanned(s).step >= s.step
<1> USE PlanIs
<1> DEFINE P(n) == n \notin Skipped /\ \A m \in s.step..(n - 1) : m \in Skipped
           next == CHOOSE n \in s.step..(Steps + 1) : P(n)
           more == [k \in 1..(next - s.step) |-> [step |-> s.step + k - 1, scanned |-> FALSE]]
           t == Scan!SkipUnscanned(s)
<1>1. s \in Scan!Survey /\ s.step \in 1..(Steps + 1)
  BY DEF Told, Scan!Survey
<1>2. next \in s.step..(Steps + 1) /\ P(next)
  <2>1. \E n \in s.step..(Steps + 1) : P(n)
    BY <1>1, NextStep
  <2> QED BY <2>1
<1>3. t = [s EXCEPT !.step = next, !.coverage = s.coverage \o more]
  BY <1>1 DEF Scan!SkipUnscanned, Scan!Survey
<1>n. s.step \in Nat /\ next \in Nat /\ next >= s.step /\ next <= Steps + 1 /\ next - s.step \in Nat
  BY <1>1, <1>2
<1>p. next \notin Skipped /\ \A m \in s.step..(next - 1) : m \in Skipped
  BY <1>2
<1> HIDE DEF next, t
<1>4. /\ more \in Seq([step : 1..Steps, scanned : BOOLEAN]) /\ Len(more) = next - s.step
      /\ \A k \in 1..(next - s.step) : more[k] = [step |-> s.step + k - 1, scanned |-> FALSE]
  <2>1. \A k \in 1..(next - s.step) : s.step + k - 1 \in 1..Steps
    BY <1>n, <1>1
  <2>2. PICK n : n = next - s.step /\ n \in Nat
    BY <1>n
  <2>3. more \in [1..n -> [step : 1..Steps, scanned : BOOLEAN]]
    BY <2>1, <2>2
  <2>4. \A k \in 1..(next - s.step) : more[k] = [step |-> s.step + k - 1, scanned |-> FALSE]
    OBVIOUS
  <2> HIDE DEF more
  <2> QED BY <2>2, <2>3, <2>4, FunctionIsSeq
<1> HIDE DEF more
<1>5. /\ s.coverage \in Seq([step : 1..Steps, scanned : BOOLEAN]) /\ Len(s.coverage) = s.step - 1
      /\ \A k \in 1..(s.step - 1) : s.coverage[k] = [step |-> k, scanned |-> k \notin Skipped]
  BY DEF Told, Scan!Survey
<1>6. PICK cov : cov = s.coverage \o more
  OBVIOUS
<1>7. /\ cov \in Seq([step : 1..Steps, scanned : BOOLEAN]) /\ Len(cov) = next - 1
      /\ \A k \in 1..(s.step - 1) : cov[k] = s.coverage[k]
      /\ \A k \in s.step..(next - 1) : cov[k] = more[k - (s.step - 1)]
  <2>1. /\ cov \in Seq([step : 1..Steps, scanned : BOOLEAN])
        /\ Len(cov) = (s.step - 1) + (next - s.step)
        /\ \A k \in 1..(s.step - 1) : cov[k] = s.coverage[k]
        /\ \A k \in ((s.step - 1) + 1)..((s.step - 1) + (next - s.step)) : cov[k] = more[k - (s.step - 1)]
    <3>1. /\ s.coverage \o more \in Seq([step : 1..Steps, scanned : BOOLEAN])
          /\ Len(s.coverage \o more) = Len(s.coverage) + Len(more)
          /\ \A k \in 1..Len(s.coverage) : (s.coverage \o more)[k] = s.coverage[k]
          /\ \A k \in (Len(s.coverage) + 1)..(Len(s.coverage) + Len(more)) :
                (s.coverage \o more)[k] = more[k - Len(s.coverage)]
      <4>1. PICK S : S = [step : 1..Steps, scanned : BOOLEAN]
        OBVIOUS
      <4>2. s.coverage \in Seq(S) /\ more \in Seq(S)
        BY <1>4, <1>5, <4>1
      <4>3. PICK a, b : a = s.coverage /\ b = more
        OBVIOUS
      <4>4. /\ a \o b \in Seq(S) /\ Len(a \o b) = Len(a) + Len(b)
            /\ \A k \in 1..Len(a) : (a \o b)[k] = a[k]
            /\ \A k \in (Len(a) + 1)..(Len(a) + Len(b)) : (a \o b)[k] = b[k - Len(a)]
        BY <4>2, <4>3, JoinedIs
      <4> QED BY <4>1, <4>3, <4>4
    <3>2. Len(s.coverage) = s.step - 1 /\ Len(more) = next - s.step
      BY <1>4, <1>5
    <3> QED BY <1>6, <3>1, <3>2
  <2>2. (s.step - 1) + (next - s.step) = next - 1 /\ (s.step - 1) + 1 = s.step
    BY <1>n
  <2> QED BY <2>1, <2>2
<1>8. ASSUME NEW k \in 1..(next - 1)
      PROVE  cov[k] = [step |-> k, scanned |-> k \notin Skipped]
  <2>1. CASE k < s.step
    <3>1. k \in 1..(s.step - 1)
      BY <2>1, <1>n
    <3> QED BY <3>1, <1>5, <1>7
  <2>2. CASE k >= s.step
    <3>1. k \in s.step..(next - 1) /\ k - (s.step - 1) \in 1..(next - s.step)
          /\ s.step + (k - (s.step - 1)) - 1 = k
      BY <2>2, <1>n
    <3>2. cov[k] = [step |-> k, scanned |-> FALSE]
      BY <3>1, <1>4, <1>7
    <3>3. k \in Skipped
      BY <3>1, <1>p
    <3> QED BY <3>2, <3>3
  <2> QED BY <2>1, <2>2, <1>n
<1>9. /\ t \in Scan!Survey /\ t.step = next /\ t.coverage = cov /\ t.used = s.used
  <2>1. next \in 1..(Steps + 1)
    BY <1>1, <1>n
  <2> QED BY <1>1, <1>3, <1>6, <1>7, <2>1 DEF Scan!Survey
<1>10. /\ \A k \in 1..(s.step - 1) : (k \notin Skipped) = (\E at \in 0..Steps : <<k, at>> \in s.used)
       /\ \A k \in 1..Steps, at \in 0..Steps : k >= s.step => <<k, at>> \notin s.used
  BY DEF Told
<1>11. ASSUME NEW k \in 1..(next - 1)
       PROVE  (k \notin Skipped) = (\E at \in 0..Steps : <<k, at>> \in s.used)
  <2>1. CASE k < s.step
    <3>1. k \in 1..(s.step - 1)
      BY <2>1, <1>n
    <3> QED BY <3>1, <1>10
  <2>2. CASE k >= s.step
    <3>1. k \in s.step..(next - 1) /\ k \in 1..Steps
      BY <2>2, <1>n
    <3> QED BY <3>1, <2>2, <1>10, <1>p
  <2>3. k < s.step \/ k >= s.step
    BY <1>n
  <2> QED BY <2>1, <2>2, <2>3
<1>12. \A k \in 1..Steps, at \in 0..Steps : k >= next => <<k, at>> \notin s.used
  BY <1>10, <1>n
<1> QED BY <1>7, <1>8, <1>9, <1>11, <1>12, <1>n, <1>p DEF Good, Told, t

\* A survey starts at the first step that is not skipped.
LEMMA StartsGood == Good(Scan!NewSurvey)
<1> DEFINE s == [step |-> 1, seen |-> 0, kept |-> <<>>, coverage |-> <<>>, used |-> {}]
<1>1. s \in Scan!Survey
  BY PlanIs DEF Scan!Survey, Scan!Centres
<1>2. Told(s)
  BY <1>1, PlanIs DEF Told
<1> QED BY <1>2, SkipsUnscanned DEF Scan!NewSurvey

\* Closing a step whose frames were kept scans it, and goes on.
LEMMA ClosesGood ==
    ASSUME NEW s, Good(s), s.step <= Steps, Len(s.kept) > 0
    PROVE  Good(Scan!CloseStep(s)) /\ Scan!CloseStep(s).step > s.step
<1> USE PlanIs
<1>1. /\ s \in Scan!Survey /\ s.step \in 1..Steps /\ s.step \notin Skipped /\ Told(s)
      /\ s.kept \in Seq(0..Steps) /\ s.kept[1] \in 0..Steps
      /\ s.coverage \in Seq([step : 1..Steps, scanned : BOOLEAN])
      /\ s.used \in SUBSET ((1..Steps) \X (0..Steps))
  <2>1. s \in Scan!Survey /\ s.step \notin Skipped /\ Told(s)
    BY DEF Good, Told
  <2>2. s.step \in 1..(Steps + 1) /\ s.kept \in Seq(0..Steps)
        /\ s.coverage \in Seq([step : 1..Steps, scanned : BOOLEAN])
        /\ s.used \in SUBSET ((1..Steps) \X (0..Steps))
    BY <2>1 DEF Scan!Survey, Scan!Centres
  <2> QED BY <2>1, <2>2
<1> DEFINE entry == [step |-> s.step, scanned |-> TRUE]
           kept == Scan!ToSet(s.kept)
           t == [s EXCEPT !.coverage = Append(s.coverage, entry),
                          !.used = s.used \cup {<<s.step, at>> : at \in kept},
                          !.kept = <<>>, !.seen = 0, !.step = s.step + 1]
<1>2. Scan!CloseStep(s) = Scan!SkipUnscanned(t)
  BY <1>1 DEF Scan!CloseStep, Scan!Survey
<1>3. s.kept[1] \in kept /\ kept \subseteq 0..Steps
  BY <1>1 DEF Scan!ToSet
<1>4. PICK cov : cov = Append(s.coverage, entry)
  OBVIOUS
<1>5. PICK used : used = s.used \cup {<<s.step, at>> : at \in kept}
  OBVIOUS
<1> HIDE DEF kept
<1>6. /\ used \in SUBSET ((1..Steps) \X (0..Steps))
      /\ \A k \in 1..Steps, at \in 0..Steps :
            <<k, at>> \in used <=> <<k, at>> \in s.used \/ (k = s.step /\ at \in kept)
  BY <1>1, <1>3, <1>5
<1>7. /\ Len(s.coverage) = s.step - 1
      /\ \A k \in 1..(s.step - 1) : s.coverage[k] = [step |-> k, scanned |-> k \notin Skipped]
      /\ \A k \in 1..(s.step - 1) : (k \notin Skipped) = (\E at \in 0..Steps : <<k, at>> \in s.used)
      /\ \A k \in 1..Steps, at \in 0..Steps : k >= s.step => <<k, at>> \notin s.used
  BY <1>1 DEF Told
<1>8. /\ cov \in Seq([step : 1..Steps, scanned : BOOLEAN]) /\ Len(cov) = s.step
      /\ \A k \in 1..(s.step - 1) : cov[k] = s.coverage[k]
      /\ cov[s.step] = entry
  <2>1. entry \in [step : 1..Steps, scanned : BOOLEAN]
    BY <1>1
  <2> QED BY <1>1, <1>4, <1>7, <2>1
<1>9. \A k \in 1..s.step : cov[k] = [step |-> k, scanned |-> k \notin Skipped]
  <2> SUFFICES ASSUME NEW k \in 1..s.step
               PROVE  cov[k] = [step |-> k, scanned |-> k \notin Skipped]
    OBVIOUS
  <2>1. k = s.step \/ k \in 1..(s.step - 1)
    BY <1>1
  <2>2. CASE k = s.step
    BY <1>1, <1>8, <2>2
  <2>3. CASE k \in 1..(s.step - 1)
    BY <1>7, <1>8, <2>3
  <2> QED BY <2>1, <2>2, <2>3
<1>10. /\ t \in Scan!Survey /\ t.step = s.step + 1 /\ t.coverage = cov /\ t.used = used
  <2>1. s.step + 1 \in 1..(Steps + 1) /\ <<>> \in Seq(0..Steps)
    BY <1>1
  <2>2. s \in Scan!Survey /\ used \in SUBSET ((1..Steps) \X (0..Steps))
        /\ cov \in Seq([step : 1..Steps, scanned : BOOLEAN])
    BY <1>1, <1>6, <1>8
  <2>3. t = [s EXCEPT !.coverage = cov, !.used = used, !.kept = <<>>, !.seen = 0, !.step = s.step + 1]
    BY <1>4, <1>5
  <2> HIDE DEF t
  <2> QED BY <2>1, <2>2, <2>3 DEF Scan!Survey, Scan!Centres
<1>11. ASSUME NEW k \in 1..s.step
       PROVE  (k \notin Skipped) = (\E at \in 0..Steps : <<k, at>> \in used)
  <2>1. CASE k < s.step
    <3>1. \A at \in 0..Steps : <<k, at>> \in used <=> <<k, at>> \in s.used
      BY <1>1, <1>6, <2>1
    <3>2. k \in 1..(s.step - 1)
      BY <1>1, <2>1
    <3> QED BY <1>7, <3>1, <3>2
  <2>2. CASE k = s.step
    BY <1>1, <1>3, <1>6, <2>2
  <2>3. k < s.step \/ k = s.step
    BY <1>1
  <2> QED BY <2>1, <2>2, <2>3
<1>12. \A k \in 1..Steps, at \in 0..Steps : k >= s.step + 1 => <<k, at>> \notin used
  BY <1>1, <1>6, <1>7
<1> HIDE DEF t
<1>13. Told(t)
  <2>1. Len(t.coverage) = t.step - 1 /\ t.step - 1 = s.step
    BY <1>1, <1>8, <1>10
  <2>2. \A k \in 1..(t.step - 1) : t.coverage[k] = [step |-> k, scanned |-> k \notin Skipped]
    BY <1>9, <1>10, <2>1
  <2>3. \A k \in 1..(t.step - 1) : (k \notin Skipped) = (\E at \in 0..Steps : <<k, at>> \in t.used)
    BY <1>10, <1>11, <2>1
  <2>4. \A k \in 1..Steps, at \in 0..Steps : k >= t.step => <<k, at>> \notin t.used
    BY <1>10, <1>12
  <2> QED BY <1>10, <2>1, <2>2, <2>3, <2>4 DEF Told
<1>14. Good(Scan!SkipUnscanned(t)) /\ Scan!SkipUnscanned(t).step >= t.step
  BY <1>13, SkipsUnscanned
<1>15. Scan!SkipUnscanned(t).step \in Nat
  BY <1>14 DEF Good, Told, Scan!Survey
<1> QED BY <1>1, <1>2, <1>10, <1>14, <1>15

\* A frame fed to a survey that is not complete keeps it good, and moves it on
\* by steps only.
LEMMA FeedsGood ==
    ASSUME NEW s, Good(s), s.step <= Steps, NEW frame \in 0..Steps
    PROVE  Good(Scan!Fed(s, frame)) /\ Scan!Fed(s, frame).step \in 1..(Steps + 1)
<1> USE PlanIs
<1> DEFINE seen == [s EXCEPT !.seen = s.seen + 1]
           kept == [seen EXCEPT !.kept = Append(s.kept, frame)]
<1>1. s \in Scan!Survey /\ Told(s) /\ s.kept \in Seq(0..Steps) /\ s.seen \in Nat
  BY DEF Good, Told, Scan!Survey, Scan!Centres
<1>2. Append(s.kept, frame) \in Seq(0..Steps) /\ Len(Append(s.kept, frame)) > 0
  BY <1>1
<1>3. /\ seen \in Scan!Survey /\ seen.step = s.step /\ seen.coverage = s.coverage /\ seen.used = s.used
      /\ seen.kept = s.kept
  <2>1. PICK n : n = s.seen + 1
    OBVIOUS
  <2>2. n \in Nat /\ s \in Scan!Survey /\ seen = [s EXCEPT !.seen = n]
    BY <1>1, <2>1
  <2> HIDE DEF seen
  <2> QED BY <2>2 DEF Scan!Survey
<1>4. /\ kept \in Scan!Survey /\ kept.step = s.step /\ kept.coverage = s.coverage /\ kept.used = s.used
      /\ kept.kept = Append(s.kept, frame)
  BY <1>2, <1>3 DEF Scan!Survey, Scan!Centres
<1>5. Scan!Fed(s, frame) \in {seen, kept, Scan!CloseStep(kept)}
  <2>1. kept = [seen EXCEPT !.kept = Append(seen.kept, frame)]
    BY <1>3
  <2> QED BY <2>1 DEF Scan!Fed
<1> HIDE DEF seen, kept
<1>6. Good(seen) /\ Good(kept)
  BY <1>3, <1>4 DEF Good, Told
<1>7. Good(Scan!CloseStep(kept))
  BY <1>2, <1>4, <1>6, ClosesGood
<1>8. Good(Scan!Fed(s, frame))
  BY <1>5, <1>6, <1>7
<1> QED BY <1>8 DEF Good, Told, Scan!Survey

\* No survey runs yet.
LEMMA ScanStarts == Scan!Init => ScanInv
  BY PlanIs DEF Scan!Init, ScanInv, ScanTypes, Surveying, Scan!Centres

\* The surveys kept stay good when one joins them and the oldest may go.
LEMMA KeptGood ==
    ASSUME NEW t, Good(t), scanSurveys \in Seq(Scan!Survey),
           \A k \in 1..Len(scanSurveys) : Good(scanSurveys[k]),
           NEW all, all = Append(scanSurveys, t),
           NEW kept, kept = (IF Len(all) > Keep THEN Tail(all) ELSE all)
    PROVE  kept \in Seq(Scan!Survey) /\ \A k \in 1..Len(kept) : Good(kept[k])
<1>1. t \in Scan!Survey
  BY DEF Good, Told
<1>2. /\ all \in Seq(Scan!Survey) /\ Len(all) = Len(scanSurveys) + 1
      /\ \A k \in 1..Len(scanSurveys) : all[k] = scanSurveys[k]
      /\ all[Len(scanSurveys) + 1] = t
  BY <1>1
<1>3. \A k \in 1..Len(all) : Good(all[k])
  <2> SUFFICES ASSUME NEW k \in 1..Len(all) PROVE Good(all[k])
    OBVIOUS
  <2>1. k \in 1..Len(scanSurveys) \/ k = Len(scanSurveys) + 1
    BY <1>2
  <2> QED BY <1>2, <2>1
<1>4. CASE Len(all) > Keep
  <2>1. all # <<>> /\ kept = Tail(all)
    BY <1>2, <1>4
  <2>2. kept \in Seq(Scan!Survey) /\ Len(kept) = Len(all) - 1 /\ \A k \in 1..Len(kept) : kept[k] = all[k + 1]
    BY <1>2, <2>1
  <2>3. \A k \in 1..Len(kept) : k + 1 \in 1..Len(all)
    BY <1>2, <2>2
  <2> QED BY <1>3, <2>2, <2>3
<1>5. CASE ~(Len(all) > Keep)
  BY <1>2, <1>3, <1>5
<1> QED BY <1>4, <1>5

\* Every step of the app and of the supervisor keeps every survey good.
LEMMA ScanGoesOn == ScanInv /\ [Scan!Next]_Scan!vars => ScanInv'
<1> SUFFICES ASSUME ScanInv, [Scan!Next]_Scan!vars
             PROVE  ScanInv'
  OBVIOUS
<1> USE PlanIs
<1>t. ScanTypes /\ Surveying
  BY DEF ScanInv
<1>n. Good(Scan!NewSurvey)
  BY StartsGood
<1>1. CASE Scan!Ingest
  <2>1. /\ scanEvents' = <<>>
        /\ UNCHANGED <<scanPending, scanHardware, scanPolling>>
        /\ IF scanEvents = <<>> THEN UNCHANGED <<scanCentre, scanDirty, scanSurvey, scanSurveys>>
           ELSE Scan!ScanFeed(Scan!Last(scanEvents))
    BY <1>1 DEF Scan!Ingest
  <2>2. CASE UNCHANGED <<scanCentre, scanSurvey, scanSurveys>>
    BY <1>t, <2>1, <2>2 DEF ScanInv, ScanTypes, Surveying
  <2>3. CASE ~(UNCHANGED <<scanCentre, scanSurvey, scanSurveys>>)
    <3>1. scanEvents # <<>> /\ Scan!ScanFeed(Scan!Last(scanEvents)) /\ scanSurvey # None
      BY <2>1, <2>3 DEF Scan!ScanFeed
    <3>2. Good(scanSurvey) /\ scanSurvey.step <= Steps
      BY <1>t, <3>1 DEF Surveying
    <3>3. Scan!Last(scanEvents) \in 0..Steps
      <4>1. scanEvents \in Seq(0..Steps) /\ scanEvents # <<>>
        BY <1>t, <3>1 DEF ScanTypes, Scan!Centres
      <4> QED BY <4>1 DEF Scan!Last
    <3>4. PICK fed : fed = Scan!Fed(scanSurvey, Scan!Last(scanEvents))
      OBVIOUS
    <3>5. Good(fed) /\ fed.step \in 1..(Steps + 1)
      BY <3>2, <3>3, <3>4, FeedsGood
    <3>6. \/ fed.step = scanSurvey.step /\ scanSurvey' = fed /\ UNCHANGED <<scanCentre, scanSurveys>>
          \/ /\ ~Scan!Complete(fed)
             /\ scanSurvey' = fed /\ scanCentre' = fed.step /\ UNCHANGED scanSurveys
          \/ /\ scanSurvey' = None /\ scanCentre' = scanCentre
             /\ scanSurveys' = (IF Len(Append(scanSurveys, fed)) > Keep
                                THEN Tail(Append(scanSurveys, fed)) ELSE Append(scanSurveys, fed))
      BY <2>3, <3>1, <3>4 DEF Scan!ScanFeed
    <3>7. CASE fed.step = scanSurvey.step /\ scanSurvey' = fed /\ UNCHANGED <<scanCentre, scanSurveys>>
      BY <1>t, <2>1, <3>2, <3>5, <3>7 DEF ScanInv, ScanTypes, Surveying
    <3>8. CASE /\ ~Scan!Complete(fed)
               /\ scanSurvey' = fed /\ scanCentre' = fed.step /\ UNCHANGED scanSurveys
      <4>1. fed.step <= Steps /\ fed.step \in 0..Steps
        BY <3>5, <3>8 DEF Scan!Complete
      <4> QED BY <1>t, <2>1, <3>5, <3>8, <4>1 DEF ScanInv, ScanTypes, Surveying, Scan!Centres
    <3>9. CASE /\ scanSurvey' = None /\ scanCentre' = scanCentre
               /\ scanSurveys' = (IF Len(Append(scanSurveys, fed)) > Keep
                                  THEN Tail(Append(scanSurveys, fed)) ELSE Append(scanSurveys, fed))
      <4>1. PICK all : all = Append(scanSurveys, fed)
        OBVIOUS
      <4>2. scanSurveys' \in Seq(Scan!Survey) /\ \A k \in 1..Len(scanSurveys') : Good(scanSurveys'[k])
        BY <1>t, <3>5, <3>9, <4>1, KeptGood DEF ScanTypes, Surveying
      <4> QED BY <1>t, <2>1, <3>9, <4>2 DEF ScanInv, ScanTypes, Surveying
    <3> QED BY <3>6, <3>7, <3>8, <3>9
  <2> QED BY <2>2, <2>3
<1>2. CASE Scan!Start
  <2>1. /\ scanSurvey' = Scan!NewSurvey /\ scanCentre' = Scan!NewSurvey.step
        /\ ~Scan!Complete(Scan!NewSurvey)
        /\ UNCHANGED <<scanPending, scanHardware, scanPolling, scanEvents, scanSurveys>>
    BY <1>2 DEF Scan!Start
  <2>2. Scan!NewSurvey.step <= Steps /\ Scan!NewSurvey.step \in 0..Steps
    BY <1>n, <2>1 DEF Good, Told, Scan!Survey, Scan!Complete
  <2> QED BY <1>t, <1>n, <2>1, <2>2 DEF ScanInv, ScanTypes, Surveying, Scan!Centres
<1>3. CASE Scan!Cancel
  BY <1>3, <1>t DEF Scan!Cancel, ScanInv, ScanTypes, Surveying
<1>4. CASE Scan!Tune
  <2>1. /\ scanSurvey # None /\ scanCentre' \in {0, scanSurvey.step}
        /\ UNCHANGED <<scanPending, scanHardware, scanPolling, scanEvents, scanSurvey, scanSurveys>>
    BY <1>4 DEF Scan!Tune
  <2>2. scanSurvey.step \in 0..Steps
    BY <1>t, <2>1 DEF Surveying, Good, Told, Scan!Survey
  <2> QED BY <1>t, <2>1, <2>2 DEF ScanInv, ScanTypes, Surveying, Scan!Centres
<1>5. CASE Scan!Flush
  BY <1>5, <1>t DEF Scan!Flush, ScanInv, ScanTypes, Surveying
<1>6. CASE Scan!Poll
  BY <1>6, <1>t DEF Scan!Poll, ScanInv, ScanTypes, Surveying
<1>7. CASE Scan!Deliver
  <2>1. scanEvents' = Append(scanEvents, scanPolling) /\ scanPolling \in Scan!Centres
    BY <1>7, <1>t DEF Scan!Deliver, ScanTypes
  <2>2. scanEvents' \in Seq(Scan!Centres)
    BY <1>t, <2>1 DEF ScanTypes
  <2> QED BY <1>7, <1>t, <2>2 DEF Scan!Deliver, ScanInv, ScanTypes, Surveying
<1>8. CASE Scan!Apply
  BY <1>8, <1>t DEF Scan!Apply, ScanInv, ScanTypes, Surveying
<1>9. CASE UNCHANGED Scan!vars
  BY <1>9, <1>t DEF Scan!vars, ScanInv, ScanTypes, Surveying
<1> QED BY <1>1, <1>2, <1>3, <1>4, <1>5, <1>6, <1>7, <1>8, <1>9 DEF Scan!Next

\* The coverage of a good survey is its plan so far.
LEMMA GoodCovers ==
    ASSUME NEW s, Good(s)
    PROVE  /\ Len(s.coverage) = s.step - 1
           /\ \A k \in 1..Len(s.coverage) :
                  /\ s.coverage[k] = [step |-> k, scanned |-> k \notin Skipped]
                  /\ s.coverage[k].scanned = (\E at \in 0..Steps : <<k, at>> \in s.used)
           /\ ~Scan!Complete(s) => s.step \notin Skipped
<1>1. s.step \in 1..(Steps + 1) /\ Len(s.coverage) = s.step - 1
  BY DEF Good, Told, Scan!Survey
<1>2. \A k \in 1..Len(s.coverage) :
         /\ s.coverage[k] = [step |-> k, scanned |-> k \notin Skipped]
         /\ (k \notin Skipped) = (\E at \in 0..Steps : <<k, at>> \in s.used)
  BY <1>1 DEF Good, Told
<1>3. ~Scan!Complete(s) => s.step \notin Skipped
  BY <1>1, PlanIs DEF Good, Scan!Complete
<1>4. ASSUME NEW k \in 1..Len(s.coverage)
      PROVE  s.coverage[k].scanned = (\E at \in 0..Steps : <<k, at>> \in s.used)
  <2>1. s.coverage[k].scanned = (k \notin Skipped)
    <3>1. CASE k \in Skipped
      <4>1. s.coverage[k] = [step |-> k, scanned |-> FALSE]
        BY <1>2, <3>1
      <4>2. s.coverage[k].scanned = FALSE
        BY <4>1
      <4> QED BY <3>1, <4>2, Zenon
    <3>2. CASE k \notin Skipped
      <4>1. s.coverage[k] = [step |-> k, scanned |-> TRUE]
        BY <1>2, <3>2
      <4>2. s.coverage[k].scanned = TRUE
        BY <4>1
      <4> QED BY <3>2, <4>2, Zenon
    <3> QED BY <3>1, <3>2
  <2>2. (k \notin Skipped) = (\E at \in 0..Steps : <<k, at>> \in s.used)
    BY <1>2
  <2> QED BY <2>1, <2>2
<1> QED BY <1>1, <1>2, <1>3, <1>4

\* The survey (neowon-dsp survey.rs, sdr/scan.rs): whatever the operator does
\* to the window and however late frames and settings arrive, the coverage of
\* a survey is its plan so far, in order and without a hole, and says scanned
\* of exactly the steps whose frames it kept.
THEOREM CoverageIsThePlanHolds == Scan!Spec => []CoverageIsThePlan
<1>1. ScanInv => CoverageIsThePlan
  <2> SUFFICES ASSUME ScanInv, NEW s \in Scan!AllSurveys
               PROVE  /\ Len(s.coverage) = s.step - 1
                      /\ \A k \in 1..Len(s.coverage) :
                            /\ s.coverage[k] = [step |-> k, scanned |-> k \notin Skipped]
                            /\ s.coverage[k].scanned = (\E at \in 0..Steps : <<k, at>> \in s.used)
                      /\ ~Scan!Complete(s) => s.step \notin Skipped
    BY DEF CoverageIsThePlan, Scan!CoverageIsThePlan
  <2>1. Good(s)
    <3>1. scanSurveys \in Seq(Scan!Survey)
      BY DEF ScanInv, ScanTypes
    <3>2. (s = scanSurvey /\ scanSurvey # None) \/ \E k \in 1..Len(scanSurveys) : s = scanSurveys[k]
      BY <3>1 DEF Scan!AllSurveys, Scan!ToSet
    <3> QED BY <3>2 DEF ScanInv, Surveying
  <2> QED BY <2>1, GoodCovers
<1> QED BY <1>1, ScanStarts, ScanGoesOn, PTL DEF Scan!Spec
=============================================================================
