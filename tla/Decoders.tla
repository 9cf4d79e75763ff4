------------------------------ MODULE Decoders -------------------------------
(***************************************************************************)
(* The clocked and the pulse-width decoders - I2C, SPI and 1-Wire - beside *)
(* the bus master whose traffic they read.  The master plans a few changes *)
(* of the lines at a time and says what they mean; a decoder sees only the *)
(* lines, sample by sample.                                                *)
(*                                                                         *)
(* A word is the sequence of its bits in the order of the wire; positions  *)
(* of events are left out.  The decoders act on changes, so that samples   *)
(* without one are not steps; the captures are those that pass the check   *)
(* of the resolution.                                                      *)
(***************************************************************************)
EXTENDS Naturals, Sequences

CONSTANTS
    Width,      \* bits of a word (8 on I2C and 1-Wire, Config::bits on SPI)
    MaxEvents   \* bound: events of a capture

DecodersAssumption == Width \in Nat \ {0} /\ MaxEvents \in Nat

Marker(name) == <<"marker", name>>
Word(bits)   == <<"word", bits>>
Ack(yes)     == <<"ack", yes>>
Error(why)   == <<"error", why>>

VARIABLES
    bus,    \* the protocol, and for SPI its configuration
    wire,   \* the levels: clk, data, cs
    plan,   \* levels the master goes through next
    host,   \* the master: bits of the word so far, a transaction or select open
    dec,    \* the decoder: bits, and in_frame or was_selected
    out,    \* events decoded
    sent,   \* events meant
    stray   \* a device's answer to a reset was on the wire

vars == <<bus, wire, plan, host, dec, out, sent, stray>>

Levels(clk, data, cs) == [clk |-> clk, data |-> data, cs |-> cs]
SpiConfig == [cpol : BOOLEAN, cpha : BOOLEAN, gate : {"none", "low", "high"}]

-----------------------------------------------------------------------------
(* The decoders: what a sample with levels w does to d.                    *)

\* i2c::decode: SDA moving under a high clock frames, a rising clock samples.
I2cSample(d, w) ==
    LET held == wire.clk /\ w.clk
        rise == ~wire.clk /\ w.clk
    IN CASE held /\ w.data # wire.data ->
              [bits |-> <<>>, in |-> ~w.data,
               told |-> <<Marker(IF w.data THEN "STOP" ELSE "START")>>]
         [] rise /\ d.in /\ Len(d.bits) < Width ->
              [bits |-> Append(d.bits, w.data), in |-> TRUE, told |-> <<>>]
         [] rise /\ d.in /\ Len(d.bits) = Width ->
              [bits |-> <<>>, in |-> TRUE, told |-> <<Word(d.bits), Ack(~w.data)>>]
         [] OTHER -> [bits |-> d.bits, in |-> d.in, told |-> <<>>]

\* Changed form: the sampling edge follows the phase alone.
RiseUnlessPhase(cfg) == ~cfg.cpha
SampleOnRise(cfg) == cfg.cpol = cfg.cpha

Selected(cfg, w) == cfg.gate # "none" => w.cs = (cfg.gate = "high")

\* spi::decode: a change of the select starts or cuts a word, the sampling
\* edge takes a bit while selected.
SpiSample(d, cfg, w) ==
    LET now   == Selected(cfg, w)
        edge  == w.clk # wire.clk /\ w.clk = SampleOnRise(cfg)
        grown == Append(d.bits, w.data)
    IN CASE now # d.in ->
              [bits |-> <<>>, in |-> now,
               told |-> IF now THEN <<Marker("SELECT")>>
                        ELSE <<Marker("DESELECT")>> \o
                             (IF d.bits = <<>> THEN <<>> ELSE <<Error("incomplete word")>>)]
         [] now = d.in /\ now /\ edge ->
              IF Len(grown) = Width THEN [bits |-> <<>>, in |-> now, told |-> <<Word(grown)>>]
              ELSE [bits |-> grown, in |-> now, told |-> <<>>]
         [] OTHER -> [bits |-> d.bits, in |-> d.in, told |-> <<>>]

\* onewire::decode: a low pulse by its width - a one, a zero, longer than any
\* slot, or a reset.
OneWirePulse(d, width) ==
    LET grown == Append(d.bits, width = "one")
        cut   == IF d.bits = <<>> THEN <<>> ELSE <<Error("reset mid-byte")>>
    IN CASE width = "reset" -> [bits |-> <<>>, in |-> FALSE, told |-> cut \o <<Marker("RESET")>>]
         [] width = "long"  -> [bits |-> <<>>, in |-> FALSE, told |-> <<Error("too long")>>]
         [] width \in {"one", "zero"} /\ Len(grown) = Width ->
              [bits |-> <<>>, in |-> FALSE, told |-> <<Word(grown)>>]
         [] OTHER -> [bits |-> grown, in |-> FALSE, told |-> <<>>]

Decoded(d) == dec' = [bits |-> d.bits, in |-> d.in] /\ out' = out \o d.told

\* The next planned levels reach the capture.
Sample ==
    /\ plan # <<>> /\ plan' = Tail(plan) /\ wire' = Head(plan)
    /\ IF bus.proto = "i2c" THEN Decoded(I2cSample(dec, wire'))
       ELSE Decoded(SpiSample(dec, bus.cfg, wire'))
    /\ UNCHANGED <<bus, host, sent, stray>>

-----------------------------------------------------------------------------
(* The masters.                                                            *)
Quiet(proto) == plan = <<>> /\ bus.proto = proto /\ Len(sent) < MaxEvents
Means(events) == sent' = sent \o events
I2c(clk, data) == Levels(clk, data, FALSE)

\* START, or a repeated one, at whatever bit the transaction is, short of the
\* acknowledge of a whole byte, which masters always clock.
I2cStart ==
    /\ Quiet("i2c") /\ Len(host.bits) < Width
    /\ plan' = (IF wire.clk THEN <<>> ELSE <<I2c(FALSE, TRUE), I2c(TRUE, TRUE)>>)
                  \o <<I2c(TRUE, FALSE), I2c(FALSE, FALSE)>>
    /\ host' = [bits |-> <<>>, in |-> TRUE]
    /\ Means(<<Marker("START")>>)
    /\ UNCHANGED <<bus, wire, dec, out, stray>>

I2cStop ==
    /\ Quiet("i2c") /\ ~wire.clk /\ Len(host.bits) < Width
    /\ plan' = <<I2c(FALSE, FALSE), I2c(TRUE, FALSE), I2c(TRUE, TRUE)>>
    /\ host' = [bits |-> <<>>, in |-> FALSE]
    /\ Means(<<Marker("STOP")>>)
    /\ UNCHANGED <<bus, wire, dec, out, stray>>

\* A bit of a byte, or the acknowledge behind it.  Of a transaction that the
\* capture began in, nothing can be told.
I2cBit(b) ==
    /\ Quiet("i2c") /\ ~wire.clk
    /\ plan' = <<I2c(FALSE, b), I2c(TRUE, b), I2c(FALSE, b)>>
    /\ IF ~host.in THEN UNCHANGED <<host, sent>>
       ELSE IF Len(host.bits) < Width
       THEN host' = [host EXCEPT !.bits = Append(@, b)] /\ UNCHANGED sent
       ELSE host' = [host EXCEPT !.bits = <<>>] /\ Means(<<Word(host.bits), Ack(~b)>>)
    /\ UNCHANGED <<bus, wire, dec, out, stray>>

\* CPHA = 0: the bit is there before the edge that leaves idle; CPHA = 1: it
\* is put there by that edge and taken by the other.
SpiBit(b) ==
    /\ Quiet("spi")
    /\ LET idle == bus.cfg.cpol
           at(clk, data) == Levels(clk, data, wire.cs)
       IN plan' = IF bus.cfg.cpha
                  THEN <<at(~idle, wire.data), at(~idle, b), at(idle, b)>>
                  ELSE <<at(idle, b), at(~idle, b), at(idle, b)>>
    /\ LET grown == Append(host.bits, b)
       IN IF ~host.in THEN UNCHANGED <<host, sent>>
          ELSE IF Len(grown) = Width THEN host' = [host EXCEPT !.bits = <<>>] /\ Means(<<Word(grown)>>)
          ELSE host' = [host EXCEPT !.bits = grown] /\ UNCHANGED sent
    /\ UNCHANGED <<bus, wire, dec, out, stray>>

\* The select changes, at whatever bit the word is.
SpiSelect ==
    /\ Quiet("spi") /\ bus.cfg.gate # "none"
    /\ plan' = <<Levels(wire.clk, wire.data, ~wire.cs)>>
    /\ host' = [bits |-> <<>>, in |-> ~host.in]
    /\ Means(IF ~host.in THEN <<Marker("SELECT")>>
             ELSE <<Marker("DESELECT")>> \o
                  (IF host.bits = <<>> THEN <<>> ELSE <<Error("incomplete word")>>))
    /\ UNCHANGED <<bus, wire, dec, out, stray>>

\* A reset pulse, with or without a device that answers by pulling the line
\* low for 60 to 240 us.
OneWireReset(presence) ==
    /\ Quiet("1-wire")
    /\ LET d == OneWirePulse(dec, "reset")
           p == OneWirePulse(d, presence)
       IN IF presence = "none" THEN Decoded(d)
          ELSE Decoded([p EXCEPT !.told = d.told \o p.told])
    /\ stray' = (stray \/ presence # "none")
    /\ host' = [bits |-> <<>>, in |-> FALSE]
    /\ Means((IF host.bits = <<>> THEN <<>> ELSE <<Error("reset mid-byte")>>) \o <<Marker("RESET")>>)
    /\ UNCHANGED <<bus, wire, plan>>

OneWireBit(b) ==
    /\ Quiet("1-wire")
    /\ Decoded(OneWirePulse(dec, IF b THEN "one" ELSE "zero"))
    /\ LET grown == Append(host.bits, b)
       IN IF Len(grown) = Width THEN host' = [host EXCEPT !.bits = <<>>] /\ Means(<<Word(grown)>>)
          ELSE host' = [host EXCEPT !.bits = grown] /\ UNCHANGED sent
    /\ UNCHANGED <<bus, wire, plan, stray>>

-----------------------------------------------------------------------------
\* A capture of I2C begins on an idle bus or anywhere in a transaction.
Init ==
    /\ plan = <<>> /\ out = <<>> /\ sent = <<>> /\ stray = FALSE
    /\ \/ /\ bus = [proto |-> "i2c"]
          /\ wire \in {I2c(TRUE, TRUE)} \cup {I2c(FALSE, b) : b \in BOOLEAN}
          /\ host = [bits |-> <<>>, in |-> FALSE] /\ dec = host
       \/ \E cfg \in SpiConfig :
            /\ bus = [proto |-> "spi", cfg |-> cfg]
            /\ wire = Levels(cfg.cpol, FALSE, cfg.gate = "low")
            /\ host = [bits |-> <<>>, in |-> cfg.gate = "none"]
            /\ dec = [bits |-> <<>>, in |-> Selected(cfg, wire)]
       \/ /\ bus = [proto |-> "1-wire"] /\ wire = I2c(FALSE, FALSE)
          /\ host = [bits |-> <<>>, in |-> FALSE] /\ dec = host

Next ==
    \/ Sample \/ I2cStart \/ I2cStop \/ SpiSelect
    \/ \E b \in BOOLEAN : I2cBit(b) \/ SpiBit(b) \/ OneWireBit(b)
    \/ \E presence \in {"none", "zero", "long"} : OneWireReset(presence)

Spec == Init /\ [][Next]_vars

-----------------------------------------------------------------------------
(* Correctness properties.                                                 *)

\* What is decoded is what was meant, in order and with nothing between:
\* words of every mode and polarity, transactions the capture began in,
\* words and bytes cut short by a select, a START, a STOP or a reset.
DecodesWhatWasSent == plan = <<>> /\ ~stray => out = sent

\* onewire.rs: "reset pulse: master low >= 480 us, then a presence pulse from
\* the slave": the answer of a device is no data.
PresenceIsNoData == plan = <<>> => out = sent
=============================================================================
