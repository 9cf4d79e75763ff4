------------------------------- MODULE DabDesk -------------------------------
(***************************************************************************)
(* DAB as its operator meets it: the table and the selection made from it, *)
(* what the dock offers and what it and `get dab` say, the verbs of the    *)
(* dock, of scripts and of the MCP tool, and what a table that goes, a     *)
(* stream that stops and a multiplex that is rearranged do to them.        *)
(*                                                                         *)
(* DabReceiver has the lock, DabPlayback the worker's queues: here both    *)
(* are what they report.  A verb is asked for on one app frame and runs on *)
(* a later one, behind what arrived in between.  A chunk behind a splice   *)
(* decodes no frame, so what feed does with the frames of one is not here. *)
(***************************************************************************)
EXTENDS Integers, Sequences, FiniteSets, SequencesExt, FiniteSetsExt

CONSTANTS
    Air,        \* the tables a window may carry: [eid, rates, services]
    Raster,     \* centres of the Band III blocks in order, kHz
    HalfStep,   \* half of BLOCK_SPACING_HZ, kHz
    Start,      \* the first centre, kHz
    Plan,       \* DAB allocations of the active band plan: [lo, hi], kHz
    Calls,      \* arguments of dab_control: [action, channel, service, play]
    Asks,       \* verbs a script asks for beside those of the dock
    Patience,   \* NO_INPUT_TIMEOUT_S
    MaxTime,    \* bound: the clock
    None

\* A table gives each sub-channel its information rate in units of 8 kbit/s,
\* None where its protection plan is not one, and each service a sub-channel
\* and an ASCTy, either of them None.
DeskAssumption ==
    /\ IsFiniteSet(Air) /\ Patience \in Nat /\ MaxTime \in Nat /\ HalfStep \in Nat
    /\ \A i, j \in DOMAIN Raster : i < j => Raster[i] < Raster[j]
    /\ \A t \in Air : \A sid \in DOMAIN t.services : sid \in Nat \ {0}

VARIABLES
    s,       \* SdrState::dab, with the centre, the rate and whether it runs
    clock,   \* app seconds
    queue,   \* verbs asked for and not yet run
    held     \* a table was held since the last reset

vars == <<s, clock, queue, held>>

EmptyTable == [eid |-> None, rates |-> <<>>, services |-> <<>>]
Verb(name, arg) == [verb |-> name, arg |-> arg]

-----------------------------------------------------------------------------
(* DabState and what clears it.                                            *)

\* DabStatus: nothing of a table that is not locked is shown.
Status(d) == IF d.locked THEN d.table ELSE EmptyTable

\* Changed form: the labels of the old signal stay.
LabelsStay(d) == [d EXCEPT !.locked = FALSE, !.table = EmptyTable, !.service = None,
                           !.audio = None, !.error = FALSE, !.gone = None, !.fed = None]
Reset(d) == [d EXCEPT !.locked = FALSE, !.table = EmptyTable, !.service = None, !.audio = None,
                      !.error = FALSE, !.gone = None, !.fed = None, !.pad = {}]

\* The ensemble held now, or the one an earlier loss recorded.
NoInput(d) ==
    LET eid == CASE d.locked -> d.table.eid
                 [] ~d.locked /\ d.gone # None -> d.gone.eid
                 [] OTHER -> None
    IN [Reset(d) EXCEPT !.gone = IF d.fed = None THEN None
                                 ELSE [cause |-> "no_input", at |-> d.fed, eid |-> eid]]

ForgetSelection(d) == [d EXCEPT !.service = None, !.audio = None, !.error = FALSE, !.pad = {}]

HoldsDerived(d) == d.fed # None \/ d.pad # {} \/ d.service # None \/ d.audio # None \/ d.error

-----------------------------------------------------------------------------
(* Whether a service can play, and the stream it plays from.               *)
Coding(ascty) == CASE ascty = 0 -> "mp2" [] ascty = 63 -> "dab+" [] OTHER -> None

\* service_spec's refusals, in its order.
WhyNot(t, sid) ==
    CASE sid \notin DOMAIN t.services -> "unlisted"
      [] OTHER ->
         LET v == t.services[sid]
         IN CASE v.sub = None -> "no audio"
              [] v.sub # None /\ v.sub \notin DOMAIN t.rates -> "no sub-channel"
              [] v.sub # None /\ v.sub \in DOMAIN t.rates /\ Coding(v.ascty) = None -> "coding"
              [] v.sub # None /\ v.sub \in DOMAIN t.rates /\ Coding(v.ascty) = "dab+"
                   /\ t.rates[v.sub] = None -> "protection"
              [] v.sub # None /\ v.sub \in DOMAIN t.rates /\ Coding(v.ascty) = "dab+"
                   /\ t.rates[v.sub] # None /\ t.rates[v.sub] \notin 1..24 -> "rate"
              [] OTHER -> None

Playable(t, sid) == WhyNot(t, sid) = None
CanPlay(d) == d.on /\ d.locked /\ d.service # None /\ Playable(d.table, d.service)

\* play: a worker of its own, for the stream the table names now.
Started(d) ==
    [d EXCEPT !.audio = [sid |-> d.service, sub |-> d.table.services[d.service].sub,
                         state |-> "starting"]]

Play(d) ==
    CASE ~CanPlay(d) -> [d EXCEPT !.error = TRUE]
      [] CanPlay(d) /\ d.audio # None /\ d.audio.sid = d.service -> [d EXCEPT !.error = FALSE]
      [] OTHER -> [Started(d) EXCEPT !.error = FALSE]

\* Changed form: the old service plays on.
PlaysOn(d, sid) == [d EXCEPT !.service = sid, !.error = FALSE]
\* Selecting while one plays stops it and plays the other, or says why not.
Select(d, sid) ==
    LET chosen == [d EXCEPT !.service = sid, !.error = FALSE]
    IN IF d.audio = None THEN chosen ELSE Play([chosen EXCEPT !.audio = None])

-----------------------------------------------------------------------------
(* The Band III raster.                                                    *)
Away(i, khz) == IF Raster[i] < khz THEN khz - Raster[i] ELSE Raster[i] - khz

\* band_iii_block_at: the nearest block, the lower of two, or 0.
BlockAt(khz) ==
    LET near == {i \in DOMAIN Raster : \A j \in DOMAIN Raster : Away(i, khz) <= Away(j, khz)}
    IN IF Away(Min(near), khz) <= HalfStep THEN Min(near) ELSE 0

Blocks == {i \in DOMAIN Raster : \E band \in Plan : Raster[i] \in band.lo..band.hi}

Neighbour(khz, up) ==
    LET n == Len(Raster)
        i == BlockAt(khz)
    IN CASE i # 0 /\ up -> (i % n) + 1
         [] i # 0 /\ ~up -> ((i + n - 2) % n) + 1
         [] i = 0 /\ up -> 1
         [] OTHER -> n

Landed(d, i) ==
    [(IF d.centre # Raster[i] THEN Reset(d) ELSE d) EXCEPT !.centre = Raster[i]]

-----------------------------------------------------------------------------
(* apply.                                                                  *)
Position(t, n) == SetToSortSeq(DOMAIN t.services, LAMBDA a, b : a < b)[n]

Refused(d, v) ==
    CASE v.verb = "sid" -> \/ ~d.on \/ ~d.locked \/ v.arg \notin DOMAIN d.table.services
                           \/ d.audio # None /\ ~Playable(d.table, v.arg)
      [] v.verb = "index" -> \/ ~d.on \/ ~d.locked
                             \/ v.arg \notin 1..Cardinality(DOMAIN d.table.services)
                             \/ d.audio # None /\ ~Playable(d.table, Position(d.table, v.arg))
      [] v.verb = "play" -> ~CanPlay(d)
      [] v.verb = "block" -> v.arg \notin DOMAIN Raster
      [] OTHER -> FALSE

\* A refusal leaves everything as it was, but for the reason a refused play
\* records and the transport a refused selection stopped.
Untaken(d, v) ==
    CASE v.verb = "play" -> Play(d)
      [] v.verb = "sid" /\ d.audio # None /\ v.arg \in DOMAIN d.table.services -> Select(d, v.arg)
      [] v.verb = "index" /\ d.audio # None
           /\ v.arg \in 1..Cardinality(DOMAIN d.table.services) ->
           Select(d, Position(d.table, v.arg))
      [] OTHER -> d

Taken(d, v) ==
    CASE v.verb = "on" -> [Reset(d) EXCEPT !.on = TRUE]
      [] v.verb = "off" -> [Reset(d) EXCEPT !.on = FALSE]
      [] v.verb = "reset" -> Reset(d)
      [] v.verb = "sid" -> Select(d, v.arg)
      [] v.verb = "index" -> Select(d, Position(d.table, v.arg))
      [] v.verb = "play" -> Play(d)
      [] v.verb = "stop" -> [d EXCEPT !.audio = None, !.error = FALSE]
      [] v.verb = "block" -> Landed(d, v.arg)
      [] v.verb = "next" -> Landed(d, Neighbour(d.centre, TRUE))
      [] v.verb = "prev" -> Landed(d, Neighbour(d.centre, FALSE))
      [] v.verb = "rate" -> [(IF d.slow THEN Reset(d) ELSE d) EXCEPT !.slow = FALSE]
      [] v.verb = "run" -> [(IF v.arg = 0 THEN Reset(d) ELSE d) EXCEPT !.running = v.arg = 1]

Applied(d, v) == IF Refused(d, v) THEN Untaken(d, v) ELSE Taken(d, v)

-----------------------------------------------------------------------------
(* What the dock shows and offers, and `get dab`.                          *)

\* The heading of an unlocked receiver.
Heading(d) ==
    CASE ~d.running -> "stopped"
      [] d.running /\ d.gone # None -> d.gone.cause
      [] OTHER -> "searching"

\* dab::dls: the label last completed on the selected service's sub-channel.
Dls(d) ==
    LET t == Status(d)
        p == IF d.service = None \/ d.service \notin DOMAIN t.services THEN {}
             ELSE {q \in d.pad : q.sub = t.services[d.service].sub}
    IN IF p = {} THEN None ELSE (CHOOSE q \in p : TRUE).eid

\* Changed form: Play is offered whatever is selected.
OfferAny(d) == IF d.audio = None THEN {Verb("play", 0)} ELSE {}
OfferPlay(d) == IF CanPlay(d) /\ d.audio = None THEN {Verb("play", 0)} ELSE {}

\* channel_row: a picker of the blocks the plan allocates, and the steps.
OfferBlocks == {Verb("block", i) : i \in Blocks} \cup {Verb("next", 0), Verb("prev", 0)}

Offers(d) ==
    {Verb(IF d.on THEN "off" ELSE "on", 0)}
    \cup (IF d.on THEN {Verb("reset", 0)} ELSE {})
    \cup OfferBlocks
    \cup (IF d.slow THEN {Verb("rate", 0)} ELSE {})
    \cup (IF d.on /\ d.locked
          THEN {Verb("sid", sid) : sid \in DOMAIN d.table.services} \cup OfferPlay(d)
               \cup (IF d.audio # None THEN {Verb("stop", 0)} ELSE {})
          ELSE {})

\* dab_json, of what the dock shows as well.
Reading(d) ==
    IF ~d.on THEN [on |-> FALSE, block |-> BlockAt(d.centre)]
    ELSE [on |-> TRUE, block |-> BlockAt(d.centre), locked |-> d.locked, eid |-> Status(d).eid,
          playable |-> {sid \in DOMAIN Status(d).services : Playable(Status(d), sid)},
          service |-> d.service, dls |-> Dls(d), gone |-> d.gone,
          audio |-> IF d.audio = None THEN "off" ELSE d.audio.state]

\* dab_control: action, channel, service, play, those that are given.
Lines(call) ==
    SelectSeq(<<call.action, call.channel, call.service, call.play>>, LAMBDA v : v.verb # None)

-----------------------------------------------------------------------------
(* What arrives.                                                           *)
GoneAfter(d, locked) ==
    CASE locked -> None
      [] ~locked /\ d.locked -> [cause |-> "expired", at |-> clock, eid |-> d.table.eid]
      [] ~locked /\ ~d.locked /\ d.gone # None /\ d.gone.cause = "no_input" -> None
      [] OTHER -> d.gone

\* The labels a chunk completes, on the sub-channels of the table: the one
\* that plays goes through the worker, which reads only its own.
Labelled(d, subs) ==
    LET routed == IF d.audio = None THEN {} ELSE {Status(d).services[d.service].sub}
        read   == {k \in subs : k \notin routed \/ (k = d.audio.sub /\ d.audio.state # "error")}
    IN [d EXCEPT !.pad = {p \in @ : p.sub \notin read}
                         \cup {[sub |-> k, eid |-> d.table.eid] : k \in read}]

\* Changed form: a selection outlives its table.
KeepsSelection(d) == d
\* The selection goes with the table it was made from.
OutOfTable(d) == IF ~d.locked /\ d.service # None THEN ForgetSelection(d) ELSE d

\* feed, of one chunk behind which the receiver has table t.
Fed(d, t, locked, subs) ==
    LET heard == [d EXCEPT !.fed = clock]
        after == OutOfTable([heard EXCEPT !.table = t, !.locked = locked,
                                          !.gone = GoneAfter(d, locked)])
    IN IF ~d.on THEN heard ELSE IF locked THEN Labelled(after, subs) ELSE after

\* What the table may be behind one more chunk: as it was, gone, found, or
\* rearranged by the ensemble that sends it; none at another rate.
Tables(d) ==
    CASE d.slow \/ ~d.on -> {EmptyTable}
      [] ~d.slow /\ d.on /\ d.table = EmptyTable -> {EmptyTable} \cup Air
      [] OTHER -> {EmptyTable} \cup {t \in Air : t.eid = d.table.eid}

Chunk ==
    \E t \in Tables(s), locked \in BOOLEAN :
       \E subs \in SUBSET DOMAIN t.rates :
          /\ locked => t # EmptyTable
          /\ s' = Fed(s, t, locked, subs)
          /\ held' = (held \/ s'.locked)
          /\ UNCHANGED <<clock, queue>>

\* ingest's watchdog, on every app frame.
Tick ==
    /\ clock < MaxTime
    /\ clock' = clock + 1
    /\ s' = IF s.on /\ s.fed # None /\ clock' - s.fed > Patience THEN NoInput(s) ELSE s
    /\ UNCHANGED <<queue, held>>

\* drain: the worker reports a block, or a stream it cannot decode.
Report ==
    /\ s.audio # None /\ s.audio.state = "starting"
    /\ \E state \in {"playing", "error"} : s' = [s EXCEPT !.audio.state = state]
    /\ UNCHANGED <<clock, queue, held>>

Ask ==
    /\ queue = <<>>
    /\ \/ \E v \in Offers(s) \cup Asks : queue' = <<v>>
       \/ \E call \in Calls : queue' = Lines(call)
    /\ UNCHANGED <<s, clock, held>>

Run ==
    /\ queue # <<>>
    /\ s' = Applied(s, Head(queue)) /\ queue' = Tail(queue)
    /\ held' = (held /\ s'.fed = s.fed)
    /\ UNCHANGED clock

-----------------------------------------------------------------------------
Init ==
    /\ \E slow \in BOOLEAN :
          s = [on |-> FALSE, locked |-> FALSE, table |-> EmptyTable, service |-> None,
               audio |-> None, error |-> FALSE, gone |-> None, fed |-> None, pad |-> {},
               centre |-> Start, slow |-> slow, running |-> TRUE]
    /\ clock = 0 /\ queue = <<>> /\ held = FALSE

Next == Chunk \/ Tick \/ Report \/ Ask \/ Run

-----------------------------------------------------------------------------
(* Correctness properties.                                                 *)

\* What is selected is in the table that is locked, and what plays is what
\* is selected: "no path keeps naming a service the table no longer holds"
\* (dab_state.rs:157).
SelectionIsListed ==
    /\ s.service # None => s.on /\ s.locked /\ s.service \in DOMAIN s.table.services
    /\ s.audio # None => s.audio.sid = s.service
    /\ s.error => s.on \/ s.audio = None

\* What is said to be gone is: the receiver is on and has no lock, a stream
\* that stopped left nothing behind, and a lock lost names what it was of.
GoneIsHonest ==
    /\ s.gone # None => s.on /\ ~s.locked
    /\ s.gone # None /\ s.gone.cause = "no_input" => s.fed = None /\ ~HoldsDerived([s EXCEPT !.error = FALSE])
    /\ s.gone # None /\ s.gone.cause = "expired" => s.gone.eid # None

\* The dock offers nothing that apply refuses, but a service that cannot
\* play while another does; and a service said to be playable plays when it
\* is selected and Play is pressed.
OfferedIsTaken ==
    /\ \A v \in Offers(s) :
          Refused(s, v) => v.verb = "sid" /\ s.audio # None /\ ~Playable(s.table, v.arg)
    /\ s.on => \A sid \in Reading(s).playable :
          LET chosen == Applied(s, Verb("sid", sid))
              played == Applied(chosen, Verb("play", 0))
          IN played.audio # None /\ played.audio.sid = sid /\ ~played.error

\* A label shown for a service came from its ensemble: violated.  feed drops
\* the parsers with the selection, and there may be none when a table goes.
DlsIsOfTheEnsemble == Dls(s) # None => Dls(s) = s.table.eid

\* What dab_dock.rs:257 says, "rather than offered and refused", of every
\* row: violated.
ClickIsTaken == \A v \in Offers(s) : ~Refused(s, v)

\* What plays is fed the stream of the selected service: violated.  A
\* worker keeps the sub-channel it was started with.
PlayingIsFed ==
    s.audio # None => s.audio.sub = s.table.services[s.service].sub

\* What dab_state.rs:66 says: "an unlocked receiver that once held a table
\* must not read as one that never locked".  Violated: the chunk behind a
\* stall forgets what went.
LossIsRemembered == s.on /\ held /\ ~s.locked => Heading(s) # "searching"
=============================================================================
