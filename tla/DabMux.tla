------------------------------- MODULE DabMux --------------------------------
(***************************************************************************)
(* One ensemble on the air and the receiver's picture of it: the FIGs that *)
(* describe it, packed into FIBs, walked into the ensemble table; and its  *)
(* sub-channels, interleaved over many CIFs, taken out of the multiplex    *)
(* where the table says they are and put together again.                   *)
(*                                                                         *)
(* DabReceiver decides which frames arrive and when the history is         *)
(* discarded; this module has the contents.  The transmitter is the        *)
(* repository's own (dab/encoder); that the multiplexer may be             *)
(* reconfigured while it sends is the standard's, not the encoder's.  Of a *)
(* bit, the logical frame it belongs to and its residue modulo the         *)
(* interleaver's depth are kept.                                           *)
(***************************************************************************)
EXTENDS DabTables, SequencesExt

CONSTANTS
    Programmes,     \* the ensembles the multiplexer may send
    Depth,          \* DEINTERLEAVE_DEPTH
    Delay,          \* DEINTERLEAVE_MAP
    CifsPerFrame, CuPerCif, FibsPerFrame, FibDataBytes,
    Damages,        \* the sets of FIBs that may pass their CRC
    MaxCifs,        \* bound: CIFs sent
    None

\* A programme: its identity, its services' sub-channels and the plans of the
\* sub-channels; a plan is [start, size, prot], a protection [uep |-> index]
\* or [option, level].
MuxAssumption ==
    /\ TablesAssumption
    /\ Depth \in Nat \ {0} /\ {Delay[i] : i \in 0..(Depth - 1)} = 0..(Depth - 1)
    /\ CifsPerFrame \in Nat \ {0} /\ CuPerCif \in Nat
    /\ \A p \in Programmes : \A plan \in {p.subs[id] : id \in DOMAIN p.subs} :
          plan.start \in Nat /\ plan.size \in Nat

VARIABLES
    air,      \* the programme sent
    since,    \* sub-channel -> the CIF at which its plan came on the air
    cif,      \* CIFs sent so far
    ens,      \* FicState::ensemble
    handlers, \* MscDecoder: sub-channel -> its plan and its de-interleaver
    out,      \* sub-channel -> what its last CIF gave
    fresh,    \* history: pushes under the plan on the air, in one piece
    heard     \* history: the last frame was of the programme, every FIB whole

vars == <<air, since, cif, ens, handlers, out, fresh, heard>>

-----------------------------------------------------------------------------
(* The transmitter's FIC: EnsembleSpec::figs and fibs.                     *)

EntryBytes(plan) == IF "uep" \in DOMAIN plan.prot THEN 3 ELSE 4
SubIds(p) == DOMAIN p.subs
Services(p) == DOMAIN p.services

\* A FIG and its bytes, header included.
Figs(p) ==
    LET services == SetToSeq(Services(p))
        Each(Fig(_)) == [i \in DOMAIN services |-> Fig(services[i])]
    IN <<[kind |-> "ensemble", bytes |-> 4],
         [kind |-> "subs", bytes |-> 2 + SumFunction([id \in SubIds(p) |-> EntryBytes(p.subs[id])])]>>
       \o Each(LAMBDA s : [kind |-> "service", sid |-> s, bytes |-> 7])
       \o <<[kind |-> "name", bytes |-> 20]>>
       \o Each(LAMBDA s : [kind |-> "label", sid |-> s, bytes |-> 20])

\* The bytes of m FIGs, from a place of the endless repetition of the list.
Bytes(figs, first, m) == FoldLeft(LAMBDA n, i : n + figs[((first + i - 1) % Len(figs)) + 1].bytes,
                                  0, [i \in 1..m |-> i])

\* As many whole FIGs as a FIB holds.
Whole(figs, first) ==
    CHOOSE m \in 1..FibDataBytes :
        Bytes(figs, first, m) <= FibDataBytes /\ Bytes(figs, first, m + 1) > FibDataBytes

\* The FIBs of a frame, and in each the FIGs it carries whole; every frame
\* starts the list again.
Fibs(p) ==
    LET figs == Figs(p)
        Fill(fibs, k) ==
            LET first == FoldLeft(LAMBDA n, fib : n + Len(fib), 0, fibs)
                last  == first + Whole(figs, first)
            IN Append(fibs, [i \in 1..(last - first) |-> figs[((first + i - 1) % Len(figs)) + 1]])
    IN FoldLeft(Fill, <<>>, [k \in 1..FibsPerFrame |-> k])

-----------------------------------------------------------------------------
(* The receiver's FIC: walk_figs into the table.                           *)

NoEnsemble == [eid |-> None, label |-> None, services |-> <<>>, subs |-> <<>>]

Put(f, k, x) == [i \in DOMAIN f \cup {k} |-> IF i = k THEN x ELSE f[i]]

\* FIG 0/2: the service's entry is made once, and its sub-channel replaced.
Service(table, p, sid) ==
    LET label == IF sid \in DOMAIN table.services THEN table.services[sid].label ELSE None
    IN [table EXCEPT !.services = Put(@, sid, [label |-> label, sub |-> p.services[sid]])]

\* A label is taken for a service already in the table, and for the ensemble
\* whose identity it names.
Told(table, p, fig) ==
    CASE fig.kind = "ensemble" -> [table EXCEPT !.eid = p.eid]
      [] fig.kind = "subs" ->
            [table EXCEPT !.subs = [id \in DOMAIN @ \cup SubIds(p) |->
                                       IF id \in SubIds(p) THEN p.subs[id] ELSE @[id]]]
      [] fig.kind = "service" -> Service(table, p, fig.sid)
      [] fig.kind = "name" ->
            IF table.eid \in {None, p.eid} THEN [table EXCEPT !.label = p.eid] ELSE table
      [] fig.kind = "label" ->
            IF fig.sid \in DOMAIN table.services
            THEN [table EXCEPT !.services[fig.sid].label = fig.sid] ELSE table

Walked(table, p, figs) == FoldLeft(LAMBDA t, fig : Told(t, p, fig), table, figs)

\* process_frame: the FIBs that pass, in order.
Processed(table, p, clean) ==
    LET fibs == Fibs(p)
        Took(t, k) == IF k \in clean THEN Walked(t, p, fibs[k]) ELSE t
    IN FoldLeft(Took, table, [k \in 1..FibsPerFrame |-> k])

-----------------------------------------------------------------------------
(* The sub-channels.                                                       *)

Resolved(plan) ==
    IF "uep" \in DOMAIN plan.prot
    THEN LET p == uep_profile(plan.prot.uep)
         IN IF p # NoProfile /\ p.size = plan.size THEN p ELSE NoProfile
    ELSE for_size(plan.size, plan.prot.level, plan.prot.option)

\* What TimeInterleaver::push sends at CIF r, for one residue of the bits:
\* the logical frame Delay back, or nothing yet.
Sent(id, r, residue) ==
    IF r >= since'[id] + Delay[residue]
    THEN [plan |-> air'.subs[id], n |-> r - Delay[residue]] ELSE None

\* The fragment a plan cuts out of CIF r.
Fragment(id, plan, r) ==
    [residue \in 0..(Depth - 1) |->
        IF id \in SubIds(air') /\ air'.subs[id] = plan THEN Sent(id, r, residue) ELSE None]

NewHandler(plan) == [plan |-> plan, received |-> 0, ring |-> [slot \in 0..(Depth - 1) |-> <<>>]]

\* TimeDeinterleaver::push reads the ring before it stores the fragment.
Read(h, residue) == h.ring[(h.received + Delay[residue]) % Depth][residue]

\* The logical frames whose bits come out as one; none while it fills.
Deinterleaved(h) ==
    IF h.received < Depth THEN {} ELSE {Read(h, residue) : residue \in 0..(Depth - 1)}

\* push_cif: a plan past the end of the CIF gives nothing.
Pushed(id, h, r) ==
    IF h.plan.start + h.plan.size > CuPerCif THEN h
    ELSE [h EXCEPT !.ring[h.received % Depth] = Fragment(id, h.plan, r), !.received = @ + 1]

\* sync: a handler for every sub-channel whose protection is defined, a new
\* one where the plan changed.
Synced(table) ==
    [id \in {i \in DOMAIN table.subs : Resolved(table.subs[i]) # NoProfile} |->
        IF id \in DOMAIN handlers /\ handlers[id].plan = table.subs[id]
        THEN handlers[id] ELSE NewHandler(table.subs[id])]

-----------------------------------------------------------------------------
(* A frame, or what befalls one.                                           *)

\* What a CIF gives: each handler reads its ring, then stores the fragment.
PushCif(before, r) ==
    [h |-> [id \in DOMAIN before |-> Pushed(id, before[id], r)],
     out |-> [id \in DOMAIN before |->
                 IF before[id].plan.start + before[id].plan.size > CuPerCif
                 THEN {} ELSE Deinterleaved(before[id])]]

\* push_frame: the frame's CIFs, one after the other; out is what the last
\* gave.
PushFrame(synced) ==
    LET upto[k \in 0..CifsPerFrame] ==
            IF k = 0 THEN [h |-> synced, out |-> [id \in DOMAIN synced |-> {}]]
            ELSE PushCif(upto[k - 1].h, cif + k - 1)
    IN handlers' = upto[CifsPerFrame].h /\ out' = upto[CifsPerFrame].out

\* A frame that is accepted; the FIBs in `clean' pass their CRC.
Accept(clean) ==
    /\ ens' = Processed(ens, air', clean)
    /\ PushFrame(Synced(ens'))
    /\ fresh' = [id \in SubIds(air') |->
                    IF id \in DOMAIN ens'.subs /\ ens'.subs[id] = air'.subs[id]
                    THEN CifsPerFrame + IF id \in DOMAIN fresh /\ since'[id] # cif THEN fresh[id] ELSE 0
                    ELSE 0]
    /\ heard' = (clean = 1..FibsPerFrame)

\* MscDecoder::discard, over a hole.
Discarded == [id \in DOMAIN handlers |-> [handlers[id] EXCEPT !.received = 0]]

\* The multiplexer goes on, or changes at a frame; a sub-channel whose plan
\* stays is sent on.
OnAir(p) ==
    /\ air' = p
    /\ since' = [id \in SubIds(p) |->
                    IF id \in SubIds(air) /\ air.subs[id] = p.subs[id] THEN since[id] ELSE cif]

Goes == cif + CifsPerFrame <= MaxCifs /\ cif' = cif + CifsPerFrame

Frame == Goes /\ \E p \in Programmes, clean \in Damages : OnAir(p) /\ Accept(clean)

\* The frame is lost, and the owner or the grid says so.
Hole ==
    /\ Goes /\ OnAir(air)
    /\ handlers' = Discarded
    /\ out' = [id \in DOMAIN handlers |-> {}]
    /\ fresh' = [id \in DOMAIN fresh |-> 0]
    /\ UNCHANGED ens /\ heard' = FALSE

\* expire: the handlers go with the table at the next sync.
Expire ==
    /\ ens' = NoEnsemble /\ handlers' = Discarded
    /\ out' = [id \in DOMAIN handlers |-> {}]
    /\ fresh' = [id \in DOMAIN fresh |-> 0]
    /\ heard' = FALSE /\ UNCHANGED <<air, since, cif>>

Init ==
    /\ air \in Programmes /\ since = [id \in SubIds(air) |-> 0] /\ cif = 0
    /\ ens = NoEnsemble /\ handlers = <<>> /\ out = <<>>
    /\ fresh = [id \in SubIds(air) |-> 0] /\ heard = FALSE

Next == Frame \/ Hole \/ Expire

Spec == Init /\ [][Next]_vars

-----------------------------------------------------------------------------
(* Correctness properties.                                                 *)

\* A sub-channel that was received in one piece under its plan for longer
\* than the interleaver is deep gives its logical frames, whole and in
\* order, Depth CIFs late; whatever was lost, expired or reconfigured before.
GivesWhatWasSent ==
    \A id \in SubIds(air) :
        /\ fresh[id] > Depth /\ Resolved(air.subs[id]) # NoProfile
           /\ air.subs[id].start + air.subs[id].size <= CuPerCif
        => id \in DOMAIN out /\ out[id] = {[plan |-> air.subs[id], n |-> cif - 1 - Depth]}

\* No logical frame is put together of two, whatever was lost in between,
\* nor of bits sent under another plan than the handler's.
NothingMixed ==
    \A id \in DOMAIN out : \A f, g \in out[id] \ {None} : f = g /\ f.plan = handlers[id].plan

\* A frame whose FIBs all pass tells everything of the ensemble, whatever
\* was heard of it before.
CleanFrameTells ==
    heard =>
        /\ ens.eid = air.eid /\ ens.label = air.eid
        /\ \A id \in SubIds(air) : id \in DOMAIN ens.subs /\ ens.subs[id] = air.subs[id]
        /\ \A s \in Services(air) :
              s \in DOMAIN ens.services /\ ens.services[s] = [label |-> s, sub |-> air.services[s]]

\* "The ensemble as the FIC describes it": what it no longer describes goes.
\* (The code never takes a service or a sub-channel out of the table.)
TableIsDescribed == heard => DOMAIN ens.services = Services(air)
=============================================================================
