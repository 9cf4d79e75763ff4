---------------------------- MODULE CatalogState ----------------------------
(***************************************************************************)
(* The in-memory state of the signal catalog (neowon-catalog): entities    *)
(* with references between them, merge redirects, tombstones, and the      *)
(* (signal, time, id) index behind history.  State::apply is its only      *)
(* mutator; each of its ops is an action here, enabled exactly when apply  *)
(* accepts the op.  A refused op changes nothing and has no action.        *)
(*                                                                         *)
(* Names, aliases, tags, notes and numbers are one `label' per entity: no  *)
(* property looks inside them.  A band plan entry and a survey, which      *)
(* refer to nothing and are referred to by nothing, share the kind "plan". *)
(***************************************************************************)
EXTENDS Integers, FiniteSets

CONSTANTS
    MaxId,      \* bound: the largest id an entity takes
    Kinds,      \* the kinds of entity in play
    Labels,     \* what an edit of a name, tag or number can leave
    Times,      \* start times of observations
    MaxRedirectDepth   \* MAX_REDIRECT_DEPTH, 16 in the code

NoId == 0
Ids  == 1..MaxId

AllKinds == {"signal", "source", "emitter", "transmission", "observation", "plan"}

ASSUME CatalogAssumption ==
    /\ MaxId \in Nat /\ MaxRedirectDepth \in Nat \ {0}
    /\ Kinds \subseteq AllKinds
    /\ Labels # {} /\ Times # {}

VARIABLES
    entities,    \* State::entities: the live entities by id
    redirects,   \* State::redirects: a merged id to the id it went into
    tombstones,  \* State::tombstones: the ids retired
    history,     \* State::history: the ObsIndex
    nextId       \* State::next_id

vars == <<entities, redirects, tombstones, history, nextId>>

Live == DOMAIN entities

\* `of' is the entity's owner: the signal of an observation or transmission, the
\* optional source of a signal or emitter.  `tx' is an observation's optional
\* transmission.
Fields == [kind : Kinds, of : Ids \cup {NoId}, tx : Ids \cup {NoId},
           pinned : BOOLEAN, label : Labels, at : Times]

Pinnable == {"signal", "source", "emitter", "plan"}
Named    == {"signal", "source", "emitter"}

Entity == {e \in Fields :
             /\ e.kind \in {"observation", "transmission"} => e.of # NoId
             /\ e.kind \in {"source", "plan"} => e.of = NoId
             /\ e.kind # "observation" => e.tx = NoId /\ e.at = CHOOSE t \in Times : TRUE
             /\ e.pinned => e.kind \in Pinnable}

IsLive(id, kind) == id \in Live /\ entities[id].kind = kind

\* problems_of / check_refs: the references of one entity name live entities of
\* the right kind.
RefsHold(e) ==
    /\ e.kind \in {"observation", "transmission"} => IsLive(e.of, "signal")
    /\ e.kind \in {"signal", "emitter"} /\ e.of # NoId => IsLive(e.of, "source")
    /\ e.kind = "observation" /\ e.tx # NoId => IsLive(e.tx, "transmission")

\* The index entry of an entity, and the entries of the entities f has at S.
Key(id, e) == IF e.kind = "observation" THEN {<<e.of, e.at, id>>} ELSE {}
Keys(f, S) == UNION {Key(i, f[i]) : i \in S}

\* resolve: following redirects from id, t is the first id that has none.
ResolvesTo(id, t) ==
    \E n \in 0..MaxRedirectDepth : \E path \in [0..n -> Ids] :
        /\ path[0] = id /\ path[n] = t
        /\ t \notin DOMAIN redirects
        /\ \A i \in 0..(n - 1) : /\ path[i] \in DOMAIN redirects
                                 /\ path[i + 1] = redirects[path[i]]

\* The redirects that do not lead into S.
RedirectsOutside(S) ==
    [i \in {j \in DOMAIN redirects : redirects[j] \notin S} |-> redirects[i]]

-----------------------------------------------------------------------------
(* put, take and retire, for the entities at the ids of a set at once.     *)
Put(S, new) ==
    /\ entities' = [i \in Live \cup S |-> IF i \in S THEN new[i] ELSE entities[i]]
    /\ history' = (history \ Keys(entities, Live \cap S)) \cup Keys(new, S)

Retire(S) ==
    /\ entities' = [i \in Live \ S |-> entities[i]]
    /\ history' = history \ Keys(entities, Live \cap S)
    /\ tombstones' = tombstones \cup (Live \cap S)
    /\ redirects' = RedirectsOutside(S)

PutOne(id, e) == Put({id}, [i \in {id} |-> e])

\* entity_mut: an edit in place, which leaves the index alone.
Edit(id, e) == /\ entities' = [entities EXCEPT ![id] = e]
               /\ UNCHANGED <<redirects, tombstones, history, nextId>>

Larger(m, n) == IF m > n THEN m ELSE n

-----------------------------------------------------------------------------
(* The ops.                                                                *)
AllocId == /\ nextId < MaxId
           /\ nextId' = nextId + 1
           /\ UNCHANGED <<entities, redirects, tombstones, history>>

\* The id must be fresh; a replayed insert may take one this state never
\* handed out, and moves next_id past it.
Insert(id, e) ==
    /\ id \notin Live \cup DOMAIN redirects \cup tombstones
    /\ RefsHold(e)
    /\ nextId' = Larger(nextId, id)
    /\ PutOne(id, e)
    /\ UNCHANGED <<redirects, tombstones>>

\* Changed form: the tombstone stays.
RestoreBuried(id, e) ==
    /\ id \in tombstones /\ id \notin DOMAIN redirects
    /\ RefsHold(e)
    /\ PutOne(id, e)
    /\ UNCHANGED <<redirects, tombstones, nextId>>

MayRestore(id, e) ==
    /\ id \in tombstones /\ id \notin DOMAIN redirects
    /\ RefsHold(e)

Restore(id, e) ==
    /\ MayRestore(id, e)
    /\ PutOne(id, e)
    /\ tombstones' = tombstones \ {id}
    /\ UNCHANGED <<redirects, nextId>>

\* Replace (the op an undo commits) and Edit of a field: an entity of the same
\* kind in the old one's place.  An edit may not touch the pin (FROZEN).
MayReplace(id, e) ==
    /\ id \in Live /\ entities[id].kind = e.kind
    /\ RefsHold(e)

Replace(id, e) ==
    /\ MayReplace(id, e)
    /\ PutOne(id, e)
    /\ UNCHANGED <<redirects, tombstones, nextId>>

EditField(id, e) == id \in Live /\ e.pinned = entities[id].pinned /\ Replace(id, e)

\* Rename, Alias, Unalias and Tag.
Relabel(id, label) ==
    /\ id \in Live /\ entities[id].kind \in Named
    /\ Edit(id, [entities[id] EXCEPT !.label = label])

\* Changed form of Pin: a record can be pinned too.
PinAny(id, on) == id \in Live /\ Edit(id, [entities[id] EXCEPT !.pinned = on])

Pin(id, on) ==
    /\ id \in Live /\ entities[id].kind \in Pinnable
    /\ Edit(id, [entities[id] EXCEPT !.pinned = on])

\* Merging `from' into t: the observations and transmissions of `from' move to
\* t, redirects into `from' are pointed straight at t, and `from' leaves a
\* redirect and a tombstone.
Moved(from) == {i \in Live : /\ entities[i].kind \in {"observation", "transmission"}
                             /\ entities[i].of = from}
Rehomed(i, t) == [entities[i] EXCEPT !.of = t]

\* Changed form: what moves keeps its old index entries.
NotRekeyed(from, t) == history
Rekeyed(from, t) == (history \ Keys(entities, Moved(from)))
                       \cup UNION {Key(i, Rehomed(i, t)) : i \in Moved(from)}

\* The target takes over the pin.
MergedTarget(from, t) == [entities[t] EXCEPT !.pinned = @ \/ entities[from].pinned]

\* Changed form: redirects into `from' are not compressed.
ChainedRedirects(from, t) ==
    [i \in DOMAIN redirects \cup {from} |-> IF i = from THEN t ELSE redirects[i]]
Compressed(from, t) ==
    [i \in DOMAIN redirects \cup {from} |->
        IF i = from \/ redirects[i] = from THEN t ELSE redirects[i]]

MergeInto(from, t) ==
    /\ entities' = [i \in Live \ {from} |->
                      IF i \in Moved(from) THEN Rehomed(i, t)
                      ELSE IF i = t THEN MergedTarget(from, t) ELSE entities[i]]
    /\ history' = Rekeyed(from, t)
    /\ redirects' = Compressed(from, t)
    /\ tombstones' = tombstones \cup {from}

\* The target is the signal `to' resolves to.
Merge(from, to) ==
    /\ from # to /\ IsLive(from, "signal")
    /\ \E t \in Ids : /\ ResolvesTo(to, t) /\ t # from /\ IsLive(t, "signal")
                      /\ MergeInto(from, t)
    /\ UNCHANGED nextId

\* referrers: every entity that names id.
Referrers(id) == {i \in Live : id \in {entities[i].of, entities[i].tx}}

\* referrers_deep: everything that would dangle if id went, the smallest set
\* that holds its referrers and is closed under theirs.
Closed(id, S) == Referrers(id) \subseteq S /\ \A i \in S : Referrers(i) \subseteq S

\* Changed form: only what names id itself.
ReferrersDirect(id) == Referrers(id)
ReferrersDeep(id) == {i \in Live : \A S \in SUBSET Live : Closed(id, S) => i \in S}

\* Changed form of Delete: the pin is not looked at.
DeleteAny(id, cascade) ==
    /\ id \in Live
    /\ cascade \/ ReferrersDeep(id) = {}
    /\ Retire({id} \cup ReferrersDeep(id))
    /\ UNCHANGED nextId

MayDelete(id, cascade) ==
    /\ id \in Live /\ ~entities[id].pinned
    /\ cascade \/ ReferrersDeep(id) = {}

Delete(id, cascade) ==
    /\ MayDelete(id, cascade)
    /\ Retire({id} \cup ReferrersDeep(id))
    /\ UNCHANGED nextId

\* Pinned signals, and ids that are no signal, are skipped.
Purge(ids, cascade) ==
    LET doomed == {i \in ids : IsLive(i, "signal") /\ ~entities[i].pinned}
        refs   == UNION {ReferrersDeep(i) : i \in doomed}
    IN /\ cascade \/ refs = {}
       /\ Retire(doomed \cup refs)
       /\ UNCHANGED nextId

-----------------------------------------------------------------------------
Init ==
    /\ entities = <<>> /\ redirects = <<>>
    /\ tombstones = {} /\ history = {} /\ nextId = 0

Next ==
    \/ AllocId
    \/ \E id \in Ids, e \in Entity : Insert(id, e) \/ Restore(id, e)
    \/ \E id \in Ids, e \in Entity : Replace(id, e) \/ EditField(id, e)
    \/ \E id \in Ids, label \in Labels : Relabel(id, label)
    \/ \E id \in Ids, on \in BOOLEAN : Pin(id, on)
    \/ \E from, to \in Ids : Merge(from, to)
    \/ \E id \in Ids, cascade \in BOOLEAN : Delete(id, cascade)
    \/ \E ids \in SUBSET Ids, cascade \in BOOLEAN : Purge(ids, cascade)

Spec == Init /\ [][Next]_vars

-----------------------------------------------------------------------------
(* Correctness properties.                                                 *)
TypeOK ==
    /\ Live \subseteq Ids /\ entities \in [Live -> Entity]
    /\ DOMAIN redirects \subseteq Ids /\ redirects \in [DOMAIN redirects -> Ids]
    /\ tombstones \subseteq Ids
    /\ history \subseteq Ids \X Times \X Ids
    /\ nextId \in 0..MaxId

\* integrity(), the references: no op leaves a live entity naming one that is
\* gone or is of another kind.
NothingDangles == \A i \in Live : RefsHold(entities[i])

\* integrity(), the redirects: every merged id leads, in one hop, to a live
\* signal, and is not itself live.
RedirectsSound ==
    \A i \in DOMAIN redirects : /\ i \notin Live
                                /\ IsLive(redirects[i], "signal")

\* The derived index is what a rebuild from the entities would give: no op
\* moves an observation behind its back, so history shows every observation
\* of a signal and no other.
HistoryInStep == history = Keys(entities, Live)

\* An id is never handed out twice, and one that is retired stays accounted for.
IdsSpent ==
    /\ \A i \in Live \cup DOMAIN redirects \cup tombstones : i <= nextId
    /\ Live \cap tombstones = {} /\ DOMAIN redirects \subseteq tombstones

\* A pin protects an entity from any op that names it or a purge that sweeps
\* by it: it goes only into a merge, whose target is then pinned, or with the
\* source it belongs to.
PinStep ==
    \A i \in Live : entities[i].pinned /\ i \notin Live' =>
        \/ i \in DOMAIN redirects' /\ entities'[redirects'[i]].pinned
        \/ entities[i].of \in Live \ Live'

PinHolds == [][PinStep]_vars

=============================================================================
