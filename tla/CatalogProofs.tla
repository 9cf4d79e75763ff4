--------------------------- MODULE CatalogProofs ----------------------------
(***************************************************************************)
(* The catalog and its undo, for every number of ids and every length of   *)
(* the history.                                                            *)
(*                                                                         *)
(* The state stays sound under every op: no reference dangles, redirects   *)
(* are one hop and end at a live signal, and the history index is what a   *)
(* rebuild would give.  The newest inverse of the undo history is always   *)
(* accepted, and brings back what was there: the invariant is a chain,     *)
(* where each inverse fits the state that the next newer one brings back   *)
(* (the newest fits the state there is now), and takes it to the state     *)
(* recorded for it.                                                        *)
(***************************************************************************)
EXTENDS CatalogSession, TLAPS

-----------------------------------------------------------------------------
(* The state.                                                              *)

Sound == TypeOK /\ NothingDangles /\ RedirectsSound /\ HistoryInStep /\ IdsSpent

\* The members of the index of the entities at S.
LEMMA KeysMembers ==
    ASSUME NEW f, NEW S, NEW k
    PROVE  k \in Keys(f, S)
             <=> \E i \in S : f[i].kind = "observation" /\ k = <<f[i].of, f[i].at, i>>
  BY DEF Keys, Key

\* An index that followed the entities at S is in step with all of them when the
\* others are as they were.
LEMMA IndexFollows ==
    ASSUME NEW S, Live \ S = Live' \ S, \A i \in Live \ S : entities'[i] = entities[i]
    PROVE  Keys(entities', Live') = (Keys(entities, Live) \ Keys(entities, Live \cap S))
                                       \cup Keys(entities', Live' \cap S)
<1>1. ASSUME NEW k
      PROVE  k \in Keys(entities', Live')
               <=> k \in (Keys(entities, Live) \ Keys(entities, Live \cap S))
                            \cup Keys(entities', Live' \cap S)
  <2>1. k \in Keys(entities', Live')
          <=> k \in Keys(entities', Live' \ S) \/ k \in Keys(entities', Live' \cap S)
    BY KeysMembers
  <2>2. k \in Keys(entities', Live' \ S) <=> k \in Keys(entities, Live \ S)
    BY KeysMembers
  <2>3. k \in Keys(entities, Live \ S)
          <=> k \in Keys(entities, Live) \ Keys(entities, Live \cap S)
    <3>1. ASSUME NEW i, NEW j, <<entities[i].of, entities[i].at, i>>
                                  = <<entities[j].of, entities[j].at, j>>
          PROVE  i = j
      BY <3>1
    <3> QED BY <3>1, KeysMembers
  <2> QED BY <2>1, <2>2, <2>3
<1> QED BY <1>1

\* The index's type follows from its being in step.
LEMMA HistoryTypeNext ==
    ASSUME Live' \subseteq Ids, entities' \in [Live' -> Entity], HistoryInStep'
    PROVE  history' \subseteq Ids \X Times \X Ids
<1>1. ASSUME NEW k \in Keys(entities', Live') PROVE k \in Ids \X Times \X Ids
  <2>1. PICK i \in Live' : entities'[i].kind = "observation"
                             /\ k = <<entities'[i].of, entities'[i].at, i>>
    BY <1>1, KeysMembers
  <2>2. entities'[i] \in Entity
    OBVIOUS
  <2>3. entities'[i].of \in Ids /\ entities'[i].at \in Times
    BY <2>1, <2>2 DEF Entity, Fields
  <2> QED BY <2>1, <2>3
<1> QED BY <1>1 DEF HistoryInStep

\* References that still name live entities of the right kind still hold.
LEMMA RefsMonotone ==
    ASSUME NEW e, RefsHold(e),
           \A i, k : (i = e.of \/ i = e.tx) /\ IsLive(i, k) => IsLive(i, k)'
    PROVE  RefsHold(e)'
  BY DEF RefsHold

-----------------------------------------------------------------------------
(* put: the entity is there, the others are as they were, and the index    *)
(* has followed.                                                           *)
LEMMA PutOneEffect ==
    ASSUME Sound, NEW id \in Ids, NEW e \in Entity, PutOne(id, e)
    PROVE  /\ Live' = Live \cup {id}
           /\ entities' \in [Live' -> Entity]
           /\ entities'[id] = e
           /\ \A i \in Live \ {id} : entities'[i] = entities[i]
           /\ HistoryInStep'
<1> DEFINE new == [i \in {id} |-> e]
<1>1. /\ entities' = [i \in Live \cup {id} |-> IF i \in {id} THEN new[i] ELSE entities[i]]
      /\ history' = (history \ Keys(entities, Live \cap {id})) \cup Keys(new, {id})
  BY DEF PutOne, Put
<1>2. /\ Live' = Live \cup {id}
      /\ entities'[id] = e
      /\ \A i \in Live \ {id} : entities'[i] = entities[i]
  BY <1>1 DEF Live
<1>3. entities' \in [Live' -> Entity]
  BY <1>1, <1>2 DEF Sound, TypeOK, Live
<1>4. Keys(entities', Live') = (Keys(entities, Live) \ Keys(entities, Live \cap {id}))
                                  \cup Keys(entities', Live' \cap {id})
  <2>1. Live \ {id} = Live' \ {id}
    BY <1>2
  <2> HIDE DEF Live
  <2> QED BY <1>2, <2>1, IndexFollows
<1>5. Keys(entities', Live' \cap {id}) = Keys(new, {id})
  BY <1>2 DEF Keys
<1>6. HistoryInStep'
  BY <1>1, <1>4, <1>5 DEF Sound, HistoryInStep
<1> QED BY <1>2, <1>3, <1>6

\* A put that keeps the kind of what it replaces leaves every live entity of a
\* kind live and of that kind.
LEMMA PutKeepsLive ==
    ASSUME Sound, NEW id \in Ids, NEW e \in Entity, PutOne(id, e),
           id \in Live => entities[id].kind = e.kind
    PROVE  \A i, k : IsLive(i, k) => IsLive(i, k)'
<1>1. /\ Live' = Live \cup {id} /\ entities'[id] = e
      /\ \A i \in Live \ {id} : entities'[i] = entities[i]
  BY PutOneEffect
<1> QED BY <1>1 DEF IsLive

\* A put of an entity whose references hold leaves none dangling.
LEMMA PutKeepsRefs ==
    ASSUME Sound, NEW id \in Ids, NEW e \in Entity, PutOne(id, e), RefsHold(e),
           id \in Live => entities[id].kind = e.kind
    PROVE  NothingDangles'
<1>1. /\ Live' = Live \cup {id} /\ entities'[id] = e
      /\ \A i \in Live \ {id} : entities'[i] = entities[i]
  BY PutOneEffect
<1>2. \A i, k : IsLive(i, k) => IsLive(i, k)'
  BY PutKeepsLive
<1>3. ASSUME NEW i \in Live' PROVE RefsHold(entities[i])'
  <2>1. CASE i = id
    <3>1. RefsHold(e)'
      BY <1>2, RefsMonotone
    <3> QED BY <1>1, <2>1, <3>1 DEF RefsHold, IsLive, Live
  <2>2. CASE i # id
    <3>1. i \in Live /\ entities'[i] = entities[i]
      BY <1>1, <1>3, <2>2
    <3>2. RefsHold(entities[i])
      BY <3>1 DEF Sound, NothingDangles
    <3> QED BY <1>2, <3>1, <3>2 DEF RefsHold, IsLive, Live
  <2> QED BY <2>1, <2>2
<1> QED BY <1>3 DEF NothingDangles

\* A put at an id that is not merged away leaves every redirect sound.
LEMMA PutKeepsRedirects ==
    ASSUME Sound, NEW id \in Ids, NEW e \in Entity, PutOne(id, e), UNCHANGED redirects,
           id \notin DOMAIN redirects, id \in Live => entities[id].kind = e.kind
    PROVE  RedirectsSound'
<1>1. Live' = Live \cup {id}
  BY PutOneEffect
<1>2. \A i, k : IsLive(i, k) => IsLive(i, k)'
  BY PutKeepsLive
<1> QED BY <1>1, <1>2 DEF Sound, RedirectsSound, IsLive, Live

\* Insert leaves the catalog sound.
LEMMA InsertSound ==
    ASSUME Sound, CatalogAssumption, NEW id \in Ids, NEW e \in Entity, Insert(id, e)
    PROVE  Sound'
<1>1. /\ id \notin Live /\ id \notin DOMAIN redirects /\ id \notin tombstones
      /\ RefsHold(e) /\ PutOne(id, e) /\ UNCHANGED <<redirects, tombstones>>
      /\ nextId' = Larger(nextId, id)
  BY DEF Insert
<1>2. /\ Live' = Live \cup {id} /\ entities' \in [Live' -> Entity] /\ HistoryInStep'
  BY <1>1, PutOneEffect
<1>3. NothingDangles' /\ RedirectsSound'
  BY <1>1, PutKeepsRefs, PutKeepsRedirects
<1>4. nextId \in 0..MaxId /\ nextId' \in 0..MaxId /\ nextId <= nextId' /\ id <= nextId'
  BY <1>1 DEF Sound, TypeOK, Larger, Ids, CatalogAssumption
<1>5. IdsSpent'
  BY <1>1, <1>2, <1>4 DEF Sound, TypeOK, IdsSpent, Ids, Live, CatalogAssumption
<1>6. TypeOK'
  BY <1>1, <1>2, <1>4, HistoryTypeNext DEF Sound, TypeOK
<1> QED BY <1>2, <1>3, <1>5, <1>6 DEF Sound

\* Restore leaves the catalog sound.
LEMMA RestoreSound ==
    ASSUME Sound, CatalogAssumption, NEW id \in Ids, NEW e \in Entity, Restore(id, e)
    PROVE  Sound'
<1>1. /\ id \in tombstones /\ id \notin DOMAIN redirects
      /\ RefsHold(e) /\ PutOne(id, e) /\ UNCHANGED <<redirects, nextId>>
      /\ tombstones' = tombstones \ {id}
  BY DEF Restore, MayRestore
<1>2. id \notin Live
  BY <1>1 DEF Sound, IdsSpent
<1>3. /\ Live' = Live \cup {id} /\ entities' \in [Live' -> Entity] /\ HistoryInStep'
  BY <1>1, PutOneEffect
<1>4. NothingDangles' /\ RedirectsSound'
  BY <1>1, <1>2, PutKeepsRefs, PutKeepsRedirects
<1>5. IdsSpent'
  BY <1>1, <1>3 DEF Sound, IdsSpent
<1>6. TypeOK'
  BY <1>1, <1>3, HistoryTypeNext DEF Sound, TypeOK
<1> QED BY <1>3, <1>4, <1>5, <1>6 DEF Sound

\* Replace, and so an edit of a field, leaves the catalog sound.
LEMMA ReplaceSound ==
    ASSUME Sound, NEW id \in Ids, NEW e \in Entity, Replace(id, e)
    PROVE  Sound'
<1>1. /\ id \in Live /\ entities[id].kind = e.kind
      /\ RefsHold(e) /\ PutOne(id, e) /\ UNCHANGED <<redirects, tombstones, nextId>>
  BY DEF Replace, MayReplace
<1>2. id \notin DOMAIN redirects
  BY <1>1 DEF Sound, RedirectsSound
<1>3. /\ Live' = Live /\ entities' \in [Live' -> Entity] /\ HistoryInStep'
  BY <1>1, PutOneEffect
<1>4. NothingDangles' /\ RedirectsSound'
  BY <1>1, <1>2, PutKeepsRefs, PutKeepsRedirects
<1>5. IdsSpent'
  BY <1>1, <1>3 DEF Sound, IdsSpent
<1>6. TypeOK'
  BY <1>1, <1>3, HistoryTypeNext DEF Sound, TypeOK
<1> QED BY <1>3, <1>4, <1>5, <1>6 DEF Sound

\* An edit in place may leave the index alone because it never touches an
\* observation, nor what an entity refers to.
LEMMA EditSound ==
    ASSUME Sound, NEW id \in Ids, NEW e \in Entity, id \in Live, Edit(id, e),
           entities[id].kind \in Pinnable,
           e.kind = entities[id].kind, e.of = entities[id].of, e.tx = entities[id].tx
    PROVE  Sound'
<1>1. /\ entities' = [entities EXCEPT ![id] = e]
      /\ UNCHANGED <<redirects, tombstones, history, nextId>>
  BY DEF Edit
<1>2. /\ Live' = Live /\ entities' \in [Live' -> Entity] /\ entities'[id] = e
      /\ \A i \in Live \ {id} : entities'[i] = entities[i]
  BY <1>1 DEF Sound, TypeOK, Live
<1>3. HistoryInStep'
  <2>1. ASSUME NEW k PROVE k \in Keys(entities', Live) <=> k \in Keys(entities, Live)
    <3>1. entities[id].kind # "observation" /\ e.kind # "observation"
      BY DEF Pinnable
    <3> QED BY <1>2, <3>1, KeysMembers
  <2> QED BY <1>1, <1>2, <2>1 DEF Sound, HistoryInStep
<1>4. \A i, k : IsLive(i, k) => IsLive(i, k)'
  BY <1>2 DEF IsLive
<1>5. NothingDangles'
  <2>1. ASSUME NEW i \in Live' PROVE RefsHold(entities[i])'
    <3>1. RefsHold(entities[i])
      BY <1>2, <2>1 DEF Sound, NothingDangles
    <3> QED BY <1>2, <1>4, <3>1 DEF RefsHold
  <2> QED BY <2>1 DEF NothingDangles
<1>6. RedirectsSound' /\ IdsSpent'
  BY <1>1, <1>2, <1>4 DEF Sound, RedirectsSound, IdsSpent
<1>7. TypeOK'
  BY <1>1, <1>2, <1>3, HistoryTypeNext DEF Sound, TypeOK
<1> QED BY <1>3, <1>5, <1>6, <1>7 DEF Sound

\* Rename, Alias, Unalias and Tag leave the catalog sound.
LEMMA RelabelSound ==
    ASSUME Sound, NEW id \in Ids, NEW label \in Labels, Relabel(id, label)
    PROVE  Sound'
<1> DEFINE e == [entities[id] EXCEPT !.label = label]
<1>1. id \in Live /\ entities[id].kind \in Named /\ Edit(id, e)
  BY DEF Relabel
<1>2. entities[id] \in Entity
  BY <1>1 DEF Sound, TypeOK
<1>3. e \in Entity
  BY <1>2 DEF Entity, Fields
<1>4. e.kind = entities[id].kind /\ e.of = entities[id].of /\ e.tx = entities[id].tx
  BY <1>2 DEF Entity, Fields
<1> QED BY <1>1, <1>3, <1>4, EditSound DEF Named, Pinnable

\* Pin leaves the catalog sound.
LEMMA PinSound ==
    ASSUME Sound, NEW id \in Ids, NEW on \in BOOLEAN, Pin(id, on)
    PROVE  Sound'
<1> DEFINE e == [entities[id] EXCEPT !.pinned = on]
<1>1. id \in Live /\ entities[id].kind \in Pinnable /\ Edit(id, e)
  BY DEF Pin
<1>2. entities[id] \in Entity
  BY <1>1 DEF Sound, TypeOK
<1>3. e \in Entity
  BY <1>1, <1>2 DEF Entity, Fields
<1>4. e.kind = entities[id].kind /\ e.of = entities[id].of /\ e.tx = entities[id].tx
  BY <1>2 DEF Entity, Fields
<1> QED BY <1>1, <1>3, <1>4, EditSound

-----------------------------------------------------------------------------
(* Deletion: what is retired is closed under referrers, so nothing that    *)
(* stays names anything that goes.                                         *)
LEMMA DeepClosed ==
    ASSUME NEW id
    PROVE  /\ ReferrersDeep(id) \subseteq Live
           /\ Referrers(id) \subseteq ReferrersDeep(id)
           /\ \A i \in ReferrersDeep(id) : Referrers(i) \subseteq ReferrersDeep(id)
<1>1. ASSUME NEW i \in Referrers(id) PROVE i \in ReferrersDeep(id)
  BY <1>1 DEF ReferrersDeep, Closed, Referrers
<1>2. ASSUME NEW i \in ReferrersDeep(id), NEW j \in Referrers(i) PROVE j \in ReferrersDeep(id)
  <2>1. ASSUME NEW S \in SUBSET Live, Closed(id, S) PROVE j \in S
    <3>1. i \in S
      BY <2>1 DEF ReferrersDeep
    <3> QED BY <2>1, <3>1, <1>2 DEF Closed
  <2>2. j \in Live
    BY <1>2 DEF Referrers
  <2> QED BY <2>1, <2>2 DEF ReferrersDeep
<1> QED BY <1>1, <1>2 DEF ReferrersDeep

\* Retiring a set closed under referrers leaves the catalog sound.
LEMMA RetireSound ==
    ASSUME Sound, CatalogAssumption, NEW S, S \subseteq Live, Retire(S), UNCHANGED nextId,
           \A i \in S : Referrers(i) \subseteq S
    PROVE  Sound'
<1>1. /\ entities' = [i \in Live \ S |-> entities[i]]
      /\ history' = history \ Keys(entities, Live \cap S)
      /\ tombstones' = tombstones \cup S
      /\ redirects' = RedirectsOutside(S)
  BY DEF Retire
<1>2. /\ Live' = Live \ S /\ entities' \in [Live' -> Entity]
      /\ \A i \in Live' : entities'[i] = entities[i]
  BY <1>1 DEF Sound, TypeOK, Live
<1>3. /\ DOMAIN redirects' = {j \in DOMAIN redirects : redirects[j] \notin S}
      /\ \A j \in DOMAIN redirects' : redirects'[j] = redirects[j]
      /\ redirects' \in [DOMAIN redirects' -> Ids]
  BY <1>1 DEF RedirectsOutside, Sound, TypeOK
<1>4. HistoryInStep'
  <2>1. Live \ S = Live' \ S
    BY <1>2
  <2>2. Live' \cap S = {} /\ \A i \in Live \ S : entities'[i] = entities[i]
    BY <1>2
  <2>3. Keys(entities', Live') = (Keys(entities, Live) \ Keys(entities, Live \cap S))
                                    \cup Keys(entities', Live' \cap S)
    BY <2>1, <2>2, IndexFollows
  <2>4. Keys(entities', Live' \cap S) = {}
    BY <2>2 DEF Keys
  <2> QED BY <1>1, <2>3, <2>4 DEF Sound, HistoryInStep
<1>5. \A i, k : i \notin S /\ IsLive(i, k) => IsLive(i, k)'
  BY <1>2 DEF IsLive
<1>6. NothingDangles'
  <2>1. ASSUME NEW i \in Live' PROVE RefsHold(entities[i])'
    <3>1. i \in Live /\ i \notin S /\ entities'[i] = entities[i] /\ RefsHold(entities[i])
      BY <1>2, <2>1 DEF Sound, NothingDangles
    <3>2. entities[i].of \notin S /\ entities[i].tx \notin S
      BY <3>1 DEF Referrers
    <3> QED BY <1>5, <3>1, <3>2 DEF RefsHold
  <2> QED BY <2>1 DEF NothingDangles
<1>7. RedirectsSound'
  BY <1>2, <1>3, <1>5 DEF Sound, RedirectsSound
<1>8. IdsSpent'
  BY <1>1, <1>2, <1>3 DEF Sound, IdsSpent
<1>9. TypeOK'
  BY <1>1, <1>2, <1>3, <1>4, HistoryTypeNext DEF Sound, TypeOK
<1> QED BY <1>4, <1>6, <1>7, <1>8, <1>9 DEF Sound

\* Delete, cascading or not, leaves the catalog sound.
LEMMA DeleteSound ==
    ASSUME Sound, CatalogAssumption, NEW id \in Ids, NEW cascade \in BOOLEAN, Delete(id, cascade)
    PROVE  Sound'
<1> DEFINE S == {id} \cup ReferrersDeep(id)
<1>1. id \in Live /\ Retire(S) /\ UNCHANGED nextId
  BY DEF Delete, MayDelete
<1>2. S \subseteq Live /\ \A i \in S : Referrers(i) \subseteq S
  BY <1>1, DeepClosed
<1> QED BY <1>1, <1>2, RetireSound

\* Purge, cascading or not, leaves the catalog sound.
LEMMA PurgeSound ==
    ASSUME Sound, CatalogAssumption, NEW ids \in SUBSET Ids, NEW cascade \in BOOLEAN,
           Purge(ids, cascade)
    PROVE  Sound'
<1> DEFINE doomed == {i \in ids : IsLive(i, "signal") /\ ~entities[i].pinned}
           refs   == UNION {ReferrersDeep(i) : i \in doomed}
           S      == doomed \cup refs
<1>1. Retire(S) /\ UNCHANGED nextId
  BY DEF Purge
<1>2. doomed \subseteq Live
  BY DEF IsLive
<1>3. ASSUME NEW i \in S PROVE i \in Live /\ Referrers(i) \subseteq S
  <2>1. CASE i \in doomed
    BY <1>2, <2>1, DeepClosed
  <2>2. CASE i \in refs
    <3>1. PICK d \in doomed : i \in ReferrersDeep(d)
      BY <2>2
    <3> QED BY <3>1, DeepClosed
  <2> QED BY <1>3, <2>1, <2>2
<1> HIDE DEF S
<1> QED BY <1>1, <1>3, RetireSound

-----------------------------------------------------------------------------
(* Merge: what named `from' names t, what redirected to it redirects to t, *)
(* and t, being live, is where no redirect starts.                         *)
LEMMA MergeSound ==
    ASSUME Sound, CatalogAssumption, NEW from \in Ids, NEW to \in Ids, Merge(from, to)
    PROVE  Sound'
<1>1. from # to /\ IsLive(from, "signal") /\ UNCHANGED nextId
  BY DEF Merge
<1>2. PICK t \in Ids : t # from /\ IsLive(t, "signal") /\ MergeInto(from, t)
  BY DEF Merge
<1> DEFINE M == Moved(from)
           dst == [entities[t] EXCEPT !.pinned = @ \/ entities[from].pinned]
<1>3. /\ M \subseteq Live /\ from \in Live \ M /\ t \in Live \ M
      /\ entities \in [Live -> Entity]
      /\ \A i \in M : /\ entities[i].kind \in {"observation", "transmission"}
                      /\ entities[i].of = from
  BY <1>1, <1>2 DEF Moved, IsLive, Sound, TypeOK
<1>4. /\ Live' = Live \ {from}
      /\ \A i \in M : entities'[i] = Rehomed(i, t)
      /\ entities'[t] = dst
      /\ \A i \in Live' \ (M \cup {t}) : entities'[i] = entities[i]
  BY <1>2, <1>3 DEF MergeInto, Rekeyed, MergedTarget, Compressed, Live
<1>5. ASSUME NEW i \in M
      PROVE  /\ Rehomed(i, t) \in Entity /\ Rehomed(i, t).of = t
             /\ Rehomed(i, t).kind = entities[i].kind
             /\ Rehomed(i, t).tx = entities[i].tx
  <2>1. entities[i] \in Entity /\ entities[i].kind \in {"observation", "transmission"}
    BY <1>3
  <2>2. Rehomed(i, t).of = t
    BY <2>1 DEF Rehomed, Entity, Fields
  <2>3. /\ Rehomed(i, t).kind = entities[i].kind
        /\ Rehomed(i, t).tx = entities[i].tx /\ Rehomed(i, t).at = entities[i].at
        /\ Rehomed(i, t).pinned = entities[i].pinned
    BY <2>1 DEF Rehomed, Entity, Fields
  <2>4. Rehomed(i, t) \in Fields
    BY <2>1 DEF Rehomed, Entity, Fields
  <2>5. t # NoId
    BY DEF Ids, NoId
  <2> QED BY <2>1, <2>2, <2>3, <2>4, <2>5 DEF Entity
<1>6. dst \in Entity /\ dst.kind = "signal" /\ dst.of = entities[t].of /\ dst.tx = entities[t].tx
  <2>1. entities[t] \in Entity /\ entities[t].kind = "signal"
    BY <1>2, <1>3 DEF IsLive
  <2>2. entities[from].pinned \in BOOLEAN
    BY <1>3 DEF Entity, Fields
  <2> QED BY <2>1, <2>2 DEF Entity, Fields, Pinnable
<1>7. entities' \in [Live' -> Entity]
  <2>1. ASSUME NEW i \in Live' PROVE entities'[i] \in Entity
    <3>1. CASE i \in M
      BY <1>4, <1>5, <3>1
    <3>2. CASE i = t
      BY <1>4, <1>6, <3>2
    <3>3. CASE i \notin M \cup {t}
      BY <1>3, <1>4, <2>1, <3>3
    <3> QED BY <3>1, <3>2, <3>3
  <2>2. entities' = [i \in Live' |-> entities'[i]]
    BY <1>2, <1>4 DEF MergeInto, Rekeyed, MergedTarget, Compressed, Live
  <2> QED BY <2>1, <2>2
<1>8. HistoryInStep'
  <2> DEFINE S == M \cup {from, t}
  <2>1. Live \ S = Live' \ S /\ \A i \in Live \ S : entities'[i] = entities[i]
    BY <1>4
  <2>2. Keys(entities', Live') = (Keys(entities, Live) \ Keys(entities, Live \cap S))
                                    \cup Keys(entities', Live' \cap S)
    <3> HIDE DEF S
    <3> QED BY <2>1, IndexFollows
  <2>3. ASSUME NEW k PROVE k \in Keys(entities, Live \cap S) <=> k \in Keys(entities, M)
    <3>1. entities[from].kind = "signal" /\ entities[t].kind = "signal"
      BY <1>1, <1>2 DEF IsLive
    <3> QED BY <1>3, <3>1, KeysMembers
  <2>4. ASSUME NEW k
        PROVE  k \in Keys(entities', Live' \cap S)
                 <=> k \in UNION {Key(i, Rehomed(i, t)) : i \in M}
    <3>1. entities'[t].kind = "signal"
      BY <1>4, <1>6
    <3>2. k \in Keys(entities', Live' \cap S) <=> k \in Keys(entities', M)
      <4>1. Live' \cap S = M \cup {t}
        BY <1>1, <1>2, <1>3, <1>4
      <4>2. k \in Keys(entities', M \cup {t}) <=> k \in Keys(entities', M)
        BY <3>1, KeysMembers
      <4> HIDE DEF M, S
      <4> QED BY <4>1, <4>2
    <3>3. \A i \in M : Key(i, entities'[i]) = Key(i, Rehomed(i, t))
      BY <1>4
    <3> QED BY <3>2, <3>3 DEF Keys
  <2>5. history' = (history \ Keys(entities, M)) \cup UNION {Key(i, Rehomed(i, t)) : i \in M}
    BY <1>2 DEF MergeInto, Rekeyed, MergedTarget, Compressed
  <2>6. Keys(entities, Live \cap S) = Keys(entities, M)
    BY <2>3
  <2>7. Keys(entities', Live' \cap S) = UNION {Key(i, Rehomed(i, t)) : i \in M}
    BY <2>4
  <2> HIDE DEF S, M
  <2> QED BY <2>2, <2>5, <2>6, <2>7 DEF Sound, HistoryInStep
<1>9. \A i, k : i # from /\ IsLive(i, k) => IsLive(i, k)'
  <2>1. ASSUME NEW i, NEW k, i # from, IsLive(i, k) PROVE i \in Live' /\ entities'[i].kind = k
    <3>1. i \in Live' /\ entities[i].kind = k
      BY <1>4, <2>1 DEF IsLive
    <3>2. CASE i \in M
      BY <1>4, <1>5, <3>1, <3>2
    <3>3. CASE i = t
      BY <1>2, <1>4, <1>6, <3>1, <3>3 DEF IsLive
    <3>4. CASE i \notin M \cup {t}
      BY <1>4, <3>1, <3>4
    <3> QED BY <3>1, <3>2, <3>3, <3>4
  <2> QED BY <2>1 DEF IsLive
<1>10. NothingDangles'
  <2>1. ASSUME NEW i \in Live' PROVE RefsHold(entities[i])'
    <3>1. i \in Live /\ i # from /\ entities[i] \in Entity /\ RefsHold(entities[i])
      BY <1>3, <1>4, <2>1 DEF Sound, NothingDangles
    <3>2. IsLive(t, "signal")'
      BY <1>2, <1>9
    <3>3. CASE i \in M
      <4>1. /\ entities'[i].of = t /\ entities'[i].kind = entities[i].kind
            /\ entities'[i].tx = entities[i].tx
            /\ entities[i].kind \in {"observation", "transmission"}
        BY <1>3, <1>4, <1>5, <3>3
      <4>2. entities[i].tx # from
        BY <1>1, <3>1, <4>1 DEF RefsHold, IsLive, Entity, NoId, Ids
      <4> QED BY <1>9, <3>1, <3>2, <4>1, <4>2 DEF RefsHold
    <3>4. CASE i \notin M
      <4>1. /\ entities'[i].of = entities[i].of /\ entities'[i].kind = entities[i].kind
            /\ entities'[i].tx = entities[i].tx
        BY <1>2, <1>4, <1>6, <2>1, <3>4 DEF IsLive
      <4>2. entities[i].kind \in {"observation", "transmission"} => entities[i].of # from
        BY <3>1, <3>4 DEF Moved
      <4>3. entities[i].kind \notin {"observation", "transmission"} /\ entities[i].of # NoId
              => entities[i].of # from
        BY <1>1, <3>1 DEF RefsHold, IsLive, Entity, Fields, AllKinds
      <4>4. entities[i].kind = "observation" /\ entities[i].tx # NoId => entities[i].tx # from
        BY <1>1, <3>1 DEF RefsHold, IsLive
      <4> QED BY <1>9, <3>1, <4>1, <4>2, <4>3, <4>4 DEF RefsHold
    <3> QED BY <3>3, <3>4
  <2> QED BY <2>1 DEF NothingDangles
<1>11. /\ DOMAIN redirects' = DOMAIN redirects \cup {from}
       /\ \A i \in DOMAIN redirects' :
             redirects'[i] = t \/ (i \in DOMAIN redirects /\ redirects'[i] = redirects[i]
                                     /\ redirects[i] # from)
       /\ redirects' \in [DOMAIN redirects' -> Ids]
       /\ tombstones' = tombstones \cup {from}
  BY <1>2 DEF MergeInto, Rekeyed, MergedTarget, Compressed, Sound, TypeOK
<1>12. RedirectsSound'
  <2>1. ASSUME NEW i \in DOMAIN redirects'
        PROVE  i \notin Live' /\ IsLive(redirects[i], "signal")'
    <3>1. IsLive(t, "signal")'
      BY <1>2, <1>9
    <3>2. i \notin Live'
      BY <1>4, <1>11, <2>1 DEF Sound, RedirectsSound
    <3>3. IsLive(redirects[i], "signal")'
      BY <1>9, <1>11, <2>1, <3>1 DEF Sound, RedirectsSound, IsLive
    <3> QED BY <3>2, <3>3
  <2> QED BY <2>1 DEF RedirectsSound
<1>13. IdsSpent'
  BY <1>1, <1>3, <1>4, <1>11 DEF Sound, IdsSpent
<1>14. TypeOK'
  BY <1>1, <1>3, <1>4, <1>7, <1>8, <1>11, HistoryTypeNext DEF Sound, TypeOK
<1> QED BY <1>8, <1>10, <1>12, <1>13, <1>14 DEF Sound

-----------------------------------------------------------------------------
\* The empty catalog is sound.
LEMMA InitSound ==
    ASSUME CatalogAssumption, Init
    PROVE  Sound
  BY DEF Init, Sound, TypeOK, NothingDangles, RedirectsSound, HistoryInStep, IdsSpent,
         Live, Keys, CatalogAssumption

\* Soundness is about the variables of the catalog only.
LEMMA StutterSound ==
    ASSUME Sound, UNCHANGED vars
    PROVE  Sound'
  BY DEF vars, Sound, TypeOK, NothingDangles, RedirectsSound, HistoryInStep, IdsSpent,
         Live, RefsHold, IsLive

\* Every op leaves the catalog sound.
LEMMA NextSound ==
    ASSUME CatalogAssumption, Sound, Next
    PROVE  Sound'
<1>1. CASE AllocId
  <2>1. nextId' \in 0..MaxId /\ nextId <= nextId' /\ UNCHANGED <<entities, redirects, tombstones, history>>
    BY <1>1 DEF AllocId, Sound, TypeOK, CatalogAssumption
  <2>2. IdsSpent'
    BY <2>1 DEF Sound, TypeOK, IdsSpent, Live, Ids, CatalogAssumption
  <2> QED BY <2>1, <2>2 DEF Sound, TypeOK, NothingDangles, RedirectsSound, HistoryInStep,
                            Live, RefsHold, IsLive
<1>2. CASE \E id \in Ids, e \in Entity : Insert(id, e) \/ Restore(id, e)
  BY <1>2, InsertSound, RestoreSound
<1>3. CASE \E id \in Ids, e \in Entity : Replace(id, e) \/ EditField(id, e)
  BY <1>3, ReplaceSound DEF EditField
<1>4. CASE \E id \in Ids, label \in Labels : Relabel(id, label)
  BY <1>4, RelabelSound
<1>5. CASE \E id \in Ids, on \in BOOLEAN : Pin(id, on)
  BY <1>5, PinSound
<1>6. CASE \E from, to \in Ids : Merge(from, to)
  BY <1>6, MergeSound
<1>7. CASE \E id \in Ids, cascade \in BOOLEAN : Delete(id, cascade)
  BY <1>7, DeleteSound
<1>8. CASE \E ids \in SUBSET Ids, cascade \in BOOLEAN : Purge(ids, cascade)
  BY <1>8, PurgeSound
<1> QED BY <1>1, <1>2, <1>3, <1>4, <1>5, <1>6, <1>7, <1>8 DEF Next

\* Every op leaves the catalog sound.
THEOREM CatalogSound == Spec => []Sound
<1>1. Init => Sound
  BY CatalogAssumption, InitSound
<1>2. Sound /\ [Next]_vars => Sound'
  BY CatalogAssumption, NextSound, StutterSound
<1> QED BY <1>1, <1>2, PTL DEF Spec

\* Entities, redirects, tombstones, index and next_id keep their types.
THEOREM TypeCorrect == Spec => []TypeOK
<1>1. Sound => TypeOK
  BY DEF Sound
<1> QED BY <1>1, CatalogSound, PTL

\* No op leaves an entity that names one that is gone or of the wrong kind.
THEOREM NothingDanglesHolds == Spec => []NothingDangles
<1>1. Sound => NothingDangles
  BY DEF Sound
<1> QED BY <1>1, CatalogSound, PTL

\* Every merged id leads in one hop to a live signal.
THEOREM RedirectsSoundHolds == Spec => []RedirectsSound
<1>1. Sound => RedirectsSound
  BY DEF Sound
<1> QED BY <1>1, CatalogSound, PTL

\* The history index is always what a rebuild from the entities would give.
THEOREM HistoryInStepHolds == Spec => []HistoryInStep
<1>1. Sound => HistoryInStep
  BY DEF Sound
<1> QED BY <1>1, CatalogSound, PTL

\* No id is handed out twice and no retired id is forgotten.
THEOREM IdsSpentHolds == Spec => []IdsSpent
<1>1. Sound => IdsSpent
  BY DEF Sound
<1> QED BY <1>1, CatalogSound, PTL

-----------------------------------------------------------------------------
(* Pins.  What a cascade takes with an entity refers to it or to something *)
(* else it takes, and of the kinds that can be pinned only a source's own  *)
(* signals and emitters refer to anything.                                 *)
LEMMA DeepRefers ==
    ASSUME NEW id, NEW i \in ReferrersDeep(id)
    PROVE  \E j \in {id} \cup ReferrersDeep(id) : i \in Referrers(j)
<1> DEFINE S == {k \in ReferrersDeep(id) :
                   \E j \in {id} \cup ReferrersDeep(id) : k \in Referrers(j)}
<1>1. S \in SUBSET Live
  BY DeepClosed
<1>2. Closed(id, S)
  BY DeepClosed DEF Closed
<1> HIDE DEF S
<1>3. i \in S
  BY <1>1, <1>2 DEF ReferrersDeep
<1> QED BY <1>3 DEF S

\* Of what a cascade takes, what is pinned goes with its own source.
LEMMA PinnedGoesWithOwner ==
    ASSUME Sound, NEW id \in Live, NEW i \in ReferrersDeep(id), entities[i].pinned
    PROVE  entities[i].of \in Live /\ entities[i].of \in {id} \cup ReferrersDeep(id)
<1>1. PICK j \in {id} \cup ReferrersDeep(id) : i \in Referrers(j)
  BY DeepRefers
<1>2. i \in Live /\ entities[i] \in Entity /\ j \in {entities[i].of, entities[i].tx}
  BY <1>1 DEF Referrers, Sound, TypeOK
<1>3. entities[i].tx = NoId /\ NoId \notin Live
  BY <1>2 DEF Entity, Pinnable, Sound, TypeOK, Ids, NoId
<1>4. j \in Live
  BY DeepClosed
<1> QED BY <1>2, <1>3, <1>4

\* The steps that take nothing away.
LEMMA KeepsLive ==
    ASSUME Sound,
           \/ AllocId
           \/ \E id \in Ids, e \in Entity : 
                 \/ Insert(id, e) \/ Restore(id, e) \/ Replace(id, e) \/ EditField(id, e)
           \/ \E id \in Ids, label \in Labels : Relabel(id, label)
           \/ \E id \in Ids, on \in BOOLEAN : Pin(id, on)
    PROVE  Live \subseteq Live'
<1>1. ASSUME NEW id \in Ids, NEW e \in Entity, PutOne(id, e) PROVE Live \subseteq Live'
  BY <1>1, PutOneEffect
<1>2. ASSUME NEW id \in Ids, NEW e, Edit(id, e) PROVE Live \subseteq Live'
  BY <1>2 DEF Edit, Live
<1> QED BY <1>1, <1>2 DEF AllocId, Insert, Restore, MayRestore, EditField, Replace, MayReplace, Relabel, Pin, Live

\* Retiring a set is a pin step when the pinned in it go with their owners.
LEMMA RetirePins ==
    ASSUME NEW S, Retire(S),
           \A i \in S : entities[i].pinned => entities[i].of \in Live \cap S
    PROVE  PinStep
<1>1. Live' = Live \ S
  BY DEF Retire, Live
<1> QED BY <1>1 DEF PinStep

\* A pinned entity goes only into a merge that pins the target, or with its source.
THEOREM PinHoldsHolds == Spec => PinHolds
<1>1. ASSUME Sound, Next PROVE PinStep
  <2>1. CASE \/ AllocId
             \/ \E id \in Ids, e \in Entity : 
                 \/ Insert(id, e) \/ Restore(id, e) \/ Replace(id, e) \/ EditField(id, e)
             \/ \E id \in Ids, label \in Labels : Relabel(id, label)
             \/ \E id \in Ids, on \in BOOLEAN : Pin(id, on)
    BY <1>1, <2>1, KeepsLive DEF PinStep
  <2>2. ASSUME NEW from \in Ids, NEW to \in Ids, Merge(from, to) PROVE PinStep
    <3>1. PICK t \in Ids : t # from /\ IsLive(t, "signal") /\ MergeInto(from, t)
      BY <2>2 DEF Merge
    <3>2. Live' = Live \ {from} /\ t \in Live' /\ t \notin Moved(from)
      BY <3>1 DEF MergeInto, Rekeyed, MergedTarget, Compressed, Live, Moved, IsLive
    <3>3. from \in DOMAIN redirects' /\ redirects'[from] = t
      BY <3>1 DEF MergeInto, Rekeyed, MergedTarget, Compressed
    <3>4. entities'[t] = [entities[t] EXCEPT !.pinned = @ \/ entities[from].pinned]
      BY <3>1, <3>2 DEF MergeInto, Rekeyed, MergedTarget, Compressed, Live
    <3>5. entities[t] \in Entity /\ entities[from] \in Entity
      BY <1>1, <2>2, <3>2 DEF Merge, IsLive, Sound, TypeOK
    <3>6. entities[from].pinned => entities'[t].pinned
      BY <3>4, <3>5 DEF Entity, Fields
    <3> QED BY <3>2, <3>3, <3>6 DEF PinStep
  <2>3. ASSUME NEW id \in Ids, NEW cascade \in BOOLEAN, Delete(id, cascade) PROVE PinStep
    <3> DEFINE S == {id} \cup ReferrersDeep(id)
    <3>1. id \in Live /\ ~entities[id].pinned /\ Retire(S)
      BY <2>3 DEF Delete, MayDelete
    <3>2. \A i \in S : entities[i].pinned => entities[i].of \in Live \cap S
      BY <1>1, <3>1, PinnedGoesWithOwner
    <3> HIDE DEF S
    <3> QED BY <3>1, <3>2, RetirePins
  <2>4. ASSUME NEW ids \in SUBSET Ids, NEW cascade \in BOOLEAN, Purge(ids, cascade) PROVE PinStep
    <3> DEFINE doomed == {i \in ids : IsLive(i, "signal") /\ ~entities[i].pinned}
               refs   == UNION {ReferrersDeep(i) : i \in doomed}
               S      == doomed \cup refs
    <3>1. Retire(S)
      BY <2>4 DEF Purge
    <3>2. ASSUME NEW i \in S, entities[i].pinned PROVE entities[i].of \in Live \cap S
      <4>1. PICK d \in doomed : i \in ReferrersDeep(d)
        BY <3>2
      <4>2. entities[i].of \in Live /\ entities[i].of \in {d} \cup ReferrersDeep(d)
        BY <1>1, <3>2, <4>1, PinnedGoesWithOwner DEF IsLive
      <4> QED BY <4>1, <4>2
    <3> HIDE DEF S
    <3> QED BY <3>1, <3>2, RetirePins
  <2> QED BY <1>1, <2>1, <2>2, <2>3, <2>4 DEF Next
<1>2. Sound /\ [Next]_vars => [PinStep]_vars
  BY <1>1
<1> QED BY <1>2, CatalogSound, PTL DEF Spec, PinHolds

-----------------------------------------------------------------------------
(* The session and its undo.                                               *)

UndoOp == [do : {"delete", "restore", "replace"}, id : Ids, e : Entity]
Snap   == [entities  : UNION {[S -> Entity] : S \in SUBSET Ids},
           redirects : UNION {[S -> Ids] : S \in SUBSET Ids}]

\* IsLive and RefsHold in a recorded state s.
LiveIn(s, id, kind) == id \in DOMAIN s.entities /\ s.entities[id].kind = kind

RefsHoldIn(s, e) ==
    /\ e.kind \in {"observation", "transmission"} => LiveIn(s, e.of, "signal")
    /\ e.kind \in {"signal", "emitter"} /\ e.of # NoId => LiveIn(s, e.of, "source")
    /\ e.kind = "observation" /\ e.tx # NoId => LiveIn(s, e.tx, "transmission")

\* State s takes the inverse op, its tombstones aside.
FitsDelete(s, id) ==
    /\ id \in DOMAIN s.entities /\ ~s.entities[id].pinned
    /\ \A i \in DOMAIN s.entities : id \notin {s.entities[i].of, s.entities[i].tx}

FitsRestore(s, id, e) ==
    id \notin DOMAIN s.entities /\ id \notin DOMAIN s.redirects /\ RefsHoldIn(s, e)

FitsReplace(s, id, e) == LiveIn(s, id, e.kind) /\ RefsHoldIn(s, e)

Fits(op, s) == /\ op.do = "delete"  => FitsDelete(s, op.id)
               /\ op.do = "restore" => FitsRestore(s, op.id, op.e)
               /\ op.do = "replace" => FitsReplace(s, op.id, op.e)

\* What the inverse op makes of s.
Without(s, id) ==
    [entities  |-> [i \in DOMAIN s.entities \ {id} |-> s.entities[i]],
     redirects |-> [i \in {j \in DOMAIN s.redirects : s.redirects[j] # id} |-> s.redirects[i]]]

With(s, id, e) ==
    [entities  |-> [i \in DOMAIN s.entities \cup {id} |-> IF i = id THEN e ELSE s.entities[i]],
     redirects |-> s.redirects]

Back(op, s) == IF op.do = "delete" THEN Without(s, op.id) ELSE With(s, op.id, op.e)

\* The state after the k-th op: what the next newer inverse brings back, or now.
After(ps, now, k) == IF k = Len(ps) THEN now ELSE ps[k + 1]

Link(op, s, before) == Fits(op, s) /\ Back(op, s) = before

Chain(us, ps, now) ==
    /\ Len(ps) = Len(us)
    /\ \A k \in 1..Len(us) : Link(us[k], After(ps, now, k), ps[k])

\* What an inverse restores is live or buried: no op forgets an id.
Known(us, ids) == \A k \in 1..Len(us) : us[k].do = "restore" => us[k].id \in ids

SessionTypeOK == undo \in Seq(UndoOp) /\ priors \in Seq(Snap) /\ redone \in BOOLEAN

HistoryHolds == ~redone => Chain(undo, priors, Now) /\ Known(undo, Live \cup tombstones)

SessionSound == Sound /\ SessionTypeOK /\ HistoryHolds

-----------------------------------------------------------------------------
(* The chain grows by a link at its new end, and shrinks by one.           *)
LEMMA Appended ==
    ASSUME NEW S, NEW s \in Seq(S), NEW x \in S
    PROVE  /\ s \o <<x>> \in Seq(S) /\ s \o <<x>> # <<>>
           /\ Len(s \o <<x>>) = Len(s) + 1
           /\ \A k \in 1..Len(s) : (s \o <<x>>)[k] = s[k]
           /\ (s \o <<x>>)[Len(s) + 1] = x
           /\ s \o <<x>> = Append(s, x)
  OBVIOUS

\* Popping takes the last element and leaves the others where they are.
LEMMA PoppedSeq ==
    ASSUME NEW S, NEW s \in Seq(S), s # <<>>
    PROVE  /\ Popped(s) \in Seq(S) /\ Len(s) \in Nat \ {0}
           /\ Len(Popped(s)) = Len(s) - 1
           /\ \A k \in 1..(Len(s) - 1) : Popped(s)[k] = s[k]
<1>1. Len(s) \in Nat \ {0}
  OBVIOUS
<1>2. ASSUME NEW k \in 1..(Len(s) - 1) PROVE s[k] \in S /\ Popped(s)[k] = s[k]
  BY <1>1, <1>2 DEF Popped
<1>3. Popped(s) = [k \in 1..(Len(s) - 1) |-> s[k]]
  BY <1>1 DEF Popped
<1>4. Popped(s) \in Seq(S) /\ Len(Popped(s)) = Len(s) - 1
  <2>1. Len(s) - 1 \in Nat /\ DOMAIN Popped(s) = 1..(Len(s) - 1)
    BY <1>1, <1>3
  <2>2. Popped(s) \in Seq(S)
    BY <1>2, <1>3, <2>1
  <2> QED BY <2>1, <2>2
<1> QED BY <1>1, <1>2, <1>4

\* A link from the new state back to the old one lengthens the chain.
LEMMA ChainGrows ==
    ASSUME NEW us \in Seq(UndoOp), NEW ps \in Seq(Snap), NEW now \in Snap, NEW new,
           NEW op \in UndoOp, Chain(us, ps, now), Link(op, new, now)
    PROVE  Chain(us \o <<op>>, Append(ps, now), new)
<1> DEFINE vs == us \o <<op>>
           qs == Append(ps, now)
<1>1. /\ Len(ps) = Len(us) /\ Len(us) \in Nat
      /\ \A k \in 1..Len(us) : Link(us[k], After(ps, now, k), ps[k])
  BY DEF Chain
<1>2. Len(vs) = Len(us) + 1 /\ Len(qs) = Len(us) + 1
  BY <1>1, Appended
<1>3. \A k \in 1..Len(us) : vs[k] = us[k] /\ qs[k] = ps[k]
  BY <1>1, Appended
<1>4. vs[Len(us) + 1] = op /\ qs[Len(us) + 1] = now
  BY <1>1, Appended
<1> HIDE DEF vs, qs
<1>5. ASSUME NEW k \in 1..Len(vs) PROVE Link(vs[k], After(qs, new, k), qs[k])
  <2>1. CASE k = Len(us) + 1
    BY <1>2, <1>4, <2>1 DEF After
  <2>2. CASE k = Len(us)
    <3>1. After(qs, new, k) = now /\ After(ps, now, k) = now /\ k \in 1..Len(us)
      BY <1>1, <1>2, <1>4, <1>5, <2>2 DEF After
    <3> QED BY <1>1, <1>3, <3>1
  <2>3. CASE k < Len(us)
    <3>1. k \in 1..Len(us) /\ k + 1 \in 1..Len(us)
      BY <1>1, <1>5, <1>2, <2>3
    <3>2. After(qs, new, k) = ps[k + 1] /\ After(ps, now, k) = ps[k + 1]
      BY <1>1, <1>2, <1>3, <2>3, <3>1 DEF After
    <3> QED BY <1>1, <1>3, <3>1, <3>2
  <2> QED BY <1>1, <1>2, <1>5, <2>1, <2>2, <2>3
<1> QED BY <1>2, <1>5 DEF Chain, vs, qs

\* The newest link leads from now to the last prior; the rest is its chain.
LEMMA ChainShrinks ==
    ASSUME NEW us \in Seq(UndoOp), NEW ps \in Seq(Snap), NEW now, us # <<>>,
           Chain(us, ps, now)
    PROVE  /\ Link(us[Len(us)], now, ps[Len(ps)]) /\ Len(ps) \in Nat \ {0}
           /\ Chain(Popped(us), Popped(ps), ps[Len(ps)])
<1>1. /\ Len(ps) = Len(us) /\ Len(us) \in Nat \ {0} /\ ps # <<>>
      /\ \A k \in 1..Len(us) : Link(us[k], After(ps, now, k), ps[k])
  BY DEF Chain
<1>2. Link(us[Len(us)], now, ps[Len(ps)])
  <2>1. Len(us) \in 1..Len(us) /\ After(ps, now, Len(us)) = now
    BY <1>1 DEF After
  <2> QED BY <1>1, <2>1
<1>3. /\ Len(Popped(us)) = Len(us) - 1 /\ Len(Popped(ps)) = Len(us) - 1
      /\ \A k \in 1..(Len(us) - 1) : Popped(us)[k] = us[k] /\ Popped(ps)[k] = ps[k]
  BY <1>1, PoppedSeq
<1>4. ASSUME NEW k \in 1..(Len(us) - 1)
      PROVE  Link(Popped(us)[k], After(Popped(ps), ps[Len(ps)], k), Popped(ps)[k])
  <2>1. k \in 1..Len(us) /\ After(ps, now, k) = ps[k + 1]
    BY <1>1, <1>4 DEF After
  <2>2. After(Popped(ps), ps[Len(ps)], k) = ps[k + 1]
    <3>1. CASE k = Len(us) - 1
      BY <1>1, <1>3, <3>1 DEF After
    <3>2. CASE k # Len(us) - 1
      <4>1. k + 1 \in 1..(Len(us) - 1) /\ k # Len(Popped(ps))
        BY <1>1, <1>3, <1>4, <3>2
      <4> QED BY <1>3, <4>1 DEF After
    <3> QED BY <3>1, <3>2
  <2> QED BY <1>1, <1>3, <1>4, <2>1, <2>2
<1> QED BY <1>1, <1>2, <1>3, <1>4 DEF Chain

-----------------------------------------------------------------------------
(* Facts about one state.                                                  *)
LEMMA NowIsSnap ==
    ASSUME TypeOK
    PROVE  Now \in Snap
  BY DEF TypeOK, Now, Snap, Live

\* RefsHoldIn and RefsHold agree on the state there is.
LEMMA RefsHoldNow ==
    ASSUME NEW e
    PROVE  RefsHoldIn(Now, e) <=> RefsHold(e)
  BY DEF RefsHoldIn, LiveIn, RefsHold, IsLive, Now, Live

\* A sound entity names nothing but live entities.
LEMMA NamesLive ==
    ASSUME NEW e \in Entity, RefsHold(e)
    PROVE  e.of \in Live \cup {NoId} /\ e.tx \in Live \cup {NoId}
<1>1. e \in Fields /\ e.kind \in AllKinds
  BY CatalogAssumption DEF Entity, Fields
<1>2. e.of \in Live \cup {NoId}
  BY <1>1 DEF Entity, RefsHold, IsLive, AllKinds
<1>3. e.tx \in Live \cup {NoId}
  BY <1>1 DEF Entity, RefsHold, IsLive
<1> QED BY <1>2, <1>3

\* Nothing refers deeply to an entity exactly when nothing refers to it.
LEMMA DeepEmpty ==
    ASSUME NEW id
    PROVE  ReferrersDeep(id) = {} <=> Referrers(id) = {}
<1>1. Referrers(id) \subseteq ReferrersDeep(id)
  BY DeepClosed
<1>2. Referrers(id) = {} => Closed(id, {})
  BY DEF Closed
<1>3. Closed(id, {}) => ReferrersDeep(id) \subseteq {}
  BY DEF ReferrersDeep
<1> QED BY <1>1, <1>2, <1>3

\* What fits the state is accepted by it, when what it restores is buried.
LEMMA FitsIsAccepted ==
    ASSUME Sound, NEW op \in UndoOp, Fits(op, Now),
           op.do = "restore" => op.id \in Live \cup tombstones
    PROVE  Accepts(op)
<1>1. CASE op.do = "delete"
  <2>1. op.id \in Live /\ ~entities[op.id].pinned /\ Referrers(op.id) = {}
    BY <1>1 DEF Fits, FitsDelete, Now, Live, Referrers
  <2> QED BY <1>1, <2>1, DeepEmpty DEF Accepts, MayDelete
<1>2. CASE op.do = "restore"
  BY <1>2, RefsHoldNow DEF Fits, FitsRestore, Accepts, MayRestore, Now, Live
<1>3. CASE op.do = "replace"
  BY <1>3, RefsHoldNow DEF Fits, FitsReplace, LiveIn, Accepts, MayReplace, Now, Live
<1> QED BY <1>1, <1>2, <1>3 DEF UndoOp

-----------------------------------------------------------------------------
(* Taking an inverse makes of the state what Back says.                    *)
LEMMA TakePut ==
    ASSUME NEW id, NEW e, PutOne(id, e), UNCHANGED redirects
    PROVE  Now' = With(Now, id, e)
<1>1. entities' = [i \in Live \cup {id} |-> IF i = id THEN e ELSE entities[i]]
  BY DEF PutOne, Put
<1> QED BY <1>1 DEF With, Now, Live

\* A delete that does not cascade takes one entity and the redirects into it.
LEMMA TakeDelete ==
    ASSUME NEW id, Delete(id, FALSE)
    PROVE  Now' = Without(Now, id)
<1>1. Retire({id})
  <2>1. ReferrersDeep(id) = {} /\ Retire({id} \cup ReferrersDeep(id))
    BY DEF Delete, MayDelete
  <2>2. {id} \cup ReferrersDeep(id) = {id}
    BY <2>1
  <2> QED BY <2>1, <2>2
<1>2. entities' = [i \in Live \ {id} |-> entities[i]] /\ redirects' = RedirectsOutside({id})
  BY <1>1 DEF Retire
<1>3. redirects' = [i \in {j \in DOMAIN redirects : redirects[j] # id} |-> redirects[i]]
  BY <1>2 DEF RedirectsOutside
<1> QED BY <1>2, <1>3 DEF Without, Now, Live

\* The op an undo commits does to the state what Back says.
LEMMA TakeIsBack ==
    ASSUME NEW op \in UndoOp, Take(op)
    PROVE  Now' = Back(op, Now)
<1>1. CASE op.do = "delete"
  BY <1>1, TakeDelete DEF Take, Back
<1>2. CASE op.do # "delete"
  <2>1. PutOne(op.id, op.e) /\ UNCHANGED redirects
    BY <1>2 DEF Take, Restore, Replace
  <2> QED BY <1>2, <2>1, TakePut DEF Back
<1> QED BY <1>1, <1>2

-----------------------------------------------------------------------------
(* The inverse of each op: it fits the state after it, and takes it back.  *)
LEMMA InverseOfPut ==
    ASSUME Sound, NEW id \in Ids, NEW e \in Entity, PutOne(id, e), UNCHANGED redirects,
           RefsHold(e), id \notin Live, ~e.pinned
    PROVE  Link([do |-> "delete", id |-> id, e |-> e], Now', Now)
<1>1. /\ Live' = Live \cup {id} /\ entities' \in [Live' -> Entity] /\ entities'[id] = e
      /\ \A i \in Live \ {id} : entities'[i] = entities[i]
  BY PutOneEffect
<1>2. ASSUME NEW i \in Live' PROVE id \notin {entities'[i].of, entities'[i].tx}
  <2>1. id # NoId
    BY DEF Ids, NoId
  <2>2. entities'[i] \in Entity /\ RefsHold(entities'[i])
    BY <1>1, <1>2 DEF Sound, NothingDangles
  <2> QED BY <2>1, <2>2, NamesLive
<1>3. FitsDelete(Now', id)
  BY <1>1, <1>2 DEF FitsDelete, Now, Live
<1>4. Without(Now', id) = Now
  <2>1. [i \in DOMAIN entities' \ {id} |-> entities'[i]] = entities
    BY <1>1 DEF Live, Sound, TypeOK
  <2>2. \A j \in DOMAIN redirects : redirects[j] # id
    BY DEF Sound, RedirectsSound, IsLive
  <2>3. [i \in {j \in DOMAIN redirects' : redirects'[j] # id} |-> redirects'[i]] = redirects
    BY <2>2 DEF Sound, TypeOK
  <2> QED BY <2>1, <2>3 DEF Without, Now
<1> QED BY <1>3, <1>4 DEF Link, Fits, Back

\* Of an edit, whatever way it is made: the old entity fits the new one's place.
LEMMA InverseOfEdit ==
    ASSUME Sound, NEW id \in Live, UNCHANGED redirects,
           Live' = Live, entities' \in [Live' -> Entity],
           entities'[id].kind = entities[id].kind,
           \A i \in Live \ {id} : entities'[i] = entities[i]
    PROVE  Link([do |-> "replace", id |-> id, e |-> entities[id]], Now', Now)
<1>1. \A i, k : IsLive(i, k) => IsLive(i, k)'
  BY DEF IsLive
<1>2. PICK old : old = entities[id]
  OBVIOUS
<1>3. RefsHold(old) /\ old \in Entity
  BY <1>2 DEF Sound, TypeOK, NothingDangles
<1>4. RefsHoldIn(Now', old)
  <2>1. RefsHold(old)'
    BY <1>1, <1>3, RefsMonotone
  <2> QED BY <2>1 DEF RefsHoldIn, LiveIn, RefsHold, IsLive, Now, Live
<1>5. FitsReplace(Now', id, old)
  BY <1>2, <1>4 DEF FitsReplace, LiveIn, Now, Live
<1>6. With(Now', id, old) = Now
  <2>1. [i \in DOMAIN entities' \cup {id} |-> IF i = id THEN old ELSE entities'[i]] = entities
    BY <1>2 DEF Live, Sound, TypeOK
  <2> QED BY <2>1 DEF With, Now
<1> QED BY <1>2, <1>5, <1>6 DEF Link, Fits, Back

\* Of a delete that takes nothing else with it, of an entity no redirect leads to.
LEMMA InverseOfDelete ==
    ASSUME Sound, NEW id \in Ids, Delete(id, FALSE),
           \A i \in DOMAIN redirects : redirects[i] # id
    PROVE  Link([do |-> "restore", id |-> id, e |-> entities[id]], Now', Now)
<1>1. id \in Live /\ Referrers(id) = {}
  BY DeepEmpty DEF Delete, MayDelete
<1>2. PICK old : old = entities[id]
  OBVIOUS
<1>3. old \in Entity /\ RefsHold(old)
  BY <1>1, <1>2 DEF Sound, TypeOK, NothingDangles
<1>4. Now' = Without(Now, id)
  BY TakeDelete
<1>5. entities' = [i \in Live \ {id} |-> entities[i]]
  BY <1>4 DEF Without, Now, Live
<1>6. redirects' = redirects
  <2>1. redirects' = [i \in {j \in DOMAIN redirects : redirects[j] # id} |-> redirects[i]]
    BY <1>4 DEF Without, Now
  <2> QED BY <2>1 DEF Sound, TypeOK
<1>7. FitsRestore(Now', id, old)
  <2>1. id \notin DOMAIN redirects
    BY <1>1 DEF Sound, RedirectsSound
  <2>2. id \notin {old.of, old.tx}
    BY <1>1, <1>2 DEF Referrers
  <2>3. \A i, k : i # id /\ IsLive(i, k) => IsLive(i, k)'
    BY <1>5 DEF IsLive, Live
  <2>4. RefsHold(old)'
    <3>1. \A i, k : (i = old.of \/ i = old.tx) /\ IsLive(i, k) => IsLive(i, k)'
      BY <2>2, <2>3
    <3> QED BY <1>3, <3>1, RefsMonotone
  <2>5. RefsHoldIn(Now', old)
    BY <2>4 DEF RefsHoldIn, LiveIn, RefsHold, IsLive, Now, Live
  <2> QED BY <1>5, <1>6, <2>1, <2>5 DEF FitsRestore, Now
<1>8. With(Now', id, old) = Now
  <2>1. [i \in DOMAIN entities' \cup {id} |-> IF i = id THEN old ELSE entities'[i]] = entities
    BY <1>1, <1>2, <1>5 DEF Live, Sound, TypeOK
  <2> QED BY <1>6, <2>1 DEF With, Now
<1> QED BY <1>2, <1>7, <1>8 DEF Link, Fits, Back

-----------------------------------------------------------------------------
(* What a step leaves of the history.                                      *)

\* No op forgets an id that was ever in use.
LEMMA IdsStayKnown ==
    ASSUME CatalogAssumption, Sound, Next
    PROVE  Live \cup tombstones \subseteq Live' \cup tombstones'
<1>1. ASSUME NEW id \in Ids, NEW e \in Entity, PutOne(id, e) PROVE Live' = Live \cup {id}
  BY <1>1, PutOneEffect
<1>2. ASSUME NEW id \in Ids, NEW e, Edit(id, e) PROVE Live' = Live /\ tombstones' = tombstones
  BY <1>2 DEF Edit, Live
<1>3. ASSUME NEW S, Retire(S) PROVE Live \cup tombstones \subseteq Live' \cup tombstones'
  BY <1>3 DEF Retire, Live
<1>4. CASE AllocId
  BY <1>4 DEF AllocId, Live
<1>5. CASE \E id \in Ids, e \in Entity : Insert(id, e) \/ Restore(id, e)
  BY <1>1, <1>5 DEF Insert, Restore
<1>6. CASE \E id \in Ids, e \in Entity : Replace(id, e) \/ EditField(id, e)
  BY <1>1, <1>6 DEF EditField, Replace
<1>7. CASE \E id \in Ids, label \in Labels : Relabel(id, label)
  BY <1>2, <1>7 DEF Relabel
<1>8. CASE \E id \in Ids, on \in BOOLEAN : Pin(id, on)
  BY <1>2, <1>8 DEF Pin
<1>9. CASE \E from, to \in Ids : Merge(from, to)
  <2>1. PICK from \in Ids, t \in Ids : MergeInto(from, t)
    BY <1>9 DEF Merge
  <2> QED BY <2>1 DEF MergeInto, Live
<1>10. CASE \E id \in Ids, cascade \in BOOLEAN : Delete(id, cascade)
  BY <1>3, <1>10 DEF Delete
<1>11. CASE \E ids \in SUBSET Ids, cascade \in BOOLEAN : Purge(ids, cascade)
  BY <1>3, <1>11 DEF Purge
<1> QED BY <1>4, <1>5, <1>6, <1>7, <1>8, <1>9, <1>10, <1>11 DEF Next

\* A commit that can be taken back adds a link; one that cannot clears the chain.
LEMMA RememberLink ==
    ASSUME SessionSound, Sound', Live \cup tombstones \subseteq Live' \cup tombstones',
           NEW op \in UndoOp, Remember(<<op>>),
           op.do = "restore" => op.id \in Live,
           Link(op, Now', Now)
    PROVE  SessionTypeOK' /\ HistoryHolds'
<1>1. /\ undo' = undo \o <<op>>
      /\ priors' = IF redone THEN <<>> ELSE Append(priors, Now)
      /\ redone' = redone
  BY DEF Remember, SessionSound, SessionTypeOK
<1>2. Now \in Snap
  BY NowIsSnap DEF SessionSound, Sound
<1>3. SessionTypeOK'
  BY <1>1, <1>2 DEF SessionSound, SessionTypeOK
<1>4. ASSUME ~redone PROVE HistoryHolds'
  <2>1. Chain(undo, priors, Now) /\ Known(undo, Live \cup tombstones)
    BY <1>4 DEF SessionSound, HistoryHolds
  <2>2. PICK now, new : now = Now /\ new = Now'
    OBVIOUS
  <2>3. Chain(undo \o <<op>>, Append(priors, now), new)
    BY <1>2, <2>1, <2>2, ChainGrows DEF SessionSound, SessionTypeOK
  <2>4. Chain(undo, priors, Now)'
    BY <1>1, <1>4, <2>2, <2>3
  <2>5. Known(undo \o <<op>>, Live' \cup tombstones')
    BY <2>1, Appended DEF Known, SessionSound, SessionTypeOK
  <2> QED BY <1>1, <2>4, <2>5 DEF HistoryHolds
<1> QED BY <1>1, <1>3, <1>4 DEF HistoryHolds

\* A commit that cannot be taken back leaves an empty, and so a whole, history.
LEMMA RememberNothing ==
    ASSUME SessionTypeOK, Remember(<<>>)
    PROVE  SessionTypeOK' /\ HistoryHolds'
  BY DEF Remember, SessionTypeOK, HistoryHolds, Chain, Known

\* A commit is an op of the catalog.
LEMMA CommittedIsNext == ASSUME Committed PROVE Next
  BY DEF Committed, Next

\* Every commit of an op leaves the session sound.
LEMMA CommittedHistory ==
    ASSUME CatalogAssumption, SessionSound, Committed
    PROVE  SessionSound'
<1>1. Sound /\ Sound' /\ SessionTypeOK /\ Live \cup tombstones \subseteq Live' \cup tombstones'
  BY CommittedIsNext, NextSound, IdsStayKnown DEF SessionSound
<1>2. ASSUME NEW id \in Ids, NEW e \in Entity, Insert(id, e) \/ Restore(id, e),
             Remember(PutInverse(id, e))
      PROVE  SessionTypeOK' /\ HistoryHolds'
  <2>1. id \notin Live /\ RefsHold(e) /\ PutOne(id, e) /\ UNCHANGED redirects
    BY <1>1, <1>2 DEF Insert, Restore, MayRestore, Sound, IdsSpent
  <2>2. CASE e.pinned
    BY <1>1, <1>2, <2>2, RememberNothing DEF PutInverse
  <2>3. CASE ~e.pinned
    <3>1. PICK op : op = [do |-> "delete", id |-> id, e |-> e]
      OBVIOUS
    <3>2. op \in UndoOp /\ op.do # "restore"
      BY <3>1 DEF UndoOp
    <3>3. Link(op, Now', Now)
      BY <1>1, <2>1, <2>3, <3>1, InverseOfPut
    <3>4. Remember(<<op>>)
      BY <1>2, <2>3, <3>1 DEF PutInverse
    <3> QED BY <1>1, <3>2, <3>3, <3>4, RememberLink
  <2> QED BY <2>2, <2>3
<1>3. ASSUME NEW id \in Live, UNCHANGED redirects, Live' = Live,
             entities'[id].kind = entities[id].kind,
             \A i \in Live \ {id} : entities'[i] = entities[i],
             Remember(Prior(id))
      PROVE  SessionTypeOK' /\ HistoryHolds'
  <2>1. PICK op : op = [do |-> "replace", id |-> id, e |-> entities[id]]
    OBVIOUS
  <2>2. op \in UndoOp /\ op.do # "restore"
    BY <1>1, <2>1 DEF UndoOp, Sound, TypeOK
  <2>3. entities' \in [Live' -> Entity]
    BY <1>1 DEF Sound, TypeOK
  <2>4. Link(op, Now', Now)
    BY <1>1, <1>3, <2>1, <2>3, InverseOfEdit
  <2>5. Remember(<<op>>)
    BY <1>3, <2>1 DEF Prior
  <2> QED BY <1>1, <2>2, <2>4, <2>5, RememberLink
<1>4. ASSUME NEW id \in Ids, NEW e \in Entity, EditField(id, e), Remember(Prior(id))
      PROVE  SessionTypeOK' /\ HistoryHolds'
  <2>1. id \in Live /\ e.kind = entities[id].kind /\ PutOne(id, e) /\ UNCHANGED redirects
    BY <1>4 DEF EditField, Replace, MayReplace
  <2>2. /\ Live' = Live /\ entities'[id] = e
        /\ \A i \in Live \ {id} : entities'[i] = entities[i]
    BY <1>1, <2>1, PutOneEffect
  <2> QED BY <1>3, <1>4, <2>1, <2>2
<1>5. ASSUME NEW id \in Live, NEW e, Edit(id, e), e.kind = entities[id].kind, Remember(Prior(id))
      PROVE  SessionTypeOK' /\ HistoryHolds'
  <2>1. /\ Live' = Live /\ entities'[id] = e /\ UNCHANGED redirects
        /\ \A i \in Live \ {id} : entities'[i] = entities[i]
    BY <1>5 DEF Edit, Live
  <2> QED BY <1>3, <1>5, <2>1
<1>6. ASSUME NEW id \in Ids, NEW cascade \in BOOLEAN, Delete(id, cascade),
             Remember(DeleteInverse(id, cascade))
      PROVE  SessionTypeOK' /\ HistoryHolds'
  <2>1. CASE cascade \/ \E i \in DOMAIN redirects : redirects[i] = id
    BY <1>1, <1>6, <2>1, RememberNothing DEF DeleteInverse
  <2>2. CASE cascade = FALSE /\ \A i \in DOMAIN redirects : redirects[i] # id
    <3>1. id \in Live /\ Delete(id, FALSE)
      BY <1>6, <2>2 DEF Delete, MayDelete
    <3>2. PICK op : op = [do |-> "restore", id |-> id, e |-> entities[id]]
      OBVIOUS
    <3>3. op \in UndoOp /\ op.id \in Live
      BY <1>1, <3>1, <3>2 DEF UndoOp, Sound, TypeOK
    <3>4. Link(op, Now', Now)
      BY <1>1, <2>2, <3>1, <3>2, InverseOfDelete
    <3>5. Remember(<<op>>)
      BY <1>6, <2>2, <3>1, <3>2 DEF DeleteInverse
    <3> QED BY <1>1, <3>3, <3>4, <3>5, RememberLink
  <2> QED BY <1>6, <2>1, <2>2
<1>7. SessionTypeOK' /\ HistoryHolds'
  <2>1. CASE \E id \in Ids, e \in Entity :
                \/ Insert(id, e) /\ Remember(PutInverse(id, e))
                \/ Restore(id, e) /\ Remember(PutInverse(id, e))
                \/ EditField(id, e) /\ Remember(Prior(id))
    BY <1>2, <1>4, <2>1
  <2>2. CASE \E id \in Ids, label \in Labels : Relabel(id, label) /\ Remember(Prior(id))
    <3>1. PICK id \in Ids, label \in Labels : Relabel(id, label) /\ Remember(Prior(id))
      BY <2>2
    <3>2. PICK e : e = [entities[id] EXCEPT !.label = label]
      OBVIOUS
    <3>3. id \in Live /\ Edit(id, e) /\ e.kind = entities[id].kind
      BY <1>1, <3>1, <3>2 DEF Relabel, Sound, TypeOK, Entity, Fields
    <3> QED BY <1>5, <3>1, <3>3
  <2>3. CASE \E id \in Ids, on \in BOOLEAN : Pin(id, on) /\ Remember(Prior(id))
    <3>1. PICK id \in Ids, on \in BOOLEAN : Pin(id, on) /\ Remember(Prior(id))
      BY <2>3
    <3>2. PICK e : e = [entities[id] EXCEPT !.pinned = on]
      OBVIOUS
    <3>3. id \in Live /\ Edit(id, e) /\ e.kind = entities[id].kind
      BY <1>1, <3>1, <3>2 DEF Pin, Sound, TypeOK, Entity, Fields
    <3> QED BY <1>5, <3>1, <3>3
  <2>4. CASE Remember(<<>>)
    BY <1>1, <2>4, RememberNothing
  <2>5. CASE \E id \in Ids, cascade \in BOOLEAN :
                Delete(id, cascade) /\ Remember(DeleteInverse(id, cascade))
    BY <1>6, <2>5
  <2> QED BY <2>1, <2>2, <2>3, <2>4, <2>5 DEF Committed
<1> QED BY <1>1, <1>7 DEF SessionSound

\* An undo takes the newest inverse, which is an op of the catalog too.
LEMMA TakeIsNext ==
    ASSUME NEW op \in UndoOp, Take(op)
    PROVE  Next
<1>1. op.id \in Ids /\ op.e \in Entity
  BY DEF UndoOp
<1> QED BY <1>1 DEF Take, Next

\* The newest inverse is an op of the right form.
LEMMA NewestIsOp ==
    ASSUME SessionTypeOK, undo # <<>>
    PROVE  undo[Len(undo)] \in UndoOp
  BY DEF SessionTypeOK

\* An undo is an op of the catalog, and leads to the newest recorded state.
LEMMA UndoTakes ==
    ASSUME SessionSound, NEW failed \in BOOLEAN, Undo(failed)
    PROVE  /\ undo # <<>> /\ undo[Len(undo)] \in UndoOp /\ Take(undo[Len(undo)]) /\ Next
           /\ ~redone => Now' = priors[Len(priors)]
<1>1. undo # <<>> /\ undo[Len(undo)] \in UndoOp /\ Take(undo[Len(undo)])
  BY NewestIsOp DEF Undo, SessionSound
<1>2. Next
  BY <1>1, TakeIsNext
<1>3. ASSUME ~redone PROVE Now' = priors[Len(priors)]
  <2>1. Chain(undo, priors, Now)
    BY <1>3 DEF SessionSound, HistoryHolds
  <2>2. PICK now : now = Now
    OBVIOUS
  <2>3. Link(undo[Len(undo)], now, priors[Len(priors)])
    BY <1>1, <2>1, <2>2, ChainShrinks DEF SessionSound, SessionTypeOK
  <2> QED BY <1>1, <2>2, <2>3, TakeIsBack DEF Link
<1> QED BY <1>1, <1>2, <1>3

\* The inverse an undo leaves when its checkpoint fails is one op, or none.
LEMMA InverseIsOp ==
    ASSUME Sound, NEW op \in UndoOp
    PROVE  Inverse(op) = <<>> \/ \E inv \in UndoOp : Inverse(op) = <<inv>>
<1>1. CASE op.do = "delete"
  <2>1. Inverse(op) = DeleteInverse(op.id, FALSE)
    BY <1>1 DEF Inverse
  <2>2. op.id \in Live => [do |-> "restore", id |-> op.id, e |-> entities[op.id]] \in UndoOp
    BY DEF UndoOp, Sound, TypeOK
  <2> QED BY <2>1, <2>2 DEF DeleteInverse
<1>2. CASE op.do = "restore"
  <2>1. Inverse(op) = PutInverse(op.id, op.e)
    BY <1>2 DEF Inverse
  <2>2. [do |-> "delete", id |-> op.id, e |-> op.e] \in UndoOp
    BY DEF UndoOp
  <2> QED BY <2>1, <2>2 DEF PutInverse
<1>3. CASE op.do = "replace"
  <2>1. Inverse(op) = Prior(op.id)
    BY <1>3 DEF Inverse
  <2>2. op.id \in Live => [do |-> "replace", id |-> op.id, e |-> entities[op.id]] \in UndoOp
    BY DEF UndoOp, Sound, TypeOK
  <2> QED BY <2>1, <2>2 DEF Prior
<1> QED BY <1>1, <1>2, <1>3 DEF UndoOp

\* Every undo leaves the session sound, its checkpoint failing or not.
LEMMA UndoHistory ==
    ASSUME CatalogAssumption, SessionSound, NEW failed \in BOOLEAN, Undo(failed)
    PROVE  SessionSound'
<1>1. /\ undo # <<>> /\ undo[Len(undo)] \in UndoOp /\ Take(undo[Len(undo)]) /\ Next
      /\ ~redone => Now' = priors[Len(priors)]
  BY UndoTakes
<1>2. Sound /\ Sound' /\ Live \cup tombstones \subseteq Live' \cup tombstones'
  BY <1>1, NextSound, IdsStayKnown DEF SessionSound
<1>3. PICK op : op = undo[Len(undo)]
  OBVIOUS
<1>4. PICK inverse : inverse = Inverse(op)
  OBVIOUS
<1>5. /\ undo' = IF inverse = <<>> THEN <<>>
                 ELSE IF failed THEN Popped(undo) \o inverse ELSE Popped(undo)
      /\ redone' = (undo' # <<>> /\ (redone \/ failed))
      /\ priors' = IF undo' = <<>> \/ redone' THEN <<>> ELSE Popped(priors)
  BY <1>3, <1>4 DEF Undo
<1>6. Popped(undo) \in Seq(UndoOp) /\ redone \in BOOLEAN
  BY <1>1, PoppedSeq DEF SessionSound, SessionTypeOK
<1>7. undo' \in Seq(UndoOp)
  <2>1. inverse = <<>> \/ \E inv \in UndoOp : inverse = <<inv>>
    BY <1>1, <1>2, <1>3, <1>4, InverseIsOp
  <2>2. ASSUME NEW inv \in UndoOp PROVE Popped(undo) \o <<inv>> \in Seq(UndoOp)
    BY <1>6, Appended
  <2> QED BY <1>5, <1>6, <2>1, <2>2
<1>8. CASE undo' = <<>> \/ redone'
  <2>1. priors' = <<>> /\ redone' \in BOOLEAN
    BY <1>5, <1>8
  <2>2. SessionTypeOK'
    BY <1>7, <2>1 DEF SessionTypeOK
  <2>3. HistoryHolds'
    BY <1>8, <2>1 DEF HistoryHolds, Chain, Known
  <2> QED BY <1>2, <2>2, <2>3 DEF SessionSound
<1>9. CASE undo' # <<>> /\ ~redone'
  <2>1. /\ ~redone /\ ~failed /\ redone' = FALSE
        /\ undo' = Popped(undo) /\ priors' = Popped(priors)
    BY <1>5, <1>6, <1>9
  <2>2. Chain(undo, priors, Now) /\ Known(undo, Live \cup tombstones)
    BY <2>1 DEF SessionSound, HistoryHolds
  <2>3. PICK now : now = Now
    OBVIOUS
  <2>4. Len(priors) \in Nat \ {0} /\ Chain(Popped(undo), Popped(priors), priors[Len(priors)])
    BY <1>1, <2>2, <2>3, ChainShrinks DEF SessionSound, SessionTypeOK
  <2>5. Chain(undo, priors, Now)'
    BY <1>1, <2>1, <2>4
  <2>6. Known(Popped(undo), Live' \cup tombstones')
    <3>1. /\ Len(undo) \in Nat /\ Len(Popped(undo)) = Len(undo) - 1
          /\ \A k \in 1..(Len(undo) - 1) : Popped(undo)[k] = undo[k]
      BY <1>1, PoppedSeq DEF SessionSound, SessionTypeOK
    <3> QED BY <1>2, <2>2, <3>1 DEF Known
  <2>7. SessionTypeOK'
    <3>1. priors # <<>>
      BY <2>4
    <3>2. Popped(priors) \in Seq(Snap)
      BY <3>1, PoppedSeq DEF SessionSound, SessionTypeOK
    <3> QED BY <1>7, <2>1, <3>2 DEF SessionTypeOK
  <2> QED BY <1>2, <2>1, <2>5, <2>6, <2>7 DEF SessionSound, HistoryHolds
<1> QED BY <1>6, <1>8, <1>9

\* Handing out an id leaves the session sound.
LEMMA NewIdHistory ==
    ASSUME CatalogAssumption, SessionSound, NewId
    PROVE  SessionSound'
<1>1. Next /\ Now' = Now /\ Live' \cup tombstones' = Live \cup tombstones
  BY DEF NewId, AllocId, Next, Now, Live
<1>2. Sound'
  BY <1>1, NextSound DEF SessionSound
<1>3. SessionTypeOK' /\ HistoryHolds'
  BY <1>1 DEF NewId, SessionSound, SessionTypeOK, HistoryHolds
<1> QED BY <1>2, <1>3 DEF SessionSound

\* So does a step of nobody.
LEMMA StutterHistory ==
    ASSUME SessionSound, UNCHANGED sessionVars
    PROVE  SessionSound'
<1>1. UNCHANGED vars /\ UNCHANGED <<undo, priors, redone>>
  BY DEF sessionVars
<1>2. Sound' /\ Now' = Now /\ Live' = Live /\ tombstones' = tombstones
  BY <1>1, StutterSound DEF SessionSound, vars, Now, Live
<1> QED BY <1>1, <1>2 DEF SessionSound, SessionTypeOK, HistoryHolds

-----------------------------------------------------------------------------
\* Through commits, failed undos and clearings, the history stays a chain back.
THEOREM SessionInductive == SessionSpec => []SessionSound
<1>1. SessionInit => SessionSound
  <2>1. SessionInit => Sound
    BY CatalogAssumption, InitSound DEF SessionInit
  <2>2. SessionInit => SessionTypeOK
    <3>1. <<>> \in Seq(UndoOp) /\ <<>> \in Seq(Snap) /\ FALSE \in BOOLEAN
      OBVIOUS
    <3> QED BY <3>1 DEF SessionInit, SessionTypeOK
  <2>3. SessionInit => HistoryHolds
    <3>1. Chain(<<>>, <<>>, Now) /\ Known(<<>>, Live \cup tombstones)
      BY DEF Chain, Known
    <3> QED BY <3>1 DEF SessionInit, HistoryHolds
  <2> QED BY <2>1, <2>2, <2>3 DEF SessionSound
<1>2. SessionSound /\ [SessionNext]_sessionVars => SessionSound'
  BY CatalogAssumption, CommittedHistory, UndoHistory, NewIdHistory, StutterHistory
     DEF SessionNext
<1> QED BY <1>1, <1>2, PTL DEF SessionSpec

\* Whatever a session commits and takes back, the catalog sees only its ops: what
\* is proved of CatalogState holds of every session.
THEOREM SessionIsCatalog == SessionSpec => Spec
<1>1. SessionInit => Init
  BY DEF SessionInit
<1>2. SessionSound /\ [SessionNext]_sessionVars => [Next]_vars
  <2>1. ASSUME SessionSound, NEW failed \in BOOLEAN, Undo(failed) PROVE Next
    BY <2>1, UndoTakes
  <2>2. NewId => Next
    BY DEF NewId, Next
  <2> QED BY <2>1, <2>2, CommittedIsNext DEF SessionNext, sessionVars
<1> QED BY <1>1, <1>2, SessionInductive, PTL DEF SessionSpec, Spec

\* The newest inverse is always one State::apply accepts, so that no undo is
\* refused and loses its entry, until an undo whose checkpoint failed was redone.
THEOREM UndoAcceptedHolds == SessionSpec => []UndoAccepted
<1>1. SessionSound => UndoAccepted
  <2>1. SUFFICES ASSUME SessionSound, undo # <<>>, ~redone
                 PROVE  Accepts(undo[Len(undo)])
    BY DEF UndoAccepted
  <2>2. undo[Len(undo)] \in UndoOp /\ Len(undo) \in 1..Len(undo)
    BY <2>1, NewestIsOp DEF SessionSound, SessionTypeOK
  <2>3. Chain(undo, priors, Now) /\ Known(undo, Live \cup tombstones)
    BY <2>1 DEF SessionSound, HistoryHolds
  <2>4. PICK now : now = Now
    OBVIOUS
  <2>5. Link(undo[Len(undo)], now, priors[Len(priors)])
    BY <2>1, <2>3, <2>4, ChainShrinks DEF SessionSound, SessionTypeOK
  <2> QED BY <2>1, <2>2, <2>3, <2>4, <2>5, FitsIsAccepted DEF SessionSound, Link, Known
<1> QED BY <1>1, SessionInductive, PTL

\* An undo brings back the entities and redirects there were before the op it
\* takes back, all of them and nothing else.
THEOREM UndoExactHolds == SessionSpec => UndoExact
<1>1. SessionSound /\ [SessionNext]_sessionVars
        => [(\E failed \in BOOLEAN : Undo(failed)) /\ ~redone
              => Now' = priors[Len(priors)]]_sessionVars
  BY UndoTakes
<1> QED BY <1>1, SessionInductive, PTL DEF SessionSpec, UndoExact
=============================================================================
