------------------------------ MODULE CatalogApp ------------------------------
(***************************************************************************)
(* The catalog as the app uses it: the script verbs and the window's       *)
(* controls, batches of ops, export and import, what live detections are   *)
(* filed, and the listing that is kept between frames.                     *)
(*                                                                         *)
(* CatalogState has the ops one by one, CatalogSession the undo history    *)
(* and CatalogStore the log; here the catalog is a value, so that a batch  *)
(* is a fold.  A text is its words; a filter finds a whole name.           *)
(***************************************************************************)
EXTENDS Integers, Sequences, FiniteSets, SequencesExt, FiniteSetsExt, TLC

CONSTANTS
    Airs,       \* what the receiver shows: the active tracks, each [id, centre,
                \* half, power], the tuned frequency, the width's auto, a survey done
    ChannelHalf,\* half the manual channel's width
    Names,      \* what is typed as a name, a tag and a filter: sequences of words
    Documents,  \* files from elsewhere: [format, schema, entities]
    Schema,
    Rows,       \* the rows a frame draws
    Asked(_),   \* which actions are taken up
    Scripts,    \* actions of script lines
    MaxActs, MaxFaults, \* bounds: actions, failures of the log
    None

VARIABLES
    c,      \* Catalog: entities, redirects, tombstones, next id, seq, undo, poisoned
    ui,     \* CatalogState and the window's fields
    air,    \* what the receiver shows
    used    \* actions and faults so far

vars == <<c, ui, air, used>>

-----------------------------------------------------------------------------
(* Entities and their ops.                                                 *)
Named     == {"signal", "source", "emitter"}
Pinnable  == Named \cup {"plan", "survey"}
Rank(kind) == CASE kind \in {"source", "plan", "survey"} -> 0 [] kind \in {"signal", "emitter"} -> 1
                [] kind = "transmission" -> 2 [] kind = "observation" -> 3

\* `of' is the entity's owner and `tx' an observation's transmission; `from'
\* is the input_ref, newest mark first, and `at' when it was made.
Entity(kind) ==
    [kind |-> kind, of |-> None, tx |-> None, name |-> <<>>, aliases |-> {}, tags |-> {},
     pinned |-> FALSE, centre |-> 0, half |-> 0, from |-> <<>>, at |-> 0]

Live(x) == DOMAIN x.entities
IsLive(x, id, kind) == id \in Live(x) /\ x.entities[id].kind = kind
Holds(id, kind, kinds) == id \in DOMAIN kinds /\ kinds[id] = kind
KindsOf(x) == [i \in Live(x) |-> x.entities[i].kind]
\* check_refs, and problems: the references name entities of the right kind.
RefsHold(e, kinds) ==
    /\ e.kind \in {"observation", "transmission"} => Holds(e.of, "signal", kinds)
    /\ e.kind \in {"signal", "emitter"} /\ e.of # None => Holds(e.of, "source", kinds)
    /\ e.kind = "observation" /\ e.tx # None => Holds(e.tx, "transmission", kinds)

\* referrers_deep: a source's signals, their transmissions, and observations.
Up(x, S) == S \cup {i \in Live(x) : x.entities[i].of \in S \/ x.entities[i].tx \in S}
Deep(x, id) == Up(x, Up(x, Up(x, {id}))) \ {id}
Doomed(x, ids) == {i \in ids : IsLive(x, i, "signal") /\ ~x.entities[i].pinned}
Resolve(x, id) == IF id \in DOMAIN x.redirects THEN x.redirects[id] ELSE id

Allowed(x, op) ==
    CASE op.do = "insert" -> /\ op.id \notin Live(x) \cup DOMAIN x.redirects \cup x.tombstones
                             /\ RefsHold(op.e, KindsOf(x))
      [] op.do = "restore" -> /\ op.id \in x.tombstones \ DOMAIN x.redirects
                              /\ RefsHold(op.e, KindsOf(x))
      [] op.do = "replace" -> IsLive(x, op.id, op.e.kind) /\ RefsHold(op.e, KindsOf(x))
      [] op.do = "tag" -> op.id \in Live(x) /\ x.entities[op.id].kind \in {"signal", "source"}
      [] op.do \in {"rename", "alias", "edit"} -> op.id \in Live(x) /\ x.entities[op.id].kind \in Named
      [] op.do = "pin" -> op.id \in Live(x) /\ x.entities[op.id].kind \in Pinnable
      [] op.do = "delete" -> /\ op.id \in Live(x) /\ ~x.entities[op.id].pinned
                             /\ op.on \/ Deep(x, op.id) = {}
      [] op.do = "purge" -> op.on \/ \A i \in Doomed(x, op.ids) : Deep(x, i) = {}
      [] op.do = "merge" -> /\ op.id # op.to /\ IsLive(x, op.id, "signal")
                            /\ Resolve(x, op.to) # op.id /\ IsLive(x, Resolve(x, op.to), "signal")

Put(x, id, e) == [x EXCEPT !.entities = (id :> e) @@ @]
Edited(x, id, e) == [x EXCEPT !.entities[id] = e]
Retire(x, S) ==
    [x EXCEPT !.entities = Restrict(@, Live(x) \ S), !.tombstones = @ \cup (S \cap Live(x)),
              !.redirects = Restrict(@, {i \in DOMAIN @ : @[i] \notin S})]

Renamed(e, name) ==
    IF e.name = name THEN e ELSE [e EXCEPT !.name = name, !.aliases = (@ \ {name}) \cup {e.name}]

Merged(x, from, to) ==
    LET src == x.entities[from]
        moved == {i \in Live(x) : x.entities[i].kind \in {"observation", "transmission"}
                                    /\ x.entities[i].of = from}
        into == [x.entities[to] EXCEPT !.aliases = @ \cup (({src.name} \cup src.aliases) \ {x.entities[to].name}),
                                       !.tags = @ \cup src.tags, !.pinned = @ \/ src.pinned]
    IN [x EXCEPT !.entities = [i \in Live(x) \ {from} |->
                                  IF i \in moved THEN [x.entities[i] EXCEPT !.of = to]
                                  ELSE IF i = to THEN into ELSE x.entities[i]],
                 !.tombstones = @ \cup {from},
                 !.redirects = (from :> to) @@ [i \in DOMAIN @ |-> IF @[i] = from THEN to ELSE @[i]]]

Applied(x, op) ==
    LET e == IF op.do \in {"tag", "rename", "alias", "edit", "pin"} THEN x.entities[op.id] ELSE None
    IN CASE op.do = "insert" -> [Put(x, op.id, op.e) EXCEPT !.next = Max({@, op.id})]
         [] op.do = "restore" -> [Put(x, op.id, op.e) EXCEPT !.tombstones = @ \ {op.id}]
         [] op.do = "replace" -> Put(x, op.id, op.e)
         [] op.do = "tag" -> Edited(x, op.id, [e EXCEPT !.tags = IF op.on THEN @ \cup {op.text} ELSE @ \ {op.text}])
         [] op.do = "rename" -> Edited(x, op.id, Renamed(e, op.text))
         [] op.do = "alias" -> Edited(x, op.id, [e EXCEPT !.aliases = @ \cup {op.text}])
         [] op.do = "edit" -> Edited(x, op.id, [e EXCEPT !.name = op.text])
         [] op.do = "pin" -> Edited(x, op.id, [e EXCEPT !.pinned = op.on])
         [] op.do = "delete" -> Retire(x, {op.id} \cup Deep(x, op.id))
         [] op.do = "purge" -> LET ids == Doomed(x, op.ids)
                               IN Retire(x, ids \cup UNION {Deep(x, i) : i \in ids})
         [] op.do = "merge" -> Merged(x, op.id, Resolve(x, op.to))

\* State::inverse: the op that takes the op back, if one does.
TakenBack(x, op) ==
    CASE op.do \in {"insert", "restore"} ->
           IF op.e.pinned THEN None ELSE [do |-> "delete", id |-> op.id, on |-> FALSE]
      [] op.do \in {"replace", "tag", "rename", "alias", "edit", "pin"} /\ op.id \in Live(x) ->
           [do |-> "replace", id |-> op.id, e |-> x.entities[op.id]]
      [] op.do = "delete" /\ op.id \in Live(x) ->
           IF op.on \/ \E i \in DOMAIN x.redirects : x.redirects[i] = op.id THEN None
           ELSE [do |-> "restore", id |-> op.id, e |-> x.entities[op.id]]
      [] OTHER -> None

-----------------------------------------------------------------------------
(* commit_many, undo.                                                      *)
Told(ok, x) == [ok |-> ok, c |-> x]

\* The ops up to the first that is refused; all of them are logged at once,
\* after they were applied.
Remembered(undo, inverse) == IF inverse = None THEN <<>> ELSE Append(undo, inverse)
CommitMany(x, ops, logs) ==
    LET run == FoldLeft(LAMBDA r, op :
                   IF ~r.ok \/ ~Allowed(r.c, op) THEN [r EXCEPT !.ok = FALSE]
                   ELSE [ok |-> TRUE, c |-> Applied(r.c, op), n |-> r.n + 1,
                         undo |-> Remembered(r.undo, TakenBack(r.c, op))],
                   [ok |-> TRUE, c |-> x, n |-> 0, undo |-> x.undo], ops)
    IN IF x.poisoned THEN Told(FALSE, x)
       ELSE IF ~logs /\ run.n > 0 THEN Told(FALSE, [run.c EXCEPT !.poisoned = TRUE])
       ELSE Told(run.ok, [run.c EXCEPT !.seq = @ + run.n, !.undo = run.undo])
Commit(x, op, logs) == CommitMany(x, <<op>>, logs)

Undo(x, logs) ==
    IF x.undo = <<>> THEN Told(FALSE, x)
    ELSE LET front == SubSeq(x.undo, 1, Len(x.undo) - 1)
             r == Commit([x EXCEPT !.undo = front], Last(x.undo), logs)
         IN [r EXCEPT !.c.undo = SubSeq(@, 1, Min({Len(@), Len(front)}))]

NewId(x) == x.next + 1
\* Inserts of a new entity under a new id.
Filed(x, e, logs) ==
    Commit([x EXCEPT !.next = @ + 1], [do |-> "insert", id |-> NewId(x), e |-> [e EXCEPT !.at = used.acts]], logs)

-----------------------------------------------------------------------------
(* Export and import.                                                      *)
\* By the key, then by id.
InOrder(S, key) ==
    [k \in 1..Cardinality(S) |-> CHOOSE i \in S :
        Cardinality({j \in S : key[j] < key[i] \/ (key[j] = key[i] /\ j <= i)}) = k]
Exported(x) ==
    LET ids == InOrder(Live(x), [i \in Live(x) |-> 0])
    IN [format |-> TRUE, schema |-> Schema,
        entities |-> [k \in DOMAIN ids |-> [id |-> ids[k], e |-> x.entities[ids[k]]]]]

Problems(doc) ==
    LET n == DOMAIN doc.entities
        kinds == [i \in {doc.entities[k].id : k \in n} |->
                    doc.entities[Max({k \in n : doc.entities[k].id = i})].e.kind]
    IN {k \in n : ~RefsHold(doc.entities[k].e, kinds)
                    \/ \E j \in 1..(k - 1) : doc.entities[j].id = doc.entities[k].id}
Importable(doc) == doc.format /\ doc.schema <= Schema /\ Problems(doc) = {}

\* The entities referred to come first; each refers to the new ids alone.
ByRank(entities) ==
    FlattenSeq([r \in 1..4 |-> SelectSeq(entities, LAMBDA d : Rank(d.e.kind) = r - 1)])
Remapped(d, map) ==
    [do |-> "insert", id |-> map[d.id],
     e |-> [d.e EXCEPT !.of = IF @ = None THEN None ELSE map[@], !.tx = IF @ = None THEN None ELSE map[@],
                       !.from = <<d.id>> \o @, !.at = used.acts]]
NewIds(x, doc) ==
    [i \in {doc.entities[k].id : k \in DOMAIN doc.entities} |->
        x.next + CHOOSE k \in DOMAIN doc.entities : doc.entities[k].id = i]
Import(x, doc, logs) ==
    IF ~Importable(doc) THEN Told(FALSE, x)
    ELSE LET map == NewIds(x, doc)
             todo == ByRank(doc.entities)
         IN CommitMany([x EXCEPT !.next = @ + Len(todo)],
                       [k \in DOMAIN todo |-> Remapped(todo[k], map)], logs)

-----------------------------------------------------------------------------
(* What the receiver hears, filed.                                         *)
Abs(n) == IF n < 0 THEN -n ELSE n
\* min_by: the first of the nearest.
Nearest(S, hz, centre(_)) ==
    CHOOSE i \in S : \A j \in S : Abs(centre(i) - hz) < Abs(centre(j) - hz)
                                   \/ (Abs(centre(i) - hz) = Abs(centre(j) - hz) /\ i <= j)
Covers(t, hz) == Abs(hz - t.centre) <= Max({t.half, 1})

\* nearest_track.
NearestTrack(a) == a.tracks[Nearest(DOMAIN a.tracks, a.tuned, LAMBDA k : a.tracks[k].centre)]
ChannelWidth(a) ==
    IF a.auto /\ a.tracks # <<>> /\ NearestTrack(a).half > 0 THEN NearestTrack(a).half ELSE ChannelHalf

\* from_tuned: the nearest track, when it covers the tuned frequency.
Tuned(a) ==
    LET t == NearestTrack(a)
    IN IF a.tracks # <<>> /\ Covers(t, a.tuned)
       THEN [Entity("signal") EXCEPT !.centre = t.centre, !.half = t.half, !.from = <<t.id>>]
       ELSE [Entity("signal") EXCEPT !.centre = a.tuned, !.half = ChannelWidth(a)]

\* observe: each track against the nearest of the signals it overlaps.
Overlapped(x, t) ==
    {i \in Live(x) : /\ x.entities[i].kind = "signal"
                     /\ Abs(x.entities[i].centre - t.centre) <= t.half + Max({x.entities[i].half, 1})}
Observe(x, a, logs) ==
    FoldLeft(LAMBDA r, t :
                IF ~r.ok \/ Overlapped(r.c, t) = {} THEN r
                ELSE LET of == Nearest(Overlapped(r.c, t), t.centre, LAMBDA i : r.c.entities[i].centre)
                     IN Filed(r.c, [Entity("observation") EXCEPT !.of = of, !.centre = t.centre,
                                                                 !.half = t.half, !.from = <<t.id>>], logs),
             Told(TRUE, x), a.tracks)

-----------------------------------------------------------------------------
(* Verbs and their lines: a token is a word or a list of ids.              *)
Act(verb) == [verb |-> verb, id |-> None, to |-> None, sub |-> "", text |-> <<>>, ids |-> <<>>, on |-> FALSE]
W(word) == [w |-> word, ids |-> <<>>]
I(ids) == [w |-> "", ids |-> ids]
TextOf(words) == [k \in DOMAIN words |-> W(words[k])]
Cascade(on) == IF on THEN <<W("cascade")>> ELSE <<>>

\* Display, as the tokens parse will find.
Line(a) ==
    LET rest == CASE a.verb \in {"list", "survey", "export", "import"} -> TextOf(a.text)
                  [] a.verb = "add" -> (IF a.id = None THEN <<>> ELSE <<I(<<a.id>>)>>) \o TextOf(a.text)
                  [] a.verb \in {"rename", "alias", "tag", "untag"} -> <<I(<<a.id>>)>> \o TextOf(a.text)
                  [] a.verb = "edit" -> <<I(<<a.id>>), W(a.sub)>> \o TextOf(a.text)
                  [] a.verb = "delete" -> <<I(<<a.id>>)>> \o Cascade(a.on)
                  [] a.verb = "purge" -> <<I(a.ids)>> \o Cascade(a.on)
                  [] a.verb = "merge" -> <<I(<<a.id>>), I(<<a.to>>)>>
                  [] a.verb = "bulk" -> <<W(a.sub), I(a.ids)>> \o TextOf(a.text)
                  [] a.verb \in {"pin", "unpin"} -> <<I(<<a.id>>)>>
                  [] a.verb = "select" -> IF a.id = None THEN <<W("none")>> ELSE <<I(<<a.id>>)>>
                  [] a.verb = "window" -> <<W(IF a.on THEN "on" ELSE "off")>>
                  [] OTHER -> <<>>
    IN <<W(a.verb)>> \o SelectSeq(rest, LAMBDA t : t # W(""))

\* parse: None when the line is refused.
Parsed(line) ==
    LET verb == line[1].w
        rest == Tail(line)
        has(i) == i <= Len(rest)
        one(i) == has(i) /\ Len(rest[i].ids) = 1
        id == rest[1].ids[1]
        tail(i) == [k \in 1..Max({Len(rest) - i + 1, 0}) |-> rest[k + i - 1].w]
        cascade == W("cascade") \in {rest[i] : i \in DOMAIN rest}
        a == Act(verb)
    IN CASE verb \in {"list", "survey", "export", "import"} -> [a EXCEPT !.text = tail(1)]
         [] verb = "add" -> IF rest = <<>> THEN a
                            ELSE IF one(1) THEN [a EXCEPT !.id = id, !.text = tail(2)] ELSE None
         [] verb \in {"observe", "undo"} -> a
         [] verb \in {"rename", "alias"} -> IF one(1) THEN [a EXCEPT !.id = id, !.text = tail(2)] ELSE None
         [] verb \in {"tag", "untag"} ->
              IF one(1) /\ has(2) THEN [a EXCEPT !.id = id, !.text = <<rest[2].w>>] ELSE None
         [] verb = "edit" -> IF one(1) /\ has(2)
                             THEN [a EXCEPT !.id = id, !.sub = rest[2].w, !.text = tail(3)] ELSE None
         [] verb = "delete" -> IF one(1) THEN [a EXCEPT !.id = id, !.on = cascade] ELSE None
         [] verb = "purge" -> IF has(1) /\ rest[1].w = "" THEN [a EXCEPT !.ids = rest[1].ids, !.on = cascade]
                              ELSE None
         [] verb = "merge" -> IF one(1) /\ one(2) THEN [a EXCEPT !.id = id, !.to = rest[2].ids[1]] ELSE None
         [] verb = "bulk" -> IF has(2) /\ rest[2].w = ""
                             THEN [a EXCEPT !.sub = rest[1].w, !.ids = rest[2].ids, !.text = tail(3)] ELSE None
         [] verb \in {"pin", "unpin"} -> IF one(1) THEN [a EXCEPT !.id = id] ELSE None
         [] verb = "select" -> IF ~has(1) THEN None ELSE IF one(1) THEN [a EXCEPT !.id = id] ELSE a
         [] verb = "window" -> IF has(1) THEN [a EXCEPT !.on = rest[1].w = "on"] ELSE None
         [] OTHER -> None

-----------------------------------------------------------------------------
(* The listing, kept for a sequence number and a filter.                   *)
Finds(e, filter) == filter = <<>> \/ filter \in {e.name} \cup e.tags \cup e.aliases
History(x, id) == {o \in Live(x) : x.entities[o].kind = "observation" /\ x.entities[o].of = Resolve(x, id)}
Unsound(x) == {i \in Live(x) : ~RefsHold(x.entities[i], KindsOf(x))}
                \cup {i \in DOMAIN x.redirects : ~IsLive(x, x.redirects[i], "signal")}
Built(x, filter) ==
    LET ids == {i \in Live(x) : x.entities[i].kind = "signal" /\ Finds(x.entities[i], filter)}
    IN [key |-> <<x.seq, filter>>,
        ids |-> InOrder(ids, [i \in ids |-> x.entities[i].at]),
        observations |-> [i \in ids |-> Cardinality(History(x, i))],
        problems |-> Cardinality(Unsound(x))]
Listed(u, x) == IF u.listing # None /\ u.listing.key = <<x.seq, u.filter>> THEN u.listing ELSE Built(x, u.filter)
Page(u, x) == LET ids == Listed(u, x).ids IN {ids[k] : k \in 1..Min({Rows, Len(ids)})} \cap Live(x)

-----------------------------------------------------------------------------
(* apply.                                                                  *)
BulkOp(a, id) ==
    CASE a.sub = "tag" -> [do |-> "tag", id |-> id, text |-> a.text, on |-> TRUE]
      [] a.sub = "untag" -> [do |-> "tag", id |-> id, text |-> a.text, on |-> FALSE]
      [] a.sub \in {"pin", "unpin"} -> [do |-> "pin", id |-> id, on |-> a.sub = "pin"]
      [] OTHER -> [do |-> "delete", id |-> id, on |-> a.text = <<"cascade">>]
BulkVerbs == {"tag", "untag", "pin", "unpin", "delete"}
OpOf(a) ==
    CASE a.verb \in {"rename", "alias", "edit"} -> [do |-> a.verb, id |-> a.id, text |-> a.text]
      [] a.verb \in {"tag", "untag"} -> [do |-> "tag", id |-> a.id, text |-> a.text, on |-> a.verb = "tag"]
      [] a.verb \in {"pin", "unpin"} -> [do |-> "pin", id |-> a.id, on |-> a.verb = "pin"]
      [] a.verb = "delete" -> [do |-> "delete", id |-> a.id, on |-> a.on]
      [] a.verb = "purge" -> [do |-> "purge", ids |-> {a.ids[k] : k \in DOMAIN a.ids}, on |-> a.on]
      [] a.verb = "merge" -> [do |-> "merge", id |-> a.id, to |-> a.to]

\* The file an import names: one from elsewhere, or what was exported.
FileAt(a, file) == IF a.sub = "" THEN file ELSE CHOOSE d \in Documents : d.name = a.sub
Ran(x, a, file, logs) ==
    CASE a.verb = "add" ->
           Filed(x, IF a.id = None THEN Tuned(air)
                    ELSE [Entity("signal") EXCEPT !.centre = a.id, !.name = a.text], logs)
      [] a.verb = "survey" -> IF ~air.surveyed THEN Told(FALSE, x) ELSE Filed(x, [Entity("survey") EXCEPT !.name = a.text], logs)
      [] a.verb = "observe" -> Observe(x, air, logs)
      [] a.verb = "bulk" ->
           IF a.sub \notin BulkVerbs /\ a.ids # <<>> THEN Told(FALSE, x)
           ELSE CommitMany(x, [k \in DOMAIN a.ids |-> BulkOp(a, a.ids[k])], logs)
      [] a.verb = "undo" -> Undo(x, logs)
      [] a.verb = "export" -> Told(TRUE, x)
      [] a.verb = "import" -> IF FileAt(a, file) = None THEN Told(FALSE, x) ELSE Import(x, FileAt(a, file), logs)
      [] a.verb \in {"list", "window", "select"} -> Told(TRUE, x)
      [] OTHER -> Commit(x, OpOf(a), logs)

Shown(u, x, a, r) ==
    [u EXCEPT !.filter = IF a.verb = "list" THEN a.text ELSE @,
              !.selected = IF a.verb = "select" THEN a.id
                           ELSE IF a.verb = "add" /\ r.ok THEN NewId(x) ELSE @,
              !.file = IF a.verb = "export" THEN Exported(x) ELSE @,
              !.into = IF a.verb = "merge" /\ a.to = @ THEN None ELSE @, !.ok = r.ok]

\* What the window offers: above the list, in its rows, of the one selected.
OfferList(u, x) ==
    {[Act("list") EXCEPT !.text = n] : n \in Names \cup {<<>>}}
      \cup {Act("add"), Act("observe"), Act("undo")}
      \cup {[Act(v) EXCEPT !.text = <<"f">>] : v \in {"export", "import"}}
OfferRows(u, x) ==
    UNION {{[Act(IF x.entities[i].pinned THEN "unpin" ELSE "pin") EXCEPT !.id = i],
            [Act("select") EXCEPT !.id = i]} : i \in Page(u, x)}
OfferSelected(u, x) ==
    IF ~IsLive(x, u.selected, "signal") THEN {}
    ELSE {[Act(v) EXCEPT !.id = u.selected, !.text = n] : v \in {"rename", "alias", "tag", "untag"}, n \in Names}
           \cup (IF u.into \in Page(u, x) THEN {[Act("merge") EXCEPT !.id = u.selected, !.to = u.into]} ELSE {})
           \cup (IF x.entities[u.selected].pinned THEN {}
                 ELSE {[Act("delete") EXCEPT !.id = u.selected, !.on = on] : on \in BOOLEAN})
Offers(u, x) == OfferList(u, x) \cup OfferRows(u, x) \cup OfferSelected(u, x)

-----------------------------------------------------------------------------
(* What happens.                                                           *)
Do ==
    \E a \in Offers(ui, c) \cup Scripts, logs \in BOOLEAN :
       /\ Asked(a) /\ used.acts < MaxActs /\ (logs \/ used.faults < MaxFaults)
       /\ LET r == Ran(c, a, ui.file, logs)
          IN /\ r.c.poisoned \/ logs   \* nothing was logged otherwise
             /\ c' = r.c /\ ui' = Shown(ui, c, a, r)
       /\ used' = [acts |-> used.acts + 1, faults |-> used.faults + (IF logs THEN 0 ELSE 1)]
       /\ UNCHANGED air
\* The merge target is one of the listed signals, other than the selected.
PickTarget ==
    /\ used.acts < MaxActs /\ IsLive(c, ui.selected, "signal")
    /\ \E t \in Page(ui, c) \ {ui.selected} : ui' = [ui EXCEPT !.into = t]
    /\ UNCHANGED <<c, air, used>>
Hear == air' \in Airs /\ used.acts < MaxActs /\ UNCHANGED <<c, ui, used>>
Frame == ui' = [ui EXCEPT !.listing = Listed(ui, c)] /\ UNCHANGED <<c, air, used>>

Init ==
    /\ c = [entities |-> <<>>, redirects |-> <<>>, tombstones |-> {}, next |-> 0, seq |-> 0,
            undo |-> <<>>, poisoned |-> FALSE]
    /\ ui = [filter |-> <<>>, selected |-> None, into |-> None, listing |-> None, file |-> None, ok |-> TRUE]
    /\ air \in Airs
    /\ used = [acts |-> 0, faults |-> 0]
Next == Do \/ PickTarget \/ Hear \/ Frame
Spec == Init /\ [][Next]_vars

-----------------------------------------------------------------------------
\* What a frame reads is what a scan of the catalog would find, however the
\* ops, batches, refusals and undos since the last frame went: until the log
\* fails.
ListingIsTrue ==
    ~c.poisoned /\ ui.listing # None /\ ui.listing.key = <<c.seq, ui.filter>>
       => ui.listing = Built(c, ui.filter)

\* An import brings every entity of its document once, tied to its own copies
\* and to nothing that was here, or nothing; so does one of this catalog's own
\* export.
ImportIsFaithful ==
    \A doc \in Documents \cup {Exported(c)} :
       LET r == Import(c, doc, TRUE)
           new == Live(r.c) \ Live(c)
           was(i) == r.c.entities[i].from[1]
       IN IF r.ok
          THEN /\ Cardinality(new) = Len(doc.entities)
               /\ {was(i) : i \in new} = {doc.entities[k].id : k \in DOMAIN doc.entities}
               /\ Restrict(r.c.entities, Live(c)) = c.entities
               /\ \A i \in new : LET e == r.c.entities[i]
                                     d == CHOOSE d \in ToSet(doc.entities) : d.id = was(i)
                                 IN /\ e.name = d.e.name /\ e.pinned = d.e.pinned /\ e.kind = d.e.kind
                                    /\ (e.of = None) = (d.e.of = None) /\ (e.tx = None) = (d.e.tx = None)
                                    /\ e.of # None => e.of \in new /\ was(e.of) = d.e.of
                                    /\ e.tx # None => e.tx \in new /\ was(e.tx) = d.e.tx
          ELSE r.c.entities = c.entities /\ (c.poisoned \/ (~Importable(doc) /\ r.c = c))

\* A batch is the loop of its commits: what they leave when one is refused is
\* what it leaves, with the same numbers and the same history.
BulkIsALoop ==
    \A ids \in Live(c) \X Live(c), sub \in {"tag", "pin", "delete"} :
       LET a == [Act("bulk") EXCEPT !.sub = sub, !.ids = ids, !.text = <<"cascade">>]
       IN CommitMany(c, [k \in 1..2 |-> BulkOp(a, ids[k])], TRUE)
            = FoldLeft(LAMBDA r, id : IF r.ok THEN Commit(r.c, BulkOp(a, id), TRUE) ELSE r,
                       Told(TRUE, c), ids)

\* What the window offers is read back from its line and done, until the log
\* fails: only a delete without its observations, an undo of nothing, a file
\* and a merge of a signal into itself are refused.
OfferedIsTaken ==
    ~c.poisoned => \A a \in Offers(ui, c) :
       /\ Len(a.text) <= 1 => Parsed(Line(a)) = a
       /\ \/ Ran(c, a, ui.file, TRUE).ok
          \/ a.verb = "delete" /\ ~a.on /\ Deep(c, a.id) # {}
          \/ a.verb = "undo" /\ c.undo = <<>>
          \/ a.verb = "import" /\ (ui.file = None \/ ~Importable(ui.file))
          \/ a.verb = "merge" /\ a.id = a.to

-----------------------------------------------------------------------------
(* What comments say, and the code does not do.                            *)

\* "so `(seq, filter)` says exactly when the listing is stale"
\* (listing.rs:10): violated once the log fails, which leaves the ops applied
\* and not numbered.
ListingIsExact ==
    ui.listing # None /\ ui.listing.key = <<c.seq, ui.filter>> => ui.listing = Built(c, ui.filter)

\* "the strongest live detection" (grammar.rs:11): violated by a weaker track
\* nearer to the tuned frequency.
StrongestIsFiled ==
    air.tracks # <<>> => \E k \in DOMAIN air.tracks :
       /\ \A j \in DOMAIN air.tracks : air.tracks[j].power <= air.tracks[k].power
       /\ Tuned(air).centre = air.tracks[k].centre

\* "the active detection covering it ... when there is one" (mod.rs:7):
\* violated by a wide track under a narrow one that is nearer and does not
\* cover the tuned frequency.
CoveringIsFiled ==
    (\E k \in DOMAIN air.tracks : Covers(air.tracks[k], air.tuned))
       => \E k \in DOMAIN air.tracks : Covers(air.tracks[k], air.tuned)
                                         /\ Tuned(air).centre = air.tracks[k].centre

\* "else the tuned frequency itself with the manual channel width" (mod.rs:8):
\* violated by a width on auto, which is the nearest track's, wherever it is.
ManualWidthIsFiled == LET e == Tuned(air) IN e.from = <<>> => e.half = ChannelHalf

\* "`parse` reads it back to the same action" (grammar.rs:84): violated by a
\* tag of two words, and by a batch of no ids.
EveryActionIsRead == \A a \in Offers(ui, c) \cup Scripts : Parsed(Line(a)) = a

\* A signal is not offered as its own merge target (catalog_window.rs:199):
\* violated by choosing a target and then selecting it.
NoMergeIntoItself == \A a \in Offers(ui, c) : a.verb = "merge" => a.id # a.to
=============================================================================
