--------------------------- MODULE AutoStateProofs ---------------------------
(***************************************************************************)
(* What the state file is worth, for every set of states, every debounce,  *)
(* every timeout and every length of a session.                            *)
(***************************************************************************)
EXTENDS AutoState, TLAPS

USE AutoStateAssumption DEF AutoStateAssumption

Stored == Texts \cup {NoText}

AllFields ==
    [saved : Stored, restored : BOOLEAN, written : Stored, pending : Stored, since : Nat]

Types ==
    /\ file \in Stored /\ live \in Stored /\ opened \in Stored
    /\ up \in BOOLEAN /\ now \in Nat
    /\ st \in AllFields
    /\ queue \in [wait : Nat, text : Stored]
    /\ seen \in [text : Stored, for : Nat]
    /\ used \in [edits : Nat, launches : Nat, fails : Nat, waits : Nat]

\* Without an edit and without a wait, what was opened is in three places:
\* the file, last_written, and either on its way through the queue or live.
Untouched ==
    opened # NoText /\ used.edits = 0 /\ used.waits = 0 =>
        /\ file = opened /\ st.written = opened /\ queue.wait = 0
        /\ up /\ ~st.restored => st.saved = opened /\ queue.text = NoText
        /\ up /\ st.restored => \/ queue.text = opened
                                \/ queue.text = NoText /\ live = opened

\* last_written is the file as long as no write failed.
WrittenIsFile == used.fails = 0 => st.written = file

\* What is still to be restored is something.
SavedIsThere == ~st.restored => st.saved # NoText

\* A text seen at the last check is written, or pending for as long.
SeenIsPending ==
    up /\ st.restored /\ seen.text # NoText /\ st.written # seen.text =>
        /\ st.pending = seen.text
        /\ st.since + seen.for <= now /\ now - st.since < Debounce

\* An exit leaves nothing unsaved.
ExitSaved ==
    ~up /\ st.restored /\ used.fails = 0 /\ live # NoText /\ queue.text = NoText => file = live

IInv == Types /\ Untouched /\ WrittenIsFile /\ SavedIsThere /\ SeenIsPending /\ ExitSaved
        /\ st.since <= now /\ (up => live # NoText)
        /\ (~st.restored => seen.text = NoText)

\* The invariant holds at the start, over whatever file there is.
LEMMA InitHolds == Init => IInv
<1> SUFFICES ASSUME Init PROVE IInv
  OBVIOUS
<1>1. /\ st = [saved |-> file, restored |-> file = NoText, written |-> file,
              pending |-> NoText, since |-> 0]
      /\ file \in Stored /\ opened = file /\ live = NoText /\ up = FALSE /\ now = 0
      /\ queue = [wait |-> 0, text |-> NoText] /\ seen = [text |-> NoText, for |-> 0]
      /\ used = [edits |-> 0, launches |-> 0, fails |-> 0, waits |-> 0]
  BY DEF Init, Opened, Fields, Stored
<1>2. Types
  BY <1>1 DEF Types, Stored, AllFields
<1>3. ~st.restored => st.saved # NoText
  BY <1>1
<1>4. st.since = 0 /\ st.written = file /\ queue.wait = 0
  BY <1>1
<1>5. Untouched
  BY <1>1, <1>4 DEF Untouched
<1> QED
  BY <1>1, <1>2, <1>3, <1>4, <1>5 DEF IInv, WrittenIsFile, SavedIsThere, SeenIsPending, ExitSaved

\* What a tick may do to the file and to AutoState.
Waits(time)    == ~st.restored /\ ~Restores(time) /\ UNCHANGED <<file, st, used>>
Restoring(time) ==
    /\ ~st.restored /\ Restores(time)
    /\ st' = [st EXCEPT !.restored = TRUE, !.saved = NoText]
    /\ UNCHANGED <<file, used>>
Rests(text) == st.restored /\ text = st.written /\ UNCHANGED <<file, st, used>>
Changed(text, time) ==
    /\ st.restored /\ text # st.written
    /\ st'.restored /\ st'.saved = st.saved
    /\ st'.since = IF text = st.pending THEN st.since ELSE time
    /\ st' \in AllFields
Pends(text, time) ==
    /\ Changed(text, time) /\ UNCHANGED <<file, used>>
    /\ st'.written = st.written /\ st'.pending = text /\ time - st'.since < Debounce
Saves(text, time) ==
    /\ Changed(text, time) /\ st'.written = text
    /\ \/ file' = text /\ used' = used
       \/ file' = file /\ used' = [used EXCEPT !.fails = @ + 1]

\* A tick waits, restores, rests, starts to wait for a change to settle, or saves.
LEMMA TickCases ==
    ASSUME Types, NEW text \in Texts, NEW time \in Nat, NEW exiting \in BOOLEAN,
           NEW done \in BOOLEAN, Tick(text, time, exiting, done)
    PROVE  \/ Waits(time) \/ Restoring(time) \/ Rests(text)
           \/ Pends(text, time) /\ ~exiting
           \/ Saves(text, time)
<1> DEFINE s == IF text = st.pending THEN st ELSE [st EXCEPT !.pending = text, !.since = time]
<1>1. CASE ~st.restored
  BY <1>1 DEF Tick, Waits, Restoring
<1>2. CASE st.restored /\ text = st.written
  BY <1>2 DEF Tick, Rests
<1>3. CASE st.restored /\ text # st.written
  <2>1. /\ s \in AllFields
        /\ s.restored /\ s.saved = st.saved /\ s.written = st.written /\ s.pending = text
        /\ s.since = IF text = st.pending THEN st.since ELSE time
    BY <1>3 DEF Types, Stored, AllFields
  <2>2. IF Due(s, time, exiting) THEN Save(text, s, done) ELSE st' = s /\ UNCHANGED <<file, used>>
    BY <1>3 DEF Tick
  <2> HIDE DEF s
  <2>3. CASE ~Due(s, time, exiting)
    <3>1. ~exiting /\ ~(time - s.since >= Debounce)
      BY <2>3 DEF Due
    <3>2. s.since \in Nat /\ Debounce \in Nat
      BY <2>1 DEF AllFields
    <3>3. time - s.since < Debounce
      BY <3>1, <3>2
    <3>4. st' = s /\ UNCHANGED <<file, used>>
      BY <2>2, <2>3
    <3> QED
      BY <1>3, <2>1, <3>1, <3>3, <3>4 DEF Pends, Changed
  <2>4. CASE Due(s, time, exiting)
    <3>1. /\ file' = IF done THEN text ELSE file
          /\ st' = [s EXCEPT !.written = text]
          /\ used' = [used EXCEPT !.fails = @ + (IF done THEN 0 ELSE 1)]
      BY <2>2, <2>4 DEF Save
    <3>2. done => used' = used
      BY <3>1 DEF Types
    <3> QED
      BY <1>3, <2>1, <3>1, <3>2 DEF Stored, AllFields, Saves, Changed
  <2> QED
    BY <2>3, <2>4
<1> QED
  BY <1>1, <1>2, <1>3

\* What the script leaves in a frame: the text that was due, or what was there.
LEMMA RanIs ==
    ASSUME IInv, up
    PROVE  /\ Ran \in Texts /\ Left \in Stored
           /\ queue.text = NoText => Ran = live /\ Left = NoText
           /\ queue.wait = 0 => Left = NoText
           /\ queue.wait = 0 /\ queue.text # NoText => Ran = queue.text
  BY DEF Ran, Left, IInv, Types, Stored

\* The periodic check keeps the invariant.
LEMMA CheckHolds ==
    ASSUME IInv, NEW done \in BOOLEAN, Check(done)
    PROVE  IInv'
<1>0. Tick(live', now', FALSE, done)
  BY DEF Check
<1>1. /\ up /\ up' /\ now' = now + 1 /\ now' \in Nat /\ live' = Ran /\ opened' = opened
      /\ Types /\ st.since \in Nat /\ st.since <= now
  BY DEF Check, IInv, Types, AllFields
<1>2. /\ Ran \in Texts /\ live' \in Texts /\ Left \in Stored
  BY <1>1, RanIs
<1>3. /\ queue'.wait = IF queue.wait = 0 THEN 0 ELSE queue.wait - 1
      /\ queue'.text = IF Injected(now') THEN st.saved ELSE Left
      /\ queue' \in [wait : Nat, text : Stored]
  BY <1>2 DEF Check, IInv, Types, AllFields
<1>4. /\ seen' \in [text : Stored, for : Nat]
      /\ ~st.restored => seen' = seen
      /\ st.restored => /\ seen'.text = live'
                        /\ seen'.for = IF live' = seen.text THEN seen.for + 1 ELSE 0
  BY <1>2 DEF Check, IInv, Types, Stored
<1>5. CASE Waits(now')
  <2>1. seen' = seen /\ queue'.text = Left
    BY <1>3, <1>4, <1>5 DEF Injected, Waits
  <2>2. Types'
    BY <1>1, <1>2, <1>3, <1>4, <1>5 DEF Types, Stored, AllFields, Waits
  <2>3. Untouched'
    BY <1>1, <1>3, <1>5, <2>1, RanIs DEF IInv, Untouched, Waits
  <2>4. WrittenIsFile' /\ SavedIsThere' /\ SeenIsPending' /\ ExitSaved'
    BY <1>1, <1>5, <2>1 DEF IInv, WrittenIsFile, SavedIsThere, SeenIsPending, ExitSaved, Waits
  <2>5. st'.since <= now' /\ live' # NoText /\ (~st'.restored => seen'.text = NoText)
    BY <1>1, <1>2, <1>5, <2>1 DEF IInv, Types, Waits
  <2> QED
    BY <2>2, <2>3, <2>4, <2>5 DEF IInv
<1>6. CASE Restoring(now')
  <2>1. /\ st' \in AllFields /\ st'.restored /\ st'.written = st.written /\ st'.since = st.since
        /\ st'.pending = st.pending
    BY <1>1, <1>6 DEF Types, Stored, AllFields, Restoring
  <2>2. seen' = seen /\ queue'.text = st.saved
    BY <1>3, <1>4, <1>6 DEF Injected, Restoring
  <2>3. Types'
    BY <1>1, <1>2, <1>3, <1>4, <1>6, <2>1 DEF Types, Stored, AllFields, Restoring
  <2>4. Untouched'
    BY <1>1, <1>3, <1>6, <2>1, <2>2 DEF IInv, Untouched, Restoring
  <2>5. seen.text = NoText
    BY <1>6 DEF IInv, Restoring
  <2>6. WrittenIsFile' /\ SavedIsThere' /\ SeenIsPending' /\ ExitSaved'
    BY <1>1, <1>6, <2>1, <2>2, <2>5 DEF IInv, WrittenIsFile, SavedIsThere, SeenIsPending, ExitSaved, Restoring
  <2>7. st'.since <= now' /\ live' # NoText /\ (~st'.restored => seen'.text = NoText)
    BY <1>1, <1>2, <1>6, <2>1, <2>2 DEF IInv, Types, Restoring
  <2> QED
    BY <2>3, <2>4, <2>6, <2>7 DEF IInv
<1>7. ASSUME st.restored
      PROVE  /\ queue'.text = Left /\ seen'.text = live'
             /\ seen'.for = IF live' = seen.text THEN seen.for + 1 ELSE 0
             /\ opened # NoText /\ used.edits = 0 /\ used.waits = 0 =>
                   /\ live' = opened /\ st.written = opened /\ file = opened
                   /\ queue'.wait = 0 /\ queue'.text = NoText
  <2>1. queue'.text = Left
    BY <1>3, <1>7 DEF Injected
  <2> QED
    BY <1>1, <1>3, <1>4, <1>7, <2>1, RanIs DEF IInv, Untouched
<1>8. CASE Rests(live')
  <2>1. Types'
    BY <1>1, <1>2, <1>3, <1>4, <1>8 DEF Types, Stored, AllFields, Rests
  <2>2. Untouched'
    BY <1>1, <1>7, <1>8 DEF Untouched, Rests
  <2>3. WrittenIsFile' /\ SavedIsThere' /\ SeenIsPending' /\ ExitSaved'
    BY <1>1, <1>7, <1>8 DEF IInv, WrittenIsFile, SavedIsThere, SeenIsPending, ExitSaved, Rests
  <2>4. st'.since <= now' /\ live' # NoText /\ (~st'.restored => seen'.text = NoText)
    BY <1>1, <1>2, <1>8 DEF IInv, Types, Rests
  <2> QED
    BY <2>1, <2>2, <2>3, <2>4 DEF IInv
<1>9. CASE Pends(live', now')
  <2>1. Types'
    BY <1>1, <1>2, <1>3, <1>4, <1>9 DEF Types, Stored, AllFields, Pends, Changed
  <2>2. Untouched'
    BY <1>1, <1>7, <1>9 DEF Untouched, Pends, Changed
  <2>3. WrittenIsFile' /\ SavedIsThere' /\ ExitSaved'
    BY <1>1, <1>9 DEF IInv, WrittenIsFile, SavedIsThere, ExitSaved, Pends, Changed
  <2>4. st'.since <= now' /\ live' # NoText /\ (~st'.restored => seen'.text = NoText)
    BY <1>1, <1>2, <1>9 DEF IInv, Types, Pends, Changed
  <2>5. st'.since + seen'.for <= now'
    <3>1. CASE live' = seen.text
      <4>1. st.pending = live' /\ st.since + seen.for <= now
        BY <1>1, <1>2, <1>9, <3>1 DEF IInv, SeenIsPending, Pends, Changed
      <4>2. seen.for \in Nat /\ now \in Nat
        BY <1>1 DEF Types
      <4> QED
        BY <1>1, <1>7, <1>9, <3>1, <4>1, <4>2 DEF Pends, Changed
    <3>2. CASE live' # seen.text
      BY <1>1, <1>7, <1>9, <2>4, <3>2 DEF Pends, Changed
    <3> QED
      BY <3>1, <3>2
  <2>6. SeenIsPending'
    BY <1>7, <1>9, <2>5 DEF SeenIsPending, Pends, Changed
  <2> QED
    BY <2>1, <2>2, <2>3, <2>4, <2>6 DEF IInv
<1>10. CASE Saves(live', now')
  <2>1. /\ used' \in [edits : Nat, launches : Nat, fails : Nat, waits : Nat]
        /\ used'.edits = used.edits /\ used'.waits = used.waits
        /\ used'.fails = 0 => file' = live'
    BY <1>1, <1>10 DEF Types, Saves, Changed
  <2>2. Types'
    BY <1>1, <1>2, <1>3, <1>4, <1>10, <2>1 DEF Types, Stored, AllFields, Saves, Changed
  <2>3. Untouched'
    BY <1>1, <1>7, <1>10, <2>1 DEF Untouched, Saves, Changed
  <2>4. WrittenIsFile' /\ SavedIsThere' /\ SeenIsPending' /\ ExitSaved'
    BY <1>1, <1>7, <1>10, <2>1 DEF IInv, WrittenIsFile, SavedIsThere, SeenIsPending, ExitSaved, Saves, Changed
  <2>5. st'.since <= now' /\ live' # NoText /\ (~st'.restored => seen'.text = NoText)
    BY <1>1, <1>2, <1>10 DEF IInv, Types, Saves, Changed
  <2> QED
    BY <2>2, <2>3, <2>4, <2>5 DEF IInv
<1>11. Waits(now') \/ Restoring(now') \/ Rests(live') \/ Pends(live', now') \/ Saves(live', now')
  BY <1>0, <1>1, <1>2, TickCases
<1> QED
  BY <1>5, <1>6, <1>8, <1>9, <1>10, <1>11

\* An exit ticks on what its frame leaves, and the process is gone.
LEMMA ExitHolds ==
    ASSUME IInv, NEW done \in BOOLEAN, Exit(done)
    PROVE  IInv'
<1>0. Tick(live', now, TRUE, done)
  BY DEF Exit
<1>1. /\ up /\ ~up' /\ now' = now /\ now \in Nat /\ live' = Ran /\ opened' = opened /\ seen' = seen
      /\ Types /\ st.since \in Nat /\ st.since <= now
  BY DEF Exit, IInv, Types, AllFields
<1>2. Ran \in Texts /\ live' \in Texts /\ Left \in Stored
  BY <1>1, RanIs
<1>3. /\ queue'.wait = queue.wait
      /\ queue'.text = IF Injected(now) THEN st.saved ELSE Left
      /\ queue' \in [wait : Nat, text : Stored]
  BY <1>2 DEF Exit, IInv, Types, AllFields
<1>4. /\ up' = FALSE /\ (~st'.restored => seen'.text = NoText) /\ SeenIsPending'
      /\ opened # NoText /\ used.edits = 0 /\ used.waits = 0 =>
            /\ file = opened /\ st.written = opened /\ queue'.wait = 0
            /\ st.restored => live' = opened
  <2>1. ~st'.restored => ~st.restored
    BY <1>0, <1>1, <1>2, TickCases DEF Waits, Restoring, Rests, Pends, Saves, Changed
  <2> QED
    BY <1>1, <1>3, <2>1, RanIs DEF Exit, IInv, Untouched, SeenIsPending
<1>5. CASE Waits(now) \/ Rests(live')
  <2>1. UNCHANGED <<file, st, used>>
    BY <1>5 DEF Waits, Rests
  <2>2. Types' /\ Untouched'
    BY <1>1, <1>2, <1>3, <1>4, <2>1 DEF Types, Stored, Untouched
  <2>3. WrittenIsFile' /\ SavedIsThere' /\ ExitSaved'
    BY <1>1, <1>5, <2>1 DEF IInv, WrittenIsFile, SavedIsThere, ExitSaved, Waits, Rests
  <2> QED
    BY <1>1, <1>4, <2>1, <2>2, <2>3 DEF IInv
<1>6. CASE Restoring(now)
  <2>1. /\ st' \in AllFields /\ st'.restored /\ st'.written = st.written /\ st'.since = st.since
        /\ UNCHANGED <<file, used>>
    BY <1>1, <1>6 DEF Types, Stored, AllFields, Restoring
  <2>2. queue'.text # NoText
    BY <1>3, <1>6 DEF Injected, Restoring, IInv, SavedIsThere
  <2>3. Types' /\ Untouched'
    BY <1>1, <1>2, <1>3, <1>4, <2>1 DEF Types, Stored, Untouched
  <2>4. WrittenIsFile' /\ SavedIsThere' /\ ExitSaved'
    BY <1>1, <2>1, <2>2 DEF IInv, WrittenIsFile, SavedIsThere, ExitSaved
  <2> QED
    BY <1>1, <1>4, <2>1, <2>3, <2>4 DEF IInv
<1>7. CASE Saves(live', now)
  <2>1. /\ used' \in [edits : Nat, launches : Nat, fails : Nat, waits : Nat]
        /\ used'.edits = used.edits /\ used'.waits = used.waits
        /\ used'.fails = 0 => file' = live'
        /\ file' \in Stored /\ st.restored /\ st'.restored /\ live' # st.written
        /\ st'.since <= now /\ st'.written = live' /\ st' \in AllFields
    BY <1>1, <1>2, <1>7 DEF Types, Stored, Saves, Changed
  <2>2. Types' /\ Untouched'
    BY <1>1, <1>2, <1>3, <1>4, <2>1 DEF Types, Stored, Untouched
  <2>3. WrittenIsFile' /\ SavedIsThere' /\ ExitSaved'
    BY <1>1, <2>1 DEF WrittenIsFile, SavedIsThere, ExitSaved
  <2> QED
    BY <1>1, <1>4, <2>1, <2>2, <2>3 DEF IInv
<1> QED
  BY <1>0, <1>1, <1>2, <1>5, <1>6, <1>7, TickCases

\* The other steps leave AutoState alone, or begin it anew.
LEMMA OtherSteps ==
    ASSUME IInv,
           \/ \E text \in Texts : Edit(text)
           \/ \E checks \in {1, MaxTime} : Wait(checks)
           \/ RunScript \/ Connect \/ Kill \/ Launch \/ UNCHANGED vars
    PROVE  IInv'
<1>1. ASSUME NEW text \in Texts, Edit(text)
      PROVE  IInv'
  <2>1. /\ used' \in [edits : Nat, launches : Nat, fails : Nat, waits : Nat]
        /\ used'.edits # 0 /\ used'.fails = used.fails
        /\ queue' \in [wait : Nat, text : Stored] /\ up /\ live' \in Texts /\ up' = up
    BY <1>1, RanIs DEF Edit, IInv, Types
  <2>2. UNCHANGED <<file, up, st, linked, now, seen, opened>>
    BY <1>1 DEF Edit
  <2>3. Types'
    BY <2>1, <2>2 DEF IInv, Types, Stored
  <2>4. Untouched'
    BY <2>1 DEF Untouched
  <2>5. WrittenIsFile' /\ SavedIsThere' /\ SeenIsPending' /\ ExitSaved'
    BY <2>1, <2>2 DEF IInv, WrittenIsFile, SavedIsThere, SeenIsPending, ExitSaved
  <2> QED
    BY <2>1, <2>2, <2>3, <2>4, <2>5 DEF IInv
<1>2. ASSUME NEW checks \in {1, MaxTime}, Wait(checks)
      PROVE  IInv'
  <2>1. /\ used' \in [edits : Nat, launches : Nat, fails : Nat, waits : Nat]
        /\ used'.waits # 0 /\ used'.fails = used.fails
        /\ queue' \in [wait : Nat, text : Stored] /\ up
    BY <1>2 DEF Wait, IInv, Types
  <2>2. UNCHANGED <<file, up, live, st, linked, now, seen, opened>>
    BY <1>2 DEF Wait
  <2>3. Types'
    BY <2>1, <2>2 DEF IInv, Types
  <2>4. Untouched'
    BY <2>1 DEF Untouched
  <2>5. WrittenIsFile' /\ SavedIsThere' /\ SeenIsPending' /\ ExitSaved'
    BY <2>1, <2>2 DEF IInv, WrittenIsFile, SavedIsThere, SeenIsPending, ExitSaved
  <2> QED
    BY <2>2, <2>3, <2>4, <2>5 DEF IInv
<1>3. CASE RunScript
  <2>1. /\ up /\ live' = queue.text /\ live' \in Texts /\ queue.wait = 0 /\ queue.text # NoText
        /\ queue' = [wait |-> 0, text |-> NoText]
        /\ UNCHANGED <<file, up, st, linked, now, seen, opened, used>>
    BY <1>3, RanIs DEF RunScript, IInv, Types
  <2>2. Types'
    BY <2>1 DEF IInv, Types, Stored
  <2>3. Untouched'
    BY <2>1 DEF IInv, Untouched
  <2>4. WrittenIsFile' /\ SavedIsThere' /\ SeenIsPending' /\ ExitSaved'
    BY <2>1 DEF IInv, WrittenIsFile, SavedIsThere, SeenIsPending, ExitSaved
  <2> QED
    BY <2>1, <2>2, <2>3, <2>4 DEF IInv
<1>4. CASE Connect \/ UNCHANGED vars
  BY <1>4 DEF Connect, vars, IInv, Types, Untouched, WrittenIsFile, SavedIsThere, SeenIsPending, ExitSaved
<1>5. CASE Kill
  <2>1. /\ up' = FALSE /\ live' = NoText
        /\ UNCHANGED <<file, st, queue, linked, now, seen, opened, used>>
    BY <1>5 DEF Kill
  <2>2. Types'
    BY <2>1 DEF IInv, Types, Stored
  <2>3. Untouched' /\ WrittenIsFile' /\ SavedIsThere' /\ SeenIsPending' /\ ExitSaved'
    BY <2>1 DEF IInv, Untouched, WrittenIsFile, SavedIsThere, SeenIsPending, ExitSaved
  <2> QED
    BY <2>1, <2>2, <2>3 DEF IInv
<1>6. CASE Launch
  <2>1. /\ st' = [saved |-> file, restored |-> file = NoText, written |-> file,
                 pending |-> NoText, since |-> 0]
        /\ file' = file /\ file \in Stored /\ opened' = file /\ live' = Fresh /\ up' = TRUE /\ now' = 0
        /\ queue' = [wait |-> 0, text |-> NoText] /\ seen' = [text |-> NoText, for |-> 0]
        /\ used' = [edits |-> 0, launches |-> used.launches + 1, fails |-> 0, waits |-> 0]
        /\ used.launches \in Nat
    BY <1>6 DEF Launch, Opened, Fields, IInv, Types
  <2>2. Types'
    BY <2>1 DEF Types, Stored, AllFields
  <2>3. ~st'.restored => st'.saved # NoText
    BY <2>1
  <2>4. st'.restored => file = NoText
    BY <2>1
  <2>5. st'.since = 0 /\ st'.written = file /\ st'.saved = file /\ queue'.wait = 0 /\ queue'.text = NoText
    BY <2>1
  <2>6. Untouched'
    BY <2>1, <2>4, <2>5 DEF Untouched
  <2>7. WrittenIsFile' /\ SavedIsThere' /\ SeenIsPending' /\ ExitSaved'
    BY <2>1, <2>3, <2>5 DEF WrittenIsFile, SavedIsThere, SeenIsPending, ExitSaved
  <2> QED
    BY <2>1, <2>2, <2>5, <2>6, <2>7 DEF IInv
<1> QED
  BY <1>1, <1>2, <1>3, <1>4, <1>5, <1>6

\* The invariant holds through edits, ticks, exits, kills and relaunches.
THEOREM Inductive == Spec => []IInv
<1>1. Init => IInv
  BY InitHolds
<1>2. IInv /\ [Next]_vars => IInv'
  BY CheckHolds, ExitHolds, OtherSteps DEF Next
<1> QED
  BY <1>1, <1>2, PTL DEF Spec

\* A launch in which nothing was edited and no line of the control socket
\* waits leaves the file as it found it (autostate.rs, AutoState::saved).
THEOREM SavedIsKeptHolds == Spec => []SavedIsKept
<1>1. IInv => SavedIsKept
  BY DEF IInv, Untouched, SavedIsKept
<1> QED
  BY <1>1, Inductive, PTL

\* What stays as it is for DEBOUNCE, or is there at an exit, is on disk
\* unless a write failed (autostate.rs, tick).
THEOREM StateIsSavedHolds == Spec => []StateIsSaved
<1>1. IInv => StateIsSaved
  <2> SUFFICES ASSUME IInv, st.restored, used.fails = 0, live # NoText, queue.text = NoText,
                      ~up \/ (up /\ seen.text = live /\ seen.for >= Debounce)
               PROVE  file = live
    BY DEF StateIsSaved, IInv, Types
  <2>1. CASE ~up
    BY <2>1 DEF IInv, ExitSaved
  <2>2. CASE up /\ seen.text = live /\ seen.for >= Debounce
    <3>1. st.written = live
      BY <2>2 DEF IInv, SeenIsPending, Types, AllFields
    <3> QED
      BY <3>1 DEF IInv, WrittenIsFile
  <2> QED
    BY <2>1, <2>2
<1> QED
  BY <1>1, Inductive, PTL
=============================================================================
