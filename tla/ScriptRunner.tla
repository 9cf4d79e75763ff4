---------------------------- MODULE ScriptRunner ----------------------------
(***************************************************************************)
(* The script runner of the app: the queue of timed actions that the       *)
(* control socket, the UI and NEOWON_SCRIPT fill, run_script, which takes  *)
(* what is due off its front once per frame, and the screenshots that quit *)
(* waits for.                                                              *)
(*                                                                         *)
(* Of an action, what the queue tells apart is kept: "edit" stands for all *)
(* that only move the app's state, "file" for those that write or read a   *)
(* path and need the connection's token.  The renderer is external: it may *)
(* deliver the image of a capture at any time, blank, or never.            *)
(***************************************************************************)
EXTENDS Naturals, Sequences, FiniteSets, SequencesExt

CONSTANTS
    Lines,        \* control lines, as sequences of [wait, act]
    Session,      \* the actions of the session file a "load" splices in
    Conns,        \* control connections
    RetryFrames,  \* RETRY_FRAMES
    MaxAttempts,  \* MAX_ATTEMPTS
    MaxShots,     \* bound: screenshots requested
    MaxQueue,     \* bound: actions queued when a line or a click is taken
    MaxFailures   \* MAX_AUTH_FAILURES

Acts == {"edit", "file", "shot", "plot", "load", "quit"}
Fragments == Seq([wait : Nat, act : Acts])

RunnerAssumption ==
    /\ Lines \subseteq Fragments /\ Session \in Fragments
    /\ RetryFrames \in Nat /\ MaxAttempts \in Nat /\ MaxFailures \in Nat \ {0}

VARIABLES
    phase,    \* where the app is in its frame
    queue,    \* Script::queue, each action with the frames it still waits
    conns,    \* each connection: its trust, its failures, the line it waits for
    requests, \* the channel to control::poll
    pending,  \* PENDING_SHOTS
    inflight, \* WindowShots::inflight
    spawned,  \* entities that will be captured: <<shot, attempt>>
    plots,    \* readbacks under way
    answered, \* shots reported
    shots,    \* shots requested
    exited

vars == <<phase, queue, conns, requests, pending, inflight, spawned, plots, answered, shots, exited>>

None == <<>>
Fresh == [authed |-> FALSE, failures |-> 0, waits |-> None]

-----------------------------------------------------------------------------
(* A control connection: conn::serve.                                      *)

\* The handshake is answered by the connection itself; the last bad token
\* ends it.
Auth(c, good) ==
    /\ ~exited /\ conns[c].waits = None
    /\ conns' = [conns EXCEPT ![c] =
                    CASE good -> [@ EXCEPT !.authed = TRUE]
                      [] ~good /\ @.failures + 1 < MaxFailures -> [@ EXCEPT !.failures = @ + 1]
                      [] OTHER -> Fresh]
    /\ UNCHANGED <<phase, queue, requests, pending, inflight, spawned, plots, answered, shots, exited>>

\* A line goes to the app with the trust the connection has now.
Send(c, line) ==
    /\ ~exited /\ conns[c].waits = None /\ Len(requests) + Len(queue) < MaxQueue
    /\ conns' = [conns EXCEPT ![c].waits = line]
    /\ requests' = Append(requests, [line |-> line, authed |-> conns[c].authed, from |-> c])
    /\ UNCHANGED <<phase, queue, pending, inflight, spawned, plots, answered, shots, exited>>

\* No reply for five seconds: the line stays with the app.
TimesOut(c) ==
    /\ ~exited /\ conns[c].waits # None
    /\ conns' = [conns EXCEPT ![c].waits = None]
    /\ UNCHANGED <<phase, queue, requests, pending, inflight, spawned, plots, answered, shots, exited>>

\* Closed; the next client on this place starts without trust.
Hangup(c) ==
    /\ ~exited /\ conns[c] # Fresh
    /\ conns' = [conns EXCEPT ![c] = Fresh]
    /\ UNCHANGED <<phase, queue, requests, pending, inflight, spawned, plots, answered, shots, exited>>

\* Action::privilege: what leaves the process needs the token.
NeedsToken(act) == act # "edit"
Authorized(req) ==
    req.authed \/ \A k \in 1..Len(req.line) : ~NeedsToken(req.line[k].act)

\* Every action waits from now by its place on the line's own timeline.
Due(line) == [k \in 1..Len(line) |-> [due |-> line[k].wait, act |-> line[k].act]]

-----------------------------------------------------------------------------
(* The frame: control::poll, run_script, shot::tick.                       *)

\* The requests waiting are drained, the drain being faster than a client:
\* each one's actions are appended, and its connection answered unless it
\* gave up.
Poll ==
    /\ phase = "poll" /\ ~exited
    /\ queue' = FoldLeft(LAMBDA q, req : IF Authorized(req) THEN q \o Due(req.line) ELSE q,
                         queue, requests)
    /\ conns' = [c \in Conns |->
                    IF \E req \in ToSet(requests) : req.from = c /\ req.line = conns[c].waits
                    THEN [conns[c] EXCEPT !.waits = None] ELSE conns[c]]
    /\ requests' = <<>> /\ phase' = "run"
    /\ UNCHANGED <<pending, inflight, spawned, plots, answered, shots, exited>>

\* Script::inject: a click.
Inject ==
    /\ phase = "poll" /\ ~exited /\ Len(queue) < MaxQueue
    /\ queue' = Append(queue, [due |-> 0, act |-> "edit"])
    /\ UNCHANGED <<phase, conns, requests, pending, inflight, spawned, plots, answered, shots, exited>>

FrontDue == queue # <<>> /\ Head(queue).due = 0
Takes(acts) == phase = "run" /\ ~exited /\ FrontDue /\ Head(queue).act \in acts

RunEdit ==
    /\ Takes({"edit", "file"})
    /\ queue' = Tail(queue)
    /\ UNCHANGED <<phase, conns, requests, pending, inflight, spawned, plots, answered, shots, exited>>

\* shot::window and shot::plot
RunShot ==
    /\ Takes({"shot"})
    /\ queue' = Tail(queue)
    /\ IF shots < MaxShots
       THEN /\ shots' = shots + 1 /\ pending' = pending + 1
            /\ inflight' = inflight \cup {[shot |-> shots', attempt |-> 0, frames |-> 0]}
            /\ spawned' = spawned \cup {<<shots', 0>>}
       ELSE UNCHANGED <<shots, pending, inflight, spawned>>
    /\ UNCHANGED <<phase, conns, requests, plots, answered, exited>>

RunPlot ==
    /\ Takes({"plot"})
    /\ queue' = Tail(queue)
    /\ IF shots < MaxShots
       THEN shots' = shots + 1 /\ pending' = pending + 1 /\ plots' = plots \cup {shots'}
       ELSE UNCHANGED <<shots, pending, plots>>
    /\ UNCHANGED <<phase, conns, requests, inflight, spawned, answered, exited>>

\* The session is spliced in at the front.
RunLoad ==
    /\ Takes({"load"})
    /\ queue' = Due(Session) \o Tail(queue)
    /\ UNCHANGED <<phase, conns, requests, pending, inflight, spawned, plots, answered, shots, exited>>

\* Quit is put back, and the pass ends, while shots are in flight.
RunQuit ==
    /\ Takes({"quit"})
    /\ IF pending > 0
       THEN phase' = "tick" /\ queue' = <<[due |-> 1, act |-> "quit"]>> \o Tail(queue) /\ UNCHANGED exited
       ELSE exited' = TRUE /\ queue' = Tail(queue) /\ UNCHANGED phase
    /\ UNCHANGED <<conns, requests, pending, inflight, spawned, plots, answered, shots>>

RunRest ==
    /\ phase = "run" /\ ~exited /\ ~FrontDue
    /\ phase' = "tick"
    /\ UNCHANGED <<queue, conns, requests, pending, inflight, spawned, plots, answered, shots, exited>>

\* A capture that stayed away too long is retried with a new entity, and at
\* last reported failed.
Waited == {[s EXCEPT !.frames = @ + 1] : s \in {s \in inflight : <<s.shot, s.attempt>> \in spawned}}
Late   == {s \in Waited : s.frames > RetryFrames}

GivenUp == {s \in Late : s.attempt >= MaxAttempts}

Retried(s) == [shot |-> s.shot, attempt |-> s.attempt + 1, frames |-> 0]

Passed(q) == [k \in 1..Len(q) |-> [q[k] EXCEPT !.due = IF @ > 0 THEN @ - 1 ELSE 0]]

\* The frame ends: the watch over the captures, and time passes.
Tick ==
    /\ phase = "tick" /\ phase' = "poll"
    /\ LET again == {Retried(s) : s \in Late \ GivenUp}
       IN /\ inflight' = (Waited \ Late) \cup again
          /\ spawned' = (spawned \ {<<s.shot, s.attempt>> : s \in GivenUp})
                            \cup {<<s.shot, s.attempt>> : s \in again}
    /\ pending' = pending - Cardinality(GivenUp)
    /\ answered' = answered \cup {s.shot : s \in GivenUp}
    /\ queue' = Passed(queue)
    /\ UNCHANGED <<conns, requests, plots, shots, exited>>

-----------------------------------------------------------------------------
(* The renderer and the observers.                                         *)

\* Changed form: the image of a capture already replaced is written too.
AnyEntity(e) == {s \in inflight : s.shot = e[1]}
\* The shot an entity's image belongs to: none once it was retried.
ShotOf(e) == {s \in inflight : <<s.shot, s.attempt>> = e}

Reported(e) == pending' = pending - 1 /\ answered' = answered \cup {e[1]}

\* A good image is written; a blank one retried at once, and at last given up.
Captured(e, blank) ==
    /\ ~exited /\ e \in spawned
    /\ LET gone == spawned \ {e}
       IN CASE ShotOf(e) = {} -> spawned' = gone /\ UNCHANGED <<pending, inflight, answered>>
            [] ShotOf(e) # {} /\ ~blank ->
                  spawned' = gone /\ Reported(e) /\ UNCHANGED inflight
            [] ShotOf(e) # {} /\ blank ->
                  \E s \in ShotOf(e) :
                      IF s.attempt >= MaxAttempts
                      THEN spawned' = gone /\ Reported(e) /\ inflight' = inflight \ {s}
                      ELSE /\ spawned' = gone \cup {<<s.shot, s.attempt + 1>>}
                           /\ inflight' = (inflight \ {s}) \cup {Retried(s)}
                           /\ UNCHANGED <<pending, answered>>
    /\ UNCHANGED <<phase, queue, conns, requests, plots, shots, exited>>

\* A readback completes.
ReadBack(shot) ==
    /\ ~exited /\ shot \in plots
    /\ plots' = plots \ {shot}
    /\ pending' = pending - 1 /\ answered' = answered \cup {shot}
    /\ UNCHANGED <<phase, queue, conns, requests, inflight, spawned, shots, exited>>

-----------------------------------------------------------------------------
Init ==
    /\ phase = "poll" /\ queue = <<>> /\ requests = <<>>
    /\ conns = [c \in Conns |-> Fresh]
    /\ pending = 0 /\ inflight = {} /\ spawned = {} /\ plots = {}
    /\ answered = {} /\ shots = 0 /\ exited = FALSE

Frame == Poll \/ RunEdit \/ RunShot \/ RunPlot \/ RunLoad \/ RunQuit \/ RunRest \/ Tick
Readback == \E shot \in plots : ReadBack(shot)

Step ==
    \/ \E c \in Conns, good \in BOOLEAN : Auth(c, good)
    \/ \E c \in Conns, line \in Lines : Send(c, line)
    \/ \E c \in Conns : TimesOut(c) \/ Hangup(c)
    \/ Inject \/ Frame \/ Readback
    \/ \E e \in spawned, blank \in BOOLEAN : Captured(e, blank)

Spec == Init /\ [][Step]_vars

\* Frames go on, and a readback of the plot completes; nothing is promised of
\* the captures.
FairSpec == Spec /\ WF_vars(Frame) /\ WF_vars(Readback)

-----------------------------------------------------------------------------
(* Correctness properties.                                                 *)

\* The count quit waits for is exactly the shots not yet reported, whatever
\* the renderer did: retried, late, blank and lost captures included; and
\* the process does not end before the last report.
ShotsAccounted ==
    /\ pending = Cardinality((1..shots) \ answered)
    /\ exited => pending = 0

\* shot.rs: "Bounded so a `quit` waiting on pending shots can never re-arm
\* forever": a quit that came to be due ends the process, though no capture
\* is ever delivered.
QuitEnds == (phase = "run" /\ FrontDue /\ Head(queue).act = "quit") ~> exited

\* script/mod.rs on inject: "due immediately, applied on the next `run_script`
\* pass": none is left behind when a pass is over.
InjectedRuns ==
    phase = "tick" => \A k \in 1..Len(queue) : queue[k].due # 0
=============================================================================
