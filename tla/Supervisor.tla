----------------------------- MODULE Supervisor -----------------------------
(***************************************************************************)
(* The acquisition supervisor of neowon-backend: one thread ("neowon-acq") *)
(* that owns a Backend, reconnects when the backend is lost, replays the   *)
(* last requested configuration, averages and forwards frames, and stops a *)
(* single sweep.  It talks to its consumer, the application's Link, over   *)
(* an unbounded command channel and a bounded event channel.               *)
(*                                                                         *)
(* The thread is a loop; `pc' names the point of the loop it has reached.  *)
(* A step of the model ends where the code next touches a channel or the   *)
(* backend, because that is where the consumer and the cable can          *)
(* interleave.  Samples are abstracted to positions on the instrument's    *)
(* unit clock: a frame covers the units from `from' to `to' and declares   *)
(* `lost' units missing just before it (CaptureFrame::dropped_before).     *)
(*                                                                         *)
(* An operator marked "changed form" is no part of the specification: it   *)
(* is what the definition after it would be with a plausible mistake, and  *)
(* is used to see that a property notices.                                 *)
(***************************************************************************)
EXTENDS Integers, Sequences, FiniteSets

CONSTANTS
    Choices,      \* configurations the user can ask for
    Refused,      \* configurations the instrument refuses (BackendError::Transient)
    AutoConfigs,  \* configurations auto-set can come back with
    OneShots,     \* the commands that only poke the backend: force, multi, ...
    IsScope,      \* Capabilities::Scope rather than Capabilities::Sdr
    MaxDepth,     \* the deepest averaging a configuration asks for
    Capacity,     \* slots of the event channel (256 in the code)
    MaxUnits,     \* bound: units one connection may produce
    MaxLoss,      \* bound: units one backend frame may itself report lost
    MaxCommands,  \* bound: commands the user may have waiting in the (unbounded) channel
    None

Config == [running : BOOLEAN, single : BOOLEAN, depth : 0..MaxDepth]

ASSUME SupervisorAssumption ==
    /\ Choices \subseteq Config
    /\ Refused \subseteq Config
    /\ AutoConfigs \subseteq Config
    /\ IsScope \in BOOLEAN
    /\ Capacity \in Nat \ {0}
    /\ MaxDepth \in Nat /\ MaxUnits \in Nat /\ MaxLoss \in Nat /\ MaxCommands \in Nat
    /\ None \notin Config

VARIABLES
    pc,        \* where the acquisition thread is
    wanted,    \* the last requested configuration, replayed on reconnect
    batch,     \* what the last drain of the command channel collected
    depth,     \* Averager::n
    carry,     \* units owed to the consumer by frames it could not take
    clock,     \* units this connection has produced so far
    told,      \* end of the last frame put in the event channel
    plugged,   \* the instrument is attached
    alive,     \* the backend the thread holds still works
    applied,   \* the configuration the instrument is known to hold
    parted,    \* history: what has parted the instrument from what was applied
    taken,     \* history: records taken of the single sweep last asked for
    commands,  \* Supervisor::commands
    events,    \* Supervisor::events
    ui,        \* the consumer: "live", "joining" in shutdown, or "released"
    turn,      \* which system of the app's update runs next
    uiConfig,  \* Link::config
    dirty,     \* Link::dirty
    uiCaps,    \* Link::caps is Some
    seenEnd    \* end of the last frame the consumer took

threadVars == <<pc, wanted, batch, depth, carry, clock, told, taken>>
deviceVars == <<plugged, alive, applied, parted>>
uiVars     == <<ui, turn, uiConfig, dirty, uiCaps, seenEnd>>
vars       == <<threadVars, deviceVars, commands, events, uiVars>>

-----------------------------------------------------------------------------
Apply(c)  == [cmd |-> "apply", cfg |-> c]
Poke(s)   == [cmd |-> "poke", shot |-> s]
AutoSet   == [cmd |-> "autoset"]
Shutdown  == [cmd |-> "shutdown"]
Command   == {Apply(c) : c \in Config} \cup {Poke(s) : s \in OneShots}
                \cup {AutoSet, Shutdown}

Connected        == [type |-> "connected"]
Disconnected     == [type |-> "disconnected"]
ErrorEvent       == [type |-> "error"]
ConfigUpdated(c) == [type |-> "config", cfg |-> c]
Frame(f, t, l)   == [type |-> "frame", from |-> f, to |-> t, lost |-> l]
Event == {Connected, Disconnected, ErrorEvent}
            \cup {ConfigUpdated(c) : c \in Config}
            \cup {Frame(f, t, l) : f \in 0..MaxUnits, t \in 0..MaxUnits, l \in 0..MaxUnits}

EmptyBatch == [newest |-> None, shots |-> {}, autoset |-> FALSE]

Pcs == {"connect", "retry", "announce", "replay", "drain", "apply", "pokes",
        "autoset", "tellAuto", "poll", "stop", "tellStop", "done"}

\* Averager depth a configuration asks for; 0 when it does not average.
Averaging(c) == IF c = None THEN 0 ELSE c.depth

\* wanted.as_ref().is_none_or(running)
Running(c) == c = None \/ c.running

Stopped(c) == [c EXCEPT !.running = FALSE]

\* (changed form: the channel as if it were unbounded)
TrySendUnbounded(e) == events' = Append(events, e)

\* Sender::try_send on the bounded channel: a full channel loses the event.
TrySend(e) == events' = IF Len(events) < Capacity THEN Append(events, e) ELSE events

\* Sender::send: the thread blocks until there is room.
Send(e) == /\ Len(events) < Capacity
           /\ events' = Append(events, e)

-----------------------------------------------------------------------------
Init ==
    /\ pc = "connect" /\ wanted = None /\ batch = EmptyBatch /\ depth = 0
    /\ carry = 0 /\ clock = 0 /\ told = 0
    /\ plugged \in BOOLEAN /\ alive = FALSE /\ applied = None
    /\ parted = {} /\ taken = 0
    /\ events = <<>>
    /\ ui = "live" /\ turn = "ingest" /\ dirty = FALSE /\ uiCaps = FALSE /\ seenEnd = 0
    /\ uiConfig \in Choices
    /\ commands = <<Apply(uiConfig)>>          \* Launch::start sends the first config

\* The factory finds the instrument.
Connect ==
    /\ pc = "connect" /\ plugged
    /\ alive' = TRUE /\ applied' = None
    /\ pc' = "announce"
    /\ UNCHANGED <<wanted, batch, depth, carry, clock, told, taken, plugged, parted, commands, events, uiVars>>

\* (changed form: a failed connection attempt says nothing)
ConnectFailsSilently ==
    /\ pc = "connect" /\ ~plugged
    /\ pc' = "retry"
    /\ UNCHANGED <<wanted, batch, depth, carry, clock, told, taken, deviceVars, commands, events, uiVars>>

\* The factory fails: say so if there is room, then wait for a command.
ConnectFails ==
    /\ pc = "connect" /\ ~plugged
    /\ TrySend(Disconnected)
    /\ pc' = "retry"
    /\ UNCHANGED <<wanted, batch, depth, carry, clock, told, taken, deviceVars, commands, uiVars>>

\* recv_timeout(1 s): a configuration is kept for the replay, a shutdown ends
\* the thread, and any other command is dropped.
Retry ==
    /\ pc = "retry"
    /\ IF commands = <<>>
       THEN pc' = "connect" /\ UNCHANGED <<wanted, taken, commands>>
       ELSE /\ commands' = Tail(commands)
            /\ IF Head(commands).cmd = "apply"
               THEN wanted' = Head(commands).cfg /\ taken' = 0
               ELSE UNCHANGED <<wanted, taken>>
            /\ pc' = IF Head(commands).cmd = "shutdown" THEN "done" ELSE "connect"
    /\ UNCHANGED <<batch, depth, carry, clock, told, deviceVars, events, uiVars>>

\* (changed form: Connected may be dropped by a full channel)
AnnounceTried ==
    /\ pc = "announce"
    /\ TrySend(Connected)
    /\ carry' = 0 /\ clock' = 0 /\ told' = 0
    /\ pc' = "replay"
    /\ UNCHANGED <<wanted, batch, depth, taken, deviceVars, commands, uiVars>>

\* Connected is a blocking send; the units owed start again with the link.
Announce ==
    /\ pc = "announce"
    /\ Send(Connected)
    /\ carry' = 0 /\ clock' = 0 /\ told' = 0
    /\ pc' = "replay"
    /\ UNCHANGED <<wanted, batch, depth, taken, deviceVars, commands, uiVars>>

\* (changed form: the dead backend is kept)
LoseKeepsBackend == /\ TrySend(Disconnected)
                    /\ alive' = FALSE /\ applied' = None /\ parted' = {}
                    /\ pc' = "drain"

\* The backend is dropped and the thread goes back to the factory.
Lose == /\ TrySend(Disconnected)
        /\ alive' = FALSE /\ applied' = None /\ parted' = {}
        /\ pc' = "connect"

\* Backend::apply succeeds, is refused (Transient), or the link is gone (Fatal).
Accepts(c) == alive /\ c \notin Refused
Refuses(c) == alive /\ c \in Refused

\* What an accepted configuration leaves on the instrument.  A driver writes
\* only what differs from the configuration it last applied, so what an
\* auto-set moved without saying so may stay moved until a reconnection.
Written(c) ==
    /\ applied' \in IF "autoset" \in parted THEN {c, None} ELSE {c}
    /\ parted' = parted \ {"stop"}

\* An auto-set probes the instrument by moving it, and writes less than the
\* configuration `c' it leaves the driver believing in.
Probed(c) ==
    /\ applied' \in {c, None}
    /\ parted' = parted \cup {"autoset"}

Replay ==
    /\ pc = "replay"
    /\ \/ /\ wanted = None
          /\ pc' = "drain"
          /\ UNCHANGED <<alive, applied, parted, events>>
       \/ /\ wanted # None /\ Accepts(wanted)
          /\ Written(wanted)
          /\ pc' = "drain"
          /\ UNCHANGED <<alive, events>>
       \/ /\ wanted # None /\ ~Accepts(wanted)   \* any error, refusals included
          /\ Lose
    /\ UNCHANGED <<wanted, batch, depth, carry, clock, told, taken, plugged, commands, uiVars>>

\* (changed form of ShutdownSeen: only a shutdown at the head is seen)
ShutdownSeenFirst == commands # <<>> /\ Head(commands) = Shutdown

\* What a drain of the command channel makes of the commands in it: only the
\* newest configuration survives, a poke given twice is done once.
ShutdownSeen == \E i \in DOMAIN commands : commands[i] = Shutdown

Applies == {i \in DOMAIN commands : commands[i].cmd = "apply"}

IsNewest(c) ==
    \/ c = None /\ Applies = {}
    \/ \E i \in Applies : c = commands[i].cfg /\ \A j \in Applies : j <= i

Collect(c) ==
    batch' = [newest  |-> c,
              shots   |-> {s \in OneShots : \E i \in DOMAIN commands : commands[i] = Poke(s)},
              autoset |-> \E i \in DOMAIN commands : commands[i] = AutoSet]

\* A shutdown among the commands ends the thread, which drops the backend.
Drain ==
    /\ pc = "drain"
    /\ IF ShutdownSeen
       THEN /\ pc' = "done"
            /\ alive' = FALSE /\ applied' = None
            /\ UNCHANGED <<batch, commands>>
       ELSE /\ \E c \in Config \cup {None} : IsNewest(c) /\ Collect(c)
            /\ commands' = <<>>
            /\ pc' = "apply"
            /\ UNCHANGED <<alive, applied>>
    /\ UNCHANGED <<wanted, depth, carry, clock, told, taken, plugged, parted, events, uiVars>>

\* The newest configuration is wanted from now on, whether or not the
\* instrument takes it; a changed averaging depth restarts the averager.
ApplyNewest ==
    /\ pc = "apply"
    /\ \/ /\ batch.newest = None
          /\ pc' = "pokes"
          /\ UNCHANGED <<wanted, depth, taken, alive, applied, parted, events>>
       \/ /\ batch.newest # None
          /\ wanted' = batch.newest /\ taken' = 0
          /\ depth' = Averaging(batch.newest)
          /\ \/ /\ Accepts(batch.newest)
                /\ Written(batch.newest)
                /\ pc' = "pokes"
                /\ UNCHANGED <<alive, events>>
             \/ /\ Refuses(batch.newest)
                /\ applied' = None
                /\ TrySend(ErrorEvent)
                /\ pc' = "pokes"
                /\ UNCHANGED <<alive, parted>>
             \/ ~alive /\ Lose
    /\ UNCHANGED <<batch, carry, clock, told, plugged, commands, uiVars>>

\* force_trigger, set_multi, set_pass_fail_output, set_stimulus, set_seed:
\* each answers or reports an Error, a fatal one included.
PokeBackend(s) ==
    /\ pc = "pokes" /\ s \in batch.shots
    /\ batch' = [batch EXCEPT !.shots = @ \ {s}]
    /\ \/ alive /\ UNCHANGED events
       \/ TrySend(ErrorEvent)
    /\ UNCHANGED <<pc, wanted, depth, carry, clock, told, taken, deviceVars, commands, uiVars>>

PokesDone ==
    /\ pc = "pokes" /\ batch.shots = {}
    /\ pc' = "autoset"
    /\ UNCHANGED <<wanted, batch, depth, carry, clock, told, taken, deviceVars, commands, events, uiVars>>

\* Auto-set is refused by name on an SDR; on a scope it finds a configuration,
\* finds no signal or fails in passing, or loses the link.  By the time it
\* answers it has moved the instrument, whatever it answers.
RunAutoSet ==
    /\ pc = "autoset"
    /\ \/ /\ ~batch.autoset
          /\ pc' = "poll"
          /\ UNCHANGED <<wanted, depth, taken, alive, applied, parted, events>>
       \/ /\ batch.autoset /\ ~IsScope
          /\ TrySend(ErrorEvent)
          /\ pc' = "poll"
          /\ UNCHANGED <<wanted, depth, taken, alive, applied, parted>>
       \/ /\ batch.autoset /\ IsScope /\ alive
          /\ Probed(applied)
          /\ TrySend(ErrorEvent)
          /\ pc' = "poll"
          /\ UNCHANGED <<wanted, depth, taken, alive>>
       \/ /\ batch.autoset /\ IsScope /\ alive
          /\ \E c \in AutoConfigs :
                wanted' = c /\ depth' = Averaging(c) /\ Probed(c)
          /\ taken' = 0
          /\ pc' = "tellAuto"
          /\ UNCHANGED <<alive, events>>
       \/ /\ batch.autoset /\ IsScope /\ ~alive
          /\ Lose
          /\ UNCHANGED <<wanted, depth, taken>>
    /\ UNCHANGED <<batch, carry, clock, told, plugged, commands, uiVars>>

\* ConfigUpdated is a blocking send, after an auto-set and after a single sweep.
TellConfig ==
    /\ pc \in {"tellAuto", "tellStop"}
    /\ Send(ConfigUpdated(wanted))
    /\ pc' = IF pc = "tellAuto" THEN "poll" ELSE "drain"
    /\ UNCHANGED <<wanted, batch, depth, carry, clock, told, taken, deviceVars, commands, uiVars>>

\* (changed form: a second dropped frame overwrites what the first one owed)
DeliverForgets(from, to, lost) ==
    IF Len(events) < Capacity
    THEN events' = Append(events, Frame(from, to, lost + carry)) /\ carry' = 0 /\ told' = to
    ELSE carry' = lost + (to - from) /\ UNCHANGED <<events, told>>

\* carry_loss and the hand-over: a frame covering `from'..`to' goes out saying
\* what it and the frames dropped before it lost; if the channel is full, all
\* of it is owed to the next frame.
Deliver(from, to, lost) ==
    LET said == lost + carry
    IN IF Len(events) < Capacity
       THEN events' = Append(events, Frame(from, to, said)) /\ carry' = 0 /\ told' = to
       ELSE carry' = said + (to - from) /\ UNCHANGED <<events, told>>

\* The configuration in force asks for one record, and this is it.
SingleTaken == wanted # None /\ IsScope /\ wanted.single

\* A record arrives.  A single sweep is stopped in `wanted' at once; the
\* instrument and the consumer hear of it in the next two steps.
PollFrame ==
    /\ pc = "poll" /\ Running(wanted) /\ alive
    /\ \E lost \in 0..MaxLoss :
          LET from == clock + lost IN
          /\ from + 1 <= MaxUnits
          /\ clock' = from + 1
          /\ Deliver(from, from + 1, lost)
    /\ IF SingleTaken
       THEN wanted' = Stopped(wanted) /\ taken' = taken + 1 /\ pc' = "stop"
       ELSE UNCHANGED <<wanted, taken>> /\ pc' = "drain"
    /\ UNCHANGED <<batch, depth, deviceVars, commands, uiVars>>

\* Nothing yet: no record within the budget, or a transient error.
PollNothing ==
    /\ pc = "poll" /\ Running(wanted) /\ alive
    /\ pc' = "drain"
    /\ UNCHANGED events \/ TrySend(ErrorEvent)
    /\ UNCHANGED <<wanted, batch, depth, carry, clock, told, taken, deviceVars, commands, uiVars>>

\* poll_frame or idle finds the link gone.
PollLost ==
    /\ pc = "poll" /\ ~alive
    /\ Lose
    /\ UNCHANGED <<wanted, batch, depth, carry, clock, told, taken, plugged, commands, uiVars>>

\* Not running: a keep-alive and a nap.
Idle ==
    /\ pc = "poll" /\ ~Running(wanted) /\ alive
    /\ pc' = "drain"
    /\ UNCHANGED <<wanted, batch, depth, carry, clock, told, taken, deviceVars, commands, events, uiVars>>

\* (changed form: the consumer is told, the instrument is not)
StopSingleTellsOnly ==
    /\ pc = "stop"
    /\ pc' = "tellStop"
    /\ UNCHANGED <<wanted, batch, depth, carry, clock, told, taken, deviceVars, commands, events, uiVars>>

\* (changed form: a sweep that could not be stopped is wanted armed again)
StopSingleRearms ==
    /\ pc = "stop"
    /\ \/ /\ Accepts(wanted)
          /\ Written(wanted)
          /\ UNCHANGED <<wanted, events>>
       \/ /\ applied' = None /\ parted' = parted \cup {"stop"}
          /\ wanted' = [wanted EXCEPT !.running = TRUE]
          /\ TrySend(ErrorEvent)
    /\ pc' = "tellStop"
    /\ UNCHANGED <<batch, depth, carry, clock, told, taken, plugged, alive, commands, uiVars>>

\* The stopped configuration goes to the instrument.  Any failure is only
\* reported: a refusal, a link that is gone, or one transfer that failed on a
\* link that works.
StopSingle ==
    /\ pc = "stop"
    /\ \/ /\ Accepts(wanted)
          /\ Written(wanted)
          /\ UNCHANGED events
       \/ /\ applied' = None /\ parted' = parted \cup {"stop"}
          /\ TrySend(ErrorEvent)
    /\ pc' = "tellStop"
    /\ UNCHANGED <<wanted, batch, depth, carry, clock, told, taken, plugged, alive, commands, uiVars>>

Thread ==
    \/ Connect \/ ConnectFails \/ Retry \/ Announce \/ Replay
    \/ Drain \/ ApplyNewest \/ (\E s \in OneShots : PokeBackend(s)) \/ PokesDone
    \/ RunAutoSet \/ TellConfig
    \/ PollFrame \/ PollNothing \/ PollLost \/ Idle \/ StopSingle

-----------------------------------------------------------------------------
(* The cable.  A backend whose instrument was pulled never works again.    *)
Unplug == /\ plugged
          /\ plugged' = FALSE /\ alive' = FALSE
          /\ UNCHANGED <<threadVars, applied, parted, commands, events, uiVars>>

Plug == /\ ~plugged
        /\ plugged' = TRUE
        /\ UNCHANGED <<threadVars, alive, applied, parted, commands, events, uiVars>>

-----------------------------------------------------------------------------
(* The consumer: Link.  One update of the app runs `ingest', then the      *)
(* systems that edit the configuration, then `flush'; the dialogs edit it  *)
(* after the flush, before the next update's ingest.                       *)

\* ingest, one event.
Ingest ==
    /\ ui = "live" /\ turn = "ingest" /\ events # <<>>
    /\ events' = Tail(events)
    /\ LET e == Head(events) IN
       /\ uiCaps'   = (e.type = "connected" \/ (uiCaps /\ e.type # "disconnected"))
       /\ uiConfig' = IF e.type = "config" THEN e.cfg ELSE uiConfig
       /\ seenEnd'  = IF e.type = "frame" THEN e.to
                      ELSE IF e.type = "connected" THEN 0 ELSE seenEnd
    /\ UNCHANGED <<threadVars, deviceVars, commands, ui, turn, dirty>>

\* try_recv finds the channel empty.
IngestDone ==
    /\ ui = "live" /\ turn = "ingest" /\ events = <<>>
    /\ turn' = "flush"
    /\ UNCHANGED <<threadVars, deviceVars, commands, events, ui, uiConfig, dirty, uiCaps, seenEnd>>

Flush ==
    /\ ui = "live" /\ turn = "flush"
    /\ turn' = "ingest"
    /\ IF dirty
       THEN /\ dirty' = FALSE
            /\ commands' = Append(commands, Apply(uiConfig))
       ELSE UNCHANGED <<dirty, commands>>
    /\ UNCHANGED <<threadVars, deviceVars, events, ui, uiConfig, uiCaps, seenEnd>>

\* The bound on what the user may have under way: a pending edit is a command
\* to come.  Only the user's own steps are held back by it, never the program's.
Pending == Len(commands) + (IF dirty THEN 1 ELSE 0)

\* The user changes the configuration: by key or script between ingest and
\* flush, in a dialog after the flush.
Edit(c) ==
    /\ ui = "live" /\ (dirty \/ Pending < MaxCommands)
    /\ uiConfig' = c /\ dirty' = TRUE
    /\ UNCHANGED <<threadVars, deviceVars, commands, events, ui, turn, uiCaps, seenEnd>>

\* A button that sends a command of its own.
Press(cmd) ==
    /\ ui = "live" /\ Pending < MaxCommands
    /\ commands' = Append(commands, cmd)
    /\ UNCHANGED <<threadVars, deviceVars, events, uiVars>>

\* Supervisor::shutdown (an instrument switch, or drop): the command, then the
\* join.  The caller is the consumer, so nobody ingests from here on.
CallShutdown ==
    /\ ui = "live"
    /\ ui' = "joining"
    /\ commands' = Append(commands, Shutdown)
    /\ UNCHANGED <<threadVars, deviceVars, events, turn, uiConfig, dirty, uiCaps, seenEnd>>

Joined ==
    /\ ui = "joining" /\ pc = "done"
    /\ ui' = "released"
    /\ UNCHANGED <<threadVars, deviceVars, commands, events, turn, uiConfig, dirty, uiCaps, seenEnd>>

Next ==
    \/ Thread
    \/ Unplug \/ Plug
    \/ Ingest \/ IngestDone \/ Flush
    \/ \E c \in Choices : Edit(c)
    \/ \E cmd \in {Poke(s) : s \in OneShots} \cup {AutoSet} : Press(cmd)
    \/ CallShutdown \/ Joined

Spec == Init /\ [][Next]_vars

\* The operating system runs the acquisition thread, every blocking backend
\* call has a timeout, and Bevy runs the update systems as long as the app is
\* not blocked in a join.
Fairness == WF_vars(Thread) /\ WF_vars(Ingest) /\ WF_vars(IngestDone)
            /\ WF_vars(Flush) /\ WF_vars(Joined)

FairSpec == Spec /\ Fairness

-----------------------------------------------------------------------------
(* Correctness properties.                                                 *)

TypeOK ==
    /\ pc \in Pcs
    /\ wanted \in Config \cup {None}
    /\ batch \in [newest : Config \cup {None}, shots : SUBSET OneShots, autoset : BOOLEAN]
    /\ depth \in 0..MaxDepth
    /\ carry \in 0..MaxUnits /\ clock \in 0..MaxUnits /\ told \in 0..MaxUnits
    /\ plugged \in BOOLEAN /\ alive \in BOOLEAN
    /\ applied \in Config \cup {None}
    /\ parted \subseteq {"autoset", "stop"} /\ taken \in Nat
    /\ commands \in Seq(Command)
    /\ events \in Seq(Event) /\ Len(events) <= Capacity
    /\ ui \in {"live", "joining", "released"}
    /\ turn \in {"ingest", "flush"}
    /\ uiConfig \in Config
    /\ dirty \in BOOLEAN /\ uiCaps \in BOOLEAN
    /\ seenEnd \in 0..MaxUnits

\* Every unit the instrument produced on this connection has been put in the
\* event channel, declared lost in it, or is owed to the next frame: dropping
\* a frame rather than stalling never makes a loss disappear (carry_loss).
LossOwed == told + carry = clock

\* The events that fix where the consumer is on the unit clock, and where
\* each leaves it: Connected starts the clock again.
IsMark(e)  == e.type \in {"frame", "connected"}
MarkEnd(e) == IF e.type = "frame" THEN e.to ELSE 0

\* After the first n events of q, a consumer that stood at `start' stands at x.
Reaches(q, n, start, x) ==
    \/ x = start /\ \A j \in 1..n : ~IsMark(q[j])
    \/ \E j \in 1..n : /\ IsMark(q[j]) /\ MarkEnd(q[j]) = x
                      /\ \A k \in (j + 1)..n : ~IsMark(q[k])

\* What a frame declares lost is exactly the gap between it and whatever the
\* consumer saw before it, however many frames were dropped in between, so
\* splice detection downstream is exact.
NoHiddenHole ==
    \A i \in DOMAIN events : events[i].type = "frame" =>
        Reaches(events, i - 1, seenEnd, events[i].from - events[i].lost)

\* When the thread asks a working instrument for data, the instrument holds
\* the configuration the supervisor would replay, or refused exactly that one:
\* no order of reconnections, refusals, newest commands and single-sweep stops
\* parts the two.  What does part them is named by the history: an auto-set on
\* this connection, and the stop of a single sweep that failed, until the next
\* configuration is written.
InstrumentHoldsWanted ==
    pc = "poll" /\ alive /\ parted = {}
        => wanted = None \/ applied = wanted \/ wanted \in Refused

\* The consumer takes frames only between a Connected and the next
\* Disconnected: Link never shows data for an instrument it believes absent.
FramesOnlyWhileConnected ==
    [][events # <<>> /\ events' = Tail(events) /\ Head(events).type = "frame" => uiCaps]_vars

\* A single sweep is one record: whatever happens to its stop (refused, failed,
\* the link lost on the way, replayed to the next connection, an auto-set that
\* finds nothing), no second record is taken of the sweep that was asked for,
\* and once its stop has been tried the instrument is not set running for it.
SingleTakesOne ==
    /\ taken <= 1
    /\ taken = 1 /\ pc # "stop" => applied = None \/ ~applied.running

\* The cable is eventually left alone.
Settled == <>[]plugged \/ <>[]~plugged

BlockedSend == pc \in {"announce", "tellAuto", "tellStop"} /\ Len(events) = Capacity

\* shutdown() comes back once the cable rests, or the thread is stuck sending
\* to the very consumer that waits for it.
ShutdownReturnsUnlessBlocked ==
    Settled => ((ui = "joining") ~> (pc = "done" \/ BlockedSend))

\* "Stop the acquisition thread and wait for it, so the backend has released
\* its device before this returns."
ShutdownReturns == Settled => ((ui = "joining") ~> (ui = "released"))

\* "Replays the last requested configuration, so unplug/replug is invisible to
\* the UI beyond a status change": with the instrument back for good, the
\* thread keeps coming round to serve commands and acquire.
ReplugServes == <>[](plugged /\ ui = "live") => []<>(pc = "poll" /\ alive)

\* A lost instrument eventually shows as lost, though Disconnected is only
\* ever try_sent and may be dropped by a full channel.
DisconnectShows == <>[](~plugged /\ ui = "live") => <>[]~uiCaps

\* "Host-side running average over the last N records": every record is folded
\* at the depth the configuration asks for.
FoldsAtWantedDepth ==
    pc = "poll" /\ IsScope /\ Averaging(wanted) # 0 => depth = Averaging(wanted)

\* "The effective config changed on the backend side (single-sweep stop,
\* autoset); the UI should adopt it": with nothing in flight, the consumer
\* shows the configuration the supervisor runs.
ShowsEffectiveConfig ==
    /\ ui = "live" /\ ~dirty /\ commands = <<>> /\ pc = "poll"
    /\ \A i \in DOMAIN events : events[i].type # "config"
    => uiConfig = wanted

\* "Single sweep: one record, then stop": once the consumer is told of the
\* stop, an instrument that works is stopped.
StopIsHeld == pc = "tellStop" /\ alive => applied # None /\ ~applied.running

=============================================================================
