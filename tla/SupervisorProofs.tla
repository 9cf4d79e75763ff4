-------------------------- MODULE SupervisorProofs --------------------------
(***************************************************************************)
(* What the acquisition supervisor guarantees for every capacity of the    *)
(* event channel, every set of configurations and every bound.             *)
(***************************************************************************)
EXTENDS Supervisor, SequenceTheorems, TLAPS

USE SupervisorAssumption DEF SupervisorAssumption

\* An auto-set comes back with a configuration, so do the commands that apply one.
LEMMA ApplyCarriesConfig ==
    ASSUME NEW c \in Command, c.cmd = "apply"
    PROVE  c.cfg \in Config
  BY DEF Command, Apply, Poke, AutoSet, Shutdown

\* The channel operations keep the event queue a queue of events.
LEMMA TrySendType ==
    ASSUME TypeOK, NEW e \in Event, TrySend(e)
    PROVE  events' \in Seq(Event) /\ Len(events') <= Capacity
  BY DEF TypeOK, TrySend

\* So does a send that waits for room.
LEMMA SendType ==
    ASSUME TypeOK, NEW e \in Event, Send(e)
    PROVE  events' \in Seq(Event) /\ Len(events') <= Capacity
  BY DEF TypeOK, Send

\* Each event the thread sends is an Event.
LEMMA EventForms ==
    /\ Connected \in Event /\ Disconnected \in Event /\ ErrorEvent \in Event
    /\ \A c \in Config : ConfigUpdated(c) \in Event
    /\ \A f, t, l \in 0..MaxUnits : Frame(f, t, l) \in Event
  BY DEF Event

\* The depth of a configuration, and its stopped form, have their types.
LEMMA ConfigForms ==
    ASSUME NEW c \in Config \cup {None}
    PROVE  /\ Averaging(c) \in 0..MaxDepth
           /\ c # None => Stopped(c) \in Config
<1>1. CASE c = None
  BY <1>1 DEF Averaging
<1>2. CASE c \in Config
  <2>1. c.depth \in 0..MaxDepth /\ Stopped(c) \in Config
    BY <1>2 DEF Config, Stopped
  <2> QED BY <1>2, <2>1 DEF Averaging
<1> QED BY <1>1, <1>2

\* Each command the UI sends is a Command.
LEMMA CommandType ==
    /\ Shutdown \in Command /\ AutoSet \in Command
    /\ \A c \in Config : Apply(c) \in Command
    /\ \A s \in OneShots : Poke(s) \in Command
  BY DEF Command

\* What a written configuration leaves is a configuration or unknown.
LEMMA WrittenType ==
    ASSUME TypeOK, NEW c \in Config \cup {None}, Written(c)
    PROVE  applied' \in Config \cup {None} /\ parted' \subseteq {"autoset", "stop"}
  BY DEF TypeOK, Written

\* The types hold at the start.
LEMMA TypeInit == Init => TypeOK
<1> SUFFICES ASSUME Init PROVE TypeOK
  OBVIOUS
<1>1. uiConfig \in Config /\ commands \in Seq(Command)
  BY CommandType DEF Init
<1>2. batch \in [newest : Config \cup {None}, shots : SUBSET OneShots, autoset : BOOLEAN]
  BY DEF Init, EmptyBatch
<1> QED
  <2>1. events \in Seq(Event) /\ Len(events) <= Capacity
    BY EmptySeq DEF Init
  <2>2. /\ pc \in Pcs /\ wanted \in Config \cup {None} /\ applied \in Config \cup {None}
        /\ plugged \in BOOLEAN /\ alive \in BOOLEAN
        /\ parted \subseteq {"autoset", "stop"} /\ taken \in Nat
        /\ ui \in {"live", "joining", "released"} /\ turn \in {"ingest", "flush"}
        /\ dirty \in BOOLEAN /\ uiCaps \in BOOLEAN
    BY DEF Init, Pcs
  <2>3. /\ depth \in 0..MaxDepth /\ seenEnd \in 0..MaxUnits
        /\ carry \in 0..MaxUnits /\ clock \in 0..MaxUnits /\ told \in 0..MaxUnits
    BY DEF Init
  <2> QED BY <1>1, <1>2, <2>1, <2>2, <2>3 DEF TypeOK

\* A configuration the thread is about to report, or to send to the instrument
\* stopped, is there: ConfigUpdated never carries nothing.
TellsConfig == pc \in {"tellAuto", "stop", "tellStop"} => wanted \in Config

\* The inductive invariant of the types: how much a frame owes is bounded only
\* because what was told and what is owed add up to the clock.
TypeInv == TypeOK /\ LossOwed /\ TellsConfig

\* Every step keeps the types.
LEMMA TypeStep == TypeInv /\ [Next]_vars => TypeOK'
<1> SUFFICES ASSUME TypeOK, LossOwed, TellsConfig, [Next]_vars PROVE TypeOK'
  BY DEF TypeInv
<1> USE DEF TypeOK
<1>1. CASE Connect
  BY <1>1 DEF Connect, uiVars, Pcs
<1>2. CASE ConnectFails
  BY <1>2, TrySendType, EventForms DEF ConnectFails, uiVars, deviceVars, Pcs
<1>3. CASE Retry
  <2>1. CASE commands = <<>>
    BY <1>3, <2>1 DEF Retry, uiVars, deviceVars, Pcs
  <2>2. CASE commands # <<>>
    <3>1. Head(commands) \in Command /\ Tail(commands) \in Seq(Command)
      BY <2>2
    <3>2. wanted' \in Config \cup {None} /\ taken' \in Nat
      BY <1>3, <2>2, <3>1, ApplyCarriesConfig DEF Retry
    <3> QED
      BY <1>3, <2>2, <3>1, <3>2 DEF Retry, uiVars, deviceVars, Pcs
  <2> QED BY <2>1, <2>2
<1>4. CASE Announce
  BY <1>4, SendType, EventForms DEF Announce, uiVars, deviceVars, Pcs
<1>5. CASE Replay
  <2>1. events' \in Seq(Event) /\ Len(events') <= Capacity
    BY <1>5, TrySendType, EventForms DEF Replay, Lose
  <2>2. /\ pc' \in Pcs /\ alive' \in BOOLEAN /\ applied' \in Config \cup {None}
        /\ parted' \subseteq {"autoset", "stop"}
    BY <1>5, WrittenType DEF Replay, Lose, Pcs
  <2> QED BY <1>5, <2>1, <2>2 DEF Replay, uiVars
<1>6. CASE Drain
  <2>1. batch' \in [newest : Config \cup {None}, shots : SUBSET OneShots, autoset : BOOLEAN]
    <3>1. CASE ShutdownSeen
      BY <1>6, <3>1 DEF Drain
    <3>2. CASE ~ShutdownSeen
      <4>1. PICK c \in Config \cup {None} : Collect(c)
        BY <1>6, <3>2 DEF Drain
      <4> QED BY <4>1 DEF Collect
    <3> QED BY <3>1, <3>2
  <2>2. /\ pc' \in Pcs /\ alive' \in BOOLEAN /\ applied' \in Config \cup {None}
        /\ commands' \in Seq(Command)
    BY <1>6, EmptySeq DEF Drain, Pcs
  <2> QED BY <1>6, <2>1, <2>2 DEF Drain, uiVars
<1>7. CASE ApplyNewest
  <2>1. batch.newest \in Config \cup {None}
    OBVIOUS
  <2>2. wanted' \in Config \cup {None} /\ depth' \in 0..MaxDepth /\ taken' \in Nat
    BY <1>7, <2>1, ConfigForms DEF ApplyNewest
  <2>3. events' \in Seq(Event) /\ Len(events') <= Capacity
    BY <1>7, TrySendType, EventForms DEF ApplyNewest, Lose
  <2>4. /\ pc' \in Pcs /\ alive' \in BOOLEAN /\ applied' \in Config \cup {None}
        /\ parted' \subseteq {"autoset", "stop"}
    BY <1>7, <2>1, WrittenType DEF ApplyNewest, Lose, Pcs
  <2> QED BY <1>7, <2>2, <2>3, <2>4 DEF ApplyNewest, uiVars
<1>8. CASE \E s \in OneShots : PokeBackend(s)
  <2>1. PICK s \in OneShots : PokeBackend(s)
    BY <1>8
  <2>2. batch' \in [newest : Config \cup {None}, shots : SUBSET OneShots, autoset : BOOLEAN]
    BY <2>1 DEF PokeBackend
  <2>3. events' \in Seq(Event) /\ Len(events') <= Capacity
    BY <2>1, TrySendType, EventForms DEF PokeBackend
  <2> QED BY <2>1, <2>2, <2>3 DEF PokeBackend, uiVars, deviceVars
<1>9. CASE PokesDone
  BY <1>9 DEF PokesDone, uiVars, deviceVars, Pcs
<1>10. CASE RunAutoSet
  <2>1. /\ wanted' \in Config \cup {None} /\ applied' \in Config \cup {None}
        /\ depth' \in 0..MaxDepth /\ taken' \in Nat
    <3>1. CASE \E c \in AutoConfigs : wanted' = c /\ depth' = Averaging(c) /\ Probed(c) /\ taken' = 0
      <4>1. PICK c \in AutoConfigs : wanted' = c /\ depth' = Averaging(c) /\ Probed(c) /\ taken' = 0
        BY <3>1
      <4> QED BY <4>1, ConfigForms DEF Probed
    <3>2. CASE UNCHANGED <<wanted, depth, taken>>
      BY <1>10, <3>2 DEF RunAutoSet, Probed, Lose
    <3> QED BY <1>10, <3>1, <3>2 DEF RunAutoSet
  <2>4. parted' \subseteq {"autoset", "stop"}
    BY <1>10 DEF RunAutoSet, Probed, Lose
  <2>2. events' \in Seq(Event) /\ Len(events') <= Capacity
    BY <1>10, TrySendType, EventForms DEF RunAutoSet, Lose
  <2>3. pc' \in Pcs /\ alive' \in BOOLEAN
    BY <1>10 DEF RunAutoSet, Lose, Pcs
  <2> QED BY <1>10, <2>1, <2>2, <2>3, <2>4 DEF RunAutoSet, uiVars
<1>11. CASE TellConfig
  <2>1. ConfigUpdated(wanted) \in Event
    BY <1>11, EventForms DEF TellConfig, TellsConfig
  <2> QED BY <1>11, <2>1, SendType DEF TellConfig, uiVars, deviceVars, Pcs
<1>12. CASE PollFrame
  <2>1. PICK lost \in 0..MaxLoss :
            /\ clock + lost + 1 <= MaxUnits
            /\ clock' = clock + lost + 1
            /\ Deliver(clock + lost, clock + lost + 1, lost)
    BY <1>12 DEF PollFrame
  <2>2. lost + carry \in 0..MaxUnits
    BY <2>1 DEF LossOwed
  <2>3. events' \in Seq(Event) /\ Len(events') <= Capacity
    <3>1. Frame(clock + lost, clock + lost + 1, lost + carry) \in Event
      BY <2>1, <2>2, EventForms
    <3>2. CASE Len(events) < Capacity
      <4>1. events' = Append(events, Frame(clock + lost, clock + lost + 1, lost + carry))
        BY <2>1, <3>2 DEF Deliver
      <4> QED BY <3>1, <3>2, <4>1, AppendProperties
    <3>3. CASE ~(Len(events) < Capacity)
      BY <2>1, <3>3 DEF Deliver
    <3> QED BY <3>2, <3>3
  <2>4. carry' \in 0..MaxUnits /\ clock' \in 0..MaxUnits /\ told' \in 0..MaxUnits
    BY <2>1, <2>2 DEF Deliver, LossOwed
  <2>5. wanted' \in Config \cup {None} /\ pc' \in Pcs /\ taken' \in Nat
    BY <1>12, ConfigForms DEF PollFrame, SingleTaken, Pcs
  <2> QED BY <1>12, <2>3, <2>4, <2>5 DEF PollFrame, uiVars, deviceVars
<1>13. CASE PollNothing
  BY <1>13, TrySendType, EventForms DEF PollNothing, uiVars, deviceVars, Pcs
<1>14. CASE PollLost
  BY <1>14, TrySendType, EventForms DEF PollLost, Lose, uiVars, Pcs
<1>15. CASE Idle
  BY <1>15 DEF Idle, uiVars, deviceVars, Pcs
<1>16. CASE StopSingle
  <2>1. events' \in Seq(Event) /\ Len(events') <= Capacity
    BY <1>16, TrySendType, EventForms DEF StopSingle
  <2>2. applied' \in Config \cup {None} /\ parted' \subseteq {"autoset", "stop"}
    BY <1>16, WrittenType DEF StopSingle, TellsConfig
  <2> QED BY <1>16, <2>1, <2>2 DEF StopSingle, uiVars, Pcs
<1>17. CASE Unplug \/ Plug
  BY <1>17 DEF Unplug, Plug, threadVars, uiVars
<1>18. CASE Ingest
  BY <1>18 DEF Ingest, Event, ConfigUpdated, Frame, Connected, Disconnected, ErrorEvent, threadVars, deviceVars
<1>19. CASE IngestDone
  BY <1>19 DEF IngestDone, threadVars, deviceVars
<1>20. CASE Flush
  <2>1. Apply(uiConfig) \in Command
    BY CommandType
  <2>2. commands' \in Seq(Command) /\ dirty' \in BOOLEAN
    <3>1. CASE dirty
      <4>1. commands' = Append(commands, Apply(uiConfig)) /\ dirty' = FALSE
        BY <1>20, <3>1 DEF Flush
      <4> QED BY <2>1, <4>1, AppendProperties
    <3>2. CASE ~dirty
      BY <1>20, <3>2 DEF Flush
    <3> QED BY <3>1, <3>2
  <2> QED BY <1>20, <2>2 DEF Flush, threadVars, deviceVars
<1>21. CASE \E c \in Choices : Edit(c)
  BY <1>21 DEF Edit, threadVars, deviceVars
<1>22. CASE \E cmd \in {Poke(s) : s \in OneShots} \cup {AutoSet} : Press(cmd)
  BY <1>22, CommandType DEF Press, threadVars, deviceVars, uiVars
<1>23. CASE CallShutdown \/ Joined
  <2>1. commands' \in Seq(Command)
    BY <1>23, CommandType, AppendProperties DEF CallShutdown, Joined
  <2> QED BY <1>23, <2>1 DEF CallShutdown, Joined, threadVars, deviceVars
<1>24. CASE UNCHANGED vars
  BY <1>24 DEF vars, threadVars, deviceVars, uiVars
<1> QED
  BY <1>1, <1>2, <1>3, <1>4, <1>5, <1>6, <1>7, <1>8, <1>9, <1>10, <1>11, <1>12, <1>13,
     <1>14, <1>15, <1>16, <1>17, <1>18, <1>19, <1>20, <1>21, <1>22, <1>23, <1>24
     DEF Next, Thread
\* Every step keeps the account of what the next frame owes.
LEMMA LossStep == TypeInv /\ [Next]_vars => LossOwed'
<1> SUFFICES ASSUME TypeOK, LossOwed, [Next]_vars PROVE LossOwed'
  BY DEF TypeInv
<1>1. CASE UNCHANGED <<told, carry, clock>>
  BY <1>1 DEF LossOwed
<1>2. CASE Announce
  BY <1>2 DEF Announce, LossOwed
<1>3. CASE PollFrame
  <2>1. PICK lost \in 0..MaxLoss :
            /\ clock' = clock + lost + 1
            /\ Deliver(clock + lost, clock + lost + 1, lost)
    BY <1>3 DEF PollFrame
  <2>2. carry \in Nat /\ clock \in Nat /\ told \in Nat
    BY DEF TypeOK
  <2> QED BY <2>1, <2>2 DEF Deliver, LossOwed
<1> QED
  BY <1>1, <1>2, <1>3
     DEF Next, Thread, vars, threadVars, Connect, ConnectFails, Retry, Replay, Drain, ApplyNewest,
         PokeBackend, PokesDone, RunAutoSet, TellConfig, PollNothing, PollLost, Idle, StopSingle,
         Written, Probed, Unplug, Plug, Ingest, IngestDone, Flush, Edit, Press, CallShutdown, Joined

\* Every step comes to a report with a configuration to report.
LEMMA TellsStep == TypeInv /\ [Next]_vars => TellsConfig'
<1> SUFFICES ASSUME TypeOK, TellsConfig, [Next]_vars PROVE TellsConfig'
  BY DEF TypeInv
<1> USE DEF TellsConfig
<1>1. CASE pc' \notin {"tellAuto", "stop", "tellStop"}
  BY <1>1
<1>2. CASE UNCHANGED <<pc, wanted>>
  BY <1>2
<1>3. CASE RunAutoSet
  BY <1>3 DEF RunAutoSet, Lose
<1>4. CASE PollFrame
  BY <1>4, ConfigForms DEF PollFrame, SingleTaken, TypeOK
<1>5. CASE StopSingle
  BY <1>5 DEF StopSingle
<1> QED
  BY <1>1, <1>2, <1>3, <1>4, <1>5
     DEF Next, Thread, vars, threadVars, Connect, ConnectFails, Retry, Announce, Replay, Lose, Drain,
         ApplyNewest, PokeBackend, PokesDone, TellConfig, PollNothing, PollLost, Idle,
         Unplug, Plug, Ingest, IngestDone, Flush, Edit, Press, CallShutdown, Joined

\* Every variable of the supervisor keeps its type, and no frame owes more
\* than there was to lose.
THEOREM TypeCorrect == Spec => []TypeInv
<1>1. Init => TypeInv
  BY TypeInit DEF Init, TypeInv, LossOwed, TellsConfig
<1>2. TypeInv /\ [Next]_vars => TypeInv'
  BY TypeStep, LossStep, TellsStep DEF TypeInv
<1> QED BY <1>1, <1>2, PTL DEF Spec

\* Every variable keeps its type.
THEOREM Types == Spec => []TypeOK
  BY TypeCorrect, PTL DEF TypeInv

\* However many frames are dropped, and whatever the backend lost itself, the
\* units told and the units owed add up to the units produced.
THEOREM LossNeverDisappears == Spec => []LossOwed
  BY TypeCorrect, PTL DEF TypeInv

-----------------------------------------------------------------------------
(* Where a working instrument stands.  Away from the points where the      *)
(* thread is between deciding and applying, what the instrument holds is   *)
(* what a reconnection would replay, unless an auto-set or a stop that     *)
(* failed has parted the two.                                              *)
InStep == wanted = None \/ applied = wanted \/ wanted \in Refused

Settling == {"drain", "apply", "pokes", "autoset", "tellAuto", "poll", "tellStop"}

HoldsInv == alive /\ parted = {} /\ pc \in Settling => InStep

\* Every step keeps the instrument on the wanted configuration.
LEMMA HoldsStep == TypeOK /\ HoldsInv /\ [Next]_vars => HoldsInv'
<1> SUFFICES ASSUME TypeOK, HoldsInv, [Next]_vars, alive', parted' = {}, pc' \in Settling
             PROVE  InStep'
  BY DEF HoldsInv
<1> USE DEF Settling
<1>1. CASE UNCHANGED <<wanted, applied, alive, parted>> /\ pc \in Settling
  BY <1>1 DEF HoldsInv, InStep
<1>2. CASE Replay
  <2>1. CASE wanted = None
    BY <1>2, <2>1 DEF Replay, InStep
  <2>2. CASE Written(wanted)
    BY <1>2, <2>2 DEF Replay, Written, InStep
  <2> QED BY <1>2, <2>1, <2>2 DEF Replay, Lose
<1>3. CASE ApplyNewest
  <2>1. CASE UNCHANGED <<wanted, applied, alive, parted>> /\ pc = "apply"
    BY <2>1 DEF HoldsInv, InStep
  <2>2. CASE wanted' = batch.newest /\ Accepts(batch.newest) /\ Written(batch.newest)
    BY <2>2 DEF Written, InStep
  <2>3. CASE wanted' = batch.newest /\ Refuses(batch.newest)
    BY <2>3 DEF Refuses, InStep
  <2> QED BY <1>3, <2>1, <2>2, <2>3 DEF ApplyNewest, Lose
<1>4. CASE RunAutoSet
  BY <1>4 DEF RunAutoSet, Probed, Lose, HoldsInv, InStep
<1>5. CASE PollFrame
  BY <1>5 DEF PollFrame, HoldsInv, InStep, deviceVars
<1>6. CASE StopSingle
  BY <1>6 DEF StopSingle, Written, InStep
<1> QED
  BY <1>1, <1>2, <1>3, <1>4, <1>5, <1>6
     DEF Next, Thread, vars, threadVars, deviceVars, Connect, ConnectFails, Retry, Announce, Lose,
         Drain, PokeBackend, PokesDone, TellConfig, PollNothing, PollLost, Idle,
         Unplug, Plug, Ingest, IngestDone, Flush, Edit, Press, CallShutdown, Joined

\* Whenever the thread asks a working instrument for data, the instrument holds
\* the configuration the supervisor would replay, or refused exactly that one,
\* unless an auto-set or a failed stop has parted the two.
THEOREM InstrumentHoldsWantedHolds == Spec => []InstrumentHoldsWanted
<1>1. Init => HoldsInv
  BY DEF Init, HoldsInv
<1>2. TypeOK /\ HoldsInv /\ [Next]_vars => HoldsInv'
  BY HoldsStep
<1>3. HoldsInv => InstrumentHoldsWanted
  BY DEF HoldsInv, InStep, Settling, InstrumentHoldsWanted
<1> QED BY <1>1, <1>2, <1>3, Types, PTL DEF Spec

-----------------------------------------------------------------------------
(* The strengthening of SingleTakesOne: once the record is in, the         *)
(* configuration every later step would write is the stopped one.          *)
SweepInv ==
    /\ taken <= 1
    /\ taken = 1 => wanted \in Config /\ ~wanted.running
    /\ taken = 1 /\ pc # "stop" => applied = None \/ ~applied.running

\* Every step keeps a single sweep at one record.
LEMMA SweepStep == TypeOK /\ SweepInv /\ [Next]_vars => SweepInv'
<1> SUFFICES ASSUME TypeOK, SweepInv, [Next]_vars PROVE SweepInv'
  OBVIOUS
<1>0. taken \in Nat
  BY DEF TypeOK
<1>1. CASE taken' = 0
  BY <1>1 DEF SweepInv
<1>2. CASE /\ UNCHANGED <<taken, wanted>>
           /\ applied' = applied \/ applied' = None
           /\ pc' = "stop" \/ pc # "stop"
  BY <1>2 DEF SweepInv
<1>3. CASE Replay
  <2>1. CASE wanted # None /\ Written(wanted)
    BY <1>0, <1>3, <2>1 DEF Replay, Written, SweepInv
  <2>2. CASE ~(wanted # None /\ Written(wanted))
    BY <1>2, <1>3, <2>2 DEF Replay, Lose
  <2> QED BY <2>1, <2>2
<1>4. CASE PollFrame
  <2>1. CASE SingleTaken
    <3>1. wanted \in Config /\ wanted.running
      BY <1>4, <2>1 DEF PollFrame, SingleTaken, Running, TypeOK
    <3>2. taken = 0
      BY <1>0, <3>1 DEF SweepInv
    <3>3. /\ wanted' = Stopped(wanted) /\ taken' = 1 /\ pc' = "stop"
      BY <1>4, <2>1, <3>2 DEF PollFrame
    <3>4. Stopped(wanted) \in Config /\ ~Stopped(wanted).running
      BY <3>1 DEF Stopped, Config
    <3> QED BY <3>3, <3>4 DEF SweepInv
  <2>2. CASE ~SingleTaken
    BY <1>2, <1>4, <2>2 DEF PollFrame, deviceVars
  <2> QED BY <2>1, <2>2
<1>5. CASE StopSingle
  <2>1. CASE Written(wanted)
    BY <1>0, <1>5, <2>1 DEF StopSingle, Written, SweepInv
  <2>2. CASE applied' = None
    BY <1>5, <2>2 DEF StopSingle, SweepInv
  <2> QED BY <1>5, <2>1, <2>2 DEF StopSingle
<1>6. CASE Retry
  BY <1>1, <1>2, <1>6 DEF Retry, deviceVars
<1>7. CASE ApplyNewest
  BY <1>1, <1>2, <1>7 DEF ApplyNewest
<1>8. CASE RunAutoSet
  BY <1>1, <1>2, <1>8 DEF RunAutoSet, Probed, Lose
<1>9. CASE UNCHANGED <<taken, wanted, applied, pc>>
  BY <1>9 DEF SweepInv
<1>10. CASE \/ Connect \/ ConnectFails \/ Announce \/ Drain \/ PokesDone \/ TellConfig
            \/ PollNothing \/ PollLost \/ Idle
  BY <1>2, <1>10 DEF Connect, ConnectFails, Announce, Drain, PokesDone, TellConfig, PollNothing,
                     PollLost, Idle, Lose, deviceVars
<1> QED
  BY <1>3, <1>4, <1>5, <1>6, <1>7, <1>8, <1>9, <1>10
     DEF Next, Thread, vars, threadVars, deviceVars, PokeBackend,
         Unplug, Plug, Ingest, IngestDone, Flush, Edit, Press, CallShutdown, Joined

\* A single sweep is one record, and the instrument is not set running for it
\* again, whatever became of its stop.
THEOREM SingleTakesOneHolds == Spec => []SingleTakesOne
<1>1. Init => SweepInv
  BY DEF Init, SweepInv
<1>2. TypeOK /\ SweepInv /\ [Next]_vars => SweepInv'
  BY SweepStep
<1>3. SweepInv => SingleTakesOne
  BY DEF SweepInv, SingleTakesOne
<1> QED BY <1>1, <1>2, <1>3, Types, PTL DEF Spec

-----------------------------------------------------------------------------
(* What can happen to the event queue in one step: it is left alone, it    *)
(* gains an event that marks nothing, it loses the link, or one of the     *)
(* three actions that move marks and frames is taken.                      *)
Unlinked == {"connect", "retry", "announce"}

Quiet == /\ UNCHANGED <<events, told, seenEnd, uiCaps>>
         /\ pc \in Unlinked \cup {"done"} => pc' \in Unlinked \cup {"done"}

Reports == \E e \in Event : /\ e.type \in {"error", "config"}
                            /\ events' = Append(events, e)
                            /\ UNCHANGED <<told, seenEnd, uiCaps>>
                            /\ pc \notin Unlinked \cup {"done"}

Unlinks == /\ events' = Append(events, Disconnected)
           /\ UNCHANGED <<told, seenEnd, uiCaps>>
           /\ pc' \in Unlinked

\* The events that tell the UI of a configuration or an error are Events.
LEMMA ReportForms ==
    /\ ErrorEvent \in Event /\ ErrorEvent.type = "error"
    /\ \A c \in Config : ConfigUpdated(c) \in Event /\ ConfigUpdated(c).type = "config"
<1>1. ErrorEvent \in Event /\ ErrorEvent.type = "error"
  BY DEF Event, ErrorEvent
<1>2. ASSUME NEW c \in Config PROVE ConfigUpdated(c) \in Event /\ ConfigUpdated(c).type = "config"
  <2>1. ConfigUpdated(c) \in Event
    BY EventForms
  <2> QED BY <2>1 DEF ConfigUpdated
<1> QED BY <1>1, <1>2

\* What each step does to the event queue and to the account of the units.
LEMMA QueueSteps ==
    ASSUME TypeOK, TellsConfig, [Next]_vars
    PROVE  Quiet \/ Reports \/ Unlinks \/ Announce \/ PollFrame \/ Ingest
<1> USE DEF Quiet, Reports, Unlinks, Unlinked
<1>1. CASE Connect
  BY <1>1 DEF Connect, uiVars
<1>2. CASE ConnectFails
  BY <1>2 DEF ConnectFails, TrySend, uiVars
<1>3. CASE Retry
  BY <1>3 DEF Retry, uiVars
<1>4. CASE Replay
  BY <1>4 DEF Replay, Lose, TrySend, uiVars
<1>5. CASE Drain
  BY <1>5 DEF Drain, uiVars
<1>6. CASE ApplyNewest
  BY <1>6, ReportForms DEF ApplyNewest, Lose, TrySend, uiVars
<1>7. CASE \E s \in OneShots : PokeBackend(s)
  BY <1>7, ReportForms DEF PokeBackend, TrySend, uiVars
<1>8. CASE PokesDone
  BY <1>8 DEF PokesDone, uiVars
<1>9. CASE RunAutoSet
  BY <1>9, ReportForms DEF RunAutoSet, Lose, TrySend, uiVars
<1>10. CASE TellConfig
  BY <1>10, ReportForms DEF TellConfig, Send, TellsConfig, uiVars
<1>11. CASE PollNothing
  BY <1>11, ReportForms DEF PollNothing, TrySend, uiVars
<1>12. CASE PollLost
  BY <1>12 DEF PollLost, Lose, TrySend, uiVars
<1>13. CASE Idle
  BY <1>13 DEF Idle, uiVars
<1>14. CASE StopSingle
  BY <1>14, ReportForms DEF StopSingle, TrySend, uiVars
<1>15. CASE Unplug \/ Plug \/ IngestDone \/ Flush \/ CallShutdown \/ Joined
  BY <1>15 DEF Unplug, Plug, IngestDone, Flush, CallShutdown, Joined, threadVars, uiVars
<1>16. CASE \E c \in Choices : Edit(c)
  BY <1>16 DEF Edit, threadVars
<1>17. CASE \E cmd \in {Poke(s) : s \in OneShots} \cup {AutoSet} : Press(cmd)
  BY <1>17 DEF Press, threadVars, uiVars
<1>18. CASE UNCHANGED vars
  BY <1>18 DEF vars, threadVars, uiVars
<1> QED
  BY <1>1, <1>2, <1>3, <1>4, <1>5, <1>6, <1>7, <1>8, <1>9, <1>10, <1>11, <1>12, <1>13,
     <1>14, <1>15, <1>16, <1>17, <1>18 DEF Next, Thread

-----------------------------------------------------------------------------
(* How Reaches moves with the queue.                                       *)
LEMMA ReachesPrefix ==
    ASSUME NEW q \in Seq(Event), NEW e \in Event, NEW n \in 0..Len(q), NEW s, NEW x,
           Reaches(q, n, s, x)
    PROVE  Reaches(Append(q, e), n, s, x)
  BY DEF Reaches

\* An event that marks no units leaves the end of the queue where it was.
LEMMA ReachesUnmarked ==
    ASSUME NEW q \in Seq(Event), NEW e \in Event, NEW s, NEW x,
           ~IsMark(e), Reaches(q, Len(q), s, x)
    PROVE  Reaches(Append(q, e), Len(q) + 1, s, x)
<1> DEFINE p == Append(q, e)
<1>1. /\ \A j \in 1..Len(q) : p[j] = q[j]
      /\ p[Len(q) + 1] = e
      /\ Len(q) \in Nat
  OBVIOUS
<1> HIDE DEF p
<1> QED BY <1>1 DEF Reaches, p

\* One that does moves the end to its own.
LEMMA ReachesMarked ==
    ASSUME NEW q \in Seq(Event), NEW e \in Event, NEW s, IsMark(e)
    PROVE  Reaches(Append(q, e), Len(q) + 1, s, MarkEnd(e))
<1>1. Append(q, e)[Len(q) + 1] = e /\ Len(q) \in Nat
  OBVIOUS
<1> QED BY <1>1 DEF Reaches

\* Taking the head moves the start to the end of what the head marked.
LEMMA ReachesTail ==
    ASSUME NEW q \in Seq(Event), q # <<>>, NEW n \in 1..Len(q), NEW s, NEW x,
           Reaches(q, n, s, x)
    PROVE  Reaches(Tail(q), n - 1, IF IsMark(Head(q)) THEN MarkEnd(Head(q)) ELSE s, x)
<1> DEFINE p == Tail(q)
           h == Head(q)
<1>1. /\ \A j \in 1..(n - 1) : p[j] = q[j + 1]
      /\ h = q[1]
  OBVIOUS
<1> HIDE DEF p, h
<1>2. CASE x = s /\ \A j \in 1..n : ~IsMark(q[j])
  BY <1>1, <1>2 DEF Reaches, p, h
<1>3. CASE \E j \in 1..n : /\ IsMark(q[j]) /\ MarkEnd(q[j]) = x
                           /\ \A k \in (j + 1)..n : ~IsMark(q[k])
  <2>1. PICK j \in 1..n : /\ IsMark(q[j]) /\ MarkEnd(q[j]) = x
                          /\ \A k \in (j + 1)..n : ~IsMark(q[k])
    BY <1>3
  <2>2. CASE j = 1
    <3>1. IsMark(h) /\ MarkEnd(h) = x /\ \A k \in 1..(n - 1) : ~IsMark(p[k])
      BY <1>1, <2>1, <2>2
    <3> QED BY <3>1 DEF Reaches, p, h
  <2>3. CASE j # 1
    <3>1. /\ j - 1 \in 1..(n - 1) /\ IsMark(p[j - 1]) /\ MarkEnd(p[j - 1]) = x
          /\ \A k \in j..(n - 1) : ~IsMark(p[k])
      BY <1>1, <2>1, <2>3
    <3> QED BY <3>1 DEF Reaches, p
  <2> QED BY <2>2, <2>3
<1> QED BY <1>2, <1>3 DEF Reaches

\* The strengthening of NoHiddenHole: after every event in the channel the
\* consumer will stand where the thread last told it to.
HoleInv == NoHiddenHole /\ Reaches(events, Len(events), seenEnd, told)

\* An event that marks no units opens no hidden hole.
LEMMA HoleAppendUnmarked ==
    ASSUME TypeOK, HoleInv, NEW e \in Event, ~IsMark(e),
           events' = Append(events, e), UNCHANGED <<told, seenEnd>>
    PROVE  HoleInv'
<1>1. events \in Seq(Event) /\ Len(events') = Len(events) + 1
  BY DEF TypeOK
<1>2. Reaches(events, Len(events), seenEnd, told)'
  BY <1>1, ReachesUnmarked DEF HoleInv
<1>3. ASSUME NEW i \in 1..Len(events'), events'[i].type = "frame"
      PROVE  Reaches(events', i - 1, seenEnd', events'[i].from - events'[i].lost)
  <2>1. i \in 1..Len(events) /\ events'[i] = events[i]
    BY <1>1, <1>3 DEF IsMark
  <2>2. Reaches(events, i - 1, seenEnd, events[i].from - events[i].lost)
    BY <1>1, <1>3, <2>1 DEF HoleInv, NoHiddenHole
  <2> QED BY <1>1, <2>1, <2>2, ReachesPrefix
<1> QED BY <1>1, <1>2, <1>3 DEF HoleInv, NoHiddenHole

\* Nor does one that starts, its declared loss aside, where the last one ended.
LEMMA HoleAppendMarked ==
    ASSUME TypeOK, HoleInv, NEW e \in Event, IsMark(e), UNCHANGED seenEnd,
           events' = Append(events, e), told' = MarkEnd(e),
           e.type = "frame" => e.from - e.lost = told
    PROVE  HoleInv'
<1>1. events \in Seq(Event) /\ Len(events') = Len(events) + 1
  BY DEF TypeOK
<1>2. Reaches(events, Len(events), seenEnd, told)'
  BY <1>1, ReachesMarked
<1>3. ASSUME NEW i \in 1..Len(events'), events'[i].type = "frame"
      PROVE  Reaches(events', i - 1, seenEnd', events'[i].from - events'[i].lost)
  <2>1. CASE i \in 1..Len(events)
    <3>1. events'[i] = events[i]
      BY <1>1, <2>1
    <3>2. Reaches(events, i - 1, seenEnd, events[i].from - events[i].lost)
      BY <1>1, <1>3, <2>1, <3>1 DEF HoleInv, NoHiddenHole
    <3> QED BY <1>1, <2>1, <3>1, <3>2, ReachesPrefix
  <2>2. CASE i = Len(events) + 1
    <3>1. events'[i] = e /\ i - 1 = Len(events)
      BY <1>1, <2>2
    <3>2. Reaches(events, Len(events), seenEnd, e.from - e.lost)
      BY <1>3, <3>1 DEF HoleInv
    <3> QED BY <1>1, <3>1, <3>2, ReachesPrefix
  <2> QED BY <1>1, <2>1, <2>2
<1> QED BY <1>1, <1>2, <1>3 DEF HoleInv, NoHiddenHole

\* Every step keeps the holes declared.
LEMMA HoleStep == TypeInv /\ HoleInv /\ [Next]_vars => HoleInv'
<1> SUFFICES ASSUME TypeOK, LossOwed, TellsConfig, HoleInv, [Next]_vars PROVE HoleInv'
  BY DEF TypeInv
<1>0. carry \in Nat /\ clock \in Nat /\ told \in Nat /\ clock <= MaxUnits
  BY DEF TypeOK
<1>1. CASE Quiet
  BY <1>1 DEF Quiet, HoleInv, NoHiddenHole
<1>2. CASE Reports
  BY <1>2, HoleAppendUnmarked DEF Reports, IsMark
<1>3. CASE Unlinks
  BY <1>3, EventForms, HoleAppendUnmarked DEF Unlinks, IsMark, Disconnected
<1>4. CASE Announce
  BY <1>4, EventForms, HoleAppendMarked DEF Announce, Send, IsMark, MarkEnd, Connected, uiVars
<1>5. CASE PollFrame
  <2>1. PICK lost \in 0..MaxLoss :
            /\ clock + lost + 1 <= MaxUnits
            /\ Deliver(clock + lost, clock + lost + 1, lost)
    BY <1>5 DEF PollFrame
  <2> DEFINE e == Frame(clock + lost, clock + lost + 1, lost + carry)
  <2>2. e \in Event
    BY <1>0, <2>1, EventForms DEF LossOwed
  <2>3. IsMark(e) /\ MarkEnd(e) = clock + lost + 1 /\ e.from - e.lost = told
    BY <1>0 DEF IsMark, MarkEnd, Frame, LossOwed
  <2>4. CASE events' = Append(events, e) /\ told' = clock + lost + 1
    BY <1>5, <2>2, <2>3, <2>4, HoleAppendMarked DEF PollFrame, uiVars
  <2>5. CASE UNCHANGED <<events, told>>
    BY <1>5, <2>5 DEF PollFrame, uiVars, HoleInv, NoHiddenHole
  <2> QED BY <2>1, <2>4, <2>5 DEF Deliver
<1>6. CASE Ingest
  <2>1. /\ events \in Seq(Event) /\ events # <<>> /\ events' = Tail(events) /\ told' = told
        /\ seenEnd' = IF IsMark(Head(events)) THEN MarkEnd(Head(events)) ELSE seenEnd
    BY <1>6 DEF Ingest, TypeOK, IsMark, MarkEnd, threadVars
  <2>2. Len(events) \in 1..Len(events) /\ Len(events') = Len(events) - 1
    BY <2>1
  <2>3. Reaches(events', Len(events'), seenEnd', told')
    BY <2>1, <2>2, ReachesTail DEF HoleInv
  <2>4. ASSUME NEW i \in 1..Len(events'), events'[i].type = "frame"
        PROVE  Reaches(events', i - 1, seenEnd', events'[i].from - events'[i].lost)
    <3>1. i \in 1..Len(events) /\ i + 1 \in 1..Len(events) /\ events'[i] = events[i + 1]
      BY <2>1, <2>2
    <3>2. Reaches(events, i, seenEnd, events[i + 1].from - events[i + 1].lost)
      BY <2>1, <2>4, <3>1 DEF HoleInv, NoHiddenHole
    <3> QED BY <2>1, <3>1, <3>2, ReachesTail
  <2> QED BY <2>1, <2>2, <2>3, <2>4 DEF HoleInv, NoHiddenHole
<1> QED BY <1>1, <1>2, <1>3, <1>4, <1>5, <1>6, QueueSteps

\* What a frame declares lost is exactly the gap the consumer sees before it.
THEOREM NoHiddenHoleHolds == Spec => []NoHiddenHole
<1>1. Init => HoleInv
  BY DEF Init, HoleInv, NoHiddenHole, Reaches
<1>2. TypeInv /\ HoleInv /\ [Next]_vars => HoleInv'
  BY HoleStep
<1>3. HoleInv => NoHiddenHole
  BY DEF HoleInv
<1> QED BY <1>1, <1>2, <1>3, TypeCorrect, PTL DEF Spec

-----------------------------------------------------------------------------
(* The link as the consumer will believe it to be after n waiting events.  *)
Linked(q, n, up) ==
    \/ up /\ \A j \in 1..n : q[j].type # "disconnected"
    \/ \E j \in 1..n : /\ q[j].type = "connected"
                      /\ \A k \in (j + 1)..n : q[k].type # "disconnected"

\* Frames are queued only behind the Connected they belong to.
FramesLinked == \A i \in DOMAIN events : events[i].type = "frame" => Linked(events, i - 1, uiCaps)

LinkInv == /\ FramesLinked
           /\ pc \notin Unlinked \cup {"done"} => Linked(events, Len(events), uiCaps)

\* Who is linked stays linked when an event is appended.
LEMMA LinkedAppend ==
    ASSUME NEW q \in Seq(Event), NEW e \in Event, NEW up \in BOOLEAN
    PROVE  /\ \A n \in 0..Len(q) : Linked(q, n, up) => Linked(Append(q, e), n, up)
           /\ Linked(q, Len(q), up) /\ e.type # "disconnected"
                  => Linked(Append(q, e), Len(q) + 1, up)
           /\ e.type = "connected" => Linked(Append(q, e), Len(q) + 1, up)
<1> DEFINE p == Append(q, e)
<1>1. /\ \A j \in 1..Len(q) : p[j] = q[j]
      /\ p[Len(q) + 1] = e
      /\ Len(q) \in Nat
  OBVIOUS
<1> HIDE DEF p
<1>2. ASSUME NEW n \in 0..Len(q), Linked(q, n, up) PROVE Linked(p, n, up)
  BY <1>1, <1>2 DEF Linked
<1>3. ASSUME Linked(q, Len(q), up), e.type # "disconnected" PROVE Linked(p, Len(q) + 1, up)
  BY <1>1, <1>3 DEF Linked
<1>4. ASSUME e.type = "connected" PROVE Linked(p, Len(q) + 1, up)
  BY <1>1, <1>4 DEF Linked
<1> QED BY <1>2, <1>3, <1>4 DEF p

\* Who is linked stays linked, to the UI as it then is, when the head is taken.
LEMMA LinkedTail ==
    ASSUME NEW q \in Seq(Event), q # <<>>, NEW n \in 1..Len(q), NEW up \in BOOLEAN,
           Linked(q, n, up)
    PROVE  Linked(Tail(q), n - 1,
                  Head(q).type = "connected" \/ (up /\ Head(q).type # "disconnected"))
<1> DEFINE p == Tail(q)
           h == Head(q)
<1>1. /\ \A j \in 1..(n - 1) : p[j] = q[j + 1]
      /\ h = q[1]
  OBVIOUS
<1> HIDE DEF p, h
<1>2. CASE up /\ \A j \in 1..n : q[j].type # "disconnected"
  <2>1. up /\ h.type # "disconnected" /\ \A j \in 1..(n - 1) : p[j].type # "disconnected"
    BY <1>1, <1>2
  <2> QED BY <2>1 DEF Linked, p, h
<1>3. CASE \E j \in 1..n : /\ q[j].type = "connected"
                           /\ \A k \in (j + 1)..n : q[k].type # "disconnected"
  <2>1. PICK j \in 1..n : /\ q[j].type = "connected"
                          /\ \A k \in (j + 1)..n : q[k].type # "disconnected"
    BY <1>3
  <2>2. CASE j = 1
    <3>1. h.type = "connected" /\ \A k \in 1..(n - 1) : p[k].type # "disconnected"
      BY <1>1, <2>1, <2>2
    <3> QED BY <3>1 DEF Linked, p, h
  <2>3. CASE j # 1
    <3>1. /\ j - 1 \in 1..(n - 1) /\ p[j - 1].type = "connected"
          /\ \A k \in j..(n - 1) : p[k].type # "disconnected"
      BY <1>1, <2>1, <2>3
    <3> QED BY <3>1 DEF Linked, p
  <2> QED BY <2>2, <2>3
<1> QED BY <1>2, <1>3 DEF Linked

\* An appended event is no frame or is linked itself.
LEMMA FramesLinkedAppend ==
    ASSUME TypeOK, FramesLinked, NEW e \in Event, events' = Append(events, e), uiCaps' = uiCaps,
           e.type = "frame" => Linked(events, Len(events), uiCaps)
    PROVE  FramesLinked'
<1>1. events \in Seq(Event) /\ Len(events') = Len(events) + 1 /\ uiCaps \in BOOLEAN
  BY DEF TypeOK
<1>2. ASSUME NEW i \in 1..Len(events'), events'[i].type = "frame"
      PROVE  Linked(events', i - 1, uiCaps')
  <2>1. CASE i \in 1..Len(events)
    <3>1. Linked(events, i - 1, uiCaps)
      BY <1>1, <1>2, <2>1 DEF FramesLinked
    <3> QED BY <1>1, <2>1, <3>1, LinkedAppend
  <2>2. CASE i = Len(events) + 1
    <3>1. events'[i] = e /\ i - 1 = Len(events)
      BY <1>1, <2>2
    <3>2. Len(events) \in 0..Len(events)
      BY <1>1
    <3> QED BY <1>1, <1>2, <3>1, <3>2, LinkedAppend
  <2> QED BY <1>1, <2>1, <2>2
<1> QED BY <1>1, <1>2 DEF FramesLinked

\* Every step keeps each queued frame behind its connection.
LEMMA LinkStep == TypeInv /\ LinkInv /\ [Next]_vars => LinkInv'
<1> SUFFICES ASSUME TypeOK, LossOwed, TellsConfig, LinkInv, [Next]_vars PROVE LinkInv'
  BY DEF TypeInv
<1>0. events \in Seq(Event) /\ uiCaps \in BOOLEAN /\ Len(events) \in 0..Len(events)
  BY DEF TypeOK
<1>1. CASE Quiet
  BY <1>1 DEF Quiet, LinkInv, FramesLinked
<1>2. CASE Reports
  <2>1. PICK e \in Event : e.type \in {"error", "config"} /\ events' = Append(events, e)
    BY <1>2 DEF Reports
  <2>2. FramesLinked'
    BY <1>2, <2>1, FramesLinkedAppend DEF Reports, LinkInv
  <2>3. Linked(events', Len(events'), uiCaps')
    BY <1>0, <1>2, <2>1, LinkedAppend DEF Reports, LinkInv
  <2> QED BY <2>2, <2>3 DEF LinkInv
<1>3. CASE Unlinks
  <2>1. FramesLinked'
    BY <1>3, EventForms, FramesLinkedAppend DEF Unlinks, LinkInv, Disconnected
  <2> QED BY <1>3, <2>1 DEF Unlinks, LinkInv
<1>4. CASE Announce
  <2>1. events' = Append(events, Connected) /\ uiCaps' = uiCaps
    BY <1>4 DEF Announce, Send, uiVars
  <2>2. Connected \in Event /\ Connected.type = "connected"
    BY EventForms DEF Connected
  <2>3. FramesLinked'
    BY <2>1, <2>2, FramesLinkedAppend DEF LinkInv
  <2>4. Linked(events', Len(events'), uiCaps')
    BY <1>0, <2>1, <2>2, LinkedAppend
  <2> QED BY <2>3, <2>4 DEF LinkInv
<1>5. CASE PollFrame
  <2>1. pc = "poll" /\ uiCaps' = uiCaps
    BY <1>5 DEF PollFrame, uiVars
  <2>2. Linked(events, Len(events), uiCaps)
    BY <2>1 DEF LinkInv, Unlinked
  <2>3. CASE UNCHANGED events
    BY <2>1, <2>2, <2>3 DEF LinkInv, FramesLinked
  <2>4. CASE \E f, t, l \in 0..MaxUnits : events' = Append(events, Frame(f, t, l))
    <3>1. PICK f, t, l \in 0..MaxUnits : events' = Append(events, Frame(f, t, l))
      BY <2>4
    <3>2. Frame(f, t, l) \in Event /\ Frame(f, t, l).type # "disconnected"
      BY EventForms DEF Frame
    <3>3. FramesLinked'
      BY <2>1, <2>2, <3>1, <3>2, FramesLinkedAppend DEF LinkInv
    <3>4. Linked(events', Len(events'), uiCaps')
      BY <1>0, <2>1, <2>2, <3>1, <3>2, LinkedAppend
    <3> QED BY <3>3, <3>4 DEF LinkInv
  <2> QED
    <3>1. PICK lost \in 0..MaxLoss :
              /\ clock + lost + 1 <= MaxUnits
              /\ Deliver(clock + lost, clock + lost + 1, lost)
      BY <1>5 DEF PollFrame
    <3>2. carry \in Nat /\ clock \in Nat /\ told \in Nat
      BY DEF TypeOK
    <3>3. /\ clock + lost \in 0..MaxUnits /\ clock + lost + 1 \in 0..MaxUnits
          /\ lost + carry \in 0..MaxUnits
      BY <3>1, <3>2 DEF LossOwed
    <3> QED BY <2>3, <2>4, <3>1, <3>3 DEF Deliver
<1>6. CASE Ingest
  <2>1. /\ events # <<>> /\ events' = Tail(events) /\ pc' = pc
        /\ uiCaps' = (Head(events).type = "connected"
                          \/ (uiCaps /\ Head(events).type # "disconnected"))
    BY <1>6 DEF Ingest, threadVars
  <2>2. Len(events) \in 1..Len(events) /\ Len(events') = Len(events) - 1
    BY <1>0, <2>1
  <2>3. FramesLinked'
    <3>1. ASSUME NEW i \in 1..Len(events'), events'[i].type = "frame"
          PROVE  Linked(events', i - 1, uiCaps')
      <4>1. i \in 1..Len(events) /\ i + 1 \in 1..Len(events) /\ events'[i] = events[i + 1]
        BY <1>0, <2>1, <2>2
      <4>2. Linked(events, i, uiCaps)
        BY <1>0, <3>1, <4>1 DEF LinkInv, FramesLinked
      <4> QED BY <1>0, <2>1, <4>1, <4>2, LinkedTail
    <3> QED BY <1>0, <2>1, <3>1 DEF FramesLinked
  <2>4. Linked(events, Len(events), uiCaps) => Linked(events', Len(events'), uiCaps')
    BY <1>0, <2>1, <2>2, LinkedTail
  <2> QED BY <2>1, <2>3, <2>4 DEF LinkInv
<1> QED BY <1>1, <1>2, <1>3, <1>4, <1>5, <1>6, QueueSteps

\* The consumer takes frames only while it believes the instrument connected.
THEOREM FramesOnlyWhileConnectedHolds == Spec => FramesOnlyWhileConnected
<1>1. Init => LinkInv
  BY DEF Init, LinkInv, FramesLinked, Unlinked
<1>2. TypeInv /\ LinkInv /\ [Next]_vars => LinkInv'
  BY LinkStep
<1>3. TypeInv /\ LinkInv
        => (events # <<>> /\ events' = Tail(events) /\ Head(events).type = "frame" => uiCaps)
  BY DEF TypeInv, TypeOK, LinkInv, FramesLinked, Linked
<1> QED BY <1>1, <1>2, <1>3, TypeCorrect, PTL DEF Spec, FramesOnlyWhileConnected
=============================================================================
