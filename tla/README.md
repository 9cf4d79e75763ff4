# Verification of neowon

neowon drives USB oscilloscopes and SDR receivers (and simulations of both),
draws what they capture, decodes it, and keeps a catalog of the signals it
found. This directory holds TLA+ models of the parts of it whose correctness
depends on order, failure or long sequences of calls, the TLC configurations
that check them, and TLAPS proofs about them. Paths below are relative to
`src/`; `PROJECT.json` maps each definition that stands for a piece of code of its own to
the lines it models; helpers whose lines lie inside those of a mapped definition are not listed again.

## The system

| part | state | operations | interacts by |
|---|---|---|---|
| **acquisition supervisor** `crates/neowon-backend/src/supervisor.rs` | the owned `Backend`, `wanted`, the averager, `carry` | connect/retry, replay, drain of commands, apply, one-shots, auto-set, poll, single-sweep stop, shutdown | unbounded command channel in, bounded (256) event channel out; `Backend` calls |
| **instrument link** `crates/neowon-app/src/link.rs` | `config`, `dirty`, `caps`, the newest frames | `ingest`, `flush`, edits; the instrument switch | both channels; `shutdown()` joins the thread |
| **catalog state** `crates/neowon-catalog/src/{state,refs,history,op,model}.rs` | entities, redirects, tombstones, the history index, `next_id` | the ops of `State::apply`, `resolve`, `inverse` | called by the store, and by replay |
| **catalog store** `.../store.rs`, `.../wal.rs`, `neowon-core/src/atomic_file.rs` | manifest, snapshot, WAL segments, `seq`, `since_checkpoint`, `poisoned` | `open`, `commit_many`, `checkpoint`, `close` | the file system |
| **catalog session** `.../store.rs` | `undo` | `commit`, `undo` | catalog state |
| **catalog layer of the app** `neowon-app/src/catalog/`, `.../exchange.rs` | listing, selection, import and export | the verbs, batches, promotion of live tracks | `commit_many` |
| **vds1022 backend** `crates/neowon-vds1022` | the driver's fields, the configuration believed in force, FPGA registers | apply by difference, auto-set, capture, keep-alive | USB, `Backend` |
| **rtl-sdr backend** `crates/neowon-sdr` | queue of USB buffers, lost count | tune, start/stop, read | reader thread, `Backend` |
| **audio instrument and sink** | sample ring, clock; output queue | push/pull, trigger, stamp | `Backend`; sound card callback |
| **survey, tracker, modulation lab** | plan, coverage, tracks, the job under way | settle, measure, merge; associate, expire; measure in a worker | frames from the link |
| **timeline, recorder** | bounded ring of records, scrub position | push, evict, scrub, load | records and their stamps |
| **DAB receiver, audio worker, desk** | sync, FIC tables, sub-channel histories; worker and device queues; selection | feed, expire, select, play, stop | frames; a worker thread |
| **scope desk, sessions, auto-state** | configuration, math, measurements, mask; settings as script text; the state file | panel keys, sections, derive; save, load, restore | link; script queue; file |
| **control server, script runner, MCP bridge** | connections, queue of actions, waits, shots | request, reply, wait, cancel, spawn | sockets, the app's update |
| **reference database and map** | snapshots on disk, jobs, index, plans | fetch, import, clear, query | a job thread |
| simulators, codecs, UI drawing, CLI | none or view state | pure functions; drawing | |

The behaviours that are hard to test are: the consumer blocking on the thread
that blocks on the consumer; replays that are refused; frames dropped by a full
channel and what is said of them; events and commands that cross; settings half
applied; merges of merges in the catalog and everything that refers to what a
delete takes; a process killed, or power lost, between any two file operations;
answers of worker threads that come after the question has changed; captures
delivered late, twice or never. `PROJECT.json` lists each at its line
(`hazards`), with the properties that would catch it.

What makes the modelled parts correct:

* supervisor: losses are never hidden and add up; the instrument holds the
  configuration a reconnect would replay; a single sweep takes one record;
  frames come only between a Connected and the next Disconnected; a replug
  recovers, a lost instrument is shown lost, a shutdown returns.
* catalog: nothing dangles, redirects are one hop from a live signal, the
  derived index equals a rebuild, ids are spent once, pins hold; an undo is
  never refused and brings back exactly what was there; what was acknowledged
  survives, the catalog always opens again, memory and log agree.
* backends: what is believed applied is what the instrument holds, and a record
  is labelled with the settings it was taken with; every lost chunk is counted;
  a time stamp lies behind every hole declared before it.
* radio: nothing is mixed over a hole; a table shown was heard; one programme
  at the device, and it is the selected one; a survey covers its plan.
* app: a shot is reported once; what is drawn is current; what was saved is
  restored; a call gets its own answer.

## The modules

| module | what it is |
|---|---|
| `Supervisor` | the acquisition thread, both channels, the cable and the app's `Link` |
| `CatalogState`, `CatalogSession` | `State::apply`, one action per op; `commit` and `undo` of one session |
| `CatalogStore`, `DurableLog` | the store on disk, one file operation per step, with crashes; the abstract log it implements |
| `CatalogApp` | the catalog's verbs, batches, import and export, listing and window |
| `Vds1022` | the oscilloscope's backend, its driver, its registers and the record it holds ready |
| `RtlBackend` | the SDR dongle's settings, reader thread and stream |
| `AudioInput` | the sound card as an instrument: ring, clock, trigger, stamps |
| `SdrSurvey`, `SdrTuning`, `SdrDesk` | surveys over the supervisor's queues; the window, view and channel under verbs and gestures; the remaining settings, the I/Q dump and the sound transport |
| `SignalLab` | the tracker's identities and the modulation lab's worker |
| `DabReceiver`, `DabMux`, `DabLabel`, `DabTables` | the receiver's grid and tables; the ensemble and its sub-channels; the dynamic label; the protection tables |
| `DabPlusSync`, `DabPlayback`, `DabDesk` | super-frame search; the audio worker and the device; the operator's view of it |
| `Decoders`, `Uart` | I2C, SPI, 1-Wire; the asynchronous decoder and the digitizer |
| `ScopeDesk`, `ScopeSession`, `AutoState` | panel, sections, measurements and pass/fail; settings as script text; the state file |
| `Recorder` | the scrollback ring, its browser and the timeline view |
| `ScriptRunner`, `McpBridge` | the script queue, control connections and shots; the bridge's calls and the processes it spawns |
| `RefStore`, `RefSources`, `Stations`, `MapDesk` | snapshots on disk and jobs; the parsers; index, rows, plans, schedules; verbs, clicks and tools |
| `Radio` | `Vds1022`, `RtlBackend`, `AudioInput`, `DabPlayback`, `SdrSurvey`, `SignalLab`, `DabMux` and `DabLabel` side by side under one set of constants; what `RadioProofs` is about and, for the last three and `DabReceiver`, `DabReceiverProofs` |
| `App` | `ScriptRunner`, `Recorder`, `RefStore` and `McpBridge` side by side in the same way; what `AppProofs` is about |
| `*Proofs` | the theorems |
| `MCRadio`, `MCApp`, `MCBench` | suites: many parts, one run |
| `MCSupervisor` | small instances for TLC |

Operators commented "changed form" are in no specification: each is the
definition after it with a plausible mistake, and shows that a property notices
(`mutants` in `PROJECT.json`).

A *suite* puts parts that share no state into one run: the initial state chooses
`part`, only that part's variables change, and a property of the suite is a
conjunction of `part = "x" => X!Property`. Nothing is composed that way that
interacts in the code; parts that do interact are in one module.

### Supervisor

`pc` names the points of `run` at which the thread touches a channel or the
backend, which are the points where the consumer or the cable can come between;
everything up to the next such point is one step. `Connect`, `ConnectFails` and
`Retry` are the outer loop, `Announce` and `Replay` its end, `Drain` to `RunAutoSet`
the commands, `PollFrame`, `PollNothing`, `PollLost`, `Idle` the acquisition, and
`StopSingle` and `TellConfig` the end of a single sweep. `Send` blocks and `TrySend`
drops, as crossbeam's do. `Drain` takes all waiting commands in one step: a
command that arrives during the real loop is one that arrives before the step or
after it, since the loop touches nothing else.

A configuration is what the supervisor looks at: running, single sweep, depth of
averaging. Samples are positions on the instrument's unit clock: a frame covers
`from`..`to` and declares `lost` units before it. The averager is its depth.
`alive` says that the backend in hand still works (`BackendError::Fatal` otherwise),
`Refused` the configurations the instrument answers with `Transient`. `Unplug` may
come at any time. The consumer is `Link`: `Ingest` event by event, `Flush`, and
edits between the two or after them. `CallShutdown` is the app's only thread
entering `shutdown()`: from there nobody ingests, which is what `instrument::switch`
and `Drop` do.

`applied` is what the *instrument* holds, `None` where it is a mixture nobody asked
for. An auto-set has moved the instrument by the time it answers, whatever it answers,
and leaves a driver that believes in another configuration than it wrote (`Probed`; see
`Vds1022` below); a later configuration written by differences may leave that as it is
(`Written`), until a reconnection. The stop of a single sweep may fail without the thread
looking twice. `parted` remembers both, and `InstrumentHoldsWanted` is claimed of what is
left: reconnects, replays, refusals and newest-wins. `taken` counts the records of the configuration in
force, and `SingleTakesOne` says that what becomes of the stop (taken, refused, failed, lost with the
link, replayed) never lets a second one be taken. That the instrument *is* then stopped is
not so (`StopIsHeld`).

### CatalogState, CatalogSession, CatalogApp

The variables are the fields of `State`. An op that `apply` refuses changes nothing
and has no action; an op it accepts is an action whose guard is the code's
checks. `Rename`, `Alias`, `Unalias` and `Tag` are one action (`Relabel`), because
no property tells names from tags. `put`, `take` and `retire` loops are done for a
set of ids at once, which is the same since each id is touched once. `ResolvesTo`
is the `resolve` loop, bounded by `MAX_REDIRECT_DEPTH` like it. `ReferrersDeep` is
the smallest set closed under `Referrers`, which is what the worklist computes.
`Insert` takes any fresh id, as a replay or an import does.

`Inverse` is `State::inverse`, `Remember` what `commit_many` makes of it, `Undo(failed)`
is `Catalog::undo` with the two ways its commit can end once the op is logged.
`priors` is a history variable: for every entry of the undo list, the entities and
redirects it is to bring back. `redone` remembers that an undo whose checkpoint failed
left its own inverse behind: from there the older entries no longer match the
state, so `UndoAccepted` and `UndoExact` are not claimed until the history is empty.

`CatalogApp` has the app above it: each verb as a line that is read back, batches as
loops, the import's fresh ids and order of inserts, and the listing kept between frames.

### CatalogStore and DurableLog

An op is a number and the state is the sequence applied, since `apply` is a
deterministic function and `CatalogState` covers what it does. Every file operation
of `open`, `commit_many` and `checkpoint` is a step, so a kill can fall between any two;
a kill or a failing write inside one leaves a torn frame or header. `dir` is the
directory as processes see it and `flushed` as the disk has it; a power loss
leaves each unflushed change done or not done, and of each file the fsynced
frames and some prefix of the others. `logged` is what was acknowledged: it is set
when `append_all` has returned. `DurableLog` is the promise: a log that grows at
its end, a promised prefix, and crashes that take back only what was never
promised. The refinement maps the log to memory while a process is up and to what
the next `open` would read while none is.

Assumed of the platform: an fsync that returns Ok made the file durable; the
unsynced part of an append survives as a prefix of its bytes (wal.rs 210-213 says
the same); and, in the run and the theorems, `OrderedMetadata`: directory changes
become durable no later than a later fsync of any file, as journalling file systems
such as ext4 do. POSIX does not promise it. With `OrderedMetadata = FALSE` TLC finds
`LoggedSurvives` violated: `open` attaches to a segment, or trusts a manifest, that
a killed process created and never flushed, and a power loss takes the directory
entry away. With `FaultSets = {{"kill", "write", "dirsync", "power"}}` it is violated
too: a checkpoint whose directory fsync fails after the manifest rename goes on in
the old segment, where a kill can leave an unsynced record that the next `open`
replays, and never fsyncs, before it acknowledges commits in the new one.

### The instruments

`Vds1022` keeps three pictures of one instrument: `reg` what the registers hold,
`drv` what the driver remembers it wrote, `applied` what the backend compares the
next configuration with. `Apply` writes the differences in the code's order and may
be refused after any of them. `apart` names the parts that the code itself leaves different
from `applied`, and nothing else: five that an auto-set moves when it finds nothing, two that it only claims when it
finds a signal (peak detection off, and the other channel's setup when nothing was applied), and run, which
the keep-alive stops while every channel is off. `AppliedIsHeld` is about the other parts; the properties
`PeakIsHeld`, `RateIsHeld` and `RunsWhenOn` are about these, and do not hold.

The instrument samples by itself: `Sample` may finish a record at any time it runs, under the
registers of then, and `Poll` fetches it later, told with the driver's fields of then. A record can therefore be older than
a write, as auto-set's own comment says (backend.rs 180). What empties the buffer is taken
from the driver: `SET_EMPTY` at the end of every write of rate and position, and gain and channel writes
(device.rs 300-301); peak detection, trigger and run do not. `before` marks a record
that peak detection was switched after: it is told wrong (`PeakIsToldRight`, which does not hold), and
`RecordsToldRight` says that nothing else is.

`RtlBackend` has the settings in the same way and,
apart, the stream: one chunk is one unit of time, the reader thread puts chunks into a bounded
queue and counts what does not fit, `poll_frame` hands the count out. `AudioInput` is
`push` in the callback's thread and `poll` in the app's: the ring, cut when nobody
comes, the capture clock, and the trigger search.

### The radio

`DabReceiver` is one frame attempt per step: `hits`/`misses` on the grid, the age
of the table, and one sub-channel's de-interleaver as the sequence of frames it has
heard since the last hole. `DabMux` sends FIGs, cut in FIBs, of an ensemble that is rearranged
on the air; `DabLabel` sends segments in sub-fields, some damaged.
`DabPlayback` has the queues between the app, the worker and the sound
device, which the demodulator shares; a codec is an outcome. `SdrSurvey` runs the plan through a model of the supervisor's
two queues, so that frames of the old centre arrive after the retune.
`SdrTuning`, `SdrDesk`, `DabDesk` and `MapDesk` are the SDR mode's screen: one action per verb
of the script grammar, per click, drag and wheel, and per MCP tool, so that the three
ways to do one thing can be compared. Frequencies are integers in steps fine enough
for every rounding the code does.

### The app

`AutoState` is one app frame per step. `ScriptRunner` separates the frame, the
renderer's thread (`Readback`: a capture may be late, twice, blank or never), and the
control socket. `McpBridge` is the client, with the processes it finds or starts. `RefStore` has the
job thread and the frame thread on the same files, with a kill. `ScopeSession` reads and
writes the session's lines with the script's own grammar. `ScopeDesk` is one `Update` per app frame in the
order of the systems (`ingest`, `flush`, `compute_derived`, `decode::run`,
`update_phosphor`, the bar), with the controls in between; measurements are computed
on raw counts, times in `Grain` parts of a sample, as the code's formulas do, without the
scaling to volts and seconds. `Measures` holds them as a table, since they are a pure function of the
trace; `ScopeDeskAssumption` says that the table is that function.

## The runs

| run | module | question | bounds |
|---|---|---|---|
| `loss` | `MCSupervisor` | is every hole in the stream declared, and does every frame belong to a connection? | a radio losing up to 1 unit before a frame, 4 units a connection, 2 event slots, 1 command waiting; any number of reconnects |
| `config` | `MCSupervisor` | do instrument and supervisor agree where no auto-set or failed stop has parted them, does a single sweep take one record whatever becomes of its stop? | a scope, a free-running and a single configuration, the single one refused, auto-set, one one-shot; 1 event slot, 2 units |
| `live` | `MCSupervisor` | under fairness: does a replug serve again, is a loss shown, does shutdown return? | two configurations, nothing refused; 1 slot, 1 unit |
| `ops` | `CatalogState` | are references, redirects, index, ids and pins right after every sequence of ops? | 4 ids, all kinds, 2 times |
| `undo` | `CatalogSession` | is the newest inverse accepted, and exact? | 3 ids, signals and observations, 2 undo entries; checkpoints may fail |
| `store` | `CatalogStore` | what do kills, power losses, failing writes and failing directory fsyncs cost? Does the store implement `DurableLog`? | 3 ops in batches of up to 2, 3 segments, a checkpoint every 2 commits and at any time; fault sets {kill, write, dirsync} and {kill, power, write} |
| `radio` | `MCRadio` | fifteen parts: `Vds1022`, `RtlBackend` (settings; stream), `DabPlusSync`, `DabReceiver`, `DabMux`, `DabLabel`, `DabPlayback`, `SdrSurvey`, `SignalLab`, `AudioInput`, `DabDesk`, `SdrDesk` (dump; output), `MapDesk` | below |
| `app` | `MCApp` | five parts: `ScriptRunner`, `Recorder`, `RefStore`, `McpBridge` (calls; launches); with fairness | below |
| `bench` | `MCBench` | nine parts: `AutoState`, `SdrTuning`, `Decoders`, `Uart`, `Stations`, `RefSources`, `ScopeSession`, `CatalogApp`, `ScopeDesk` | below |
| `replug`, `unplug`, `refdb` | `MCSupervisor`, `RtlBackend`, `RefStore` | three statements of the source that the code does not keep (violations) | one property each |

What the properties of the suites say is in the comment before each; the conjunctions
name the part's own properties, which are commented where they are stated.

Why the bounds are enough. *Supervisor*: two slots are the fewest that hold an event
behind another, and one slot makes every blocking send block; 4 units allow two
dropped frames in a row between two delivered ones, with a loss of the
instrument's own. `MaxUnits` bounds a connection, not the number of connections;
`MaxCommands` only what the user has under way, never what the program sends.
*CatalogState*: a chain of two merges and a restore need 3 ids, a source above a
signal above a transmission above an observation needs 4. *CatalogStore*: a batch, a
record after it, a checkpoint between, and a second interrupted checkpoint that
leaves a third segment. `since` saturates at `CheckpointEvery`, where the code acts on it.
A checkpoint that needs a segment number past `MaxSeg` waits for a kill: the bound,
not the program.

*radio*. The scope has two ranges, rates (one in roll mode) and positions; the dongle two
rates, gains and corrections and two centres, one out of band; its stream a queue of 2 and 3 chunks, the fewest that
overflow, drain and overflow again. Super frames of 3 logical frames (5 in the code) are the
fewest with a first, a middle and a last. The receiver has 2 strikes, an expiry of 3, a
window of 4, a history of 3 frames and two ensembles. Playback has two services, one of which is refused, two modes,
queues of 2 and two seams. The survey has 5 steps of which three are skipped, two of them together and at its start, and runs twice.
The lab has two places, two windows and two settings, four frames and two edits. The multiplex has two layouts of one
ensemble and ten CIFs, the label four messages of up to three segments. The sound card
makes 14 samples in callbacks of 1 or 3, read in chunks of 3 from a ring of 2 chunks. The desks
have two or three of everything and one tool call: enough for one way of doing a thing after another.

*app*. Two shots in a queue of 2 with a retry and two failures; a ring of three records read in chunks of 2
over two sessions, with files of 2; two sources, two jobs, two clears, one
kill; two calls, two or three processes, one fault.

*bench*. State texts of 2, debounce and timeout of 2 in 6 frames; two rates and a band of which the edges are reached;
words of two and three bits, shorter than the 5 to 9 bits `decode` takes, so that the clocks, off by up to 2.4 % at
12.5 samples a bit, are those of a short frame; 
four stations in
a week of three short days; documents of up to three rows; two edits of a session out of 33
lines, and over every line of the grammar the restore once; three catalog actions; four updates of the desk
with up to two controls between. The digitizer is compared with a reference on every capture of up to
five samples of five levels, and the measurements are checked on every trace of five samples of five levels.

The runs check for deadlock where the part has no end of its own; the suites do not
(`CHECK_DEADLOCK FALSE`): a part stops when its bound on edits, frames or faults is used up.

**Fairness.** `live`: weak fairness of the thread's own steps, since the operating system
schedules it and every blocking backend call takes a timeout; of `Ingest`,
`IngestDone` and `Flush`, which Bevy runs each frame while the app is not in a
join; and of the join's return. None of the user's actions or of the cable is
fair. A blocked `Send` is a disabled step, so fairness does not unblock it. `app`:
weak fairness of `ScriptRunner`'s frame and of its renderer's answer (both are Bevy
schedules that run for as long as the app does), and of `McpBridge`'s watchdog, a
thread that sleeps and looks. `unplug`: of the reader thread and of the poll.

## The proofs

TLAPS proves the theorems below for every value of the constants that satisfies
the named assumption of the module (positive capacities, finite or non-empty
sets, model values outside them; each is stated with the constants and is
evaluated by TLC in the runs). 44 of them are listed in `PROJECT.json`.

| module | theorems |
|---|---|
| `SupervisorProofs` | `Types`, `LossNeverDisappears`, `InstrumentHoldsWantedHolds`, `SingleTakesOneHolds`, `NoHiddenHoleHolds`, `FramesOnlyWhileConnectedHolds` |
| `CatalogProofs` | `CatalogSound` and from it `TypeCorrect`, `NothingDanglesHolds`, `RedirectsSoundHolds`, `HistoryInStepHolds`, `IdsSpentHolds`; `PinHoldsHolds`; `SessionInductive`, `SessionIsCatalog`, `UndoAcceptedHolds`, `UndoExactHolds` |
| `CatalogStoreProofs` | `StoreInductive`, `LoggedSurvivesHolds`, `NeverRefusedHolds`, `MemoryIsLoggedHolds`, `ManifestCompleteHolds`, `StoreImplements` (`ImplementsDurableLog`) |
| `RadioProofs` | `RecordsToldRightHolds` (`Vds1022`); `AppliedIsHeldHolds` (`Vds1022`, `RtlBackend`); `EveryChunkCountsHolds` (`RtlBackend`, `AudioInput`); `OneVoiceHolds`, `PlaysTheSelectionHolds` (`DabPlayback`); `CoverageIsThePlanHolds` (`SdrSurvey`) |
| `DabReceiverProofs` | `HistoryStaysWhole` (`HistoryIsWhole`), `TableStaysHeard` (`TableIsHeard`), `GoodSignalIsPublishedHolds`; `NothingIsMixedHolds` (`SignalLab`, `DabMux`, `DabLabel`) |
| `AudioInputProofs` | `ClockHolds`, `LossHolds`, `StampHolds`, `AdvanceHolds` |
| `AutoStateProofs` | `SavedIsKeptHolds`, `StateIsSavedHolds` |
| `AppProofs` | `ShotsAccountedHolds` (`ScriptRunner`); `RingIsTailHolds` (`Recorder`); `ShownIsStoredHolds` (`RefStore`); `CallsAreServedHolds` (`McpBridge`) |

The inductive invariants, and why they are needed:

* **Supervisor.** `TypeInv` = `TypeOK`, `LossOwed` and `TellsConfig` (whoever is about
  to send `ConfigUpdated` has a configuration): `carry` is bounded by the units
  produced only because told and owed add up to them. `HoldsInv` extends
  `InstrumentHoldsWanted` from the poll to every point of the inner loop between
  commands, leaving out the two at which the thread has decided and not yet applied. `SweepInv` adds to
  `SingleTakesOne` that, once the record is in, the configuration wanted is a stopped one, so that every later replay
  writes that; only a newer command or a found auto-set starts another sweep.
  `HoleInv` adds that the consumer will stand at `told` once it has taken
  everything queued: `Reaches` says where the last frame or Connected of a prefix of the
  queue leaves it, and four lemmas move it along `Append` and `Tail`. `LinkInv` says the same of the link: behind
  every queued frame the last word about the link is Connected. It holds because Connected is sent, not
  tried; a dropped Disconnected does no harm.
* **Catalog state.** `Sound` is the conjunction of the five invariants, none inductive alone:
  a delete keeps references only because ids are not reused, an insert keeps
  redirects only because live and merged ids are disjoint, compression leaves one
  hop only because there was one before. `PinHolds` adds a minimality argument:
  what a cascade takes refers to the entity or to something else it takes
  (`DeepRefers`), and of the kinds that can be pinned only signals and emitters refer to
  anything, namely to their source.
* **Session.** `SessionSound` says the undo list is a `Chain` of `Link`s: each inverse
  `Fits` the state that undoing everything newer brings back, and takes it `Back` to
  the recorded prior. One lemma per op shows that its inverse fits the state it leaves;
  `UndoExact` is then the first link, and `UndoAccepted`, stated without ENABLED, its
  `Fits`. `SessionIsCatalog` shows that every session is a behaviour of `CatalogState`,
  so all its theorems hold of sessions.
* **Store.** `IInv` says that there is one log `D` that everything on disk is part of:
  the records of every segment say what `D` holds at their number, in the order of the
  segments, with none left out after the older manifest's watermark; snapshots are
  prefixes of `D`; a torn frame is last; a manifest, flushed or not, names only what no
  crash takes away; what is not fsynced is the end of `D`, above what was acknowledged and
  above every snapshot. Each step keeps `D`, appends to it, or, at a power loss, shortens it to what was fsynced. What the next `open` reads is
  then a prefix of `D` that contains what was acknowledged (`LoggedSurvives`), and
  the refinement step is a case on how `D` changed. The theorems assume `Journaled`: `OrderedMetadata`,
  and no set of faults with both a failing directory fsync and a power loss. Without either `LoggedSurvives` is false
  (see *CatalogStore* above): it is a hypothesis about the disk and about how many things fail in one
  life of the catalog, each half of which the run checks as a fault set.
* **Vds1022.** `VdsInv`: registers and driver are well-formed, the driver's fields `Follow`
  the registers and `Fit` the record in the buffer, whenever it was finished, and `AppliedIsHeld`. `Follow` has to leave out the
  range of a channel that is off, which init() does not write and no record shows. `apply` writes the parts in an order in which each
  comes after those that disturb it (a range moves the trigger's counts, the rate the
  position); the step is one lemma per write, and the refused prefix is the composition of its first few.
* **RtlBackend.** For the settings, `RtlInv`: what is planned but not in force is exactly what still differs, so
  each of `apply`'s writes is a lemma that keeps it and the refused prefix is again a composition. For the
  stream, `RtlStreamInv`: the chunks handed on, lost, queued and in the reader's hand, with what
  was already told, are those the dongle made, where a count of lost chunks comes after everything in the queue
  (`Accounted`, `LostIsLast`). A message put into or taken out of the queue moves a term of that sum
  (`AccountsAdd`, `AccountsPass`, `ToldAdds`).
* **DabPlayback.** `PlayInv`: the device's queue, the worker's output and the job under way each
  belong to the selected service or to a generation that is gone, and a seam separates two. **SdrSurvey.** `ScanInv`: every survey, finished or not, is
  `Good`: coverage is a prefix of the plan, and a step that says scanned kept a frame of its own centre, which needs that
  a frame dwelt on was polled after the retune had been applied.
* **DabReceiver.** The counters stay under their limits off and on the grid, the history is
  empty off the grid, the age counts from the last heard table, and what was heard is within the
  lock window; a good signal fills the history in `Depth` frames, by counting.
* **SignalLab.** `LabInv`: the tracks' identities are all below the next one; a run under way, finished or shown is of an
  identity that was given out, and a track that still has it belongs to the window the run was started in (`RunOk`); what
  is shown has the setting of now and the tracker's window. A tracker that is off has no tracks. A frame is an
  induction over its observations (`ObserveGoes`).
* **DabMux.** `MuxInv`: what every ring holds at a CIF number is of that CIF (`HandlerOk`), what came out is of one
  logical frame (`OutOk`), and of a sub-channel received in one piece the last CIFs are in its ring bit for bit as they were sent
  (`Exact`), before its first CIF nothing. `NothingMixed` alone is not inductive: it says nothing of
  what is still in the ring. A logical frame reads each of its bits from another cell; that cells
  less than a ring apart differ is `SlotsDiffer`. A frame is an induction over `PushCif`.
* **DabLabel.** `LblState`: while no message was passed over, the segments are of the message that is sent, or of the one before
  while none of this one's groups was taken (`LblWhose`, since the toggle is one bit), and as many
  groups in a row are held as the count of units that came through says (`LblCounts`), which two passes
  bring to the message's length. A unit under way is the first of the sender's group.
* **AudioInput.** The ring ends with the last sample made and has no seam; samples taken,
  dropped and in the ring add up to those made; a cut is followed by a sample; a
  pending stamp is older than the ring; from the last hole on the clock counts the samples.
* **AutoState.** Without an edit the state opened is in the file, in `last_written` and on its
  way through the queue or live; `last_written` is the file while no write failed; a text seen for
  long enough is written, or has been pending for exactly as long.
* **ScriptRunner.** `Captures` says which captures can still answer a shot and which are
  left over from a retry, `Outstanding` that a shot waits for exactly one of them; `Counts` relates both to what was reported.
* **Recorder.** `RingInv` adds what the recorder remembers to what it holds: the number of the last record it was offered
  (`LastSeq`), by which it tells a record it has seen from a new one. One record offered is one step of `Distinct` and one push
  (`RecordedKeeps`); a push keeps the ring the tail, and an overflow leaves enough because the chunk dropped is one record until
  the ring is twice as long as it must be (`OverflowLeaves`, from `MinKept + 1 < 2 * Chunk`: both are 8 in the code). An app frame, and a file,
  are then an induction over the records that arrived.
* **RefStore.** `RefInv`: a job is pending exactly as long as its thread has one, and with none pending what a load under way
  has read of the snapshots is what is there, since a clear and a load are one thread's and the tick takes a job's end only
  between them. `ShownIsStored` then follows at the end of each load; `missed` withholds it after a job or a clear
  that failed, which may have written and loads nothing. That the *metadata* says what is on disk is not so (`refdb`).
* **McpBridge.** `BridgeInv`: one app serves and the token's file is its own (`Connected`); what is ours is the
  client's child (`ChildInv`); whatever may fail a call is noted while the call is under way (`HurtInv`). On a connection
  on which no wait was given up there is the awaited line or its reply and nothing else (`FlightInv`), which
  is why an answer is the call's own (`TrustInv`). While none was given up at all, one line at most can
  still be run, on the client's connection, and it comes after everything that ran (`RanInv`), and a
  capture under way is the call's (`PictureInv`). It is proved in one lemma per action of the client, the app and the cable,
  and was checked by TLC on three calls and two processes first.

How induction over data is done: the provers cannot instantiate a theorem with an
operator parameter, so `CatalogStoreProofs`, `RadioProofs`, `DabReceiverProofs` and `AppProofs` derive a first-order one
from `WFMin` (a non-empty set of naturals has a least element, hence a set that holds 0 and successors
holds all) and unfold a recursive function by showing that a function with its equation exists.
The models they are about use such functions and no RECURSIVE operator.

**Only model-checked.** Liveness and ENABLED are out of the prover's reach:
`ShutdownReturnsUnlessBlocked`, `ReplugServes`, `DisconnectShows`, `EndsInTime`.
`DabPlusSync` and some of the parsers use RECURSIVE operators, which the provers do not take. Of the suites' conjunctions `DeskIsTrue`, `WindowIsTrue` and
`DecodesWhatWasSent` have no theorem; they are about grammars, tables and roundings,
where the instances are the interesting cases, or wait for the plan below.

## Where code and comments part

`PROJECT.json` lists each with the line quoted, and the constants that reproduce it.
Three are runs:

* `replug`: a configuration refused while connected is kept; after a reconnect the
  replay's refusal counts as a lost link (supervisor.rs 242-248), for ever, and no command is
  drained. `ReplugServes` holds when nothing is refused (`live`).
* `unplug` (`UnplugEnds`): a dongle pulled while its reader is blocked on a full queue.
* `refdb` (`MetaIsWhole`): the metadata file says less than was read from disk when a clear and a job meet.

The others are stated as properties in the modules, in a section of their own
("What the code says of itself and does not do"), and no run checks them. To see one violated, add
it to the configuration with the constants of the finding. Those of `Supervisor` need:

* `ShutdownReturns`: `MCSupervisor_live.cfg` with `Capacity = 2`. `shutdown()` waits for a
  thread that may be in a blocking `send` to the channel only the waiter drains;
  `ShutdownReturnsUnlessBlocked` shows it is the only way not to return.
* `FoldsAtWantedDepth`: `AveragingChoices`, `MaxDepth = 2`, `Capacity = 2`, `MaxUnits = 1`,
  `MaxLoss = 0`. A configuration that arrives during the retry wait does not reset the averager.
* `ShowsEffectiveConfig`: `SafetyChoices`, nothing refused, `Capacity = 2`, `MaxUnits = 1`. A
  `ConfigUpdated` that crosses a newer edit overwrites it in the UI.
* `StopIsHeld`: `MCSupervisor_config.cfg` as it is. A failed stop is reported and the instrument goes on acquiring.

Those of `Vds1022` (`PeakIsHeld`, `RunsWhenOn`, `RateIsHeld`, `PeakIsToldRight`) need the constants that `MCRadio.cfg` gives
that part.

and `UndoIsNotRedone` the configuration of `undo` with `Labels = {a, b}`: when the checkpoint inside an
undo's commit fails, `?` returns before the `truncate` (store.rs 340-342); the inverse's
inverse stays, and later undos can be refused.

## Not modelled

The numeric parts (transforms, demodulation, OFDM, classifiers), the audio codecs,
the simulators, drawing, the command line and the file formats: pure functions over
floating point or bit streams, and pixels. Of the modelled parts, left out are: the store's
lock file (one writer is assumed), temp files of an interrupted `AtomicFile`
(no reader opens them), the v0 migration, the wording of names and tags,
finiteness of numbers; the averager's sums; the FPGA load, the reading of USB
frames and the MULTI port of the scope; the arithmetic of the dongle's tuner registers; the placing of
samples on the timeline's axis; tokens and query texts of the control socket; map
projections. `components` in `PROJECT.json` says of each part what is in and what is not.

## Plan

1. Theorems for what a run already checks: `SessionInductive` for `CatalogApp`'s batches; `SdrTuning`'s
   `ViewInBand` and `HardwareIsTold`; `DabMux`'s `CleanFrameTells`.
2. `Supervisor` over `Vds1022`: the backend's `applied` as the instrument of the supervisor's
   replay, as a refinement of the supervisor's `Apply`.
3. Models still missing: the timeline's axis, the v0 migration, the MCP tools that
   format a line.
