# FusionMaster in TLA+

FusionMaster is a plugin platform in C++/Qt: one process loads plugins from a
profile, and the plugins talk over a message bus, shared services and QML.  This
directory holds TLA+ modules translated from its source, TLC runs that check them
on small instances, and TLAPS proofs that hold for every instance.

`PROJECT.json` maps every definition to the lines it models, lists the runs, the
hazards and the theorems.  Paths below are relative to the repository's root
(`src/` in `PROJECT.json`).

## 1. The system

| Component | State it keeps | Operations | Talks to |
| --- | --- | --- | --- |
| Plugin manager (`src/core/plugin_manager`) | descriptors, runtime entries, runtime order, factories, CTK runtime, service registry | discover, load profile, plan, start, stop, destroy | main, every plugin (start/stop calls) |
| Application (`src/app/main.cpp`) | roots, profiles, UI tree | choose profile, start, show window, aboutToQuit | plugin manager, QML |
| Message bus (prebuilt) | subscriptions | publish, subscribe on main or background thread | everybody |
| Record and replay (`org_common_record_replay`) | recording\_, replaying\_, queue and chunk, session list, replay thread | start/stop recording, writer thread, start/stop/seek replay, remove, clip | bus (all topics in, replay status out), disk |
| Net and serial receivers | replayActive\_, runtimeStarted\_, sockets or port | follow the replay status, receive, publish | bus |
| RTSP pulling (`org_common_rtsp_replay`) | workers, configuration, replay flag | control commands, replay status, workers | bus (background and main thread) |
| RTSP player | streams with queue, worker, decoder, budgets | subscribe, feed, seek reset, stop | bus, painting items |
| History data fusion | raw, filtered and standard records, stage, task, snapshots, outbox | import, filter, staged analysis, archive, publish | disk, bus |
| Data model center and data models | registered models, subscribers | register, subscribe, dispatch, set values | plugins |
| Data repository | connections, transaction depth | open, execute, transactions, batch import | SQL driver |
| Protocol bridges (fast mirror, 55AA, turntable) | receive buffer, device tables, upgrade state, aging timers | parse, publish, upgrade firmware | bus, UDP/serial |
| Device console and registry | device list, selection | register, select, follow | bridges |
| Bus monitor, log viewer | bounded list, pause flag, pending batch | receive, pause, clear, refresh | bus, log |
| Panels, overview, debug assistant, simulator, generator | none that lasts | register a page | |

What makes the system hard:

- **Two threads and plain flags.**  A recording has a writer thread, a replay has a
  replay thread; they share queues, atomics and one plain counter with the main
  thread.  The main thread joins them while it holds up every other event.
- **What arrives later.**  The end of a replay is a lambda posted to the main
  thread's event queue; "started" and "stopped" are bus messages.  By the time
  they are handled another replay may be on.
- **Failures half way.**  A plugin throws in `start()`, a plugin throws in
  `stop()`, a chunk cannot be opened, a write stops in the middle of a frame, the
  close of a file loses what was buffered and nobody looks, a removal stops with
  some of the files gone, `session.json` cannot be written, the process dies.
- **One thread that is not sequential.**  A history analysis advances with a
  timer and one queued step; user actions come in between, a save dialog runs an
  event loop of its own, and snapshots are several files.
- **Orders over graphs.**  The start plan is a topological order of what is left
  of a dependency graph with duplicates, absent names, self-dependencies and
  cycles; it is reversed at the end of the program.

What has to be true, by component:

| Component | Properties |
| --- | --- |
| Start-up planning | selection = closure of the request; plan = a correct start plan; cycle report exact; planning ends |
| Plugin life cycle | a running plugin's dependencies run; both back ends agree with the states; every plugin gets a verdict; nothing survives shutdown |
| Recording | arrival order; honest drop count; exact queue account; session.json covers what a reader of the chunks finds, and is exact unless a close or removal failed unseen; finished sessions stay; stop returns |
| Replaying | in order and in range; nothing owed is left out after any seek; status messages tell the truth; flags do not stick; join returns; receivers come back |
| RTSP pulling | silent during a replay, whatever commands come; workers = configuration once quiet; a replay silences the streams in the end |
| RTSP player | what is selected is there; no queue over the largest budget; nobody sleeps on a packet or a reset; removing a stream returns (does not hold) |
| History fusion | each stage builds on the one before it in the same run; a conclusion is about the records beside it, also on disk; an analysis ends; archived tasks are not overwritten (does not hold) |
| Data models and their center | no entry of a list lost, but to an edit that was read before that entry was written; no reader left with an old value, unless the model it was given was replaced before it read |
| Data repository | no part of an import stored alone; what was answered with "ok" is stored, or shares the end of an open transaction |
| Device console | what is shown is of one device; a command goes to the device the user chose, or a refresh has found that one missing |
| Session list and clips | a clip holds the range it was asked for, whatever fails or crashes, or if a close or removal failed unseen at least nothing else; no deadlock (does not hold without a selection) |
| Frame readers | the frames that come out do not depend on how the bytes were cut; the reader comes to rest (the fast mirror's does not) |
| Firmware download | the frames of the file in order, each once; the progress is earned; "waiting" means undecided |
| Aging test | timers end with their test; once switched off, the drive stays off; the rows shown are those of the table |
| 55AA sensors, turntable | what is written is what is read back; one device gets all frames, with a counter that tells them apart |

## 2. Modules

| Module | What it is |
| --- | --- |
| `PluginGraph` | descriptors, lookup by name, and `IsStartPlan`: what `buildStartPlan` owes its caller.  The abstract specification the next two share |
| `PluginStartup` | the detailed algorithm: `filterPluginsByProfile`, `uniqueSelected`, `buildStartPlan`; shown to produce an `IsStartPlan` |
| `PluginManager` | the life of the plugins as `main()` drives it; starts from *any* `IsStartPlan` |
| `Recorder` | recording: main thread, writer thread, disk |
| `Replay` | replaying: main thread, replay thread, bus, one receiver |
| `HistoryFusion` | the history data fusion analysis: user, stage timer, dialog, files |
| `StreamPull` | RTSP pulling: main thread, control thread, one worker per stream |
| `StreamPlayer` | the RTSP player: bus thread, main thread, one worker per stream |
| `FrameReaders` | the byte streams of the three serial bridges and the loops that cut them into frames |
| `Transfer` | what a firmware download promises: an abstract specification |
| `MirrorUpgrade` | the firmware download of the fast mirror; shown to implement `Transfer` |
| `MirrorAging` | the aging test of the fast mirror: two timers, the drive, the record |
| `SensorSettings` | settings of the 55AA sensors, written and read back |
| `TurntableLink` | the turntable's link: addresses and counters |
| `DataModel` | data models and their center: threads, locks, dispatch |
| `AtomicImports` | what the data repository promises of batches of rows: an abstract specification |
| `DataRepository` | the repository on a shared connection; shown to implement `AtomicImports` |
| `DeviceConsole` | device registry, selection, panels, commands |
| `SessionLibrary` | the session list of record and replay, and clips |
| `ServiceProofs` | theorems and proofs about `MirrorUpgrade`, `MirrorAging`, `TurntableLink`, `SensorSettings`, `DataRepository`, `DataModel`, `DeviceConsole` and `HistoryFusion` |
| `FrameReaderProofs` | the frame readers' theorem and its proof |
| other `*Proofs` | theorems and proofs of the module they are named after |
| `MC*` | instances for TLC |

Some operators are commented "Mutant": each is a plausible wrong version of the
definition below it.  No specification uses them.  `PROJECT.json` says which
property must fail when one replaces its original, which shows that the property
depends on the code.

### 2.1 PluginStartup

| Code (`plugin_manager.cpp`) | Model |
| --- | --- |
| descriptors after `discoverPlugins`, `profilePlugins_` | `discovered`, `profile`, chosen by `Init` from `Scans` and `Profiles` |
| `requestedSet`, `pending` of `filterPluginsByProfile` | one step per plugin taken from `pending`: `TakePending` |
| `descriptorByName` | `LastNamed`: a later descriptor replaces an earlier one |
| `uniqueSelected` in `startPlugins` | `KeepFirst`, one step per descriptor |
| `blockedReasons`, `indegree`, `dependentsByDependency` | `BuildGraph` |
| `ready` | `SeedReady`, `PopReady`, `RelaxDependent` |
| `cyclePlugins` | `ReportCycle` |

A manifest is its name and the *set* of its dependencies; trimming, empty names,
repeated names and `plugin_api` are dropped by the code before they count.
`QHash` order is unspecified, so where the code iterates over a hash the model
chooses any order.  One hazard is the duplicate name: the closure takes the last
descriptor scanned, `uniqueSelected` the first of those that remain.

### 2.2 PluginManager

State per plugin: `state` (the runtime entry), `backend` (who runs it), and
`held`, a history variable: which dependencies were running when it started and
whose services it may therefore keep pointers to.  `phase` is where `main()` is.
One action is one turn of the start loop (`StartByCtk`, `SkipNotBuilt`,
`StartByFactory`, `FailToStart`) or of the stop loop (`SkipNotRunning`,
`StopRunning`).  A plugin's `start()` may fail, its `stop()` may throw, CTK may be
missing or fail to come up, the window may fail to load.  The start plan is any
plan `IsStartPlan` allows; `PluginStartup` shows that the code's is one of them, so
the two modules compose through `PluginGraph`.

### 2.3 Recorder

The main thread is `ui`, the writer thread `writer`.  A step is what happens under
one hold of `queueMutex_` or one call to the disk.  `++droppedFrameCount_` is a
data race: the main thread does it under `queueMutex_` (l. 197), the writer without
(l. 1209), so each increment is two steps (read, then write).  A frame is its
arrival number and size, a chunk file the numbers in it, with `Torn` for the
remains of a write that failed.  `session.json` fields are `meta`.  The clock
counts seconds, because directories are named after the second (l. 52).  A crash
may come at any point; it keeps a prefix of the open chunk, perhaps torn, and
the program starts again.

| Code | Model |
| --- | --- |
| `closeCurrentChunk` (l. 1237) | `Closings`: the close as it should be (`CloseChunk`), and one outcome for each part of the buffered file that may be missing afterwards (`Cuts`), or, if the chunk was empty, for a file that could not be removed: the code looks at neither `flush()`, `close()` nor `remove()` |
| `openNextChunk`, `writeFrame` | `OpenNextChunk`, `Targets`: the chunk the frame goes to, by every way in which the one before it closes |
| `removeRecursively` in `stopRecord` and `removeSelectedSession` | `RemoveDirectory`: any of the files stay, with `session.json` or without; a crash in the middle leaves the same |
| the rest of a session directory | `Leave`: what it holds, and what the history variables know of it |

Two history variables say what only an observer knows: `reused`, the directories recorded
into twice, and `spoilt`, those in which a close has lost frames or left a file it was to
delete, or a removal has stopped half-way.  A directory that is removed entirely leaves both.

Two views of a chunk list are told apart.  `Whole` is every frame whose bytes are all on disk;
that is what the counters count.  `Places` is what a reader gets: of each file what is before
the first torn frame, where `readBinaryFrame` says `Corrupt` (l. 837, l. 1483).

### 2.4 Replay

The main thread is `ui`: idle, or joining the replay thread in `stopReplay`
or in `startReplayThread`.  While it joins, it handles nothing else.  The replay
thread's `replayLoop` has one step per frame read, per end of a wait, and for each
end of a scan; `replayStop_` and `replaySeekRequestUs_` are looked at where the
code looks at them.  A wait is cut short by a seek or a stop or simply ends: since
every wait has a time-out, a missed notification only makes it last, and time
itself is left out.  A frame is its time stamp.  `posted` counts the end-of-replay
lambdas in the event queue, `bus` holds the status messages in order.

The receiver is `handleReplayStateChanged` of `net_receiver_plugin.cpp` (the serial
receiver has the same): it goes down on "started", comes up on "stopped" and may
fail to.

### 2.5 HistoryFusion

Everything runs on the main thread of `history_data_fusion_controller.cpp`; what
interleaves are event handlers.

| Code | Model |
| --- | --- |
| `rawRecords_`, `filteredRecords_`, `standardRecords_` | `raw`, `filtered`, `standard`: the sets of records they hold a copy of |
| `summary_` | `summary`: what the scores were computed from, whether there is a conclusion and an archive mark.  Other keys are notes and left out |
| `running_`, `stageIndex_`, `stageTimer_` | `running`, `stage`, `timer` |
| `QTimer::singleShot(0, ...)` in `startAnalysis` | `kicks`, the first steps still in the event queue; `FirstStep` |
| one case of `advanceAnalysisStage` | `CreateTask` ... `SummarizeResults`, called by `TimerFires` and `FirstStep` |
| nested event loop of `getSaveFileName` in `exportCurrentDataset` | `dialog`: only the timer and queued steps go on |
| `persistTaskSnapshot` | inside each action that calls it; stops at the first file that cannot be opened, or writes files that cannot be read from some point on |
| directories of tasks | `disk`; `damaged` (history variable) are the ones not written whole, `tainted` says that memory was loaded from one of them |

Actions carry the guards of the code and of the buttons that call them: the view
disables import, start, archive, publish, report, reset and the filter fields while
an analysis runs, and not saving, loading or exporting.  A restart may come
at any time.  A snapshot counts three of its eight files, the ones that are read
back for more than display.

### 2.6 StreamPull

Two threads run the same two functions of `rtsp_replay_plugin.cpp`: `startWorkers`
and `stopWorkers`.  The main thread does so in `start`, `stop` and when the replay status
changes, the control thread when a command has changed the configuration.

| Code | Model |
| --- | --- |
| `workers_` | `pool`, the streams that have a worker in it |
| the local `workers` of `stopWorkers` | `stopping[t]`: swapped out by thread `t` and not ended |
| `replayActive_`, `dynamicConfigs_`, `removedStreamIds_` | `replayActive`, `dynamic`, `removed` |
| `workersMutex_` | `lock`, held from `CheckStart` to `SpawnWorkers`; `SwapWorkers` needs it for one step |
| the local `configs` of `startWorkers` | `loaded`: read under the lock, but not under that of the configuration |
| where a call is between two steps | `pc[t]` |
| `runStreamWorker` | `WorkerEnds`; it runs until its flag is set |

`replayActive_` is looked at in the three places where the code does it: after a
command (`Decide`), in `RestartWorkers` and under the lock in `CheckStart`.  Only the last
one is what the properties need: the mutant that leaves it out lets a
restart that was decided before a replay start workers during it.  A stream is
its id, URL and topic; commands that change nothing are only answered and left out.

Two workers may pull one stream for a while: those swapped out are joined after
the lock is released, and the other thread may start new ones meanwhile.  The
properties do not claim otherwise; `PulledAsConfigured` speaks of idle threads.

### 2.7 StreamPlayer

Three kinds of threads in `rtsp_player_controller.cpp`: the bus thread runs
`handleRtspPacket`, a worker per stream `streamWorkerLoop`, the main thread everything
else, one handler after the other.

| Code | Model |
| --- | --- |
| `streams_`, `selectedStreamId_`, `preferredStreamId_`, `preferPacketIntegrity_` | `streams`, `selected`, `preferred`, `integrity` |
| a `StreamState` | an element of `Objects`: `owner`, `stop`, `reset`, `queue` (packets in it), `worker`; free again when nobody refers to it and its thread is joined |
| `queueMutex` | a worker holds it from its test to its sleep (`"drowsy"`); who needs it waits (`Unlocked`) |
| `queueCv` | `"asleep"`; `Notified` wakes, `WakeSpuriously` may |
| where a thread is | `bus.at`, `main.at`, `worker[o]` |
| `resetAllStreamStates`, `setSelectedStreamId`, `removeStreamState` | one step per object and per thing set, cleared, notified or joined; `main.then` says what follows a reset |

Setting `resetPending` is a step, clearing the queue under the mutex another,
notifying a third; setting `stop` and notifying are two, and neither takes the
mutex.  That is the difference between `NoSleeperForgotten`, which holds, and
`JoinReturns`, which does not.  Packets of one stream are told apart by nothing;
dropping for bytes or age is a choice of how many stay.  A stream may be removed
after it was put into `streams_` and before its worker is assigned (l. 987): the
object then goes with a thread nobody joined, and `Abort` ends the program.

### 2.8 The message bus

**What is assumed of code that is not in the repository.**  The message bus is a
prebuilt library.  Its header says that `subscribeWithTopic` calls back on the main
thread; the model takes delivery to be reliable and in the order of publishing.
Frames reach `onBusMessage` on the main thread for the same reason.
`subscribeWithTopicRaw` calls back on a background thread; `StreamPull` and `StreamPlayer`
take it that one callback runs at a time, and that `unsubscribe` waits for one that is running;
the header does not say, and if it did not, a control command could start workers after
`stop` has stopped them.

### 2.9 Device bridges

Five parts of the serial and UDP bridges.  They share nothing but the main thread, and
each of their steps is one event, so `MCDeviceBridges` runs them one at a time.

**`FrameReaders`** works on bytes.  A *wire* is what a device sends: its bytes, and the items they
are, each a frame, a frame with a wrong sum, or noise; with the byte order and the width of the
samples that were set at the bridge (`order`, `bits`) and the order of the device.  The
frames of seven commands of the old protocol are 20 bytes long with 32 bits, and 16 with 16.  `Looks` says what an item of each
kind looks like; no byte of noise, and none behind the header of a frame with a wrong sum,
is the first one of a frame, since the readers have no way to tell such a byte from a
frame and what follows it is lost.  `Read` appends any number of the bytes to `buffer`;
after that, one action is one turn of a loop: `AaIterate` (`consumeFrames` of the 55AA bridge),
`TtIterate` (the turntable's `consumeBuffer`), and `FmEmpty` ... `FmMirror` (the fast mirror's
outer loop with `consumeLegacy` and `consume55AA`).  `got` is what was handed to the
parser, `arrived` (history) the frames received whole.  `Survives` names the weaknesses a read
may meet: in one read, a frame of another kind behind a legacy or 55AA frame of the
fast mirror is lost; a read that ends after the first byte of a header loses that byte; and a
frame of the old protocol's system EAM command begins with 7E E7, which the outer loop takes
for an IAP frame (section 5).
`orderly` (history) says that no read met one.

**`MirrorUpgrade`** is the firmware download: `upgradeRunning_` and its timer, the file, the
progress and the text.  `Verdict` is an answer of the device; it may come between two
ticks, and in the middle of one, since `writeBytes` waits and reads meanwhile.  `Transfer`
is the abstract specification; its `sent` is the history variable `line`.

**`MirrorAging`** is the aging test: two timers, the drive they switch, and the table the
samples go to, on a database that may fail at each statement.  **`SensorSettings`** follows one
setting of an encoder or eddy current sensor through a command, the bytes on the wire,
and the reply to a later read; the device is external and returns the bytes it was sent.
**`TurntableLink`** has the link, the remote address and the counter.

### 2.10 Shared services

`MCDataServices` runs four services that share no state, one at a time.

| Code | Model |
| --- | --- |
| `values_` and `callbacks_` of `DataModelBase` | `item`, `hooks`; one item, a list as the set of its entries |
| `models_` and `callbacks_` of the center | `entry`, `listening`; the models compete for one id |
| a call of a thread | `job[t]`: the read of an edit, its write, the copies of the callbacks, and of each call the reader's `center->model(id)` (`CallReader`) and its `model->value()` (`ReadItem`) are steps; no step holds two locks one after the other |
| `DataRepositoryService` | `inTx`, `dbRows`, `txRows`; calls hold its lock and follow one another, so a step is a call, except that the rows of an import are a step each: the server may drop the link between them.  `open` on a connection that is open makes the schema again (l. 207, 515): `OpenDatabase` may end the transaction with it |
| the driver (external) | MySQL: `Begin` and `CREATE TABLE` commit what is open, a lost link loses it, and the driver connects again after one failure; SQLite: no transaction inside another |
| `refreshState` of the console | `Refresh`: devices, selection, panels and values in one go, with the timer or after a call |
| `adapters_` and the panels of providers (external: they register themselves) | `adapters`, `provided` |
| `sessionList_`, `selectedSessionIndex_`, the two range texts | `sessionList`, `selectedIndex`, `rangeText` |
| `clipSelectedRange` | `ClipSelectedRange`, then a step per source file, per frame and for the end; the program may crash at each, a file may fail to open, a write may fail half way, the close of a file may lose frames unseen (`Closings`, l. 776-787) |
| `removeRecursively` of a session, and of a clip that failed (l. 666, 897) | `RemoveSelectedSession`, `FailClip`: all of it, or `Remainders` |

`AtomicImports` is the abstract specification of the repository.  The refinement mapping
takes `open` to be the answered batches that have rows in the open transaction.

History variables say what only an observer knows: `due` and `clash` (which entries
the calls asked for; of which entries an edit wrote back an old state, since another call wrote
them between its read and its write), `missed` (the reader was not told of the last change),
`overtaken` (the model it read last was not, or no longer, the center's), `picked` and `astray` (which device
the user chose; whether a refresh found it missing), `promise` (what a clip should
hold, and which files of its source could not be opened), `reused` (clips written into the
directory of an earlier one) and `flawed` (clips of which a close lost frames or a removal left
a part).

## 3. Runs

| Run | Question | Instance | Distinct states |
| --- | --- | --- | --- |
| `plugin_startup` | is every start plan right, whatever the manifests and the profile say? | all dependency graphs over three plugins and one absent one, scans with a duplicate, the empty scan; four profiles | 147,319 |
| `plugin_manager` | do start, failure, stop and exit leave things consistent? | three plugins, 19 graphs (three of them cyclic), every set of factories | 363,135 |
| `recorder` | do two threads, a failing disk and a crash keep what was recorded? | four frames of size 1 or 2, queue and chunk limit 2, two seconds; closes that lose frames, removals that stop half-way | 653,257 |
| `replay` | does a replay publish what it owes, and does everybody learn when it is over? | six kinds of session, three time stamps, two replays, two seeks | 451,664 |
| `history_fusion` | does an analysis stay about one data set, in memory and on disk, and end? | two records, two data sets, two filters, one task, two queued first steps | 181,922 |
| `stream_pull` | do two threads that start and stop workers leave the right ones? | one configured stream, two to add | 2,240 |
| `stream_player` | do selection, queues and sleeping workers stay in order whoever comes first? | two streams, two objects, budgets 2 and 1 | 883,804 |
| `device_bridges` | do the protocol bridges lose, invent, repeat or misread anything? | every pair of ten things the fast mirror sends with samples of 16 bits, of three with 32 bits and for the other bridges in five configurations; three frames, three downloads; three aging tests, two rows; 22 requests; two hosts, three frames | 485,330 |
| `data_services` | do the shared services keep what they are given? | two threads, two models, one reader, lists of two entries, five changes; two imports of two rows, two single statements, both drivers; two devices, two panels; one of three recordings, one clip | 1,598,513 |
| `stream_player_stop` | does removing a stream or stopping return? (expected: no, a finding) | one stream, one object | stops at the trace |
| `history_archive` | does an archived task stay as it is? (expected: no, a finding) | as `history_fusion` | stops at the trace |
| `replay_recording` | can one record while a replay runs? (expected: yes, a finding) | as `replay` | stops at the trace |

Every property of the passing runs:

- `plugin_startup`.  `SelectionIsRequestClosure`: what is selected is the request
  and everything it needs that exists.  `PlanIsStartPlan`: the result satisfies the
  abstract specification.  `BlockVerdictsAreExact`: named in the cycle report are
  exactly the plugins on a cycle or behind one, and "missing" is only said of what is
  not on disk.  `PlanningEnds`: under weak
  fairness, because the code is a loop on one thread.
- `plugin_manager`.  `HeldDependenciesRun`: nothing is stopped before its users,
  whatever failed before or throws now.  `BackendsAgree`: CTK's bookkeeping, the
  instances and the states fit.  `EveryPluginHasVerdict`: after `startPlugins` every
  plugin has a state, and the result is true exactly if none failed.
  `NothingSurvivesShutdown`: after `stopPlugins` nothing runs, and exit code 0
  means a clean start.
- `recorder`.  `ArrivalOrderKept`, `DropCountIsHonest` (the race only loses counts;
  it never shows 0 when something was dropped), `StopReturns` (liveness).
  `MetaMatchesDisk`: the `session.json` of a finished recording counts no fewer frames than a reader
  finds, and the reader finds them in order and between its first and last time (`CoversDisk`); if no
  close and no removal went wrong it lists exactly the files and counts exactly the whole frames
  (`MatchesDisk`).  `FinishedStays` (an action property): once its second has passed, a finished
  recording is left as it is, or a removal deletes it or a part of it and changes nothing else.
  `TypeOK` includes that `queuedBytes` is the sum of what is queued, at each step of both
  threads, and within its limit.
- `replay`.  `ReplayedInOrder`, `PassComplete` (a replay that ends by itself has
  published what it owed from where the user last wanted it to be),
  `StatusTellsTruth`, `NoStuckReplay`, `JoinReturns` and `ReceiverComesBack`
  (liveness).
- `history_fusion`.  `StageOutputsAreCurrent`: while an analysis runs, filtered
  records are this data set's under this filter, standard records are the
  filtered ones, scores are of the standard records.  `ResultsFitData`: a
  conclusion belongs to the records beside it, in memory and in every snapshot written
  whole.  `AnalysisEnds` (liveness).
- `stream_pull`.  `NoPullingInReplay`: when the main thread has handled "replay
  started", the pool is empty until it handles "replay stopped", wherever the
  control thread was.  `PulledAsConfigured`: when both threads are idle, the
  streams being pulled are those configured, none during a replay, and no
  swapped-out worker is left.  `FallsSilent` (liveness): a replay that lasts comes
  to be the only source of packets.
- `stream_player`.  `SelectionIsThere`: between two handlers of the main thread a
  stream is selected if any is there, and the one selected is there.
  `NoSleeperForgotten`: if a worker sleeps although there is a packet or a
  reset for it, the thread that put it there is about to notify it.
- `device_bridges`.  `ReadsAreExact`: wherever a stream is cut into reads, exactly the frames
  received whole come out, in order and once, and the reader spins exactly when `Stuck` says
  so; exempt are streams in which a read met a weakness `Survives` names.  `UpgradeIsTransfer`: the
  download implements `Transfer`.  `WaitingMeansUndecided`: "waiting for the device" is not
  shown over its decision, but in the one window where the code does that.
  `CutoffHolds`: timers end with their test; a drive that was switched off stays off.
  `RowsAreTrue`: the rows shown are those of the table.  `ReadBackIsWritten`: a reply shows
  what was written, with the three exceptions of `Misread`.  `OneDeviceInOrder`: all frames of
  a connection go to one device, and each has the next counter.
- `data_services`.  `ReadersCatchUp`: when the threads are done, a reader that was listening
  has seen the item as it is, unless its last read was of a model that had been replaced when
  it read (`overtaken`): the center gives out a pointer, and the value is read later under
  another lock.  `EditsSurvive`: entry by entry, a list is what the calls asked for one after the
  other, but for entries that an edit wrote back as it had read them before another call wrote them.  `ImportsAreAtomic`: the repository implements
  `AtomicImports`.  `ConsoleShowsOneDevice`: row, panels, values and commands are of one device.
  `ClipsAreExact`: a clip holds a prefix of what it should, in the order of the source, all of it
  once it has a `session.json`, also after crashes and failures; of a clip that a close or removal
  spoilt unseen, no frame it should not hold, in order, and no more than `session.json` counts; the main thread hangs only without a
  selection.

Type invariants of modules with a proved one (`PluginManager`, `Replay`, `StreamPull`,
`StreamPlayer`, `HistoryFusion` and others, section 6) are not run again: the theorems say
more.  That of `Recorder` is run and proved: the count of queued bytes in it is no mere type.


**Bounds and why they are enough.**  The planning algorithm works on pairs
(plugin, dependency) and on names; three plugins and an absent name give every cycle
length up to three, a plugin behind a cycle, duplicates of which the first or the
last matters.  Start and stop look at one plugin at a time and at its dependencies;
three give a chain and a diamond's half, the proofs cover the rest.  In `recorder`
a queue and a chunk of two units fill up, overflow and roll with four frames; two
seconds give a reused and a fresh directory; a third second would only repeat
them.  A constraint (`Followed`) stops where a directory is both recorded into twice and spoilt:
`MetaMatchesDisk` exempts a directory that was reused, and what else is claimed of it the
theorems show without the constraint.  In `replay` two replays are what it takes for a posted event to hit the
wrong one, two seeks for a seek during a wait and one too late, and three time
stamps give equal, falling and out-of-range neighbours.  In
`history_fusion` two data sets suffice to mix layers of different origin, the second
filter fails one of them, and a second queued step comes in a run that is not its
own; one task is enough because tasks meet only where one directory is written
twice.  In `stream_pull` three streams give a pool of several workers and commands about
both kinds; the streams meet nowhere but in sets, and the proofs cover any number.  In
`stream_player` two streams are what a selection and a fallback take, and two objects
let a stream come back while its old worker is joined; budgets of 2 and 1 fill up,
and trimming has something to drop.  Streams and objects are symmetric there: the
code treats ids alike (which fallback comes first by name is left open), and the
run checks no liveness.
In `device_bridges` a wire of two items puts every kind of frame behind every other, and
every position of a cut occurs, in as many reads as there are bytes; a longer wire only repeats pairs.
Three frames have a first, a middle and a last; three downloads and tests let a timer
or an answer meet the next but one.  A legacy frame of either width stands before and behind others, E7 frames too.
In `data_services` two threads are what an edit
under another's needs, two entries what one edit can lose of another, and five changes let a model be replaced while a change of it is
told, and between the two steps of a read; two imports and two statements give a transaction with parts of several callers.
One device comes back with another capability, the other is what a console falls back on.
One clip of two files with the chunk limit at one frame rolls, is torn, is made again in the same
second (the last that is followed, a bound in `MCNext`) and removed; time stamps 2 and 3 share a second, 3 lies after its start.
The bounds on arrivals, replays, seeks, tasks and queued steps are guards
named in the modules; with `Followed` and the last clip, which are in the MC modules, nothing else
is cut.  The theorems have none of these bounds.  `recorder`, `replay` and
`history_fusion` check deadlock: with their bounds used up there is still a user
who can start and stop a recording, or restart the program.  Start-up and
shutdown do stop, and so do the pulling plugin and the player, so `plugin_startup`,
`plugin_manager`, `stream_pull` and the player's two runs do not.  Neither do the two runs
of small parts: a device falls silent, a program hangs in a lock (both are findings), and
changes run out.

## 4. Fairness

- `PluginStartup`: weak fairness of `Next`; one thread runs a loop without waits.
- `Recorder`: weak fairness of the writer's steps and of what the main thread is
  in the middle of (`CountDrop`, `FinishStop`).  The operating system schedules
  both, mutexes are held briefly, the writer's wait has a time-out of 100 ms.
  Nothing forces a user to act, frames to arrive, or a disk to work.
- `Replay`: weak fairness of the replay thread (its sleeps have ends), of the main
  thread's return from a join, and of the handling of bus messages.  Not of
  `RunPosted`: the properties do not need it.
- `HistoryFusion`: weak fairness of `TimerFires`; an active `QTimer` fires, also in
  the event loop of a dialog.  Not of `FirstStep`: the timer alone ends an analysis.
- `StreamPull`: weak fairness of what a thread is in the middle of, and of a flagged
  worker's end: FFmpeg asks `interruptRead` (which reads the flag), its time-outs are 3 and
  5 seconds, and the wait to reconnect is bounded.  Taking `workersMutex_` needs no
  more than weak fairness: a thread holds it for two steps and then does something
  else.  Nothing makes a user send commands or a replay begin or end.
- `StreamPlayer`: `FairSpec`, used by `stream_player_stop` only: weak fairness of what
  the bus thread and the main thread are in the middle of, and of each worker,
  but not of a spurious wake-up, which no implementation promises.

The modules of `device_bridges` and `data_services` state no fairness: their properties are
about safety, and the one loop that does not end (section 5) is a state of its own.

## 5. Findings

`history_archive` shows that an archived result is not kept.  `archiveResult` says
that "historical versions stay read-only and traceable"
(`history_data_fusion_controller.cpp`:646; l. 2094 says that overwriting them is
forbidden), but import, demo data and a new analysis keep `taskId_` and write the
next snapshot into the same directory (l. 376, 469, 1028).  TLC's trace has 11
states: import, analyse, archive, import.

`replay_recording` shows that `recording` and a running replay are not exclusive.
When a replay thread ends it posts a lambda that clears `replaying_`
(`record_replay_controller.cpp`:1614-1626) without asking which replay is on.  If
the user stops and starts a replay before the main thread runs that lambda, it clears the
flag of the second replay.  `startRecord` (l. 408) refuses "while recording or
replaying", now accepts, and the replayed frames are recorded.  TLC's trace has
13 steps.  `NoStuckReplay` and `StatusTellsTruth` hold all the same: the flag is
cleared too early, never too late, and receivers go by the messages.

`stream_player_stop` shows that removing a stream can block the main thread for
good.  `removeStreamState` (`rtsp_player_controller.cpp`:909-912) and `stopAllStreams`
(l. 1016-1022) set `stop` and notify without `queueMutex`.  A worker that has evaluated
its predicate (l. 1043-1045) and not yet gone to sleep misses both, and `join` waits
for it.  In TLC's trace a stream is removed just after its worker found
its queue empty.  The window is short, but every packet of a stream ends in it.

Six more were met while modelling; the properties of passing runs delimit them.

- *The fast mirror's reader does not come to rest* (`device_bridges`, `ReadsAreExact`).
  `consumeBuffer` (`fast_mirror_protocol_bridge.cpp`:2225-2250) calls an inner loop that returns on
  an incomplete frame, and goes on while the buffer is not empty.  A read that ends two or
  more bytes into a legacy or 55AA frame, or behind a 55AA frame with a wrong 8-bit sum,
  leaves the main thread there.
- *A button without a session hangs the program* (`data_services`, `ClipsAreExact`).
  `setOperationFeedback` locks `stateMutex_` (`record_replay_controller.cpp`:973), which
  `startReplay`, `removeSelectedSession`, `openSelectedSessionDirectory` and
  `clipSelectedRange` hold when they call it (l. 509, 639, 680, 718).
- *A range nobody has touched is too short* (`ClipsAreExact`).  It is shown and read back in
  whole seconds (l. 1149), so the frames after the last whole second are left out.
- *Edits get lost* (`EditsSurvive`).  The child and list operations of `idata_model.h` read and
  write under two locks (l. 149 and the like), so an edit takes back what others wrote meanwhile.
- *One command of the old protocol is never read* (`device_bridges`, `ReadsAreExact`).  A legacy frame of
  the system EAM command begins with 7E E7.  `legacyFrameLength` and `consumeLegacyFrames` know it
  (l. 1066, 1980), but `consumeBuffer` takes 7E E7 for an IAP frame first (l. 2198), with two
  bytes of a sample as a length.  Only behind another legacy frame in one read does it get through.
  `Survives` exempts every read that meets such a frame.
- *A close that fails is not noticed* (`recorder`, `MetaMatchesDisk`; `data_services`, `ClipsAreExact`).
  `closeCurrentChunk` (l. 1239-1240) and the `closeChunk` of a clip (l. 778-779) ignore what
  `flush()` and `close()` return.  On a disk that is full by then frames are missing which
  `session.json` counts and the drop counter does not.  The two properties say what still holds.

By reading only: the A3 and StepPid frames are 388 bytes cut to 384
(`fast_mirror_protocol_bridge.cpp`:780, 2375), which drops the last value.

Behaviour the models have, no text of the repository contradicts, and a reader should know of:

- Recording: frames behind a torn one in the same chunk are counted and cannot be read (l. 1483).  A
  removal that stops half-way leaves a session that is still listed, perhaps with a `session.json` that
  names files which are gone; one without `session.json` is listed by its files (l. 1040).
- Data models: a reader that is called asks the center for the model and then the model for the value;
  when the model is replaced in between, and the reader was told of the new one before, it ends up with
  a value of the old one, until the next change (`overtaken`).

- Fast mirror: a frame behind a legacy or 55AA frame of another kind in the same read is
  lost.  A verdict that comes between the last frame and the next tick is overwritten by
  "waiting" (l. 1408), one that comes during a write by "sending".  The cutoff timer is
  clamped to `INT_MAX` ms (l. 1640), 24 days, while `agingStopAt_` is not.
- 55AA: with the length order on `auto`, a length from a big-endian device that is plausible
  as a little-endian one, too, is misread (l. 792): all up to 16, and 256 or 258 to 271, for instance.  A protocol number 0 or 1 is taken for an acknowledgement
  (l. 1131) and never shown; a resolution in two bytes is read as a pair if both look like one.
- Turntable: a write that timed out repeats its counter, though it may have gone out; an
  address that does not parse makes the first sender the remote (l. 265); the buffers
  survive a disconnect; a raw frame of less than four bytes is read out of range (l. 311).
- Repository: an import whose commit failed is reported as failed and stays in the open
  transaction, which the next caller may commit; on MySQL an import commits what another
  caller had open.
- Console: when the selected device goes, the next one is selected in silence (l. 713-720).
- Clips: a source file that cannot be opened is skipped without a word (l. 831); one torn frame
  makes a whole clip fail with "no data" (l. 837, 898); a crash leaves half a clip that is listed;
  a second clip in the same second writes into the first, and removes it when it fails.  The
  range of a session begins at its first frame: if the clock was set back meanwhile, what came
  after that and is older is neither replayed nor copied from a range nobody has touched.

## 6. Proofs

TLAPS proves the following for every value of the constants under the named
assumptions in the modules (`ScansAssumption` and the like: finite scans, sets of
the right kind, limits that are numbers).

| Theorem | States |
| --- | --- |
| `PluginStartupProofs!StartupTypeCorrect` | `[]TypeOK` |
| `!StartOrderRespectsDependencies` | in the loop nothing is ordered before a dependency |
| `!StartPlanIsCorrect` | `[]PlanIsStartPlan`: the algorithm implements the abstract specification |
| `!SelectionIsClosure` | `[]SelectionIsRequestClosure` |
| `!BlockVerdictsAreRight` | `[]BlockVerdictsAreExact` |
| `PluginManagerProofs!ManagerTypeCorrect` | `[]TypeOK` |
| `!DependenciesOutliveUsers` | `[]HeldDependenciesRun` |
| `!BackendsStayConsistent` | `[]BackendsAgree` |
| `!StartJudgesEveryPlugin` | `[]EveryPluginHasVerdict` |
| `!ShutdownIsComplete` | `[]NothingSurvivesShutdown` |
| `RecorderProofs!DropReportIsHonest` | `[]DropCountIsHonest` |
| `!FinishedRecordingsStay` | `FinishedStays` |
| `!SessionFileIsTrue` | `[]MetaMatchesDisk` |
| `!FramesKeepTheirOrder` | `[]ArrivalOrderKept` |
| `!QueueStaysInBounds` | `[]TypeOK`: also, `queuedBytes` is what the queue holds and within its limit |
| `ReplayProofs!ReplayTypeCorrect` | `[]TypeOK` |
| `!ReplayMovesForward` | `[]ReplayedInOrder` |
| `!PassIsComplete` | `[]PassComplete` |
| `!ClipsStayExact` | `[]ClipsAreExact` |
| `!StatusIsTrue` | `[]StatusTellsTruth` |
| `!ReplayingIsNotStuck` | `[]NoStuckReplay` |
| `ServiceProofs!FusionTypeCorrect` | `[]TypeOK` |
| `!StagesBuildOnEachOther` | `[]StageOutputsAreCurrent` |
| `!ConclusionsFitTheirData` | `[]ResultsFitData` |
| `StreamPullProofs!PullTypeCorrect` | `[]TypeOK`: also, who starts workers holds the lock |
| `!NoPullingDuringReplay` | `[]NoPullingInReplay` |
| `!PullFollowsConfiguration` | `[]PulledAsConfigured` |
| `StreamPlayerProofs!PlayerTypeCorrect` | `[]TypeOK`: also, no queue exceeds the largest budget |
| `!SelectionStaysValid` | `[]SelectionIsThere` |
| `!NoSleeperIsForgotten` | `[]NoSleeperForgotten` |
| `ServiceProofs!UpgradeTypeCorrect` | `[]UpgradeTypeOK` |
| `!WaitingIsTrue` | `[]WaitingMeansUndecided` |
| `!DownloadIsTransfer` | `UpgradeIsTransfer`: a refinement |
| `!AgingTypeCorrect` | `[]AgingTypeOK` |
| `!CutoffIsFinal` | `[]CutoffHolds` |
| `!RowCountIsTrue` | `[]RowsAreTrue` |
| `!TurntableHearsInOrder` | `[]OneDeviceInOrder` |
| `!SettingsAreReadBack` | `[]ReadBackIsWritten` |
| `!RepositoryTypeCorrect` | `[]RepositoryTypeOK` |
| `!RepositoryIsAtomic` | `ImportsAreAtomic`: a refinement |
| `!EditsAreKept` | `[]EditsSurvive` |
| `!ReadersAreToldLast` | `[]ReadersCatchUp` |
| `!ConsoleIsOfOneDevice` | `[]ConsoleShowsOneDevice` |
| `FrameReaderProofs!ReadersAreExact` | `[]ReadsAreExact` |

How the arguments go:

- **Start plan.**  The indegree of a candidate is the number of its dependencies
  not yet relaxed (those ordered, except the current plugin's users still to
  be visited).  Everything follows from this one fact: an indegree of zero means
  all dependencies are ordered, and one that stays above zero when `ready` is empty
  names a dependency that was never ordered, which is what the cycle report
  promises.  The cardinalities are handled with the finite-set theorems.
- **Selection and blocking.**  While the code walks, everything wanted or needed is selected or
  still queued, and nothing queued or selected lies outside the closure; with the queue
  empty the two meet.  That a plugin reported as part of a cycle really lies behind one needs
  an order: were the waiting plugins free of cycles, the one of them that could be ordered
  first would have an indegree of zero.  "First" exists by the least-number principle, which
  `LeastNumber` derives from the well-foundedness of inclusion on finite sets.
- **Life cycle.**  `PlanInv` says the runtime order is the plan followed by the
  blocked plugins, `LoopInv` what has and has not been reached at loop index
  `at`.  In the stop loop everything above `at` in the runtime order is no
  longer running; dependencies stand lower than users, so the plugin stopped now
  has no running user.
- **Drop count.**  `Kept + dropped + PendingDrops <= arrived - base` is not
  inductive: one increment may overwrite the other with an old value.  `RaceInv`
  bounds the values the two threads have read by what is then in `dropped`, and
  `KeptInv` counts every frame in exactly one place.
- **Finished sessions.**  `ControlInv` relates `active`, the threads and the clock:
  the only directory written to is the active one, and the active one is of
  this second or was active already.  A removal keeps a subset of the files as they are.
- **Session file and arrival order.**  The chunks listed in memory have rising numbers and the
  open one is the last of them, so a frame is appended behind every place there is (`ChunksInv`).
  Every close, open and failed write `Keeps`: frames may be lost between before and after
  (`FewerFrames`: fewer places, the same numbers at them), but then the directory is known to be
  spoilt; otherwise they are the same (`SameFrames`).  So the counters of the session cover what is
  on disk (`CountsCover`), and are exact while nothing was lost (`CountsTrue`).  `DiskInv` puts this
  together with the directories that are finished.  It is not inductive by itself: that what a reader
  finds lies between the first and the last time of `session.json` needs the order of the frames
  (`OrderInv`), and the order of what is written next needs `DiskInv`, so the two are shown together.
  What a removal leaves is found at the same places as before (`LessIsTold`).
  The frames on disk, in the writer's hand and in the queue are one sequence, split in
  three: the number of a frame rises with its place in it.
- **Replay order.**  `CursorInv`: what is published lies behind the cursor, the
  cursor is not before the window, and a frame that is waited for was
  accepted.  Publishing moves the cursor past the frame.
- **Complete pass.**  `Progress`: since the last seek the cursor has been where the user
  wanted it or just behind the last frame that counts, and every frame due below it is
  published, unless a seek is pending, which then is for where the user wants to be.
- **History fusion.**  `RunInv`: a running task starts without results and has
  exactly those of the stages it has passed, so replacing the standard records in
  stage 2 cannot strand a score.  `PersistStep` is one lemma for all writers: a
  snapshot written whole from a memory that fits, fits; every other write
  marks the task as damaged.  `OnlyIssued` says that only tasks with an id have
  files, which a load needs to stay within the ids handed out.
- **Pulling.**  Both properties speak of idle threads, so the invariant says what
  a busy thread owes.  `ReplayInv`: during a replay a pool that is not empty, or
  a lock that is held, is going to be followed by the main thread's swap.
  `ConfigInv`: outside one, the pool is the configuration, or the control thread is
  going to replace it (`Replaced`), or it is empty and a start is under way (`Awaited`).
- **Player.**  `SleepInv` adds the worker between test and sleep: it holds the mutex,
  so its queue is empty, and a reset that is set must still be followed by the
  clearing of the queue, which waits for the mutex and then notifies.
  `SelectionInv` says what holds in the middle of a handler: the selection may be
  empty only while a removed stream is being joined or a fallback is about to be
  selected, and that fallback is still there, because only the main thread removes.

- **Clips.**  While a clip goes well, the frames it has written and those owed before the place it
  is at correspond one to one and in order (`CopiedUpTo`), nothing torn was met but in files
  passed over, and the times and counts it keeps are those of its files (`GoesWell`).  A write
  extends the correspondence by one place, at the end of the last file or in a new one; a
  skipped file takes its frames out of what is owed, before any of them was copied; a failed write
  or a crash cuts it at its end, so that a prefix is left (`Shrinks`).  At the end of the
  source all that is owed is copied.  That a range as shown gives what was promised rests on
  `ShownTime` being monotone (`ShownRangeIs`).  When a close or a removal loses something the clip
  is `flawed` from then on, and the correspondence is only kept as an order-preserving map of what is
  left into what is owed.  That a second clip of the same name is the only way
  out, on `reused`.
- **Frame readers.**  `ReaderInv`: there is a place `s` on the wire such that the buffer is the piece from `s`
  to the last byte received, what was handed over are the frames that end at or before `s`, and
  `s` is the border of two items or lies inside one that is no frame (`Progress`).  Whatever a
  loop looks at is then the beginning of one item, byte by byte (`Looking`), and the checks of the code can be
  read off the format of that item (`IapIsRead`, `LegacyIsRead`, `AaIsRead` ...): a frame is
  taken when all of it is there and `s` moves to its end, noise is passed over without a frame
  ending in it.  `Stands` says what each loop may meet at `s`.  At rest it is the end or an item
  the outer loop waits for.  In an inner loop everything up to the end of the read is of one kind,
  which is what `Survives` is for, and if nothing was consumed since the outer loop entered it, an
  incomplete or damaged frame is in front: the one way into the spin, and what `Stuck` describes.
- **Download.**  `UpgradeInv`: while a download runs nobody has decided, the line carries
  `1..upgradeCurrent`, and the progress is theirs.  Each step is then one of `Transfer`'s, or none
  of its variables change.  Progress needs two facts of integer division, stated as lemmas.
- **Aging test.**  `AgingInv` adds to the three properties that rows are never more than the
  table has, which a delete needs.
- **Turntable.**  The destination is settled no later than the first frame, and the counter is that
  of the last frame sent, or one behind it while a write is not answered.
- **Settings.**  The `j`-th byte of the `i`-th number of a list stands at
  `(i-1) * width + j`, and the digits of a number in base 256 give it back; `Right` says
  that what is kept of an accepted write reads back as it was meant, in either byte order.
- **Console.**  The rank of a device, the number of devices before it under a strict total order,
  is one to one, so the ranks fill `1..n` and the list is well defined.  The selection is what the
  user chose unless it was found missing, and panels and values are rebuilt with it.
- **Repository.**  `BatchInv`: a batch is whole, in the database or in the transaction, but for
  the one that is being imported.  `ImportInv`: that one is alone in its transaction, so
  whatever ends the transaction cannot store a part of it: a commit comes only when it is
  complete.  `TransactionInv`: outside a transaction nothing is pending.  `Lose`, `Keep` and
  `Stay` are then shown to be steps of `AtomicImports` one by one.
- **Data models.**  `CopyInv`: the copy held by an edit agrees with the list in every entry
  nobody wrote since (`StillCopy`), so writing it back loses nothing there.  `DueInv`: a listening
  reader has seen the item, was not told of its last change, read from a model that had been replaced, or
  some thread still owes it a call or is about to read for it (`Owes`).  A reader that reads from the model
  the center has pays everybody's debt; one that reads from another is `overtaken`.  `HookInv`, that the center is
  subscribed exactly once to its model and to each it is still to leave, is what makes a
  notification reach the readers at all.

**Induction.**  The library's induction theorems take an operator as a parameter, which the
provers cannot instantiate.  Two ways round it carry the proofs above: definitions that count
places, ranks or digits where the code loops, so that a step adds one element to a set; and
induction over sets, `LeastNumber`: every non-empty set of numbers has a least element.

**Model-checked only.**  Liveness under fairness (`PlanningEnds`, `StopReturns`,
`JoinReturns`, `ReceiverComesBack`, `AnalysisEnds`, `FallsSilent`) is out of the prover's reach.
Every other property of the passing runs is a theorem.  The wires of `ReadersAreExact` are assumed to be
what `WiresAssumption` says: items of the formats `Looks` describes, one behind the other, and for the
55AA bridge a length order that is the device's or `auto`.  The width of the samples is that of the
device and does not change during a wire; a device set otherwise sends frames the reader cuts wrongly.  The instance of `device_bridges` has such
wires, so TLC evaluates the assumption.

## 7. Not modelled, and why

- Manifest and JSON parsing, library loading, sockets, serial ports, decoding and painting are
  input/output or third-party code.  When FFmpeg hands a picture on, and Qt paints it, is
  not in the source, so the frames an RTSP player shows are left out.
- Speed and progress of a replay change durations and display only.  The RTSP index and
  timeline of a recording or a clip are written beside the chunks under the same control flow.
- The parameter blocks of the fast mirror are fixed layouts of bytes, its angles and the payloads of the
  sensors floating point.
- The catalog, detail, statistics and report rows of the history analysis are display.
  Its outbox is written and its retry only counts; delivery is outside the repository.  What
  `exportCurrentDataset` writes when stages replace the records under its dialog is not followed.
- Plugin-owned services are registered and never removed.  What their objects outlive is
  decided in each plugin.
- Bus monitor and log viewer keep a bounded list on one thread; panels, overview and debug assistant
  register a page.  Simulator and generator are tools outside the program.
- No adapter of a device is registered by code of this repository, so bridges and console
  meet only through what a caller does; they are not composed.
- Vendored code under `src/third_party` and generated files.

## 8. What could come next

The plan of the earlier versions of this document is done: planning, life cycle, recording,
replaying, history analysis, pulling, player, data models, repository, readers,
download, console and clips, with proofs of what the tables name.  Candidates, in order:

1. An abstract `LossyRecording` (arrival order, losses allowed and reported) that `Recorder`
   implements, and a proof by steps, in place of the separate theorems about order and losses.
2. A composition of `Recorder` and `SessionLibrary` over one disk: today the library starts from
   directories `Recorder` can leave, of which the proof uses only their shape.
3. What a reader makes of a stream after a read it does not survive: how many frames such a read costs.
