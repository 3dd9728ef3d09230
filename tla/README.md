# GnssLab in TLA+

GnssLab is a GNSS workbench: it reads observation files and receiver streams,
solves positions (SPP, PPP, LEO, RTK), checks data quality, calibrates and
aligns inertial sensors, and downloads the products the solutions need. This
directory holds TLA+ models of the parts whose correctness depends on order,
failure or accumulated state, the TLC runs that check them, and TLAPS proofs
about most of them. Paths below are relative to `src/`, the root of the
repository; `PROJECT.json` maps every definition to its lines.

Running things, from this directory:

    tlasany TaskPipeline.tla
    tlc -workers 2 -config pipelines.cfg MCPipelines
    tlapm EpochProofs.tla

## 1. The system

### Parts, state and interaction

| Part | Source | State | Operations |
|---|---|---|---|
| Solve task | `app/solvers/common/Task.cpp`, `Core.cpp`, one `Task.cpp` per mode | bounded `obsQueue`, flags `navReady`, `readDone`, `solvingDone`, `stop`, results, error text | `startFile` starts a worker, which starts a reader and a solver and joins both; `cancel`; `waitDone` |
| RTK task | `app/solvers/rtk/Task.cpp`, `Pipeline.cpp` | a second queue `pairQueue` under a mutex of its own | reader pairs two files, solver takes pairs |
| Epoch pairing | `src/solver/DualPair.cpp` | one learnt interval and one look-ahead epoch per station | `observe`, `decide`, `next` |
| Realtime sessions | `app/solvers/*/Realtime.cpp`, `src/client/SocketClient.cpp` | connection, stall clocks, shown error | connect, pump, reopen, stop |
| Transfer | `app/download/Transfer.cpp` | the `.part` file | `downloadFile` (resume, retry), `listDir`, `fetchText` |
| Download service | `app/download/Remote.cpp` | directory cache, scan thread, request queue, workers, counters | `collect`, `enqueue`, `progress`, `shutdown` |
| Versioned library | `app/download/Store.cpp`, `Catalog.cpp` | files, staged files, `index.csv`, the updater's orders and due times | `install`, `active`, `importLocal`, `checkNow`, `setUpdatesEnabled`, `startUpdates`, `stopUpdates` |
| Dated library | `app/download/Store.cpp`, `Panel.cpp` | a directory a day, the index of local files | arrival, unpacking, decoding, listing, search, deletion |
| Product list of a mode | `app/io/Products.cpp`, `app/core/IniFile.cpp`, `PathMemory.cpp` | the list, one derived path a type, the settings file | add, pick, remove, clear, boot, flush |
| Readers | `src/io/novatel`, `src/io/rinex`, `app/core/CRXDecoder.cpp` | the epoch being assembled, lock times, ephemerides, difference arcs | next epoch, resynchronise, load |
| Solvers | `src/solver`, `src/core/CycleSlip.cpp` | filter state, active satellites, ambiguities, arcs | one step per epoch |
| Quality control | `src/qc/QCProcessor.cpp`, `app/solvers/view/QualityControl.cpp` | per-satellite arcs and gaps; dirty, computing and ready flags | feed, finish, snapshot |
| Result page | `app/solvers/view/GuiSolverPanel.cpp`, `GuiPosTab.cpp`, `GuiRefTruth.cpp` | copies of the series, selected epoch, reference coordinates | frame, commit, edit, fetch |
| Inertial tools | `app/tools/ins`, `src/ins` | settings, run state, published result, segments, series | start, stop, fill, accept, export |
| Date and time tools | `app/ui/DatePicker.cpp`, `app/tools/GuiTimeConverter.cpp`, `src/time` | the fields shown | edit, pick |
| Window, CLI, utilities | `app/core`, `app/ui`, `app/cli` | tabs, ini files | frames, commands |

The GUI draws frames on one thread and calls everything else from it. Each task
has its own worker, reader and solver threads (a realtime task: one session
thread) and shares with the GUI only flags, its queue and its results. The
quality view and the inertial tools have a worker each, the fetch of a
reference position a detached thread. The download service adds a scan thread
and workers, the product catalog an updater thread; all of them talk to the GUI
through mutex-guarded state that is polled every frame. Files are the only
state that survives the process: settings, `.part` files, the product directory
with its index, and the directories of the dated products.

### What is hard here, and what correctness means

* **Pipeline of a task.** Two condition variables, flags set under one mutex and
  announced after it, waits that two different threads must end, a GUI that joins.
  Correct: the results are the kept epochs of the file in order, each once,
  within the limit; a short run has a visible reason; every run ends.
* **RTK pipeline.** The same, with waits under another mutex than the flags.
* **Pairing.** A tolerance learnt from the data, gaps, clock offsets, the end of
  the week. Correct: nearest epochs are paired and none that both have is lost.
* **Realtime.** Receivers that refuse, fall silent and come back, two clocks, a
  stop at any moment. Correct: what is shown is true, what is useless is
  reopened, and a stopped session ends.
* **Transfer.** A file put together by attempts, calls and processes that broke
  off, against servers of three kinds. Correct: whole or not there, and never
  stuck.
* **Download service.** A join under the lock the joined thread needs, a drain on
  shutdown, counters changed by several threads. Correct: frames, scans,
  requests and the shutdown all come to an end, and what is shown is true.
* **Libraries.** Two installers, two unpackers, deletion by the user, crashes
  anywhere. Correct: one version is kept, no file that arrived is lost, and the
  library heals by itself.
* **Readers.** Bytes in portions and with damage, two encodings of one epoch,
  continuation lines, cut files, differences against earlier epochs. Correct: what
  comes out is what was written, each record once.
* **Solvers.** A satellite leaves, comes back, slips or is refused while the
  filter is frozen or its update fails. Correct: no ambiguity outlives its arc, and a
  failed epoch leaves nothing behind.
* **Quality control.** Points are judged epochs later and judgements withdrawn; a
  frame, a reader and a worker share one report. Correct: totals and marks agree, and
  the end of the input comes to be shown.
* **Pages and tools.** Incremental copies of what other threads rewrite, settings
  cut by a crash, dates out of range. Correct: what is shown is of one moment, one run,
  one reference.

`PROJECT.json` lists these hazards with their lines; those without a property
say what is missing.

## 2. Modules

| Module | Models | Its runs |
|---|---|---|
| `EpochStream` | what any file solution promises: kept epochs, in order, once, within the limit | used as a property |
| `TaskPipeline` | `Task::startFile`, `fileRead`, `feedToQueue`, `nextObs`, `solveBody`, `finishSolving`, `cancel`, `gcClosingTasks` | `pipelines` |
| `EpochProofs` | theorems about `TaskPipeline`, `RtkPipeline`, `DualPair` and `EphTable` | proved |
| `ReceiverProofs` | theorems about `Receiver` | proved |
| `CopyProofs` | theorems about `Transfer`, `CrxDecoder`, `PlotView` and `AlignSeries` | proved |
| `StoreProofs` | theorems about `ProductStore`, `DateStore` and `ProductChoice` | proved |
| `LiveProofs` | theorems about `Realtime`, `QualityView`, `RefTruth`, `InsRun` and `Remote` | proved |
| `QcProofs` | theorems about `QcStream` | proved |
| `SolverProofs` | theorems about `PointSolve`, `PppFilter` and `RtkSolve` | proved |
| `RtkPipeline` | the RTK reader and solver with `pairQueue` and `pairMutex` | `pipelines` |
| `Realtime` | `startRealtime`, the SPP and RTK sessions, the socket's connect, receive and close | `live` |
| `QualityView` | the quality tab: reader, frames, worker, a task started anew | `live` |
| `Transfer` | `downloadFile` and the renaming of its result | `transfer` |
| `Remote` | the scan thread, the workers and the GUI side of `Remote.cpp` | `remote`, `remote_duplicate` |
| `ProductStore` | `Catalog`'s updater and import, `Store`'s install, index, staging, clean-up | `product_store`, `product_install_race` |
| `Receiver` | `SocketReader` and `BinaryReader` cutting bytes into messages, `LogReader` merging them into epochs | `data`, `receiver_split` |
| `EphTable` | ephemeris records of a log, their snapshots, the table a task merges them into and `EphemerisTable::find` | `data` |
| `RinexObs` | the version 2 and 3 observation readers, line by line, and the opening of RTK's two files | `data` |
| `RinexNav` | `RINEXNavStore::loadFile` and its five loaders | `data` |
| `CrxDecoder` | `CRXDecoder` against the encoder of the format | `data` |
| `DualPair` | `IntervalEstimator`, `decide`, `Pairer`, and the opening of the two files | `data`, `dual_pair_thinned` |
| `PointSolve` | `SPP`: satellites, iterations, rejections, priors, code combinations | `data` |
| `PppFilter` | `PPPStatic` with detectors, gate, `GnssEKF`'s ambiguities; `PPPKinematic` and `LEO` on top | `data`, `ppp_gate` |
| `RtkSolve` | `RTK`: base, views, detectors of both stations, references, float and fixed solution | `data` |
| `Lambda` | `ARLambda::search` and the ratio test | `data` |
| `QcStream` | `QC::Stream`: arcs, outages, slips, outliers, clock jumps, late settlement | `desk` |
| `PlotView` | the result page: commits, sky tracks, chart series, breaks, reference | `desk` |
| `InsRun` | the runs of calibration and alignment with their worker, scale prompt and exports | `desk` |
| `ImuDetect` | `ImuCalibrator::detect` and the angles `calibrate` divides by | `desk` |
| `AlignSeries` | the running mean, the decimated chart series, the export by the second | `desk` |
| `DateStore` | one day's directory: arrival, unpacking, decoding, index, listing, deletion | `desk` |
| `ProductChoice` | the product list of a mode, the paths derived from it, the settings file | `desk` |
| `RefTruth` | the reference position: typed, pasted, fetched by a detached thread | `desk` |
| `Calendar` | calendar, day of year, weeks, leap seconds, directories of a day | used by the next two |
| `DateRow` | the date rows and the calendar that pops up from them | `desk` |
| `TimeScales` | the time converter | `desk` |

The `MC...` modules give the constants of a component values for TLC. Four of
them (`MCPipelines`, `MCLive`, `MCData`, `MCDesk`) put several components side by
side in one run: the variable `component` is chosen in the initial state and says
which of them this behaviour is of; the others stay where one fixed initial state
put them. Nothing passes between components there. The state space is the sum of
those of the components, every component has its own Init, Next and Spec in its
own module, and a property that would say something of a component at rest is
guarded by `component` (`EveryRunEnds`, `DateRowsHold`, `ScaleRowsAgree`). Operators
`XxxStart(input)` are the initial states for one input: `XxxInit` is their union.

Several names are conjunctions, each part being defined with its own comment
in the component's module:

| Name | Parts |
|---|---|
| `EveryRunEnds` | `RunEnds`, `RtkRunEnds` |
| `RemoteSettles` | `ScanServed`, `FrameEnds`, `RequestsEnd`, `ShutdownEnds` |
| `UpdaterServes` | `KickServed`, `StopEnds` |
| `LinkIsTold`, `LinkMovesOn` | `ErrorIsCurrent`, `SocketsReleased`; `LinkStopEnds`, `UselessLinkReopened` |
| `ViewKeepsUp` | `EndIsShown`, `NeverOlder` |
| `LogIsDelivered`, `EpochsAreSound` | `ChunksDoNotMatter`, `NoRecordLost`; `FileOneEpochPerStamp`, `RangeBeforeCompressed`, `SlipFlagged` |
| `PairingIsRight` | `PairsAreNearest`, `CommonEpochsPaired` |
| `EphServedThen` | `EphServed`, `EphNotFromLater` |
| `QcReportAgrees`, `QcJudgesAll` | `QcCountsAreMarked`, `QcOneShot`; `QcLagBounded`, `QcJumpsFound` |
| `PlotIsConsistent` | `PlotCopyIsWhole`, `PlotSelFollows`, `PlotOneReference` |
| `LibIsSound` | `LibNothingLost`, `LibObsShownWhole` |
| `ProdChoiceIsRight` | `ProdChosenIsBest`, `ProdComesBack` |
| `CivRowsHold` (in `DateRowsHold`) | `CivPickKept`, `CivDirsHold` |
| `RefIsKept` | `RefOneAnswer`, `RefFailureKeeps` |
| `InsRunIsHonest` | `InsShownIsCurrent`, `InsBlankIsPassing`, `InsReportIsWhole`, `InsRunsAsLongAsItSays` |

`TypeOK` is the type invariant that the runs check and the proofs rest on.
`RtkTypeOK`, `DualTypeOK`, `TransferTypeOK`, `RemoteTypeOK`, `StoreTypeOK` and
`LinkTypeOK` are parts of the proved invariants of their modules, `ReceiverTypeOK`
follows from that of its own; `QcTypeOK` is there to be added to a cfg.

### How state and actions correspond to the code

* **TaskPipeline.** Variables carry the names of the members they stand for;
  `rd`, `sv`, `wk`, `ui` are the places of the four threads. An epoch is its place
  in the file. A wait on a condition variable is three steps (`FeedBlocked`,
  `FeedSleep`, and the wake-up that the notifier performs through `RdAwake` or
  `SvAwake`), because a notification that comes between the test and the sleep
  must be able to get lost: that the mutex is kept in between is what saves
  the code, and the model says so with `queueMutex`. Reading may fail at every
  epoch, the solver may refuse to start or throw at any epoch, and the user may
  cancel or close the tab at any point. A RINEX source is exhausted (`Exhausted`) at
  `kMaxEpochs` calls as it is at the end of its file; that of a log is not.
* **RtkPipeline.** The same vocabulary; `pairMtx` is the mutex of the waits,
  `WakeMutex` the empty critical section of `wakeQueues`. Its reading ends with either
  file, with an exception of either RINEX parser, which `makePull` turns into the end of
  the file, and with `realtimeSec` where the run was given one (`rtkTimed`); `rtkCut`
  remembers which of these left pairs unread.
* **Realtime.** `linkPc` is the place of the session's thread. Time is `Tick`s; a
  blocking call ends at once or by its time limit. `LinkChange` is the receiver:
  refusing, silent, sending, sending what cannot be solved. The session's sleeps are
  steps that a stop cuts short where the code polls it.
* **QualityView.** `Reading`, `Framing` and `Working` are the three threads; a stream
  is the run it belongs to and the number of epochs fed. Locks are kept for
  single steps only, as in the code, so every section is an action.
* **DualPair.** Times are whole numbers of a quarter of the sampling interval,
  taken modulo the week as the code's seconds of week are. `base` and `rover` are
  the look-ahead epochs; `stepBase`, `stepRover`, `Pair`, `BaseEnds`, `RoverEnds` are
  the outcomes of one turn of `Pairer::next`.
* **Transfer.** A file is a sequence of chunks `<<version, place>>`; the `.part` is such a
  sequence too, so a doubled, missing or foreign chunk is visible. The server is external:
  FTP (resumes; refuses beyond the end), HTTP with ranges (206, or 416 at and beyond the
  end, which libcurl lets pass for success when the request was a resumed one) and HTTP
  without (sends all again; libcurl refuses to resume). Judging an answer follows the
  order of the code's tests.
* **Remote.** A request is followed by its number from `queued` to `over`. Workers
  that wait are alike and only counted; since every change of the predicate of
  `dlCv` is made under `dlQmtx` before the notification, a wait is a guard. `mtx` is
  variable only where somebody keeps it across a blocking call, which is
  `ensureScan`'s join.
* **ProductStore.** `index` is `index.csv`; `disk` says for every file name whether it is
  absent, torn or holds a release. `up` and `im` are the updater's and the import's place
  in `checkOne`/`install` and `importLocal`/`install`; both use the same operators
  `copyBegins`, `copyEnds`, `writeIndex`, `dropStale`. While a copy runs its target is
  open and cannot be replaced or removed by the other (the program is built for Windows).
  `dropStale` may fail to remove any of the files it is to remove; `left` is a history of
  what the last clean-up of a product left behind. `Restart` may happen between any two
  steps and loses all that is in memory.
* **Receiver.** A cell stands for a few bytes: a frame is three sync cells, a header
  that declares the length, and a body; `CrcOk` compares with the cells that were
  sent. `arrived`, `buffer` and `bufferIndex` are the socket or file being read; the
  searches of the two readers are `SocketScan` and `BinaryScan`, and differ as the
  code does (a file's declared length is believed, and its check sum is looked
  at after the cursor has moved on). `log` holds the members of `LogReader`; a
  value of an epoch is the number of the record it was taken from. Each action
  is a turn of `getNextEpoch`'s loop, before which any number of cells may have
  arrived. A record of the inertial unit must end inside the buffer, as
  `acceptInsRecord` asks. `got` and `delivered` are histories for the properties, and the
  properties' own operators over them (`FramesFrom`, `ObsOf`, `Merged`) are written as
  functions with one equation a step, so that they can be reasoned about.
* **EphTable.** An ephemeris is its reference time and health. The reader runs ahead by
  the queue's depth; the snapshot is an immutable value, as the shared pointer is.
* **RinexObs, RinexNav.** A line is what the readers ask of it: its kind, and of a
  row whose it could be taken for. Every `getline` of the code is one line taken
  from the rest of the file; an exception ends the reader or the load, with the callers'
  handling of it.
* **CrxDecoder.** Numbers are kept in the code's two parts with its carry. The
  encoder is the format's, written down as `CrxEncode`; the decoder's `out` must equal
  what was encoded. In version 1 a blank has no flag, in version 3 it may have one.
* **PointSolve, PppFilter, RtkSolve.** A number is the place it comes from (the
  epoch that estimated it, the arc it belongs to), a test on numbers is an outcome the
  epoch brings. What the code does with the outcome, in which order, with which early
  return, is kept: which satellites are used, which states are created, reset, frozen,
  read back, and what the next epoch finds.
* **Lambda.** Ambiguities are whole multiples of a small fraction of a cycle, so every
  number of the search is exact; one action is one turn of its loop.
* **QcStream.** The verdict of each threshold comes with the value, and is used only
  where the code makes the test; `settled` and the ring of late epochs are the code's.
* **PlotView, RefTruth.** A point is the epoch it belongs to and the reference it is
  relative to. A frame is cut into the sections in which it holds a lock.
* **InsRun.** One action per lock section of GUI and worker; the flags the worker sets
  outside the lock (`accelReady`, and `hasResult`, `loading` and `state` at its end) are
  steps of their own, and `InsFrame` is what `renderResult` copies under the lock and
  makes of it. The files and the local gravity are set on a page that is drawn in state
  Config only, before a tab's first run (`GuiSolverPanel.cpp:250`), so no run sees them
  change. **ImuDetect** works on runs of samples of one class, one absorption a step;
  **AlignSeries** on single samples.
* **DateStore.** A file has three forms (archive, compact, plain), each absent, torn
  or whole. A step is what `decompressIfNeeded` does between two points at which a
  failure or the end of the process can be told apart.
* **ProductChoice.** A product is what its name says to `ProductMeta::parse`; the
  settings file is a sequence of keys of which a crash leaves the beginning. The rank
  of a file is the number of those that the sort puts before it.
* **Calendar, DateRow, TimeScales.** The arithmetic is the code's own, on whole
  seconds. Years, months and days are those a user can type, in and out of range.

## 3. Runs

| Run | Instance and bounds | Shows |
|---|---|---|
| `pipelines` | a file of 4 epochs, one decimated, a log or RINEX with a cap (`kMaxEpochs`) of 4 calls, which the end of a file of 4 epochs would take 5 to reach, queue of 2, limits 0, 1, 2; 5 pairs (one decimated, one unsolvable), queue of 1, limits 0, 1, 2, with a time limit and without | the queues fill, drain and are quit in every way; refinement of `EpochStream`; explained short runs; every run ends, every closed tab is collected |
| `transfer` | a file of 2 chunks replaced by one of 3 and that by one of 1, 2 attempts a call (the callers use 3) | the local file adds up; nothing blocks it for ever |
| `remote` | 2 directories, 2 files, 2 requests, 2 workers a request (the code has 4) | counters, scans, frames, requests and shutdown |
| `product_store` | one product, its newest release and the unversioned fallback, one crash | one version kept but for failed removals; orders served; stopping joins; what crashes, failures and removals by hand have damaged is replaced by the newest release |
| `live` | a session of each mode, limits of 1, 2 and 3 ticks; a task started twice, 3 epochs a run | a shown error is current, sockets are released, stopping ends, a useless link is reopened; the view shows the end and never goes back |
| `data` | see below | readers, tables, pairing and solvers on all their inputs |
| `desk` | see below | reports, charts, tools, dated library, product list, dates |
| `dual_pair_thinned` | an interval given that is twice the sampling interval | expected violation, see section 6 |
| `remote_duplicate` | as `remote` | expected violation |
| `product_install_race` | as `product_store` | expected violation |
| `receiver_split` | as `data`'s logs | expected violation |
| `ppp_gate` | as `data`'s PPP | expected violation |

Inputs of `data`, by component:

* logs: every content of three records (two formats, two time stamps, five signals; the
  third always a full record), a mixed sequence of seven messages, and every single
  damage of 13 cells; all portions of arrival.
* pairing: at least 4 epochs of 7 of one station, two shapes of the other, offsets of 0,
  1/4 and 1/2 interval, both file formats, over the end of the week.
* observation files: three records of up to five satellites, one of a system that is not
  used, with an event between, whole and cut between any two lines; 2 satellites a
  line and 2 values a row for the format's 12 and 5, so that both wrap.
* navigation files: three records of any system, with and without added lines, at the
  start, the middle and the end of a week of 8 parts; every cut of two records.
* ephemerides: three epochs with up to two messages between them, a validity of 2 units,
  a queue of 2, files of this day, another or none.
* compact files: 4 epochs of two satellites that come, go and change places, numbers of
  both signs around a carry at 10 (100000 in the format), differences of order 3, both versions.
* SPP: three epochs of up to five of seven satellites of three systems, at most one of
  them low, without ephemeris, outlying or on one band; three iterations (15),
  inter-system biases estimated.
* PPP: any number of epochs of three satellites with at most one event each; a wide lane
  mean of 2 points (5), a warm-up of 1 epoch (30), 3 satellites for a first position (4).
* RTK: any number of pairs of five satellites, one geostationary, with one thing wrong
  with one or two of them; a wide lane mean of 1 point (5), arcs of 3 points (6);
  `RtkEphMax` bounds how often the ephemeris table grows.
* integer search: two and three ambiguities, half a cycle and ties among them, strong and
  weak levels; `LamLoops` of 25 turns stands for `LOOPMAX` and is not reached in a search
  that ends; all vectors of -2 .. 2 are compared with.

Inputs of `desk`:

* quality: three satellites over seven epochs, a clock jump anywhere or none, two other
  events anywhere in one series; the interval given, or twice as long as the rate, or none.
* charts: 3 epochs with and without a solution, one change of the reference, every
  interleaving of commits with frames. `PlotEarlyEdits = FALSE`: the user changes the
  reference after there is one (section 6).
* inertial tools: four lists of files (known, doubled, unlisted, unreadable), three runs
  (`InsMaxRuns`), each of the two tabs.
* detection: up to three rests and turns with knocks between them, all longer than the
  shortest segment of 3; series: 10 samples, a window of 2, a buffer of 2 points.
* dated library: one observation file and one product, 2 downloads (`LibMaxLoads`), one
  crash, failed opening, write or removal (`LibMaxFaults`) at any step (the theorem is
  about any number; `LibObsShownWhole` itself speaks of the first); `LibFlushLoses =
  {FALSE}`: closing a restored file does not fail silently (section 6).
* products: two orbits of equal rank, a navigation file, a grid; a crash in any flush.
* reference: two tabs, two fetches, one edit, one transfer that breaks off (`RefMaxFetches`,
  `RefMaxEdits`, `RefMaxBreaks`).
* dates: four start dates around leap days and year ends, typed values inside and outside
  a field's range, three clicks (`CivMaxClicks`); converter: four clock readings at ends of
  hours, days, months and years, three edits (`TimMaxEdits`) by one, months up to one
  beyond their range. Numbers stay far inside the 32 bits the fields have.

Why these bounds are enough to be interesting: a queue of one or two is full, empty
and partly filled within four epochs; limits of one and two are reached with
epochs before, in and behind the queue; two attempts have a first, a last and a
retry between them, and the `.part` outlives calls and processes anyway; two
requests suffice for two workers on one file, and two workers a request leave
some without work. One product is enough because the updater takes products one
after the other and shares no file between them; one release and the fallback
give both orders of an upgrade. Three records are the least in which a time stamp has
two formats and a neighbour, and two frames on either side of a damage show
whether the reader finds its place again. Three clocks with limits 1, 2, 3 keep the
order of the code's 5, 10, 30 and 120 s, in which alone they are compared. Counts that
must be reached before a test is made are lowered so that it is made within the
epochs of an instance, before and after a break. `MaxEnqueue`, `MaxCrashes`, `MaxPart`,
`MaxRuns`, `MaxFed`, the names above and the lengths of the inputs are the only bounds
that the code does not have. The filters have no bound on epochs: their states are finite.

The runs that end with their input (`data`, `desk`, `live`) switch off the deadlock check:
a file that was read, a session that is over and a tool at its bound really stop.

### Fairness

Threads are scheduled, so every thread's step relation is weakly fair.
Beyond that only what the code bounds is assumed:

* `Transfer`: libcurl returns (its connect timeout and the low-speed limit of 180 s
  bound every attempt); a transfer that is tried again and again from the same
  offset succeeds at last (strong fairness per offset), and so do opening and
  renaming files. No fairness for `Republish`, `Restart` or `shutdown`.
* `Remote`: `listDir` returns and at last does not throw (strong fairness of
  `ScanList`); the user does nothing that has to be done.
* `ProductStore`: the updater, the import once begun and the join run on; time
  passes (`FallsDue`). `Converges` speaks only of behaviours in which users, failures
  and crashes leave the updater alone from some point on, and says so in
  `Undisturbed`.
* `TaskPipeline`, `RtkPipeline`: the reader, the solver, the worker and a frame of
  the GUI run on. The user never has to cancel.
* `Realtime`: the session's thread runs and time passes (every blocking call of the
  socket has a time limit). Nothing is assumed of receivers.
* `QualityView`: frames are drawn, the reader and the worker run. The task need not be
  started again.

## 4. Proofs

Each theorem is about every value of the constants of its module, within the named
assumption that stands beside their declaration; TLC evaluates these on its instances.
Hardly any of the properties is inductive. What each proof adds to them:

| Module | Theorems | What the inductive invariant adds, and why |
|---|---|---|
| `TaskPipeline` | `PipelineTypeOK`, `ShortRunExplained`, `PipelineImplementsStream` | `IInv`: which threads exist when (`Lifetimes`), that the queue holds exactly the epochs between the solver's last and the reader's last (`QueueOrder`), what each thread holds outside it (`ReaderHand`, `SolverHand`), that a flag is raised only by a thread that has left its loop, and why it left (`FlagsTell`, `ReasonsKept`) |
| `RtkPipeline` | `RtkPipelineTypeOK`, `RtkShortRunExplained`, `RtkPipelineImplementsStream` | the same with two mutexes; as the decimator drops pairs, queue neighbours are not file neighbours, so the invariant says where each kept pair is: committed, queued, in the reader's hand, or let go of with a reason |
| `DualPair` | `PairingIsAlwaysRight` | what an estimator can have learnt from the epochs read (with one sample too few, nothing), and that a common epoch not yet paired is still ahead in both files, over the end of the week |
| `EphTable` | `EphemeridesServedThen` | that the snapshot of every queued epoch tells of each satellite the last that the log had said before it, and that the task's table has all of the files and, of the log, only what precedes every epoch still queued |
| `Receiver` | `ReceiverTypes`, `LogIsAlwaysDelivered`, `RangeAlwaysFirst`, `EpochsStaySound` | first `Reading`: the buffer shows the cells behind one place of the input (`Holds`, `ReadOK`); the frames of the cells received are those read so far followed by those behind that place (`FoundOK`); the records read are those of the epochs handed out, waiting and being collected, each epoch with its values from the promised records (`LogOK`). Then `Sound`, which needs the order of time: the lock times held are the lowest of the latest stamp before and of the current one (`LocksOK`), so every slip of an epoch is flagged in it (`FlagsOK`), and a file's epochs have rising stamps (`SingleOK`) |
| `Transfer` | `TransferIsTyped`, `FinishedFileAddsUp`, `UnreplacedIsWhole` | what a `.part` can hold between any two calls: with a resuming server every chunk in its place, older contents before newer ones; with another one anything, but then not finished. That a finished file is the server's needs one hypothesis more, that it was not replaced since its first chunk came (section 6) |
| `CrxDecoder` | `RowsAsOriginal`, `CompactIsAsOriginal` | that the decoder holds the arcs the encoder wrote from, number for number, the clock's in the opposite order. The lemmas carry the weight: the sums undo the differences (`SumsUndo`, `ClockUndo`); two parts, a carry and one sign print the number they make (`PlusIs`, `FieldPrinted`, `ClockPrinted`) |
| `Remote` | `RemoteIsTyped`, `IdleIsSettled` | what each counter counts: the requests at certain places of their way; that a waiting request is in the queue, and once; how many workers there can be |
| `ProductStore` | `StoreIsTyped`, `OneVersionIsKept` | besides one settled file and what a clean-up could not remove, one of each installer that has yet to clear away the old ones; a copy in progress is torn. It is stated of any two installers, so each step of `install` is one lemma for updater and import |
| `DateStore` | `LibLosesNothing`, `LibraryIsSound` | for each step of the unpacking tool, what is whole then; that a frame which holds the tool deletes nothing; after the first fault, that each torn observation file has a whole form which the listing has still to come to |
| `ProductChoice` | `ListComesBack`, `ChoiceStaysRight` | clean settings are the file's; a list, kept, remembered or on disk, has each file once (a path cut short may be there again); each type's fields in use are those derived from the list. That the ranking is an order of all files is a lemma (`RankIsOrder`): the numbers of files ahead are different and fill an interval |
| `Realtime` | `LinkIsToldAlways`, `SessionsEndInOrder` | what is said and held at each place of the session's thread |
| `QualityView` | `ReportsNeverOlder` | that what the worker still holds in its hand is not older than what is shown, and that a reset belongs to the run it was for |
| `QcStream` | `QcTypeCorrect`, `QcReportAlwaysAgrees`, `QcJudgesEveryEpoch` | how far each series has been looked at. Of T epochs all but two are settled and all but one judged (`Placed`); the statistics are counts over the settled points, no mark of which changes any more (`Exact`); the totals are the points marked (`Counted`); a judged epoch in which all jumped is marked (`JumpFound`); the ring says where the points of the last four epochs stand (`RingHolds`). The stream keeps no times of its epochs, so the invariant says that there are such times, the receiver's interval apart or more (`Clock`) |
| `RefTruth` | `ReferenceIsKept` | where each coordinate, each copy a frame holds, and the temporary file come from |
| `InsRun` | `InsRunsAreHonest` | what is published, asked, counted and told to the tab at each place of the worker, over several runs; a frame's blank rows are possible at one of these places only |
| `PlotView` | `PlotCopyStaysWhole`, `PlotStaysConsistent` | that a copy of the present generation is a beginning of the series, cut at one epoch for every satellite, and one of the present revision all of it; that whoever changes the reference, and every point drawn, has one |
| `AlignSeries` | `AliPointsStayRegular` | how far the buffer reaches into the series: to within one stride, so that the next point is kept just when the counter stands at the buffer's length times the stride. The rows follow from the times of the series, which are in order |
| `PointSolve` | `FailuresLeaveNoTrace` | nothing: this one is inductive as it stands, over every exit of an iteration |
| `PppFilter` | `SlipsAlwaysReachFilter`, `GateStarvesNoEpoch` | an ambiguity opened in an epoch that was then not used is of a satellite that has to come back, or is opened with all others in the next |
| `RtkSolve` | `ArcsStayUnbroken` | that the counts and jumps of both detectors lie within the unbroken run of pairs of the satellite |

A proof that a step preserves an invariant has one case per action, and lemmas
where several actions do the same. Refinements (`ImplementsEpochStream`,
`RtkImplementsStream`) are proved from the invariant with one case per step that changes
what `EpochStream` sees.

Hypotheses. The assumptions on the constants say what the code guarantees of them:
`PppSpaced` that a given interval is also the one the file is thinned to (`Decimator.h:11`
keeps what is within 25 ms of its multiples); `RtkAssumption` of `RtkSolve` that a wide
lane mean needs fewer points than an arc (5 and 6 in the code); `InsAssumption` that a run
has a file (`GuiInsCalib.cpp:46` and `GuiInsAlign.cpp:36` refuse none); `RemoteAssumption`
that there is something to download; `RealtimeAssumption` that a warning precedes
reopening; `QcAssumption` that a receiver gives no two epochs closer than its own interval
(gaps of any length are in, but where no interval is given, of less than the 10000 s up to
which the code learns one, `QcSeedSpan`), and that `kSettleLag` is 2; `InputsAssumption`
of `Receiver` gives a log its shape (cells over a small alphabet, lengths not below the
header's) and says nothing of damage, order or completeness; `EphAssumption`,
`CrxAssumption`, `DualPairAssumption`, `TransferAssumption` and the rest give inputs their
types. Three modules' theorems have a hypothesis besides, which excludes a deviation
listed in section 6: those of `DateStore` that closing a restored file does not fail
(`LibFlushLoses = {FALSE}`), `CompactIsAsOriginal` that no clock is negative with nothing
in its lower digits (`ClocksPrintable`; `RowsAsOriginal` does without it), and
`PlotStaysConsistent` that the user changes the reference only after the first solution
set it (`~PlotEarlyEdits`; `PlotCopyStaysWhole` does without it). `EpochsStaySound` has as
its hypothesis that the frames standing undamaged in a log carry their records in the
order of their time stamps (`RecordsInOrder`), as a receiver logs them and as every input
of the run `data` does: `LogReader` remembers one stamp, so in a file that goes back in
time one stamp really gives two epochs. The precedence of RANGE does not need it
(`RangeAlwaysFirst`), nor does `LogIsAlwaysDelivered`. `PppSlipsReachFilter` itself speaks
only of runs with the interval given and no ambiguity kept over breaks (`Strict`).

Two arguments recur. Where the code takes the first or nearest of something, the model has
a CHOOSE of a least element, which `LeastNat` (from the well-foundedness of the naturals)
shows to exist. Where it works up or down an index, the model has a function defined step
by step; `StepsExist` and `StepsStay` show, by a least counterexample, that there is one
and that it stays in a set its steps do not leave.

Model-checked only:

* liveness (`EveryRunEnds`, `RemoteSettles`, `UpdaterServes`, `Converges`, `LinkMovesOn`,
  `ViewKeepsUp`'s `EndIsShown` and that of `Transfer`): the prover does not handle
  fairness;
* what a fold or a recursive definition computes from data: `RinexObs`, `RinexNav`,
  `ImuDetect`, `Lambda`, the calendar and the time scales. The step
  functions of `CrxDecoder` and `Receiver` are within reach because each has one equation a
  step and something to compare with that is simpler than itself; these have nothing such.

## 5. Not modelled, and why

* **Floating-point estimation** (normal equations, filter updates, troposphere, orbits,
  coordinate transformations, attitude): no finite instance on which checking would
  say anything. What the code decides from the numbers is modelled, the deciding tests
  being outcomes of the input.
* **Text formats**: columns, units, spelling of product names, the pages that name a
  release, the ASCII log's framing, the report's layout, the keys of settings.
* **Product readers** (SP3, clock, antenna, VMF3, DCB): tables read once and
  interpolated; no state afterwards.
* **Probing of the inertial layout** of a log: a score over floating-point readings.
* **Drawing**, panels without state of their own, the coordinate converter, the least
  squares page, logging.
* **Command line**: it starts the same tasks and waits for them.
* **Third-party libraries** and the binaries under `bin/`.
* Within the modelled parts: the decorrelation before the integer search, the size
  shown beside a listing, the solve loops of LEO and the kinematic mode (their queue
  is that of `TaskPipeline`), values of an observation other than those the
  properties tell apart.

## 6. Disagreements found

* `dual_pair_thinned`: `gnss.ini` and the parameter page call `sample_interval` a
  thinning interval, but `rtk/Pipeline.cpp:40` gives it to the pairer, where it
  sets the pairing window. With an interval above the data rate a rover epoch is
  paired with a neighbour although the base station has the very epoch.
* `remote_duplicate`: `downloadingOf` promises true for a file that is being
  downloaded. A file enqueued twice is hidden when the first of its two
  downloads ends; the two also write to one `.part`.
* `receiver_split`: `LogReader.cpp:231` says that records of one time stamp must become
  one epoch, or two epochs of the same time are delivered. A socket that is
  drained between a RANGE and its RANGECMP does exactly that.
* `product_install_race`: `dropStale` clears "leftovers of an old version", but runs
  outside the lock under which the index is written. An import that finishes
  between the updater's index entry and its clean-up loses the installed file.
* `ppp_gate`: `PPPStatic.h:260` calls the set the gate fills "the satellites judged gross
  in this epoch". A satellite once kept out is read back as zero, so its phase misses by
  its whole ambiguity ever after, and it stays out until its arc breaks.

### Deviations without a run of their own

Each is stated in its module and fails when the change named here is made to a cfg; they
are kept out of the passing runs by the input or the constant that avoids them.

| What | Where | To see it |
|---|---|---|
| A RINEX file of `kMaxEpochs` epochs (200000) or more ends there like a file that ended, with a warning in the log only; the cap is there to stop a parser that never reports the end. | `solvers/common/Task.cpp:16`, `:29` | `pipelines.cfg`, INVARIANT `CapStopsRunawaysOnly` |
| `realtime_sec` is documented as a limit of realtime runs; RTK's reader of two files asks the same test before every pair, so a slow run is cut by the clock and looks finished. | `cli/gnss.ini:131`, `solvers/common/Task.cpp:173` | `pipelines.cfg`, INVARIANT `RtkClockSparesFiles` |
| A transfer is resumed by size alone: a file replaced on the server in between comes out as the beginning of the old and the rest of the new one. A part as long as the new file or longer is called finished on libcurl's word; the code's own test of 416 (`:319`) is not reached, as libcurl takes a 416 to a resumed request for success. | `download/Transfer.cpp:275` | `transfer.cfg`, INVARIANT `ResumedIsTheFile` |
| A realtime task of a mode without a session ends with neither `done` nor an error. | `solvers/common/Task.cpp:276` | `live.cfg`, INVARIANT `EndIsReported` |
| A version 2 row whose first value could be a satellite's name is taken for one. | `RINEXObsReader.cpp:13` | `data.cfg`, `RnxFiles <- Rinex2Files` |
| A navigation record whose transmission time is written within its own week is dated a week off. | `RINEXNavStore.cpp:210`, `:444` | `data.cfg`, `NavFiles <- HowFiles` |
| A negative clock whose lower part is zero is written one upper unit off. | `CRXDecoder.cpp:295` | `data.cfg`, `CrxEpochs <- WholeClocks` |
| The prior of the inter-system biases may compare clocks of two epochs, against the comment above `mPrevClockBias`. | `SPP.h`, `SPP.cpp` | `data.cfg`, INVARIANT `PtPriorOneEpoch` |
| In the hour around a leap second the four rows name two instants. | `TimeConvert.cpp:38` | `desk.cfg`, `TimNows <- MCTimLeaps` |
| A restored file whose closing fails is taken for written, and its archive removed. | `Store.cpp:516` | `desk.cfg`, `LibFlushLoses = {TRUE}` |
| A file deleted while a worker is unpacking it is entered in the index afterwards, and stays there. | `Store.h:84` | `desk.cfg`, INVARIANT `LibIndexFollowsDelete` |
| A navigation file that an observation brought is in use although the list, which is to decide, does not hold it. | `Products.cpp:57` | `desk.cfg`, INVARIANT `ProdListDecides` |
| With a reference edited before the first solution the charts hold points of two references. | `GuiSolverPanel.cpp` | `desk.cfg`, `PlotEarlyEdits = TRUE` |
| The window of the alignment does not slide: a sample that has left it fades but never goes. | `Aligner.cpp:134` | `desk.cfg`, INVARIANT `AliWindowSlides` |
| A fetch says "station not found" of a file that could not be read. | `GuiRefTruth.cpp:88` | `desk.cfg`, INVARIANT `RefTold` |
| A turn that a knock cuts in two counts as two turns in the scale. | `ImuCalibrator.cpp` | `desk.cfg`, `CalLogs <- BrokenTurns`, INVARIANT `CalScaleExact` |
| With an interval set that is not the data's, the statistics differ from one pass over the finished series. | `QCProcessor.cpp` | `desk.cfg`, INVARIANT `QcOneShotAtAnyInterval` |
| Points first counted as outliers and then found to be clock jumps stay in the count. | `QCProcessor.cpp` | `desk.cfg`, INVARIANT `QcOutliersAreMarked` |

### Visible in the models and worth knowing

* Downloads and libraries: an FTP `.part` that outgrew a replaced file is never dropped
  (`Oversized`); a directory that failed to list is not listed again in the session; every
  request starts `kDlWorkers` more threads; a crash during an in-place copy leaves a torn
  file that later checks take for current; a torn dated product, which has no archive
  beside it, counts as local, and so does a torn observation file if a second fault hits
  the very listing that restores it after the first; two fetches of a reference share one
  temporary path; the settings reader cuts a value at `#` and `;`.
* Readers: a binary file with a damaged length loses the intact frames inside the length
  it declares, where the socket reader finds them; an ephemeris of an issue already
  held is ignored even if its health changed; the RTK reader drops the first epoch of
  each file and takes a damaged record for its end (`rtkCut`), where the single-station reader
  reports it; epochs of flag 6 are decoded as observations; a record cut short takes the
  next one with it.
* SPP and RTK: systems with fewer equations than unknowns are accepted; the loop's `iter
  >= 15` is dead; GLONASS keeps the code combination of an earlier epoch; the base is
  estimated again while `refECEF` stays.
* PPP: a detector is fed several times in the epoch that initialises the filter; the
  smoothing count is never reset; a slip in an arc of fewer than 17 points is not
  confirmed.
* Tools: an edit of the reference begun before a fetch ended overwrites the fetched answer
  with the copy the frame was drawn with; the accelerometer of a calibration is called
  ready before its report is there, and a frame in between shows the rows of none; a run
  of an inertial tool may be begun while its worker has yet to leave, and is then waited
  for; a stop after the last check is ignored; all tabs of one mode share one product
  list; the axes of an alignment are not cleared by a new run (`startAlign`), which shows
  those of the last one until it has its own (`alignQ` is not modelled).

## 7. Plan

1. **Done**: `EpochStream`, `TaskPipeline` with proofs, `RtkPipeline`, `DualPair`,
   `Transfer`, `Remote`, `ProductStore`, `Receiver`.
2. **Done**: `Realtime`; the rest of the readers (`EphTable`, `RinexObs`, `RinexNav`,
   `CrxDecoder`); `QualityView` and `QcStream`; the discrete parts of the solvers
   (`PointSolve`, `PppFilter`, `RtkSolve`, `Lambda`); `DateStore`, `ProductChoice`,
   `RefTruth`; the inertial tools; charts, dates and time scales.
3. **Done**: theorems about `RtkPipeline`, `DualPair`, `EphTable`, `Transfer`, `CrxDecoder`,
   `Remote`, `ProductStore`, `DateStore`, `ProductChoice`, `Realtime`, `QualityView`,
   `RefTruth`, `InsRun`, `PlotView`, `AlignSeries`, `PointSolve`, `PppFilter`, `RtkSolve`,
   `Receiver`, `QcStream`.
4. Left to model: the ASCII log's framing, the solve bodies' own order of outputs,
   the window's tabs and their keys.
