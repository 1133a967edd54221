# A TLA+ model of the sensor service

The repository is a data-collection service: a C++ process captures cameras,
event cameras and IMUs and publishes what they deliver through rings in a POSIX
shared-memory segment; other processes (a logger that writes MCAP files, a web
frontend in Python, viewers through the Python bindings) read the rings without
any lock.  This directory holds TLA+ modules translated from that code, the TLC
configurations that check them on small instances, and TLAPS proofs of the
results that hold for every value of the constants.  Paths below are relative
to the root of the repository; `client.cpp:98` means that file, line 98.

To check a run: `tlc -config <run>.cfg <Module>`.  To check the proofs of a
module: `tlapm <Module>Proofs.tla`, with
the module of proofs that section 2 names.  `PROJECT.json` lists the runs, maps every
definition to the lines it stands for, gives one mutant of the code for every
property, and lists the hazards the properties are for.

## 1. The system

### Parts, their state and how they meet

| Part | Source | State | Operations | Meets |
|---|---|---|---|---|
| Master | `core/modules/shared_memory/master.cpp`, `ringbuffer.hpp` | the segment, its layout | create or take over, clear, describe, unlink | clients and the probe, through the segment |
| Client | `client/client.cpp` | mapping, pointer to one buffer | attach, `is_ready`, `get_head`, `get_frame_by_index` | master; base of reader and writer |
| Writer | `client/writer.cpp` | queue, stop flag, worker thread | `add`, worker loop, destructor | capture threads call `add`; readers see its stores |
| Reader | `client/reader.cpp` | none | `read`, `read_latest`, `read_oldest`, `read_absolute` | the writer's stores, with no lock |
| Logger | `logger/logger.cpp`, `stream_progress.hpp` | per stream: head and sequence expected next; stop flag | `run`, `_process_stream`, `request_stop` | a reader per stream, the MCAP file, signals |
| Log reader, schema, time mapper | `logger/log_reader.cpp`, `schema.hpp`, `steady_clock_unix_time_mapper.cpp` | none | encode, decode | files |
| Cameras | `camera/base_camera.cpp`, `v4l2_camera.cpp`, `pylon_camera.cpp` | life cycle, running flag, thread, device, buffers | constructor, `start`, `stop`, capture loop | driver; writer |
| Event cameras | `event_camera/*.cpp` | as cameras, with a thread that only waits and callbacks of the SDK | as cameras, `_on_cd_events` | SDK threads; writer |
| IMUs | `imu/*.cpp` | IIO context, buffer, thread, sequence | `start`, `stop`, capture loop | driver; writer |
| Main application | `core/start.cpp`, the three `*_module.cpp` | the master and the modules of one scope, a flag set by signals | make and start everything, wait, stop in reverse, destroy | all of the above |
| Processes of the collector | `python/web_collector.py` | two child processes, readers, error, one lock | requests, collector thread, `close` | both processes, the segment |
| Sensors of the collector and the page | `python/web_collector.py` | per sensor: last number, payload with its JPEG, statistics; per page: counters, the image shown | `update`, `camera_frame_bytes`, `snapshot`; the timers of the page | readers; requests of several threads |
| Recorders | `python/dataset_collection/record*.py` and the recorders | output directory, threads, files, counts | start one by one, record, stop, manifest | SDKs; no shared memory |
| Clock of the recordings | `dataset_collection/clock.py` | warm-up buffer, anchor, sums of a fit | `to_host_ns` | recorders |
| Readers of the recordings | `visualize_dataset.py`, `visualize_events.py`, `analyze_latency.py`, `event_denoise.py` | when each pixel last fired | chunk, denoise, render, match, fit | files |
| Offline tools | calibration, plots, conversion | none | one input file, one output | files |

Data goes one way: driver, capture thread, `add`, queue, worker thread, slot of
a ring, reader, log or web page.  Control goes the other way: the web collector
starts and stops the two processes, signals stop their loops, destructors join
their threads.  The recorders of `dataset_collection` are a program of their
own beside this; they share no code and no memory with it.

### What is hard here

* The ring has no lock.  A reader sees a slot while it is written, or after it
  was written again; the only defence is a checksum over the payload.
* Only head and sequence of a buffer are atomic.  The fields of a frame are plain
  memory, and nothing orders their stores, nor a reader's loads, among each other
  on a machine with weak ordering.
* Heads and sequence numbers are words of 32 bits, compared, subtracted and
  reduced modulo the ring size, with a mixture of signed and unsigned types.  No
  ring of the shipped configurations (300, 2000, 8000 and 10000 slots) divides
  2^32, so the reduction of a negative number goes wrong in each of them.
* The logger follows a ring that overtakes it, and decides between reading slot
  after slot and jumping to the newest frame from two numbers read earlier.
* The queue of a writer is a condition variable with several notifiers, and its
  destructor must drain it.
* The segment outlives a crash of its master and is taken over by the next one
  while clients of the old one are inside.  Nothing says when it is complete.
* The web collector polls processes that come and go by themselves.
* A camera is stopped from another thread than the one that is copying out of
  its buffers, while the driver fills others.
* The main application makes and starts sensors one after the other; each can
  fail at every step, and an exception leads into destructors with threads and
  callbacks under way.
* JPEGs are made outside the lock of the sensor and stored under it; the page
  sends requests that overtake each other, and numbers start over.
* A recording stops its threads with flags and joins that give up; files are
  closed and counts reported while such a thread may still run.

### What makes each part correct

| Part | Correct means | Stated as |
|---|---|---|
| Ring | a read the writer does not catch up with is exact; one it laps is torn in known ways only | `ExactInWindow`, `TornShape`, `SequenceFollowsHead` |
| Writer queue | accepted entries are settled once, in order, before the worker ends; nobody sleeps through a notification | `ImplementsStream`, `DrainedAtExit`, `NoLostWakeup`, `DestructorReturns` |
| Logger | the log is in order, a gap in it begins with a lost frame and is a ring long at least, the newest frame is reached, a stop is honoured | `LoggedIncreasing`, `GapsAreLaps`, `CatchesUp`, `StopEnds` |
| Segment | a client attaches to a finished segment, and the probe recognises one | `TrustedAttach`, `ProbeSeesService` |
| Camera | no copy out of a buffer that is unmapped or the driver's, a true running flag, no buffer kept, `stop` returns | `CopiesItsOwn`, `RunningMeansCapturing`, `BuffersCirculate`, `StopReturns` |
| Main application | threads and callbacks find device, object and segment; a broken sensor leaves the others running; nothing stays open but the descriptor of a V4L2 camera whose constructor threw; a signal ends it | `UsesWhatExists`, `BrokenStaysAlone`, `NothingLeftOpen`, `ServiceEnds` |
| Processes of the collector | an error leaves nothing running, the logger stops first, readiness and exits are reported truly, the lock is released | `FatalMeansDown`, `LoggerStopsFirst`, `ReadyIsReal`, `ExitsAreToldApart`, `LockIsReleased` |
| Sensors and page | a cached JPEG is of the frame beside it; a page goes forward and comes to show the last frame the collector has; the collector counts again only what the numbers went back over, a page counts no number twice | `CachedIsCurrent`, `ImagesGoForward`, `CountsOnce`, `PageCatchesUp` |
| Recorders | a start that fails stops what was started; counts are rows, but for one item of a thread that failed or outlived its join; files outlive their threads; nobody's directory is reused; a run ends | `StopsWhatStarted`, `CountsItsRows`, `FilesOutliveThreads`, `OwnDirectory`, `SessionEnds` |
| Clock, readers of recordings | the line fits all samples seen, exactly without jitter; drops are gaps; events are judged by their neighbours and shown once; the analyses agree | `FitsEverySample`, `ExactWithoutJitter`, `DropsAreGaps`, `KeepsSupported`, `EveryEventShown`, `AnalysisAgrees` |

## 2. The modules

```
RingIndex ----- FrameRing ------ MCFrameRing       FrameRingProofs
     \
      StreamLogger                                 StreamLoggerProofs
FrameStream <-- WriterQueue ---- MCWriterQueue     WorkerProofs
SharedSegment -- MCSharedSegment                   SharedSegmentProofs
Capture                                            WorkerProofs
Service ------- MCService                          ServiceProofs
Collector                                          WebCollectorProofs
Sensor                                             WebCollectorProofs
Session                                            SessionProofs
ClockAnchor --- Timeline ------- Playback          DatasetProofs
```

(a line: EXTENDS; the arrow: refinement with INSTANCE; in the last column the
module of proofs that extends those of its line)

**RingIndex** is the arithmetic of a ring: `GetHead` is `get_head` with its
conversions between `int32_t` and `uint32_t`; `Word` stands for 2^32.

**FrameRing** composes a writer thread and a reader at the grain of single
loads and stores of the shared frame.  `BeginWrite` takes an entry;
`StoreTimestamp`, `StoreChunk`, `StoreChecksum` and `StoreSequence` become visible
in any order, and `StoreHead` and `StoreBufferSequence` are the two atomic stores.
A read picks its slot from one load of `head` (`StartRead`, `StartReadAbsolute`);
its loads (`SumChunk`, `LoadChecksum`, `CopyChunk`, `TakeSequence`,
`TakeTimestamp`) happen in any order, those that fill the entry also before the
comparison of the checksums that decides over it (`Deliver`, `Reject`); only the two
loads of one chunk keep their order.  The reason is that the fields of a frame are
plain memory: the call of `crc32` in `writer.cpp:146` and `reader.cpp:25` keeps the
compiler from moving an access across it, and does nothing to a machine that is
weakly ordered, as the ARM boards are.  What is left in order is what the atomics
order: no store of an entry is seen before the sequentially consistent load of
head that begins it, none after the release store of the head that publishes it.
A payload is a function from chunks to the entry each chunk came from, so that a
mixture is visible; a checksum is the payload it was taken of.

**WriterQueue** has one action per critical section of `_queue_mutex`, and
notifications as steps after it that are lost if nobody waits.  Waking without
cause is possible.  **FrameStream** says what a writer promises without queue,
mutex or thread, and `WriterQueue` implements it: what was accepted is the
abstract list, what left the worker's hands is settled.  Its specification is
called `QueueSpec`, since `WorkerProofs` extends it together with Capture.

**StreamLogger** is the worker of one stream beside the writer of its ring:
`run` and `_process_stream` with their early returns, the resync, the drain and
the stop flag that is read between two calls only.  What a read may return when
it meets the writer is taken from FrameRing: nothing, one of two frames, or the
label of one with the payload of the other.  `Aim` asks for the newest frame by
`get_head(1)`, so at head 0 of a ring that does not divide the word the logger is
sent to another slot, here as in the code.

**SharedSegment** is the life of the segment: `shm_open`, `ftruncate`, `memset`,
the stores of the metadata, unlinking, a crash at every step; clients walking
from buffer to buffer to find theirs; the probe of the web collector.  A segment
is the set of its parts that are written, and parts may be seen in any order.

**Capture** is a camera: `start` and `stop` of `Camera` in the order of their
assignments, the capture loop of `V4L2Camera` with each way out of it, and the
driver as an external actor that is given buffers and gives them back.  Its
variables are the members of the two classes; `filled` is the driver's queue of
finished frames, ordered by their sequence numbers.

**Service** is the main application: the master, the camera, event-camera and IMU
modules and the threads of all their sensors.  What the main thread does is a list
of jobs, built from the configuration (`StartUp`, `ShutDown`, `Unwind`): create
the master, make, start, stop or destroy a sensor, unlink.  `todo` has those still
to come, and `step` is where the main thread is in the first of them, along
`FirstStep` and `NextStep`: open, arm (begin streaming) and spawn for a start;
lower the flag, halt the device, join the thread and release for a stop; the same,
then scrap and free, for a destructor.  `Main` takes the step, or passes over the
job where the code returns early (`Applies`, `Stoppable`). `MakeFails`, `ArmFails`
and `SpawnFails` are what the constructor, the device and `std::thread` may refuse
(the constructor of a V4L2 camera may throw with its descriptor open, for a format
that `v4l2_camera.cpp:151` does not find in its table; no destructor runs then,
and the descriptor is `leaked`), caught for cameras and event cameras, an
exception that ends the service for an IMU that cannot be made or spawned.  The
threads (`TestFlag`, `Wait`, `Refill`, `Add`) have the three loops, with an IMU
that has no descriptor to poll blocking in `refill`; `CallBack` is the SDK of the
event camera on a thread of its own; `Unplug` takes a Pylon camera away. Capture
has a single camera at a finer grain, with its buffers.

**Collector** is `DataCollectorState`: a request takes the lock and keeps it to
its end, waits for processes included; meanwhile the processes go on by
themselves.  `Requests` are the requests and the collector thread entering
(`Take`), `Holder` the steps of whoever has the lock up to `Release`, and
`Processes` the two programs coming up, serving, exiting and crashing.

**Sensor** is one stream on its way to the page.  `Publish` and `Restart` are what
the shared memory shows of the main application, and `Latest` is what a read of
the newest frame gives: the newest but when the head is 0, where it is the frame
in the slot `AtZero` that `get_head(1)` names then (`client.cpp:98`; slot 195 of
300, a frame 104 older than the newest).  `Update` and `UpdateGoesBack` are
`_SensorState.update`, which takes a number that went back, as it does at every
end of a lap for that reason, but leaves the payload as it was; `TakeFrame`,
`Encode` and `ServeCached` are the three parts of `camera_frame_bytes`, only the
first and the storing of the last under the lock; `Poll` and `Apply`, `AskFrame`
and `ShowFrame` are the two timers of the page's script and the answers they wait
for, with `inFlight` for frames and without it for the state.

**Session** is one run of a recording script.  `Plan` gives for each script the
groups of devices, the order in which devices start (`starts`) and stop
(`stops`), which groups need a device (`needs`) and whether a failure is caught
(`guarded`); the jobs of `todo` start or stop a device or close the files of a
group.  `Main` claims a directory (`NameIsFree` and `MakeDirectory` are two
steps, another recording may come between), starts, waits, stops with a flag and
a join that may give up, closes files and writes the manifest.  Each device has
its thread: the loop test, which may find the camera not grabbing any more
(`LoopEnds`), a fetch that may return nothing, raise (`FetchFails`) or never return,
the count, and the callback that writes a row.  A batch of events is written first
and counted afterwards, two steps (`BeginsBatch`, `WritesBatch`, `CountsBatch`) with
a disk that may be full between them (`WriteFails`, which may leave a part of the
batch); a thread that outlived its join does them beside the close of its file and
the report of its count.

**ClockAnchor** translates `ClockAnchor.to_host_ns` with rational numbers in the
place of floats.  **Timeline** makes the contents of a recording with it: the
rows of a camera, whose blocks may be skipped, fail or wrap their IDs, or the
events of an event camera in chunks.  **Playback** reads such a recording back
as the two renderers do (filter, sort, chunk, denoise, convert the video) and
has the nearest match, the drift and the frame rates of the analyses as
operators.

The `MC` modules only give names to the values of constants.

## 3. What is checked

### Runs that pass

| Run | Instance | What it shows |
|---|---|---|
| `frame_ring` | 3 slots, words of 8 values (which 3 does not divide), payloads of 2 chunks, full or short, 4 publications, requests for the newest, the oldest and the head, plain loads and stores in any order | reads that the writer does not catch up with are exact; lapped ones are torn only as `TornShape` says |
| `writer_queue` | 2 threads, 3 entries, some too long | no wake-up is lost, the refinement of `FrameStream` (all is settled in order before the end), the destructor returns |
| `logger` | 3 slots, words of 16 values (which 3 does not divide), 6 frames of four kinds: good, unwritable, throwing, unreadable | order, gaps only from a lost frame and of a ring at least, catching up, stopping |
| `segment` | 2 rings, 2 memory objects, 1 client, any number of crashes and restarts | attachment, the probe |
| `capture` | 3 buffers, 4 frames, every second one kept | safe copies, the running flag, circulation of buffers, `stop` returns |
| `service` | two cameras and an event camera; one sensor of each kind; a camera and two IMUs | threads and callbacks find what they use, a failure stays with its sensor, nothing is left open but a descriptor leaked by a constructor, a signal ends the service |
| `collector` | all of it: the model has no constants and no bounds | errors, order of stopping, truth of what is reported, release of the lock |
| `sensor` | a camera of 4 frames in a ring of 3 slots, numbers modulo 4, one restart, a page with two answers under way, another client | the cache, the image that only goes forward, the counts, catching up; all of it with the older frame that is read at the end of a lap |
| `session` | every script, four configurations, 1 item a device, 2 directories | unwinding, counts (also where a write fails half way or a thread is late), files, directories, the end |
| `dataset` | a camera of up to 6 blocks, IDs that wrap after 5, latencies of 0 and 3 ns; 2 chunks of an event camera with a line of 3 pixels and times up to 3; a microsecond of 2 ns and a window of 2 of them | the clock, the drops, the analyses; the events through denoising, chunks and video, in the unit of each renderer |

### Runs that find a disagreement

| Run | Property | What the code does |
|---|---|---|
| `probe_events` | `ProbeSeesService` | the probe counts cameras and IMUs, the master makes a ring for event cameras as well; the frontend never sees the service as ready |
| `session_startup` | `StopsWhatStarted` | if the gyroscope, the last device, fails to start, the accelerometer started before it is neither stopped nor closed (`record.py:145`) |

The findings in `PROJECT.json` quote the line of the documentation or the
comment each of them contradicts.

### Known deviations, with configurations to run by hand

Each of these lets TLC find a behaviour of the code that its comments, tests or
plain sense do not expect.  They are kept to see whether a change of the code
removes it.

| `tlc -config` | Module, property | What the code does |
|---|---|---|
| `latest_wrap.cfg` | `MCFrameRing`, `LatestIsNewest` | with a ring of three slots (as with 300, 2000, 8000 and 10000 in the shipped configurations) `get_head(1)` names a wrong slot at head 0: `client.cpp:98` goes negative and is reduced as an unsigned number |
| `logger_wrap.cfg` | `StreamLogger`, `LogsTheNewest` | for that reason a source that pauses with the head at 0 leaves its newest frame unlogged |
| `sensor_lap.cfg` | `Sensor`, `NeverCountsAgain` | for that reason too, the frontend reads an older frame once a lap, and its statistics count the numbers since that one again (`web_collector.py:384-390`) |
| `torn_delivery.cfg` | `MCFrameRing`, `DeliversWhatItVerified` | the checksum is taken in one pass and the payload copied in another (`reader.cpp:25`); what is delivered need not be what was verified |
| `logger_bad_frame.cfg` | `StreamLogger`, `LogsTheNewest` | a frame that cannot be read or written is not skipped: the stream waits at it until the writer overwrites it |
| `logger_subsample.cfg` | `StreamLogger`, `GapsAreLaps` | distances of sequence numbers are taken for numbers of slots (`stream_progress.hpp:24`); with `subsample_factor` above one the logger jumps over frames that are still there |
| `collector_leftover.cfg` | `Collector`, `EarlyExitReported` | the segment of a killed process is taken for that of the next one, whose early exit then goes unreported |
| `service_leak.cfg` | `MCService`, `EveryDeviceClosed` | the constructor of `V4L2Camera` opens the device (`v4l2_camera.cpp:53`) and may throw afterwards (`:151`); its destructor does not run, nothing else closes the descriptor, and the module goes on without the camera |
| `denoise_units.cfg` | `Playback`, `KeepsMicroseconds` | `visualize_dataset.py:278-282` gives times in nanoseconds to a filter whose threshold is in microseconds; the option is documented in microseconds (`:103-104`), so the default window of 10 ms is one of 10 us |

Two comments say less than the code without being wrong about behaviour:
`writer.cpp:154` speaks of a pre-increment where the new head is computed and
stored, and `ringbuffer.hpp:14` calls the sequence "incremented by writer" where
the source supplies it.

What the properties of Sensor leave room for is known too.  `CountsOnce` says of
the collector exactly what it counts: the numbers since the first it saw, and
again those over which the numbers went back (`wentBack`), which they do at every
end of a lap.  Of a page it says that it has counted no number twice as long as
they have not gone back; after that a page counts some of them again as the
collector does.  An answer without a number, from before the first frame, that
arrives after two later ones makes the page forget the number it compares with
(`updateSummaryState` stores what the answer says, also when it says nothing), and
an answer overtaken by the next is then counted twice.  The history variable
`astray` names the pages either of this has happened to.  A page whose
`renderedSequence` happens to equal a number that has come back keeps the old image
until the next frame (the second disjunct of `PageCatchesUp`, which needs that the
numbers have started over or gone back).  "The last frame" is there the last the
collector has, which is not that of the ring if the source pauses at head 0.

`StopEnds` is no promise that a stop takes effect at once: the logger looks at the
flag between two calls of `_process_stream` only, and a call goes on as long as it
finds frames, so against a source that never pauses it may not come to it.  The
source of the run does pause, having a last frame.

### Bounds, and why they are enough

* Ring: the interesting cases are a reader that is passed within a lap, by exactly
  a lap and by more.  Three slots and four publications have the last one replace
  the first, and begin with slots that were never filled; how much further the
  writer is makes no difference, since both look at a slot and at ages within a
  lap only, and the proofs have no bound.  `Word` is not a multiple of the ring
  size: 8 leaves the remainder 2 with 3, where 2^32 leaves 196 with 300.  Two
  chunks are what a mixture takes, and a third slot beside the one written and the
  one read shows that they are told apart.  Sequence numbers stay below the word.
* Queue: two producers are needed for a notification that is overtaken by
  another thread's entry; three entries let the queue hold one while another is
  written and a third is added.  Producers are alike, they do not know of each
  other.
* Logger: three slots and six frames overtake it twice, once for the resync and
  once more behind it, and bring the head to 0 twice, where the slot of the newest
  frame is not found.
* Segment: clients only read, so one of them sees whatever any of them can;
  two objects are the old and the new one, and an object nobody has mapped can
  be used again.  Every life of the master has the same configuration.
* Capture: three buffers are one with the worker, one filled and one queued;
  four frames make the subsampling drop and keep twice.
* Service: sensors meet only in the list of jobs of the main thread and in the
  scope they share, so what matters is which kind comes before or after which.
  The three configurations have every kind beside every other, two sensors of a
  module, and an IMU after another that may have failed.  No counter is bounded.
* Collector: no bound.  Requests that the code refuses change nothing and are
  left out.
* Sensor: four frames in three slots are a lap and the frame after it; numbers
  modulo four wrap and, after a restart, come back to one seen before.  `AtZero` is
  the slot read at head 0, whichever it is: 0 gives the oldest frame of the
  ring, where slot 195 of 300 gives one in the middle.  Two answers under way are what
  overtaking takes; the second client is the one that fetches a frame between the
  page's reading and storing.  IMUs, numbers that skip some, more answers and any
  other ring and slot are left to the proofs, which cover them.
* Session: one item per device is enough for a count ahead of its row, for a batch
  ahead of its count, for a row after the file was closed, and for `record_basler`
  to end by itself; a second directory is the one tried when the first is taken.
* Dataset: the warm-up has three samples, so six blocks leave up to three after
  it; gaps of one and two skip a block or none; a line of three pixels with radius
  one has pixels that are neighbours and pixels that are not; times up to three are
  more than a window of two long, so that a neighbour may have fired too long ago;
  two nanoseconds in a microsecond tell the units of the two renderers apart.

`CHECK_DEADLOCK FALSE` stands where the system may really stop: a destroyed
writer, a logger or a service that has ended, a stopped camera, a recording that
is done; and where a bounded source has used up its frames.

### Fairness

* `WriterQueue`: the worker's steps and those of the destructor and of `add`
  once begun are fair; they are runnable threads that wait for nothing but a
  mutex held for a bounded time.  Producers need not call `add`.
* `StreamLogger`: the worker is fair; the source is not, except that it finishes
  a frame it has begun to store.  `CatchesUp` and `StopEnds` speak of a source
  that pauses: a source may outrun the logger for ever and the code promises
  nothing then.
* `SharedSegment`: only safety and action properties, no fairness needed.
* `Capture`: the worker is fair, since `poll` returns within 100 ms, and so are
  `start` and `stop` once called.  Nobody has to call them and no frame has to
  arrive.
* `Service`: the main thread is fair: it waits for nothing but joins.  Workers
  are fair, but a `refill` without a descriptor returns only once its buffer is
  cancelled (`RefillReturns`).  A callback of the SDK ends, and the destructor of
  an event camera gets its turn between two callbacks (strong fairness), as the
  SDK's own join grants it.  Nobody has to send a signal, nothing has to fail.
* `Collector`: the holder of the lock is fair; processes are not, they may hang
  for ever.  A process that was asked to terminate is killed after five seconds
  (`web_collector.py:493`), which the model has as a step that is always
  possible; SIGKILL works.
* `Sensor`: the threads of collector and server run and the timers of the page
  fire (weak fairness); strong fairness of `Apply` and `ShowFrame` says that not
  every answer to a page is lost for ever.  No frame has to be published.
* `Session`: the main thread alone is fair, because its joins have timeouts.  The
  threads of the devices are not: a fetch may never return, and `SessionEnds`
  holds all the same.
* `Playback` has safety properties only.

## 4. What is proved

All proofs hold for every value of the constants that satisfies the named
ASSUME of the module, with no bound on the length of behaviours.

**FrameRingProofs.**  The invariant `Inv` of FrameRing has a part about the ring
(`RingInv`: a settled slot holds exactly the entry its place says, nothing in the
one being written is older than the entry it replaces, and what the writer has
stored of the new one is there) and parts about the read in progress (`WindowRead`
while the writer has not caught up, `LappedRead` after, which bounds how old a
chunk can be).  Neither suffices alone: what a read has seen is related to the
entry it is after only through the slot.  `ReadsAreExact` and
`TornReadsAreBounded` hold for every ring, whether or not it divides the word,
every payload and every order in which plain loads and stores take effect.  A read
that is sent to a wrong slot is for the entry of that slot;
`ReadsAreForTheirIndex` says when that is the entry its index means: for every
index up to the head, so always for the oldest, and for the latest at every head
but 0.  `SequenceIsAnnounced` and `TypeCorrect` are of the same kind.
`GetHeadCountsBack` is about RingIndex alone: `get_head(k)` is the slot filled `k`
publications ago exactly if the head is at `k` or beyond or the ring size divides
the number of values of a word.  The first is what the shipped rings rest on; the
other direction shows that on each of them the case `latest_wrap` finds is real.

**WorkerProofs.** Of the camera: `LifeCycle` says what start, stop and the
thread know of each other, `BufferOrder` that no buffer is in two places and
that none is anywhere once unmapped. `CopiesAreSafe` needs both: that stop has
joined the thread before it unmaps, and that a dequeued buffer is not the
driver's. `FlagIsTrue` and `BuffersComeBack` follow from the first, and from the
buffers alone. Type correctness needs `LifeCycle` too: only it tells that start
finds no thread with a buffer in its hands. Of the writer: `WakeupsArrive` says
that a worker asleep on work or on a stop has a notification to come,
`WorkerDrains` that it ends only when everything is settled; it follows from
`Ledger`, which says that the queue and the worker's hands are the unsettled
tail of what was accepted. `QueueImplementsStream`: each step is a step of
FrameStream or changes nothing there.

**StreamLoggerProofs.**  `LogIsOrdered`: the log is strictly increasing, from
`LogBehind` (nothing logged is ahead of the sequence expected next).  It holds
even where `get_head` is wrong, since the logger compares the label it has read.
`OnlyLapsAreSkipped`: a gap in the log begins with a frame that was overwritten, and
goes at least a whole ring further, for every size of the ring, whether it divides
the word or not, under the hypothesis `Consecutive` (the source numbers its frames
one after the other) that `logger_subsample.cfg` lacks; a log with a frame numbered
0, read while its slot was first filled, is left out.  That is all the code
promises: a resync jumps to the newest frame it read and gives up the frames before
that one, up to a ring less one, that are still there (`logger.cpp:496-515`).
`LapHeld` says that a slot holds nothing or a frame of the last lap whose
number tells its slot, and `InPlace` that the logger is in the slot of the frame
it expects, which is the one after the last it logged unless that is overwritten.

**SharedSegmentProofs.**  The invariant relates what a client has seen on its walk
to the parts the master has written, and drops the relation when a master begins
to clear.  `AttachesWhenTrusted`, and `ProbeIsRight`, which assumes that the probe
expects the buffers the master makes: the assumption that `probe_events` shows to
fail for the default configuration.

**WebCollectorProofs.**  Of Collector, which has no constants, so that the proofs
add to the run not more cases but the reason: `CollectorInv` has a part for each
question.  `Errors`: what still runs once an error is noted runs because the
holder of the lock is on its way to stop it, and it never attaches, makes readers
or starts a logger then.  `Stopping`: a process is asked to terminate only by a
holder that awaits it, and the main application only after the logger is known not
to run.  `Attachment`: as long as the main application found no segment of an
earlier life, the segment in the file system tells its phase, and readers imply
that it has served.  `ErrorLeavesNothing`, `LoggerIsStopped`, `ReadersAreCurrent`
and `ExitsAreKnown` follow from one part or two.  Of Sensor: `CacheIsCurrent`: the
JPEG beside a frame is of that frame. The request encodes outside the lock and
stores under it only if the sensor still has both the number and the very frame it
took; the mutant that trusts the number alone fails, since numbers come back.
`ImagesNeverGoBack`: no step of any page replaces an image by an older one.  Its
invariant `FramesInOrder` says that a frame on its way (in the sensor, held by a
request, shown by a page) is no newer than those before it, and rests on
`CachedIsCurrent`, since a page is served from the cache too, and on
`SourceInOrder`, which deals with the older frame that is read at head 0: the
sensor takes its number and its time and not the frame, and takes another one only
when its time has passed that of the frame it has. `NumbersCountOnce` is
`CountsOnce` for any ring and slot, any gaps, any kind of stream, and any number
of pages and of answers under way.  `SensorCounts` is the sum that the collector
keeps.  `PageCounts` says that the numbers an answer stands for, an interval up to
its own, lie after every smaller number that the page has or that another answer
is about to bring, and that two answers with one number agree; so what an answer
adds is either counted already or new as a whole, in whatever order they arrive,
and the count is the cardinality of what was counted.  Where the numbers go back
no such order is left, which is why it speaks of the pages that are not `astray`.

**ServiceProofs.**  For any sensors and any configurations, which may name any
number of them in any order: `EverythingUsedExists`, `BrokenSensorStaysAlone`,
`NothingIsLeftOpen` (but for a descriptor that `MakeFails` leaked, which belongs
to a V4L2 camera that is broken from then on), `TypeCorrect`.  None of them is
inductive: what makes a device safe to use is what the main thread has not done
yet.  `IInv` therefore speaks of the list of jobs.  `JobsInOrder` says which lists
can be left over at all (a suffix of the one the phase began with, in an order
that `Precedes` keeps), `StopsOne` which job is at which step, `Name` that the
segment has a name until the very last job.  For each sensor `Making` and `Sound`
relate its state to the jobs that are to make and start it, `Held` says that one
whose device is open while the scope is left has its destructor to come, `Ending`
and `ImuHeld` what a stop under way has reached, and `CalledBack` between which of
its steps an SDK may call.  The longest part of the proof is about lists: which
jobs a concatenation of lists has, that it keeps their order, and that the tail of
a list does too.

**SessionProofs.**  For any of the scripts, any configuration of theirs, any
devices that may fail and any bounds.  `IInv` has for each device: a thread that
runs finds its files open unless its join was given up (`Filed`), what it counted
is what it wrote or one more, and of batches what it wrote is what it counted or one
more (`Counted`), what is in the manifest goes out of step with the file by one item
at most afterwards (`Manifested`: the files are closed by then, so only a batch
under way can still arrive), and a device that runs has its stop still
to come, before the close of its group (`Stopped`); that a failed start unwinds
what it must rests on what was started having a smaller rank than what is to be
started (`Planned`).  `FilesStayOpen` and `ManifestCountsRows` (which is
wrong by one item at most, of a thread that failed or outlived its join) follow.
`StartedIsStopped` has the hypothesis that the gyroscope is not among the
devices that may fail: the run `session_startup` shows that the code needs it.
`DirectoryIsOurs`: from the moment a run has its directory nobody else has, with
any number of recordings started beside it.

**DatasetProofs.**  For any latencies, gaps between blocks, modulus of the block
IDs, length of the warm-up, and rates of the two clocks.  The recording clock
forgets: once the warm-up is over it keeps two sums in the place of the samples.
`CameraInv` says what they stand for: rows are of blocks in the order they were
sent (`RowsInOrder`); a clock that warms up has every sample in its buffer, an
anchored one the sums over all the rows (`ClockSaw`); where every latency was the
same its line is the true one (`ClockIsTrue`); rows and drops together are the
blocks between the first and the last, or fewer if the IDs wrapped
(`Accounted`).  `FitIsExact`, `NoJump` and `DropsAreReal` follow.  They rest on
lemmas about sums (a sum over a longer sequence, over equal terms, over terms
that are in proportion), which are proved for recursive functions by
well-founded induction over an interval, with a set of numbers in the place of
the predicate; on the least-squares line through points of a line being that
line; and on the rounding of an exact quotient being exact.  `AnalysisIsRight` is
about what is read back: the ranks of a stable sort are a permutation (an
injection of a finite set into itself is onto), the nearest of all references is
one of the two neighbours of the place where a time would be sorted in, and sums
of differences between neighbours telescope, so that both tools have the same
frame rate.

For the event camera and the two renderers, any sensor, any chunks, any filter and
any duration of a frame, the invariant is `ReadInv`.  While recording, the events
are in the order of time through all the chunks (`EventInv`); what the video shows
before frame `k` is the records before it in a stable sort (`FramesShown`), what
the heat map has after `k` chunks is the valid events of these chunks and none of
them is after an event still to come (`EventsShown`); the video has its
intermediate file from the first frame to the last (`VideoInv`); and the filter
remembers the last time of every pixel among the events played and has judged each
of them by its neighbours (`FilterInv`, with `Remembers` and `Supported`).
`EveryEventIsShown` follows from the frames following each other without a gap up
to the last record (`FramesTile`), and `EventsAreSupported` from the order: the
last time of a pixel is enough to know whether it fired recently.  It holds in
both renderers in the unit of the times they give to the filter: microseconds in
`visualize_events.py`, nanoseconds in `visualize_dataset.py`, whatever the option
says; that the window is as long as the option says (`KeepsMicroseconds`) is false
of the second, as `denoise_units` shows. The hypothesis is that no time is so
early that the window of the filter reaches the sentinel of a pixel that never
fired (`TimesAreLate`): the sentinel of the model is -10^6 for times from 0, that
of the code -10^15.  `Valid`, `Denoise` and `FlattenSeq` are recursive functions;
what they compute is shown by existence of the function (`ChainExists`) and
induction over the places of one sequence, not by an induction theorem over all
sequences.

The type invariants, `SequenceIsAnnounced` and `WorkerDrains` are proved and no
longer part of a run: a state in which one of them fails would be one of a
module whose proof has been checked.

Only model-checked: everything under fairness (`DestructorReturns`, `CatchesUp`,
`StopEnds`, `LockIsReleased`, `StopReturns`, `ServiceEnds`,
`PageCatchesUp`, `SessionEnds`) and the liveness part of `ImplementsStream`;
liveness and ENABLED are beyond the prover.  `StopsWhatStarted` without its
hypothesis is false, and so are the properties of the configurations to be run by
hand: `LatestIsNewest`, `NeverCountsAgain`, `EveryDeviceClosed`, `KeepsMicroseconds`,
and `LogsTheNewest` and `GapsAreLaps` on the instances given there.

## 5. What is abstracted, and what is not modelled

* CRC32 is taken to be free of collisions.
* The result of a transform is taken to fit its slot; the code checks the size
  before the transform only (`writer.cpp:120`).
* Allocation does not fail, and `mmap` of a camera's buffer does not
  (`v4l2_camera.cpp:275` does not test it).
* Sequence numbers do not wrap, but for those of Sensor and the block IDs of
  Timeline.
* Names have no length: cutting at 31 characters (`master.cpp:131`), which the
  client does not do, is left out.
* One writer per ring: the service makes one, the library does not enforce it.
* Clients of one segment do not meet; their order is irrelevant.
* In Capture one thread calls start and stop, as in `start.cpp` and in the
  destructor; STREAMON that fails changes nothing; settings of the device that
  are never read back are left out.
* In Service the frames are left out: an `add` is one step, since WriterQueue has
  what follows it.  Cutting a batch of events into entries and converting their
  times are loops over one array on one thread.  That the SDK's `stop` and
  destructor wait for a callback under way is an assumption about it.  A `stop`
  of the SDK that fails leaves callbacks coming while the object is destroyed:
  the conversion buffer (declared last in `prophesee_event_camera.hpp`) may be
  gone before the SDK's camera, which `UsesWhatExists` exempts.  An IMU that
  cannot be read any more is asked again for ever (`imu_device.cpp:171`).
* In Collector the path of the log and changes of the configuration are left
  out, and the look at a process and the signal to it are one step
  (`web_collector.py:688`).
* In Sensor one stream stands for all; mean and deviation are not computed.
* In Session every Basler camera sends at most `MaxItems` frames, an image that
  cannot be written to disk is not noticed by the code (`rgb_rig.py:74`) and is
  not by the model, and statistics of the monitor are left out.
* In Playback the times in the filter are integers; the code has them as doubles,
  which near the present time in nanoseconds (1.7e18) are 256 ns apart.
* In ClockAnchor floats are rationals.  A latency of the last sample of the
  warm-up that exceeds the interval between frames by a third or more makes the
  first converted time fall before the last observed one; the code promises no
  order there and no property speaks of it.
* Not modelled: the queue that grows without limit when the transform is slower
  than the source (`writer.cpp:74`), which no state of the model could contradict;
  a segment of another configuration truncated under its clients
  (`master.cpp:84`), and a logger still attached to the segment that a new master
  clears (`master.cpp:106`, `web_collector.py:635`), which need several
  configurations and clients that live through several segments; processes that
  outlive a collector that was killed (`web_collector.py:484`), and requests
  after its `close` (`web_collector.py:540`); signals before the logger exists
  (`log.cpp:26`, `log.cpp:48`); a camera whose thread cannot be made keeps its
  device's buffers (`base_camera.cpp:33`).
* Not modelled at all: reading YAML, HTML and HTTP formatting, image encoding,
  colour arithmetic, calibration, offline plots and converters, continuous
  integration, hardware descriptions, containers.  `PROJECT.json` lists each
  with its reason.

## 6. What could follow

1. A Collector with the segment of SharedSegment inside it, and a master with a
   configuration per life, for the hazards of a stale segment.
2. LogCodec: fields, base64 and time stamps of log records against reference
   definitions, on bounded inputs.
3. Payload sizes: transforms against `size_per_frame`.
